-------------------------- MODULE MCWorkerShutdown --------------------------
\* The worker is told to shut down while an operation waits for requests.
EXTENDS WorkerProperties

MCPrologue ==
  <<{"load_model"}, {"hello"}, {"load_model"}, {"stream_start", "track_start"},
    {"stream_settings", "track_chunk"}, {"stream_settings", "track_prepare"}>>
=============================================================================
