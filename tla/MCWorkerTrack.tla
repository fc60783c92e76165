---------------------------- MODULE MCWorkerTrack ----------------------------
\* The worker from its first line on, serving a Selected track, or the
\* settings of a Stream, with the scheduling its two threads get.
EXTENDS WorkerInvariant

MCPrologue ==
  <<{"load_model"}, {"hello"}, {"load_model"}, {"stream_start", "track_start"},
    {"stream_settings", "track_chunk"}>>
=============================================================================
