---------------------------- MODULE MCWorkerStream ----------------------------
\* The worker serving Streams: after the handshake the client sends any mix of
\* Stream requests and cancels.
EXTENDS WorkerInvariant

MCPrologue ==
  <<{"hello"}, {"load_model"}, {"stream_start"}>>
=============================================================================
