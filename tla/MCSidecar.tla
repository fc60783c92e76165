----------------------------- MODULE MCSidecar -----------------------------
EXTENDS SidecarProperties

\* All threads end in time, or those of a silent worker, which is only sent
\* shutdown requests, outlast their joins.
MCLimits ==
  {[requests |-> 2, lines |-> 1, joinsExpire |-> FALSE],
   [requests |-> 0, lines |-> 0, joinsExpire |-> TRUE]}

MCOutlasting == {[requests |-> 1, lines |-> 2, joinsExpire |-> TRUE]}

MCInTime == {[requests |-> 1, lines |-> 1, joinsExpire |-> FALSE]}
=============================================================================
