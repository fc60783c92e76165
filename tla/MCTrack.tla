------------------------------ MODULE MCTrack ------------------------------
\* A Selected Channel of two frames; settings that change on the way from one
\* frame to the other do not fit a control line.
EXTENDS TrackProperties

MCOversized == {[f \in Frames |-> f]}
=============================================================================
