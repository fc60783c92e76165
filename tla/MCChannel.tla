----------------------------- MODULE MCChannel ------------------------------
(* A frame lasts two and a half samples, two clips overlap past both ends  *)
(* of the scene, one of them starts before its sound, and a muted one      *)
(* cannot be read.  The other layout cannot be read at all.                *)
EXTENDS ChannelProperties

Strip(start, stop, origin, offset, volume, sound, processed) ==
  [channel |-> 1, start |-> start, stop |-> stop, origin |-> origin,
   trim |-> 0, offset |-> offset, volume |-> volume, muted |-> FALSE,
   sound |-> sound, processed |-> processed]

MCRecorded == [voice |-> <<1, -2, 3, 1, 2>>, song |-> <<2, 1>>]

MCLayouts ==
  {{Strip(-1, 1, -1, 2, 1, "voice", FALSE), Strip(0, 3, 0, 1, 2, "song", FALSE),
    [Strip(0, 2, 0, 0, 1, "song", TRUE) EXCEPT !.muted = TRUE]},
   {Strip(0, 1, 0, 0, 1, "song", TRUE)}}

Frames == -4..8
MCCurves ==
  {<<>>,
   [strength |-> [at \in Frames |-> at \div 2 + 2],
    delay |-> [at \in Frames |-> IF at < 2 THEN -3 ELSE 4]]}
MCCursors == {2, 5}
MCEdited == {3}
MCMeshes == Permutations(Meshes)
MCNamed == {{"jaw"}, {"jaw", "brow"}}
=============================================================================
