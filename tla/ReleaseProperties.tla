-------------------------- MODULE ReleaseProperties -------------------------
(***************************************************************************)
(* What is found under the final names of a build                          *)
(* (tools/runtime_build_common.py, build_extension.py).                    *)
(***************************************************************************)
EXTENDS ReleaseBuild

\* PublishedIsWhole: what is under a final name is whole, of verified
\* downloads and of one build, wherever processes were killed, unless two
\* processes were about to publish it at once.  An archive is whole even when
\* the runtime it embeds was being taken apart, by the loser of two runtime
\* builds, while it was copied.
PublishedIsWhole ==
  /\ at["handoff"] # None /\ "handoff" \notin overlapped =>
       trees[at["handoff"]] = [files |-> Files, sound |-> TRUE]
  /\ at["archive"] # None /\ "archive" \notin overlapped =>
       LET zip == zips[at["archive"]] IN
       /\ zip.complete
       /\ {entry[1] : entry \in zip.package} = Files
       /\ \A entry \in zip.package : trees[entry[2]].sound
       /\ "handoff" \notin overlapped =>
            Cardinality({entry[2] : entry \in zip.package}) = 1

\* OwnWorkIsPublished: a process publishes its own work only, never what a
\* killed one left, and changes nothing that is published: again unless two
\* were about to publish at once, and but for a user who cleans up.
OwnWorkIsPublished ==
  [][\A output \in Outputs \ overlapped : at'[output] # at[output] =>
       \/ at'[output] = None
       \/ /\ at[output] = None
          /\ \E p \in Builders : /\ procs[p].run = at'[output]
                                 /\ procs'[p] = Idle]_vars
=============================================================================
