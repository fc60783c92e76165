---------------------------- MODULE ReleaseProofs ----------------------------
(***************************************************************************)
(* What is under a final name is whole and was put there by the process    *)
(* that made it, for every number of processes, builds, failures and       *)
(* files.                                                                  *)
(***************************************************************************)
EXTENDS ReleaseProperties, FiniteSetTheorems, TLAPS

Alone(output) == output \notin overlapped

\* Two processes publish the same output only if this was recorded.
Exclusive ==
  \A output \in Outputs : Alone(output) =>
    \A p, q \in Builders :
      {procs[p].step, procs[q].step} \subseteq Publishing(output) => p = q

\* A download that was altered goes no further.
Sound ==
  /\ \A p \in Builders : procs[p].altered => procs[p].step = "fetch"
  /\ \A r \in Runs : trees[r].sound

\* What a build hands over.
Handoff(p) ==
  LET proc == procs[p] IN
  /\ proc.step = "fetch" => proc.left > 0
  /\ proc.step \in {"check", "move"} => proc.listed = Files
  /\ proc.step = "remove" => proc.opened # None
  /\ Alone("handoff") =>
       /\ proc.step \in Publishing("handoff") => at["handoff"] = None
       /\ proc.step = "move" => at["handoff partial"] = None
       /\ proc.step \in {"verify", "recheck", "replace"} =>
            /\ at["handoff partial"] = proc.run /\ proc.run # None
            /\ trees[proc.run] = [files |-> Files, sound |-> TRUE]

\* What an extension embeds: one runtime, that stays where it is.
Embeds(p) ==
  LET proc == procs[p] IN
  /\ proc.step \in PackageSteps \cup ArchiveSteps /\ Alone("handoff") =>
       /\ at["handoff"] # None
       /\ \A entry \in proc.package : entry[2] = at["handoff"]
  /\ proc.step \in ArchiveSteps => ValidPackage(proc.package)
  /\ proc.step # "idle" => proc.run # None

\* What an archive is written of.
Archive(p) ==
  LET proc == procs[p] IN
  Alone("archive") =>
    /\ proc.step \in ArchiveSteps => at["archive"] = None
    /\ proc.step = "open" => at["archive partial"] = None
    /\ proc.step \in ArchiveSteps \ {"open"} =>
         /\ at["archive partial"] = proc.run
         /\ zips[proc.run].package = proc.package
    /\ proc.step \in {"inspect", "recheck zip", "replace zip"} =>
         zips[proc.run].complete

WholeArchive ==
  at["archive"] # None /\ Alone("archive") =>
    LET zip == zips[at["archive"]] IN
    /\ zip.complete /\ ValidPackage(zip.package)
    /\ Alone("handoff") => \E r \in Runs : \A entry \in zip.package : entry[2] = r

WholeRuntime ==
  at["handoff"] # None /\ Alone("handoff") =>
    trees[at["handoff"]] = [files |-> Files, sound |-> TRUE]

ReleaseInv ==
  /\ TypeOK /\ Exclusive /\ Sound
  /\ \A p \in Builders : Handoff(p) /\ Embeds(p) /\ Archive(p)
  /\ WholeRuntime /\ WholeArchive
-----------------------------------------------------------------------------
USE ReleaseAssumption

\* InitKeeps: nothing is built and nothing published.
LEMMA InitKeeps == Init => ReleaseInv
<1> SUFFICES ASSUME Init PROVE ReleaseInv
  OBVIOUS
<1>1. \A p \in Builders : procs[p] = Idle
  BY DEF Init
<1>2. Idle \in Process
  BY DEF Idle, Process, None
<1>3. TypeOK
  <2>1. /\ procs \in [Builders -> Process]
        /\ \A p \in Builders : procs[p].run = 0 /\ procs[p].opened = 0
    BY <1>1, <1>2 DEF Init, Idle, None
  <2>2. /\ runs = 0 /\ failures = 0 /\ overlapped = {}
        /\ at \in [Outputs \cup Partials -> {0}]
    BY DEF Init, None
  <2>3. /\ trees \in [Runs -> [files : SUBSET Files, sound : BOOLEAN]]
        /\ zips \in [Runs -> [package : SUBSET (Files \X Runs),
                              complete : BOOLEAN]]
    BY DEF Init, NoTree, NoZip
  <2>4. 0 \in 0..runs /\ 0..runs = {0}
    BY <2>2
  <2>5. QED
    BY <2>1, <2>2, <2>3, <2>4 DEF TypeOK
<1>4. \A p \in Builders :
        procs[p].step = "idle" /\ ~procs[p].altered
  BY <1>1 DEF Idle
<1>5. Exclusive /\ Sound
  BY <1>4 DEF Exclusive, Sound, Publishing, PublishSteps, UndoSteps,
     ArchiveSteps, Init, NoTree
<1>6. \A p \in Builders : Handoff(p) /\ Embeds(p) /\ Archive(p)
  BY <1>4 DEF Handoff, Embeds, Archive, Publishing, PublishSteps, UndoSteps,
     PackageSteps, ArchiveSteps
<1>7. WholeRuntime /\ WholeArchive
  BY DEF WholeRuntime, WholeArchive, Init, Outputs
<1>8. QED
  BY <1>3, <1>5, <1>6, <1>7 DEF ReleaseInv

\* ProcTyped: a step of a process is one of its own, and keeps its types.
LEMMA ProcTyped ==
  ASSUME TypeOK, NEW p \in Builders, Handoff(p), Builds(p)
  PROVE  \E next \in Process :
           /\ procs' = [procs EXCEPT ![p] = next]
           /\ next.run \in 0..runs' /\ next.opened \in 0..runs'
<1> DEFINE proc == procs[p]
           steps == {"idle"} \cup BuildSteps \cup PublishSteps \cup UndoSteps
                      \cup PackageSteps \cup ArchiveSteps
<1>1. /\ proc \in Process /\ runs \in 0..MaxRuns /\ MaxRuns \in Nat
      /\ proc.run \in 0..runs /\ proc.opened \in 0..runs
      /\ at \in [Outputs \cup Partials -> 0..runs]
      /\ procs \in [Builders -> Process]
  BY DEF TypeOK
<1>2. runs' = runs \/ (runs' = runs + 1 /\ runs < MaxRuns)
  BY DEF Builds, Starts, Private, BuildRuntime, Receive,
     Downloaded, Extracted, Compiled, Assembled, CheckRuntime, MoveToPartial,
     VerifyPartial, Recheck, PublishRuntime, Undo, RemoveFile, RemoveTree,
     BuildExtension, ListRuntime, LinkFile, Linked, CheckPackage, OpenArchive,
     ArchiveWritten, InspectArchive, RecheckArchive, PublishArchive, StepFails,
     Killed
<1>3. runs' \in 0..MaxRuns /\ 0..runs \subseteq 0..runs' /\ 0 \in 0..runs'
  BY <1>1, <1>2
<1>4. Idle \in Process /\ Idle.run = 0 /\ Idle.opened = 0
  BY DEF Idle, Process, None
<1>5. CASE Ends(p)
  BY <1>3, <1>4, <1>5 DEF Ends
<1>6. ASSUME NEW step \in steps, Goes(p, step)
      PROVE  \E next \in Process :
               /\ procs' = [procs EXCEPT ![p] = next]
               /\ next.run \in 0..runs' /\ next.opened \in 0..runs'
  <2> DEFINE next == [proc EXCEPT !.step = step]
  <2>1. /\ next \in Process /\ next.run = proc.run
        /\ next.opened = proc.opened
    BY <1>1, <1>6 DEF Process
  <2>2. procs' = [procs EXCEPT ![p] = next]
    BY <1>6 DEF Goes
  <2>3. QED
    BY <1>1, <1>3, <2>1, <2>2
<1>7. CASE BuildRuntime(p) \/ BuildExtension(p)
  <2>1. PICK first \in {[Idle EXCEPT !.step = "fetch", !.left = Artifacts],
                        [Idle EXCEPT !.step = "list"]} :
          Starts(p, first)
    BY <1>7 DEF BuildRuntime, BuildExtension
  <2> DEFINE next == [first EXCEPT !.run = runs + 1]
  <2>2. /\ runs' = runs + 1 /\ procs' = [procs EXCEPT ![p] = next]
        /\ runs + 1 \in 0..MaxRuns
    BY <1>1, <2>1 DEF Starts
  <2>3. first \in Process /\ first.opened = 0
    <3>1. CASE first = [Idle EXCEPT !.step = "fetch", !.left = Artifacts]
      <4>1. Artifacts \in 0..Artifacts /\ "fetch" \in steps
        BY DEF BuildSteps
      <4>2. QED
        BY <1>4, <3>1, <4>1 DEF Process
    <3>2. CASE first = [Idle EXCEPT !.step = "list"]
      <4>1. "list" \in steps
        BY DEF PackageSteps
      <4>2. QED
        BY <1>4, <3>2, <4>1 DEF Process
    <3>3. QED
      BY <2>1, <3>1, <3>2
  <2>4. next \in Process /\ next.run = runs + 1 /\ next.opened = 0
    BY <2>2, <2>3 DEF Process
  <2>5. next.run \in 0..runs' /\ next.opened \in 0..runs'
    BY <1>1, <1>3, <2>2, <2>4
  <2>6. QED
    BY <2>2, <2>4, <2>5
<1>8. ASSUME NEW next \in Process, procs' = [procs EXCEPT ![p] = next],
             next.run = proc.run, next.opened \in {proc.opened, at["handoff partial"]}
      PROVE  \E other \in Process :
               /\ procs' = [procs EXCEPT ![p] = other]
               /\ other.run \in 0..runs' /\ other.opened \in 0..runs'
  <2>1. "handoff partial" \in Outputs \cup Partials
    BY DEF Partials
  <2>2. at["handoff partial"] \in 0..runs
    BY <1>1, <2>1
  <2>3. QED
    BY <1>1, <1>3, <1>8, <2>2
<1>9. CASE Receive(p)
  <2>1. CASE ~Ends(p)
    <3>1. PICK altered \in BOOLEAN :
            procs' = [procs EXCEPT ![p] =
              [proc EXCEPT !.count = proc.count + 1,
                           !.altered = proc.altered \/ altered]]
      BY <1>9, <2>1 DEF Receive
    <3>2. ~(proc.count + 1 > Size)
      BY <1>9, <2>1 DEF Receive, TooMuch
    <3>3. proc.count + 1 \in 0..Size
      BY <1>1, <3>2 DEF Process
    <3>4. (proc.altered \/ altered) \in BOOLEAN
      OBVIOUS
    <3> DEFINE next == [proc EXCEPT !.count = proc.count + 1,
                                    !.altered = proc.altered \/ altered]
    <3>5. next \in Process /\ next.run = proc.run /\ next.opened = proc.opened
      BY <1>1, <3>3, <3>4 DEF Process
    <3>6. QED
      BY <1>8, <3>1, <3>5
  <2>2. QED
    BY <1>5, <2>1
<1>10. CASE Downloaded(p)
  <2> DEFINE next == [proc EXCEPT !.step = "extract", !.count = 0,
                                  !.left = proc.left - 1]
  <2>1. CASE ~Ends(p)
    <3>1. procs' = [procs EXCEPT ![p] = next] /\ proc.step = "fetch"
      BY <1>10, <2>1 DEF Downloaded, At
    <3>2. proc.left > 0
      BY <3>1 DEF Handoff
    <3>3. proc.left - 1 \in 0..Artifacts /\ 0 \in 0..Size /\ "extract" \in steps
      BY <1>1, <3>2 DEF Process, BuildSteps
    <3>4. next \in Process /\ next.run = proc.run /\ next.opened = proc.opened
      BY <1>1, <3>3 DEF Process
    <3>5. QED
      BY <1>8, <3>1, <3>4
  <2>2. QED
    BY <1>5, <2>1
<1>11. ASSUME NEW step \in steps, NEW files \in SUBSET Files,
              procs' = [procs EXCEPT ![p] =
                          [proc EXCEPT !.step = step, !.listed = files]]
       PROVE  \E next \in Process :
                /\ procs' = [procs EXCEPT ![p] = next]
                /\ next.run \in 0..runs' /\ next.opened \in 0..runs'
  <2> DEFINE next == [proc EXCEPT !.step = step, !.listed = files]
  <2>1. next \in Process /\ next.run = proc.run /\ next.opened = proc.opened
    BY <1>1 DEF Process
  <2>2. QED
    BY <1>8, <1>11, <2>1
<1>12. CASE Compiled(p)
  <2>1. PICK files \in SUBSET Files :
          procs' = [procs EXCEPT ![p] =
                      [proc EXCEPT !.step = "assemble", !.listed = files]]
    BY <1>12 DEF Compiled
  <2>2. QED
    BY <1>11, <2>1 DEF BuildSteps
<1>13. CASE Assembled(p)
  <2>1. \/ Ends(p)
        \/ procs' = [procs EXCEPT ![p] =
                       [proc EXCEPT !.step = "check", !.listed = Files]]
    BY <1>13 DEF Assembled
  <2>2. QED
    BY <1>5, <1>11, <2>1 DEF BuildSteps
<1>14. CASE ListRuntime(p)
  <2>1. \/ Ends(p)
        \/ /\ at["handoff"] # None
           /\ procs' = [procs EXCEPT ![p] =
                [proc EXCEPT !.step = "link",
                             !.listed = trees[at["handoff"]].files]]
    BY <1>14 DEF ListRuntime
  <2>2. at["handoff"] # None => trees[at["handoff"]].files \in SUBSET Files
    <3>1. "handoff" \in Outputs \cup Partials
      BY DEF Outputs
    <3>2. at["handoff"] \in 0..runs
      BY <1>1, <3>1
    <3>3. at["handoff"] # None => at["handoff"] \in Runs
      BY <1>1, <3>2 DEF Runs, None
    <3>4. QED
      BY <3>3 DEF TypeOK
  <2>3. QED
    BY <1>5, <1>11, <2>1, <2>2 DEF PackageSteps
<1>15. CASE LinkFile(p)
  <2>1. CASE ~Ends(p)
    <3> DEFINE run == at["handoff"]
    <3>1. PICK f \in proc.listed :
            /\ run # None
            /\ procs' = [procs EXCEPT ![p] =
                 [proc EXCEPT !.listed = @ \ {f},
                              !.package = @ \cup {<<f, run>>}]]
      BY <1>15, <2>1 DEF LinkFile
    <3> DEFINE next == [proc EXCEPT !.listed = proc.listed \ {f},
                                    !.package = proc.package \cup {<<f, run>>}]
    <3>2. run \in Runs
      <4>1. "handoff" \in Outputs \cup Partials
        BY DEF Outputs
      <4>2. run \in 0..runs
        BY <1>1, <4>1
      <4>3. QED
        BY <1>1, <3>1, <4>2 DEF Runs, None
    <3>3. /\ proc.listed \in SUBSET Files /\ proc.package \in SUBSET (Files \X Runs)
          /\ f \in Files
      BY <1>1 DEF Process
    <3>4. /\ proc.listed \ {f} \in SUBSET Files
          /\ proc.package \cup {<<f, run>>} \in SUBSET (Files \X Runs)
      BY <3>2, <3>3
    <3>5. next \in Process /\ next.run = proc.run /\ next.opened = proc.opened
      BY <1>1, <3>4 DEF Process
    <3>6. QED
      BY <1>8, <3>1, <3>5
  <2>2. QED
    BY <1>5, <2>1
<1>16. CASE Undo(p)
  <2> DEFINE next == [proc EXCEPT !.step = "remove",
                                  !.opened = at["handoff partial"]]
  <2>1. Ends(p) \/ procs' = [procs EXCEPT ![p] = next]
    BY <1>16 DEF Undo
  <2>2. at["handoff partial"] \in 0..MaxRuns /\ "remove" \in steps
    <3>1. "handoff partial" \in Outputs \cup Partials
      BY DEF Partials
    <3>2. at["handoff partial"] \in 0..runs
      BY <1>1, <3>1
    <3>3. 0..runs \subseteq 0..MaxRuns
      BY <1>1
    <3>4. "remove" \in steps
      BY DEF UndoSteps
    <3>5. QED
      BY <3>2, <3>3, <3>4
  <2>3. next \in Process /\ next.run = proc.run
        /\ next.opened = at["handoff partial"]
    BY <1>1, <2>2 DEF Process
  <2>4. QED
    BY <1>5, <1>8, <2>1, <2>3
<1>17. CASE RemoveFile(p)
  <2>1. procs' = [procs EXCEPT ![p] = proc]
    BY <1>1, <1>17 DEF RemoveFile
  <2>2. QED
    BY <1>1, <1>8, <2>1
<1>18. CASE ~Ends(p) /\ \A step \in steps : ~Goes(p, step)
  BY <1>7, <1>9, <1>10, <1>12, <1>13, <1>14, <1>15, <1>16, <1>17, <1>18
     DEF Builds, Enters, Extracted, CheckRuntime, MoveToPartial,
     VerifyPartial, Recheck, PublishRuntime, RemoveTree,
     Linked, CheckPackage, OpenArchive, Unlinks,
     ArchiveWritten, InspectArchive, RecheckArchive, PublishArchive, StepFails,
     Killed, BuildSteps, PublishSteps, UndoSteps, PackageSteps, ArchiveSteps
<1>19. QED
  BY <1>5, <1>6, <1>18

\* Typed: the processes, their names and what they name keep their types.
LEMMA Typed ==
  ASSUME TypeOK, \A p \in Builders : Handoff(p), NEW p \in Builders, Builds(p)
  PROVE  TypeOK'
<1> DEFINE proc == procs[p]
<1>1. /\ proc \in Process /\ runs \in 0..MaxRuns /\ MaxRuns \in Nat
      /\ proc.run \in 0..runs /\ proc.opened \in 0..runs
      /\ at \in [Outputs \cup Partials -> 0..runs]
  BY DEF TypeOK
<1>2. SUFFICES /\ \E next \in Process :
                    /\ procs' = [procs EXCEPT ![p] = next]
                    /\ next.run \in 0..runs' /\ next.opened \in 0..runs'
               /\ runs' \in {runs, runs + 1} /\ runs' \in 0..MaxRuns
               /\ at' \in [Outputs \cup Partials -> 0..runs]
               /\ trees' \in [Runs -> [files : SUBSET Files, sound : BOOLEAN]]
               /\ zips' \in [Runs -> [package : SUBSET (Files \X Runs),
                                      complete : BOOLEAN]]
               /\ failures' \in 0..MaxFailures /\ overlapped' \subseteq Outputs
  <2>1. PICK next \in Process :
          /\ procs' = [procs EXCEPT ![p] = next]
          /\ next.run \in 0..runs' /\ next.opened \in 0..runs'
    BY <1>2
  <2>2. procs' \in [Builders -> Process]
    BY <2>1 DEF TypeOK
  <2>3. 0..runs \subseteq 0..runs'
    BY <1>1, <1>2
  <2>4. \A q \in Builders : procs'[q].run \in 0..runs' /\ procs'[q].opened \in 0..runs'
    BY <2>1, <2>3 DEF TypeOK
  <2>5. at' \in [Outputs \cup Partials -> 0..runs']
    BY <1>2, <2>3
  <2>6. QED
    BY <1>2, <2>2, <2>4, <2>5 DEF TypeOK
<1>3. /\ runs' \in {runs, runs + 1} /\ runs' \in 0..MaxRuns
      /\ failures' \in 0..MaxFailures /\ overlapped' \subseteq Outputs
  <2>1. /\ UNCHANGED runs \/ (runs' = runs + 1 /\ runs < MaxRuns)
        /\ UNCHANGED failures \/ Failure
        /\ UNCHANGED overlapped
             \/ (\E output \in Outputs :
                   overlapped' = overlapped \cup
                     {o \in {output} : \E q \in Builders :
                                         procs[q].step \in Publishing(output)})
    BY DEF Builds, Starts, Enters, Goes, Ends, Private, BuildRuntime, Receive,
       Downloaded, Extracted, Compiled, Assembled, CheckRuntime, MoveToPartial,
       VerifyPartial, Recheck, PublishRuntime, Undo, RemoveFile, RemoveTree,
       BuildExtension, ListRuntime, LinkFile, Linked, CheckPackage, OpenArchive,
       ArchiveWritten, InspectArchive, RecheckArchive, PublishArchive, StepFails,
       Killed, Outputs, Failure
  <2>2. QED
    BY <1>1, <2>1 DEF TypeOK, Failure
<1>4. at' \in [Outputs \cup Partials -> 0..runs]
  <2>1. \/ UNCHANGED at
        \/ \E name \in Outputs \cup Partials : \E r \in 0..runs :
             at' = [at EXCEPT ![name] = r]
        \/ \E output \in Outputs : \E r \in 0..runs :
             at' = [at EXCEPT ![output] = r, ![Partial(output)] = None]
    <3>1. CASE MoveToPartial(p)
      BY <1>1, <3>1 DEF MoveToPartial, Partials
    <3>2. CASE PublishRuntime(p)
      BY <1>1, <3>2 DEF PublishRuntime, Partials, Outputs, Partial
    <3>3. CASE RemoveTree(p)
      <4>1. \/ at' = [at EXCEPT !["handoff partial"] = None]
            \/ at' = [at EXCEPT !["handoff partial"] = at["handoff partial"]]
        BY <3>3 DEF RemoveTree
      <4>2. at["handoff partial"] \in 0..runs /\ None \in 0..runs
        <5>1. "handoff partial" \in Outputs \cup Partials
          BY DEF Partials
        <5>2. at["handoff partial"] \in 0..runs
          BY <1>1, <5>1
        <5>3. runs \in Nat
          BY <1>1
        <5>4. None \in 0..runs
          BY <5>3 DEF None
        <5>5. QED
          BY <5>2, <5>4
      <4>3. QED
        BY <4>1, <4>2 DEF Partials
    <3>4. CASE OpenArchive(p) \/ InspectArchive(p) \/ RecheckArchive(p)
               \/ StepFails(p)
      <4>1. \/ UNCHANGED at
            \/ at' = [at EXCEPT !["archive partial"] = proc.run]
            \/ at' = [at EXCEPT !["archive partial"] = None]
        BY <3>4 DEF OpenArchive, InspectArchive, RecheckArchive, StepFails, Unlinks
      <4>2. proc.run \in 0..runs /\ None \in 0..runs
        BY <1>1 DEF None
      <4>3. QED
        BY <4>1, <4>2 DEF Partials
    <3>5. CASE PublishArchive(p)
      BY <1>1, <3>5 DEF PublishArchive, Partials, Outputs, Partial
    <3>6. QED
      BY <3>1, <3>2, <3>3, <3>4, <3>5 DEF Builds, Starts, BuildRuntime, Receive,
         Downloaded, Extracted, Compiled, Assembled, CheckRuntime, VerifyPartial,
         Recheck, Undo, RemoveFile, BuildExtension, ListRuntime, LinkFile, Linked,
         CheckPackage, ArchiveWritten, Killed, Private
  <2>2. QED
    BY <1>1, <2>1 DEF None
<1>5. trees' \in [Runs -> [files : SUBSET Files, sound : BOOLEAN]]
  <2>1. \/ UNCHANGED trees
        \/ \E r \in 0..runs :
             trees' = [trees EXCEPT ![r] = [files |-> proc.listed,
                                            sound |-> ~proc.altered]]
        \/ \E r \in Runs : \E f \in Files :
             trees' = [trees EXCEPT ![r].files = @ \ {f}]
    <3>1. CASE MoveToPartial(p)
      BY <1>1, <3>1 DEF MoveToPartial
    <3>2. CASE RemoveFile(p)
      <4>1. proc.opened \in Runs
        <5>1. proc.opened # 0
          BY <3>2 DEF RemoveFile, At, Handoff, None
        <5>2. QED
          BY <1>1, <5>1 DEF Runs
      <4>2. QED
        BY <3>2, <4>1 DEF RemoveFile, TypeOK
    <3>3. QED
      BY <3>1, <3>2 DEF Builds, Starts, BuildRuntime, Receive,
         Downloaded, Extracted, Compiled, Assembled, CheckRuntime, VerifyPartial,
         Recheck, PublishRuntime, Undo, RemoveTree, BuildExtension, ListRuntime,
         LinkFile, Linked, CheckPackage, OpenArchive, ArchiveWritten,
         InspectArchive, RecheckArchive, PublishArchive, StepFails, Killed, Private
  <2>2. proc.listed \subseteq Files /\ proc.altered \in BOOLEAN
    BY <1>1 DEF Process
  <2>3. trees \in [Runs -> [files : SUBSET Files, sound : BOOLEAN]]
    BY DEF TypeOK
  <2>4. ASSUME NEW r \in Runs, NEW f \in Files,
               trees' = [trees EXCEPT ![r].files = @ \ {f}]
        PROVE  trees' \in [Runs -> [files : SUBSET Files, sound : BOOLEAN]]
    BY <2>3, <2>4
  <2>5. ASSUME NEW r,
               trees' = [trees EXCEPT ![r] = [files |-> proc.listed,
                                              sound |-> ~proc.altered]]
        PROVE  trees' \in [Runs -> [files : SUBSET Files, sound : BOOLEAN]]
    BY <2>2, <2>3, <2>5
  <2>6. QED
    BY <2>1, <2>3, <2>4, <2>5
<1>6. zips' \in [Runs -> [package : SUBSET (Files \X Runs), complete : BOOLEAN]]
  <2>1. \/ UNCHANGED zips
        \/ zips' = [zips EXCEPT ![proc.run].package = proc.package]
        \/ zips' = [zips EXCEPT ![proc.run].complete = TRUE]
    BY DEF Builds, Starts, BuildRuntime, Receive, Downloaded, Extracted,
       Compiled, Assembled, CheckRuntime, MoveToPartial, VerifyPartial, Recheck,
       PublishRuntime, Undo, RemoveFile, RemoveTree, BuildExtension, ListRuntime,
       LinkFile, Linked, CheckPackage, OpenArchive, ArchiveWritten,
       InspectArchive, RecheckArchive, PublishArchive, StepFails, Killed, Private
  <2>2. proc.package \in SUBSET (Files \X Runs)
    BY <1>1 DEF Process
  <2> DEFINE packages == SUBSET (Files \X Runs)
  <2> HIDE DEF packages
  <2>3. proc.package \in packages
        /\ zips \in [Runs -> [package : packages, complete : BOOLEAN]]
    BY <2>2 DEF TypeOK, packages
  <2>4. zips' \in [Runs -> [package : packages, complete : BOOLEAN]]
    BY <2>1, <2>3, ZenonT(40)
  <2>5. QED
    BY <2>4 DEF packages
<1>7. QED
  BY <1>2, <1>3, <1>4, <1>5, <1>6, ProcTyped

\* Touched: what a process can change of what others rely on, by where it is.
LEMMA Touched ==
  ASSUME TypeOK, NEW p \in Builders, Handoff(p), Builds(p)
  PROVE  /\ \A q \in Builders : q # p => procs'[q] = procs[q]
         /\ overlapped \subseteq overlapped'
         /\ at'["handoff"] = at["handoff"] \/ (PublishRuntime(p) /\ Ends(p))
         /\ at'["archive"] = at["archive"] \/ PublishArchive(p)
         /\ \/ procs[p].step \in Publishing("handoff")
            \/ UNCHANGED trees /\ at'["handoff partial"] = at["handoff partial"]
         /\ \/ procs[p].step \in Publishing("archive")
            \/ UNCHANGED zips /\ at'["archive partial"] = at["archive partial"]
<1>1. \A q \in Builders : q # p => procs'[q] = procs[q]
  BY ProcTyped DEF TypeOK
<1>2. overlapped \subseteq overlapped'
  BY DEF Builds, Starts, Enters, Private, BuildRuntime, Receive,
     Downloaded, Extracted, Compiled, Assembled, CheckRuntime, MoveToPartial,
     VerifyPartial, Recheck, PublishRuntime, Undo, RemoveFile, RemoveTree,
     BuildExtension, ListRuntime, LinkFile, Linked, CheckPackage, OpenArchive,
     ArchiveWritten, InspectArchive, RecheckArchive, PublishArchive, StepFails,
     Killed
<1>3. /\ at \in [Outputs \cup Partials -> 0..runs]
      /\ {"handoff", "archive", "handoff partial", "archive partial"}
           \subseteq Outputs \cup Partials
  BY DEF TypeOK, Outputs, Partials
<1>4. CASE UNCHANGED <<at, trees, zips>>
  BY <1>1, <1>2, <1>4
<1>5. CASE MoveToPartial(p)
  BY <1>1, <1>2, <1>3, <1>5 DEF MoveToPartial, At, Publishing, PublishSteps
<1>6. CASE PublishRuntime(p)
  BY <1>1, <1>2, <1>3, <1>6 DEF PublishRuntime, At, Publishing, PublishSteps
<1>7. CASE RemoveFile(p)
  BY <1>1, <1>2, <1>3, <1>7 DEF RemoveFile, At, Publishing, UndoSteps
<1>8. CASE RemoveTree(p)
  BY <1>1, <1>2, <1>3, <1>8 DEF RemoveTree, At, Publishing, UndoSteps
<1>9. CASE OpenArchive(p)
  BY <1>1, <1>2, <1>3, <1>9 DEF OpenArchive, Unlinks, At, Publishing, ArchiveSteps
<1>10. CASE ArchiveWritten(p) \/ InspectArchive(p) \/ RecheckArchive(p)
            \/ PublishArchive(p) \/ StepFails(p)
  <2>1. /\ UNCHANGED trees
        /\ \/ UNCHANGED at
           \/ /\ procs[p].step \in Publishing("archive")
              /\ at' = [at EXCEPT !["archive partial"] = None]
           \/ /\ procs[p].step = "replace zip" /\ PublishArchive(p)
              /\ at' = [at EXCEPT !["archive"] = at["archive partial"],
                                  !["archive partial"] = None]
        /\ UNCHANGED zips \/ procs[p].step \in Publishing("archive")
    BY <1>10 DEF ArchiveWritten, InspectArchive, RecheckArchive, PublishArchive,
       StepFails, Unlinks, At, Publishing, ArchiveSteps
  <2>2. "replace zip" \in Publishing("archive")
    BY DEF Publishing, ArchiveSteps
  <2>3. QED
    BY <1>1, <1>2, <1>3, <2>1, <2>2
<1>11. QED
  BY <1>4, <1>5, <1>6, <1>7, <1>8, <1>9, <1>10 DEF Builds, Starts,
     Private, BuildRuntime, Receive, Downloaded, Extracted, Compiled, Assembled,
     CheckRuntime, VerifyPartial, Recheck, Undo, BuildExtension, ListRuntime,
     LinkFile, Linked, CheckPackage, Killed

\* Steps: where a step leads to.
LEMMA Steps ==
  ASSUME TypeOK, NEW p \in Builders
  PROVE  /\ Ends(p) => procs'[p] = Idle /\ procs'[p].step = "idle"
         /\ \A step : Goes(p, step) =>
              procs'[p] = [procs[p] EXCEPT !.step = step] /\ procs'[p].step = step
<1>1. procs \in [Builders -> Process]
  BY DEF TypeOK
<1>2. procs[p] \in Process
  BY <1>1
<1>3. Ends(p) => procs'[p] = Idle
  BY <1>1 DEF Ends
<1>4. Idle.step = "idle"
  BY DEF Idle
<1>5. ASSUME NEW step, Goes(p, step)
      PROVE  procs'[p] = [procs[p] EXCEPT !.step = step]
  BY <1>1, <1>5 DEF Goes
<1>6. ASSUME NEW step PROVE [procs[p] EXCEPT !.step = step].step = step
  BY <1>2 DEF Process
<1>7. QED
  BY <1>3, <1>4, <1>5, <1>6

\* Control: the order of the steps of a process.
LEMMA Control ==
  ASSUME TypeOK, NEW p \in Builders, Builds(p)
  PROVE  LET now == procs[p].step  next == procs'[p].step IN
         \/ next \in {"idle", "fetch", "extract", "compile", "assemble", "check"}
         \/ next \in PackageSteps /\ (now \in PackageSteps \/ BuildExtension(p))
         \/ now \in PublishSteps \cup UndoSteps /\ next \in UndoSteps
         \/ now = "check" /\ next = "move" /\ CheckRuntime(p)
         \/ now = "move" /\ next = "verify" /\ MoveToPartial(p)
         \/ now = "verify" /\ next = "recheck" /\ VerifyPartial(p)
         \/ now = "recheck" /\ next = "replace" /\ Recheck(p)
         \/ now = "package" /\ next = "open" /\ CheckPackage(p)
         \/ now = "open" /\ next = "write" /\ OpenArchive(p)
         \/ now = "write" /\ next = "inspect" /\ ArchiveWritten(p)
         \/ now = "inspect" /\ next = "recheck zip" /\ InspectArchive(p)
         \/ now = "recheck zip" /\ next = "replace zip" /\ RecheckArchive(p)
<1> DEFINE now == procs[p].step
           next == procs'[p].step
<1>1. procs \in [Builders -> Process] /\ procs[p] \in Process
  BY DEF TypeOK
<1>2. Ends(p) => next = "idle"
  BY Steps
<1>3. \A step : Goes(p, step) => next = step
  BY Steps
<1>4. ASSUME NEW other, procs' = [procs EXCEPT ![p] = other]
      PROVE  next = other.step
  BY <1>1, <1>4
<1>5. CASE BuildRuntime(p)
  <2>1. next = [[Idle EXCEPT !.step = "fetch", !.left = Artifacts]
                  EXCEPT !.run = runs + 1].step
    BY <1>4, <1>5 DEF BuildRuntime, Starts
  <2>2. next = "fetch"
    BY <2>1 DEF Idle
  <2>3. QED
    BY <2>2
<1>6. CASE BuildExtension(p)
  <2>1. next = [[Idle EXCEPT !.step = "list"] EXCEPT !.run = runs + 1].step
    BY <1>4, <1>6 DEF BuildExtension, Starts
  <2>2. next = "list"
    BY <2>1 DEF Idle
  <2>3. QED
    BY <1>6, <2>2 DEF PackageSteps
<1>7. CASE Receive(p)
  <2>1. CASE ~Ends(p)
    <3>1. PICK altered \in BOOLEAN :
            procs' = [procs EXCEPT ![p] =
              [procs[p] EXCEPT !.count = procs[p].count + 1,
                               !.altered = procs[p].altered \/ altered]]
      BY <1>7, <2>1 DEF Receive
    <3>2. next = now
      BY <1>1, <1>4, <3>1 DEF Process
    <3>3. QED
      BY <1>7, <3>2 DEF Receive, At
  <2>2. QED
    BY <1>2, <2>1
<1>8. CASE Downloaded(p)
  <2>1. \/ Ends(p)
        \/ procs' = [procs EXCEPT ![p] =
             [procs[p] EXCEPT !.step = "extract", !.count = 0,
                              !.left = procs[p].left - 1]]
    BY <1>8 DEF Downloaded
  <2>2. next \in {"idle", "extract"}
    BY <1>1, <1>2, <1>4, <2>1 DEF Process
  <2>3. QED
    BY <2>2
<1>9. ASSUME NEW step, NEW files,
             procs' = [procs EXCEPT ![p] =
               [procs[p] EXCEPT !.step = step, !.listed = files]]
      PROVE  next = step
  BY <1>1, <1>4, <1>9 DEF Process
<1>10. CASE Compiled(p) \/ Assembled(p) \/ ListRuntime(p)
  <2>1. \/ Ends(p)
        \/ \E files : \E step \in {"assemble", "check", "link"} :
             /\ step = "link" => now = "list"
             /\ procs' = [procs EXCEPT ![p] =
               [procs[p] EXCEPT !.step = step, !.listed = files]]
    BY <1>10, ZenonT(40) DEF Compiled, Assembled, ListRuntime, At
  <2>2. /\ next \in {"idle", "assemble", "check", "link"}
        /\ next = "link" => now = "list"
    BY <1>2, <1>9, <2>1
  <2>3. CASE next = "link"
    BY <2>2, <2>3 DEF PackageSteps
  <2>4. QED
    BY <2>2, <2>3
<1>11. CASE Extracted(p) \/ Linked(p)
  BY <1>3, <1>11 DEF Extracted, Linked, At, PackageSteps
<1>12. CASE LinkFile(p)
  <2>1. CASE ~Ends(p)
    <3>1. PICK listed, package :
            procs' = [procs EXCEPT ![p] =
              [procs[p] EXCEPT !.listed = listed, !.package = package]]
      BY <1>12, <2>1, ZenonT(40) DEF LinkFile
    <3>2. next = now
      BY <1>1, <1>4, <3>1 DEF Process
    <3>3. QED
      BY <1>12, <3>2 DEF LinkFile, At, PackageSteps
  <2>2. QED
    BY <1>2, <2>1
<1>13. CASE CheckRuntime(p)
  BY <1>2, <1>3, <1>13 DEF CheckRuntime, Enters, At
<1>14. CASE CheckPackage(p)
  BY <1>2, <1>3, <1>14 DEF CheckPackage, Enters, At
<1>15. CASE MoveToPartial(p) \/ VerifyPartial(p) \/ Recheck(p) \/ PublishRuntime(p)
  BY <1>2, <1>3, <1>15 DEF MoveToPartial, VerifyPartial, Recheck, PublishRuntime,
     At, PublishSteps, UndoSteps
<1>16. CASE Undo(p)
  <2>1. \/ Ends(p)
        \/ procs' = [procs EXCEPT ![p] =
             [procs[p] EXCEPT !.step = "remove", !.opened = at["handoff partial"]]]
    BY <1>16 DEF Undo
  <2>2. next \in {"idle", "remove"}
    BY <1>1, <1>2, <1>4, <2>1, ZenonT(40) DEF Process
  <2>3. QED
    BY <1>16, <2>2 DEF Undo, At, UndoSteps
<1>17. CASE RemoveFile(p)
  BY <1>17 DEF RemoveFile, At, UndoSteps
<1>18. CASE OpenArchive(p) \/ ArchiveWritten(p) \/ InspectArchive(p)
            \/ RecheckArchive(p)
  BY <1>2, <1>3, <1>18 DEF OpenArchive, ArchiveWritten, InspectArchive,
     RecheckArchive, Unlinks, At
<1>19. CASE RemoveTree(p) \/ PublishArchive(p) \/ Killed(p)
  BY <1>2, <1>19 DEF RemoveTree, PublishArchive, Killed
<1>20. CASE StepFails(p)
  BY <1>2, <1>3, <1>20 DEF StepFails, Unlinks, UndoSteps, PublishSteps
<1>21. QED
  BY <1>5, <1>6, <1>7, <1>8, <1>10, <1>11, <1>12, <1>13, <1>14, <1>15, <1>16,
     <1>17, <1>18, <1>19, <1>20 DEF Builds

\* Entered: who is about to publish, and that nothing is in its way.
LEMMA Entered ==
  ASSUME TypeOK, NEW p \in Builders, Builds(p), NEW output \in Outputs,
         procs'[p].step \in Publishing(output)
  PROVE  \/ procs[p].step \in Publishing(output)
         \/ /\ at[output] = None /\ at[Partial(output)] = None
            /\ Alone(output)' =>
                 \A q \in Builders : procs[q].step \notin Publishing(output)
            /\ Goes(p, IF output = "handoff" THEN "move" ELSE "open")
            /\ UNCHANGED <<at, trees, zips>>
            /\ output = "archive" => ValidPackage(procs[p].package)
            /\ procs[p].step = IF output = "handoff" THEN "check" ELSE "package"
<1>1. CASE output = "handoff" /\ procs[p].step \notin Publishing("handoff")
  <2>1. CheckRuntime(p) /\ ~Ends(p)
    BY <1>1, Control, Steps DEF Publishing, PublishSteps, UndoSteps, PackageSteps
  <2>2. /\ procs[p].step = "check" /\ Goes(p, "move")
        /\ at["handoff"] = None /\ at[Partial("handoff")] = None
        /\ UNCHANGED <<at, trees, zips>>
        /\ overlapped' = overlapped \cup
             {o \in {"handoff"} : \E q \in Builders :
                                   procs[q].step \in Publishing("handoff")}
    BY <2>1 DEF CheckRuntime, Enters, Taken, At
  <2>3. QED
    BY <1>1, <2>2 DEF Alone
<1>2. CASE output = "archive" /\ procs[p].step \notin Publishing("archive")
  <2>1. CheckPackage(p) /\ ~Ends(p)
    BY <1>2, Control, Steps DEF Publishing, ArchiveSteps, PublishSteps, UndoSteps,
       PackageSteps
  <2>2. /\ procs[p].step = "package" /\ ValidPackage(procs[p].package)
        /\ Enters(p, "archive", "open") /\ UNCHANGED <<at, trees, zips>>
    BY <2>1 DEF CheckPackage, At
  <2>3. /\ Goes(p, "open")
        /\ at["archive"] = None /\ at[Partial("archive")] = None
        /\ overlapped' = overlapped \cup
             {o \in {"archive"} : \E q \in Builders :
                                   procs[q].step \in Publishing("archive")}
    BY <2>1, <2>2 DEF Enters, Taken
  <2>4. QED
    BY <1>2, <2>2, <2>3 DEF Alone
<1>3. QED
  BY <1>1, <1>2 DEF Outputs

\* Fields: what a step keeps of a process, and what it leads with.
LEMMA Fields ==
  ASSUME TypeOK, NEW p \in Builders, Handoff(p), Builds(p)
  PROVE  \/ procs'[p] = Idle
         \/ /\ BuildRuntime(p) \/ BuildExtension(p)
            /\ procs'[p].step \in {"fetch", "list"}
            /\ procs'[p].run = runs + 1
            /\ procs'[p].step = "fetch" => procs'[p].left = Artifacts
            /\ ~procs'[p].altered /\ procs'[p].package = {}
         \/ /\ procs[p].step # "idle" /\ procs'[p].run = procs[p].run
            /\ procs'[p].altered =>
                 procs'[p].step = "fetch" \/ (procs[p].altered /\ procs[p].step # "fetch")
            /\ procs'[p].package = procs[p].package \/ LinkFile(p)
            /\ procs'[p].step = "fetch" => procs'[p].left > 0
            /\ procs'[p].step \in {"check", "move"} => procs'[p].listed = Files
            /\ procs'[p].step = "remove" => procs'[p].opened # None
<1> DEFINE now == procs[p]
           next == procs'[p]
           Result == /\ now.step # "idle" /\ next.run = now.run
                     /\ next.altered =>
                          next.step = "fetch" \/ (now.altered /\ now.step # "fetch")
                     /\ next.package = now.package \/ LinkFile(p)
                     /\ next.step = "fetch" => next.left > 0
                     /\ next.step \in {"check", "move"} => next.listed = Files
                     /\ next.step = "remove" => next.opened # None
<1>1. procs \in [Builders -> Process] /\ procs[p] \in Process
  BY DEF TypeOK
<1>2. ASSUME NEW other, procs' = [procs EXCEPT ![p] = other]
      PROVE  next = other
  BY <1>1, <1>2
<1>3. Ends(p) => next = Idle
  BY Steps
<1>4. CASE BuildRuntime(p)
  <2>1. next = [[Idle EXCEPT !.step = "fetch", !.left = Artifacts]
                  EXCEPT !.run = runs + 1]
    BY <1>2, <1>4 DEF BuildRuntime, Starts
  <2>2. /\ next.step = "fetch" /\ next.left = Artifacts /\ next.run = runs + 1
        /\ ~next.altered /\ next.package = {}
    BY <2>1 DEF Idle
  <2>3. QED
    BY <1>4, <2>2
<1>5. CASE BuildExtension(p)
  <2>1. next = [[Idle EXCEPT !.step = "list"] EXCEPT !.run = runs + 1]
    BY <1>2, <1>5 DEF BuildExtension, Starts
  <2>2. /\ next.step = "list" /\ next.run = runs + 1
        /\ ~next.altered /\ next.package = {}
    BY <2>1 DEF Idle
  <2>3. QED
    BY <1>5, <2>2
<1>6. ASSUME NEW step, Goes(p, step), now.step \notin {"idle", "fetch"},
             step = "fetch" => now.left > 0,
             step \in {"check", "move"} => now.listed = Files, step # "remove"
      PROVE  Result
  <2>1. next = [now EXCEPT !.step = step] /\ next.step = step
    BY <1>6, Steps
  <2>2. /\ next.run = now.run /\ next.altered = now.altered
        /\ next.package = now.package /\ next.left = now.left
        /\ next.listed = now.listed
    BY <1>1, <2>1 DEF Process
  <2>3. QED
    BY <1>6, <2>1, <2>2
<1>7. CASE Receive(p)
  <2>1. CASE ~Ends(p)
    <3>1. PICK altered \in BOOLEAN :
            procs' = [procs EXCEPT ![p] =
              [now EXCEPT !.count = now.count + 1,
                          !.altered = now.altered \/ altered]]
      BY <1>7, <2>1 DEF Receive
    <3>2. next = [now EXCEPT !.count = now.count + 1,
                             !.altered = now.altered \/ altered]
      BY <1>2, <3>1
    <3>3. /\ next.step = now.step /\ next.run = now.run
          /\ next.package = now.package /\ next.left = now.left
      BY <1>1, <3>2 DEF Process
    <3>4. now.step = "fetch"
      BY <1>7 DEF Receive, At
    <3>5. now.left > 0
      BY <3>4 DEF Handoff
    <3>6. QED
      BY <3>3, <3>4, <3>5
  <2>2. QED
    BY <1>3, <2>1
<1>8. CASE Downloaded(p)
  <2>1. CASE ~Ends(p)
    <3>1. /\ procs' = [procs EXCEPT ![p] =
               [now EXCEPT !.step = "extract", !.count = 0, !.left = now.left - 1]]
          /\ ~now.altered /\ now.step = "fetch"
      BY <1>8, <2>1 DEF Downloaded, Verified, At
    <3>2. next = [now EXCEPT !.step = "extract", !.count = 0, !.left = now.left - 1]
      BY <1>2, <3>1
    <3>3. /\ next.step = "extract" /\ next.run = now.run
          /\ next.package = now.package /\ next.altered = now.altered
      BY <1>1, <3>2 DEF Process
    <3>4. QED
      BY <3>1, <3>3
  <2>2. QED
    BY <1>3, <2>1
<1>9. ASSUME NEW step, NEW files, step \notin {"fetch", "move", "remove"},
             now.step \notin {"idle", "fetch"}, step = "check" => files = Files,
             procs' = [procs EXCEPT ![p] =
               [now EXCEPT !.step = step, !.listed = files]]
      PROVE  Result
  <2>1. next = [now EXCEPT !.step = step, !.listed = files]
    BY <1>2, <1>9
  <2>2. /\ next.step = step /\ next.run = now.run /\ next.listed = files
        /\ next.package = now.package /\ next.altered = now.altered
    BY <1>1, <2>1 DEF Process
  <2>3. QED
    BY <1>9, <2>2
<1>10. CASE Compiled(p) \/ Assembled(p) \/ ListRuntime(p)
  <2>1. CASE ~Ends(p)
    <3>1. \E files : \E step \in {"assemble", "check", "link"} :
            /\ step = "check" => files = Files
            /\ procs' = [procs EXCEPT ![p] =
                 [now EXCEPT !.step = step, !.listed = files]]
      BY <1>10, <2>1 DEF Compiled, Assembled, ListRuntime
    <3>2. now.step \in {"compile", "assemble", "list"}
      BY <1>10 DEF Compiled, Assembled, ListRuntime, At
    <3>3. QED
      BY <1>9, <3>1, <3>2
  <2>2. QED
    BY <1>3, <2>1
<1>11. CASE LinkFile(p)
  <2>1. CASE ~Ends(p)
    <3>1. PICK listed, package :
            procs' = [procs EXCEPT ![p] =
              [now EXCEPT !.listed = listed, !.package = package]]
      BY <1>11, <2>1, ZenonT(40) DEF LinkFile
    <3>2. next = [now EXCEPT !.listed = listed, !.package = package]
      BY <1>2, <3>1
    <3>3. next.step = now.step /\ next.run = now.run /\ next.altered = now.altered
      BY <1>1, <3>2 DEF Process
    <3>4. now.step = "link"
      BY <1>11 DEF LinkFile, At
    <3>5. QED
      BY <1>11, <3>3, <3>4
  <2>2. QED
    BY <1>3, <2>1
<1>12. CASE Undo(p)
  <2>1. CASE ~Ends(p)
    <3>1. /\ procs' = [procs EXCEPT ![p] =
               [now EXCEPT !.step = "remove", !.opened = at["handoff partial"]]]
          /\ at["handoff partial"] # None /\ now.step = "undo"
      BY <1>12, <2>1 DEF Undo, At
    <3>2. next = [now EXCEPT !.step = "remove", !.opened = at["handoff partial"]]
      BY <1>2, <3>1
    <3>3. /\ next.step = "remove" /\ next.opened = at["handoff partial"]
          /\ next.run = now.run
          /\ next.package = now.package /\ next.altered = now.altered
      BY <1>1, <3>2 DEF Process
    <3>4. QED
      BY <3>1, <3>3
  <2>2. QED
    BY <1>3, <2>1
<1>13. CASE RemoveFile(p)
  <2>1. next = now /\ now.step = "remove"
    BY <1>13 DEF RemoveFile, At
  <2>2. now.opened # None
    BY <2>1 DEF Handoff
  <2>3. QED
    BY <2>1, <2>2
<1>14. CASE \/ Extracted(p) \/ CheckRuntime(p) \/ MoveToPartial(p)
            \/ VerifyPartial(p) \/ Recheck(p) \/ PublishRuntime(p)
            \/ Linked(p) \/ CheckPackage(p) \/ OpenArchive(p) \/ ArchiveWritten(p)
            \/ InspectArchive(p) \/ RecheckArchive(p) \/ StepFails(p)
  <2>1. CASE ~Ends(p)
    <3>1. \E step : /\ Goes(p, step) /\ now.step \notin {"idle", "fetch"}
                    /\ step = "fetch" => now.left > 0
                    /\ step \in {"check", "move"} => now.step = "check"
                    /\ step # "remove"
      <4>1. CASE StepFails(p)
        BY <2>1, <4>1 DEF StepFails, Unlinks, PublishSteps
      <4>2. CASE Extracted(p)
        BY <2>1, <4>2 DEF Extracted, At
      <4>3. CASE \/ CheckRuntime(p) \/ Linked(p) \/ CheckPackage(p)
                 \/ MoveToPartial(p) \/ VerifyPartial(p)
        BY <2>1, <4>3 DEF CheckRuntime, Linked, CheckPackage, Enters,
           MoveToPartial, VerifyPartial, At
      <4>4. CASE \/ Recheck(p) \/ PublishRuntime(p) \/ OpenArchive(p)
                 \/ ArchiveWritten(p) \/ InspectArchive(p) \/ RecheckArchive(p)
        BY <2>1, <4>4 DEF Recheck, PublishRuntime, OpenArchive, ArchiveWritten,
           InspectArchive, RecheckArchive, Unlinks, At
      <4>5. QED
        BY <1>14, <4>1, <4>2, <4>3, <4>4
    <3>2. now.step = "check" => now.listed = Files
      BY DEF Handoff
    <3>3. QED
      BY <1>6, <3>1, <3>2
  <2>2. QED
    BY <1>3, <2>1
<1>15. CASE RemoveTree(p) \/ PublishArchive(p) \/ Killed(p)
  BY <1>3, <1>15 DEF RemoveTree, PublishArchive, Killed
<1>16. QED
  BY <1>4, <1>5, <1>7, <1>8, <1>10, <1>11, <1>12, <1>13, <1>14, <1>15 DEF Builds

\* ExclusiveKept: two processes that publish the same output are recorded.
LEMMA ExclusiveKept ==
  ASSUME TypeOK, Exclusive, NEW p \in Builders, Handoff(p), Builds(p)
  PROVE  Exclusive'
<1> SUFFICES ASSUME NEW output \in Outputs, Alone(output)',
                    NEW a \in Builders, NEW b \in Builders, a # b,
                    procs'[a].step \in Publishing(output),
                    procs'[b].step \in Publishing(output)
             PROVE  FALSE
  BY DEF Exclusive
<1>1. Alone(output)
  BY Touched DEF Alone
<1>2. \A q \in Builders : q # p => procs'[q] = procs[q]
  BY Touched
<1>3. ASSUME NEW q \in Builders, q # p, procs'[q].step \in Publishing(output),
             procs'[p].step \in Publishing(output)
      PROVE  FALSE
  <2>1. procs[q].step \in Publishing(output)
    BY <1>2, <1>3
  <2>2. procs[p].step \in Publishing(output)
    BY <1>3, <2>1, Entered
  <2>3. QED
    BY <1>1, <1>3, <2>1, <2>2 DEF Exclusive
<1>4. CASE a # p /\ b # p
  BY <1>1, <1>2, <1>4 DEF Exclusive
<1>5. QED
  BY <1>3, <1>4

\* SoundKept: no step puts a file of an altered download into a tree.
LEMMA SoundKept ==
  ASSUME TypeOK, Sound, NEW p \in Builders, Handoff(p), Builds(p)
  PROVE  Sound'
<1>1. \A q \in Builders : q # p => procs'[q] = procs[q]
  BY Touched
<1>2. procs'[p].altered => procs'[p].step = "fetch"
  <2>1. ~Idle.altered
    BY DEF Idle
  <2>2. procs[p].altered => procs[p].step = "fetch"
    BY DEF Sound
  <2>3. QED
    BY <2>1, <2>2, Fields
<1>3. trees \in [Runs -> [files : SUBSET Files, sound : BOOLEAN]]
  BY DEF TypeOK
<1>4. \A r \in Runs : trees'[r].sound
  <2>1. CASE UNCHANGED trees
    BY <2>1 DEF Sound
  <2>2. CASE MoveToPartial(p)
    <3>1. ~procs[p].altered
      BY <2>2 DEF MoveToPartial, At, Sound
    <3>2. \/ UNCHANGED trees
          \/ trees' = [trees EXCEPT ![procs[p].run] =
                         [files |-> procs[p].listed, sound |-> TRUE]]
      BY <2>2, <3>1 DEF MoveToPartial
    <3>3. QED
      BY <1>3, <3>2 DEF Sound
  <2>3. CASE RemoveFile(p)
    BY <1>3, <2>3 DEF RemoveFile, Sound
  <2>4. QED
    BY <2>1, <2>2, <2>3 DEF Builds, Starts, BuildRuntime, Receive,
       Downloaded, Extracted, Compiled, Assembled, CheckRuntime, VerifyPartial,
       Recheck, PublishRuntime, Undo, RemoveTree, BuildExtension, ListRuntime,
       LinkFile, Linked, CheckPackage, OpenArchive, ArchiveWritten,
       InspectArchive, RecheckArchive, PublishArchive, StepFails, Killed, Private
<1>5. QED
  BY <1>1, <1>2, <1>4 DEF Sound

\* HandoffKept: a handoff on its way is whole, and its partial name is its own.
LEMMA HandoffKept ==
  ASSUME ReleaseInv, NEW p \in Builders, Builds(p), NEW q \in Builders
  PROVE  Handoff(q)'
<1>1. TypeOK /\ Handoff(p) /\ Handoff(q) /\ Exclusive /\ Sound /\ Embeds(p)
  BY DEF ReleaseInv
<1>2. Alone("handoff")' => Alone("handoff")
  BY <1>1, Touched DEF Alone
<1>3. "handoff" \in Outputs /\ Partial("handoff") = "handoff partial"
  BY DEF Outputs, Partial
<1>4. CASE q # p
  <2>1. procs'[q] = procs[q]
    BY <1>1, <1>4, Touched
  <2>2. ASSUME Alone("handoff")', procs[q].step \in Publishing("handoff")
        PROVE  /\ UNCHANGED trees /\ at'["handoff"] = at["handoff"]
               /\ at'["handoff partial"] = at["handoff partial"]
    <3>1. procs[p].step \notin Publishing("handoff")
      BY <1>1, <1>2, <1>3, <1>4, <2>2 DEF Exclusive
    <3>2. ~PublishRuntime(p)
      BY <3>1 DEF PublishRuntime, At, Publishing, PublishSteps
    <3>3. QED
      BY <1>1, <3>1, <3>2, Touched
  <2>3. {"move", "verify", "recheck", "replace"} \subseteq Publishing("handoff")
    BY DEF Publishing, PublishSteps
  <2>4. QED
    BY <1>1, <1>2, <2>1, <2>2, <2>3 DEF Handoff
<1>5. CASE q = p
  <2> DEFINE now == procs[p]
             next == procs'[p]
  <2>1. /\ next.step = "fetch" => next.left > 0
        /\ next.step \in {"check", "move"} => next.listed = Files
        /\ next.step = "remove" => next.opened # None
    BY <1>1, Fields DEF Idle, ReleaseAssumption
  <2>2. ASSUME next.step \in Publishing("handoff")
        PROVE  next.run = now.run /\ next.run # None /\ ~now.altered
    <3>1. next.step \notin {"idle", "fetch", "list"}
      BY <2>2 DEF Publishing, PublishSteps, UndoSteps
    <3>2. next.run = now.run /\ now.step # "idle"
      BY <1>1, <3>1, Fields DEF Idle
    <3>3. now.step # "fetch"
      BY <1>1, <2>2, Control DEF Publishing, PublishSteps, UndoSteps, PackageSteps
    <3>4. QED
      BY <1>1, <3>2, <3>3 DEF Embeds, Sound
  <2>3. ASSUME Alone("handoff")', next.step \in Publishing("handoff")
        PROVE  at'["handoff"] = None
    <3>1. ~Ends(p)
      BY <1>1, <2>3, Steps DEF Publishing, PublishSteps, UndoSteps
    <3>2. at'["handoff"] = at["handoff"]
      BY <1>1, <3>1, Touched
    <3>3. at["handoff"] = None
      BY <1>1, <1>2, <1>3, <2>3, Entered DEF Handoff
    <3>4. QED
      BY <3>2, <3>3
  <2>4. ASSUME Alone("handoff")', next.step = "move"
        PROVE  at'["handoff partial"] = None
    <3>1. now.step \notin Publishing("handoff")
      BY <1>1, <2>4, Control DEF Publishing, PublishSteps, UndoSteps, PackageSteps
    <3>2. next.step \in Publishing("handoff")
      BY <2>4 DEF Publishing, PublishSteps
    <3>3. QED
      BY <1>1, <1>3, <3>1, <3>2, Entered
  <2>5. ASSUME Alone("handoff")', next.step \in {"verify", "recheck", "replace"}
        PROVE  /\ at'["handoff partial"] = now.run
               /\ trees'[now.run] = [files |-> Files, sound |-> TRUE]
    <3>1. \/ now.step = "move" /\ MoveToPartial(p)
          \/ now.step \in {"verify", "recheck"} /\ UNCHANGED <<at, trees>>
      BY <1>1, <2>5, Control DEF PackageSteps, UndoSteps, VerifyPartial, Recheck,
         Private
    <3>2. CASE MoveToPartial(p) /\ now.step = "move"
      <4>1. now.listed = Files /\ ~now.altered
        BY <1>1, <3>2 DEF Handoff, Sound
      <4>2. next.step # "undo"
        BY <2>5
      <4>3. ~Goes(p, "undo")
        BY <1>1, <4>2, Steps
      <4>4. /\ at' = [at EXCEPT !["handoff partial"] = now.run]
            /\ trees' = [trees EXCEPT ![now.run] =
                           [files |-> Files, sound |-> TRUE]]
        BY <3>2, <4>1, <4>3 DEF MoveToPartial
      <4>5. now.run \in Runs
        <5>1. now.run # None
          BY <1>1, <3>2 DEF Embeds
        <5>2. now.run \in 0..MaxRuns
          BY <1>1 DEF TypeOK, Process
        <5>3. QED
          BY <5>1, <5>2 DEF Runs, None
      <4>6. "handoff partial" \in DOMAIN at
        BY <1>1 DEF TypeOK, Partials
      <4>7. trees \in [Runs -> [files : SUBSET Files, sound : BOOLEAN]]
        BY <1>1 DEF TypeOK
      <4>8. QED
        BY <4>4, <4>5, <4>6, <4>7
    <3>3. CASE now.step \in {"verify", "recheck"} /\ UNCHANGED <<at, trees>>
      BY <1>1, <1>2, <2>5, <3>3 DEF Handoff
    <3>4. QED
      BY <3>1, <3>2, <3>3
  <2>6. {"verify", "recheck", "replace"} \subseteq Publishing("handoff")
    BY DEF Publishing, PublishSteps
  <2>7. QED
    BY <1>5, <2>1, <2>2, <2>3, <2>4, <2>5, <2>6 DEF Handoff
<1>6. QED
  BY <1>4, <1>5

\* EmbedsKept: an extension embeds the one runtime that is published.
LEMMA EmbedsKept ==
  ASSUME ReleaseInv, NEW p \in Builders, Builds(p), NEW q \in Builders
  PROVE  Embeds(q)'
<1>1. TypeOK /\ Handoff(p) /\ Embeds(p) /\ Embeds(q)
  BY DEF ReleaseInv
<1>2. Alone("handoff")' => Alone("handoff")
  BY <1>1, Touched DEF Alone
<1>3. Alone("handoff") /\ at["handoff"] # None => at'["handoff"] = at["handoff"]
  <2>1. PublishRuntime(p) /\ Alone("handoff") => at["handoff"] = None
    BY <1>1 DEF PublishRuntime, At, Handoff, Publishing, PublishSteps
  <2>2. QED
    BY <1>1, <2>1, Touched
<1>4. CASE q # p
  <2>1. procs'[q] = procs[q]
    BY <1>1, <1>4, Touched
  <2>2. QED
    BY <1>1, <1>2, <1>3, <2>1 DEF Embeds
<1>5. CASE q = p
  <2> DEFINE now == procs[p]
             next == procs'[p]
  <2>1. next.step # "idle" => next.run # None
    <3>1. runs + 1 # None
      BY <1>1 DEF TypeOK, None
    <3>2. QED
      BY <1>1, <3>1, Fields DEF Idle, Embeds
  <2>2. ASSUME next.step \in PackageSteps \cup ArchiveSteps
        PROVE  \/ /\ now.step \in PackageSteps \cup ArchiveSteps
                  /\ next.package = now.package \/ LinkFile(p)
               \/ BuildExtension(p) /\ next.package = {}
    <3>1. next.step \notin {"idle", "fetch"}
      BY <2>2 DEF PackageSteps, ArchiveSteps
    <3>2. \/ now.step \in PackageSteps \cup ArchiveSteps
          \/ BuildExtension(p)
      BY <1>1, <2>2, Control DEF PackageSteps, ArchiveSteps, UndoSteps
    <3>3. BuildExtension(p) => now.step = "idle"
      BY DEF BuildExtension, Starts, At
    <3>4. BuildRuntime(p) => now.step = "idle"
      BY DEF BuildRuntime, Starts, At
    <3>5. "idle" \notin PackageSteps \cup ArchiveSteps
      BY DEF PackageSteps, ArchiveSteps
    <3>6. QED
      BY <1>1, <3>1, <3>2, <3>3, <3>4, <3>5, Fields DEF Idle
  <2>3. ASSUME next.step \in PackageSteps \cup ArchiveSteps, Alone("handoff")'
        PROVE  /\ at'["handoff"] # None
               /\ \A entry \in next.package : entry[2] = at'["handoff"]
    <3>1. CASE BuildExtension(p) /\ next.package = {}
      BY <3>1 DEF BuildExtension, Whole, Starts
    <3>2. CASE now.step \in PackageSteps \cup ArchiveSteps
      <4>1. /\ at["handoff"] # None /\ at'["handoff"] = at["handoff"]
            /\ \A entry \in now.package : entry[2] = at["handoff"]
        BY <1>1, <1>2, <1>3, <2>3, <3>2 DEF Embeds
      <4>2. CASE LinkFile(p)
        <5>1. ~Ends(p)
          BY <1>1, <2>3, Steps DEF PackageSteps, ArchiveSteps
        <5>2. PICK f : procs' = [procs EXCEPT ![p] =
                  [now EXCEPT !.listed = @ \ {f},
                              !.package = @ \cup {<<f, at["handoff"]>>}]]
          BY <4>2, <5>1 DEF LinkFile
        <5>3. next.package = now.package \cup {<<f, at["handoff"]>>}
          <6>1. procs \in [Builders -> Process] /\ now \in Process
            BY <1>1 DEF TypeOK
          <6>2. next = [now EXCEPT !.listed = now.listed \ {f},
                          !.package = now.package \cup {<<f, at["handoff"]>>}]
            BY <5>2, <6>1
          <6>3. QED
            BY <6>1, <6>2 DEF Process
        <5>4. <<f, at["handoff"]>>[2] = at["handoff"]
          OBVIOUS
        <5>5. QED
          BY <4>1, <5>3, <5>4
      <4>3. CASE next.package = now.package
        BY <4>1, <4>3
      <4>4. CASE BuildExtension(p)
        BY <3>2, <4>4 DEF BuildExtension, Starts, At, PackageSteps, ArchiveSteps
      <4>5. QED
        BY <2>2, <2>3, <4>2, <4>3, <4>4
    <3>3. QED
      BY <2>2, <2>3, <3>1, <3>2
  <2>4. ASSUME next.step \in ArchiveSteps
        PROVE  ValidPackage(next.package)
    <3>1. "archive" \in Outputs /\ Publishing("archive") = ArchiveSteps
      BY DEF Outputs, Publishing
    <3>2. ValidPackage(now.package) /\ now.step \in ArchiveSteps \cup {"package"}
      BY <1>1, <2>4, <3>1, Entered DEF Embeds
    <3>3. ~LinkFile(p) /\ ~BuildExtension(p)
      BY <3>2 DEF LinkFile, BuildExtension, Starts, At, ArchiveSteps
    <3>4. next.package = now.package
      BY <2>2, <2>4, <3>3
    <3>5. QED
      BY <3>2, <3>4
  <2>5. QED
    BY <1>5, <2>1, <2>3, <2>4 DEF Embeds
<1>6. QED
  BY <1>4, <1>5

\* ArchiveKept: the partial archive is the one this process wrote.
LEMMA ArchiveKept ==
  ASSUME ReleaseInv, NEW p \in Builders, Builds(p), NEW q \in Builders
  PROVE  Archive(q)'
<1>1. TypeOK /\ Handoff(p) /\ Archive(p) /\ Archive(q) /\ Exclusive /\ Embeds(p)
  BY DEF ReleaseInv
<1>2. Alone("archive")' => Alone("archive")
  BY <1>1, Touched DEF Alone
<1>3. /\ "archive" \in Outputs /\ Partial("archive") = "archive partial"
      /\ Publishing("archive") = ArchiveSteps
  BY DEF Outputs, Partial, Publishing
<1>4. {"open", "inspect", "recheck zip", "replace zip"} \subseteq ArchiveSteps
  BY DEF ArchiveSteps
<1>5. CASE q # p
  <2>1. procs'[q] = procs[q]
    BY <1>1, <1>5, Touched
  <2>2. ASSUME Alone("archive")', procs[q].step \in ArchiveSteps
        PROVE  /\ UNCHANGED zips /\ at'["archive"] = at["archive"]
               /\ at'["archive partial"] = at["archive partial"]
    <3>1. procs[p].step \notin Publishing("archive")
      BY <1>1, <1>2, <1>3, <1>5, <2>2 DEF Exclusive
    <3>2. ~PublishArchive(p)
      BY <1>3, <1>4, <3>1 DEF PublishArchive, At
    <3>3. QED
      BY <1>1, <3>1, <3>2, Touched
  <2>3. QED
    BY <1>1, <1>2, <1>4, <2>1, <2>2 DEF Archive
<1>6. CASE q = p
  <2> DEFINE now == procs[p]
             next == procs'[p]
  <2>1. ASSUME next.step \in ArchiveSteps
        PROVE  /\ ~Ends(p)
               /\ next.run = now.run /\ next.package = now.package
               /\ next.run # None
    <3>1. ~Ends(p) /\ next.step \notin {"idle", "fetch", "list"}
      BY <1>1, <2>1, Steps DEF ArchiveSteps
    <3>2. now.step \in ArchiveSteps \cup {"package"}
      BY <1>1, <1>3, <2>1, Entered
    <3>3. ~LinkFile(p)
      BY <3>2 DEF LinkFile, At, ArchiveSteps
    <3>4. /\ next.run = now.run /\ next.package = now.package
          /\ now.step # "idle"
      BY <1>1, <3>1, <3>3, Fields DEF Idle
    <3>5. QED
      BY <1>1, <3>1, <3>4 DEF Embeds
  <2>2. ASSUME Alone("archive")', next.step \in ArchiveSteps
        PROVE  at'["archive"] = None
    <3>1. ~PublishArchive(p)
      BY <2>1, <2>2 DEF PublishArchive
    <3>2. at'["archive"] = at["archive"]
      BY <1>1, <3>1, Touched
    <3>3. at["archive"] = None
      BY <1>1, <1>2, <1>3, <2>2, Entered DEF Archive
    <3>4. QED
      BY <3>2, <3>3
  <2>3. ASSUME next.step = "open"
        PROVE  at'["archive partial"] = None
    <3>1. now.step = "package"
      BY <1>1, <2>3, Control DEF PackageSteps, UndoSteps
    <3>2. now.step \notin ArchiveSteps
      BY <3>1 DEF ArchiveSteps
    <3>3. QED
      BY <1>1, <1>3, <1>4, <2>3, <3>2, Entered
  <2>4. ASSUME Alone("archive")', next.step \in ArchiveSteps \ {"open"}
        PROVE  /\ at'["archive partial"] = now.run
               /\ zips'[now.run].package = now.package
               /\ next.step # "write" => zips'[now.run].complete
    <3>1. \/ OpenArchive(p) /\ next.step = "write"
          \/ ArchiveWritten(p)
          \/ InspectArchive(p)
          \/ RecheckArchive(p) /\ now.step = "recheck zip"
      BY <1>1, <2>4, Control DEF ArchiveSteps, PackageSteps, UndoSteps
    <3>2. ~Unlinks(p)
      BY <2>1, <2>4 DEF Unlinks
    <3>3. now.run \in Runs
      <4>1. now.run # None
        BY <2>1, <2>4
      <4>2. now.run \in 0..MaxRuns
        BY <1>1 DEF TypeOK, Process
      <4>3. QED
        BY <4>1, <4>2 DEF Runs, None
    <3> DEFINE packages == SUBSET (Files \X Runs)
    <3> HIDE DEF packages
    <3>4. zips \in [Runs -> [package : packages, complete : BOOLEAN]]
      BY <1>1 DEF TypeOK, packages
    <3>5. CASE OpenArchive(p) /\ next.step = "write"
      <4>1. /\ at' = [at EXCEPT !["archive partial"] = now.run]
            /\ zips' = [zips EXCEPT ![now.run].package = now.package]
        BY <3>2, <3>5 DEF OpenArchive
      <4>2. "archive partial" \in DOMAIN at
        BY <1>1 DEF TypeOK, Partials
      <4>3. at'["archive partial"] = now.run
        BY <4>1, <4>2
      <4>4. zips'[now.run].package = now.package
        BY <3>3, <3>4, <4>1
      <4>5. QED
        BY <3>5, <4>3, <4>4
    <3>6. CASE ArchiveWritten(p)
      <4>1. /\ zips' = [zips EXCEPT ![now.run].complete = TRUE]
            /\ UNCHANGED at /\ now.step = "write"
        BY <3>6 DEF ArchiveWritten, At
      <4>2. /\ at["archive partial"] = now.run
            /\ zips[now.run].package = now.package
        BY <1>1, <1>2, <2>4, <4>1 DEF Archive, ArchiveSteps
      <4>3. /\ zips'[now.run].package = zips[now.run].package
            /\ zips'[now.run].complete
        BY <3>3, <3>4, <4>1
      <4>4. QED
        BY <4>1, <4>2, <4>3
    <3>7. CASE InspectArchive(p)
      <4>1. /\ UNCHANGED <<at, zips>> /\ now.step = "inspect"
        BY <3>2, <3>7 DEF InspectArchive, At
      <4>2. QED
        BY <1>1, <1>2, <2>4, <4>1 DEF Archive, ArchiveSteps
    <3>8. CASE RecheckArchive(p)
      <4>1. /\ UNCHANGED <<at, zips>> /\ now.step = "recheck zip"
        BY <3>2, <3>8 DEF RecheckArchive, At
      <4>2. QED
        BY <1>1, <1>2, <2>4, <4>1 DEF Archive, ArchiveSteps
    <3>9. QED
      BY <3>1, <3>5, <3>6, <3>7, <3>8
  <2>5. QED
    BY <1>4, <1>6, <2>1, <2>2, <2>3, <2>4 DEF Archive, ArchiveSteps
<1>7. QED
  BY <1>5, <1>6

\* WholeRuntimeKept: a published runtime is whole.
LEMMA WholeRuntimeKept ==
  ASSUME ReleaseInv, NEW p \in Builders, Builds(p)
  PROVE  WholeRuntime'
<1>1. TypeOK /\ Handoff(p) /\ WholeRuntime
  BY DEF ReleaseInv
<1> SUFFICES ASSUME at'["handoff"] # None, Alone("handoff")'
             PROVE  trees'[at'["handoff"]] = [files |-> Files, sound |-> TRUE]
  BY DEF WholeRuntime
<1>2. Alone("handoff")
  BY <1>1, Touched DEF Alone
<1>3. CASE at'["handoff"] = at["handoff"]
  <2>1. procs[p].step \notin Publishing("handoff")
    BY <1>1, <1>2, <1>3 DEF Handoff
  <2>2. UNCHANGED trees
    BY <1>1, <2>1, Touched
  <2>3. QED
    BY <1>1, <1>2, <1>3, <2>2 DEF WholeRuntime
<1>4. CASE at'["handoff"] # at["handoff"]
  <2>1. PublishRuntime(p) /\ UNCHANGED trees /\ procs[p].step = "replace"
    BY <1>1, <1>4, Touched DEF PublishRuntime, At
  <2>2. at'["handoff"] = at["handoff partial"]
    BY <1>1, <1>4, <2>1 DEF PublishRuntime, TypeOK, Outputs, Partials
  <2>3. QED
    BY <1>1, <1>2, <2>1, <2>2 DEF Handoff
<1>5. QED
  BY <1>3, <1>4

\* WholeArchiveKept: a published archive is whole.
LEMMA WholeArchiveKept ==
  ASSUME ReleaseInv, NEW p \in Builders, Builds(p)
  PROVE  WholeArchive'
<1>1. TypeOK /\ Handoff(p) /\ Archive(p) /\ Embeds(p) /\ WholeArchive
  BY DEF ReleaseInv
<1> SUFFICES ASSUME at'["archive"] # None, Alone("archive")'
             PROVE  LET zip == zips'[at'["archive"]] IN
                    /\ zip.complete /\ ValidPackage(zip.package)
                    /\ Alone("handoff")' =>
                         \E r \in Runs : \A entry \in zip.package : entry[2] = r
  BY DEF WholeArchive, ValidPackage
<1>2. /\ Alone("archive")
      /\ Alone("handoff")' => Alone("handoff")
  BY <1>1, Touched DEF Alone
<1>3. CASE at'["archive"] = at["archive"]
  <2>1. procs[p].step \notin Publishing("archive")
    BY <1>1, <1>2, <1>3 DEF Archive, Publishing
  <2>2. UNCHANGED zips
    BY <1>1, <2>1, Touched
  <2>3. QED
    BY <1>1, <1>2, <1>3, <2>2 DEF WholeArchive
<1>4. CASE at'["archive"] # at["archive"]
  <2>1. PublishArchive(p) /\ UNCHANGED zips /\ procs[p].step = "replace zip"
    BY <1>1, <1>4, Touched DEF PublishArchive, At
  <2>2. at'["archive"] = at["archive partial"]
    BY <1>1, <1>4, <2>1 DEF PublishArchive, TypeOK, Outputs, Partials
  <2>3. "replace zip" \in ArchiveSteps \ {"open"}
    BY DEF ArchiveSteps
  <2>4. /\ at["archive partial"] = procs[p].run
        /\ zips[procs[p].run].package = procs[p].package
        /\ zips[procs[p].run].complete
    BY <1>1, <1>2, <2>1, <2>3 DEF Archive
  <2>5. ValidPackage(procs[p].package)
    BY <1>1, <2>1, <2>3 DEF Embeds
  <2>6. ASSUME Alone("handoff")
        PROVE  \E r \in Runs : \A entry \in procs[p].package : entry[2] = r
    <3>1. /\ at["handoff"] # None
          /\ \A entry \in procs[p].package : entry[2] = at["handoff"]
      BY <1>1, <2>1, <2>3, <2>6 DEF Embeds
    <3>2. at["handoff"] \in 0..runs /\ runs \in 0..MaxRuns
      BY <1>1 DEF TypeOK, Outputs
    <3>3. at["handoff"] \in Runs
      BY <3>1, <3>2 DEF Runs, None
    <3>4. QED
      BY <3>1, <3>3
  <2>7. QED
    BY <1>2, <2>1, <2>2, <2>4, <2>5, <2>6
<1>5. QED
  BY <1>3, <1>4

\* CleanKeeps: what is cleaned while nothing is built is in no process' way.
LEMMA CleanKeeps == ReleaseInv /\ Clean => ReleaseInv'
<1> SUFFICES ASSUME ReleaseInv, Clean PROVE ReleaseInv'
  OBVIOUS
<1>1. /\ TypeOK /\ Exclusive /\ Sound /\ WholeRuntime /\ WholeArchive
      /\ \A p \in Builders : Handoff(p) /\ Embeds(p) /\ Archive(p)
  BY DEF ReleaseInv
<1>2. /\ UNCHANGED <<procs, trees, zips, runs, failures, overlapped>>
      /\ \A p \in Builders : procs[p].step = "idle"
  BY DEF Clean, At
<1>3. at \in [Outputs \cup Partials -> 0..runs] /\ 0 \in 0..runs
  BY <1>1 DEF TypeOK
<1>4. /\ at' \in [Outputs \cup Partials -> 0..runs]
      /\ \A name \in Outputs \cup Partials : at'[name] \in {None, at[name]}
  <2>1. PICK names : at' = [n \in DOMAIN at |-> IF n \in names THEN None ELSE at[n]]
    BY DEF Clean
  <2>2. QED
    BY <1>3, <2>1 DEF None
<1>5. TypeOK'
  BY <1>1, <1>2, <1>4 DEF TypeOK
<1>6. Exclusive' /\ Sound'
  BY <1>1, <1>2 DEF Exclusive, Sound, Alone
<1>7. ASSUME NEW p \in Builders PROVE (Handoff(p) /\ Embeds(p) /\ Archive(p))'
  BY <1>2 DEF Handoff, Embeds, Archive, Publishing, PublishSteps, UndoSteps,
     PackageSteps, ArchiveSteps
<1>8. at'["handoff"] \in {None, at["handoff"]} /\ at'["archive"] \in {None, at["archive"]}
  BY <1>4 DEF Outputs
<1>9. WholeRuntime' /\ WholeArchive'
  BY <1>1, <1>2, <1>8 DEF WholeRuntime, WholeArchive, Alone, ValidPackage
<1>10. QED
  BY <1>5, <1>6, <1>7, <1>9 DEF ReleaseInv

\* UnchangedKeeps: a stuttering step keeps the invariant.
LEMMA UnchangedKeeps == ReleaseInv /\ UNCHANGED vars => ReleaseInv'
<1> SUFFICES ASSUME ReleaseInv, UNCHANGED vars PROVE ReleaseInv'
  OBVIOUS
<1>1. UNCHANGED <<procs, at, trees, zips, runs, failures, overlapped>>
  BY DEF vars
<1>2. TypeOK'
  BY <1>1 DEF ReleaseInv, TypeOK
<1>3. Exclusive' /\ Sound'
  BY <1>1 DEF ReleaseInv, Exclusive, Sound, Alone
<1>4. ASSUME NEW p \in Builders PROVE (Handoff(p) /\ Embeds(p) /\ Archive(p))'
  <2>1. Handoff(p) /\ Embeds(p) /\ Archive(p)
    BY DEF ReleaseInv
  <2>2. QED
    BY <1>1, <2>1, ZenonT(40) DEF Handoff, Embeds, Archive, Alone
<1>5. WholeRuntime' /\ WholeArchive'
  BY <1>1 DEF ReleaseInv, WholeRuntime, WholeArchive, Alone, ValidPackage
<1>6. QED
  BY <1>2, <1>3, <1>4, <1>5 DEF ReleaseInv

\* BuildsKeep: every step of a process keeps the invariant.
LEMMA BuildsKeep ==
  ASSUME ReleaseInv, NEW p \in Builders, Builds(p) PROVE ReleaseInv'
<1>1. TypeOK /\ Exclusive /\ Sound /\ \A q \in Builders : Handoff(q)
  BY DEF ReleaseInv
<1>2. TypeOK'
  BY <1>1, Typed
<1>3. Exclusive' /\ Sound'
  BY <1>1, ExclusiveKept, SoundKept
<1>4. \A q \in Builders : (Handoff(q) /\ Embeds(q) /\ Archive(q))'
  BY HandoffKept, EmbedsKept, ArchiveKept
<1>5. WholeRuntime' /\ WholeArchive'
  BY WholeRuntimeKept, WholeArchiveKept
<1>6. QED
  BY <1>2, <1>3, <1>4, <1>5 DEF ReleaseInv

\* ReleaseInvariance: the state of every process, name and directory is one
\* that its steps lead to, in spite of failures, killed processes and cleaning.
THEOREM ReleaseInvariance == Spec => []ReleaseInv
<1>1. ReleaseInv /\ [Next]_vars => ReleaseInv'
  BY CleanKeeps, BuildsKeep, UnchangedKeeps DEF Next
<1>2. QED
  BY InitKeeps, <1>1, PTL DEF Spec

\* TypeCorrect: processes, names and what they name keep their types; no name
\* names a run that was not started.
THEOREM TypeCorrect == Spec => []TypeOK
<1>1. ReleaseInv => TypeOK
  BY DEF ReleaseInv
<1>2. QED
  BY ReleaseInvariance, <1>1, PTL

\* PublishedWhole: what is under a final name is whole, verified and of one
\* build, wherever processes were killed (publish_runtime, build_extension).
THEOREM PublishedWhole == Spec => []PublishedIsWhole
<1>1. ASSUME ReleaseInv PROVE PublishedIsWhole
  <2>1. TypeOK /\ Sound /\ WholeRuntime /\ WholeArchive
    BY <1>1 DEF ReleaseInv
  <2>2. at["handoff"] # None /\ "handoff" \notin overlapped =>
          trees[at["handoff"]] = [files |-> Files, sound |-> TRUE]
    BY <2>1 DEF WholeRuntime, Alone
  <2>3. ASSUME at["archive"] # None, "archive" \notin overlapped
        PROVE  LET zip == zips[at["archive"]] IN
               /\ zip.complete
               /\ {entry[1] : entry \in zip.package} = Files
               /\ \A entry \in zip.package : trees[entry[2]].sound
               /\ "handoff" \notin overlapped =>
                    Cardinality({entry[2] : entry \in zip.package}) = 1
    <3> DEFINE zip == zips[at["archive"]]
               packages == SUBSET (Files \X Runs)
    <3>1. /\ zip.complete /\ ValidPackage(zip.package)
          /\ Alone("handoff") => \E r \in Runs : \A entry \in zip.package : entry[2] = r
      BY <2>1, <2>3 DEF WholeArchive, Alone
    <3>2. {entry[1] : entry \in zip.package} = Files
      BY <3>1 DEF ValidPackage
    <3>3. \A entry \in zip.package : trees[entry[2]].sound
      <4>1. at["archive"] \in 0..runs /\ runs \in 0..MaxRuns
        BY <2>1 DEF TypeOK, Outputs
      <4>2. at["archive"] \in Runs
        BY <2>3, <4>1 DEF Runs, None
      <4>3. zip.package \in packages
        <5> HIDE DEF packages
        <5>1. zips \in [Runs -> [package : packages, complete : BOOLEAN]]
          BY <2>1 DEF TypeOK, packages
        <5>2. QED
          BY <4>2, <5>1
      <4>4. \A entry \in zip.package : entry[2] \in Runs
        BY <4>3
      <4>5. QED
        BY <2>1, <4>4 DEF Sound
    <3>4. ASSUME "handoff" \notin overlapped
          PROVE  Cardinality({entry[2] : entry \in zip.package}) = 1
      <4>1. PICK r \in Runs : \A entry \in zip.package : entry[2] = r
        BY <3>1, <3>4 DEF Alone
      <4>2. PICK entry \in zip.package : TRUE
        <5>1. PICK f \in Files : TRUE
          BY DEF ReleaseAssumption
        <5>2. QED
          BY <3>2, <5>1
      <4>3. {other[2] : other \in zip.package} = {r}
        BY <4>1, <4>2
      <4>4. Cardinality({r}) = 1
        BY FS_Singleton
      <4>5. QED
        BY <4>3, <4>4
    <3>5. QED
      BY <3>1, <3>2, <3>3, <3>4
  <2>4. QED
    BY <2>2, <2>3 DEF PublishedIsWhole
<1>2. QED
  BY ReleaseInvariance, <1>1, PTL

\* OwnWork: a process publishes its own work only, where nothing is published.
THEOREM OwnWork == Spec => OwnWorkIsPublished
<1> DEFINE Publishes ==
      \A output \in Outputs \ overlapped : at'[output] # at[output] =>
        \/ at'[output] = None
        \/ /\ at[output] = None
           /\ \E p \in Builders : /\ procs[p].run = at'[output]
                                  /\ procs'[p] = Idle
<1>1. ASSUME ReleaseInv, Clean PROVE Publishes
  BY <1>1 DEF Clean, ReleaseInv, TypeOK, Outputs
<1>2. ASSUME ReleaseInv, NEW p \in Builders, Builds(p),
             NEW output \in Outputs \ overlapped, at'[output] # at[output]
      PROVE  at[output] = None /\ procs[p].run = at'[output] /\ procs'[p] = Idle
  <2>1. TypeOK /\ Handoff(p) /\ Archive(p)
    BY <1>2 DEF ReleaseInv
  <2>2. CASE output = "handoff"
    <3>1. PublishRuntime(p) /\ Ends(p) /\ procs[p].step = "replace"
      BY <1>2, <2>1, <2>2, Touched DEF PublishRuntime, At
    <3>2. at'["handoff"] = at["handoff partial"]
      BY <1>2, <2>1, <2>2, <3>1 DEF PublishRuntime, TypeOK, Outputs, Partials
    <3>3. at["handoff"] = None /\ at["handoff partial"] = procs[p].run
      BY <1>2, <2>1, <2>2, <3>1 DEF Handoff, Alone, Publishing, PublishSteps
    <3>4. QED
      BY <2>1, <2>2, <3>1, <3>2, <3>3, Steps
  <2>3. CASE output = "archive"
    <3>1. PublishArchive(p) /\ Ends(p) /\ procs[p].step = "replace zip"
      BY <1>2, <2>1, <2>3, Touched DEF PublishArchive, At
    <3>2. at'["archive"] = at["archive partial"]
      BY <1>2, <2>1, <2>3, <3>1 DEF PublishArchive, TypeOK, Outputs, Partials
    <3>3. at["archive"] = None /\ at["archive partial"] = procs[p].run
      BY <1>2, <2>1, <2>3, <3>1 DEF Archive, Alone, ArchiveSteps
    <3>4. QED
      BY <2>1, <2>3, <3>1, <3>2, <3>3, Steps
  <2>4. QED
    BY <1>2, <2>2, <2>3 DEF Outputs
<1>3. ReleaseInv /\ [Next]_vars => [Publishes]_vars
  BY <1>1, <1>2 DEF Next
<1>4. QED
  BY ReleaseInvariance, <1>3, PTL DEF Spec, OwnWorkIsPublished
=============================================================================
