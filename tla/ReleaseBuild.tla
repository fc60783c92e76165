---------------------------- MODULE ReleaseBuild ----------------------------
(***************************************************************************)
(* The build of a release: processes that build the native runtime in a    *)
(* temporary directory of their own and hand it over                       *)
(* (tools/build_runtime.py, runtime_build_common.py), and processes that   *)
(* embed the runtime handed over in an extension archive                   *)
(* (tools/build_extension.py).  They share four names of the file system,  *)
(* hold no lock, and may be killed anywhere.                               *)
(*                                                                         *)
(* Names and what they name are told apart as on POSIX: a directory that   *)
(* is renamed is still emptied by who opened it before, and an archive     *)
(* that is unlinked is still written.                                      *)
(***************************************************************************)
EXTENDS Integers, FiniteSets

CONSTANTS
  Builders,    \* processes that may run at a time
  Files,       \* files of the runtime contract
  Artifacts,   \* number of locked downloads
  Size,        \* chunks of a download, by the lock
  MaxChunks,   \* bound: chunks a server sends
  MaxRuns,     \* bound: builds
  MaxFailures  \* bound: failing steps and killed processes

ASSUME ReleaseAssumption ==
  /\ {Artifacts, Size, MaxChunks, MaxRuns, MaxFailures} \subseteq Nat
  /\ Artifacts > 0 /\ Size > 0 /\ MaxChunks > Size
  /\ Files # {}

VARIABLES
  procs,      \* the processes
  at,         \* what the names name: the run that made it
  trees,      \* the runtime directory of each run
  zips,       \* the archive of each run
  runs,       \* number of builds
  failures,   \* number of failures
  overlapped  \* history: outputs that two processes were about to publish

vars == <<procs, at, trees, zips, runs, failures, overlapped>>

None == 0
Runs == 1..MaxRuns
Outputs == {"handoff", "archive"}
Partials == {"handoff partial", "archive partial"}
Partial(output) ==
  IF output = "handoff" THEN "handoff partial" ELSE "archive partial"

Idle == [step |-> "idle", run |-> None, left |-> 0, count |-> 0,
         altered |-> FALSE, listed |-> {}, package |-> {}, opened |-> None]
NoTree == [files |-> {}, sound |-> TRUE]
NoZip == [package |-> {}, complete |-> FALSE]

BuildSteps == {"fetch", "extract", "compile", "assemble", "check"}
PublishSteps == {"move", "verify", "recheck", "replace"}
UndoSteps == {"undo", "remove"}
PackageSteps == {"list", "link", "package"}
ArchiveSteps == {"open", "write", "inspect", "recheck zip", "replace zip"}

\* The steps from the check that an output is free to the end of a process.
Publishing(output) ==
  IF output = "handoff" THEN PublishSteps \cup UndoSteps ELSE ArchiveSteps

Init ==
  /\ procs = [p \in Builders |-> Idle]
  /\ at = [name \in Outputs \cup Partials |-> None]
  /\ trees = [r \in Runs |-> NoTree] /\ zips = [r \in Runs |-> NoZip]
  /\ runs = 0 /\ failures = 0 /\ overlapped = {}

Process ==
  [step : {"idle"} \cup BuildSteps \cup PublishSteps \cup UndoSteps
            \cup PackageSteps \cup ArchiveSteps,
   run : 0..MaxRuns, left : 0..Artifacts, count : 0..Size, altered : BOOLEAN,
   listed : SUBSET Files, package : SUBSET (Files \X Runs), opened : 0..MaxRuns]

TypeOK ==
  /\ procs \in [Builders -> Process]
  /\ \A p \in Builders : {procs[p].run, procs[p].opened} \subseteq 0..runs
  /\ at \in [Outputs \cup Partials -> 0..runs]
  /\ trees \in [Runs -> [files : SUBSET Files, sound : BOOLEAN]]
  /\ zips \in [Runs -> [package : SUBSET (Files \X Runs), complete : BOOLEAN]]
  /\ runs \in 0..MaxRuns /\ failures \in 0..MaxFailures
  /\ overlapped \subseteq Outputs
-----------------------------------------------------------------------------
At(p, step) == procs[p].step = step
Goes(p, step) == procs' = [procs EXCEPT ![p].step = step]
Ends(p) == procs' = [procs EXCEPT ![p] = Idle]
Failure == failures < MaxFailures /\ failures' = failures + 1

Starts(p, process) ==
  /\ At(p, "idle") /\ runs < MaxRuns
  /\ runs' = runs + 1
  /\ procs' = [procs EXCEPT ![p] = [process EXCEPT !.run = runs + 1]]
  /\ UNCHANGED <<at, trees, zips, failures, overlapped>>

\* Fault: a former build is in nobody's way.
NeverTaken(name) == FALSE

\* output.exists() or output.is_symlink()
Taken(name) == at[name] # None

\* Neither the output nor what remains of a killed build may be in the way.
Enters(p, output, step) ==
  IF Taken(output) \/ Taken(Partial(output))
  THEN Ends(p) /\ UNCHANGED overlapped
  ELSE /\ Goes(p, step)
       /\ overlapped' = overlapped \cup
            {o \in {output} : \E q \in Builders :
                                procs[q].step \in Publishing(output)}
-----------------------------------------------------------------------------
(* The runtime *)

BuildRuntime(p) ==
  Starts(p, [Idle EXCEPT !.step = "fetch", !.left = Artifacts])

Private == UNCHANGED <<at, trees, zips, runs, failures, overlapped>>

\* Fault: a server may send without end.
Unlimited(count) == FALSE

TooMuch(count) == count > Size

Verified(proc) == proc.count = Size /\ ~proc.altered

\* download_artifact: a chunk, as published or not, ...
Receive(p) ==
  LET count == procs[p].count + 1 IN
  /\ At(p, "fetch") /\ count <= MaxChunks
  /\ \E altered \in BOOLEAN :
       IF TooMuch(count) THEN Ends(p)
       ELSE procs' = [procs EXCEPT ![p].count = count,
                                   ![p].altered = @ \/ altered]
  /\ Private

\* ... and the end of what the server sends.
Downloaded(p) ==
  /\ At(p, "fetch")
  /\ IF Verified(procs[p])
     THEN procs' = [procs EXCEPT ![p].step = "extract", ![p].count = 0,
                                 ![p].left = @ - 1]
     ELSE Ends(p)
  /\ Private

\* safe_extract and exact_archive_root
Extracted(p) ==
  /\ At(p, "extract")
  /\ Goes(p, IF procs[p].left > 0 THEN "fetch" ELSE "compile")
  /\ Private

\* configure_and_package_worker: the native build makes some of the files,
\* the right ones or not, ...
Compiled(p) ==
  /\ At(p, "compile")
  /\ \E files \in SUBSET Files :
       procs' = [procs EXCEPT ![p].step = "assemble", ![p].listed = files]
  /\ Private

\* ... and assemble_runtime_package links the others, where the build made
\* exactly its own.
Native == {CHOOSE f \in Files : TRUE}

Assembled(p) ==
  /\ At(p, "assemble")
  /\ IF procs[p].listed = Native
     THEN procs' = [procs EXCEPT ![p].step = "check", ![p].listed = Files]
     ELSE Ends(p)
  /\ Private

\* publish_runtime: the checks, ...
CheckRuntime(p) ==
  /\ At(p, "check") /\ Enters(p, "handoff", "move")
  /\ UNCHANGED <<at, trees, zips, runs, failures>>

\* A directory is renamed over none or an empty one.
Free(name) == at[name] = None \/ trees[at[name]].files = {}

\* ... runtime.replace(partial), ...
MoveToPartial(p) ==
  LET run == procs[p].run IN
  /\ At(p, "move")
  /\ IF Free("handoff partial")
     THEN /\ at' = [at EXCEPT !["handoff partial"] = run]
          /\ trees' = [trees EXCEPT
               ![run] = [files |-> procs[p].listed, sound |-> ~procs[p].altered]]
          /\ Goes(p, "verify")
     ELSE Goes(p, "undo") /\ UNCHANGED <<at, trees>>
  /\ UNCHANGED <<zips, runs, failures, overlapped>>

\* validate_runtime_package of what a name names
Whole(name) == at[name] # None /\ trees[at[name]].files = Files

VerifyPartial(p) ==
  /\ At(p, "verify")
  /\ Goes(p, IF Whole("handoff partial") THEN "recheck" ELSE "undo")
  /\ Private

Recheck(p) ==
  /\ At(p, "recheck")
  /\ Goes(p, IF Taken("handoff") THEN "undo" ELSE "replace")
  /\ Private

\* ... partial.replace(output), ...
PublishRuntime(p) ==
  /\ At(p, "replace")
  /\ IF at["handoff partial"] # None /\ Free("handoff")
     THEN /\ at' = [at EXCEPT !["handoff"] = at["handoff partial"],
                              !["handoff partial"] = None]
          /\ Ends(p)
     ELSE Goes(p, "undo") /\ UNCHANGED at
  /\ UNCHANGED <<trees, zips, runs, failures, overlapped>>

\* ... and shutil.rmtree(partial) where one of them fails: whatever is at
\* the name is opened, ...
Undo(p) ==
  /\ At(p, "undo")
  /\ IF at["handoff partial"] = None THEN Ends(p)
     ELSE procs' = [procs EXCEPT ![p].step = "remove",
                                 ![p].opened = at["handoff partial"]]
  /\ Private

\* ... emptied file by file, ...
RemoveFile(p) ==
  /\ At(p, "remove")
  /\ \E f \in trees[procs[p].opened].files :
       trees' = [trees EXCEPT ![procs[p].opened].files = @ \ {f}]
  /\ UNCHANGED <<procs, at, zips, runs, failures, overlapped>>

\* ... and what is then at the name goes, if it is empty.
RemoveTree(p) ==
  /\ At(p, "remove") /\ trees[procs[p].opened].files = {}
  /\ at' = [at EXCEPT !["handoff partial"] =
              IF Free("handoff partial") THEN None ELSE @]
  /\ Ends(p)
  /\ UNCHANGED <<trees, zips, runs, failures, overlapped>>
-----------------------------------------------------------------------------
(* The extension *)

\* build_extension: one that finds no valid runtime has no effect.
BuildExtension(p) ==
  Whole("handoff") /\ Starts(p, [Idle EXCEPT !.step = "list"])

\* shutil.copytree lists the runtime, ...
ListRuntime(p) ==
  /\ At(p, "list")
  /\ IF at["handoff"] = None THEN Ends(p)
     ELSE procs' = [procs EXCEPT ![p].step = "link",
                                 ![p].listed = trees[at["handoff"]].files]
  /\ Private

\* ... and links what it listed, by name.
LinkFile(p) ==
  LET run == at["handoff"] IN
  /\ At(p, "link")
  /\ \E f \in procs[p].listed :
       IF run # None /\ f \in trees[run].files
       THEN procs' = [procs EXCEPT ![p].listed = @ \ {f},
                                   ![p].package = @ \cup {<<f, run>>}]
       ELSE Ends(p)
  /\ Private

Linked(p) ==
  /\ At(p, "link") /\ procs[p].listed = {}
  /\ Goes(p, "package")
  /\ Private

\* Fault: the runtime was validated where it came from.
ValidatedBefore(package) == TRUE

\* validate_runtime of the package root
ValidPackage(package) == {entry[1] : entry \in package} = Files

CheckPackage(p) ==
  /\ At(p, "package")
  /\ IF ValidPackage(procs[p].package) THEN Enters(p, "archive", "open")
     ELSE Ends(p) /\ UNCHANGED overlapped
  /\ UNCHANGED <<at, trees, zips, runs, failures>>

\* partial.unlink(missing_ok=True), whoever wrote it.
Unlinks(p) == at' = [at EXCEPT !["archive partial"] = None] /\ Ends(p)

\* write_extension_archive, which opens the archive exclusively, ...
OpenArchive(p) ==
  LET run == procs[p].run IN
  /\ At(p, "open")
  /\ IF at["archive partial"] # None THEN Unlinks(p) /\ UNCHANGED zips
     ELSE /\ at' = [at EXCEPT !["archive partial"] = run]
          /\ zips' = [zips EXCEPT ![run].package = procs[p].package]
          /\ Goes(p, "write")
  /\ UNCHANGED <<trees, runs, failures, overlapped>>

ArchiveWritten(p) ==
  /\ At(p, "write") /\ Goes(p, "inspect")
  /\ zips' = [zips EXCEPT ![procs[p].run].complete = TRUE]
  /\ UNCHANGED <<at, trees, runs, failures, overlapped>>

\* ... validate_extension_archive of what is at the name, ...
InspectArchive(p) ==
  LET zip == at["archive partial"] IN
  /\ At(p, "inspect")
  /\ IF zip # None /\ zips[zip] = [package |-> procs[p].package, complete |-> TRUE]
     THEN Goes(p, "recheck zip") /\ UNCHANGED at
     ELSE Unlinks(p)
  /\ UNCHANGED <<trees, zips, runs, failures, overlapped>>

RecheckArchive(p) ==
  /\ At(p, "recheck zip")
  /\ IF Taken("archive") THEN Unlinks(p)
     ELSE Goes(p, "replace zip") /\ UNCHANGED at
  /\ UNCHANGED <<trees, zips, runs, failures, overlapped>>

\* ... and partial.replace(output), which replaces what is there.
PublishArchive(p) ==
  /\ At(p, "replace zip") /\ Ends(p)
  /\ at' = IF at["archive partial"] # None
           THEN [at EXCEPT !["archive"] = at["archive partial"],
                           !["archive partial"] = None] ELSE at
  /\ UNCHANGED <<trees, zips, runs, failures, overlapped>>
-----------------------------------------------------------------------------
\* A connection breaks, a compiler or Blender refuses, a disk is full.  The
\* package is shown to Blender before the archive is opened.
StepFails(p) ==
  /\ Failure
  /\ \/ /\ procs[p].step \in BuildSteps \cup UndoSteps \cup PackageSteps \cup {"open"}
        /\ Ends(p) /\ UNCHANGED at
     \/ procs[p].step \in PublishSteps /\ Goes(p, "undo") /\ UNCHANGED at
     \/ procs[p].step \in ArchiveSteps /\ Unlinks(p)
  /\ UNCHANGED <<trees, zips, runs, overlapped>>

Killed(p) ==
  /\ ~At(p, "idle") /\ Failure /\ Ends(p)
  /\ UNCHANGED <<at, trees, zips, runs, overlapped>>

\* The build tree is cleaned while nothing is built.
Clean ==
  /\ \A p \in Builders : At(p, "idle")
  /\ \E names \in SUBSET {n \in DOMAIN at : at[n] # None} :
       /\ names # {}
       /\ at' = [n \in DOMAIN at |-> IF n \in names THEN None ELSE at[n]]
  /\ UNCHANGED <<procs, trees, zips, runs, failures, overlapped>>

Builds(p) ==
  \/ BuildRuntime(p)
  \/ Receive(p)
  \/ Downloaded(p)
  \/ Extracted(p)
  \/ Compiled(p)
  \/ Assembled(p)
  \/ CheckRuntime(p)
  \/ MoveToPartial(p)
  \/ VerifyPartial(p)
  \/ Recheck(p)
  \/ PublishRuntime(p)
  \/ Undo(p)
  \/ RemoveFile(p)
  \/ RemoveTree(p)
  \/ BuildExtension(p)
  \/ ListRuntime(p)
  \/ LinkFile(p)
  \/ Linked(p)
  \/ CheckPackage(p)
  \/ OpenArchive(p)
  \/ ArchiveWritten(p)
  \/ InspectArchive(p)
  \/ RecheckArchive(p)
  \/ PublishArchive(p)
  \/ StepFails(p)
  \/ Killed(p)

Next == Clean \/ \E p \in Builders : Builds(p)

Spec == Init /\ [][Next]_vars
=============================================================================
