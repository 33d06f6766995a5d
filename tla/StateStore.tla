----------------------------- MODULE StateStore -----------------------------
(***************************************************************************)
(* What a workspace remembers about one incremental pipeline, and the runs *)
(* that read and write it: crates/state (Store), the engine's remember.rs, *)
(* and their callers, `etl run`, the scheduler, the console (all through   *)
(* perform and save_state of the CLI), a built artifact (etl-runner) and   *)
(* `etl state forget`.  Nothing locks the state file, so every interleaving*)
(* of those processes is a behaviour of this module.                       *)
(*                                                                         *)
(* A source's rows are numbered 1, 2, 3, ... in the order of its           *)
(* incremental column (or of its offsets): a column that "only goes up"    *)
(* (builders.rs, apply_watermark).  A mark m therefore says "rows 1..m     *)
(* have been loaded", and 0 is a node with nothing remembered.             *)
(***************************************************************************)
EXTENDS Integers, FiniteSets

CONSTANTS
    Runs,         \* processes that run the pipeline
    Artifacts,    \* those of them that are built artifacts (etl-runner)
    Forgets,      \* invocations of `etl state forget`
    Marked,       \* sources read through DuckDB, remembered by watermark
    Positioned,   \* native sources, remembered by a connector's checkpoint
    NeedsSession, \* TRUE when the plan is driven through a session
    MaxRow        \* bound: rows that ever arrive at one source

Procs == Runs \cup Forgets
Sources == Marked \cup Positioned

ASSUME ProcsAssumption == Artifacts \subseteq Runs /\ Runs \cap Forgets = {}
ASSUME SourcesAssumption == Marked \cap Positioned = {}
ASSUME BoundAssumption == MaxRow \in Nat /\ NeedsSession \in BOOLEAN

VARIABLES
    high,     \* high[n]: rows source n holds so far
    landed,   \* landed[n]: rows of n written to the output at least once
    file,     \* <key>.json
    tmp,      \* <key>.json.tmp, the one temporary every writer shares
    pc,       \* where each process is
    since,    \* since[p]: what p read from the store when it started
    seen,     \* seen[p][n]: the last row of n that p's probe, or fetch, saw
    stored,   \* stored[p]: the PipelineState p is about to save
    handle,   \* where the file that p has open for writing is now
    failed,   \* failed[p]: a stage or a delivery of p's run failed
    exit,     \* exit[p]: how p's last command ended
    history   \* history[p]: the outcome p last appended to .etl/runs

vars == <<high, landed, file, tmp, pc, since, seen, stored, handle, failed,
          exit, history>>
disk == <<file, tmp>>
world == <<high, landed>>

-----------------------------------------------------------------------------
(* PipelineState and the two files.                                        *)

Marks == [Sources -> Nat]
Nothing == [n \in Sources |-> 0]

(* A file is absent, just created and still empty, cut short, or a whole   *)
(* state document.                                                         *)
Content == [kind : {"absent", "empty", "torn", "state"}, marks : Marks]

Absent == [kind |-> "absent", marks |-> Nothing]
Empty == [kind |-> "empty", marks |-> Nothing]
Torn == [kind |-> "torn", marks |-> Nothing]
Document(m) == [kind |-> "state", marks |-> m]

(* Store::load: a missing file is a pipeline that never ran, and a file    *)
(* that does not parse is an error the caller gives up on.                 *)
Loads(f) == f.kind \in {"absent", "state"}

(* remember::remember: the marks of a successful run's report, folded into *)
(* a stored state.  A watermark is None when the source had nothing past   *)
(* its old mark; a connector's position is saved even when it did not      *)
(* move.                                                                   *)
\* Mutant: the mark is asked of the source after the sinks have run.
WatermarkAtEnd(p, n) == IF high[n] > since[p][n] THEN high[n] ELSE 0

Watermark(p, n) ==
    IF seen[p][n] > since[p][n] /\ ~NeedsSession THEN seen[p][n] ELSE 0

\* Mutant: the position before the last row read is kept.
RememberOneLess(p, base) ==
    [n \in Sources |-> IF n \in Positioned THEN seen[p][n] - 1 ELSE base[n]]

\* Mutant: the report replaces the stored state instead of being folded in.
RememberFresh(p, base) ==
    [n \in Sources |-> IF n \in Positioned THEN seen[p][n] ELSE Watermark(p, n)]

Remember(p, base) ==
    [n \in Sources |->
        IF n \in Positioned THEN seen[p][n]
        ELSE IF Watermark(p, n) > 0 THEN Watermark(p, n)
        ELSE base[n]]

\* Mutant: a moved position alone is not worth a save.
ChangedMarksOnly(p) == \E n \in Marked : Watermark(p, n) > 0

\* Mutant: a watermark is saved only with every other one.
ChangedTogether(p) == Marked # {} /\ \A n \in Sources : seen[p][n] > since[p][n]

Changed(p) == Positioned # {} \/ \E n \in Marked : Watermark(p, n) > 0

-----------------------------------------------------------------------------
Init ==
    /\ high = [n \in Sources |-> 0]
    /\ landed = [n \in Sources |-> {}]
    /\ file = Absent
    /\ tmp = Absent
    /\ pc = [p \in Procs |-> "idle"]
    /\ since = [p \in Procs |-> Nothing]
    /\ seen = [p \in Procs |-> Nothing]
    /\ stored = [p \in Procs |-> Nothing]
    /\ handle = [p \in Procs |-> "none"]
    /\ failed = [p \in Procs |-> FALSE]
    /\ exit = [p \in Procs |-> "none"]
    /\ history = [p \in Procs |-> "none"]

(* A row arrives at a source, at any moment of any run.                    *)
Arrive(n) ==
    /\ high[n] < MaxRow
    /\ high' = [high EXCEPT ![n] = @ + 1]
    /\ UNCHANGED <<landed, disk, pc, since, seen, stored, handle, failed,
                   exit, history>>

(* The end of a command, with its exit code: what the process held in      *)
(* memory is gone.  (seen is kept, to speak of how far the run had read.)  *)
Finish(p, code) ==
    /\ pc' = [pc EXCEPT ![p] = "idle"]
    /\ exit' = [exit EXCEPT ![p] = code]
    /\ since' = [since EXCEPT ![p] = Nothing]
    /\ stored' = [stored EXCEPT ![p] = Nothing]
    /\ failed' = [failed EXCEPT ![p] = FALSE]

(* A step on the way, to the next control point.                           *)
Go(p, to) ==
    /\ pc' = [pc EXCEPT ![p] = to]
    /\ UNCHANGED exit

(* load_and_compile (and the artifact's execute): the stored state decides *)
(* where each source reads from.  A file that does not parse is refused    *)
(* before anything runs, and nothing is recorded.                          *)
Start(p) ==
    /\ pc[p] = "idle"
    /\ Loads(file)
    /\ pc' = [pc EXCEPT ![p] = "loaded"]
    /\ since' = [since EXCEPT ![p] = file.marks]
    /\ seen' = [seen EXCEPT ![p] = Nothing]
    /\ exit' = [exit EXCEPT ![p] = "none"]
    /\ UNCHANGED <<world, disk, stored, handle, failed, history>>

Refused(p) ==
    /\ pc[p] = "idle"
    /\ ~Loads(file)
    /\ Finish(p, "refused")
    /\ UNCHANGED <<world, disk, seen, handle, history>>

(* The sources run: a native source is fetched into a staging file with    *)
(* the position the fetch ended at, a marked one becomes a view whose      *)
(* max(column) is probed before any stage that reads it.                   *)
ReadSources(p) ==
    /\ pc[p] = "loaded"
    /\ Go(p, "probed")
    /\ seen' = [seen EXCEPT ![p] = high]
    /\ UNCHANGED <<world, disk, since, stored, handle, failed, history>>

(* The rows of source n that the sinks of p's run read: a fetched or       *)
(* materialised source has its snapshot, a view is read again and may hold *)
(* rows that arrived after the probe.                                      *)
Window(p, n, views) ==
    (since[p][n] + 1) .. (IF n \in views THEN high[n] ELSE seen[p][n])

WriteSinks(p, views) ==
    /\ pc[p] = "probed"
    /\ Go(p, "ran")
    /\ landed' = [n \in Sources |-> landed[n] \cup Window(p, n, views)]
    /\ UNCHANGED <<high, disk, since, seen, stored, handle, failed, history>>

(* A stage or a delivery fails with some of the output written.  This is   *)
(* both an Err from the executor and a continue_on_failure report.         *)
SinksFail(p, part) ==
    /\ pc[p] = "probed"
    /\ Go(p, "ran")
    /\ landed' = [n \in Sources |->
                    landed[n] \cup (Window(p, n, Marked) \cap part)]
    /\ failed' = [failed EXCEPT ![p] = TRUE]
    /\ UNCHANGED <<high, disk, since, seen, stored, handle, history>>

(* perform appends the outcome to the history, best effort, before any     *)
(* state is written; an artifact keeps no history.  A failed run ends      *)
(* here, with no state written.                                            *)
\* Mutant: a failed run is not told apart from a successful one.
RecordAnyway(p, appended) ==
    /\ pc[p] = "ran"
    /\ Go(p, "recorded")
    /\ UNCHANGED <<world, disk, since, seen, stored, handle, failed, history>>

Record(p, appended) ==
    /\ pc[p] = "ran"
    /\ history' =
        IF p \notin Artifacts /\ appended
          THEN [history EXCEPT ![p] = IF failed[p] THEN "failed" ELSE "ok"]
          ELSE history
    /\ IF failed[p]
         THEN Finish(p, "failed")
         ELSE Go(p, "recorded") /\ UNCHANGED <<since, stored, failed>>
    /\ UNCHANGED <<world, disk, seen, handle>>

(* save_state reads the store again and folds the report into what it      *)
(* finds; an artifact folds it into the copy it read at the start.         *)
Fold(p) ==
    /\ pc[p] = "recorded"
    /\ LET base == IF p \in Artifacts THEN since[p] ELSE file.marks
       IN  IF p \notin Artifacts /\ ~Loads(file)
             THEN Finish(p, "failed")
           ELSE IF ~Changed(p)
             THEN Finish(p, "ok")
           ELSE /\ stored' = [stored EXCEPT ![p] = Remember(p, base)]
                /\ Go(p, "folded")
                /\ UNCHANGED <<since, failed>>
    /\ UNCHANGED <<world, disk, seen, handle, history>>

(* command_state, `forget`: one node or every node.  Forgetting a node     *)
(* that has nothing remembered saves nothing.                              *)
Forget(p, nodes) ==
    /\ pc[p] = "idle"
    /\ Loads(file)
    /\ nodes = Sources \/ \E n \in nodes : file.marks[n] > 0
    /\ stored' = [stored EXCEPT ![p] =
                    [n \in Sources |-> IF n \in nodes THEN 0
                                                      ELSE file.marks[n]]]
    /\ pc' = [pc EXCEPT ![p] = "folded"]
    /\ exit' = [exit EXCEPT ![p] = "none"]
    /\ UNCHANGED <<world, disk, since, seen, handle, failed, history>>

-----------------------------------------------------------------------------
(* Store::save, one action per system call.  std::fs::write opens the      *)
(* temporary with truncation, then writes it; rename moves the file that   *)
(* is at the temporary's name now, whoever wrote it, and takes along any   *)
(* handle another writer has open on it.                                   *)

\* Mutant: the state file is written in place.
OpenInPlace(p) ==
    /\ pc[p] = "folded"
    /\ Go(p, "opened")
    /\ file' = Empty
    /\ handle' = [handle EXCEPT ![p] = "file"]
    /\ UNCHANGED <<world, tmp, since, seen, stored, failed, history>>

OpenTemporary(p) ==
    /\ pc[p] = "folded"
    /\ Go(p, "opened")
    /\ tmp' = Empty
    /\ handle' = [handle EXCEPT ![p] = "tmp"]
    /\ UNCHANGED <<world, file, since, seen, stored, failed, history>>

(* What a file holds once p's document has been written over what was      *)
(* there: the document, or, over another writer's longer document, a       *)
(* document with a stray tail.                                             *)
Overwritten(old, doc) ==
    IF old.kind \in {"absent", "empty"} \/ old = doc THEN {doc} ELSE {doc, Torn}

(* The open file of p comes to hold one of these, wherever it is by now.   *)
HandleHolds(p, inTmp, inFile) ==
    /\ \/ handle[p] = "tmp" /\ tmp' \in inTmp
       \/ handle[p] # "tmp" /\ tmp' = tmp
    /\ \/ handle[p] = "file" /\ file' \in inFile
       \/ handle[p] # "file" /\ file' = file

WriteTemporary(p) ==
    /\ pc[p] = "opened"
    /\ Go(p, "written")
    /\ HandleHolds(p, Overwritten(tmp, Document(stored[p])),
                      Overwritten(file, Document(stored[p])))
    /\ handle' = [handle EXCEPT ![p] = "none"]
    /\ UNCHANGED <<world, since, seen, stored, failed, history>>

(* The name <key>.json.tmp goes away, and open handles with it.            *)
Moved(to) ==
    [q \in Procs |-> IF handle[q] = "tmp" THEN to
                     ELSE IF handle[q] = "file" /\ to = "file" THEN "gone"
                     ELSE handle[q]]

Rename(p) ==
    /\ pc[p] = "written"
    /\ tmp.kind # "absent"
    /\ file' = tmp
    /\ tmp' = Absent
    /\ handle' = Moved("file")
    /\ Finish(p, "ok")
    /\ UNCHANGED <<world, seen, history>>

(* rename refuses: another writer has renamed the temporary already, or    *)
(* the target is held open.  The temporary is removed, whoever wrote it.   *)
RenameFails(p) ==
    /\ pc[p] = "written"
    /\ tmp' = Absent
    /\ handle' = Moved("gone")
    /\ Finish(p, "failed")
    /\ UNCHANGED <<world, file, seen, history>>

(* The write itself fails (a full disk): what was written stays behind.    *)
WriteFails(p) ==
    /\ pc[p] = "opened"
    /\ HandleHolds(p, {tmp, Torn}, {file, Torn})
    /\ handle' = [handle EXCEPT ![p] = "none"]
    /\ Finish(p, "failed")
    /\ UNCHANGED <<world, seen, history>>

(* The process is killed at any point; the operating system goes on.       *)
Crash(p) ==
    /\ pc[p] # "idle"
    /\ HandleHolds(p, {tmp, Torn}, {file, Torn})
    /\ handle' = [handle EXCEPT ![p] = "none"]
    /\ Finish(p, "none")
    /\ UNCHANGED <<world, seen, history>>

-----------------------------------------------------------------------------
Save(p) ==
    \/ OpenTemporary(p)
    \/ WriteTemporary(p)
    \/ Rename(p)

Run(p) ==
    \/ Start(p)
    \/ ReadSources(p)
    \/ \E views \in SUBSET Marked : WriteSinks(p, views)
    \/ \E appended \in BOOLEAN : Record(p, appended)
    \/ Fold(p)
    \/ Save(p)

Trouble(p) ==
    \/ \E part \in SUBSET (1 .. MaxRow) : SinksFail(p, part)
    \/ WriteFails(p)
    \/ RenameFails(p)
    \/ Crash(p)

Next ==
    \/ \E n \in Sources : Arrive(n)
    \/ \E p \in Runs : Run(p) \/ Refused(p) \/ Trouble(p)
    \/ \E p \in Forgets, nodes \in {{n} : n \in Sources} \cup {Sources} :
            Forget(p, nodes)
    \/ \E p \in Forgets : Save(p) \/ Trouble(p)

Spec == Init /\ [][Next]_vars

(* What is assumed of the world when the question is whether a pipeline    *)
(* catches up: a process that can take a step takes it (nothing in perform *)
(* or save_state waits for another process), an idle pipeline is started   *)
(* again (the scheduler finds it due every interval), and trouble, a       *)
(* failed stage, a failed write or a crash, ends some day.                 *)
TroubleEnds == <>[][\A p \in Procs : ~Trouble(p)]_vars

Fairness == (\A p \in Runs : WF_vars(Run(p))) /\ TroubleEnds

FairSpec == Spec /\ Fairness

-----------------------------------------------------------------------------
(* Type correctness.                                                       *)
TypeOK ==
    /\ high \in Marks
    /\ landed \in [Sources -> SUBSET Nat]
    /\ file \in Content
    /\ tmp \in Content
    /\ pc \in [Procs -> {"idle", "loaded", "probed", "ran", "recorded",
                         "folded", "opened", "written"}]
    /\ since \in [Procs -> Marks]
    /\ seen \in [Procs -> Marks]
    /\ stored \in [Procs -> Marks]
    /\ handle \in [Procs -> {"none", "tmp", "file", "gone"}]
    /\ failed \in [Procs -> BOOLEAN]
    /\ exit \in [Procs -> {"none", "ok", "failed", "refused"}]
    /\ history \in [Procs -> {"none", "ok", "failed"}]

(* No row is ever skipped: every row at or below a mark in a state file    *)
(* that loads has been written to the output, however many runs and        *)
(* forgets race on the file and wherever they fail or crash.  This is what *)
(* lock.rs means by "the loser is a re-read rather than lost data", and it *)
(* rests on the order of a run: probe, write the sinks, only then save.    *)
NoRowLost ==
    Loads(file) => \A n \in Sources : (1 .. file.marks[n]) \subseteq landed[n]

(* The state file always parses.  Store::save promises it for one writer   *)
(* that may crash ("a crash mid-write leaves the previous state intact");  *)
(* with two writers the shared temporary breaks it.                        *)
NeverTorn == Loads(file)

(* A run that ends with exit code 0 has recorded how far it read: the next *)
(* run does not read the same rows again.                                  *)
SuccessIsRemembered ==
    \A p \in Runs :
        pc[p] = "idle" /\ exit[p] = "ok" =>
            \A n \in Sources : file.marks[n] >= seen[p][n]

(* A mark goes back only when somebody forgets it: a crash or a failed     *)
(* save leaves the mark of the last good run, and a run never saves an     *)
(* older one.                                                              *)
MarksOnlyGrow ==
    [][\A n \in Sources : file'.marks[n] >= file.marks[n]]_file

(* The store and its racing writers implement incremental loading.         *)
Load == INSTANCE IncrementalLoad WITH
            Nodes <- Sources,
            arrived <- high,
            loaded <- landed,
            remembered <- [readable |-> Loads(file), marks |-> file.marks]

(* Every behaviour of the racing processes is one of the abstract          *)
(* specification: no file step, lost race or crash claims unloaded rows.   *)
ImplementsLoad == Load!LSpec

(* A pipeline whose source stops growing catches up with it: in the end    *)
(* every row has been written and remembered, for good.                    *)
CatchesUp ==
    <>[](\A n \in Sources : high[n] = MaxRow => file.marks[n] = MaxRow)
=============================================================================
