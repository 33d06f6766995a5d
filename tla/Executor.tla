------------------------------ MODULE Executor ------------------------------
(***************************************************************************)
(* One pipeline run after another by the engine's executor:                *)
(* crates/duckdb-engine, exec.rs and native.rs.                            *)
(*                                                                         *)
(* A plan's stages are numbered in execution order.  A plan that holds a   *)
(* control node, a native transform or a stage policy is driven stage by   *)
(* stage through a session (run_driven); every other plan goes to DuckDB   *)
(* as one script (run_one_script).  Both read the native sources first,    *)
(* deliver the native sinks only after a run without failures, and settle  *)
(* what the sources hold only after that.                                  *)
(*                                                                         *)
(* The rows of a relation, a file or an output are abstracted to the runs  *)
(* that read them: {run} is fresh, a smaller number is left over, and {}   *)
(* is a relation or a file that does not exist.                            *)
(***************************************************************************)
EXTENDS Integers, FiniteSets, Sequences

CONSTANTS
    N,        \* stages of a plan
    Plans,    \* the plans that a behaviour may run
    MaxRuns   \* bound: runs of the plan, one after another

Stages == 1 .. N

(* What a stage is: a source of DuckDB's own, plain or incremental; a      *)
(* native source that keeps a position or holds messages; a transform,     *)
(* native or not; a control node that may decide a branch or fail; a sink  *)
(* of DuckDB's own or a native one.                                        *)
NativeSourceKinds == {"stream", "queue"}
SourceKinds == {"source", "marked"} \cup NativeSourceKinds
ControlKinds == {"branch", "check"}
SinkKinds == {"sink", "nativesink"}
Kinds == SourceKinds \cup ControlKinds \cup SinkKinds \cup {"step", "native"}

Plan == [kind : [Stages -> Kinds], inputs : [Stages -> SUBSET Stages],
         retries : [Stages -> Nat], carryOn : SUBSET Stages,
         disk : SUBSET Stages, splits : SUBSET Stages,
         extended : BOOLEAN, counts : BOOLEAN]

(* What compile_with lets through: an input comes earlier in the order and *)
(* is a relation, a source has none, a sink one and any other stage some;  *)
(* quality nodes, which split their input, are transforms of DuckDB's own. *)
WellFormed(p) ==
    /\ p \in Plan
    /\ \A i \in Stages :
        /\ \A j \in p.inputs[i] : j < i /\ p.kind[j] \notin SinkKinds
        /\ p.inputs[i] = {} <=> p.kind[i] \in SourceKinds
        /\ p.kind[i] \in SinkKinds => \E j \in Stages : p.inputs[i] = {j}
        /\ i \in p.disk => p.kind[i] \notin SinkKinds
        /\ i \in p.splits => p.kind[i] = "step"

ASSUME SizeAssumption == N \in Nat /\ MaxRuns \in Nat
ASSUME PlansAssumption == \A p \in Plans : WellFormed(p)

VARIABLES
    plan,      \* the compiled plan
    run,       \* how many runs have begun
    pc,        \* where the run is
    at,        \* the stage its loop has come to
    attempt,   \* retries of that stage so far
    session,   \* the DuckDB session: "up", or "lost" behind a probe's back
    unusable,  \* stages whose relation was never created
    untaken,   \* stages behind a branch that went the other way
    outcome,   \* outcome[i]: what the report says of stage i
    rel,       \* rel[i]: the relation of stage i, in DuckDB's session
    spill,     \* spill[i]: .etl/tmp/<node>.parquet, of a disk stage
    staged,    \* staged[i]: .etl/tmp/native/<node>.jsonl, of a native sink
    out,       \* out[i]: what sink i last wrote or delivered
    held,      \* held[i]: what native source i read and what became of it
    blamed,    \* the stage an error names, or 0
    counted,   \* the counts on one script's stdout, as parse_counts reads them
    marks      \* the watermarks on it, as parse_watermarks reads them

memory == <<attempt, session, unusable, untaken, outcome, rel>>
printed == <<counted, marks>>
vars == <<plan, run, pc, at, memory, spill, staged, out, held, blamed, printed>>

Nothing == [i \in Stages |-> {}]
Of(kinds) == {i \in Stages : plan.kind[i] \in kinds}

(* Plan::needs_session.                                                    *)
NeedsSession(p) ==
    \E i \in Stages : \/ p.kind[i] \in ControlKinds \cup {"native"}
                      \/ p.retries[i] > 0
                      \/ i \in p.carryOn

Driven == NeedsSession(plan)

(* RunOptions::counts, TRUE unless --no-counts was given.                  *)
Counts == plan.counts

(* Plan::has_prelude_probe: a count that is no stage's follows the LOADs.  *)
HasPrelude == Counts /\ plan.extended
Prelude == <<0, 1>>

Failures == {i \in Stages : outcome[i] = "failed"}

(* A loop over the stages of S comes to the first one that is left.        *)
Comes(S, i) == i \in S /\ i >= at /\ \A j \in S : j >= at => i <= j
Through(S) == \A j \in S : j < at

Init ==
    /\ plan \in Plans
    /\ run = 0
    /\ pc = "idle"
    /\ at = 1
    /\ attempt = 0
    /\ session = "up"
    /\ unusable = {}
    /\ untaken = {}
    /\ outcome = [i \in Stages |-> "pending"]
    /\ rel = Nothing
    /\ spill = Nothing
    /\ staged = Nothing
    /\ out = Nothing
    /\ held = [i \in Stages |-> "none"]
    /\ blamed = 0
    /\ counted = <<>>
    /\ marks = <<>>

(* Every way out of a run drops Staging, which deletes the staging files,  *)
(* and Receipts, which gives back what is still held.                      *)
\* Mutant: an early return forgets the receipts.
LeaveHolding(h) == held' = h /\ staged' = Nothing

Dropped(h) ==
    /\ held' = [i \in Stages |-> IF h[i] = "held" THEN "released" ELSE h[i]]
    /\ staged' = Nothing

Fails(stage) == pc' = "failed" /\ blamed' = stage /\ Dropped(held)

-----------------------------------------------------------------------------
(* run, up to the first statement.                                         *)

Begin ==
    /\ pc \in {"idle", "failed", "reported", "killed"}
    /\ run < MaxRuns
    /\ run' = run + 1
    /\ pc' = "prepare"
    /\ at' = 1
    /\ attempt' = 0
    /\ session' = "up"
    /\ unusable' = {}
    /\ untaken' = {}
    /\ outcome' = [i \in Stages |-> "pending"]
    /\ rel' = Nothing
    /\ held' = [i \in Stages |-> "none"]
    /\ blamed' = 0
    /\ counted' = <<>>
    /\ marks' = <<>>
    /\ UNCHANGED <<plan, spill, staged, out>>

(* prepare_sinks and prepare_spills: directories are made, and a file that *)
(* must not be overwritten refuses the run.                                *)
Prepare(ok) ==
    /\ pc = "prepare"
    /\ IF ok THEN pc' = "sources" /\ UNCHANGED <<staged, held, blamed>>
             ELSE Fails(0)
    /\ UNCHANGED <<printed, plan, run, at, memory, spill, out>>

(* native::stage_sources, one source: it is read, or it fails before or    *)
(* after its receipt is held, and a failure drops every receipt so far.    *)
StageSource(i, how) ==
    /\ pc = "sources"
    /\ Comes(Of(NativeSourceKinds), i)
    /\ LET got == IF how = "unread" THEN held ELSE [held EXCEPT ![i] = "held"]
       IN  IF how = "read"
           THEN held' = got /\ at' = i + 1 /\ UNCHANGED <<pc, staged, blamed>>
           ELSE pc' = "failed" /\ at' = i /\ blamed' = i /\ Dropped(got)
    /\ UNCHANGED <<printed, plan, run, memory, spill, out>>

(* Session::open with its prelude, or the one `-c` invocation, whose       *)
(* prelude prints a count of its own.                                      *)
Open(ok) ==
    /\ pc = "sources"
    /\ Through(Of(NativeSourceKinds))
    /\ IF ok
       THEN /\ pc' = IF Driven THEN "stage" ELSE "script"
            /\ counted' = IF ~Driven /\ HasPrelude THEN <<Prelude>> ELSE <<>>
            /\ UNCHANGED <<staged, held, blamed>>
       ELSE Fails(0) /\ UNCHANGED counted
    /\ at' = 1
    /\ UNCHANGED <<marks, plan, run, memory, spill, out>>

-----------------------------------------------------------------------------
(* A stage's statement.  A disk stage is two statements, a COPY to its     *)
(* spill and a view over the file, and a session goes on to the second     *)
(* when the first has failed.                                              *)

Rows(i) == IF plan.kind[i] \in SourceKinds THEN {run}
           ELSE UNION {rel[j] : j \in plan.inputs[i]}

Statement(i, ok) ==
    /\ rel' = IF i \in Of(SinkKinds) THEN rel
              ELSE IF ok THEN [rel EXCEPT ![i] = Rows(i)]
              ELSE IF i \in plan.disk /\ spill[i] # {}
              THEN [rel EXCEPT ![i] = spill[i]]
              ELSE rel
    /\ spill' = IF ok /\ i \in plan.disk THEN [spill EXCEPT ![i] = Rows(i)]
                ELSE spill
    /\ out' = IF ok /\ plan.kind[i] = "sink" THEN [out EXCEPT ![i] = Rows(i)]
              ELSE out

CopiesTo(i, ok) ==
    IF ok /\ plan.kind[i] = "nativesink" THEN [staged EXCEPT ![i] = Rows(i)]
    ELSE staged

(* The relation a stage's count probe reads: its own, or, for a sink, the  *)
(* one it reads from, which is there whatever the sink did.                *)
ProbeCanAnswer(i) == i \in Of(SinkKinds) \/ rel'[i] # {}

(* Whether a probe follows the statement: without counts only a watermark  *)
(* probe, behind a statement that said nothing.                            *)
Probed(i, ok) == Counts \/ (ok /\ plan.kind[i] = "marked")

(* attempt_stage's verdict.  With counts it is the probes' answer, and     *)
(* stderr only supplies the message; without, it is stderr.                *)
Verdict(ok, answered) == answered /\ (Counts \/ ok)

-----------------------------------------------------------------------------
(* run_one_script: DuckDB stops at the first statement that fails.         *)

(* Plan::count_probes: one for each stage and two for a quality node, in   *)
(* the order of the script; a probe is a stage and the number of its port. *)
\* Mutant: stages are counted, not probes.
StageProbes == Stages \X {1}

CountProbes == {p \in Stages \X {1, 2} : p[2] = 1 \/ p[1] \in plan.splits}
WatermarkProbes == Of({"marked"}) \X {1}

Precedes(p, q) == p[1] < q[1] \/ (p[1] = q[1] /\ p[2] < q[2])
Position(probes, p) == Cardinality({q \in probes : Precedes(q, p)})

(* What Plan::script has DuckDB print of a stage: Stage::counts, accepted  *)
(* rows first, and the watermark of an incremental source.                 *)
CountsOf(i) == IF ~Counts THEN <<>>
               ELSE IF i \in plan.splits THEN <<<<i, 1>>, <<i, 2>>>>
               ELSE <<<<i, 1>>>>

\* Mutant: watermarks are asked for only with counts.
MarksWithCounts(i) ==
    IF Counts /\ plan.kind[i] = "marked" THEN <<<<i, 1>>>> ELSE <<>>

MarksOf(i) == IF plan.kind[i] = "marked" THEN <<<<i, 1>>>> ELSE <<>>

\* Mutant: a statement that fails does not stop the script.
ScriptGoesOn ==
    /\ pc = "script"
    /\ at \in Stages
    /\ \E ok \in BOOLEAN : Statement(at, ok) /\ staged' = CopiesTo(at, ok)
    /\ outcome' = [outcome EXCEPT ![at] = "ran"]
    /\ counted' = counted \o CountsOf(at)
    /\ marks' = marks \o MarksOf(at)
    /\ at' = at + 1
    /\ UNCHANGED <<plan, run, pc, attempt, session, unusable, untaken, held,
                   blamed>>

ScriptStage ==
    /\ pc = "script"
    /\ at \in Stages
    /\ Statement(at, TRUE)
    /\ staged' = CopiesTo(at, TRUE)
    /\ outcome' = [outcome EXCEPT ![at] = "ran"]
    /\ counted' = counted \o CountsOf(at)
    /\ marks' = marks \o MarksOf(at)
    /\ at' = at + 1
    /\ UNCHANGED <<plan, run, pc, attempt, session, unusable, untaken, held,
                   blamed>>

(* The prelude's count is set aside.                                       *)
\* Mutant: the prelude's own count is taken for the first stage's.
WithPrelude(arrived) == arrived

StageCounts(arrived) == IF HasPrelude THEN Tail(arrived) ELSE arrived

(* attribute_failure: as many probes finished as counts arrived, and the   *)
(* stage that owns the next one is named.  No count at all where one of    *)
(* the prelude's is due is the prelude's failure.                          *)
Named(arrived) ==
    LET next == {p \in CountProbes :
                    Position(CountProbes, p) = Len(StageCounts(arrived))}
    IN  IF ~Counts \/ (HasPrelude /\ arrived = <<>>) \/ next = {} THEN 0
        ELSE (CHOOSE p \in next : TRUE)[1]

\* Mutant: the spills are cleared only after a run that succeeded.
ClearedLate == UNCHANGED spill

ClearSpills == spill' = Nothing

PreludeFails ==
    /\ pc = "sources"
    /\ Through(Of(NativeSourceKinds))
    /\ ~Driven /\ plan.extended
    /\ ClearSpills
    /\ Fails(Named(counted))
    /\ UNCHANGED <<printed, plan, run, at, memory, out>>

(* A stage's statement fails, one of its counts, or the watermark behind   *)
(* them.                                                                   *)
Answered(i, where) ==
    CASE where = "mark" -> CountsOf(i)
      [] where = "rejected" -> <<<<i, 1>>>>
      [] OTHER -> <<>>

ScriptFails(where) ==
    /\ pc = "script"
    /\ at \in Stages
    /\ where = "mark" => plan.kind[at] = "marked"
    /\ where \in {"count", "rejected"} => Counts
    /\ where = "rejected" => at \in plan.splits
    /\ out' = IF where # "statement" /\ plan.kind[at] = "sink"
              THEN [out EXCEPT ![at] = Rows(at)] ELSE out
    /\ ClearSpills
    /\ counted' = counted \o Answered(at, where)
    /\ Fails(Named(counted'))
    /\ UNCHANGED <<marks, plan, run, at, memory>>

ScriptEnds ==
    /\ pc = "script"
    /\ at \notin Stages
    /\ ClearSpills
    /\ pc' = "deliver"
    /\ at' = 1
    /\ UNCHANGED <<printed, plan, run, memory, staged, out, held, blamed>>

-----------------------------------------------------------------------------
(* run_driven, one stage of the loop.                                      *)

\* Mutant: a stage that needed a retry is driven once more.
NextStageAgain ==
    /\ pc' = "stage" /\ attempt' = 0
    /\ at' = IF attempt > 0 THEN at ELSE at + 1

NextStage == pc' = "stage" /\ at' = at + 1 /\ attempt' = 0

(* blocked_by.                                                             *)
BlockedBy(i, S) == plan.inputs[i] \cap S # {}

\* Mutant: a stage skipped behind a failure is not itself unusable.
SkipLeavesUsable ==
    /\ pc = "stage" /\ at \in Stages
    /\ BlockedBy(at, unusable)
    /\ outcome' = [outcome EXCEPT ![at] = "upstreamFailed"]
    /\ NextStage
    /\ UNCHANGED <<printed, plan, run, session, unusable, untaken, rel, spill,
                   staged, out, held, blamed>>

SkipUnusable ==
    /\ pc = "stage" /\ at \in Stages
    /\ BlockedBy(at, unusable)
    /\ unusable' = unusable \cup {at}
    /\ outcome' = [outcome EXCEPT ![at] = "upstreamFailed"]
    /\ NextStage
    /\ UNCHANGED <<printed, plan, run, session, untaken, rel, spill, staged, out,
                   held, blamed>>

SkipUntaken ==
    /\ pc = "stage" /\ at \in Stages
    /\ ~BlockedBy(at, unusable)
    /\ BlockedBy(at, untaken)
    /\ untaken' = untaken \cup {at}
    /\ outcome' = [outcome EXCEPT ![at] = "notTaken"]
    /\ NextStage
    /\ UNCHANGED <<printed, plan, run, session, unusable, rel, spill, staged, out,
                   held, blamed>>

Reaches(i) ==
    /\ pc = "stage" /\ i = at /\ at \in Stages
    /\ ~BlockedBy(at, unusable)
    /\ ~BlockedBy(at, untaken)

(* The stage failed: the run stops here, naming it, unless its policy is   *)
(* to carry on.                                                            *)
StageFails(i) ==
    /\ unusable' = unusable \cup {i}
    /\ outcome' = [outcome EXCEPT ![i] = "failed"]
    /\ IF i \in plan.carryOn
       THEN NextStage /\ UNCHANGED <<held, blamed>>
       ELSE Fails(i) /\ UNCHANGED <<at, attempt>>

(* act, for a control node, and native::run_transform: what happens before *)
(* the stage's own statement.                                              *)
Act(i, verdict) ==
    /\ Reaches(i)
    /\ i \in Of(ControlKinds \cup {"native"})
    /\ session = "up"
    /\ verdict = "not taken" => plan.kind[i] = "branch"
    /\ untaken' = IF verdict = "not taken" THEN untaken \cup {i} ELSE untaken
    /\ IF verdict = "fail"
       THEN /\ StageFails(i)
            /\ i \in plan.carryOn => UNCHANGED staged
       ELSE pc' = "attempt" /\ UNCHANGED <<at, attempt, unusable, outcome,
                                           staged, held, blamed>>
    /\ UNCHANGED <<printed, plan, run, session, rel, spill, out>>

(* run_stage: one attempt, and the retry it may earn.  A probe that meets  *)
(* a lost session (lost) is one more failed attempt.                       *)
\* Mutant: the counter of retries runs backwards.
RetryForgotten == attempt' = attempt - 1

CountRetry == attempt' = attempt + 1

Attempt(i, ok, answered, lost) ==
    /\ \/ Reaches(i) /\ i \notin Of(ControlKinds \cup {"native"})
       \/ pc = "attempt" /\ i = at
    /\ session = "up"
    /\ Statement(i, ok)
    /\ answered /\ Probed(i, ok) => ProbeCanAnswer(i)
    /\ ~answered => Probed(i, ok)
    /\ lost => ~answered
    /\ session' = IF lost THEN "lost" ELSE "up"
    /\ IF Verdict(ok, answered)
       THEN /\ outcome' = [outcome EXCEPT ![i] = "ran"]
            /\ NextStage
            /\ staged' = CopiesTo(i, ok)
            /\ UNCHANGED <<unusable, held, blamed>>
       ELSE IF attempt < plan.retries[i]
       THEN /\ CountRetry
            /\ pc' = "attempt"
            /\ staged' = CopiesTo(i, ok)
            /\ UNCHANGED <<at, unusable, outcome, held, blamed>>
       ELSE /\ StageFails(i)
            /\ i \in plan.carryOn => staged' = CopiesTo(i, ok)
    /\ UNCHANGED <<printed, plan, run, untaken>>

(* A statement of the stage meets a lost session, or loses it by a timeout,*)
(* its work done or not: the run is over.                                  *)
ActsFirst(i) == pc = "stage" /\ i \in Of(ControlKinds \cup {"native"})

LoseSession(done) ==
    /\ \/ pc = "attempt"
       \/ Reaches(at)
    /\ IF done
       THEN session = "up" /\ ~ActsFirst(at) /\ Statement(at, TRUE)
       ELSE UNCHANGED <<rel, spill, out>>
    /\ Fails(0)
    /\ UNCHANGED <<printed, plan, run, at, attempt, session, unusable, untaken,
                   outcome>>

StagesEnd ==
    /\ pc = "stage"
    /\ at \notin Stages
    /\ pc' = IF Failures = {} THEN "deliver" ELSE "settle"
    /\ at' = 1
    /\ UNCHANGED <<printed, plan, run, memory, spill, staged, out, held, blamed>>

-----------------------------------------------------------------------------
(* The end of a run, on either path.                                       *)

(* native::deliver_sinks, one sink.                                        *)
ToDeliver == Of({"nativesink"}) \ untaken

Deliver(i, ok) ==
    /\ pc = "deliver"
    /\ Comes(ToDeliver, i)
    /\ IF ok /\ staged[i] # {}
       THEN /\ out' = [out EXCEPT ![i] = staged[i]]
            /\ at' = i + 1
            /\ UNCHANGED <<pc, staged, held, blamed>>
       ELSE at' = i /\ Fails(i) /\ UNCHANGED out
    /\ UNCHANGED <<printed, plan, run, memory, spill>>

\* Mutant: the receipts are settled without waiting for the sinks.
DeliveredAlready == pc = "deliver"

AllDelivered == pc = "deliver" /\ Through(ToDeliver)

Delivered ==
    /\ AllDelivered
    /\ pc' = "settle"
    /\ at' = 1
    /\ UNCHANGED <<printed, plan, run, memory, spill, staged, out, held, blamed>>

(* Receipts::acknowledge and Receipts::release, one receipt.  One that     *)
(* cannot be settled comes back when its hold runs out.                    *)
Settle(i, ok) ==
    /\ pc = "settle"
    /\ Comes(Of({"queue"}), i)
    /\ held' = [held EXCEPT ![i] = IF ~ok THEN "expiring"
                                   ELSE IF Failures = {} THEN "acknowledged"
                                   ELSE "released"]
    /\ at' = i + 1
    /\ UNCHANGED <<printed, plan, run, pc, memory, spill, staged, out, blamed>>

(* The report, with the positions of a run without failures: what the      *)
(* caller saves.                                                           *)
Report ==
    /\ pc = "settle"
    /\ Through(Of({"queue"}))
    /\ pc' = "reported"
    /\ IF Driven THEN ClearSpills ELSE UNCHANGED spill
    /\ Dropped([i \in Stages |->
                  IF plan.kind[i] = "stream" /\ Failures = {}
                  THEN "acknowledged" ELSE held[i]])
    /\ UNCHANGED <<printed, plan, run, at, memory, out, blamed>>

(* The process is killed: nothing is dropped, the files stay.              *)
Crash ==
    /\ pc \notin {"idle", "failed", "reported", "killed"}
    /\ pc' = "killed"
    /\ UNCHANGED <<printed, plan, run, at, memory, spill, staged, out, held, blamed>>

-----------------------------------------------------------------------------
Source == \E i \in Stages, how \in {"read", "unread", "unflushed"} :
              StageSource(i, how)
Script == \/ PreludeFails \/ ScriptStage \/ ScriptEnds
          \/ \E where \in {"statement", "count", "rejected", "mark"} :
                 ScriptFails(where)
Drive == \/ SkipUnusable \/ SkipUntaken \/ StagesEnd
         \/ \E done \in BOOLEAN : LoseSession(done)
         \/ \E i \in Stages, verdict \in {"pass", "not taken", "fail"} :
                Act(i, verdict)
         \/ \E i \in Stages, ok, answered, lost \in BOOLEAN :
                Attempt(i, ok, answered, lost)
End == \/ Delivered \/ Report
       \/ \E i \in Stages, ok \in BOOLEAN : Deliver(i, ok) \/ Settle(i, ok)

Step == \/ \E ok \in BOOLEAN : Prepare(ok) \/ Open(ok)
        \/ Source \/ Script \/ Drive \/ End

Next == Begin \/ Step \/ Crash

Spec == Init /\ [][Next]_vars

(* The engine is one thread that never waits for anything but its child,   *)
(* which a timeout bounds: an unkilled run goes on.                        *)
FairSpec == Spec /\ WF_vars(Step)

-----------------------------------------------------------------------------
(* Types.                                                                  *)
TypeOK ==
    /\ WellFormed(plan)
    /\ run \in 0 .. MaxRuns
    /\ pc \in {"idle", "prepare", "sources", "script", "stage", "attempt",
               "deliver", "settle", "failed", "reported", "killed"}
    /\ at \in 1 .. N + 1
    /\ attempt \in Nat
    /\ session \in {"up", "lost"}
    /\ unusable \in SUBSET Stages
    /\ untaken \in SUBSET Stages
    /\ outcome \in [Stages -> {"pending", "ran", "failed", "upstreamFailed",
                              "notTaken"}]
    /\ rel \in [Stages -> SUBSET (1 .. MaxRuns)]
    /\ spill \in [Stages -> SUBSET (1 .. MaxRuns)]
    /\ staged \in [Stages -> SUBSET (1 .. MaxRuns)]
    /\ out \in [Stages -> SUBSET (1 .. MaxRuns)]
    /\ held \in [Stages -> {"none", "held", "acknowledged", "released",
                           "expiring"}]
    /\ blamed \in 0 .. N
    /\ counted \in Seq((0 .. N) \X {1, 2})
    /\ marks \in Seq(Stages \X {1})

(* What a source handed over for good, messages deleted from a queue or a  *)
(* position that the caller will save, is in every sink that a branch did  *)
(* not decide against: exec.rs acknowledges and reports positions only     *)
(* after a run whose stages all ran and whose native sinks all delivered.  *)
SettledRowsLanded ==
    (\E i \in Stages : held[i] = "acknowledged") =>
        \A s \in Of(SinkKinds) \ untaken : out[s] = {run}

(* A run that ends, however it ends, holds nothing any more: every early   *)
(* return of exec.rs drops Receipts, and every other end settles them.     *)
NothingLeftHeld ==
    pc \in {"failed", "reported"} => \A i \in Stages : held[i] # "held"

(* A run that reports leaves no spill that it wrote, and neither does one  *)
(* script that fails; a driven run that fails early leaves them.           *)
NoLitter ==
    pc = "reported" \/ (pc = "failed" /\ ~Driven) =>
        \A i \in Stages : run \notin spill[i]

(* Neither messages nor spills outlive the run that took or wrote them.    *)
LeavesNothing ==
    /\ NothingLeftHeld
    /\ NoLitter

(* Every stage that something upstream of i feeds, directly or not.        *)
Upstream(i) ==
    {j \in Stages :
        \A S \in SUBSET Stages :
            /\ plan.inputs[i] \subseteq S
            /\ \A k \in S : plan.inputs[k] \subseteq S
            => j \in S}

Decided(i) == i \in untaken /\ outcome[i] = "ran"

(* What the report says of a stage is right about the whole graph, though  *)
(* run_driven looks at direct inputs only: a stage is skipped for a        *)
(* failure exactly when some stage upstream of it failed, skipped for a    *)
(* branch exactly when that is the only reason, and otherwise it ran or    *)
(* failed itself.                                                          *)
SkipsAreExplained ==
    \A i \in Stages : outcome[i] # "pending" =>
        LET broken == \E j \in Upstream(i) : outcome[j] = "failed"
            closed == \E j \in Upstream(i) : Decided(j)
        IN  /\ outcome[i] = "upstreamFailed" <=> broken
            /\ outcome[i] = "notTaken" <=> closed /\ ~broken

(* A stage that ran holds the rows this run read, however it is            *)
(* materialised (plan/mod.rs, Materialize: the choice never changes the    *)
(* answer) and whatever an earlier run left on disk.                       *)
FreshRows == \A i \in Stages : outcome[i] = "ran" => rel[i] \subseteq {run}

(* outcomes and read_watermarks pair the values that arrived with the      *)
(* probes that asked for them, by position alone.                          *)
PairedWith(probes, values, p) ==
    LET k == Position(probes, p) + 1
    IN  IF k \in DOMAIN values THEN values[k] ELSE <<>>

(* Every number that the report of one script puts to a stage and port is  *)
(* that probe's own, and so is every watermark that the caller saves:      *)
(* through a prelude's count, quality nodes that print two, and sources    *)
(* that print none but a watermark.                                        *)
ReportsItsOwn ==
    pc = "reported" /\ ~Driven =>
        /\ Counts => \A p \in CountProbes :
                        PairedWith(CountProbes, StageCounts(counted), p) = p
        /\ \A p \in WatermarkProbes : PairedWith(WatermarkProbes, marks, p) = p

(* A script that fails with counts names the stage whose statement or      *)
(* count failed, though all that is known is how many counts arrived, and  *)
(* no stage for its prelude.  Where it is the watermark that cannot be     *)
(* read the stage behind is named: its own counts have all arrived.        *)
BlamesTheCulprit ==
    /\ pc = "sources" /\ Through(Of(NativeSourceKinds)) /\ pc' = "failed" =>
        blamed' = 0
    /\ pc = "script" /\ pc' = "failed" =>
        blamed' = IF ~Counts THEN 0
                  ELSE IF counted' # counted \o CountsOf(at) THEN at
                  ELSE IF at + 1 \in Stages THEN at + 1 ELSE 0

(* Counts and failures are put to the stage that they are of, wherever a   *)
(* step leads.                                                             *)
CountsTellWhose == [][ReportsItsOwn' /\ BlamesTheCulprit]_vars

(* A run that is not killed comes to an end: retries run out.              *)
RunsEnd ==
    [](pc = "prepare" => <>(pc \in {"failed", "reported", "killed"}))
=============================================================================
