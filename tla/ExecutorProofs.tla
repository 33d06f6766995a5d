--------------------------- MODULE ExecutorProofs ---------------------------
(***************************************************************************)
(* For every set of well-formed plans of any size and any number of runs:  *)
(* the types; that the report's skips are right about the whole graph;     *)
(* that what a run settles has landed wherever a stage's verdict can be    *)
(* trusted; that a stage holds this run's rows only; that a run leaves     *)
(* nothing held or spilled; and that counting what one script printed puts *)
(* every count, watermark and failure to the stage that it is of.          *)
(***************************************************************************)
EXTENDS Executor, FiniteSetTheorems, SequenceTheorems, TLAPS

(* The plan is one of the plans, a run has begun, and each path keeps to   *)
(* its own control points.                                                 *)
Shape ==
    /\ plan \in Plans
    /\ pc # "idle" => run # 0
    /\ pc = "script" => ~Driven
    /\ pc \in {"stage", "attempt"} => Driven
    /\ pc = "attempt" => at \in Stages

TInv == TypeOK /\ Shape

(* A stage, and the one after it, are within the loop's bounds.            *)
LEMMA StageBounds ==
    \A i \in Stages : i + 1 \in 1 .. N + 1 /\ i \in 0 .. N /\ i \in 1 .. N + 1
BY SizeAssumption DEF Stages

(* Whatever a run may be about to read, rows carry the numbers of runs.    *)
LEMMA RowsType ==
    ASSUME TInv, pc # "idle", NEW i \in Stages
    PROVE  Rows(i) \in SUBSET (1 .. MaxRuns)
<1>1. run \in 1 .. MaxRuns
  BY SizeAssumption DEF TInv, TypeOK, Shape
<1>2. plan.inputs[i] \in SUBSET Stages
  BY DEF TInv, TypeOK, WellFormed, Plan
<1>3. \A j \in plan.inputs[i] : rel[j] \in SUBSET (1 .. MaxRuns)
  BY <1>2 DEF TInv, TypeOK
<1> QED
  BY <1>1, <1>3 DEF Rows

(* A statement keeps the types of what it may write.                       *)
LEMMA StatementType ==
    ASSUME TInv, pc # "idle", NEW i \in Stages, NEW ok \in BOOLEAN,
           Statement(i, ok)
    PROVE  /\ rel' \in [Stages -> SUBSET (1 .. MaxRuns)]
           /\ spill' \in [Stages -> SUBSET (1 .. MaxRuns)]
           /\ out' \in [Stages -> SUBSET (1 .. MaxRuns)]
           /\ CopiesTo(i, ok) \in [Stages -> SUBSET (1 .. MaxRuns)]
<1>1. Rows(i) \in SUBSET (1 .. MaxRuns)
  BY RowsType
<1>2. spill[i] \in SUBSET (1 .. MaxRuns)
  BY DEF TInv, TypeOK
<1> QED
  BY <1>1, <1>2 DEF TInv, TypeOK, Statement, CopiesTo

(* Leaving a run keeps the types.                                          *)
LEMMA FailsType ==
    ASSUME TypeOK, NEW s \in 0 .. N, Fails(s)
    PROVE  /\ pc' = "failed"
           /\ blamed' \in 0 .. N
           /\ staged' \in [Stages -> SUBSET (1 .. MaxRuns)]
           /\ held' \in [Stages -> {"none", "held", "acknowledged", "released",
                                    "expiring"}]
BY DEF TypeOK, Fails, Dropped, Nothing

(* What is on stdout is of probes.                                         *)
PrintedType ==
    counted \in Seq((0 .. N) \X {1, 2}) /\ marks \in Seq(Stages \X {1})

(* What one stage prints is of probes.                                     *)
LEMMA AnsweredType ==
    ASSUME NEW i \in Stages
    PROVE  /\ CountsOf(i) \in Seq((0 .. N) \X {1, 2})
           /\ MarksOf(i) \in Seq(Stages \X {1})
           /\ <<<<i, 1>>>> \in Seq((0 .. N) \X {1, 2})
<1>1. <<i, 1>> \in (0 .. N) \X {1, 2} /\ <<i, 2>> \in (0 .. N) \X {1, 2}
  BY StageBounds
<1>2. <<i, 1>> \in Stages \X {1}
  OBVIOUS
<1>3. /\ <<<<i, 1>>, <<i, 2>>>> \in Seq((0 .. N) \X {1, 2})
      /\ <<<<i, 1>>>> \in Seq((0 .. N) \X {1, 2})
      /\ <<>> \in Seq((0 .. N) \X {1, 2})
  BY <1>1
<1>4. <<<<i, 1>>>> \in Seq(Stages \X {1}) /\ <<>> \in Seq(Stages \X {1})
  BY <1>2
<1>5. CountsOf(i) \in Seq((0 .. N) \X {1, 2})
  BY <1>3 DEF CountsOf
<1>6. MarksOf(i) \in Seq(Stages \X {1})
  BY <1>4 DEF MarksOf
<1> QED
  BY <1>3, <1>5, <1>6

(* Every step keeps what is on stdout of probes.                           *)
LEMMA PrintedTypeStep == TypeOK /\ [Next]_vars => PrintedType'
<1> SUFFICES ASSUME TypeOK, [Next]_vars PROVE PrintedType'
  OBVIOUS
<1>0. counted \in Seq((0 .. N) \X {1, 2}) /\ marks \in Seq(Stages \X {1})
  BY DEF TypeOK
<1>1. \A i \in Stages : /\ CountsOf(i) \in Seq((0 .. N) \X {1, 2})
                        /\ MarksOf(i) \in Seq(Stages \X {1})
                        /\ <<<<i, 1>>>> \in Seq((0 .. N) \X {1, 2})
  BY AnsweredType
<1>2. CASE ScriptStage
  BY <1>0, <1>1, <1>2, ConcatProperties DEF ScriptStage, PrintedType
<1>3. ASSUME NEW where \in {"statement", "count", "rejected", "mark"},
             ScriptFails(where)
      PROVE  PrintedType'
  <2>1. at \in Stages /\ counted' = counted \o Answered(at, where) /\ marks' = marks
    BY <1>3 DEF ScriptFails
  <2>2. Answered(at, where) \in Seq((0 .. N) \X {1, 2})
    <3>1. Answered(at, where) \in {CountsOf(at), <<<<at, 1>>>>, <<>>}
      BY DEF Answered
    <3>2. <<>> \in Seq((0 .. N) \X {1, 2})
      OBVIOUS
    <3> QED
      BY <1>1, <2>1, <3>1, <3>2
  <2> QED
    BY <1>0, <2>1, <2>2, ConcatProperties DEF PrintedType
<1>4. ASSUME NEW ok \in BOOLEAN, Open(ok) PROVE PrintedType'
  <2>1. <<Prelude>> \in Seq((0 .. N) \X {1, 2})
    <3>1. <<0, 1>> \in (0 .. N) \X {1, 2}
      BY SizeAssumption
    <3> QED
      BY <3>1 DEF Prelude
  <2>2. counted' \in {counted, <<Prelude>>, <<>>} /\ marks' = marks
    BY <1>4 DEF Open
  <2>3. <<>> \in Seq((0 .. N) \X {1, 2})
    OBVIOUS
  <2> QED
    BY <1>0, <2>1, <2>2, <2>3 DEF PrintedType
<1>5. CASE UNCHANGED printed
  BY <1>0, <1>5 DEF printed, PrintedType
<1>6. CASE Begin
  BY <1>6 DEF Begin, PrintedType
<1> QED
  BY <1>2, <1>3, <1>4, <1>5, <1>6
     DEF Next, Step, Source, Script, Drive, End, Prepare, StageSource,
     PreludeFails, ScriptEnds, SkipUnusable, SkipUntaken, Act, Attempt,
     LoseSession, StagesEnd, Deliver, Delivered, Settle, Report, Crash, vars,
     printed

(* An error names a stage, or none.                                        *)
LEMMA NamedType == \A arrived : Named(arrived) \in 0 .. N
<1> SUFFICES ASSUME NEW arrived PROVE Named(arrived) \in 0 .. N
  OBVIOUS
<1> DEFINE next == {p \in CountProbes :
                       Position(CountProbes, p) = Len(StageCounts(arrived))}
<1>1. \A p \in next : p[1] \in 0 .. N
  BY StageBounds DEF CountProbes
<1>2. Named(arrived) = 0 \/ (next # {} /\ Named(arrived) = (CHOOSE p \in next : TRUE)[1])
  BY DEF Named
<1> HIDE DEF next
<1>3. next # {} => (CHOOSE p \in next : TRUE) \in next
  OBVIOUS
<1> QED
  BY <1>1, <1>2, <1>3, SizeAssumption

(* The types and the shape hold at the start.                              *)
LEMMA TInvInit == Init => TInv
BY SizeAssumption, PlansAssumption
   DEF Init, TInv, TypeOK, Shape, Nothing, Stages

(* Every step keeps the types and the shape.                               *)
LEMMA TInvStep == TInv /\ [Next]_vars => TInv'
<1> SUFFICES ASSUME TInv, [Next]_vars PROVE TInv'
  OBVIOUS
<1> USE SizeAssumption DEF TInv, Shape, memory, PrintedType
<1>0. CASE plan' = plan
  <2> USE <1>0
  <2>a. WellFormed(plan)' /\ (plan \in Plans)' /\ PrintedType'
    BY PrintedTypeStep DEF TypeOK, WellFormed, Stages
  <2>b. Driven' <=> Driven
    BY DEF Driven, NeedsSession
  <2>1. CASE Begin
    BY <2>a, <2>1 DEF TypeOK, Begin, Nothing, Stages
  <2>2. ASSUME NEW ok \in BOOLEAN, Prepare(ok) PROVE TInv'
    <3>1. CASE ok
      BY <2>a, <2>2, <3>1 DEF TypeOK, Prepare
    <3>2. CASE ~ok
      BY <2>a, <2>2, <3>2, FailsType DEF TypeOK, Prepare
    <3> QED
      BY <3>1, <3>2
  <2>3. ASSUME NEW i \in Stages, NEW how \in {"read", "unread", "unflushed"},
               StageSource(i, how)
        PROVE  TInv'
    <3>0. i \in 0 .. N /\ i \in 1 .. N + 1 /\ i + 1 \in 1 .. N + 1
      BY StageBounds
    <3>h. [held EXCEPT ![i] = "held"] \in
            [Stages -> {"none", "held", "acknowledged", "released", "expiring"}]
      BY DEF TypeOK
    <3>1. CASE how = "read"
      <4>1. /\ held' = [held EXCEPT ![i] = "held"] /\ at' = i + 1
            /\ pc = "sources"
            /\ UNCHANGED <<pc, staged, blamed, run, memory, spill, out>>
        BY <2>3, <3>1 DEF StageSource
      <4> QED
        BY <2>a, <3>0, <3>h, <4>1 DEF TypeOK
    <3>2. CASE how # "read"
      <4>1. /\ pc' = "failed" /\ at' = i /\ blamed' = i /\ pc = "sources"
            /\ Dropped(held) \/ Dropped([held EXCEPT ![i] = "held"])
            /\ UNCHANGED <<run, memory, spill, out>>
        BY <2>3, <3>2 DEF StageSource
      <4>2. /\ held' \in [Stages -> {"none", "held", "acknowledged", "released",
                                    "expiring"}]
            /\ staged' \in [Stages -> SUBSET (1 .. MaxRuns)]
        BY <3>h, <4>1 DEF Dropped, Nothing, TypeOK
      <4> QED
        BY <2>a, <3>0, <4>1, <4>2 DEF TypeOK
    <3> QED
      BY <3>1, <3>2
  <2>4. ASSUME NEW ok \in BOOLEAN, Open(ok) PROVE TInv'
    <3>0. 1 \in 1 .. N + 1
      OBVIOUS
    <3>1. CASE ok
      BY <2>a, <2>b, <2>4, <3>0, <3>1 DEF TypeOK, Open
    <3>2. CASE ~ok
      BY <2>a, <2>4, <3>0, <3>2, FailsType DEF TypeOK, Open
    <3> QED
      BY <3>1, <3>2
  <2>5. CASE ScriptStage
    <3>1. at + 1 \in 1 .. N + 1
      BY <2>5 DEF ScriptStage, Stages
    <3> QED
      BY <2>a, <2>b, <2>5, <3>1, StatementType DEF TypeOK, ScriptStage
  <2>6. ASSUME NEW where \in {"statement", "count", "rejected", "mark"},
             ScriptFails(where)
        PROVE  TInv'
    <3>1. Named(counted') \in 0 .. N
      BY NamedType
    <3>2. Rows(at) \in SUBSET (1 .. MaxRuns)
      BY <2>6, RowsType DEF ScriptFails
    <3>3. out' \in [Stages -> SUBSET (1 .. MaxRuns)]
      BY <2>6, <3>2 DEF ScriptFails, TypeOK
    <3> QED
      BY <2>a, <2>6, <3>1, <3>3, FailsType
         DEF TypeOK, ScriptFails, ClearSpills, Nothing
  <2>20. CASE PreludeFails
    <3>1. /\ Fails(Named(counted)) /\ pc = "sources" /\ ClearSpills
          /\ UNCHANGED <<run, at, memory, out>>
      BY <2>20 DEF PreludeFails
    <3> QED
      BY <2>a, <3>1, NamedType, FailsType DEF TypeOK, ClearSpills, Nothing
  <2>7. CASE ScriptEnds
    BY <2>a, <2>7 DEF TypeOK, ScriptEnds, ClearSpills, Nothing
  <2>8. CASE SkipUnusable
    <3>1. at + 1 \in 1 .. N + 1
      BY <2>8 DEF SkipUnusable, Stages
    <3> QED
      BY <2>a, <2>b, <2>8, <3>1 DEF TypeOK, SkipUnusable, NextStage
  <2>9. CASE SkipUntaken
    <3>1. at + 1 \in 1 .. N + 1
      BY <2>9 DEF SkipUntaken, Stages
    <3> QED
      BY <2>a, <2>b, <2>9, <3>1 DEF TypeOK, SkipUntaken, NextStage
  <2>10. ASSUME NEW i \in Stages, NEW verdict \in {"pass", "not taken", "fail"},
                Act(i, verdict)
         PROVE  TInv'
    <3>e. i = at /\ pc = "stage"
      BY <2>10 DEF Act, Reaches
    <3>0. i = at /\ at + 1 \in 1 .. N + 1 /\ i \in 0 .. N /\ pc = "stage"
      BY <3>e, StageBounds
    <3>c. untaken' = untaken \/ untaken' = untaken \cup {i}
      BY <2>10 DEF Act
    <3>d. untaken' \in SUBSET Stages
      BY <3>c DEF TypeOK
    <3>a. /\ run' = run /\ session' = session /\ rel' = rel /\ spill' = spill
          /\ out' = out
      BY <2>10 DEF Act
    <3>1. CASE verdict = "fail" /\ i \in plan.carryOn
      <4>1. /\ unusable' \in SUBSET Stages
            /\ outcome' \in [Stages -> {"pending", "ran", "failed",
                                       "upstreamFailed", "notTaken"}]
            /\ pc' = "stage" /\ at' = at + 1 /\ attempt' = 0
            /\ staged' = staged /\ held' = held /\ blamed' = blamed
        BY <2>10, <3>1 DEF TypeOK, Act, StageFails, NextStage
      <4> QED
        BY <2>a, <2>b, <3>0, <3>a, <3>d, <4>1 DEF TypeOK
    <3>2. CASE verdict = "fail" /\ i \notin plan.carryOn
      <4>1. /\ unusable' \in SUBSET Stages
            /\ outcome' \in [Stages -> {"pending", "ran", "failed",
                                       "upstreamFailed", "notTaken"}]
            /\ Fails(i) /\ at' = at /\ attempt' = attempt
        BY <2>10, <3>2 DEF TypeOK, Act, StageFails
      <4> QED
        BY <2>a, <3>0, <3>a, <3>d, <4>1, FailsType DEF TypeOK
    <3>3. CASE verdict # "fail"
      <4>1. /\ pc' = "attempt" /\ at' = at
            /\ UNCHANGED <<attempt, unusable, outcome, staged, held, blamed>>
        BY <2>10, <3>3 DEF Act
      <4> QED
        BY <2>a, <2>b, <3>0, <3>a, <3>d, <4>1 DEF TypeOK
    <3> QED
      BY <3>1, <3>2, <3>3
  <2>11. ASSUME NEW i \in Stages, NEW ok \in BOOLEAN, NEW answered \in BOOLEAN,
                NEW lost \in BOOLEAN, Attempt(i, ok, answered, lost)
         PROVE  TInv'
    <3>0. i = at /\ at + 1 \in 1 .. N + 1 /\ i \in 0 .. N /\ Driven /\ pc # "idle"
      BY <2>11 DEF Attempt, Reaches, Stages
    <3>1. /\ rel' \in [Stages -> SUBSET (1 .. MaxRuns)]
          /\ spill' \in [Stages -> SUBSET (1 .. MaxRuns)]
          /\ out' \in [Stages -> SUBSET (1 .. MaxRuns)]
          /\ CopiesTo(i, ok) \in [Stages -> SUBSET (1 .. MaxRuns)]
      BY <2>11, <3>0, StatementType DEF Attempt
    <3>2. session' \in {"up", "lost"} /\ untaken' = untaken /\ run' = run
      BY <2>11 DEF Attempt
    <3>3. CASE Verdict(ok, answered)
      <4>1. /\ outcome' \in [Stages -> {"pending", "ran", "failed",
                                       "upstreamFailed", "notTaken"}]
            /\ pc' = "stage" /\ at' = at + 1 /\ attempt' = 0
            /\ staged' = CopiesTo(i, ok)
            /\ UNCHANGED <<unusable, held, blamed>>
        BY <2>11, <3>3 DEF TypeOK, Attempt, NextStage
      <4> QED
        BY <2>a, <2>b, <3>0, <3>1, <3>2, <4>1 DEF TypeOK
    <3>4. CASE ~Verdict(ok, answered) /\ attempt < plan.retries[i]
      <4>1. /\ attempt' = attempt + 1 /\ pc' = "attempt"
            /\ staged' = CopiesTo(i, ok)
            /\ UNCHANGED <<at, unusable, outcome, held, blamed>>
        BY <2>11, <3>4 DEF Attempt, CountRetry
      <4> QED
        BY <2>a, <2>b, <3>0, <3>1, <3>2, <4>1 DEF TypeOK
    <3>5. CASE /\ ~Verdict(ok, answered) /\ ~(attempt < plan.retries[i])
               /\ i \in plan.carryOn
      <4>1. /\ unusable' \in SUBSET Stages
            /\ outcome' \in [Stages -> {"pending", "ran", "failed",
                                       "upstreamFailed", "notTaken"}]
            /\ pc' = "stage" /\ at' = at + 1 /\ attempt' = 0
            /\ staged' = CopiesTo(i, ok) /\ held' = held /\ blamed' = blamed
        BY <2>11, <3>5 DEF TypeOK, Attempt, StageFails, NextStage
      <4> QED
        BY <2>a, <2>b, <3>0, <3>1, <3>2, <4>1 DEF TypeOK
    <3>6. CASE /\ ~Verdict(ok, answered) /\ ~(attempt < plan.retries[i])
               /\ i \notin plan.carryOn
      <4>1. /\ unusable' \in SUBSET Stages
            /\ outcome' \in [Stages -> {"pending", "ran", "failed",
                                       "upstreamFailed", "notTaken"}]
            /\ Fails(i) /\ at' = at /\ attempt' = attempt
        BY <2>11, <3>6 DEF TypeOK, Attempt, StageFails
      <4> QED
        BY <2>a, <3>0, <3>1, <3>2, <4>1, FailsType DEF TypeOK
    <3> QED
      BY <3>3, <3>4, <3>5, <3>6
  <2>12. ASSUME NEW done \in BOOLEAN, LoseSession(done) PROVE TInv'
    <3>1. /\ pc # "idle" /\ at \in Stages /\ Fails(0)
          /\ UNCHANGED <<run, at, attempt, session, unusable, untaken, outcome>>
      BY <2>12 DEF LoseSession, Reaches
    <3>2. /\ rel' \in [Stages -> SUBSET (1 .. MaxRuns)]
          /\ spill' \in [Stages -> SUBSET (1 .. MaxRuns)]
          /\ out' \in [Stages -> SUBSET (1 .. MaxRuns)]
      <4>1. CASE done
        BY <2>12, <3>1, <4>1, StatementType DEF LoseSession
      <4>2. CASE ~done
        BY <2>12, <4>2 DEF LoseSession, TypeOK
      <4> QED
        BY <4>1, <4>2
    <3>3. /\ pc' = "failed" /\ blamed' \in 0 .. N
          /\ staged' \in [Stages -> SUBSET (1 .. MaxRuns)]
          /\ held' \in [Stages -> {"none", "held", "acknowledged", "released",
                                   "expiring"}]
      BY <3>1, FailsType
    <3> QED
      BY <2>a, <3>1, <3>2, <3>3 DEF TypeOK
  <2>13. CASE StagesEnd
    BY <2>a, <2>13 DEF TypeOK, StagesEnd
  <2>14. ASSUME NEW i \in Stages, NEW ok \in BOOLEAN, Deliver(i, ok) PROVE TInv'
    <3>0. i \in 0 .. N /\ i \in 1 .. N + 1 /\ i + 1 \in 1 .. N + 1
      BY DEF Stages
    <3>1. CASE ok /\ staged[i] # {}
      BY <2>a, <2>14, <3>0, <3>1 DEF TypeOK, Deliver
    <3>2. CASE ~(ok /\ staged[i] # {})
      BY <2>a, <2>14, <3>0, <3>2, FailsType DEF TypeOK, Deliver
    <3> QED
      BY <3>1, <3>2
  <2>15. CASE Delivered
    BY <2>a, <2>15 DEF TypeOK, Delivered, AllDelivered
  <2>16. ASSUME NEW i \in Stages, NEW ok \in BOOLEAN, Settle(i, ok) PROVE TInv'
    <3>0. i + 1 \in 1 .. N + 1
      BY DEF Stages
    <3> QED
      BY <2>a, <2>16, <3>0 DEF TypeOK, Settle
  <2>17. CASE Report
    BY <2>a, <2>17 DEF TypeOK, Report, Dropped, ClearSpills, Nothing
  <2>18. CASE Crash
    BY <2>a, <2>18 DEF TypeOK, Crash
  <2>19. CASE UNCHANGED vars
    BY <2>a, <2>b, <2>19 DEF vars, TypeOK
  <2> QED
    BY <2>1, <2>2, <2>3, <2>4, <2>5, <2>6, <2>7, <2>8, <2>9, <2>10, <2>11, <2>12,
       <2>13, <2>14, <2>15, <2>16, <2>17, <2>18, <2>19, <2>20
       DEF Next, Step, Source, Script, Drive, End
<1>1. plan' = plan
  BY DEF Next, Step, Source, Script, Drive, End, Begin, Prepare, StageSource, Open,
     PreludeFails, ScriptStage, ScriptFails, ScriptEnds, SkipUnusable, SkipUntaken,
     Act, Attempt, LoseSession, StagesEnd, Deliver, Delivered, Settle, Report, Crash,
     vars
<1> QED
  BY <1>0, <1>1

(* The executor's state stays within its types.                            *)
THEOREM ExecutorTypes == Spec => []TypeOK
<1>1. Spec => []TInv
  BY TInvInit, TInvStep, PTL DEF Spec
<1> QED
  BY <1>1, PTL DEF TInv

-----------------------------------------------------------------------------
(* What upstream of a stage means: its inputs, and what is upstream of     *)
(* them.                                                                   *)

(* A set of stages that is closed under inputs and holds those of i holds  *)
(* everything upstream of i.                                               *)
LEMMA UpstreamWithin ==
    ASSUME NEW i \in Stages, NEW S \in SUBSET Stages,
           plan.inputs[i] \subseteq S,
           \A k \in S : plan.inputs[k] \subseteq S
    PROVE  Upstream(i) \subseteq S
BY DEF Upstream

(* An input is upstream, and so is what is upstream of an input.           *)
LEMMA UpstreamGrows ==
    ASSUME TypeOK, NEW i \in Stages, NEW p \in plan.inputs[i]
    PROVE  p \in Upstream(i) /\ Upstream(p) \subseteq Upstream(i)
<1>1. p \in Stages
  BY DEF TypeOK, WellFormed, Plan
<1> QED
  BY <1>1 DEF Upstream

(* Where a loop has come to, and which stages it has dealt with.           *)
Order ==
    /\ pc \in {"prepare", "sources"} =>
            /\ \A i \in Stages : outcome[i] = "pending"
            /\ unusable = {} /\ untaken = {}
    /\ pc \in {"script", "stage", "attempt"} =>
            \A i \in Stages : outcome[i] = "pending" <=> i >= at
    /\ pc \in {"deliver", "settle"} => \A i \in Stages : outcome[i] # "pending"
    /\ pc = "script" => unusable = {} /\ untaken = {}
    /\ pc = "attempt" => ~BlockedBy(at, unusable) /\ ~BlockedBy(at, untaken)
    /\ pc = "deliver" => Failures = {}

(* The two sets of run_driven agree with the report, and each outcome with *)
(* the outcomes of the stage's inputs.                                     *)
Local ==
    \A i \in Stages :
        /\ i \in unusable <=> outcome[i] \in {"failed", "upstreamFailed"}
        /\ outcome[i] = "notTaken" => i \in untaken
        /\ outcome[i] # "pending" =>
            /\ \A j \in plan.inputs[i] : outcome[j] # "pending"
            /\ outcome[i] = "upstreamFailed" <=> BlockedBy(i, unusable)
            /\ outcome[i] = "notTaken" <=> /\ ~BlockedBy(i, unusable)
                                           /\ BlockedBy(i, untaken)

(* Every skip has its reason somewhere upstream.                           *)
Reasons ==
    \A i \in Stages :
        /\ outcome[i] = "upstreamFailed" =>
                \E j \in Upstream(i) : outcome[j] = "failed"
        /\ outcome[i] = "notTaken" => \E j \in Upstream(i) : Decided(j)

Graph == Local /\ Reasons

(* A stage without an outcome gets one that agrees with its inputs.        *)
LEMMA GraphAdvances ==
    ASSUME TypeOK, Graph, plan' = plan, NEW i \in Stages,
           outcome[i] = "pending",
           \A j \in plan.inputs[i] : outcome[j] # "pending",
           NEW o \in {"ran", "failed", "upstreamFailed", "notTaken"},
           outcome' = [outcome EXCEPT ![i] = o],
           unusable' = unusable \cup
                (IF o \in {"failed", "upstreamFailed"} THEN {i} ELSE {}),
           untaken \subseteq untaken', untaken' \subseteq untaken \cup {i},
           o = "notTaken" => i \in untaken',
           o = "upstreamFailed" <=> BlockedBy(i, unusable),
           o = "notTaken" <=> ~BlockedBy(i, unusable) /\ BlockedBy(i, untaken)
    PROVE  Graph'
<1>1. \A k \in Stages : plan.inputs[k] \subseteq Stages
  BY DEF TypeOK, WellFormed, Plan
<1>2. /\ outcome'[i] = o
      /\ \A k \in Stages : k # i => outcome'[k] = outcome[k]
  BY DEF TypeOK
<1>3. /\ \A k \in Stages : outcome[k] # "pending" => i \notin plan.inputs[k]
      /\ i \notin plan.inputs[i]
  BY DEF Graph, Local
<1>4. \A k \in Stages : k # i => (k \in unusable' <=> k \in unusable)
                              /\ (k \in untaken' <=> k \in untaken)
  OBVIOUS
<1>5. \A k \in Stages : (outcome[k] # "pending" \/ k = i) =>
        /\ BlockedBy(k, unusable)' <=> BlockedBy(k, unusable)
        /\ BlockedBy(k, untaken)' <=> BlockedBy(k, untaken)
  BY <1>1, <1>3, <1>4 DEF BlockedBy
<1>6. i \notin unusable
  BY DEF Graph, Local
<1>7. i \in unusable' <=> o \in {"failed", "upstreamFailed"}
  BY <1>6
<1>8. Local'
  <2> SUFFICES ASSUME NEW k \in Stages
               PROVE
        /\ k \in unusable' <=> outcome'[k] \in {"failed", "upstreamFailed"}
        /\ outcome'[k] = "notTaken" => k \in untaken'
        /\ outcome'[k] # "pending" =>
            /\ \A j \in plan'.inputs[k] : outcome'[j] # "pending"
            /\ outcome'[k] = "upstreamFailed" <=> BlockedBy(k, unusable)'
            /\ outcome'[k] = "notTaken" <=> /\ ~BlockedBy(k, unusable)'
                                            /\ BlockedBy(k, untaken)'
    BY DEF Local
  <2>1. CASE k = i
    BY <1>1, <1>2, <1>3, <1>5, <1>7, <2>1
  <2>2. CASE k # i
    BY <1>1, <1>2, <1>4, <1>5, <2>2 DEF Graph, Local
  <2> QED
    BY <2>1, <2>2
<1>9. \A k \in Stages : Upstream(k)' = Upstream(k) /\ Upstream(k) \subseteq Stages
  BY DEF Upstream
<1>10. \A j \in Stages : Decided(j) => Decided(j)'
  BY <1>2 DEF Decided
<1>11. \A j \in Stages : outcome[j] = "failed" => outcome'[j] = "failed"
  BY <1>2
<1>12. Reasons'
  <2> SUFFICES ASSUME NEW k \in Stages
               PROVE  /\ outcome'[k] = "upstreamFailed" =>
                            \E j \in Upstream(k) : outcome'[j] = "failed"
                      /\ outcome'[k] = "notTaken" =>
                            \E j \in Upstream(k) : Decided(j)'
    BY <1>9 DEF Reasons
  <2>1. CASE k # i
    BY <1>2, <1>9, <1>10, <1>11, <2>1 DEF Graph, Reasons
  <2>2. CASE k = i /\ o = "upstreamFailed"
    <3>1. PICK p \in plan.inputs[i] : p \in unusable
      BY <2>2 DEF BlockedBy
    <3>2. p \in Stages
      BY <1>1
    <3>3. CASE outcome[p] = "failed"
      BY <1>2, <1>11, <2>2, <3>2, <3>3, UpstreamGrows
    <3>4. CASE outcome[p] = "upstreamFailed"
      <4>1. PICK j \in Upstream(p) : outcome[j] = "failed"
        BY <3>2, <3>4 DEF Graph, Reasons
      <4> QED
        BY <1>2, <1>9, <1>11, <2>2, <3>2, <4>1, UpstreamGrows
    <3> QED
      BY <3>1, <3>2, <3>3, <3>4 DEF Graph, Local
  <2>3. CASE k = i /\ o = "notTaken"
    <3>1. PICK p \in plan.inputs[i] : p \in untaken /\ p \notin unusable
      BY <2>3 DEF BlockedBy
    <3>2. p \in Stages /\ outcome[p] # "pending"
      BY <1>1
    <3>3. CASE outcome[p] = "ran"
      <4>1. p \in Upstream(i) /\ Decided(p)
        BY <3>1, <3>3, UpstreamGrows DEF Decided
      <4> QED
        BY <1>2, <1>10, <2>3, <3>2, <4>1
    <3>4. CASE outcome[p] = "notTaken"
      <4>1. PICK j \in Upstream(p) : Decided(j)
        BY <3>2, <3>4 DEF Graph, Reasons
      <4> QED
        BY <1>2, <1>9, <1>10, <2>3, <3>2, <4>1, UpstreamGrows
    <3>5. outcome[p] \in {"ran", "notTaken"}
      BY <3>1, <3>2 DEF Graph, Local, TypeOK
    <3> QED
      BY <3>3, <3>4, <3>5
  <2>4. CASE k = i /\ o \notin {"upstreamFailed", "notTaken"}
    BY <1>2, <2>4
  <2> QED
    BY <2>1, <2>2, <2>3, <2>4
<1> QED
  BY <1>8, <1>12 DEF Graph

(* A branch may be decided against before its stage has an outcome.        *)
LEMMA GraphStays ==
    ASSUME TypeOK, Graph, UNCHANGED <<plan, outcome, unusable>>,
           untaken \subseteq untaken',
           \A i \in untaken' \ untaken : outcome[i] = "pending"
    PROVE  Graph'
<1>1. \A k \in Stages : plan.inputs[k] \subseteq Stages
  BY DEF TypeOK, WellFormed, Plan
<1>2. \A k \in Stages : outcome[k] # "pending" =>
        /\ BlockedBy(k, unusable)' <=> BlockedBy(k, unusable)
        /\ BlockedBy(k, untaken)' <=> BlockedBy(k, untaken)
  BY <1>1 DEF BlockedBy, Graph, Local
<1>3. Local'
  BY <1>2 DEF Graph, Local
<1>4. \A k \in Stages : Upstream(k)' = Upstream(k)
  BY DEF Upstream
<1>5. \A j : Decided(j) => Decided(j)'
  BY DEF Decided
<1>6. Reasons'
  BY <1>4, <1>5 DEF Graph, Reasons
<1> QED
  BY <1>3, <1>6 DEF Graph

(* What the parts say of the whole graph.                                  *)
LEMMA GraphExplains ==
    ASSUME TypeOK, Graph
    PROVE  SkipsAreExplained
<1>1. \A k \in Stages : plan.inputs[k] \subseteq Stages
  BY DEF TypeOK, WellFormed, Plan
<1> SUFFICES ASSUME NEW i \in Stages, outcome[i] # "pending"
             PROVE  LET broken == \E j \in Upstream(i) : outcome[j] = "failed"
                        closed == \E j \in Upstream(i) : Decided(j)
                    IN  /\ outcome[i] = "upstreamFailed" <=> broken
                        /\ outcome[i] = "notTaken" <=> closed /\ ~broken
  BY DEF SkipsAreExplained
<1> DEFINE Standing == {j \in Stages : outcome[j] \in {"ran", "notTaken"}}
           Open_ == {j \in Stages : outcome[j] = "ran" /\ j \notin untaken}
<1>2. \A k \in Stages : /\ outcome[k] \notin {"pending", "upstreamFailed"}
                        => plan.inputs[k] \subseteq Standing
  BY <1>1 DEF Graph, Local, BlockedBy, TypeOK
<1>3. \A k \in Stages : outcome[k] \in {"ran", "failed"}
                        => plan.inputs[k] \subseteq Open_
  BY <1>1 DEF Graph, Local, BlockedBy, TypeOK
<1>4. outcome[i] # "upstreamFailed" => Upstream(i) \subseteq Standing
  <2> HIDE DEF Standing
  <2>1. Standing \in SUBSET Stages
        /\ \A k \in Standing : plan.inputs[k] \subseteq Standing
    BY <1>2 DEF Standing
  <2> QED
    BY <1>2, <2>1, UpstreamWithin
<1>5. outcome[i] \in {"ran", "failed"} => Upstream(i) \subseteq Open_
  <2> HIDE DEF Open_
  <2>1. Open_ \in SUBSET Stages
        /\ \A k \in Open_ : plan.inputs[k] \subseteq Open_
    BY <1>3 DEF Open_
  <2> QED
    BY <1>3, <2>1, UpstreamWithin
<1>6. outcome[i] # "upstreamFailed" => \A j \in Upstream(i) : outcome[j] # "failed"
  BY <1>4
<1>7. outcome[i] \in {"ran", "failed"} => \A j \in Upstream(i) : ~Decided(j)
  BY <1>5 DEF Decided
<1>8. outcome[i] \in {"ran", "failed", "upstreamFailed", "notTaken"}
  BY DEF TypeOK
<1> QED
  BY <1>6, <1>7, <1>8 DEF Graph, Reasons

(* The invariant of the graph part.                                        *)
GInv == TInv /\ Order /\ Graph

(* It holds at the start.                                                  *)
LEMMA GInvInit == Init => GInv
<1> SUFFICES ASSUME Init PROVE GInv
  OBVIOUS
<1>1. TInv
  BY TInvInit
<1>2. Order
  BY DEF Init, Order
<1>3. Graph
  BY DEF Init, Graph, Local, Reasons
<1> QED
  BY <1>1, <1>2, <1>3 DEF GInv

(* The stage that a loop has come to is ready: its inputs have outcomes,   *)
(* and it has none.                                                        *)
LEMMA StageIsReady ==
    ASSUME GInv, pc \in {"script", "stage", "attempt"}, at \in Stages
    PROVE  /\ outcome[at] = "pending"
           /\ \A j \in plan.inputs[at] : j \in Stages /\ outcome[j] # "pending"
           /\ \A i \in Stages : (outcome[i] = "pending" /\ i # at) <=> i >= at + 1
<1>1. \A i \in Stages : outcome[i] = "pending" <=> i >= at
  BY DEF GInv, Order
<1>2. \A j \in plan.inputs[at] : j \in Stages /\ j < at
  BY DEF GInv, TInv, TypeOK, WellFormed, Plan
<1>3. \A i \in Stages : i \in Int
  BY DEF Stages
<1> QED
  BY <1>1, <1>2, <1>3

(* Giving the current stage an outcome and going on to the next one.       *)
LEMMA OrderAdvances ==
    ASSUME GInv, pc \in {"script", "stage", "attempt"}, at \in Stages,
           NEW o, o # "pending",
           outcome' = [outcome EXCEPT ![at] = o], at' = at + 1,
           pc' \in {"script", "stage"},
           pc' = "script" => unusable' = {} /\ untaken' = {}
    PROVE  Order'
<1>1. \A i \in Stages : outcome'[i] = IF i = at THEN o ELSE outcome[i]
  BY DEF GInv, TInv, TypeOK
<1>2. \A i \in Stages : outcome'[i] = "pending" <=> i >= at'
  BY <1>1, StageIsReady
<1> QED
  BY <1>2 DEF Order

(* Every step keeps it.                                                    *)
LEMMA GInvStep == GInv /\ [Next]_vars => GInv'
<1> SUFFICES ASSUME GInv, [Next]_vars PROVE GInv'
  OBVIOUS
<1>t. TInv' /\ TypeOK /\ TInv
  BY TInvStep DEF GInv, TInv
<1>g. Order /\ Graph /\ TypeOK
  BY DEF GInv, TInv
<1> SUFFICES Order' /\ Graph'
  BY <1>t DEF GInv
<1>1. CASE Begin
  <2>1. Order'
    BY <1>1 DEF Begin, Order
  <2>2. Graph'
    BY <1>1 DEF Begin, Graph, Local, Reasons
  <2> QED
    BY <2>1, <2>2
<1>2. ASSUME UNCHANGED <<plan, outcome, unusable, untaken>>
      PROVE  Graph'
  BY <1>g, <1>2, GraphStays
<1>3. ASSUME UNCHANGED <<plan, outcome, unusable, untaken>>,
             pc' \in {"failed", "reported", "killed"}
      PROVE  Order'
  BY <1>3 DEF Order
<1>4. ASSUME NEW ok \in BOOLEAN, Prepare(ok) PROVE Order' /\ Graph'
  BY <1>g, <1>2, <1>4 DEF Prepare, Fails, Order, memory
<1>5. ASSUME NEW i \in Stages, NEW how \in {"read", "unread", "unflushed"},
             StageSource(i, how)
      PROVE  Order' /\ Graph'
  BY <1>g, <1>2, <1>5 DEF StageSource, Order, memory
<1>6. ASSUME NEW ok \in BOOLEAN, Open(ok) PROVE Order' /\ Graph'
  <2>1. UNCHANGED <<plan, outcome, unusable, untaken>> /\ at' = 1 /\ pc = "sources"
    BY <1>6 DEF Open, memory
  <2>2. pc' \in {"script", "stage", "failed"}
    BY <1>6 DEF Open, Fails
  <2>3. \A i \in Stages : i >= 1
    BY DEF Stages
  <2> QED
    BY <1>g, <1>2, <2>1, <2>2, <2>3 DEF Order
<1>7. CASE ScriptStage
  <2>1. /\ pc = "script" /\ at \in Stages /\ at' = at + 1 /\ pc' = pc
        /\ outcome' = [outcome EXCEPT ![at] = "ran"]
        /\ UNCHANGED <<plan, unusable, untaken>>
    BY <1>7 DEF ScriptStage
  <2>2. unusable = {} /\ untaken = {}
    BY <1>g, <2>1 DEF Order
  <2>3. Order'
    BY <2>1, <2>2, OrderAdvances
  <2>4. ~BlockedBy(at, unusable) /\ ~BlockedBy(at, untaken)
    BY <2>2 DEF BlockedBy
  <2>5. unusable' = unusable \cup
            (IF "ran" \in {"failed", "upstreamFailed"} THEN {at} ELSE {})
    BY <2>1
  <2>6. Graph'
    BY <1>g, <2>1, <2>4, <2>5, StageIsReady, GraphAdvances
  <2> QED
    BY <2>3, <2>6
<1>8. ASSUME NEW where \in {"statement", "count", "rejected", "mark"},
             ScriptFails(where)
      PROVE  Order' /\ Graph'
  BY <1>2, <1>3, <1>8 DEF ScriptFails, Fails, memory
<1>23. CASE PreludeFails
  BY <1>2, <1>3, <1>23 DEF PreludeFails, Fails, memory
<1>9. CASE ScriptEnds
  <2>1. /\ UNCHANGED <<plan, outcome, unusable, untaken>> /\ pc' = "deliver"
        /\ pc = "script" /\ at \notin Stages
    BY <1>9 DEF ScriptEnds, memory
  <2>2. \A i \in Stages : outcome[i] # "pending"
    BY <1>g, <2>1, SizeAssumption DEF Order, TypeOK, Stages
  <2>3. Failures = {}
    BY <1>g, <2>1 DEF Order, Graph, Local, Failures
  <2>4. Failures' = {}
    BY <2>1, <2>3 DEF Failures
  <2> QED
    BY <1>2, <2>1, <2>2, <2>4 DEF Order
<1>10. CASE SkipUnusable
  <2>1. /\ pc = "stage" /\ at \in Stages /\ at' = at + 1 /\ pc' = "stage"
        /\ outcome' = [outcome EXCEPT ![at] = "upstreamFailed"]
        /\ BlockedBy(at, unusable)
        /\ unusable' = unusable \cup {at}
        /\ UNCHANGED <<plan, untaken>>
    BY <1>10 DEF SkipUnusable, NextStage
  <2>2. Order'
    BY <2>1, OrderAdvances
  <2>3. unusable' = unusable \cup
            (IF "upstreamFailed" \in {"failed", "upstreamFailed"} THEN {at} ELSE {})
    BY <2>1
  <2>4. Graph'
    BY <1>g, <2>1, <2>3, StageIsReady, GraphAdvances
  <2> QED
    BY <2>2, <2>4
<1>11. CASE SkipUntaken
  <2>1. /\ pc = "stage" /\ at \in Stages /\ at' = at + 1 /\ pc' = "stage"
        /\ outcome' = [outcome EXCEPT ![at] = "notTaken"]
        /\ ~BlockedBy(at, unusable) /\ BlockedBy(at, untaken)
        /\ untaken' = untaken \cup {at}
        /\ UNCHANGED <<plan, unusable>>
    BY <1>11 DEF SkipUntaken, NextStage
  <2>2. Order'
    BY <2>1, OrderAdvances
  <2>3. unusable' = unusable \cup
            (IF "notTaken" \in {"failed", "upstreamFailed"} THEN {at} ELSE {})
    BY <2>1
  <2>4. Graph'
    BY <1>g, <2>1, <2>3, StageIsReady, GraphAdvances
  <2> QED
    BY <2>2, <2>4
<1>12. ASSUME pc \in {"stage", "attempt"}, at \in Stages, StageFails(at),
              plan' = plan,
              ~BlockedBy(at, unusable), ~BlockedBy(at, untaken),
              untaken \subseteq untaken', untaken' \subseteq untaken \cup {at}
       PROVE  Order' /\ Graph'
  <2>1. /\ outcome' = [outcome EXCEPT ![at] = "failed"]
        /\ unusable' = unusable \cup {at}
    BY <1>12 DEF StageFails
  <2>2. unusable' = unusable \cup
            (IF "failed" \in {"failed", "upstreamFailed"} THEN {at} ELSE {})
    BY <2>1
  <2>3. Graph'
    BY <1>g, <1>12, <2>1, <2>2, StageIsReady, GraphAdvances
  <2>4. CASE at \in plan.carryOn
    <3>1. pc' = "stage" /\ at' = at + 1
      BY <1>12, <2>4 DEF StageFails, NextStage
    <3> QED
      BY <1>12, <2>1, <2>3, <3>1, OrderAdvances
  <2>5. CASE at \notin plan.carryOn
    <3>1. pc' = "failed"
      BY <1>12, <2>5 DEF StageFails, Fails
    <3> QED
      BY <2>3, <3>1 DEF Order
  <2> QED
    BY <2>3, <2>4, <2>5
<1>13. ASSUME NEW i \in Stages, NEW verdict \in {"pass", "not taken", "fail"},
              Act(i, verdict)
       PROVE  Order' /\ Graph'
  <2>1. /\ pc = "stage" /\ i = at /\ at \in Stages /\ plan' = plan
        /\ ~BlockedBy(at, unusable) /\ ~BlockedBy(at, untaken)
    BY <1>13 DEF Act, Reaches
  <2>2. untaken' = untaken \/ untaken' = untaken \cup {at}
    BY <1>13, <2>1 DEF Act
  <2>3. CASE verdict = "fail"
    <3>1. StageFails(at)
      BY <1>13, <2>1, <2>3 DEF Act
    <3> QED
      BY <1>12, <2>1, <2>2, <3>1
  <2>4. CASE verdict # "fail"
    <3>1. pc' = "attempt" /\ UNCHANGED <<at, outcome, unusable>>
      BY <1>13, <2>4 DEF Act
    <3>2. Graph'
      BY <1>g, <2>1, <2>2, <3>1, StageIsReady, GraphStays
    <3>3. at \notin plan.inputs[at]
      BY <2>1, StageIsReady
    <3>4. ~BlockedBy(at, unusable)' /\ ~BlockedBy(at, untaken)'
      BY <2>1, <2>2, <3>1, <3>3 DEF BlockedBy
    <3> QED
      BY <1>g, <2>1, <3>1, <3>2, <3>4 DEF Order
  <2> QED
    BY <2>3, <2>4
<1>14. ASSUME NEW i \in Stages, NEW ok \in BOOLEAN, NEW answered \in BOOLEAN,
              NEW lost \in BOOLEAN, Attempt(i, ok, answered, lost)
       PROVE  Order' /\ Graph'
  <2>1. /\ pc \in {"stage", "attempt"} /\ i = at /\ at \in Stages
        /\ UNCHANGED <<plan, untaken>>
        /\ ~BlockedBy(at, unusable) /\ ~BlockedBy(at, untaken)
    BY <1>g, <1>14 DEF Attempt, Reaches, Order
  <2>2. CASE Verdict(ok, answered)
    <3>1. /\ outcome' = [outcome EXCEPT ![at] = "ran"]
          /\ pc' = "stage" /\ at' = at + 1 /\ unusable' = unusable
      BY <1>14, <2>1, <2>2 DEF Attempt, NextStage
    <3>2. unusable' = unusable \cup
            (IF "ran" \in {"failed", "upstreamFailed"} THEN {at} ELSE {})
      BY <3>1
    <3> QED
      BY <1>g, <2>1, <3>1, <3>2, StageIsReady, OrderAdvances, GraphAdvances
  <2>3. CASE ~Verdict(ok, answered) /\ attempt < plan.retries[i]
    <3>1. pc' = "attempt" /\ UNCHANGED <<at, outcome, unusable>>
      BY <1>14, <2>3 DEF Attempt
    <3>2. ~BlockedBy(at, unusable)' /\ ~BlockedBy(at, untaken)'
      BY <2>1, <3>1 DEF BlockedBy
    <3> QED
      BY <1>g, <1>2, <2>1, <3>1, <3>2 DEF Order
  <2>4. CASE ~Verdict(ok, answered) /\ ~(attempt < plan.retries[i])
    <3>1. StageFails(at)
      BY <1>14, <2>1, <2>4 DEF Attempt
    <3> QED
      BY <1>12, <2>1, <3>1
  <2> QED
    BY <2>2, <2>3, <2>4
<1>15. ASSUME NEW done \in BOOLEAN, LoseSession(done) PROVE Order' /\ Graph'
  BY <1>2, <1>3, <1>15 DEF LoseSession, Fails
<1>16. CASE StagesEnd
  <2>1. /\ UNCHANGED <<plan, outcome, unusable, untaken>>
        /\ pc' = IF Failures = {} THEN "deliver" ELSE "settle"
        /\ pc = "stage" /\ at \notin Stages
    BY <1>16 DEF StagesEnd, memory
  <2>2. \A i \in Stages : outcome[i] # "pending"
    BY <1>g, <2>1, SizeAssumption DEF Order, TypeOK, Stages
  <2>3. Failures' = Failures
    BY <2>1 DEF Failures
  <2> QED
    BY <1>2, <2>1, <2>2, <2>3 DEF Order
<1>17. ASSUME NEW i \in Stages, NEW ok \in BOOLEAN, Deliver(i, ok)
       PROVE  Order' /\ Graph'
  BY <1>g, <1>2, <1>17 DEF Deliver, Fails, Order, memory, Failures
<1>18. CASE Delivered
  BY <1>g, <1>2, <1>18 DEF Delivered, AllDelivered, Order, memory, Failures
<1>19. ASSUME NEW i \in Stages, NEW ok \in BOOLEAN, Settle(i, ok)
       PROVE  Order' /\ Graph'
  BY <1>g, <1>2, <1>19 DEF Settle, Order, memory, Failures
<1>20. CASE Report
  BY <1>2, <1>3, <1>20 DEF Report, memory
<1>21. CASE Crash
  BY <1>2, <1>3, <1>21 DEF Crash, memory
<1>22. CASE UNCHANGED vars
  BY <1>g, <1>2, <1>22 DEF vars, memory, Order, BlockedBy, Failures
<1> QED
  BY <1>1, <1>4, <1>5, <1>6, <1>7, <1>8, <1>9, <1>10, <1>11, <1>13, <1>14, <1>15,
     <1>16, <1>17, <1>18, <1>19, <1>20, <1>21, <1>22, <1>23
     DEF Next, Step, Source, Script, Drive, End

(* The executor's report is right about the whole graph, for every plan:   *)
(* a stage is skipped for a failure exactly when a stage upstream failed,  *)
(* and for a branch exactly when that is the only reason.                  *)
THEOREM SkipsAreExplainedTheorem == Spec => []SkipsAreExplained
<1>1. Spec => []GInv
  BY GInvInit, GInvStep, PTL DEF Spec
<1>2. GInv => SkipsAreExplained
  BY GraphExplains DEF GInv, TInv
<1> QED
  BY <1>1, <1>2, PTL

-----------------------------------------------------------------------------
(* Where a stage's verdict can be trusted: without counts, stderr decides, *)
(* and one script stops at the first error.  (With counts a session        *)
(* believes the probe of a sink that failed: run exec_counted.)            *)
Trusted == \A p \in Plans : p.counts => ~NeedsSession(p)

(* Every sink that a branch did not decide against has this run's rows.    *)
Landed == \A s \in Of(SinkKinds) \ untaken : out[s] = {run}

(* A stage that ran left this run's rows where they belong.                *)
Left ==
    \A i \in Stages : outcome[i] = "ran" =>
        /\ plan.kind[i] \notin SinkKinds => rel[i] = {run}
        /\ plan.kind[i] = "sink" => out[i] = {run}
        /\ plan.kind[i] = "nativesink" /\ pc \in {"script", "stage", "attempt"}
                => staged[i] = {run}

(* Sinks before the loop of deliver_sinks have landed, the others are      *)
(* staged.                                                                 *)
Delivery ==
    pc = "deliver" => \A s \in ToDeliver : /\ s < at => out[s] = {run}
                                           /\ s >= at => staged[s] = {run}

(* Nothing is acknowledged before everything has landed.                   *)
Done ==
    /\ pc = "settle" /\ Failures = {} => Landed
    /\ (\E i \in Stages : held[i] = "acknowledged") =>
            Landed /\ pc \in {"settle", "reported", "killed"}

(* The invariant of the rows part.                                         *)
RInv == GInv /\ Left /\ Delivery /\ Done

(* A stage that is not blocked reads this run's rows.                      *)
LEMMA ReadyRows ==
    ASSUME RInv, pc \in {"script", "stage", "attempt"}, at \in Stages,
           ~BlockedBy(at, unusable), ~BlockedBy(at, untaken)
    PROVE  Rows(at) = {run}
<1>1. \A j \in plan.inputs[at] : j \in Stages /\ outcome[j] # "pending"
  BY StageIsReady DEF RInv
<1>2. \A j \in plan.inputs[at] : outcome[j] = "ran"
  BY <1>1 DEF RInv, GInv, TInv, TypeOK, Graph, Local, BlockedBy
<1>3. \A j \in plan.inputs[at] : plan.kind[j] \notin SinkKinds
  BY DEF RInv, GInv, TInv, TypeOK, WellFormed
<1>4. \A j \in plan.inputs[at] : rel[j] = {run}
  BY <1>1, <1>2, <1>3 DEF RInv, Left
<1>5. plan.kind[at] \in SourceKinds \/ plan.inputs[at] # {}
  BY DEF RInv, GInv, TInv, TypeOK, WellFormed
<1> QED
  BY <1>4, <1>5 DEF Rows

(* A statement writes at its own stage only, and there this run's rows.    *)
LEMMA StatementWrites ==
    ASSUME TypeOK, NEW i \in Stages, NEW ok \in BOOLEAN, Statement(i, ok)
    PROVE  /\ \A k \in Stages : k # i => /\ rel'[k] = rel[k]
                                         /\ out'[k] = out[k]
                                         /\ CopiesTo(i, ok)[k] = staged[k]
           /\ ok => /\ plan.kind[i] \notin SinkKinds => rel'[i] = Rows(i)
                    /\ plan.kind[i] = "sink" => out'[i] = Rows(i)
                    /\ plan.kind[i] = "nativesink" => CopiesTo(i, ok)[i] = Rows(i)
<1>1. DOMAIN rel = Stages /\ DOMAIN out = Stages /\ DOMAIN staged = Stages
      /\ rel = [k \in Stages |-> rel[k]] /\ out = [k \in Stages |-> out[k]]
      /\ staged = [k \in Stages |-> staged[k]]
  BY DEF TypeOK
<1>2. \A k \in Stages : k # i => rel'[k] = rel[k] /\ out'[k] = out[k]
  BY <1>1 DEF Statement
<1>3. \A k \in Stages : k # i => CopiesTo(i, ok)[k] = staged[k]
  BY <1>1 DEF CopiesTo
<1>4. ok /\ plan.kind[i] \notin SinkKinds => rel'[i] = Rows(i)
  BY <1>1 DEF Statement, Of
<1>5. ok /\ plan.kind[i] = "sink" => out'[i] = Rows(i)
  BY <1>1 DEF Statement
<1>6. ok /\ plan.kind[i] = "nativesink" => CopiesTo(i, ok)[i] = Rows(i)
  BY <1>1 DEF CopiesTo
<1> QED
  BY <1>2, <1>3, <1>4, <1>5, <1>6

(* With no failure and no stage pending, every sink that a branch did not  *)
(* decide against ran.                                                     *)
LEMMA SinksRan ==
    ASSUME GInv, \A i \in Stages : outcome[i] # "pending", Failures = {},
           NEW s \in Stages \ untaken
    PROVE  outcome[s] = "ran"
<1>1. outcome[s] # "upstreamFailed"
  <2> SUFFICES ASSUME outcome[s] = "upstreamFailed" PROVE FALSE
    OBVIOUS
  <2>1. PICK j \in Upstream(s) : outcome[j] = "failed"
    BY DEF GInv, Graph, Reasons
  <2> QED
    BY <2>1 DEF Upstream, Failures
<1> QED
  BY <1>1 DEF GInv, TInv, TypeOK, Graph, Local, Failures

(* A stage's statement leaves what the stages that ran have left.          *)
LEMMA LeftAdvances ==
    ASSUME RInv, pc \in {"script", "stage", "attempt"}, at \in Stages,
           ~BlockedBy(at, unusable), ~BlockedBy(at, untaken),
           UNCHANGED <<plan, run>>,
           NEW ok \in BOOLEAN, Statement(at, ok),
           \/ staged' = CopiesTo(at, ok)
           \/ pc' \notin {"script", "stage", "attempt"},
           NEW o, outcome' = [outcome EXCEPT ![at] = o], o = "ran" => ok
    PROVE  Left'
<1>t. TypeOK
  BY DEF RInv, GInv, TInv
<1>1. \A i \in Stages : outcome'[i] = IF i = at THEN o ELSE outcome[i]
  BY <1>t DEF TypeOK
<1>2. Rows(at) = {run}
  BY ReadyRows
<1>3. \A k \in Stages : k # at => /\ rel'[k] = rel[k] /\ out'[k] = out[k]
                                  /\ CopiesTo(at, ok)[k] = staged[k]
  BY <1>t, StatementWrites
<1>4. ok => /\ plan.kind[at] \notin SinkKinds => rel'[at] = {run}
            /\ plan.kind[at] = "sink" => out'[at] = {run}
            /\ plan.kind[at] = "nativesink" => CopiesTo(at, ok)[at] = {run}
  BY <1>t, <1>2, StatementWrites
<1> SUFFICES ASSUME NEW k \in Stages, outcome'[k] = "ran"
             PROVE  /\ plan.kind[k] \notin SinkKinds => rel'[k] = {run}
                    /\ plan.kind[k] = "sink" => out'[k] = {run}
                    /\ plan.kind[k] = "nativesink"
                       /\ pc' \in {"script", "stage", "attempt"}
                            => staged'[k] = {run}
  BY DEF Left
<1>5. CASE k = at
  BY <1>1, <1>4, <1>5
<1>6. CASE k # at
  BY <1>1, <1>3, <1>6 DEF RInv, Left
<1> QED
  BY <1>5, <1>6

(* The invariant of the rows holds at the start.                           *)
LEMMA RInvInit == Init => RInv
<1> SUFFICES ASSUME Init PROVE RInv
  OBVIOUS
<1>1. GInv
  BY GInvInit
<1>2. Left /\ Delivery
  BY DEF Init, Left, Delivery
<1>3. Done
  BY DEF Init, Done
<1> QED
  BY <1>1, <1>2, <1>3 DEF RInv

(* Every step keeps it, where verdicts can be trusted.                     *)
LEMMA RInvStep == ASSUME Trusted PROVE RInv /\ [Next]_vars => RInv'
<1> SUFFICES ASSUME RInv, [Next]_vars PROVE RInv'
  OBVIOUS
<1>g. GInv' /\ GInv /\ TypeOK /\ TInv /\ Order
  BY GInvStep DEF RInv, GInv, TInv
<1>r. Left /\ Delivery /\ Done
  BY DEF RInv
<1> SUFFICES Left' /\ Delivery' /\ Done'
  BY <1>g DEF RInv
(* Steps within the first part of a run: nothing is acknowledged yet.      *)
<1>n. ASSUME pc \in {"prepare", "sources", "script", "stage", "attempt", "deliver"}
      PROVE  \A i \in Stages : held[i] # "acknowledged"
  BY <1>r, <1>n DEF Done
<1>d. ASSUME \A i \in Stages : held'[i] # "acknowledged", pc' # "settle"
      PROVE  Done'
  BY <1>d DEF Done
<1>e. ASSUME NEW b, Fails(b),
             pc \in {"prepare", "sources", "script", "stage", "attempt", "deliver"}
      PROVE  pc' = "failed" /\ \A i \in Stages : held'[i] # "acknowledged"
  BY <1>e, <1>n DEF Fails, Dropped
<1>1. CASE Begin
  <2>1. /\ \A i \in Stages : outcome'[i] = "pending" /\ held'[i] = "none"
        /\ pc' = "prepare"
    BY <1>1 DEF Begin
  <2> QED
    BY <1>d, <2>1 DEF Left, Delivery
<1>2. ASSUME NEW ok \in BOOLEAN, Prepare(ok) PROVE Left' /\ Delivery' /\ Done'
  <2>1. \A i \in Stages : outcome'[i] = "pending"
    BY <1>2, <1>g DEF Prepare, Order, memory
  <2>2. pc' # "settle" /\ pc' # "deliver"
    BY <1>2 DEF Prepare, Fails
  <2>3. \A i \in Stages : held'[i] # "acknowledged"
    BY <1>2, <1>n, <1>e DEF Prepare
  <2> QED
    BY <1>d, <2>1, <2>2, <2>3 DEF Left, Delivery
<1>3. ASSUME NEW i \in Stages, NEW how \in {"read", "unread", "unflushed"},
             StageSource(i, how)
      PROVE  Left' /\ Delivery' /\ Done'
  <2>1. \A k \in Stages : outcome'[k] = "pending"
    BY <1>3, <1>g DEF StageSource, Order, memory
  <2>2. pc' # "settle" /\ pc' # "deliver"
    BY <1>3 DEF StageSource
  <2>h. \A k \in Stages : held[k] # "acknowledged"
                          /\ [held EXCEPT ![i] = "held"][k] # "acknowledged"
    BY <1>3, <1>n, <1>g DEF StageSource, TypeOK
  <2>3. \A k \in Stages : held'[k] # "acknowledged"
    <3>1. CASE how = "read"
      BY <1>3, <2>h, <3>1 DEF StageSource
    <3>2. CASE how # "read"
      <4>1. Dropped(held) \/ Dropped([held EXCEPT ![i] = "held"])
        BY <1>3, <3>2 DEF StageSource
      <4> QED
        BY <2>h, <4>1 DEF Dropped
    <3> QED
      BY <3>1, <3>2
  <2> QED
    BY <1>d, <2>1, <2>2, <2>3 DEF Left, Delivery
<1>4. ASSUME NEW ok \in BOOLEAN, Open(ok) PROVE Left' /\ Delivery' /\ Done'
  <2>1. \A k \in Stages : outcome'[k] = "pending"
    BY <1>4, <1>g DEF Open, Order, memory
  <2>2. pc' # "settle" /\ pc' # "deliver"
    BY <1>4 DEF Open, Fails
  <2>3. \A k \in Stages : held'[k] # "acknowledged"
    BY <1>4, <1>n, <1>e DEF Open
  <2> QED
    BY <1>d, <2>1, <2>2, <2>3 DEF Left, Delivery
<1>19. CASE PreludeFails
  <2>1. \A k \in Stages : outcome'[k] = "pending"
    BY <1>19, <1>g DEF PreludeFails, Order, memory
  <2>2. pc' = "failed" /\ \A k \in Stages : held'[k] # "acknowledged"
    BY <1>19, <1>e DEF PreludeFails, Fails
  <2> QED
    BY <1>d, <2>1, <2>2 DEF Left, Delivery
<1>5. CASE ScriptStage
  <2>1. /\ pc = "script" /\ at \in Stages /\ Statement(at, TRUE)
        /\ staged' = CopiesTo(at, TRUE) /\ pc' = "script" /\ held' = held
        /\ outcome' = [outcome EXCEPT ![at] = "ran"] /\ UNCHANGED <<plan, run>>
    BY <1>5 DEF ScriptStage
  <2>2. ~BlockedBy(at, unusable) /\ ~BlockedBy(at, untaken)
    BY <1>g, <2>1 DEF Order, BlockedBy
  <2>3. Left'
    BY <2>1, <2>2, LeftAdvances
  <2> QED
    BY <1>d, <1>n, <2>1, <2>3 DEF Delivery
<1>6. ASSUME NEW where \in {"statement", "count", "rejected", "mark"},
             ScriptFails(where)
      PROVE  Left' /\ Delivery' /\ Done'
  <2>1. /\ pc = "script" /\ at \in Stages /\ Fails(Named(counted'))
        /\ UNCHANGED <<plan, run, outcome, rel>>
    BY <1>6 DEF ScriptFails, memory
  <2>2. pc' = "failed" /\ \A i \in Stages : held'[i] # "acknowledged"
    BY <1>e, <2>1
  <2>3. \A k \in Stages : k # at => out'[k] = out[k]
    BY <1>6, <1>g DEF ScriptFails, TypeOK
  <2>4. outcome[at] = "pending"
    BY <1>g, <2>1, StageIsReady
  <2>5. Left'
    BY <1>r, <2>1, <2>2, <2>3, <2>4 DEF Left
  <2> QED
    BY <1>d, <2>2, <2>5 DEF Delivery
(* Steps that keep what sinks hold and what stages left.                   *)
<1>k. ASSUME UNCHANGED <<plan, run, outcome, rel, out>>,
             \/ staged' = staged /\ pc \in {"script", "stage", "attempt"}
             \/ pc' \notin {"script", "stage", "attempt"}
      PROVE  Left'
  BY <1>r, <1>k DEF Left
<1>s. ASSUME pc \in {"script", "stage"}, pc' = "deliver", at' = 1, Left',
             GInv', UNCHANGED <<plan, run, outcome, untaken, out, staged, held>>
      PROVE  Delivery' /\ Done'
  <2>1. Failures' = {} /\ \A i \in Stages : outcome'[i] # "pending"
    BY <1>s DEF GInv, Order
  <2>2. \A i \in Stages : outcome[i] # "pending"
    BY <1>s, <2>1
  <2>3. Failures = {}
    BY <1>s, <2>1 DEF Failures
  <2>4. \A s \in ToDeliver : s \in Stages /\ outcome[s] = "ran"
                             /\ plan.kind[s] = "nativesink" /\ ~(s < 1)
    BY <1>g, <2>2, <2>3, SinksRan DEF ToDeliver, Of, Stages
  <2>5. \A s \in ToDeliver : staged[s] = {run}
    BY <1>r, <1>s, <2>4 DEF Left
  <2>6. ToDeliver' = ToDeliver
    BY <1>s DEF ToDeliver, Of
  <2>7. Delivery'
    BY <1>s, <2>4, <2>5, <2>6 DEF Delivery
  <2> QED
    BY <1>d, <1>n, <1>s, <2>7
<1>7. CASE ScriptEnds
  <2>1. /\ pc = "script" /\ pc' = "deliver" /\ at' = 1
        /\ UNCHANGED <<plan, run, outcome, rel, untaken, out, staged, held>>
    BY <1>7 DEF ScriptEnds, memory
  <2>2. Left'
    BY <1>k, <2>1
  <2> QED
    BY <1>g, <1>s, <2>1, <2>2
<1>8. CASE SkipUnusable \/ SkipUntaken
  <2>1. /\ pc = "stage" /\ pc' = "stage" /\ at \in Stages
        /\ UNCHANGED <<plan, run, rel, out, staged, held>>
        /\ outcome' = [outcome EXCEPT ![at] = "upstreamFailed"]
            \/ outcome' = [outcome EXCEPT ![at] = "notTaken"]
    BY <1>8 DEF SkipUnusable, SkipUntaken, NextStage
  <2>2. \A k \in Stages : outcome'[k] = "ran" => outcome[k] = "ran"
    BY <1>g, <2>1 DEF TypeOK
  <2>3. Left'
    BY <1>r, <2>1, <2>2 DEF Left
  <2> QED
    BY <1>d, <1>n, <2>1, <2>3 DEF Delivery
<1>9. ASSUME NEW i \in Stages, NEW verdict \in {"pass", "not taken", "fail"},
             Act(i, verdict)
      PROVE  Left' /\ Delivery' /\ Done'
  <2>1. pc = "stage" /\ i = at /\ UNCHANGED <<plan, run, rel, out>>
    BY <1>9 DEF Act, Reaches
  <2>2. CASE verdict = "fail"
    <3>1. StageFails(i) /\ (i \in plan.carryOn => staged' = staged)
      BY <1>9, <2>2 DEF Act
    <3>2. \A k \in Stages : outcome'[k] = "ran" => outcome[k] = "ran"
      BY <1>g, <3>1 DEF StageFails, TypeOK
    <3>3. CASE i \in plan.carryOn
      <4>1. pc' = "stage" /\ held' = held /\ staged' = staged
        BY <3>1, <3>3 DEF StageFails, NextStage
      <4>2. Left'
        BY <1>r, <2>1, <3>2, <4>1 DEF Left
      <4> QED
        BY <1>d, <1>n, <2>1, <4>1, <4>2 DEF Delivery
    <3>4. CASE i \notin plan.carryOn
      <4>1. Fails(i)
        BY <3>1, <3>4 DEF StageFails
      <4>2. pc' = "failed" /\ \A k \in Stages : held'[k] # "acknowledged"
        BY <1>e, <2>1, <4>1
      <4>3. Left'
        BY <1>r, <2>1, <3>2, <4>2 DEF Left
      <4> QED
        BY <1>d, <4>2, <4>3 DEF Delivery
    <3> QED
      BY <3>3, <3>4
  <2>3. CASE verdict # "fail"
    <3>1. pc' = "attempt" /\ UNCHANGED <<outcome, staged, held>>
      BY <1>9, <2>3 DEF Act
    <3>2. Left'
      BY <1>k, <2>1, <3>1
    <3> QED
      BY <1>d, <1>n, <2>1, <3>1, <3>2 DEF Delivery
  <2> QED
    BY <2>2, <2>3
<1>10. ASSUME NEW i \in Stages, NEW ok \in BOOLEAN, NEW answered \in BOOLEAN,
              NEW lost \in BOOLEAN, Attempt(i, ok, answered, lost)
       PROVE  Left' /\ Delivery' /\ Done'
  <2>1. /\ pc \in {"stage", "attempt"} /\ i = at /\ at \in Stages
        /\ UNCHANGED <<plan, run>> /\ Statement(at, ok)
        /\ ~BlockedBy(at, unusable) /\ ~BlockedBy(at, untaken)
    BY <1>g, <1>10 DEF Attempt, Reaches, Order
  <2>2. ~Counts
    BY <1>g, <2>1 DEF TInv, Shape, Driven, Trusted, Counts
  <2>3. CASE Verdict(ok, answered)
    <3>1. /\ outcome' = [outcome EXCEPT ![at] = "ran"] /\ pc' = "stage"
          /\ staged' = CopiesTo(at, ok) /\ held' = held
      BY <1>10, <2>1, <2>3 DEF Attempt, NextStage
    <3>2. ok
      BY <2>2, <2>3 DEF Verdict
    <3>3. Left'
      BY <2>1, <3>1, <3>2, LeftAdvances
    <3> QED
      BY <1>d, <1>n, <2>1, <3>1, <3>3 DEF Delivery
  <2>4. CASE ~Verdict(ok, answered) /\ attempt < plan.retries[i]
    <3>1. /\ pc' = "attempt" /\ staged' = CopiesTo(at, ok)
          /\ UNCHANGED <<outcome, held>>
      BY <1>10, <2>1, <2>4 DEF Attempt
    <3>2. outcome[at] = "pending"
      BY <1>g, <2>1, StageIsReady
    <3>3. outcome' = [outcome EXCEPT ![at] = "pending"]
      BY <1>g, <3>1, <3>2 DEF TypeOK
    <3>4. Left'
      BY <2>1, <3>1, <3>3, LeftAdvances
    <3> QED
      BY <1>d, <1>n, <2>1, <3>1, <3>4 DEF Delivery
  <2>5. CASE ~Verdict(ok, answered) /\ ~(attempt < plan.retries[i])
    <3>1. StageFails(at) /\ (at \in plan.carryOn => staged' = CopiesTo(at, ok))
      BY <1>10, <2>1, <2>5 DEF Attempt
    <3>2. outcome' = [outcome EXCEPT ![at] = "failed"]
      BY <3>1 DEF StageFails
    <3>3. CASE at \in plan.carryOn
      <4>1. pc' = "stage" /\ held' = held
        BY <3>1, <3>3 DEF StageFails, NextStage
      <4>3. staged' = CopiesTo(at, ok) /\ ("failed" = "ran" => ok)
        BY <3>1, <3>3
      <4>2. Left'
        BY <2>1, <3>2, <4>3, LeftAdvances
      <4> QED
        BY <1>d, <1>n, <2>1, <4>1, <4>2 DEF Delivery
    <3>4. CASE at \notin plan.carryOn
      <4>1. Fails(at)
        BY <3>1, <3>4 DEF StageFails
      <4>2. pc' = "failed" /\ \A k \in Stages : held'[k] # "acknowledged"
        BY <1>e, <2>1, <4>1
      <4>4. pc' \notin {"script", "stage", "attempt"} /\ ("failed" = "ran" => ok)
        BY <4>2
      <4>3. Left'
        BY <2>1, <3>2, <4>4, LeftAdvances
      <4> QED
        BY <1>d, <4>2, <4>3 DEF Delivery
    <3> QED
      BY <3>3, <3>4
  <2> QED
    BY <2>3, <2>4, <2>5
<1>11. ASSUME NEW done \in BOOLEAN, LoseSession(done)
       PROVE  Left' /\ Delivery' /\ Done'
  <2>1. /\ pc \in {"stage", "attempt"} /\ at \in Stages /\ Fails(0)
        /\ UNCHANGED <<plan, run, outcome>>
        /\ ~BlockedBy(at, unusable) /\ ~BlockedBy(at, untaken)
    BY <1>g, <1>11 DEF LoseSession, Reaches, Order, TInv, Shape
  <2>2. pc' = "failed" /\ \A k \in Stages : held'[k] # "acknowledged"
    BY <1>e, <2>1
  <2>3. CASE done
    <3>1. Statement(at, TRUE)
      BY <1>11, <2>3 DEF LoseSession
    <3>2. outcome' = [outcome EXCEPT ![at] = "pending"]
      BY <1>g, <2>1, StageIsReady DEF TypeOK
    <3>3. pc' \notin {"script", "stage", "attempt"} /\ ("pending" = "ran" => TRUE)
      BY <2>2
    <3>4. Left'
      BY <2>1, <3>1, <3>2, <3>3, LeftAdvances
    <3> QED
      BY <1>d, <2>2, <3>4 DEF Delivery
  <2>4. CASE ~done
    <3>1. UNCHANGED <<rel, out>>
      BY <1>11, <2>4 DEF LoseSession
    <3> QED
      BY <1>d, <1>k, <2>1, <2>2, <3>1 DEF Delivery
  <2> QED
    BY <2>3, <2>4
<1>12. CASE StagesEnd
  <2>1. /\ pc = "stage" /\ at' = 1
        /\ pc' = IF Failures = {} THEN "deliver" ELSE "settle"
        /\ UNCHANGED <<plan, run, outcome, rel, untaken, out, staged, held>>
    BY <1>12 DEF StagesEnd, memory
  <2>2. Left'
    BY <1>k, <2>1
  <2>3. CASE Failures = {}
    BY <1>g, <1>s, <2>1, <2>2, <2>3
  <2>4. CASE Failures # {}
    <3>1. Failures' # {}
      BY <2>1, <2>4 DEF Failures
    <3> QED
      BY <1>n, <2>1, <2>2, <2>4, <3>1 DEF Delivery, Done
  <2> QED
    BY <2>3, <2>4
<1>13. ASSUME NEW i \in Stages, NEW ok \in BOOLEAN, Deliver(i, ok)
       PROVE  Left' /\ Delivery' /\ Done'
  <2>1. /\ pc = "deliver" /\ i \in ToDeliver /\ at \in Nat /\ i \in Nat
        /\ i >= at /\ \A j \in ToDeliver : j >= at => i <= j
        /\ UNCHANGED <<plan, run, outcome, rel, untaken>>
    BY <1>13, <1>g DEF Deliver, Comes, memory, TypeOK, Stages
  <2>2. CASE ok /\ staged[i] # {}
    <3>1. /\ out' = [out EXCEPT ![i] = staged[i]] /\ at' = i + 1
          /\ UNCHANGED <<pc, staged, held>>
      BY <1>13, <2>2 DEF Deliver
    <3>2. staged[i] = {run}
      BY <1>r, <2>1 DEF Delivery
    <3>3. \A k \in Stages : out'[k] = IF k = i THEN {run} ELSE out[k]
      BY <1>g, <3>1, <3>2 DEF TypeOK
    <3>4. Left'
      BY <1>r, <2>1, <3>1, <3>3 DEF Left
    <3>5. ToDeliver' = ToDeliver /\ ToDeliver \subseteq Stages
      BY <2>1 DEF ToDeliver, Of
    <3>6. \A s \in ToDeliver : s \in Nat
      BY <3>5 DEF Stages
    <3>7. Delivery'
      <4> SUFFICES ASSUME NEW s \in ToDeliver
                   PROVE  /\ s < i + 1 => out'[s] = {run}
                          /\ s >= i + 1 => staged[s] = {run}
        BY <2>1, <3>1, <3>5 DEF Delivery
      <4>1. s \in Stages /\ s \in Nat
        BY <3>5, <3>6
      <4>2. /\ s < at => out[s] = {run}
            /\ s >= at => staged[s] = {run}
        BY <1>r, <2>1 DEF Delivery
      <4>3. s < at \/ s = i \/ s > i
        BY <2>1, <4>1
      <4> QED
        BY <2>1, <3>3, <4>1, <4>2, <4>3
    <3> QED
      BY <1>d, <1>n, <2>1, <3>1, <3>4, <3>7
  <2>3. CASE ~(ok /\ staged[i] # {})
    <3>1. Fails(i) /\ out' = out
      BY <1>13, <2>3 DEF Deliver
    <3>2. pc' = "failed" /\ \A k \in Stages : held'[k] # "acknowledged"
      BY <1>e, <2>1, <3>1
    <3> QED
      BY <1>d, <1>k, <2>1, <3>1, <3>2 DEF Delivery
  <2> QED
    BY <2>2, <2>3
<1>14. CASE Delivered
  <2>1. /\ pc = "deliver" /\ pc' = "settle" /\ \A s \in ToDeliver : s < at
        /\ UNCHANGED <<plan, run, outcome, rel, untaken, out, staged, held>>
    BY <1>14 DEF Delivered, AllDelivered, Through, memory
  <2>2. Left'
    BY <1>k, <2>1
  <2>3. \A s \in ToDeliver : out[s] = {run}
    BY <1>r, <2>1 DEF Delivery
  <2>4. \A s \in Of({"sink"}) \ untaken : out[s] = {run}
    BY <1>g, <1>r, <2>1, SinksRan DEF Order, Left, Of
  <2>5. Of(SinkKinds) = Of({"sink"}) \cup Of({"nativesink"})
    BY DEF Of, SinkKinds
  <2>6. Landed
    BY <2>3, <2>4, <2>5 DEF Landed, ToDeliver
  <2>7. Landed'
    BY <2>1, <2>6 DEF Landed, Of
  <2> QED
    BY <1>n, <2>1, <2>2, <2>7 DEF Delivery, Done
<1>15. ASSUME NEW i \in Stages, NEW ok \in BOOLEAN, Settle(i, ok)
       PROVE  Left' /\ Delivery' /\ Done'
  <2>1. /\ pc = "settle" /\ pc' = "settle"
        /\ UNCHANGED <<plan, run, outcome, rel, untaken, out, staged>>
        /\ held' = [held EXCEPT ![i] = IF ~ok THEN "expiring"
                                   ELSE IF Failures = {} THEN "acknowledged"
                                   ELSE "released"]
    BY <1>15 DEF Settle, memory
  <2>2. Left'
    BY <1>k, <2>1
  <2>3. Landed' = Landed /\ Failures' = Failures
    BY <2>1 DEF Landed, Failures, Of
  <2>4. \A k \in Stages : held'[k] = "acknowledged" =>
            held[k] = "acknowledged" \/ Failures = {}
    BY <1>g, <2>1 DEF TypeOK
  <2> QED
    BY <1>r, <2>1, <2>2, <2>3, <2>4 DEF Delivery, Done
<1>16. CASE Report
  <2>1. /\ pc = "settle" /\ pc' = "reported"
        /\ UNCHANGED <<plan, run, outcome, rel, untaken, out>>
    BY <1>16 DEF Report, memory
  <2>2. Left'
    BY <1>k, <2>1
  <2>3. Landed' = Landed
    BY <2>1 DEF Landed, Of
  <2>4. \A k \in Stages : held'[k] = "acknowledged" =>
            held[k] = "acknowledged" \/ Failures = {}
    BY <1>16 DEF Report, Dropped
  <2> QED
    BY <1>r, <2>1, <2>2, <2>3, <2>4 DEF Delivery, Done
<1>17. CASE Crash
  <2>1. /\ pc' = "killed"
        /\ UNCHANGED <<plan, run, outcome, rel, untaken, out, held>>
    BY <1>17 DEF Crash, memory
  <2>2. Left'
    BY <1>k, <2>1
  <2>3. Landed' = Landed
    BY <2>1 DEF Landed, Of
  <2> QED
    BY <1>r, <2>1, <2>2, <2>3 DEF Delivery, Done
<1>18. CASE UNCHANGED vars
  <2>1. UNCHANGED <<plan, run, pc, at, outcome, rel, untaken, out, held, staged>>
    BY <1>18 DEF vars, memory
  <2>2. /\ Landed' = Landed /\ Failures' = Failures /\ ToDeliver' = ToDeliver
    BY <2>1 DEF Landed, Of, Failures, ToDeliver
  <2> QED
    BY <1>r, <2>1, <2>2 DEF Left, Delivery, Done
<1> QED
  BY <1>1, <1>2, <1>3, <1>4, <1>5, <1>6, <1>7, <1>8, <1>9, <1>10, <1>11, <1>12,
     <1>13, <1>14, <1>15, <1>16, <1>17, <1>18, <1>19
     DEF Next, Step, Source, Script, Drive, End

(* What a run settles, messages deleted or positions handed back to be     *)
(* saved, has landed in every sink that a branch did not decide against,   *)
(* for every plan wherever a stage's verdict can be trusted.               *)
THEOREM SettledRowsLandedTheorem ==
    ASSUME Trusted PROVE Spec => []SettledRowsLanded
<1>1. RInv /\ [Next]_vars => RInv'
  BY RInvStep
<1>2. Spec => []RInv
  BY <1>1, RInvInit, PTL DEF Spec
<1>3. RInv => SettledRowsLanded
  BY DEF RInv, Done, Landed, SettledRowsLanded
<1> QED
  BY <1>2, <1>3, PTL
-----------------------------------------------------------------------------
(* No plan both reads spills of earlier runs behind a failed COPY and has  *)
(* its verdicts from probes, which such a left-over answers.               *)
SpillsAreChecked ==
    \A p \in Plans : p.counts /\ NeedsSession(p) => p.disk = {}

(* A relation that is not a view over a spill, and that of every stage     *)
(* that ran, holds this run's rows and no others.                          *)
Fresh ==
    \A i \in Stages :
        outcome[i] = "ran" \/ i \notin plan.disk => rel[i] \subseteq {run}

(* A stage that is not blocked reads this run's rows.                      *)
LEMMA FreshInputs ==
    ASSUME GInv, Fresh, pc \in {"script", "stage", "attempt"}, at \in Stages,
           ~BlockedBy(at, unusable), ~BlockedBy(at, untaken)
    PROVE  Rows(at) \subseteq {run}
<1>1. \A j \in plan.inputs[at] : j \in Stages /\ outcome[j] # "pending"
  BY StageIsReady
<1>2. \A j \in plan.inputs[at] : outcome[j] = "ran"
  BY <1>1 DEF GInv, TInv, TypeOK, Graph, Local, BlockedBy
<1>3. \A j \in plan.inputs[at] : rel[j] \subseteq {run}
  BY <1>1, <1>2 DEF Fresh
<1> QED
  BY <1>3 DEF Rows

(* Its statement keeps relations fresh, whatever becomes of it, as long as *)
(* a failed one is not taken for one that ran.                             *)
LEMMA FreshAdvances ==
    ASSUME GInv, Fresh, pc \in {"script", "stage", "attempt"}, at \in Stages,
           ~BlockedBy(at, unusable), ~BlockedBy(at, untaken),
           UNCHANGED <<plan, run>>,
           NEW ok \in BOOLEAN, Statement(at, ok),
           NEW o, outcome' = [outcome EXCEPT ![at] = o],
           o = "ran" /\ ~ok => at \notin plan.disk
    PROVE  Fresh'
<1>t. TypeOK
  BY DEF GInv, TInv
<1>1. \A i \in Stages : outcome'[i] = IF i = at THEN o ELSE outcome[i]
  BY <1>t DEF TypeOK
<1>2. Rows(at) \subseteq {run}
  BY FreshInputs
<1>3. \A k \in Stages : k # at => rel'[k] = rel[k]
  BY <1>t, StatementWrites
<1>4. rel'[at] = rel[at] \/ rel'[at] = Rows(at) \/ (at \in plan.disk /\ ~ok)
  BY <1>t DEF Statement, TypeOK
<1>5. ok /\ at \in plan.disk => rel'[at] = Rows(at)
  <2>1. at \in plan.disk => plan.kind[at] \notin SinkKinds
    BY <1>t DEF TypeOK, WellFormed
  <2> QED
    BY <1>t, <2>1, StatementWrites
<1> SUFFICES ASSUME NEW k \in Stages, outcome'[k] = "ran" \/ k \notin plan.disk
             PROVE  rel'[k] \subseteq {run}
  BY DEF Fresh
<1>6. CASE k # at
  BY <1>1, <1>3, <1>6 DEF Fresh
<1>7. CASE k = at /\ at \in plan.disk
  BY <1>1, <1>2, <1>5, <1>7
<1>8. CASE k = at /\ at \notin plan.disk
  BY <1>2, <1>4, <1>8 DEF Fresh
<1> QED
  BY <1>6, <1>7, <1>8

(* Every step keeps relations fresh where left-overs are checked.          *)
LEMMA FreshStep ==
    ASSUME SpillsAreChecked PROVE GInv /\ Fresh /\ [Next]_vars => Fresh'
<1> SUFFICES ASSUME GInv, Fresh, [Next]_vars PROVE Fresh'
  OBVIOUS
<1>t. TypeOK /\ TInv /\ Order
  BY DEF GInv, TInv
<1>k. ASSUME UNCHANGED <<plan, run, rel>>,
             \A i \in Stages : outcome'[i] = "ran" => outcome[i] = "ran"
      PROVE  Fresh'
  BY <1>k DEF Fresh
<1>1. CASE Begin
  BY <1>1 DEF Begin, Fresh, Nothing
<1>2. CASE \/ \E ok \in BOOLEAN : Prepare(ok) \/ Open(ok)
           \/ PreludeFails
           \/ Source \/ ScriptEnds \/ StagesEnd \/ End \/ Crash
           \/ \E where \in {"statement", "count", "rejected", "mark"} : ScriptFails(where)
  <2>1. UNCHANGED <<plan, run, rel, outcome>>
    BY <1>2 DEF Prepare, Open, Source, StageSource, ScriptEnds, StagesEnd, End,
       Deliver, Delivered, Settle, Report, Crash, ScriptFails,
       PreludeFails, memory
  <2> QED
    BY <1>k, <2>1
<1>3. CASE ScriptStage
  <2>1. /\ pc = "script" /\ at \in Stages /\ Statement(at, TRUE)
        /\ outcome' = [outcome EXCEPT ![at] = "ran"] /\ UNCHANGED <<plan, run>>
    BY <1>3 DEF ScriptStage
  <2>2. ~BlockedBy(at, unusable) /\ ~BlockedBy(at, untaken)
    BY <1>t, <2>1 DEF Order, BlockedBy
  <2> QED
    BY <2>1, <2>2, FreshAdvances
<1>4. CASE SkipUnusable \/ SkipUntaken
  <2>1. /\ UNCHANGED <<plan, run, rel>>
        /\ outcome' = [outcome EXCEPT ![at] = "upstreamFailed"]
            \/ outcome' = [outcome EXCEPT ![at] = "notTaken"]
    BY <1>4 DEF SkipUnusable, SkipUntaken
  <2>2. \A k \in Stages : outcome'[k] = "ran" => outcome[k] = "ran"
    BY <1>t, <2>1 DEF TypeOK
  <2> QED
    BY <1>k, <2>1, <2>2
<1>5. ASSUME NEW i \in Stages, NEW verdict \in {"pass", "not taken", "fail"},
             Act(i, verdict)
      PROVE  Fresh'
  <2>1. /\ UNCHANGED <<plan, run, rel>>
        /\ outcome' = outcome \/ outcome' = [outcome EXCEPT ![i] = "failed"]
    BY <1>5 DEF Act, StageFails
  <2>2. \A k \in Stages : outcome'[k] = "ran" => outcome[k] = "ran"
    BY <1>t, <2>1 DEF TypeOK
  <2> QED
    BY <1>k, <2>1, <2>2
<1>6. ASSUME NEW i \in Stages, NEW ok \in BOOLEAN, NEW answered \in BOOLEAN,
             NEW lost \in BOOLEAN, Attempt(i, ok, answered, lost)
      PROVE  Fresh'
  <2>1. /\ pc \in {"stage", "attempt"} /\ i = at /\ at \in Stages
        /\ UNCHANGED <<plan, run>> /\ Statement(at, ok)
        /\ ~BlockedBy(at, unusable) /\ ~BlockedBy(at, untaken)
    BY <1>t, <1>6 DEF Attempt, Reaches, Order
  <2>2. Counts => plan.disk = {}
    BY <1>t, <2>1 DEF TInv, Shape, Driven, SpillsAreChecked, Counts
  <2>3. outcome[at] = "pending"
    BY <2>1, StageIsReady
  <2>4. \E o : /\ outcome' = [outcome EXCEPT ![at] = o]
               /\ o = "ran" => Verdict(ok, answered)
    <3>1. CASE Verdict(ok, answered)
      BY <1>6, <2>1, <3>1 DEF Attempt
    <3>2. CASE ~Verdict(ok, answered) /\ attempt < plan.retries[i]
      <4>1. outcome' = outcome
        BY <1>6, <3>2 DEF Attempt
      <4>2. outcome' = [outcome EXCEPT ![at] = "pending"]
        BY <1>t, <2>3, <4>1 DEF TypeOK
      <4>3. "pending" # "ran"
        OBVIOUS
      <4> QED
        BY <4>2, <4>3
    <3>3. CASE ~Verdict(ok, answered) /\ ~(attempt < plan.retries[i])
      <4>1. outcome' = [outcome EXCEPT ![at] = "failed"]
        BY <1>6, <2>1, <3>3 DEF Attempt, StageFails
      <4>2. "failed" # "ran"
        OBVIOUS
      <4> QED
        BY <4>1, <4>2
    <3> QED
      BY <3>1, <3>2, <3>3
  <2>5. PICK o : /\ outcome' = [outcome EXCEPT ![at] = o]
                 /\ o = "ran" => Verdict(ok, answered)
    BY <2>4
  <2>6. o = "ran" /\ ~ok => at \notin plan.disk
    BY <2>2, <2>5 DEF Verdict
  <2> QED
    BY <2>1, <2>5, <2>6, FreshAdvances
<1>7. ASSUME NEW done \in BOOLEAN, LoseSession(done) PROVE Fresh'
  <2>1. /\ pc \in {"stage", "attempt"} /\ at \in Stages
        /\ UNCHANGED <<plan, run, outcome>>
        /\ ~BlockedBy(at, unusable) /\ ~BlockedBy(at, untaken)
    BY <1>t, <1>7 DEF LoseSession, Reaches, Order, TInv, Shape
  <2>2. CASE done
    <3>1. Statement(at, TRUE)
      BY <1>7, <2>2 DEF LoseSession
    <3>2. outcome' = [outcome EXCEPT ![at] = "pending"]
      BY <1>t, <2>1, StageIsReady DEF TypeOK
    <3>3. "pending" = "ran" /\ ~TRUE => at \notin plan.disk
      OBVIOUS
    <3> QED
      BY <2>1, <3>1, <3>2, <3>3, FreshAdvances
  <2>3. CASE ~done
    BY <1>k, <1>7, <2>1, <2>3 DEF LoseSession
  <2> QED
    BY <2>2, <2>3
<1>8. CASE UNCHANGED vars
  BY <1>k, <1>8 DEF vars, memory
<1> QED
  BY <1>1, <1>2, <1>3, <1>4, <1>5, <1>6, <1>7, <1>8
     DEF Next, Step, Source, Script, Drive

(* A stage that ran holds the rows this run read and none of an earlier    *)
(* run, whatever spills that one left on disk, unless a driven plan with   *)
(* counts spills: there a left-over answers for a COPY that failed.        *)
THEOREM FreshRowsTheorem ==
    ASSUME SpillsAreChecked PROVE Spec => []FreshRows
<1>1. Init => Fresh
  BY DEF Init, Fresh, Nothing
<1>2. GInv /\ Fresh /\ [Next]_vars => Fresh'
  BY FreshStep
<1>3. Fresh => FreshRows
  BY DEF Fresh, FreshRows
<1> QED
  BY <1>1, <1>2, <1>3, GInvInit, GInvStep, PTL DEF Spec

-----------------------------------------------------------------------------
(* Rows on disk and in relations are of this run or an earlier one, this   *)
(* run has spilled nothing before its first stage, and one script has      *)
(* cleared its spills by the time its sinks are delivered.                 *)
Spilled ==
    /\ \A i \in Stages : /\ \A r \in rel[i] : r <= run
                         /\ \A r \in spill[i] : r <= run
    /\ pc \in {"idle", "prepare", "sources"} => \A i \in Stages : run \notin spill[i]
    /\ ~Driven /\ pc \in {"deliver", "settle"} =>
            \A i \in Stages : run \notin spill[i]

(* A statement reads and spills rows of this run and earlier ones only.    *)
LEMMA StatementSpills ==
    ASSUME TInv, Spilled, pc # "idle", NEW i \in Stages, NEW ok \in BOOLEAN,
           Statement(i, ok)
    PROVE  \A k \in Stages : /\ \A r \in rel'[k] : r <= run
                             /\ \A r \in spill'[k] : r <= run
<1>1. TypeOK /\ run \in Nat
  BY SizeAssumption DEF TInv, TypeOK
<1>2. \A j \in plan.inputs[i] : j \in Stages
  BY <1>1 DEF TypeOK, WellFormed, Plan
<1>3. \A r \in Rows(i) : r <= run
  <2>1. CASE plan.kind[i] \in SourceKinds
    BY <1>1, <2>1 DEF Rows
  <2>2. CASE plan.kind[i] \notin SourceKinds
    BY <1>2, <2>2 DEF Rows, Spilled
  <2> QED
    BY <2>1, <2>2
<1>4. \A k \in Stages : rel'[k] \in {rel[k], Rows(i), spill[k]}
  BY <1>1 DEF Statement, TypeOK
<1>5. \A k \in Stages : spill'[k] \in {spill[k], Rows(i)}
  BY <1>1 DEF Statement, TypeOK
<1> QED
  BY <1>3, <1>4, <1>5 DEF Spilled

(* Nothing is held, and nothing this run wrote is spilled, where a run     *)
(* ends; and every step keeps the spills in order.                         *)
LEMMA LeavesStep ==
    TInv /\ Spilled /\ LeavesNothing /\ [Next]_vars => Spilled' /\ LeavesNothing'
<1> SUFFICES ASSUME TInv, Spilled, LeavesNothing, [Next]_vars
             PROVE  Spilled' /\ LeavesNothing'
  OBVIOUS
<1> USE DEF memory
<1>t. TypeOK /\ Shape /\ run \in Nat
  BY SizeAssumption DEF TInv, TypeOK
<1>d. ASSUME NEW h, Dropped(h) PROVE \A i \in Stages : held'[i] # "held"
  BY <1>d DEF Dropped
<1>e. ASSUME NEW b, Fails(b) PROVE pc' = "failed" /\ NothingLeftHeld'
  BY <1>d, <1>e DEF Fails, NothingLeftHeld
<1>k. ASSUME plan' = plan PROVE Driven' <=> Driven
  BY <1>k DEF Driven, NeedsSession
<1>n. ASSUME pc' \notin {"failed", "reported"} PROVE LeavesNothing'
  BY <1>n DEF LeavesNothing, NothingLeftHeld, NoLitter
<1>1. CASE Begin
  <2>1. /\ run' = run + 1 /\ pc' = "prepare"
        /\ \A i \in Stages : rel'[i] = {} /\ spill'[i] = spill[i]
    BY <1>1 DEF Begin, Nothing
  <2>2. \A i \in Stages : \A r \in spill[i] : r <= run /\ r \in Nat
    BY <1>t DEF Spilled, TypeOK
  <2>3. \A i \in Stages : run' \notin spill'[i] /\ \A r \in spill'[i] : r <= run'
    BY <1>t, <2>1, <2>2
  <2>4. Spilled'
    BY <2>1, <2>3 DEF Spilled
  <2> QED
    BY <1>n, <2>1, <2>4
(* Before the first stage: nothing is spilled yet.                         *)
<1>2. ASSUME pc \in {"prepare", "sources"}, UNCHANGED <<plan, run, rel, spill>>,
             \/ pc' \in {"sources", "script", "stage"}
             \/ pc' = "failed" /\ NothingLeftHeld'
      PROVE  Spilled' /\ LeavesNothing'
  <2>1. \A i \in Stages : run' \notin spill'[i]
    BY <1>2 DEF Spilled
  <2>2. Spilled'
    BY <1>2, <2>1 DEF Spilled
  <2>3. NoLitter'
    BY <2>1 DEF NoLitter
  <2> QED
    BY <1>2, <1>n, <2>2, <2>3 DEF LeavesNothing
<1>3. ASSUME NEW ok \in BOOLEAN, Prepare(ok) PROVE Spilled' /\ LeavesNothing'
  BY <1>2, <1>3, <1>e DEF Prepare
<1>4. ASSUME NEW i \in Stages, NEW how \in {"read", "unread", "unflushed"},
             StageSource(i, how)
      PROVE  Spilled' /\ LeavesNothing'
  <2>1. /\ pc = "sources" /\ UNCHANGED <<plan, run, rel, spill>>
        /\ pc' = "sources" \/ (pc' = "failed" /\ \E h : Dropped(h))
    BY <1>4 DEF StageSource
  <2>2. pc' = "sources" \/ (pc' = "failed" /\ NothingLeftHeld')
    BY <1>d, <2>1 DEF NothingLeftHeld
  <2> QED
    BY <1>2, <2>1, <2>2
<1>5. ASSUME NEW ok \in BOOLEAN, Open(ok) PROVE Spilled' /\ LeavesNothing'
  BY <1>2, <1>5, <1>e DEF Open
(* The stages of either path.                                              *)
<1>6. ASSUME pc \in {"script", "stage", "attempt"}, at \in Stages,
             NEW ok \in BOOLEAN, Statement(at, ok), UNCHANGED <<plan, run>>,
             \/ pc' \in {"script", "stage", "attempt"}
             \/ pc' = "failed" /\ Driven /\ NothingLeftHeld'
      PROVE  Spilled' /\ LeavesNothing'
  <2>1. Spilled'
    BY <1>6, StatementSpills DEF Spilled
  <2>2. NoLitter'
    BY <1>6, <1>k DEF NoLitter
  <2> QED
    BY <1>6, <1>n, <2>1, <2>2 DEF LeavesNothing
<1>7. ASSUME pc \in {"script", "stage", "attempt"}, UNCHANGED <<plan, run, rel, spill>>,
             \/ pc' \in {"script", "stage", "attempt"}
             \/ Driven /\ pc' \in {"deliver", "settle"}
             \/ pc' = "failed" /\ Driven /\ NothingLeftHeld'
      PROVE  Spilled' /\ LeavesNothing'
  <2>1. Spilled'
    BY <1>7, <1>k DEF Spilled
  <2>2. NoLitter'
    BY <1>7, <1>k DEF NoLitter
  <2> QED
    BY <1>7, <1>n, <2>1, <2>2 DEF LeavesNothing
<1>8. CASE ScriptStage
  BY <1>6, <1>8 DEF ScriptStage
(* ClearSpills.                                                            *)
<1>9. ASSUME ClearSpills, UNCHANGED <<plan, run, rel>>, pc # "idle",
             pc' \in {"deliver", "failed", "reported"},
             pc' # "deliver" => NothingLeftHeld'
      PROVE  Spilled' /\ LeavesNothing'
  <2>1. \A i \in Stages : spill'[i] = {}
    BY <1>9 DEF ClearSpills, Nothing
  <2> QED
    BY <1>9, <2>1 DEF Spilled, LeavesNothing, NothingLeftHeld, NoLitter
<1>10. ASSUME NEW where \in {"statement", "count", "rejected", "mark"},
             ScriptFails(where)
       PROVE  Spilled' /\ LeavesNothing'
  BY <1>9, <1>10, <1>e DEF ScriptFails
<1>24. CASE PreludeFails
  BY <1>9, <1>24, <1>e DEF PreludeFails, memory
<1>11. CASE ScriptEnds
  BY <1>9, <1>11 DEF ScriptEnds
<1>12. CASE SkipUnusable \/ SkipUntaken
  BY <1>7, <1>12 DEF SkipUnusable, SkipUntaken, NextStage
<1>13. ASSUME NEW i \in Stages, NEW verdict \in {"pass", "not taken", "fail"},
              Act(i, verdict)
       PROVE  Spilled' /\ LeavesNothing'
  <2>1. /\ pc = "stage" /\ UNCHANGED <<plan, run, rel, spill>> /\ Driven
        /\ pc' \in {"stage", "attempt"} \/ \E b : Fails(b)
    BY <1>t, <1>13 DEF Act, Reaches, StageFails, NextStage, Shape
  <2> QED
    BY <1>7, <1>e, <2>1
<1>14. ASSUME NEW i \in Stages, NEW ok \in BOOLEAN, NEW answered \in BOOLEAN,
              NEW lost \in BOOLEAN, Attempt(i, ok, answered, lost)
       PROVE  Spilled' /\ LeavesNothing'
  <2>1. /\ pc \in {"stage", "attempt"} /\ at \in Stages /\ i = at
        /\ Statement(at, ok) /\ UNCHANGED <<plan, run>> /\ Driven
    BY <1>t, <1>14 DEF Attempt, Reaches, Shape
  <2>2. pc' \in {"stage", "attempt"} \/ \E b : Fails(b)
    BY <1>14 DEF Attempt, StageFails, NextStage
  <2> QED
    BY <1>6, <1>e, <2>1, <2>2
<1>15. ASSUME NEW done \in BOOLEAN, LoseSession(done)
       PROVE  Spilled' /\ LeavesNothing'
  <2>1. /\ pc \in {"stage", "attempt"} /\ at \in Stages /\ Driven /\ Fails(0)
        /\ UNCHANGED <<plan, run>>
        /\ Statement(at, TRUE) \/ UNCHANGED <<rel, spill>>
    BY <1>t, <1>15 DEF LoseSession, Reaches, Shape
  <2> QED
    BY <1>6, <1>7, <1>e, <2>1
<1>16. CASE StagesEnd
  BY <1>t, <1>7, <1>16 DEF StagesEnd, Shape
(* The end of a run.                                                       *)
<1>17. ASSUME pc \in {"deliver", "settle"}, UNCHANGED <<plan, run, rel, spill>>,
              \/ pc' \in {"deliver", "settle"}
              \/ pc' = "failed" /\ NothingLeftHeld'
              \/ pc' = "reported" /\ NothingLeftHeld' /\ ~Driven
       PROVE  Spilled' /\ LeavesNothing'
  <2>1. ~Driven => \A i \in Stages : run' \notin spill'[i]
    BY <1>17 DEF Spilled
  <2>2. Spilled'
    BY <1>17, <1>k, <2>1 DEF Spilled
  <2>3. NoLitter'
    BY <1>17, <1>k, <2>1 DEF NoLitter
  <2> QED
    BY <1>17, <1>n, <2>2, <2>3 DEF LeavesNothing
<1>18. ASSUME NEW i \in Stages, NEW ok \in BOOLEAN, Deliver(i, ok)
       PROVE  Spilled' /\ LeavesNothing'
  BY <1>17, <1>18, <1>e DEF Deliver
<1>19. CASE Delivered
  BY <1>17, <1>19 DEF Delivered, AllDelivered
<1>20. ASSUME NEW i \in Stages, NEW ok \in BOOLEAN, Settle(i, ok)
       PROVE  Spilled' /\ LeavesNothing'
  BY <1>17, <1>20 DEF Settle
<1>21. CASE Report
  <2>1. NothingLeftHeld' /\ pc = "settle" /\ pc' = "reported"
        /\ UNCHANGED <<plan, run, rel>>
    BY <1>21, <1>d DEF Report, NothingLeftHeld
  <2>2. CASE Driven
    BY <1>9, <1>21, <2>1, <2>2 DEF Report
  <2>3. CASE ~Driven
    BY <1>17, <1>21, <2>1, <2>3 DEF Report
  <2> QED
    BY <2>2, <2>3
<1>22. CASE Crash
  BY <1>n, <1>22 DEF Crash, Spilled
<1>23. CASE UNCHANGED vars
  BY <1>23, <1>k DEF vars, Spilled, LeavesNothing, NothingLeftHeld, NoLitter
<1> QED
  BY <1>1, <1>3, <1>4, <1>5, <1>8, <1>10, <1>11, <1>12, <1>13, <1>14, <1>15,
     <1>16, <1>18, <1>19, <1>20, <1>21, <1>22, <1>23, <1>24
     DEF Next, Step, Source, Script, Drive, End

(* However a run that is not killed ends, on whichever early return, it    *)
(* holds no message any more; and a run that reports, or one script that   *)
(* fails, leaves no spill of its own, for every plan and after any         *)
(* sequence of earlier runs that failed or were killed.                    *)
THEOREM LeavesNothingTheorem == Spec => []LeavesNothing
<1>1. Init => Spilled /\ LeavesNothing
  BY DEF Init, Spilled, LeavesNothing, NothingLeftHeld, NoLitter, Nothing
<1> QED
  BY <1>1, TInvInit, TInvStep, LeavesStep, PTL DEF Spec

-----------------------------------------------------------------------------
(* How many probes come before another is where its value is to be found.  *)
Ports == {1, 2}
Places == (1 .. N + 1) \X Ports
Before(probes, p) == {q \in probes : Precedes(q, p)}

(* There are finitely many probes.                                         *)
LEMMA StagesFinite == IsFiniteSet(Stages \X Ports)
<1>1. IsFiniteSet(Stages)
  BY FS_Interval, SizeAssumption DEF Stages
<1>2. IsFiniteSet(Ports)
  <2>1. IsFiniteSet({1}) /\ {1} \cup {2} = Ports
    BY FS_Singleton DEF Ports
  <2> QED
    BY <2>1, FS_AddElement
<1> QED
  BY <1>1, <1>2, FS_Product

(* A position is a number: finitely many probes come before a place.       *)
LEMMA BeforeFinite ==
    ASSUME NEW probes \in SUBSET (Stages \X Ports), NEW p
    PROVE  /\ IsFiniteSet(Before(probes, p))
           /\ Position(probes, p) = Cardinality(Before(probes, p))
           /\ Position(probes, p) \in Nat
<1>1. Before(probes, p) \in SUBSET (Stages \X Ports)
  BY DEF Before
<1>2. IsFiniteSet(Before(probes, p))
  BY <1>1, StagesFinite, FS_Subset
<1>3. Position(probes, p) = Cardinality(Before(probes, p))
  BY DEF Position, Before
<1> QED
  BY <1>2, <1>3, FS_CardinalityType

(* A probe and one that comes after it are at different positions.         *)
LEMMA PositionGrows ==
    ASSUME NEW probes \in SUBSET (Stages \X Ports), NEW p \in probes,
           NEW q \in Places, Precedes(p, q)
    PROVE  Position(probes, p) < Position(probes, q)
<1>1. \A r \in probes : Precedes(r, p) => Precedes(r, q)
  BY SizeAssumption DEF Precedes, Stages, Ports, Places
<1>2. Before(probes, p) \in SUBSET Before(probes, q)
  BY <1>1 DEF Before
<1>3. p \in Before(probes, q) /\ p \notin Before(probes, p)
  BY SizeAssumption DEF Before, Precedes, Stages, Ports
<1>4. /\ Cardinality(Before(probes, p)) <= Cardinality(Before(probes, q))
      /\ Cardinality(Before(probes, p)) # Cardinality(Before(probes, q))
  BY <1>2, <1>3, BeforeFinite, FS_Subset
<1> QED
  BY <1>4, BeforeFinite

(* Two probes at one position are one.                                     *)
LEMMA PositionTells ==
    ASSUME NEW probes \in SUBSET (Stages \X Ports), NEW p \in probes,
           NEW q \in probes, Position(probes, p) = Position(probes, q)
    PROVE  p = q
<1>1. p \in Places /\ q \in Places
  BY SizeAssumption DEF Stages, Places
<1>2. p = q \/ Precedes(p, q) \/ Precedes(q, p)
  BY SizeAssumption DEF Precedes, Stages, Ports
<1>3. Position(probes, p) \in Nat /\ Position(probes, q) \in Nat
  BY BeforeFinite
<1>4. ~Precedes(p, q)
  BY <1>1, <1>3, PositionGrows
<1>5. ~Precedes(q, p)
  BY <1>1, <1>3, PositionGrows
<1> QED
  BY <1>2, <1>4, <1>5

(* The values say of every probe before b what that probe has printed.     *)
Enumerates(probes, values, b) ==
    /\ values \in Seq(Stages \X Ports)
    /\ Len(values) = Position(probes, b)
    /\ \A p \in probes : Precedes(p, b) => PairedWith(probes, values, p) = p

(* Before the first stage nothing has been printed, and nothing was due.   *)
LEMMA EnumeratesNone ==
    ASSUME NEW probes \in SUBSET (Stages \X Ports)
    PROVE  Enumerates(probes, <<>>, <<1, 1>>)
<1>1. \A p \in probes : ~Precedes(p, <<1, 1>>)
  BY SizeAssumption DEF Precedes, Stages, Ports
<1>2. Before(probes, <<1, 1>>) = {}
  BY <1>1 DEF Before
<1>3. Position(probes, <<1, 1>>) = 0
  BY <1>2, FS_EmptySet DEF Position, Before
<1> QED
  BY <1>1, <1>3 DEF Enumerates

(* The next probe's value belongs at the end.                              *)
LEMMA EnumeratesNext ==
    ASSUME NEW probes \in SUBSET (Stages \X Ports), NEW values,
           NEW b \in probes, NEW c \in Places,
           Enumerates(probes, values, b),
           \A p \in probes : Precedes(p, c) <=> Precedes(p, b) \/ p = b
    PROVE  Enumerates(probes, values \o <<b>>, c)
<1>1. b \in Stages \X Ports /\ b \in Places
  BY SizeAssumption DEF Stages, Places
<1>2. values \in Seq(Stages \X Ports) /\ <<b>> \in Seq(Stages \X Ports)
  BY <1>1 DEF Enumerates
<1>3. /\ values \o <<b>> \in Seq(Stages \X Ports)
      /\ Len(values \o <<b>>) = Len(values) + 1
      /\ \A k \in 1 .. Len(values) : (values \o <<b>>)[k] = values[k]
      /\ (values \o <<b>>)[Len(values) + 1] = b
  BY <1>2
<1>4. ~Precedes(b, b)
  BY <1>1, SizeAssumption DEF Precedes, Stages, Ports
<1>5. Before(probes, c) = Before(probes, b) \cup {b} /\ b \notin Before(probes, b)
  BY <1>4 DEF Before
<1>6. Position(probes, c) = Position(probes, b) + 1
  BY <1>5, BeforeFinite, FS_AddElement
<1>7. Len(values) = Position(probes, b) /\ Position(probes, b) \in Nat
  BY BeforeFinite DEF Enumerates
<1>8. ASSUME NEW p \in probes, Precedes(p, c)
      PROVE  PairedWith(probes, values \o <<b>>, p) = p
  <2>1. CASE p = b
    BY <1>3, <1>7, <2>1 DEF PairedWith
  <2>2. CASE Precedes(p, b)
    <3>1. Position(probes, p) < Len(values) /\ Position(probes, p) \in Nat
      BY <1>1, <1>7, <2>2, PositionGrows, BeforeFinite
    <3>2. PairedWith(probes, values, p) = p
      BY <2>2 DEF Enumerates
    <3>3. /\ Position(probes, p) + 1 \in DOMAIN values
          /\ Position(probes, p) + 1 \in DOMAIN (values \o <<b>>)
          /\ Position(probes, p) + 1 \in 1 .. Len(values)
      BY <1>2, <1>3, <3>1
    <3> QED
      BY <1>3, <3>2, <3>3 DEF PairedWith
  <2> QED
    BY <1>8, <2>1, <2>2
<1> QED
  BY <1>3, <1>6, <1>7, <1>8 DEF Enumerates

(* A place with no probe between them is as good.                          *)
LEMMA EnumeratesSame ==
    ASSUME NEW probes \in SUBSET (Stages \X Ports), NEW values, NEW b, NEW c,
           Enumerates(probes, values, b),
           \A p \in probes : Precedes(p, c) <=> Precedes(p, b)
    PROVE  Enumerates(probes, values, c)
<1>1. Position(probes, b) = Position(probes, c)
  <2>1. Before(probes, c) = Before(probes, b)
    BY DEF Before
  <2> QED
    BY <2>1 DEF Position, Before
<1> QED
  BY <1>1 DEF Enumerates

(* The probe at the position where the values end is the next one, or      *)
(* there is none.                                                          *)
LEMMA EnumeratesEnds ==
    ASSUME NEW probes \in SUBSET (Stages \X Ports), NEW values, NEW b \in Places,
           Enumerates(probes, values, b)
    PROVE  {p \in probes : Position(probes, p) = Len(values)} =
             IF b \in probes THEN {b} ELSE
             {p \in probes : Position(probes, p) = Len(values) /\ Precedes(b, p)}
<1>1. \A p \in probes : Position(probes, p) = Len(values) => ~Precedes(p, b)
  BY PositionGrows, BeforeFinite DEF Enumerates
<1>2. CASE b \in probes
  BY <1>2, PositionTells DEF Enumerates
<1>3. CASE b \notin probes
  <2>1. \A p \in probes : Precedes(p, b) \/ Precedes(b, p)
    BY <1>3, SizeAssumption DEF Precedes, Stages, Ports, Places
  <2> QED
    BY <1>1, <1>3, <2>1
<1> QED
  BY <1>2, <1>3

(* What is appended to a sequence that has a head is appended to its tail. *)
LEMMA TailOfBoth ==
    ASSUME NEW S, NEW s \in Seq(S), NEW t \in Seq(S), s # <<>>
    PROVE  Tail(s \o t) = Tail(s) \o t /\ s \o t # <<>>
<1>1. /\ s \o t \in Seq(S) /\ Len(s \o t) = Len(s) + Len(t)
      /\ \A k \in 1 .. Len(s) + Len(t) :
             (s \o t)[k] = IF k <= Len(s) THEN s[k] ELSE t[k - Len(s)]
  BY ConcatProperties
<1>2. /\ Tail(s) \in Seq(S) /\ Len(Tail(s)) = Len(s) - 1
      /\ \A k \in 1 .. Len(s) - 1 : Tail(s)[k] = s[k + 1]
  BY HeadTailProperties
<1>3. Len(s) \in Nat /\ Len(t) \in Nat /\ Len(s) > 0
  BY EmptySeq, LenProperties
<1>4. s \o t # <<>>
  BY <1>1, <1>3
<1>5. /\ Tail(s \o t) \in Seq(S) /\ Len(Tail(s \o t)) = Len(s) + Len(t) - 1
      /\ \A k \in 1 .. Len(s) + Len(t) - 1 : Tail(s \o t)[k] = (s \o t)[k + 1]
  BY <1>1, <1>4, HeadTailProperties
<1>6. /\ Tail(s) \o t \in Seq(S) /\ Len(Tail(s) \o t) = Len(s) + Len(t) - 1
      /\ \A k \in 1 .. Len(s) + Len(t) - 1 :
             (Tail(s) \o t)[k] = IF k <= Len(s) - 1 THEN Tail(s)[k]
                                 ELSE t[k - (Len(s) - 1)]
  BY <1>2, <1>3, ConcatProperties
<1>7. ASSUME NEW k \in 1 .. Len(s) + Len(t) - 1
      PROVE  Tail(s \o t)[k] = (Tail(s) \o t)[k]
  <2>1. /\ k + 1 \in 1 .. Len(s) + Len(t)
        /\ k + 1 <= Len(s) <=> k <= Len(s) - 1
        /\ (k + 1) - Len(s) = k - (Len(s) - 1)
        /\ k <= Len(s) - 1 => k \in 1 .. Len(s) - 1
    BY <1>3
  <2> QED
    BY <1>1, <1>2, <1>5, <1>6, <2>1
<1> QED
  BY <1>4, <1>5, <1>6, <1>7, SeqEqual

(* What is on stdout where the script has come to b: the prelude's count,  *)
(* if it has one, and one count and one watermark of each probe before b.  *)
Told(b) ==
    /\ Counts => /\ HasPrelude => counted # <<>>
                 /\ Enumerates(CountProbes, StageCounts(counted), b)
    /\ Enumerates(WatermarkProbes, marks, b)

(* A probe is of a stage and one of two ports.                             *)
LEMMA ProbesType ==
    /\ CountProbes \in SUBSET (Stages \X Ports)
    /\ WatermarkProbes \in SUBSET (Stages \X Ports)
BY DEF CountProbes, WatermarkProbes, Of, Ports

(* Two values printed one after the other are the two printed at once.     *)
LEMMA OneByOne ==
    ASSUME NEW S, NEW a \in S, NEW b \in S
    PROVE  <<a>> \o <<b>> = <<a, b>>
<1>1. <<a>> \in Seq(S) /\ <<b>> \in Seq(S) /\ <<a, b>> \in Seq(S)
  OBVIOUS
<1>2. /\ Len(<<a>> \o <<b>>) = 2 /\ (<<a>> \o <<b>>) \in Seq(S)
      /\ (<<a>> \o <<b>>)[1] = a /\ (<<a>> \o <<b>>)[2] = b
  BY <1>1, ConcatProperties
<1>3. Len(<<a, b>>) = 2 /\ <<a, b>>[1] = a /\ <<a, b>>[2] = b
  OBVIOUS
<1>4. \A k \in 1 .. 2 : k = 1 \/ k = 2
  OBVIOUS
<1> QED
  BY <1>1, <1>2, <1>3, <1>4, SeqEqual

(* A stage's counts, one or two of them, take the script to the next stage.*)
LEMMA CountsAdvance ==
    ASSUME NEW values, NEW i \in Stages, Counts,
           Enumerates(CountProbes, values, <<i, 1>>)
    PROVE  Enumerates(CountProbes, values \o CountsOf(i), <<i + 1, 1>>)
<1>1. /\ <<i, 1>> \in CountProbes
      /\ <<i, 2>> \in CountProbes <=> i \in plan.splits
      /\ <<i, 2>> \in Places /\ <<i + 1, 1>> \in Places
      /\ <<i, 1>> \in Stages \X Ports /\ <<i, 2>> \in Stages \X Ports
  BY SizeAssumption DEF CountProbes, Stages, Ports, Places
<1>2. \A p \in CountProbes :
        Precedes(p, <<i, 2>>) <=> Precedes(p, <<i, 1>>) \/ p = <<i, 1>>
  BY ProbesType, SizeAssumption DEF Precedes, Stages, Ports
<1>3. \A p \in CountProbes :
        Precedes(p, <<i + 1, 1>>) <=> Precedes(p, <<i, 2>>) \/ p = <<i, 2>>
  BY ProbesType, SizeAssumption DEF Precedes, Stages, Ports
<1>4. Enumerates(CountProbes, values \o <<<<i, 1>>>>, <<i, 2>>)
  BY <1>1, <1>2, ProbesType, EnumeratesNext
<1>5. CASE i \in plan.splits
  <2>1. Enumerates(CountProbes, (values \o <<<<i, 1>>>>) \o <<<<i, 2>>>>, <<i + 1, 1>>)
    BY <1>1, <1>3, <1>4, <1>5, ProbesType, EnumeratesNext
  <2>2. /\ values \in Seq(Stages \X Ports)
        /\ <<<<i, 1>>>> \in Seq(Stages \X Ports) /\ <<<<i, 2>>>> \in Seq(Stages \X Ports)
    BY <1>1 DEF Enumerates
  <2>3. (values \o <<<<i, 1>>>>) \o <<<<i, 2>>>> = values \o (<<<<i, 1>>>> \o <<<<i, 2>>>>)
    BY <2>2, ConcatAssociative
  <2>4. <<<<i, 1>>>> \o <<<<i, 2>>>> = <<<<i, 1>>, <<i, 2>>>>
    BY <1>1, OneByOne
  <2> QED
    BY <1>5, <2>1, <2>3, <2>4 DEF CountsOf
<1>6. CASE i \notin plan.splits
  <2>1. \A p \in CountProbes : Precedes(p, <<i + 1, 1>>) <=> Precedes(p, <<i, 2>>)
    BY <1>1, <1>3, <1>6
  <2>2. Enumerates(CountProbes, values \o <<<<i, 1>>>>, <<i + 1, 1>>)
    BY <1>4, <2>1, ProbesType, EnumeratesSame
  <2> QED
    BY <1>6, <2>2 DEF CountsOf
<1> QED
  BY <1>5, <1>6

(* A stage's watermark, where it has one, takes the script to the next     *)
(* stage.                                                                  *)
LEMMA MarksAdvance ==
    ASSUME NEW values, NEW i \in Stages,
           Enumerates(WatermarkProbes, values, <<i, 1>>)
    PROVE  Enumerates(WatermarkProbes, values \o MarksOf(i), <<i + 1, 1>>)
<1>1. /\ <<i + 1, 1>> \in Places
      /\ <<i, 1>> \in WatermarkProbes <=> plan.kind[i] = "marked"
  BY SizeAssumption DEF WatermarkProbes, Of, Stages, Ports, Places
<1>2. \A p \in WatermarkProbes :
        Precedes(p, <<i + 1, 1>>) <=> Precedes(p, <<i, 1>>) \/ p = <<i, 1>>
  BY SizeAssumption DEF WatermarkProbes, Of, Precedes, Stages, Ports
<1>3. CASE plan.kind[i] = "marked"
  <2>1. MarksOf(i) = <<<<i, 1>>>>
    BY <1>3 DEF MarksOf
  <2> QED
    BY <1>1, <1>2, <1>3, <2>1, ProbesType, EnumeratesNext
<1>4. CASE plan.kind[i] # "marked"
  <2>1. MarksOf(i) = <<>> /\ values \in Seq(Stages \X Ports)
    BY <1>4 DEF MarksOf, Enumerates
  <2>2. values \o MarksOf(i) = values
    BY <2>1, ConcatEmptySeq
  <2>3. \A p \in WatermarkProbes : Precedes(p, <<i + 1, 1>>) <=> Precedes(p, <<i, 1>>)
    BY <1>1, <1>2, <1>4
  <2> QED
    BY <2>2, <2>3, ProbesType, EnumeratesSame
<1> QED
  BY <1>3, <1>4

(* Setting the prelude's count aside leaves what is printed after it.      *)
LEMMA CountsSetAside ==
    ASSUME TypeOK, NEW more \in Seq((0 .. N) \X {1, 2}), HasPrelude => counted # <<>>
    PROVE  /\ StageCounts(counted \o more) = StageCounts(counted) \o more
           /\ HasPrelude => counted \o more # <<>>
BY TailOfBoth DEF StageCounts, TypeOK

(* Every path before the script prints nothing; in it and after it stands  *)
(* what the script has come to.                                            *)
Attribution ==
    /\ pc \in {"prepare", "sources"} => counted = <<>> /\ marks = <<>>
    /\ pc = "script" => Told(<<at, 1>>)
    /\ pc \in {"deliver", "settle", "reported"} /\ ~Driven => Told(<<N + 1, 1>>)

(* A step that prints nothing leaves what was printed as it is.            *)
LEMMA ToldStays ==
    ASSUME UNCHANGED <<plan, printed>>, NEW b, Told(b)
    PROVE  Told(b)'
BY DEF printed, Told, Enumerates, Position, PairedWith, CountProbes, WatermarkProbes,
   Of, HasPrelude, Counts, StageCounts

(* A script that is opened has its prelude's count on stdout, or nothing.  *)
LEMMA ToldFirst ==
    ASSUME plan' = plan, marks' = <<>>,
           counted' = IF HasPrelude THEN <<Prelude>> ELSE <<>>
    PROVE  Told(<<1, 1>>)'
<1>1. HasPrelude => counted' # <<>> /\ Tail(counted') = <<>>
  OBVIOUS
<1>2. StageCounts(counted') = <<>>
  BY <1>1 DEF StageCounts
<1>3. /\ Enumerates(CountProbes, StageCounts(counted'), <<1, 1>>)
      /\ Enumerates(WatermarkProbes, marks', <<1, 1>>)
  BY <1>2, ProbesType, EnumeratesNone
<1> QED
  BY <1>1, <1>3
     DEF Told, Enumerates, Position, PairedWith, CountProbes, WatermarkProbes, Of,
     HasPrelude, Counts, StageCounts

(* A stage that runs prints what is due up to the next one.                *)
LEMMA ToldAdvances ==
    ASSUME TInv, Told(<<at, 1>>), ScriptStage
    PROVE  Told(<<at, 1>>)'
<1>1. /\ at \in Stages /\ at' = at + 1 /\ plan' = plan /\ TypeOK
      /\ counted' = counted \o CountsOf(at) /\ marks' = marks \o MarksOf(at)
  BY DEF ScriptStage, TInv
<1>2. CountsOf(at) \in Seq((0 .. N) \X {1, 2})
  BY <1>1, AnsweredType
<1>3. Counts => /\ HasPrelude => counted' # <<>>
                /\ Enumerates(CountProbes, StageCounts(counted'), <<at', 1>>)
  BY <1>1, <1>2, CountsSetAside, CountsAdvance DEF Told
<1>4. Enumerates(WatermarkProbes, marks', <<at', 1>>)
  BY <1>1, MarksAdvance DEF Told
<1>5. /\ CountProbes' = CountProbes /\ WatermarkProbes' = WatermarkProbes
      /\ HasPrelude' <=> HasPrelude
      /\ Counts' <=> Counts
  BY <1>1 DEF CountProbes, WatermarkProbes, Of, HasPrelude, Counts
<1>6. StageCounts(counted)' = StageCounts(counted')
  BY <1>5 DEF StageCounts
<1> QED
  BY <1>3, <1>4, <1>5, <1>6 DEF Told

(* Every step keeps to what is due on stdout.                              *)
LEMMA AttributionStep == TInv /\ Attribution /\ [Next]_vars => Attribution'
<1> SUFFICES ASSUME TInv, Attribution, [Next]_vars PROVE Attribution'
  OBVIOUS
<1> USE DEF Attribution
<1>t. TypeOK /\ Shape
  BY DEF TInv
<1>k. ASSUME plan' = plan PROVE Driven' <=> Driven
  BY <1>k DEF Driven, NeedsSession
<1>1. CASE Begin
  BY <1>1 DEF Begin
<1>2. ASSUME pc \in {"prepare", "sources"}, pc' \in {"sources", "failed"},
             UNCHANGED printed
      PROVE  Attribution'
  BY <1>2 DEF printed
<1>3. CASE \/ PreludeFails
           \/ \E i \in Stages, how \in {"read", "unread", "unflushed"} :
                  StageSource(i, how)
           \/ \E ok \in BOOLEAN : Prepare(ok)
  <2>1. pc \in {"prepare", "sources"} /\ pc' \in {"sources", "failed"} /\ UNCHANGED printed
    BY <1>3 DEF PreludeFails, StageSource, Prepare, Fails
  <2> QED
    BY <1>2, <2>1
<1>4. ASSUME NEW ok \in BOOLEAN, Open(ok) PROVE Attribution'
  <2>1. pc' \in {"script", "stage", "failed"} /\ pc = "sources" /\ plan' = plan
    BY <1>4 DEF Open, Fails
  <2>2. CASE pc' = "script"
    <3>1. /\ ~Driven /\ at' = 1 /\ marks' = <<>>
          /\ counted' = IF HasPrelude THEN <<Prelude>> ELSE <<>>
      BY <1>4, <2>1, <2>2 DEF Open, Fails
    <3>3. Told(<<1, 1>>)'
      BY <2>1, <3>1, ToldFirst
    <3> QED
      BY <2>2, <3>1, <3>3
  <2> QED
    BY <2>1, <2>2
<1>5. CASE ScriptStage
  BY <1>5, ToldAdvances DEF ScriptStage
<1>6. CASE ScriptEnds
  <2>1. at = N + 1 /\ pc = "script" /\ pc' = "deliver" /\ UNCHANGED <<plan, printed>>
    BY <1>t, <1>6, SizeAssumption DEF ScriptEnds, TypeOK, Stages
  <2> QED
    BY <2>1, ToldStays
<1>7. ASSUME pc' \in {"stage", "attempt", "failed", "killed"}
      PROVE  Attribution'
  BY <1>7
<1>8. CASE \/ \E where \in {"statement", "count", "rejected", "mark"} :
                  ScriptFails(where)
           \/ Crash
  BY <1>7, <1>8 DEF ScriptFails, Fails, Crash
<1>9. CASE Drive
  <2>1. Driven /\ plan' = plan
    BY <1>t, <1>9 DEF Drive, SkipUnusable, SkipUntaken, Act, Attempt, Reaches,
       LoseSession, StagesEnd, Shape
  <2>2. ASSUME NEW i \in Stages, NEW verdict \in {"pass", "not taken", "fail"},
               Act(i, verdict)
        PROVE  pc' \in {"stage", "attempt", "failed"}
    BY <2>2 DEF Act, StageFails, NextStage, Fails
  <2>3. ASSUME NEW i \in Stages, NEW ok \in BOOLEAN, NEW answered \in BOOLEAN,
               NEW lost \in BOOLEAN, Attempt(i, ok, answered, lost)
        PROVE  pc' \in {"stage", "attempt", "failed"}
    BY <2>3 DEF Attempt, StageFails, NextStage, Fails
  <2>4. CASE \/ SkipUnusable \/ SkipUntaken \/ StagesEnd
             \/ \E done \in BOOLEAN : LoseSession(done)
    BY <2>1, <2>4, <1>k
       DEF SkipUnusable, SkipUntaken, NextStage, StagesEnd, LoseSession, Fails
  <2> QED
    BY <1>k, <1>9, <2>1, <2>2, <2>3, <2>4 DEF Drive
<1>10. CASE End
  <2>1. /\ pc \in {"deliver", "settle"} /\ UNCHANGED <<plan, printed>>
        /\ pc' \in {"deliver", "settle", "failed", "reported"}
    BY <1>10 DEF End, Delivered, AllDelivered, Report, Deliver, Settle, Fails
  <2> QED
    BY <1>k, <2>1, ToldStays
<1>11. CASE UNCHANGED vars
  <2>1. UNCHANGED <<plan, printed, pc, at>>
    BY <1>11 DEF vars
  <2> QED
    BY <1>k, <2>1, ToldStays DEF printed
<1> QED
  BY <1>1, <1>3, <1>4, <1>5, <1>6, <1>8, <1>9, <1>10, <1>11
     DEF Next, Step, Source, Script

(* Which stage is named, where the script has come to the stage i.         *)
LEMMA NamesNext ==
    ASSUME Counts, NEW arrived, NEW b \in Places,
           HasPrelude => arrived # <<>>,
           Enumerates(CountProbes, StageCounts(arrived), b)
    PROVE  /\ b \in CountProbes => Named(arrived) = b[1]
           /\ (\A p \in CountProbes : Precedes(p, b)) => Named(arrived) = 0
<1> DEFINE next == {p \in CountProbes :
                       Position(CountProbes, p) = Len(StageCounts(arrived))}
<1>1. Named(arrived) = IF next = {} THEN 0 ELSE (CHOOSE p \in next : TRUE)[1]
  BY DEF Named
<1>2. next = IF b \in CountProbes THEN {b} ELSE {p \in next : Precedes(b, p)}
  BY ProbesType, EnumeratesEnds
<1> HIDE DEF next
<1>3. CASE b \in CountProbes
  <2>1. next = {b}
    BY <1>2, <1>3
  <2>2. (CHOOSE p \in next : TRUE) = b
    BY <2>1
  <2>3. ~Precedes(b, b)
    BY SizeAssumption DEF Precedes, Places, Ports
  <2> QED
    BY <1>1, <1>3, <2>1, <2>2, <2>3
<1>4. CASE /\ b \notin CountProbes
           /\ \A p \in CountProbes : Precedes(p, b)
  <2>1. \A p \in CountProbes : ~Precedes(b, p)
    BY <1>4, ProbesType, SizeAssumption DEF Precedes, Places, Ports, Stages
  <2>2. next = {}
    BY <1>2, <1>4, <2>1 DEF next
  <2> QED
    BY <1>1, <1>4, <2>2
<1> QED
  BY <1>3, <1>4

(* A script that fails names the stage that BlamesTheCulprit says.         *)
LEMMA ScriptBlames ==
    ASSUME TInv, Attribution,
           NEW where \in {"statement", "count", "rejected", "mark"},
           ScriptFails(where)
    PROVE  BlamesTheCulprit
<1>1. /\ pc = "script" /\ at \in Stages /\ TypeOK /\ Told(<<at, 1>>)
      /\ counted' = counted \o Answered(at, where) /\ blamed' = Named(counted')
      /\ where = "rejected" => at \in plan.splits
  BY DEF ScriptFails, Fails, TInv, Attribution
<1>2. CASE ~Counts
  BY <1>1, <1>2 DEF BlamesTheCulprit, Named
<1>3. CASE Counts
  <2> DEFINE S == (0 .. N) \X {1, 2}
  <2>1. /\ HasPrelude => counted # <<>>
        /\ Enumerates(CountProbes, StageCounts(counted), <<at, 1>>)
    BY <1>1, <1>3 DEF Told
  <2>2. /\ <<at, 1>> \in Places /\ <<at, 2>> \in Places /\ <<at + 1, 1>> \in Places
        /\ <<at, 1>> \in CountProbes
        /\ <<at, 2>> \in CountProbes <=> at \in plan.splits
        /\ at + 1 \in Stages => <<at + 1, 1>> \in CountProbes
    BY <1>1, SizeAssumption DEF CountProbes, Places, Ports, Stages
  <2>3. /\ CountsOf(at) \in Seq(S) /\ <<<<at, 1>>>> \in Seq(S) /\ <<>> \in Seq(S)
        /\ counted \in Seq(S)
    <3>1. <<>> \in Seq(S)
      OBVIOUS
    <3> QED
      BY <1>1, <3>1, AnsweredType DEF TypeOK
  <2>4. /\ CountsOf(at) # <<>>
        /\ at \in plan.splits => CountsOf(at) # <<<<at, 1>>>>
    BY <1>3 DEF CountsOf
  <2> HIDE DEF S
  <2>5. \A s, t \in Seq(S) : counted \o s = counted \o t => s = t
    BY <2>3, ConcatSimplifications
  <2>6. CASE where \in {"statement", "count"}
    <3>1. Answered(at, where) = <<>>
      BY <2>6 DEF Answered
    <3>2. counted' = counted /\ counted' # counted \o CountsOf(at)
      BY <1>1, <2>3, <2>4, <2>5, <3>1, ConcatEmptySeq
    <3>3. blamed' = at
      BY <1>1, <1>3, <2>1, <2>2, <3>2, NamesNext
    <3> QED
      BY <1>1, <1>3, <3>2, <3>3, SizeAssumption DEF BlamesTheCulprit
  <2>7. CASE where = "rejected"
    <3>1. Answered(at, where) = <<<<at, 1>>>>
      BY <2>7 DEF Answered
    <3>2. counted' = counted \o <<<<at, 1>>>> /\ counted' # counted \o CountsOf(at)
      BY <1>1, <2>3, <2>4, <2>5, <2>7, <3>1
    <3>3. /\ HasPrelude => counted' # <<>>
          /\ StageCounts(counted') = StageCounts(counted) \o <<<<at, 1>>>>
      BY <1>1, <2>1, <2>3, <3>2, CountsSetAside DEF S
    <3>4. \A p \in CountProbes :
            Precedes(p, <<at, 2>>) <=> Precedes(p, <<at, 1>>) \/ p = <<at, 1>>
      BY <1>1, ProbesType, SizeAssumption DEF Precedes, Stages, Ports
    <3>5. Enumerates(CountProbes, StageCounts(counted'), <<at, 2>>)
      BY <2>1, <2>2, <3>3, <3>4, ProbesType, EnumeratesNext
    <3>6. blamed' = at
      BY <1>1, <1>3, <2>2, <2>7, <3>3, <3>5, NamesNext
    <3> QED
      BY <1>1, <1>3, <3>2, <3>6, SizeAssumption DEF BlamesTheCulprit
  <2>8. CASE where = "mark"
    <3>1. Answered(at, where) = CountsOf(at)
      BY <2>8 DEF Answered
    <3>2. counted' = counted \o CountsOf(at)
      BY <1>1, <3>1
    <3>3. /\ HasPrelude => counted' # <<>>
          /\ Enumerates(CountProbes, StageCounts(counted'), <<at + 1, 1>>)
      BY <1>1, <1>3, <2>1, <2>3, <3>2, CountsSetAside, CountsAdvance DEF S
    <3>4. CASE at + 1 \in Stages
      BY <1>1, <1>3, <2>2, <3>2, <3>3, <3>4, NamesNext DEF BlamesTheCulprit
    <3>5. CASE at + 1 \notin Stages
      <4>1. \A p \in CountProbes : Precedes(p, <<at + 1, 1>>)
        BY <1>1, <3>5, ProbesType, SizeAssumption DEF Precedes, Stages, Ports
      <4>2. blamed' = 0
        BY <1>1, <1>3, <2>2, <3>3, <4>1, NamesNext
      <4> QED
        BY <1>1, <1>3, <3>2, <3>5, <4>2 DEF BlamesTheCulprit
    <3> QED
      BY <3>4, <3>5
  <2> QED
    BY <2>6, <2>7, <2>8
<1> QED
  BY <1>2, <1>3

(* Every step that fails names the stage that BlamesTheCulprit says.       *)
LEMMA StepBlames == TInv /\ Attribution /\ [Next]_vars => [BlamesTheCulprit]_vars
<1> SUFFICES ASSUME TInv, Attribution, [Next]_vars, vars' # vars, pc' = "failed",
                    pc = "script" \/ (pc = "sources" /\ Through(Of(NativeSourceKinds)))
             PROVE  BlamesTheCulprit
  BY DEF BlamesTheCulprit
<1>1. ASSUME NEW where \in {"statement", "count", "rejected", "mark"},
             ScriptFails(where)
      PROVE  BlamesTheCulprit
  BY <1>1, ScriptBlames
<1>2. CASE PreludeFails
  <2>1. pc = "sources" /\ plan.extended /\ blamed' = Named(counted) /\ counted = <<>>
    BY <1>2 DEF PreludeFails, Fails, Attribution
  <2>2. Named(counted) = 0
    BY <2>1 DEF Named, HasPrelude
  <2> QED
    BY <2>1, <2>2 DEF BlamesTheCulprit
<1>3. ASSUME NEW ok \in BOOLEAN, Open(ok) PROVE BlamesTheCulprit
  <2>1. pc = "sources" /\ (pc' = "failed" => blamed' = 0)
    BY <1>3 DEF Open, Fails
  <2> QED
    BY <2>1 DEF BlamesTheCulprit
<1>4. ASSUME NEW i \in Stages, NEW how \in {"read", "unread", "unflushed"},
             StageSource(i, how)
      PROVE  FALSE
  <2>1. pc = "sources" /\ i \in Of(NativeSourceKinds) /\ i >= at /\ at \in Int
    BY <1>4, SizeAssumption DEF StageSource, Comes, TInv, TypeOK
  <2> QED
    BY <2>1, SizeAssumption DEF Through, Stages
<1>5. pc \notin {"prepare", "stage", "attempt", "deliver", "settle", "failed"}
  OBVIOUS
<1> QED
  BY <1>1, <1>2, <1>3, <1>4, <1>5
     DEF Next, Step, Source, Script, Drive, End, Begin, Prepare, ScriptStage,
     ScriptEnds, SkipUnusable, SkipUntaken, Act, Attempt, Reaches, LoseSession,
     StagesEnd, Deliver, Delivered, AllDelivered, Settle, Report, Crash

(* For every plan, whatever it loads, splits and reads incrementally: each *)
(* count that one script's report puts to a stage and port, and each       *)
(* watermark that is saved for a source, is what that stage's own probe    *)
(* printed; and a failure is put to the stage whose statement or count     *)
(* failed, to none for the prelude, and to the stage behind where it is a  *)
(* watermark that cannot be read.                                          *)
THEOREM CountsTellWhoseTheorem == Spec => CountsTellWhose
<1>1. Init => Attribution
  BY DEF Init, Attribution
<1>2. TInv /\ Attribution => ReportsItsOwn
  <2> SUFFICES ASSUME TInv, Attribution, pc = "reported", ~Driven
               PROVE  /\ Counts => \A p \in CountProbes :
                           PairedWith(CountProbes, StageCounts(counted), p) = p
                      /\ \A p \in WatermarkProbes :
                           PairedWith(WatermarkProbes, marks, p) = p
    BY DEF ReportsItsOwn
  <2>1. Told(<<N + 1, 1>>)
    BY DEF Attribution
  <2>2. \A p \in CountProbes \cup WatermarkProbes : Precedes(p, <<N + 1, 1>>)
    BY ProbesType, SizeAssumption DEF Precedes, Stages, Ports
  <2> QED
    BY <2>1, <2>2 DEF Told, Enumerates
<1>3. TInv /\ Attribution /\ [Next]_vars => [ReportsItsOwn' /\ BlamesTheCulprit]_vars
  <2>1. (TInv /\ Attribution => ReportsItsOwn)'
    BY <1>2, PTL
  <2> QED
    BY <2>1, TInvStep, AttributionStep, StepBlames
<1> QED
  BY <1>1, <1>3, TInvInit, TInvStep, AttributionStep, PTL DEF Spec, CountsTellWhose
=============================================================================
