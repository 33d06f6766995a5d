-------------------------- MODULE ToolProofs -----------------------------
(***************************************************************************)
(* The tools around a run. The scheduler's loop is punctual, and so are    *)
(* its watches, for any number of schedules, any periods, any instants of  *)
(* the crons and any length of runs and sleeps; the engine cache is shared *)
(* by any number of processes, the secrets by any number of commands, the  *)
(* run history by any number of runs and pruners (HistoryInv); what a      *)
(* build leaves is read back whatever dies while it is written (BuildInv), *)
(* and what is resolved says what its text means (RefsInv).                *)
(***************************************************************************)
EXTENDS MCTools, WellFoundedInduction, FiniteSetTheorems, SequenceTheorems, TLAPS

-----------------------------------------------------------------------------
(* The arithmetic of the grids.                                            *)

(* A set of natural numbers has a least one.                               *)
LEMMA MinFacts ==
    ASSUME NEW S \in SUBSET Nat, S # {}
    PROVE  Min(S) \in S /\ \A x \in S : Min(S) <= x
<1>1. IsWellFoundedOn(OpToRel(<, Nat), Nat)
  BY NatLessThanWellFounded
<1>2. PICK x \in S : \A y \in S : ~ (<<y, x>> \in OpToRel(<, Nat))
  BY <1>1, WFMin
<1>3. \A y \in S : ~ (y < x)
  BY <1>2 DEF OpToRel
<1>4. \A y \in S : x <= y
  BY <1>3
<1> QED
  BY <1>4 DEF Min

(* A whole number of steps within one step is none.                        *)
LEMMA NoStep ==
    ASSUME NEW s \in Nat \ {0}, NEW z \in Int, -s < s * z, s * z < s
    PROVE  z = 0
OBVIOUS

(* Whole steps do not leave the grid.                                      *)
LEMMA StepsStayOnGrid ==
    ASSUME NEW a \in Nat, NEW k \in Nat, NEW s \in Nat \ {0}
    PROVE  (a + k * s) % s = a % s
<1> DEFINE b == a + k * s
           p == a \div s
           q == b \div s
           z == q - p - k
<1>0. /\ b \in Nat /\ p \in Int /\ q \in Int /\ z \in Int
      /\ a % s \in Int /\ b % s \in Int
  OBVIOUS
<1>1. a = s * p + (a % s) /\ 0 <= a % s /\ a % s < s
  OBVIOUS
<1>2. b = s * q + (b % s) /\ 0 <= b % s /\ b % s < s
  BY <1>0
<1>3. s * z = s * q - s * p - s * k
  BY <1>0
<1>4. s * z = (a % s) - (b % s)
  <2>1. b = a + s * k
    OBVIOUS
  <2> DEFINE u == s * p
             v == s * q
             w == s * k
             y == s * z
  <2>2. u \in Int /\ v \in Int /\ w \in Int /\ y \in Int
    BY <1>0
  <2>3. a = u + (a % s) /\ b = v + (b % s) /\ b = a + w /\ y = v - u - w
    BY <1>1, <1>2, <1>3, <2>1
  <2> HIDE DEF b, u, v, w, y
  <2>4. y = (a % s) - (b % s)
    BY <1>0, <2>2, <2>3
  <2> QED
    BY <2>4 DEF y
<1> HIDE DEF b, p, q, z
<1>5. z = 0
  BY <1>0, <1>1, <1>2, <1>4, NoStep
<1>6. b % s = a % s
  BY <1>0, <1>4, <1>5
<1> QED
  BY <1>6 DEF b

(* The next multiple of a step is after, and no more than a step after.    *)
LEMMA NextMultiple ==
    ASSUME NEW x \in Nat, NEW s \in Nat \ {0}
    PROVE  /\ x \div s + 1 \in Nat
           /\ (x \div s + 1) * s > x
           /\ (x \div s + 1) * s <= x + s
           /\ (x \div s + 1) * s \in Nat
OBVIOUS

(* Interval::next_after: strictly after, on the grid of its anchor, and no *)
(* more than one interval after, unless the anchor is itself ahead.        *)
LEMMA NextAfterFacts ==
    ASSUME NEW step \in Nat \ {0}, NEW anchor \in Nat, NEW after \in Nat
    PROVE  /\ NextAfter(step, anchor, after) \in Nat
           /\ NextAfter(step, anchor, after) > after
           /\ NextAfter(step, anchor, after) % step = anchor % step
           /\ anchor <= after => NextAfter(step, anchor, after) <= after + step
<1>1. CASE anchor > after
  BY <1>1 DEF NextAfter
<1>2. CASE anchor <= after
  <2> DEFINE k == (after - anchor) \div step + 1
             far == k * step
  <2>1. after - anchor \in Nat
    BY <1>2
  <2>2. /\ k \in Nat /\ far \in Nat
        /\ far > after - anchor /\ far <= after - anchor + step
    BY <2>1, NextMultiple
  <2>3. NextAfter(step, anchor, after) = anchor + far
    BY <1>2 DEF NextAfter
  <2>4. (anchor + far) % step = anchor % step
    <3> HIDE DEF k
    <3> QED
      BY <2>2, StepsStayOnGrid
  <2> HIDE DEF k, far
  <2> QED
    BY <1>2, <2>2, <2>3, <2>4
<1> QED
  BY <1>1, <1>2

(* Cron::next_after: never, or strictly after.                             *)
LEMMA CronFacts ==
    ASSUME NEW after \in Nat
    PROVE  \/ CronNextAfter(after) = Never
           \/ CronNextAfter(after) \in Nat /\ CronNextAfter(after) > after
<1> DEFINE later == {t \in Matches : t > after}
<1>1. later \in SUBSET Nat
  BY TriggerAssumption
<1>2. later # {} => Min(later) \in later
  BY <1>1, MinFacts
<1> QED
  BY <1>1, <1>2 DEF CronNextAfter

LEMMA MissedFacts ==
    ASSUME NEW step \in Nat \ {0}, NEW scheduled \in Nat, NEW t \in Nat
    PROVE  MissedBetween(step, scheduled, t) \in Nat
BY DEF MissedBetween

(* What the constants are.                                                 *)
LEMMA ConstantFacts ==
    /\ K \in Nat /\ MaxSleep \in Nat \ {0} /\ MaxTime \in Nat /\ MaxRunTime \in Nat
    /\ MaxTrouble \in Nat
    /\ Time \subseteq Nat /\ 0 \in Time /\ Entries \subseteq Nat \ {0}
    /\ \A e \in Entries : Period[e] \in Nat \ {0}
    /\ \A e \in Entries : Trigger[e] \in {"every", "cron", "watch"}
BY SizeAssumption, TriggerAssumption DEF Time, Entries

-----------------------------------------------------------------------------
(* Types, part by part.                                                    *)

LoopTypes ==
    /\ now \in Time
    /\ jumps \in 0 .. MaxTrouble
    /\ starts \in 0 .. MaxTrouble
    /\ phase \in {"down", "top", "pass", "running", "asleep", "ended"}
    /\ due \in SUBSET Entries
    /\ current \in 0 .. K
    /\ started \in Time
    /\ wasDue \in Nat
    /\ until \in Nat
    /\ idleSince \in Time
    /\ phase = "running" <=> current # 0

TableTypes ==
    /\ next \in [Entries -> Nat \cup {Never}]
    /\ poll \in [Entries -> Nat]
    /\ history \in [Entries -> Time \cup {Never}]
    /\ lastDue \in [Entries -> Nat \cup {Never}]
    /\ lastEnd \in [Entries -> Time]
    /\ missed \in [Entries -> Nat]
    /\ grid \in [Entries -> Nat]

PathTypes ==
    /\ seen \in [Entries -> Time]
    /\ written \in [Entries -> Time]
    /\ landed \in [Entries -> Time \cup {Never}]

FlagTypes ==
    /\ baseline \in [Entries -> BOOLEAN]
    /\ unsettled \in [Entries -> BOOLEAN]
    /\ copying \in [Entries -> BOOLEAN]

Types == LoopTypes /\ TableTypes /\ PathTypes /\ FlagTypes

(* The first of what is due is a schedule.                                 *)
LEMMA FirstDue ==
    ASSUME LoopTypes, due # {}
    PROVE  Min(due) \in due /\ Min(due) \in Entries
BY MinFacts, ConstantFacts DEF LoopTypes

(* The earliest of the times to wake at.                                   *)
LEMMA WakeFacts ==
    ASSUME TableTypes, WakeAts # {}
    PROVE  /\ Min(WakeAts) \in Nat
           /\ \A e \in Entries : next[e] # Never => Min(WakeAts) <= next[e]
           /\ \A e \in On("watch") : Min(WakeAts) <= poll[e]
<1>1. WakeAts \in SUBSET Nat
  BY DEF WakeAts, TableTypes, On
<1>2. Min(WakeAts) \in WakeAts /\ \A x \in WakeAts : Min(WakeAts) <= x
  BY <1>1, MinFacts
<1>3. \A e \in Entries : next[e] # Never => next[e] \in WakeAts
  BY DEF WakeAts
<1>4. \A e \in On("watch") : poll[e] \in WakeAts
  BY DEF WakeAts
<1> QED
  BY <1>1, <1>2, <1>3, <1>4

(* A sleep ends when, or before, something needs attention.                *)
LEMMA SleepFacts ==
    ASSUME LoopTypes, TableTypes, EndPass, phase' = "asleep"
    PROVE  /\ until' \in Nat /\ now <= until'
           /\ \A e \in Entries : next[e] # Never => until' <= next[e]
           /\ \A e \in On("watch") : until' <= poll[e]
<1>1. /\ WakeAts # {} /\ ~(Min(WakeAts) <= now)
      /\ until' = Min({Min(WakeAts), now + MaxSleep})
  BY DEF EndPass
<1>2. Min(WakeAts) \in Nat /\ now \in Nat /\ now + MaxSleep \in Nat
      /\ now <= now + MaxSleep
  BY <1>1, WakeFacts, ConstantFacts DEF LoopTypes
<1>3. /\ until' \in {Min(WakeAts), now + MaxSleep}
      /\ until' <= Min(WakeAts)
  BY <1>1, <1>2, MinFacts
<1>4. /\ \A e \in Entries : next[e] # Never => Min(WakeAts) <= next[e]
      /\ \A e \in On("watch") : Min(WakeAts) <= poll[e]
      /\ \A e \in Entries : next[e] # Never => next[e] \in Nat
      /\ \A e \in On("watch") : poll[e] \in Nat
  BY <1>1, WakeFacts DEF TableTypes, On
<1>5. until' \in Nat /\ now <= until'
  BY <1>1, <1>2, <1>3
<1> QED
  BY <1>2, <1>3, <1>4, <1>5

(* What is first due after a start, and next due after a run.              *)
LEMMA FirstFacts ==
    ASSUME LoopTypes, TableTypes, NEW e \in Entries
    PROVE  /\ First(e) \in Nat \cup {Never}
           /\ Trigger[e] = "watch" => First(e) = Never
           /\ Trigger[e] = "cron" => First(e) = Never \/ First(e) > now
           /\ Trigger[e] = "every" =>
                First(e) = (IF history[e] = Never THEN now ELSE history[e]) + Period[e]
<1>1. now \in Nat /\ Period[e] \in Nat \ {0} /\ history[e] \in Nat \cup {Never}
  BY ConstantFacts DEF LoopTypes, TableTypes
<1>2. Trigger[e] \in {"every", "cron", "watch"}
  BY ConstantFacts
<1>3. CASE Trigger[e] = "every"
  BY <1>1, <1>3 DEF First
<1>4. CASE Trigger[e] = "cron"
  BY <1>1, <1>4, CronFacts DEF First
<1>5. CASE Trigger[e] = "watch"
  BY <1>5 DEF First
<1> QED
  BY <1>2, <1>3, <1>4, <1>5

LEMMA AdvanceFacts ==
    ASSUME LoopTypes, NEW e \in Entries
    PROVE  /\ Advance(e) \in Nat \cup {Never}
           /\ Trigger[e] = "watch" => Advance(e) = Never
           /\ Trigger[e] # "watch" => Advance(e) = Never \/ Advance(e) > now
           /\ Trigger[e] = "every" =>
                /\ Advance(e) \in Nat
                /\ Advance(e) % Period[e] = wasDue % Period[e]
                /\ wasDue <= now => Advance(e) <= now + Period[e]
<1>1. now \in Nat /\ Period[e] \in Nat \ {0} /\ wasDue \in Nat
  BY ConstantFacts DEF LoopTypes
<1>2. Trigger[e] \in {"every", "cron", "watch"}
  BY ConstantFacts
<1>3. CASE Trigger[e] = "every"
  BY <1>1, <1>3, NextAfterFacts DEF Advance
<1>4. CASE Trigger[e] = "cron"
  BY <1>1, <1>4, CronFacts DEF Advance
<1>5. CASE Trigger[e] = "watch"
  BY <1>5 DEF Advance
<1> QED
  BY <1>2, <1>3, <1>4, <1>5

LEMMA LoopTypesStep == LoopTypes /\ TableTypes /\ [Next]_vars => LoopTypes'
<1> SUFFICES ASSUME LoopTypes, TableTypes, [Next]_vars PROVE LoopTypes'
  OBVIOUS
<1> USE DEF LoopTypes
<1>1. CASE Start
  BY <1>1, ConstantFacts DEF Start, Fresh, runVars
<1>2. CASE Look
  BY <1>2 DEF Look, Settled, Polled, On, runVars, recordVars
<1>3. CASE RunNext
  <2>1. Min(due) \in Entries
    BY <1>3, FirstDue DEF RunNext
  <2>2. next[Min(due)] \in Nat \cup {Never} /\ now \in Nat
    BY <2>1, ConstantFacts DEF TableTypes
  <2>3. Min(due) \in 0 .. K /\ Min(due) # 0
    BY <2>1, ConstantFacts DEF Entries
  <2> QED
    BY <1>3, <2>2, <2>3 DEF RunNext, recordVars
<1>4. CASE Finish
  BY <1>4, ConstantFacts DEF Finish, NotRunning
<1>5. CASE EndPass
  <2>1. until' \in Nat
    <3>1. CASE phase' = "asleep"
      BY <1>5, <3>1, SleepFacts
    <3>2. CASE phase' # "asleep"
      BY <1>5, <3>2 DEF EndPass
    <3> QED
      BY <3>1, <3>2
  <2> QED
    BY <1>5, <2>1 DEF EndPass, runVars, recordVars
<1>6. CASE Wake
  BY <1>6 DEF Wake, runVars, recordVars
<1>7. CASE Stop
  BY <1>7, ConstantFacts DEF Stop, NotRunning, Fresh, recordVars
<1>8. ASSUME NEW writes, NEW ends, Tick(writes, ends) PROVE LoopTypes'
  BY <1>8, ConstantFacts DEF Tick, loopVars, runVars, recordVars, Time
<1>9. ASSUME NEW t \in Time, SetBack(t) PROVE LoopTypes'
  BY <1>9, ConstantFacts DEF SetBack, loopVars, runVars, recordVars
<1>10. CASE Over \/ UNCHANGED vars
  BY <1>10 DEF Over, vars, loopVars, runVars, recordVars
<1> QED
  BY <1>1, <1>2, <1>3, <1>4, <1>5, <1>6, <1>7, <1>8, <1>9, <1>10 DEF Next, World, Loop

LEMMA TableTypesStep == LoopTypes /\ TableTypes /\ [Next]_vars => TableTypes'
<1> SUFFICES ASSUME LoopTypes, TableTypes, [Next]_vars PROVE TableTypes'
  OBVIOUS
<1>1. CASE Start
  <2>1. \A e \in Entries : First(e) \in Nat \cup {Never} /\ First(e) % Period[e] \in Nat
    <3> SUFFICES ASSUME NEW e \in Entries
                 PROVE  First(e) \in Nat \cup {Never} /\ First(e) % Period[e] \in Nat
      OBVIOUS
    <3>1. First(e) \in Nat \cup {Never} /\ Period[e] \in Nat \ {0}
      BY FirstFacts, ConstantFacts
    <3>2. First(e) \in Int
      BY <3>1 DEF Never
    <3> QED
      BY <3>1, <3>2
  <2>2. now \in Nat
    BY ConstantFacts DEF LoopTypes
  <2> QED
    BY <1>1, <2>1, <2>2 DEF Start, Fresh, All, TableTypes
<1>2. CASE Look
  <2>1. \A e \in Entries : now + Period[e] \in Nat
    BY ConstantFacts DEF LoopTypes
  <2> QED
    BY <1>2, <2>1 DEF Look, recordVars, TableTypes
<1>3. CASE Finish
  <2>1. /\ current \in Entries /\ started \in Nat /\ now \in Nat
    BY <1>3, ConstantFacts DEF Finish, LoopTypes, Entries
  <2>2. Advance(current) \in Nat \cup {Never}
    BY <2>1, AdvanceFacts
  <2>3. Missed(current) \in Nat
    BY <2>1, ConstantFacts, MissedFacts DEF Missed
  <2> QED
    BY <1>3, <2>1, <2>2, <2>3 DEF Finish, watchVars, TableTypes, LoopTypes
<1>4. CASE Stop
  BY <1>4 DEF Stop, Fresh, All, recordVars, TableTypes
<1>5. CASE \/ RunNext \/ EndPass \/ Wake \/ Over \/ UNCHANGED vars \/ World
  <2>1. UNCHANGED <<next, poll, recordVars>>
    BY <1>5 DEF RunNext, EndPass, Wake, Over, World, Tick, SetBack, vars, loopVars,
       watchVars
  <2> QED
    BY <2>1 DEF TableTypes, recordVars
<1> QED
  BY <1>1, <1>2, <1>3, <1>4, <1>5 DEF Next, Loop

LEMMA PathTypesStep == LoopTypes /\ PathTypes /\ [Next]_vars => PathTypes'
<1> SUFFICES ASSUME LoopTypes, PathTypes, [Next]_vars PROVE PathTypes'
  OBVIOUS
<1>1. CASE Start \/ Stop
  BY <1>1, ConstantFacts DEF Start, Stop, Fresh, All, PathTypes
<1>2. CASE Look
  BY <1>2 DEF Look, worldVars, PathTypes
<1>3. CASE RunNext
  BY <1>3 DEF RunNext, watchVars, PathTypes
<1>4. ASSUME NEW writes, NEW ends, Tick(writes, ends) PROVE PathTypes'
  <2>1. now + 1 \in Time
    BY <1>4, ConstantFacts DEF Tick, LoopTypes, Time
  <2> QED
    BY <1>4, <2>1 DEF Tick, watchVars, PathTypes
<1>5. CASE \/ Finish \/ EndPass \/ Wake \/ Over \/ UNCHANGED vars
           \/ \E t \in Time : SetBack(t)
  BY <1>5 DEF Finish, EndPass, Wake, Over, SetBack, vars, watchVars, worldVars, PathTypes
<1> QED
  BY <1>1, <1>2, <1>3, <1>4, <1>5 DEF Next, World, Loop

LEMMA FlagTypesStep == FlagTypes /\ [Next]_vars => FlagTypes'
<1> SUFFICES ASSUME FlagTypes, [Next]_vars PROVE FlagTypes'
  OBVIOUS
<1>1. CASE Start \/ Stop
  BY <1>1, Zenon DEF Start, Stop, Fresh, All, FlagTypes
<1>2. CASE Look
  <2>1. /\ baseline' = [e \in Entries |-> baseline[e] \/ e \in Polled]
        /\ unsettled' = [e \in Entries |->
                           e \in Moved \/ (e \notin Settled /\ unsettled[e])]
        /\ copying' = copying
    BY <1>2, Zenon DEF Look, NoteUnsettled, worldVars
  <2>2. /\ \A e \in Entries : (baseline[e] \/ e \in Polled) \in BOOLEAN
        /\ \A e \in Entries :
              (e \in Moved \/ (e \notin Settled /\ unsettled[e])) \in BOOLEAN
    BY Zenon
  <2> QED
    BY <2>1, <2>2, Zenon DEF FlagTypes
<1>3. ASSUME NEW writes, NEW ends, Tick(writes, ends) PROVE FlagTypes'
  <2>1. /\ copying' = [e \in Entries |-> e \in writes /\ e \notin ends]
        /\ UNCHANGED <<baseline, unsettled>>
    BY <1>3 DEF Tick, watchVars
  <2>2. \A e \in Entries : (e \in writes /\ e \notin ends) \in BOOLEAN
    BY Zenon
  <2> QED
    BY <2>1, <2>2, Zenon DEF FlagTypes
<1>4. CASE \/ RunNext \/ Finish \/ EndPass \/ Wake \/ Over \/ UNCHANGED vars
           \/ \E t \in Time : SetBack(t)
  <2>1. UNCHANGED <<baseline, unsettled, copying>>
    BY <1>4 DEF RunNext, Finish, EndPass, Wake, Over, SetBack, vars, watchVars, worldVars
  <2> QED
    BY <2>1 DEF FlagTypes
<1> QED
  BY <1>1, <1>2, <1>3, <1>4 DEF Next, World, Loop

LEMMA TypesInit == Init => Types
<1> SUFFICES ASSUME Init PROVE Types
  OBVIOUS
<1>1. FlagTypes
  BY Zenon DEF Init, All, FlagTypes
<1>2. LoopTypes /\ TableTypes /\ PathTypes
  BY ConstantFacts DEF Init, All, LoopTypes, TableTypes, PathTypes
<1> QED
  BY <1>1, <1>2 DEF Types

LEMMA TypesStep == Types /\ [Next]_vars => Types'
BY LoopTypesStep, TableTypesStep, PathTypesStep, FlagTypesStep DEF Types

LEMMA TypesImply == Types => TypeOK
BY ConstantFacts DEF Types, LoopTypes, TableTypes, PathTypes, FlagTypes, TypeOK

-----------------------------------------------------------------------------
(* Punctuality.                                                            *)

(* Something is due only within a pass.  A watch has no time of its own, an *)
(* interval always has one, and what is due by the clock has one until it  *)
(* has run.                                                                *)
Shape ==
    /\ phase \notin {"pass", "running"} => due = {}
    /\ \A e \in On("watch") : next[e] = Never
    /\ phase # "down" => \A e \in On("every") : next[e] # Never
    /\ \A e \in due \ On("watch") : next[e] # Never
    /\ phase = "running" => current \notin due
    /\ phase = "running" /\ Trigger[current] # "watch" =>
          next[current] # Never /\ wasDue = next[current]

(* As long as nobody has set the clock back: what was last due was due     *)
(* before it started, which was before it ended, which is past; what is    *)
(* next due is due later than that, and an interval no more than one       *)
(* interval after the end.                                                 *)
InOrder ==
    Steady =>
        /\ \A e \in Entries : /\ lastDue[e] <= history[e]
                              /\ history[e] <= lastEnd[e]
                              /\ lastEnd[e] <= now
        /\ \A e \in due \ On("watch") : next[e] <= now
        /\ phase = "running" => wasDue <= started /\ started <= now
        /\ phase # "down" => \A e \in Entries : next[e] # Never => next[e] > lastDue[e]
        /\ phase # "down" => \A e \in On("every") :
              history[e] # Never => next[e] <= lastEnd[e] + Period[e]

(* A sleep ends before anything is due.                                    *)
SleepIsShort ==
    phase = "asleep" =>
        /\ now <= until
        /\ \A e \in Entries : next[e] # Never => until <= next[e]
        /\ \A e \in On("watch") : until <= poll[e]

PInv == Types /\ Shape /\ OnGrid /\ InOrder /\ SleepIsShort

LEMMA ShapeStep == Types /\ Shape /\ [Next]_vars => Shape'
<1> SUFFICES ASSUME Types, Shape, [Next]_vars PROVE Shape'
  OBVIOUS
<1>t. LoopTypes /\ TableTypes
  BY DEF Types
<1>1. CASE Start
  <2>1. /\ due' = {} /\ phase' = "top"
        /\ \A e \in Entries : next'[e] = First(e)
    BY <1>1 DEF Start, Fresh
  <2>2. /\ \A e \in On("watch") : First(e) = Never
        /\ \A e \in On("every") : First(e) # Never
    <3>1. \A e \in Entries : history[e] \in Nat \cup {Never} /\ now \in Nat
                             /\ Period[e] \in Nat \ {0}
      BY <1>t, ConstantFacts DEF LoopTypes, TableTypes
    <3> QED
      BY <1>t, <3>1, FirstFacts DEF On, Never
  <2> QED
    BY <2>1, <2>2 DEF Shape, On
<1>2. CASE Look
  <2>1. /\ phase' = "pass" /\ next' = next /\ phase # "down"
        /\ due' = Settled \cup {e \in Entries : next[e] # Never /\ next[e] <= now}
    BY <1>2 DEF Look
  <2>2. Settled \subseteq On("watch")
    BY DEF Settled, Polled
  <2> QED
    BY <2>1, <2>2 DEF Shape
<1>3. CASE RunNext
  <2>1. Min(due) \in due
    BY <1>3, <1>t, FirstDue DEF RunNext
  <2>2. /\ phase' = "running" /\ phase = "pass" /\ next' = next /\ due' = due \ {Min(due)}
        /\ current' = Min(due)
        /\ wasDue' = IF next[Min(due)] = Never THEN now ELSE next[Min(due)]
    BY <1>3 DEF RunNext
  <2>3. Trigger[Min(due)] # "watch" => Min(due) \in due \ On("watch")
    BY <2>1 DEF On
  <2> QED
    BY <2>2, <2>3 DEF Shape
<1>4. CASE Finish
  <2>1. current \in Entries
    BY <1>4, <1>t DEF Finish, LoopTypes, Entries
  <2>2. /\ phase' = "pass" /\ phase = "running" /\ due' = due
        /\ \A e \in Entries : next'[e] = IF e = current THEN Advance(current) ELSE next[e]
    BY <1>4, <1>t DEF Finish, TableTypes
  <2>3. /\ Trigger[current] = "watch" => Advance(current) = Never
        /\ Trigger[current] = "every" => Advance(current) \in Nat
    BY <1>t, <2>1, AdvanceFacts
  <2>4. current \notin due
    BY <2>2 DEF Shape
  <2>5. \A e \in due' \ On("watch") : next'[e] # Never
    <3> SUFFICES ASSUME NEW e \in due \ On("watch") PROVE next'[e] # Never
      BY <2>2
    <3>1. e \in Entries
      BY <1>t DEF LoopTypes
    <3> QED
      BY <2>2, <2>4, <3>1 DEF Shape
  <2> QED
    BY <2>2, <2>3, <2>5 DEF Shape, On, Never
<1>5. CASE Stop
  BY <1>5 DEF Stop, Fresh, All, Shape, On
<1>6. CASE EndPass \/ Wake \/ World \/ Over \/ UNCHANGED vars
  <2>1. /\ UNCHANGED <<next, due, current, wasDue>>
        /\ phase' = phase \/ (phase \in {"pass", "asleep"} /\ due = {}
                              /\ phase' \in {"top", "ended", "asleep"})
    BY <1>6 DEF EndPass, Wake, World, Tick, SetBack, Over, vars, loopVars, runVars, Shape
  <2> QED
    BY <2>1 DEF Shape
<1> QED
  BY <1>1, <1>2, <1>3, <1>4, <1>5, <1>6 DEF Next, Loop

LEMMA OnGridStep == Types /\ Shape /\ OnGrid /\ [Next]_vars => OnGrid'
<1> SUFFICES ASSUME Types, Shape, OnGrid, [Next]_vars, phase' # "down",
                    NEW e \in On("every")
             PROVE  next'[e] % Period[e] = grid'[e]
  BY DEF OnGrid
<1>t. LoopTypes /\ TableTypes /\ e \in Entries
  BY DEF Types, On
<1>1. CASE Start
  BY <1>1, <1>t DEF Start
<1>2. CASE Finish
  <2>1. /\ current \in Entries /\ phase = "running" /\ grid' = grid
        /\ next'[e] = IF e = current THEN Advance(e) ELSE next[e]
    BY <1>2, <1>t DEF Finish, LoopTypes, TableTypes, Entries
  <2>2. CASE e = current
    <3>1. Trigger[e] = "every"
      BY DEF On
    <3>2. wasDue = next[e]
      BY <2>1, <2>2, <3>1 DEF Shape
    <3>3. Advance(e) % Period[e] = next[e] % Period[e]
      BY <1>t, <3>1, <3>2, AdvanceFacts
    <3> QED
      BY <2>1, <2>2, <3>3 DEF OnGrid
  <2>3. CASE e # current
    BY <2>1, <2>3 DEF OnGrid
  <2> QED
    BY <2>2, <2>3
<1>3. CASE Look \/ RunNext \/ EndPass \/ Wake \/ World \/ Over \/ UNCHANGED vars
  <2>1. UNCHANGED <<next, grid>> /\ phase # "down"
    BY <1>3 DEF Look, RunNext, EndPass, Wake, World, Tick, SetBack, Over, vars, loopVars,
       recordVars
  <2> QED
    BY <2>1 DEF OnGrid
<1> QED
  BY <1>1, <1>2, <1>3 DEF Next, Loop, Stop

LEMMA InOrderStep == Types /\ Shape /\ InOrder /\ [Next]_vars => InOrder'
<1> SUFFICES ASSUME Types, Shape, InOrder, [Next]_vars, Steady' PROVE InOrder'
  BY DEF InOrder
<1>s. Steady /\ jumps' = jumps
  <2>1. jumps' = jumps \/ jumps' = jumps + 1
    BY DEF Next, World, Loop, Over, Start, Look, RunNext, Finish, EndPass, Wake, Stop,
       Tick, SetBack, vars
  <2> QED
    BY <2>1 DEF Steady, Types, LoopTypes
<1>t. LoopTypes /\ TableTypes
  BY DEF Types
<1>n. /\ now \in Nat /\ started \in Nat /\ wasDue \in Nat /\ current \in 0 .. K
      /\ \A e \in Entries :
            /\ Period[e] \in Nat \ {0}
            /\ next[e] \in Nat \cup {Never}
            /\ lastDue[e] \in Nat \cup {Never}
            /\ history[e] \in Nat \cup {Never}
            /\ lastEnd[e] \in Nat
      /\ due \subseteq Entries
  BY <1>t, ConstantFacts DEF LoopTypes, TableTypes
<1>i. /\ \A e \in Entries : /\ lastDue[e] <= history[e]
                            /\ history[e] <= lastEnd[e]
                            /\ lastEnd[e] <= now
      /\ \A e \in due \ On("watch") : next[e] <= now
      /\ phase = "running" => wasDue <= started /\ started <= now
      /\ phase # "down" => \A e \in Entries : next[e] # Never => next[e] > lastDue[e]
      /\ phase # "down" => \A e \in On("every") :
            history[e] # Never => next[e] <= lastEnd[e] + Period[e]
  BY <1>s DEF InOrder
<1>1. CASE Start
  <2>1. /\ due' = {} /\ phase' = "top" /\ UNCHANGED <<now, lastDue, history, lastEnd>>
        /\ \A e \in Entries : next'[e] = First(e)
    BY <1>1 DEF Start, Fresh
  <2>2. \A e \in Entries : First(e) # Never => First(e) > lastDue[e]
    <3> SUFFICES ASSUME NEW e \in Entries, First(e) # Never PROVE First(e) > lastDue[e]
      OBVIOUS
    <3>1. Trigger[e] \in {"every", "cron", "watch"}
      BY ConstantFacts
    <3>2. CASE Trigger[e] = "every"
      BY <1>n, <1>i, <1>t, <3>2, FirstFacts DEF Never
    <3>3. CASE Trigger[e] = "cron"
      <4>1. First(e) > now /\ First(e) \in Nat
        BY <1>t, <3>3, FirstFacts
      <4>2. lastDue[e] <= now
        BY <1>n, <1>i DEF Never
      <4> QED
        BY <1>n, <4>1, <4>2 DEF Never
    <3>4. CASE Trigger[e] = "watch"
      BY <1>t, <3>4, FirstFacts
    <3> QED
      BY <3>1, <3>2, <3>3, <3>4
  <2>3. \A e \in On("every") : history[e] # Never => First(e) <= lastEnd[e] + Period[e]
    <3> SUFFICES ASSUME NEW e \in On("every"), history[e] # Never
                 PROVE  First(e) <= lastEnd[e] + Period[e]
      OBVIOUS
    <3>1. First(e) = history[e] + Period[e] /\ e \in Entries
      BY <1>t, FirstFacts DEF On
    <3> QED
      BY <1>n, <1>i, <3>1
  <2> QED
    BY <1>i, <2>1, <2>2, <2>3 DEF InOrder, On
<1>2. CASE Look
  <2>1. /\ UNCHANGED <<now, next, lastDue, history, lastEnd>> /\ phase' = "pass"
        /\ phase # "down"
        /\ due' = Settled \cup {e \in Entries : next[e] # Never /\ next[e] <= now}
    BY <1>2 DEF Look, recordVars
  <2>2. Settled \subseteq On("watch")
    BY DEF Settled, Polled
  <2> QED
    BY <1>i, <2>1, <2>2 DEF InOrder
<1>3. CASE RunNext
  <2>1. Min(due) \in due /\ Min(due) \in Entries
    BY <1>3, <1>t, FirstDue DEF RunNext
  <2>2. /\ UNCHANGED <<now, next, lastDue, history, lastEnd>> /\ phase = "pass"
        /\ due' \subseteq due /\ started' = now
        /\ wasDue' = IF next[Min(due)] = Never THEN now ELSE next[Min(due)]
    BY <1>3 DEF RunNext, recordVars
  <2>3. wasDue' <= now
    <3>1. CASE Min(due) \in On("watch")
      BY <1>n, <2>1, <2>2, <3>1 DEF Shape
    <3>2. CASE Min(due) \notin On("watch")
      BY <1>n, <1>i, <2>1, <2>2, <3>2
    <3> QED
      BY <3>1, <3>2
  <2> QED
    BY <1>n, <1>i, <2>2, <2>3 DEF InOrder
<1>4. CASE Finish
  <2>1. /\ current \in Entries /\ phase = "running" /\ phase' = "pass"
        /\ UNCHANGED <<now, due>>
        /\ \A e \in Entries :
              /\ next'[e] = IF e = current THEN Advance(current) ELSE next[e]
              /\ lastDue'[e] = IF e = current THEN wasDue ELSE lastDue[e]
              /\ history'[e] = IF e = current THEN started ELSE history[e]
              /\ lastEnd'[e] = IF e = current THEN now ELSE lastEnd[e]
    BY <1>4, <1>t DEF Finish, LoopTypes, TableTypes, Entries
  <2>2. wasDue <= started /\ started <= now /\ wasDue <= now
    BY <1>n, <1>i, <2>1
  <2>3. /\ Advance(current) # Never => Advance(current) \in Nat /\ Advance(current) > now
        /\ Trigger[current] = "every" => Advance(current) <= now + Period[current]
    BY <1>t, <2>1, <2>2, AdvanceFacts
  <2>4. current \notin due
    BY <2>1 DEF Shape
  <2>5. \A e \in Entries : next'[e] # Never => next'[e] > lastDue'[e]
    BY <1>n, <1>i, <2>1, <2>2, <2>3
  <2>6. \A e \in On("every") : history'[e] # Never => next'[e] <= lastEnd'[e] + Period[e]
    BY <1>i, <2>1, <2>3 DEF On
  <2>7. \A e \in due' \ On("watch") : next'[e] <= now'
    BY <1>n, <1>i, <2>1, <2>4
  <2>8. \A e \in Entries : /\ lastDue'[e] <= history'[e]
                           /\ history'[e] <= lastEnd'[e]
                           /\ lastEnd'[e] <= now'
    BY <1>n, <1>i, <2>1, <2>2
  <2> QED
    BY <2>1, <2>5, <2>6, <2>7, <2>8 DEF InOrder
<1>5. CASE Stop
  BY <1>5, <1>i DEF Stop, Fresh, recordVars, InOrder
<1>6. CASE EndPass \/ Wake \/ Over \/ UNCHANGED vars
  <2>1. /\ UNCHANGED <<now, next, due, started, wasDue, lastDue, history, lastEnd>>
        /\ phase' = phase \/ (phase' \in {"top", "ended", "asleep"} /\ phase # "down")
    BY <1>6 DEF EndPass, Wake, Over, vars, loopVars, runVars, recordVars
  <2> QED
    BY <1>i, <2>1 DEF InOrder
<1>7. ASSUME NEW writes, NEW ends, Tick(writes, ends) PROVE InOrder'
  <2>1. /\ now' = now + 1
        /\ UNCHANGED <<phase, next, due, started, wasDue, lastDue, history, lastEnd>>
    BY <1>7 DEF Tick, loopVars, runVars, recordVars
  <2> QED
    BY <1>n, <1>i, <2>1 DEF InOrder, Never
<1>8. ASSUME NEW t \in Time, SetBack(t) PROVE InOrder'
  BY <1>8, <1>s, <1>t DEF SetBack, LoopTypes
<1> QED
  BY <1>1, <1>2, <1>3, <1>4, <1>5, <1>6, <1>7, <1>8 DEF Next, World, Loop

LEMMA SleepIsShortStep == Types /\ SleepIsShort /\ [Next]_vars => SleepIsShort'
<1> SUFFICES ASSUME Types, SleepIsShort, [Next]_vars, phase' = "asleep"
             PROVE  SleepIsShort'
  BY DEF SleepIsShort
<1>t. LoopTypes /\ TableTypes
  BY DEF Types
<1>n. /\ now \in Nat /\ until \in Nat
      /\ \A e \in Entries : next[e] # Never => next[e] \in Nat
      /\ \A e \in On("watch") : poll[e] \in Nat
  BY <1>t, ConstantFacts DEF LoopTypes, TableTypes, On
<1>1. CASE EndPass
  BY <1>1, <1>t, SleepFacts DEF EndPass, SleepIsShort, watchVars
<1>2. ASSUME NEW writes, NEW ends, Tick(writes, ends) PROVE SleepIsShort'
  <2>1. /\ phase = "asleep" /\ now < until /\ now' = now + 1
        /\ UNCHANGED <<next, poll, until>>
    BY <1>2 DEF Tick, Elapses, loopVars, watchVars
  <2> QED
    BY <1>n, <2>1 DEF SleepIsShort
<1>3. ASSUME NEW t \in Time, SetBack(t) PROVE SleepIsShort'
  <2>1. /\ phase = "asleep" /\ t < now /\ now' = t /\ t \in Nat
        /\ UNCHANGED <<next, poll, until>>
    BY <1>3, ConstantFacts DEF SetBack, loopVars, watchVars
  <2> QED
    BY <1>n, <2>1 DEF SleepIsShort
<1>4. CASE Over \/ UNCHANGED vars
  BY <1>4 DEF Over, vars, loopVars, watchVars, SleepIsShort
<1>5. CASE Start \/ Look \/ RunNext \/ Finish \/ Wake \/ Stop
  BY <1>5 DEF Start, Look, RunNext, Finish, Wake, Stop
<1> QED
  BY <1>1, <1>2, <1>3, <1>4, <1>5 DEF Next, World, Loop

LEMMA PInit == Init => PInv
<1> SUFFICES ASSUME Init PROVE PInv
  OBVIOUS
<1>1. Shape /\ OnGrid /\ InOrder /\ SleepIsShort
  BY DEF Init, All, On, Shape, OnGrid, InOrder, SleepIsShort, Never
<1> QED
  BY <1>1, TypesInit DEF PInv

LEMMA PStep == PInv /\ [Next]_vars => PInv'
BY TypesStep, ShapeStep, OnGridStep, InOrderStep, SleepIsShortStep DEF PInv

(* The scheduler's loop is punctual: over any number of schedules, restarts *)
(* and runs of any length, a schedule fires once for an instant, an         *)
(* interval keeps its grid and its pace, and the loop never sleeps past     *)
(* something that is due (run.rs: Scheduler::new, pass, run; every.rs).     *)
THEOREM PunctualTheorem == Spec => []Punctual
<1>1. PInv => Punctual
  <2> SUFFICES ASSUME PInv PROVE Punctual
    OBVIOUS
  <2>t. /\ TypeOK /\ OnGrid /\ Shape /\ InOrder /\ SleepIsShort
        /\ LoopTypes /\ TableTypes
    BY TypesImply DEF PInv, Types
  <2>1. FiresOnce
    <3> SUFFICES ASSUME Steady, phase = "running", Trigger[current] # "watch"
                 PROVE  wasDue # lastDue[current]
      BY DEF FiresOnce
    <3>1. current \in Entries /\ wasDue = next[current] /\ next[current] # Never
      BY <2>t DEF Shape, LoopTypes, Entries
    <3>2. /\ next[current] > lastDue[current]
          /\ next[current] \in Nat /\ lastDue[current] \in Nat \cup {Never}
      BY <2>t, <3>1 DEF InOrder, TableTypes
    <3> QED
      BY <3>1, <3>2
  <2>2. KeepsPace
    BY <2>t DEF InOrder, KeepsPace
  <2>3. NoOversleep
    <3>1. /\ now \in Nat /\ until \in Nat
          /\ \A e \in Entries : next[e] # Never => next[e] \in Nat
          /\ \A e \in On("watch") : poll[e] \in Nat
      BY <2>t, ConstantFacts DEF LoopTypes, TableTypes, On
    <3> QED
      BY <2>t, <3>1 DEF SleepIsShort, NoOversleep
  <2> QED
    BY <2>t, <2>1, <2>2, <2>3 DEF Punctual
<1> QED
  BY <1>1, PInit, PStep, PTL DEF Spec

-----------------------------------------------------------------------------
(* The watches, as long as nobody has set the clock back.                  *)

(* A path was last written, and last polled, at or before now.  What a     *)
(* poll saw was written no later than that poll, one period before the     *)
(* next; and a path that is being copied into was written this second.     *)
Paths ==
    Steady =>
        /\ idleSince <= now
        /\ \A e \in Entries :
              /\ written[e] <= now /\ seen[e] <= now
              /\ copying[e] => written[e] = now /\ e \in On("watch")
              /\ baseline[e] => e \in On("watch") /\ seen[e] + Period[e] <= poll[e]
              /\ poll[e] <= now + Period[e]

(* What settled with the poll of this second is not being copied into.     *)
WholeFiles ==
    Steady /\ phase \in {"pass", "running"} =>
        \A e \in due \cup {current} :
            e \in On("watch") /\ poll[e] = now + Period[e] => ~copying[e]

(* The loop looks in the second that a run ended, or no later than a watch *)
(* is to be polled.                                                        *)
LooksInTime ==
    Steady /\ phase \in {"top", "pass"} =>
        idleSince = now \/ \A e \in On("watch") : now <= poll[e]

(* A copy that ended is due; or it has not been noticed, and is polled     *)
(* within a period; or it has been, and is polled within two.              *)
Noticed ==
    Steady =>
        \A e \in Entries : landed[e] # Never =>
            /\ baseline[e]
            /\ landed[e] = written[e]
            /\ \/ e \in due
               \/ seen[e] # written[e] /\ poll[e] <= landed[e] + Period[e]
               \/ /\ seen[e] = written[e] /\ unsettled[e]
                  /\ poll[e] <= Later(landed[e], idleSince) + 2 * Period[e]

WInv == PInv /\ Paths /\ WholeFiles /\ LooksInTime /\ Noticed

(* What the clock is compared with.                                        *)
LEMMA WatchTypes ==
    ASSUME Types
    PROVE  /\ now \in Nat /\ idleSince \in Nat
           /\ \A e \in Entries :
                 /\ Period[e] \in Nat \ {0} /\ poll[e] \in Nat
                 /\ seen[e] \in Nat /\ written[e] \in Nat
                 /\ landed[e] \in Nat \cup {Never}
           /\ On("watch") \subseteq Entries
           /\ due \subseteq Entries
           /\ phase = "running" <=> current # 0
BY ConstantFacts DEF Types, LoopTypes, TableTypes, PathTypes, On

LEMMA SteadyStays ==
    ASSUME Types, [Next]_vars, Steady'
    PROVE  Steady /\ ~(\E t \in Time : SetBack(t))
<1>1. jumps \in Nat
  BY DEF Types, LoopTypes
<1>2. jumps' = jumps \/ jumps' = jumps + 1
  BY DEF Next, World, Loop, Over, Start, Look, RunNext, Finish, EndPass, Wake, Stop,
     Tick, SetBack, vars
<1>3. ASSUME NEW t \in Time, SetBack(t) PROVE FALSE
  BY <1>1, <1>3 DEF SetBack, Steady
<1> QED
  BY <1>1, <1>2, <1>3 DEF Steady

(* What a look does with the watches.                                      *)
LEMMA LookFacts ==
    ASSUME Types, Look
    PROVE  /\ UNCHANGED <<now, idleSince, written, copying, landed, next, current>>
           /\ phase = "top" /\ phase' = "pass"
           /\ due' = Settled \cup {e \in Entries : next[e] # Never /\ next[e] <= now}
           /\ \A e \in Entries :
                 /\ e \in Polled <=> e \in On("watch") /\ now >= poll[e]
                 /\ poll'[e] = IF e \in Polled THEN now + Period[e] ELSE poll[e]
                 /\ seen'[e] = IF e \in Polled THEN written[e] ELSE seen[e]
                 /\ baseline'[e] <=> baseline[e] \/ e \in Polled
                 /\ unsettled'[e] <=> e \in Moved \/ (e \notin Settled /\ unsettled[e])
BY DEF Look, NoteUnsettled, Polled, On, worldVars, recordVars, runVars

LEMMA TickFacts ==
    ASSUME Types, NEW writes, NEW ends \in SUBSET writes, writes \subseteq On("watch"),
           Tick(writes, ends)
    PROVE  /\ now' = now + 1 /\ phase' = phase
           /\ UNCHANGED <<due, current, poll, seen, baseline, unsettled, idleSince>>
           /\ phase \notin {"top", "pass"}
           /\ \A e \in Entries :
                 /\ written'[e] = IF e \in writes THEN now + 1 ELSE written[e]
                 /\ copying'[e] <=> e \in writes /\ e \notin ends
                 /\ copying[e] => e \in writes
                 /\ landed'[e] = IF e \in ends /\ baseline[e] /\ phase # "down" THEN now + 1
                                 ELSE IF e \in writes THEN Never ELSE landed[e]
BY DEF Tick, Elapses, loopVars, runVars, watchVars, recordVars

LEMMA PathsStep == PInv /\ Paths /\ [Next]_vars => Paths'
<1> SUFFICES ASSUME PInv, Paths, [Next]_vars, Steady' PROVE Paths'
  BY DEF Paths
<1>t. Types
  BY DEF PInv
<1>s. Steady /\ ~(\E t \in Time : SetBack(t))
  BY <1>t, SteadyStays
<1>n. /\ now \in Nat /\ idleSince \in Nat
      /\ \A e \in Entries :
            /\ Period[e] \in Nat \ {0} /\ poll[e] \in Nat
            /\ seen[e] \in Nat /\ written[e] \in Nat
  BY <1>t, WatchTypes
<1>p. /\ idleSince <= now
      /\ \A e \in Entries :
            /\ written[e] <= now /\ seen[e] <= now
            /\ copying[e] => written[e] = now /\ e \in On("watch")
            /\ baseline[e] => e \in On("watch") /\ seen[e] + Period[e] <= poll[e]
            /\ poll[e] <= now + Period[e]
  BY <1>s DEF Paths
<1>1. CASE Start \/ Stop
  <2>1. /\ UNCHANGED <<now, written, copying>> /\ idleSince' \in {now, idleSince}
        /\ \A e \in Entries : seen'[e] = 0 /\ ~baseline'[e] /\ poll'[e] \in {0, now}
    BY <1>1 DEF Start, Stop, Fresh, All, recordVars
  <2> QED
    BY <1>n, <1>p, <2>1 DEF Paths
<1>2. CASE Look
  BY <1>2, <1>n, <1>p, <1>t, LookFacts DEF Paths
<1>3. CASE Finish
  BY <1>3, <1>n, <1>p DEF Finish, watchVars, worldVars, Paths
<1>4. CASE RunNext \/ EndPass \/ Wake \/ Over \/ UNCHANGED vars
  <2>1. UNCHANGED <<now, idleSince, written, seen, copying, baseline, poll>>
    BY <1>4 DEF RunNext, EndPass, Wake, Over, vars, watchVars, worldVars, recordVars
  <2> QED
    BY <1>p, <2>1 DEF Paths
<1>5. ASSUME NEW writes \in SUBSET On("watch"), NEW ends \in SUBSET writes,
             Tick(writes, ends)
      PROVE  Paths'
  BY <1>5, <1>n, <1>p, <1>t, TickFacts DEF Paths
<1> QED
  BY <1>1, <1>2, <1>3, <1>4, <1>5, <1>s DEF Next, World, Loop

LEMMA WholeFilesStep == PInv /\ Paths /\ WholeFiles /\ [Next]_vars => WholeFiles'
<1> SUFFICES ASSUME PInv, Paths, WholeFiles, [Next]_vars, Steady',
                    phase' \in {"pass", "running"}
             PROVE  WholeFiles'
  BY DEF WholeFiles
<1>t. Types /\ Shape
  BY DEF PInv
<1>s. Steady /\ ~(\E t \in Time : SetBack(t))
  BY <1>t, SteadyStays
<1>n. /\ now \in Nat
      /\ \A e \in Entries : /\ Period[e] \in Nat \ {0} /\ poll[e] \in Nat
                            /\ seen[e] \in Nat /\ written[e] \in Nat
      /\ On("watch") \subseteq Entries /\ due \subseteq Entries
      /\ phase = "running" <=> current # 0
  BY <1>t, WatchTypes
<1>1. CASE Look
  <2> SUFFICES ASSUME NEW e \in due' \cup {current'}, e \in On("watch")
               PROVE  ~copying'[e]
    BY DEF WholeFiles
  <2>0. /\ e \in Entries /\ e # 0
    BY <1>n, ConstantFacts
  <2>1. e \in Settled
    BY <1>1, <1>n, <1>t, <2>0, LookFacts DEF Shape
  <2>2. /\ baseline[e] /\ written[e] = seen[e] /\ now >= poll[e]
    BY <2>1 DEF Settled, Polled
  <2>3. seen[e] + Period[e] <= poll[e] /\ (copying[e] => written[e] = now)
    BY <1>s, <2>0, <2>2 DEF Paths
  <2>4. ~copying[e]
    BY <1>n, <2>0, <2>2, <2>3
  <2> QED
    BY <1>1, <1>t, <2>4, LookFacts
<1>2. CASE RunNext
  <2>1. Min(due) \in due
    BY <1>2, <1>t, FirstDue DEF RunNext, Types
  <2>2. /\ UNCHANGED <<now, poll, copying>> /\ phase = "pass"
        /\ due' \cup {current'} \subseteq due
    BY <1>2, <2>1 DEF RunNext, watchVars
  <2> QED
    BY <1>s, <2>2 DEF WholeFiles
<1>3. CASE Finish
  <2>1. /\ UNCHANGED <<now, poll, copying, due>> /\ phase = "running" /\ current' = 0
    BY <1>3 DEF Finish, NotRunning, watchVars, worldVars
  <2>2. 0 \notin On("watch")
    BY <1>n, ConstantFacts
  <2> QED
    BY <1>s, <2>1, <2>2 DEF WholeFiles
<1>4. ASSUME NEW writes \in SUBSET On("watch"), NEW ends \in SUBSET writes,
             Tick(writes, ends)
      PROVE  WholeFiles'
  <2>1. \A e \in Entries : poll'[e] # now' + Period[e]
    BY <1>4, <1>n, <1>t, <1>s, TickFacts DEF Paths
  <2> QED
    BY <1>n, <2>1 DEF WholeFiles
<1>5. CASE Over \/ UNCHANGED vars
  BY <1>5, <1>s DEF Over, vars, loopVars, runVars, watchVars, worldVars, WholeFiles
<1>6. CASE Start \/ EndPass \/ Wake \/ Stop
  BY <1>6 DEF Start, EndPass, Wake, Stop
<1> QED
  BY <1>1, <1>2, <1>3, <1>4, <1>5, <1>6, <1>s DEF Next, World, Loop

LEMMA LooksInTimeStep == PInv /\ LooksInTime /\ [Next]_vars => LooksInTime'
<1> SUFFICES ASSUME PInv, LooksInTime, [Next]_vars, Steady', phase' \in {"top", "pass"}
             PROVE  LooksInTime'
  BY DEF LooksInTime
<1>t. Types /\ SleepIsShort
  BY DEF PInv
<1>s. Steady /\ ~(\E t \in Time : SetBack(t))
  BY <1>t, SteadyStays
<1>n. /\ now \in Nat /\ until \in Nat
      /\ \A e \in Entries : Period[e] \in Nat \ {0} /\ poll[e] \in Nat
      /\ On("watch") \subseteq Entries
  BY <1>t, WatchTypes DEF Types, LoopTypes
<1>1. CASE Start \/ Finish
  BY <1>1 DEF Start, Finish, LooksInTime
<1>2. CASE Look
  <2>1. /\ UNCHANGED <<now, idleSince>> /\ phase = "top"
        /\ \A e \in Entries : poll'[e] \in {poll[e], now + Period[e]}
    BY <1>2, <1>t, LookFacts
  <2> QED
    BY <1>n, <1>s, <2>1 DEF LooksInTime
<1>3. CASE Wake
  <2>1. UNCHANGED <<now, idleSince, poll>> /\ phase = "asleep"
    BY <1>3 DEF Wake, watchVars, recordVars
  <2>2. \A e \in On("watch") : now <= poll[e]
    BY <1>n, <1>t, <2>1 DEF SleepIsShort
  <2> QED
    BY <2>1, <2>2 DEF LooksInTime
<1>4. CASE EndPass \/ Over \/ UNCHANGED vars
  <2>1. UNCHANGED <<now, idleSince, poll>> /\ phase \in {"top", "pass"}
    BY <1>4 DEF EndPass, Over, vars, watchVars, recordVars
  <2> QED
    BY <1>s, <2>1 DEF LooksInTime
<1>5. CASE RunNext \/ Stop
  BY <1>5 DEF RunNext, Stop
<1>6. ASSUME NEW writes \in SUBSET On("watch"), NEW ends \in SUBSET writes,
             Tick(writes, ends)
      PROVE  LooksInTime'
  BY <1>6, <1>t, TickFacts
<1> QED
  BY <1>1, <1>2, <1>3, <1>4, <1>5, <1>6, <1>s DEF Next, World, Loop

LEMMA NoticedStep ==
    PInv /\ Paths /\ LooksInTime /\ Noticed /\ [Next]_vars => Noticed'
<1> SUFFICES ASSUME PInv, Paths, LooksInTime, Noticed, [Next]_vars, Steady',
                    NEW e \in Entries, landed'[e] # Never
             PROVE  /\ baseline'[e]
                    /\ landed'[e] = written'[e]
                    /\ \/ e \in due'
                       \/ seen'[e] # written'[e] /\ poll'[e] <= landed'[e] + Period[e]
                       \/ /\ seen'[e] = written'[e] /\ unsettled'[e]
                          /\ poll'[e] <= Later(landed'[e], idleSince') + 2 * Period[e]
  BY DEF Noticed
<1> DEFINE Goal == /\ baseline'[e]
                   /\ landed'[e] = written'[e]
                   /\ \/ e \in due'
                      \/ seen'[e] # written'[e] /\ poll'[e] <= landed'[e] + Period[e]
                      \/ /\ seen'[e] = written'[e] /\ unsettled'[e]
                         /\ poll'[e] <= Later(landed'[e], idleSince') + 2 * Period[e]
<1>t. Types
  BY DEF PInv
<1>s. Steady /\ ~(\E t \in Time : SetBack(t))
  BY <1>t, SteadyStays
<1>n. /\ now \in Nat /\ idleSince \in Nat
      /\ Period[e] \in Nat \ {0} /\ poll[e] \in Nat
      /\ seen[e] \in Nat /\ written[e] \in Nat
      /\ landed[e] \in Nat \cup {Never}
  BY <1>t, WatchTypes
<1>p. /\ idleSince <= now /\ seen[e] <= now /\ poll[e] <= now + Period[e]
      /\ baseline[e] => e \in On("watch")
  BY <1>s DEF Paths
<1>i. ASSUME landed[e] # Never
      PROVE  /\ baseline[e]
             /\ landed[e] = written[e]
             /\ \/ e \in due
                \/ seen[e] # written[e] /\ poll[e] <= landed[e] + Period[e]
                \/ /\ seen[e] = written[e] /\ unsettled[e]
                   /\ poll[e] <= Later(landed[e], idleSince) + 2 * Period[e]
  BY <1>i, <1>s DEF Noticed
<1>1. CASE Start \/ Stop
  BY <1>1 DEF Start, Stop, Fresh, All
<1>2. CASE Look
  <2>1. /\ UNCHANGED <<now, idleSince, written, landed>> /\ phase = "top"
        /\ due' = Settled \cup {d \in Entries : next[d] # Never /\ next[d] <= now}
        /\ e \in Polled <=> e \in On("watch") /\ now >= poll[e]
        /\ poll'[e] = IF e \in Polled THEN now + Period[e] ELSE poll[e]
        /\ seen'[e] = IF e \in Polled THEN written[e] ELSE seen[e]
        /\ baseline'[e] <=> baseline[e] \/ e \in Polled
        /\ unsettled'[e] <=> e \in Moved \/ (e \notin Settled /\ unsettled[e])
    BY <1>2, <1>t, LookFacts
  <2>2. baseline[e] /\ landed[e] = written[e] /\ e \in On("watch") /\ e \notin due
    <3>1. e \notin due
      BY <2>1 DEF PInv, Shape
    <3> QED
      BY <1>i, <1>p, <2>1, <3>1
  <2>3. CASE e \notin Polled
    <3>1. e \notin Moved /\ e \notin Settled
      BY <2>3 DEF Moved, Settled
    <3> QED
      BY <1>i, <2>1, <2>2, <2>3, <3>1
  <2>4. CASE e \in Polled /\ seen[e] # written[e]
    <3>1. e \in Moved
      BY <2>2, <2>4 DEF Moved
    <3>2. poll[e] <= landed[e] + Period[e]
      BY <1>i, <2>1, <2>2, <2>4
    <3>3. idleSince = now \/ now <= poll[e]
      BY <1>s, <2>1, <2>2 DEF LooksInTime
    <3>4. now + Period[e] <= Later(landed[e], idleSince) + 2 * Period[e]
      BY <1>n, <2>2, <3>2, <3>3 DEF Later
    <3> QED
      BY <2>1, <2>2, <2>4, <3>1, <3>4
  <2>5. CASE e \in Polled /\ seen[e] = written[e]
    <3>1. unsettled[e]
      BY <1>i, <2>1, <2>2, <2>5
    <3>2. e \in Settled
      BY <2>2, <2>5, <3>1 DEF Settled
    <3> QED
      BY <2>1, <2>2, <3>2
  <2> QED
    BY <2>3, <2>4, <2>5
<1>3. CASE RunNext
  <2>1. Min(due) \in Entries
    BY <1>3, <1>t, FirstDue DEF RunNext, Types
  <2>2. /\ UNCHANGED <<idleSince, written, seen, baseline, unsettled, poll>>
        /\ due' = due \ {Min(due)}
        /\ landed' = [landed EXCEPT ![Min(due)] = Never]
    BY <1>3 DEF RunNext, watchVars, recordVars
  <2>3. landed'[e] = IF e = Min(due) THEN Never ELSE landed[e]
    BY <1>t, <2>2 DEF Types, PathTypes
  <2> QED
    BY <1>i, <2>2, <2>3
<1>4. CASE Finish
  <2>1. /\ UNCHANGED <<due, written, landed, seen, baseline, unsettled, poll>>
        /\ idleSince' = now
    BY <1>4 DEF Finish, watchVars, worldVars
  <2>2. landed[e] \in Nat /\ Later(landed[e], idleSince) <= Later(landed[e], now)
    BY <1>i, <1>n, <1>p, <2>1 DEF Later
  <2>3. /\ Later(landed[e], idleSince) \in Nat /\ Later(landed[e], now) \in Nat
    BY <1>n, <2>2 DEF Later
  <2> QED
    BY <1>i, <1>n, <2>1, <2>2, <2>3
<1>5. CASE EndPass \/ Wake \/ Over \/ UNCHANGED vars
  <2>1. UNCHANGED <<due, idleSince, written, landed, seen, baseline, unsettled, poll>>
    BY <1>5 DEF EndPass, Wake, Over, vars, loopVars, watchVars, worldVars, recordVars
  <2> QED
    BY <1>i, <2>1
<1>6. ASSUME NEW writes \in SUBSET On("watch"), NEW ends \in SUBSET writes,
             Tick(writes, ends)
      PROVE  Goal
  <2>1. /\ UNCHANGED <<due, poll, seen, baseline, unsettled, idleSince>>
        /\ written'[e] = IF e \in writes THEN now + 1 ELSE written[e]
        /\ landed'[e] = IF e \in ends /\ baseline[e] /\ phase # "down" THEN now + 1
                        ELSE IF e \in writes THEN Never ELSE landed[e]
    BY <1>6, <1>t, TickFacts
  <2>2. CASE e \in writes
    <3>1. landed'[e] = now + 1 /\ written'[e] = now + 1 /\ baseline[e]
      BY <2>1, <2>2
    <3> QED
      BY <1>n, <1>p, <2>1, <3>1
  <2>3. CASE e \notin writes
    BY <1>i, <2>1, <2>3
  <2> QED
    BY <2>2, <2>3
<1> QED
  BY <1>1, <1>2, <1>3, <1>4, <1>5, <1>6, <1>s DEF Next, World, Loop

LEMMA WInit == Init => WInv
<1> SUFFICES ASSUME Init PROVE WInv
  OBVIOUS
<1>1. Paths /\ WholeFiles /\ LooksInTime /\ Noticed
  <2>1. \A e \in Entries : Period[e] \in Nat
    BY ConstantFacts
  <2> QED
    BY <2>1 DEF Init, All, Paths, WholeFiles, LooksInTime, Noticed
<1> QED
  BY <1>1, PInit DEF WInv

LEMMA WStep == WInv /\ [Next]_vars => WInv'
BY PStep, PathsStep, WholeFilesStep, LooksInTimeStep, NoticedStep DEF WInv

(* Watches of any paths, polled at any periods: a copy that ended is run   *)
(* for within two polls of its end, or of the end of the run that the loop *)
(* was busy with, and a run that begins with the poll that settled never   *)
(* begins in the middle of a copy (watch.rs: WatchState::poll; run.rs).    *)
THEOREM WatchedTheorem == Spec => []Watched
<1>1. WInv => Watched
  <2> SUFFICES ASSUME WInv PROVE Watched
    OBVIOUS
  <2>t. Types /\ Shape /\ SleepIsShort /\ Paths /\ WholeFiles /\ Noticed
    BY DEF WInv, PInv
  <2>n. /\ now \in Nat /\ idleSince \in Nat
        /\ \A e \in Entries : /\ Period[e] \in Nat \ {0} /\ poll[e] \in Nat
                              /\ landed[e] \in Nat \cup {Never}
        /\ On("watch") \subseteq Entries
    BY <2>t, WatchTypes
  <2>1. WatchLatency
    <3> SUFFICES ASSUME Steady, phase = "asleep", NEW e \in On("watch"),
                        landed[e] # Never
                 PROVE  now <= Later(landed[e], idleSince) + 2 * Period[e]
      BY DEF WatchLatency
    <3>1. /\ e \in Entries /\ e \notin due /\ until \in Nat
          /\ now <= until /\ until <= poll[e]
      BY <2>t, <2>n DEF Shape, SleepIsShort, Types, LoopTypes
    <3>2. \/ poll[e] <= landed[e] + Period[e]
          \/ poll[e] <= Later(landed[e], idleSince) + 2 * Period[e]
      BY <2>t, <3>1 DEF Noticed
    <3>3. /\ landed[e] \in Nat /\ poll[e] \in Nat /\ Period[e] \in Nat
          /\ Later(landed[e], idleSince) \in Nat
          /\ landed[e] <= Later(landed[e], idleSince)
      BY <2>n, <3>1 DEF Later
    <3> QED
      BY <2>n, <3>1, <3>2, <3>3
  <2>2. NeverPartial
    <3> SUFFICES ASSUME Steady, phase = "running",
                        poll[current] = now + Period[current]
                 PROVE  ~copying[current]
      BY DEF NeverPartial
    <3>1. current \in Entries
      BY <2>t DEF Types, LoopTypes, Entries
    <3>2. current \in On("watch") => ~copying[current]
      BY <2>t DEF WholeFiles
    <3>3. current \notin On("watch") => ~copying[current]
      BY <2>t, <3>1 DEF Paths
    <3> QED
      BY <3>2, <3>3
  <2> QED
    BY <2>1, <2>2 DEF Watched
<1> QED
  BY <1>1, WInit, WStep, PTL DEF Spec

-----------------------------------------------------------------------------
(* The engine cache: what renames into place is complete, and only where   *)
(* an unmarked directory began is anything cleared.                        *)
CacheInv ==
    /\ Cache!TypeOK /\ stale \in BOOLEAN
    /\ at \in [Processes -> {"start", "unpack", "mark", "check", "clear", "rename", "using",
                          "ended", "dead"}]
    /\ \A p \in Processes : at[p] \in {"check", "clear", "rename"} => private[p] = "whole"
    /\ \A p \in Processes : at[p] \in {"start", "unpack", "mark"} => private[p] # "whole"
    /\ ~stale => root # "unmarked" /\ \A p \in Processes : at[p] # "clear"
    /\ Cache!EngineStays /\ Cache!CleansUp

LEMMA CacheStep ==
    CacheInv /\ [Cache!Next]_Cache!cacheVars => CacheInv' /\ (Cache!StaysInPlace \/ root' = root)
<1> SUFFICES ASSUME CacheInv, [Cache!Next]_Cache!cacheVars
             PROVE  CacheInv' /\ (Cache!StaysInPlace \/ root' = root)
  OBVIOUS
<1> USE ProcessAssumption DEF CacheInv, Cache!TypeOK, Cache!EngineStays, Cache!CleansUp,
        Cache!Marked, Cache!Go, Cache!Uses, Cache!StaysInPlace
<1>1. ASSUME NEW p \in Processes, Cache!Look(p) PROVE CacheInv' /\ root' = root
  BY <1>1 DEF Cache!Look
<1>2. ASSUME NEW p \in Processes, Cache!Unpack(p) PROVE CacheInv' /\ root' = root
  BY <1>2 DEF Cache!Unpack
<1>3. ASSUME NEW p \in Processes, Cache!Mark(p) PROVE CacheInv' /\ root' = root
  BY <1>3 DEF Cache!Mark, Cache!MarkWhole
<1>4. ASSUME NEW p \in Processes, Cache!UnpackFails(p) PROVE CacheInv' /\ root' = root
  BY <1>4 DEF Cache!UnpackFails
<1>5. ASSUME NEW p \in Processes, Cache!CheckPlace(p) PROVE CacheInv' /\ root' = root
  BY <1>5 DEF Cache!CheckPlace
<1>6. ASSUME NEW p \in Processes, Cache!Clear(p) PROVE CacheInv' /\ Cache!StaysInPlace
  BY <1>6 DEF Cache!Clear
<1>7. ASSUME NEW p \in Processes, Cache!Publish(p) PROVE CacheInv' /\ Cache!StaysInPlace
  BY <1>7 DEF Cache!Publish, Cache!Lands
<1>8. ASSUME NEW p \in Processes, Cache!Lose(p) PROVE CacheInv' /\ root' = root
  BY <1>8 DEF Cache!Lose, Cache!Lands, Cache!Discard
<1>9. ASSUME NEW p \in Processes, Cache!Finish(p) PROVE CacheInv' /\ root' = root
  BY <1>9 DEF Cache!Finish
<1>10. ASSUME NEW p \in Processes, Cache!Die(p) PROVE CacheInv' /\ root' = root
  BY <1>10 DEF Cache!Die
<1>11. CASE UNCHANGED Cache!cacheVars
  BY <1>11 DEF Cache!cacheVars
<1> QED
  BY <1>1, <1>2, <1>3, <1>4, <1>5, <1>6, <1>7, <1>8, <1>9, <1>10, <1>11 DEF Cache!Next

(* Any number of processes of one artifact, started and dying at any time  *)
(* (extract.rs): who runs the unpacked engine runs a complete one, that is *)
(* never replaced under it, and a process that ends in order leaves no     *)
(* private directory behind.                                               *)
THEOREM CacheSharedTheorem == ToolsSpec => CacheShared
<1> DEFINE Inv == which = "cache" => CacheInv
           Stays == which = "cache" => Cache!StaysInPlace
<1>1. ToolsInit => Inv
  <2> SUFFICES ASSUME ToolsInit, which = "cache" PROVE CacheInv
    OBVIOUS
  <2>1. Cache!Init
    BY DEF ToolsInit
  <2> QED
    BY <2>1, ProcessAssumption DEF CacheInv, Cache!Init, Cache!TypeOK, Cache!EngineStays,
       Cache!CleansUp, Cache!Marked
<1>2. Inv /\ [ToolsNext]_all => Inv' /\ [Stays]_all
  <2> SUFFICES ASSUME Inv, [ToolsNext]_all PROVE Inv' /\ [Stays]_all
    OBVIOUS
  <2>1. which' = which /\ (which = "cache" => [Cache!Next]_Cache!cacheVars)
    BY DEF ToolsNext, CommandsEnd, all, cache, Cache!cacheVars
  <2>2. root' = root => Cache!StaysInPlace
    BY DEF Cache!StaysInPlace
  <2> QED
    BY <2>1, <2>2, CacheStep
<1>3. Inv => (which = "cache" => Cache!TypeOK /\ Cache!EngineStays /\ Cache!CleansUp)
  BY DEF CacheInv
<1> QED
  BY <1>1, <1>2, <1>3, PTL DEF ToolsSpec, CacheShared

-----------------------------------------------------------------------------
(* The secrets.                                                            *)

VaultCmds ==
    cmd \in [Commands ->
               [op : {"init", "set", "remove", "get"}, name : Names,
                at : {"start", "create", "fill", "key", "open", "set", "remove", "get", "cut",
                      "write", "end"},
                key : Commands \cup {"none"}, mem : Vault!Maps,
                got : Commands \cup {"old", "-", "done", "error", "absent", "died"},
                stale : SUBSET Names]]

(* What is sealed by a key of this workspace was set under its name.       *)
WasSet(e) ==
    e.by \in Commands =>
        \E d \in Commands : e.value = d /\ cmd[d].op = "set" /\ cmd[d].name = e.name

Sealed ==
    /\ \A n \in Names : WasSet(store.map[n])
    /\ \A c \in Commands : \A n \in Names : WasSet(cmd[c].mem[n])

(* One command makes the key, and nobody has read one before.              *)
OneMakes ==
    /\ \A c \in Commands : cmd[c].at = "fill" => key = "empty"
    /\ \A c, d \in Commands : cmd[c].at = "fill" /\ cmd[d].at = "fill" => c = d
    /\ \A n \in Names : settled[n] # "-" => cmd[settled[n]].key # "none"

Holds(m, n) == m[n] = [by |-> key, name |-> n, value |-> settled[n]]

(* A command at its store has read the key, and until it writes it has in  *)
(* memory what was saved, but for what overlapped with it.                 *)
InMemory ==
    \A c \in Commands :
        /\ cmd[c].at \in {"open", "set", "remove", "get", "cut", "write"} => cmd[c].key \in Commands
        /\ cmd[c].at \in {"key", "open"} => cmd[c].op # "init"
        /\ cmd[c].at \in {"set", "remove", "get"} => cmd[c].op = cmd[c].at
        /\ cmd[c].at \in {"cut", "write"} =>
            /\ cmd[c].op \in {"set", "remove"}
            /\ cmd[c].op = "set" =>
                cmd[c].mem[cmd[c].name] = [by |-> cmd[c].key, name |-> cmd[c].name, value |-> c]
        /\ edits = 0 /\ cmd[c].at \in {"set", "remove", "cut", "write"} =>
            \A n \in Names \ (clashed \cup cmd[c].stale \cup {cmd[c].name}) :
                settled[n] # "-" => Holds(cmd[c].mem, n)

VaultInv ==
    /\ Vault!TypeOK /\ VaultCmds /\ Sealed /\ OneMakes /\ InMemory
    /\ Vault!KeyStays /\ Vault!ValueIsIts /\ Vault!SavedStays

(* A command that leaves the files alone and what others have in memory.   *)
LEMMA VaultMoves ==
    ASSUME VaultInv, NEW c \in Commands, NEW r, cmd' = [cmd EXCEPT ![c] = r],
           UNCHANGED <<store, edits, settled, clashed>>,
           VaultCmds', key' \in Commands \cup {"none", "empty"},
           r.op = cmd[c].op, r.name = cmd[c].name,
           \A n \in Names : WasSet(r.mem[n]),
           \* the key
           \/ key' = key /\ (r.at = "fill" => cmd[c].at = "fill")
           \/ key = "none" /\ key' = "empty" /\ r.at = "fill"
           \/ cmd[c].at = "fill" /\ key' = c /\ r.at # "fill",
           r.key = cmd[c].key \/ (r.key = key /\ key' = key),
           \* the command
           r.at \in {"open", "set", "remove", "get", "cut", "write"} => r.key \in Commands,
           r.at \in {"key", "open"} => r.op # "init",
           r.at \in {"set", "remove", "get"} => r.op = r.at,
           r.at \in {"cut", "write"} =>
              /\ r.op \in {"set", "remove"}
              /\ r.op = "set" => r.mem[r.name] = [by |-> r.key, name |-> r.name, value |-> c],
           edits = 0 /\ r.at \in {"set", "remove", "cut", "write"} =>
              \A n \in Names \ (clashed \cup r.stale \cup {r.name}) :
                 settled[n] # "-" => Holds(r.mem, n),
           r.op = "get" /\ r.got \in Commands \cup {"old"} =>
              \E d \in Commands : r.got = d /\ cmd[d].op = "set" /\ cmd[d].name = r.name
    PROVE  VaultInv'
<1>0. /\ cmd'[c] = r /\ \A d \in Commands : d # c => cmd'[d] = cmd[d]
      /\ \A d \in Commands : cmd'[d].op = cmd[d].op /\ cmd'[d].name = cmd[d].name
  BY DEF VaultInv, VaultCmds
<1>1. \A e : WasSet(e) => WasSet(e)'
  BY <1>0 DEF WasSet
<1>2. Sealed'
  <2>1. ASSUME NEW d \in Commands, NEW n \in Names PROVE WasSet(cmd'[d].mem[n])
    <3>1. CASE d = c
      BY <1>0, <3>1
    <3>2. CASE d # c
      BY <1>0, <3>2 DEF VaultInv, Sealed
    <3> QED
      BY <3>1, <3>2
  <2>2. \A n \in Names : WasSet(store.map[n])
    BY DEF VaultInv, Sealed
  <2> QED
    BY <1>0, <2>1, <2>2 DEF Sealed, WasSet
<1>3. Vault!TypeOK'
  BY DEF VaultInv, Vault!TypeOK, VaultCmds
<1>4. key' = key \/ \A d \in Commands : cmd[d].key = "none"
  BY ProcessAssumption DEF VaultInv, Vault!KeyStays, OneMakes, VaultCmds
<1>5. Vault!KeyStays'
  BY <1>0, <1>4 DEF VaultInv, Vault!KeyStays
<1>6. key' = key \/ \A n \in Names : settled[n] = "-"
  BY <1>4 DEF VaultInv, OneMakes, Vault!TypeOK
<1>7. OneMakes'
  <2>1. \A d \in Commands : cmd'[d].at = "fill" => key' = "empty"
    BY <1>0, ProcessAssumption DEF VaultInv, OneMakes
  <2>2. \A a, b \in Commands : cmd'[a].at = "fill" /\ cmd'[b].at = "fill" => a = b
    BY <1>0 DEF VaultInv, OneMakes
  <2>3. ASSUME NEW n \in Names, settled[n] # "-" PROVE cmd'[settled[n]].key # "none"
    <3>1. settled[n] \in Commands /\ cmd[settled[n]].key # "none" /\ key' = key
      BY <1>6, <2>3 DEF VaultInv, OneMakes, Vault!TypeOK
    <3>2. key = cmd[settled[n]].key
      BY <3>1 DEF VaultInv, Vault!KeyStays
    <3> QED
      BY <1>0, <3>1, <3>2
  <2> QED
    BY <2>1, <2>2, <2>3 DEF OneMakes
<1>8. InMemory'
  <2> SUFFICES ASSUME NEW d \in Commands
               PROVE  /\ cmd'[d].at \in {"open", "set", "remove", "get", "cut", "write"} =>
                            cmd'[d].key \in Commands
                      /\ cmd'[d].at \in {"key", "open"} => cmd'[d].op # "init"
                      /\ cmd'[d].at \in {"set", "remove", "get"} => cmd'[d].op = cmd'[d].at
                      /\ cmd'[d].at \in {"cut", "write"} =>
                          /\ cmd'[d].op \in {"set", "remove"}
                          /\ cmd'[d].op = "set" =>
                              cmd'[d].mem[cmd'[d].name] =
                                 [by |-> cmd'[d].key, name |-> cmd'[d].name, value |-> d]
                      /\ edits = 0 /\ cmd'[d].at \in {"set", "remove", "cut", "write"} =>
                          \A n \in Names \ (clashed \cup cmd'[d].stale \cup {cmd'[d].name}) :
                              settled[n] # "-" =>
                                cmd'[d].mem[n] = [by |-> key', name |-> n, value |-> settled[n]]
    BY DEF InMemory, Holds
  <2>1. CASE d = c
    BY <1>0, <1>6, <2>1 DEF Holds
  <2>2. CASE d # c
    BY <1>0, <1>6, <2>2 DEF VaultInv, InMemory, Holds
  <2> QED
    BY <2>1, <2>2
<1>9. Vault!ValueIsIts'
  BY <1>0 DEF VaultInv, Vault!ValueIsIts
<1>10. Vault!SavedStays'
  BY <1>6 DEF VaultInv, Vault!SavedStays
<1> QED
  BY <1>2, <1>3, <1>5, <1>7, <1>8, <1>9, <1>10 DEF VaultInv

LEMMA VaultEnds ==
    ASSUME VaultInv, NEW c \in Commands, NEW word, cmd' = Vault!Ends(c, word),
           UNCHANGED <<store, edits, settled, clashed>>,
           key' = key \/ (cmd[c].at = "fill" /\ key' = c),
           word \in Commands \cup {"old", "-", "done", "error", "absent", "died"},
           cmd[c].op = "get" /\ word \in Commands \cup {"old"} =>
              \E d \in Commands : word = d /\ cmd[d].op = "set" /\ cmd[d].name = cmd[c].name
    PROVE  VaultInv'
<1> DEFINE r == [cmd[c] EXCEPT !.at = "end", !.got = word, !.mem = Vault!Nothing, !.stale = {}]
<1>1. cmd' = [cmd EXCEPT ![c] = r]
  BY DEF Vault!Ends
<1>2. Vault!Nothing \in Vault!Maps /\ {} \in SUBSET Names
  BY DEF Vault!Nothing, Vault!Maps
<1>3. /\ r \in [op : {"init", "set", "remove", "get"}, name : Names,
                at : {"start", "create", "fill", "key", "open", "set", "remove", "get", "cut",
                      "write", "end"},
                key : Commands \cup {"none"}, mem : Vault!Maps,
                got : Commands \cup {"old", "-", "done", "error", "absent", "died"},
                stale : SUBSET Names]
      /\ r.op = cmd[c].op /\ r.name = cmd[c].name /\ r.at = "end" /\ r.key = cmd[c].key
      /\ r.mem = Vault!Nothing /\ r.got = word
  BY <1>2 DEF VaultInv, VaultCmds
<1> HIDE DEF r
<1>4. VaultCmds'
  BY <1>1, <1>3 DEF VaultInv, VaultCmds
<1>5. \A n \in Names : WasSet(r.mem[n])
  <2>1. ASSUME NEW n \in Names PROVE r.mem[n].by = "other"
    <3>1. r.mem[n] = Vault!NoEntry
      BY <1>3 DEF Vault!Nothing
    <3>2. Vault!NoEntry.by = "other"
      BY Zenon DEF Vault!NoEntry
    <3> QED
      BY <3>1, <3>2
  <2>2. "other" \notin Commands
    BY ProcessAssumption
  <2> QED
    BY <2>1, <2>2 DEF WasSet
<1>6. key' \in Commands \cup {"none", "empty"}
  BY DEF VaultInv, Vault!TypeOK
<1>7. /\ r.at \notin {"fill", "key", "open", "set", "remove", "get", "cut", "write"}
      /\ r.op = "get" /\ r.got \in Commands \cup {"old"} =>
            \E d \in Commands : r.got = d /\ cmd[d].op = "set" /\ cmd[d].name = r.name
  BY <1>3
<1> QED
  BY <1>1, <1>3, <1>4, <1>5, <1>6, <1>7, VaultMoves

(* A command goes on, and nothing else of it changes but its key.          *)
LEMMA VaultGoes ==
    ASSUME VaultInv, NEW c \in Commands, NEW label, NEW k,
           cmd' = [cmd EXCEPT ![c] = [cmd[c] EXCEPT !.at = label, !.key = k]],
           UNCHANGED <<store, edits, settled, clashed>>,
           label \in {"create", "fill", "key", "open"},
           \/ key' = key /\ label # "fill"
           \/ key = "none" /\ key' = "empty" /\ label = "fill"
           \/ cmd[c].at = "fill" /\ key' = c /\ label # "fill",
           k = cmd[c].key \/ (k = key /\ key' = key /\ key \in Commands),
           label = "open" => k \in Commands,
           label \in {"key", "open"} => cmd[c].op # "init"
    PROVE  VaultInv'
<1> DEFINE r == [cmd[c] EXCEPT !.at = label, !.key = k]
<1>1. /\ r \in [op : {"init", "set", "remove", "get"}, name : Names,
                at : {"start", "create", "fill", "key", "open", "set", "remove", "get", "cut",
                      "write", "end"},
                key : Commands \cup {"none"}, mem : Vault!Maps,
                got : Commands \cup {"old", "-", "done", "error", "absent", "died"},
                stale : SUBSET Names]
      /\ r.op = cmd[c].op /\ r.name = cmd[c].name /\ r.at = label /\ r.key = k
      /\ r.mem = cmd[c].mem /\ r.got = cmd[c].got
  BY DEF VaultInv, VaultCmds
<1>2. cmd' = [cmd EXCEPT ![c] = r]
  OBVIOUS
<1> HIDE DEF r
<1>3. VaultCmds'
  BY <1>1, <1>2 DEF VaultInv, VaultCmds
<1>4. \A n \in Names : WasSet(r.mem[n])
  BY <1>1 DEF VaultInv, Sealed
<1>5. key' \in Commands \cup {"none", "empty"}
  BY DEF VaultInv, Vault!TypeOK
<1>6. r.op = "get" /\ r.got \in Commands \cup {"old"} =>
        \E d \in Commands : r.got = d /\ cmd[d].op = "set" /\ cmd[d].name = r.name
  <2>1. cmd[c].op = "get" /\ cmd[c].got \in Commands \cup {"old"} =>
          \E d \in Commands : cmd[c].got = d /\ cmd[d].op = "set" /\ cmd[d].name = cmd[c].name
    BY DEF VaultInv, Vault!ValueIsIts
  <2> QED
    BY <1>1, <2>1
<1>7. /\ r.at \notin {"set", "remove", "get", "cut", "write"}
      /\ r.at = "open" => r.key \in Commands
      /\ r.at \in {"key", "open"} => r.op # "init"
      /\ r.key = cmd[c].key \/ (r.key = key /\ key' = key)
      /\ \/ key' = key /\ r.at # "fill"
         \/ key = "none" /\ key' = "empty" /\ r.at = "fill"
         \/ cmd[c].at = "fill" /\ key' = c /\ r.at # "fill"
  BY <1>1
<1> QED
  BY <1>1, <1>2, <1>3, <1>4, <1>5, <1>6, <1>7, VaultMoves

(* Up to the store: the key is made, or read.                              *)
LEMMA VaultKeys ==
    ASSUME VaultInv, NEW c \in Commands,
           \/ Vault!Initialise(c) \/ Vault!CreateKey(c) \/ Vault!FillKey(c) \/ Vault!ReadKey(c)
           \/ Vault!Dies(c)
    PROVE  VaultInv'
<1>0. /\ UNCHANGED <<store, edits, settled, clashed>>
      /\ \A label : Vault!Goto(c, label) =
            [cmd EXCEPT ![c] = [cmd[c] EXCEPT !.at = label, !.key = cmd[c].key]]
  BY DEF Vault!Initialise, Vault!CreateKey, Vault!FillKey, Vault!ReadKey, Vault!Dies, Vault!Goto,
     VaultInv, VaultCmds
<1>w. {"done", "error", "died"} \cap (Commands \cup {"old"}) = {}
  BY ProcessAssumption
<1>e. ASSUME NEW word \in {"done", "error", "died"}, cmd' = Vault!Ends(c, word),
             key' = key \/ (cmd[c].at = "fill" /\ key' = c)
      PROVE  VaultInv'
  BY <1>0, <1>w, <1>e, VaultEnds
<1>g. ASSUME NEW label \in {"create", "fill", "key"}, cmd' = Vault!Goto(c, label),
             \/ key' = key /\ label # "fill"
             \/ key = "none" /\ key' = "empty" /\ label = "fill"
             \/ cmd[c].at = "fill" /\ key' = c /\ label # "fill",
             label = "key" => cmd[c].op # "init"
      PROVE  VaultInv'
  <2>1. cmd' = [cmd EXCEPT ![c] = [cmd[c] EXCEPT !.at = label, !.key = cmd[c].key]]
    BY <1>0, <1>g
  <2> DEFINE k == cmd[c].key
  <2>2. /\ cmd' = [cmd EXCEPT ![c] = [cmd[c] EXCEPT !.at = label, !.key = k]]
        /\ label \in {"create", "fill", "key", "open"} /\ label # "open"
        /\ label \in {"key", "open"} => cmd[c].op # "init"
        /\ k = cmd[c].key
    BY <1>g, <2>1
  <2> HIDE DEF k
  <2> QED
    BY <1>0, <1>g, <2>2, VaultGoes
<1>1. CASE Vault!Initialise(c)
  <2>1. key' = key /\ (cmd' = Vault!Ends(c, "done") \/ cmd' = Vault!Goto(c, "create")
                       \/ (cmd' = Vault!Goto(c, "key") /\ cmd[c].op # "init"))
    BY <1>1 DEF Vault!Initialise
  <2> QED
    BY <1>e, <1>g, <2>1
<1>2. CASE Vault!CreateKey(c)
  <2>1. \/ key = "none" /\ key' = "empty" /\ cmd' = Vault!Goto(c, "fill")
        \/ key' = key /\ cmd' = Vault!Ends(c, "error")
    BY <1>2 DEF Vault!CreateKey, Vault!MayMake
  <2> QED
    BY <1>e, <1>g, <2>1
<1>3. CASE Vault!FillKey(c)
  <2>1. /\ cmd[c].at = "fill" /\ key' = c
        /\ \/ cmd' = Vault!Ends(c, "done")
           \/ cmd' = Vault!Goto(c, "key") /\ cmd[c].op # "init"
    BY <1>3 DEF Vault!FillKey
  <2> QED
    BY <1>e, <1>g, <2>1
<1>4. CASE Vault!ReadKey(c)
  <2>1. key' = key /\ cmd[c].at = "key"
    BY <1>4 DEF Vault!ReadKey
  <2>2. CASE key \in {"none", "empty"}
    BY <1>4, <1>e, <2>1, <2>2 DEF Vault!ReadKey
  <2>3. CASE key \notin {"none", "empty"}
    <3>1. cmd' = [cmd EXCEPT ![c] = [cmd[c] EXCEPT !.at = "open", !.key = key]]
      BY <1>4, <2>3 DEF Vault!ReadKey, VaultInv, VaultCmds
    <3>2. key \in Commands /\ cmd[c].op # "init"
      BY <2>1, <2>3 DEF VaultInv, Vault!TypeOK, InMemory
    <3> QED
      BY <1>0, <2>1, <3>1, <3>2, VaultGoes
  <2> QED
    BY <2>2, <2>3
<1>5. CASE Vault!Dies(c)
  <2>1. key' = key /\ cmd' = Vault!Ends(c, "died")
    BY <1>5 DEF Vault!Dies
  <2> QED
    BY <1>e, <2>1
<1> QED
  BY <1>1, <1>2, <1>3, <1>4, <1>5

(* A command at its store, with the file as it is.                         *)
LEMMA VaultWorks ==
    ASSUME VaultInv, NEW c \in Commands,
           Vault!OpenStore(c) \/ Vault!Set(c) \/ Vault!Remove(c) \/ Vault!Get(c)
    PROVE  VaultInv'
<1>0. UNCHANGED <<key, store, edits, settled, clashed>>
  BY DEF Vault!OpenStore, Vault!Set, Vault!Remove, Vault!Get
<1>w. {"error", "absent"} \cap (Commands \cup {"old"}) = {}
  BY ProcessAssumption
<1>e. ASSUME NEW word \in {"error", "absent"}, cmd' = Vault!Ends(c, word) PROVE VaultInv'
  BY <1>0, <1>w, <1>e, VaultEnds
<1>k. key \in Commands \cup {"none", "empty"}
  BY DEF VaultInv, Vault!TypeOK
<1>t. /\ cmd[c] \in [op : {"init", "set", "remove", "get"}, name : Names,
                     at : {"start", "create", "fill", "key", "open", "set", "remove", "get",
                           "cut", "write", "end"},
                     key : Commands \cup {"none"}, mem : Vault!Maps,
                     got : Commands \cup {"old", "-", "done", "error", "absent", "died"},
                     stale : SUBSET Names]
      /\ cmd[c].mem \in Vault!Maps /\ cmd[c].name \in Names
  BY DEF VaultInv, VaultCmds
<1>v. cmd[c].op = "get" /\ cmd[c].got \in Commands \cup {"old"} =>
        \E d \in Commands : cmd[c].got = d /\ cmd[d].op = "set" /\ cmd[d].name = cmd[c].name
  BY DEF VaultInv, Vault!ValueIsIts
<1>m. ASSUME NEW label \in {"set", "remove", "get", "cut"}, NEW m \in Vault!Maps,
             cmd' = [cmd EXCEPT ![c] = [cmd[c] EXCEPT !.at = label, !.mem = m]],
             \A n \in Names : WasSet(m[n]),
             cmd[c].key \in Commands,
             label = cmd[c].op \/ (label = "cut" /\ cmd[c].op \in {"set", "remove"}),
             label = "cut" /\ cmd[c].op = "set" =>
                m[cmd[c].name] = [by |-> cmd[c].key, name |-> cmd[c].name, value |-> c],
             edits = 0 => \A n \in Names \ (clashed \cup cmd[c].stale \cup {cmd[c].name}) :
                             settled[n] # "-" => Holds(m, n)
      PROVE  VaultInv'
  <2> DEFINE r == [cmd[c] EXCEPT !.at = label, !.mem = m]
  <2>1. /\ r \in [op : {"init", "set", "remove", "get"}, name : Names,
                  at : {"start", "create", "fill", "key", "open", "set", "remove", "get", "cut",
                        "write", "end"},
                  key : Commands \cup {"none"}, mem : Vault!Maps,
                  got : Commands \cup {"old", "-", "done", "error", "absent", "died"},
                  stale : SUBSET Names]
        /\ r.op = cmd[c].op /\ r.name = cmd[c].name /\ r.at = label /\ r.key = cmd[c].key
        /\ r.mem = m /\ r.got = cmd[c].got /\ r.stale = cmd[c].stale
    BY <1>t
  <2>2. cmd' = [cmd EXCEPT ![c] = r]
    BY <1>m
  <2> HIDE DEF r
  <2>3. VaultCmds'
    BY <2>1, <2>2 DEF VaultInv, VaultCmds
  <2>4. /\ r.at # "fill" /\ r.at # "write" /\ r.at # "open"
        /\ r.at # "key" /\ r.key \in Commands
        /\ r.at \in {"set", "remove", "get"} => r.op = r.at
        /\ r.at \in {"cut", "write"} =>
              /\ r.op \in {"set", "remove"}
              /\ r.op = "set" => r.mem[r.name] = [by |-> r.key, name |-> r.name, value |-> c]
    BY <1>m, <2>1
  <2>5. edits = 0 => \A n \in Names \ (clashed \cup r.stale \cup {r.name}) :
                        settled[n] # "-" => Holds(r.mem, n)
    BY <1>m, <2>1
  <2>6. \A n \in Names : WasSet(r.mem[n])
    BY <1>m, <2>1
  <2> QED
    <3>1. /\ key' \in Commands \cup {"none", "empty"} /\ key' = key
          /\ UNCHANGED <<store, edits, settled, clashed>>
          /\ r.op = "get" /\ r.got \in Commands \cup {"old"} =>
                \E d \in Commands : r.got = d /\ cmd[d].op = "set" /\ cmd[d].name = r.name
      BY <1>0, <1>k, <1>v, <2>1
    <3> QED
      BY <2>1, <2>2, <2>3, <2>4, <2>5, <2>6, <3>1, VaultMoves
<1>1. CASE Vault!OpenStore(c)
  <2>1. CASE ~Vault!Parses
    BY <1>1, <1>e, <2>1 DEF Vault!OpenStore
  <2>2. CASE Vault!Parses
    <3>1. cmd' = [cmd EXCEPT ![c] = [cmd[c] EXCEPT !.at = cmd[c].op, !.mem = store.map]]
      BY <1>1, <1>t, <2>2 DEF Vault!OpenStore, Vault!Read, VaultInv, VaultCmds
    <3>2. /\ cmd[c].at = "open" /\ cmd[c].key \in Commands /\ store.map \in Vault!Maps
          /\ \A n \in Names : WasSet(store.map[n])
      BY <1>1 DEF Vault!OpenStore, VaultInv, InMemory, Sealed, Vault!TypeOK, Vault!Stores
    <3>3. edits = 0 => \A n \in Names \ clashed : settled[n] # "-" => Holds(store.map, n)
      BY <2>2 DEF VaultInv, Vault!SavedStays, Vault!Parses, Holds
    <3>4. cmd[c].op \in {"set", "remove", "get"}
      BY <1>t, <3>2 DEF VaultInv, InMemory
    <3> QED
      BY <1>m, <1>t, <3>1, <3>2, <3>3, <3>4
  <2> QED
    BY <2>1, <2>2
<1>2. CASE Vault!Set(c)
  <2> DEFINE e == [by |-> cmd[c].key, name |-> cmd[c].name, value |-> c]
             m == [cmd[c].mem EXCEPT ![cmd[c].name] = e]
  <2>1. cmd[c].at = "set" /\ cmd' = [cmd EXCEPT ![c] = [cmd[c] EXCEPT !.at = "cut", !.mem = m]]
    BY <1>2, <1>t DEF Vault!Set, VaultInv, VaultCmds
  <2>2. cmd[c].key \in Commands /\ cmd[c].op = "set"
    BY <2>1 DEF VaultInv, InMemory
  <2>3. e \in Vault!Entries
    BY <1>t, <2>2 DEF Vault!Entries
  <2>4. WasSet(e)
    BY <1>t, <2>2 DEF WasSet
  <2> HIDE DEF e
  <2>5. /\ m \in Vault!Maps /\ m[cmd[c].name] = e
        /\ \A n \in Names : n # cmd[c].name => m[n] = cmd[c].mem[n]
    BY <1>t, <2>3 DEF Vault!Maps
  <2> HIDE DEF m
  <2>6. \A n \in Names : WasSet(m[n])
    BY <2>4, <2>5 DEF VaultInv, Sealed
  <2>7. edits = 0 => \A n \in Names \ (clashed \cup cmd[c].stale \cup {cmd[c].name}) :
                        settled[n] # "-" => Holds(m, n)
    BY <2>1, <2>5 DEF VaultInv, InMemory, Holds
  <2>8. m[cmd[c].name] = [by |-> cmd[c].key, name |-> cmd[c].name, value |-> c]
    BY <2>5 DEF e
  <2> QED
    BY <1>m, <2>1, <2>2, <2>5, <2>6, <2>7, <2>8
<1>3. CASE Vault!Remove(c)
  <2> DEFINE m == [cmd[c].mem EXCEPT ![cmd[c].name] = Vault!NoEntry]
  <2>1. /\ cmd[c].at = "remove"
        /\ \/ cmd' = Vault!Ends(c, "error")
           \/ cmd' = [cmd EXCEPT ![c] = [cmd[c] EXCEPT !.at = "cut", !.mem = m]]
    BY <1>3, <1>t DEF Vault!Remove, VaultInv, VaultCmds
  <2>2. cmd[c].key \in Commands /\ cmd[c].op = "remove"
    BY <2>1 DEF VaultInv, InMemory
  <2>3. WasSet(Vault!NoEntry)
    <3>1. Vault!NoEntry.by = "other"
      BY Zenon DEF Vault!NoEntry
    <3> QED
      BY <3>1, ProcessAssumption DEF WasSet
  <2>5. /\ m \in Vault!Maps /\ m[cmd[c].name] = Vault!NoEntry
        /\ \A n \in Names : n # cmd[c].name => m[n] = cmd[c].mem[n]
    BY <1>t DEF Vault!Maps
  <2> HIDE DEF m
  <2>6. \A n \in Names : WasSet(m[n])
    BY <2>3, <2>5 DEF VaultInv, Sealed
  <2>7. edits = 0 => \A n \in Names \ (clashed \cup cmd[c].stale \cup {cmd[c].name}) :
                        settled[n] # "-" => Holds(m, n)
    BY <2>1, <2>5 DEF VaultInv, InMemory, Holds
  <2>8. CASE cmd' = [cmd EXCEPT ![c] = [cmd[c] EXCEPT !.at = "cut", !.mem = m]]
    BY <1>m, <2>2, <2>5, <2>6, <2>7, <2>8
  <2> QED
    BY <1>e, <2>1, <2>8
<1>4. CASE Vault!Get(c)
  <2> DEFINE e == cmd[c].mem[cmd[c].name]
             word == IF e = Vault!NoEntry THEN "absent"
                     ELSE IF Vault!Opens(e, c) THEN e.value ELSE "error"
  <2>1. cmd[c].at = "get" /\ cmd' = Vault!Ends(c, word)
    BY <1>4 DEF Vault!Get
  <2>2. cmd[c].key \in Commands /\ WasSet(e)
    BY <1>t, <2>1 DEF VaultInv, InMemory, Sealed
  <2>3. CASE e = Vault!NoEntry \/ ~Vault!Opens(e, c)
    <3>1. word \in {"absent", "error"}
      BY <2>3
    <3> QED
      BY <1>e, <2>1, <3>1
  <2>4. CASE e # Vault!NoEntry /\ Vault!Opens(e, c)
    <3>1. PICK d \in Commands : e.value = d /\ cmd[d].op = "set" /\ cmd[d].name = e.name
      BY <2>2, <2>4 DEF Vault!Opens, WasSet
    <3>2. word = d /\ cmd[d].op = "set" /\ cmd[d].name = cmd[c].name
      BY <2>4, <3>1 DEF Vault!Opens
    <3> HIDE DEF word
    <3> QED
      BY <1>0, <2>1, <3>2, VaultEnds
  <2> QED
    BY <2>3, <2>4
<1> QED
  BY <1>1, <1>2, <1>3, <1>4

(* save cuts the store to nothing.                                         *)
LEMMA VaultCuts == ASSUME VaultInv, NEW c \in Commands, Vault!SaveCut(c) PROVE VaultInv'
<1>0. /\ cmd[c].at = "cut" /\ store' = Vault!File("empty") /\ cmd' = [cmd EXCEPT ![c].at = "write"]
      /\ UNCHANGED <<key, edits, settled, clashed>>
  BY DEF Vault!SaveCut, Vault!Goto
<1>1. /\ VaultCmds'
      /\ \A d \in Commands : /\ cmd'[d].op = cmd[d].op /\ cmd'[d].name = cmd[d].name
                             /\ cmd'[d].key = cmd[d].key /\ cmd'[d].mem = cmd[d].mem
                             /\ cmd'[d].got = cmd[d].got /\ cmd'[d].stale = cmd[d].stale
                             /\ cmd'[d].at = IF d = c THEN "write" ELSE cmd[d].at
  BY <1>0 DEF VaultInv, VaultCmds
<1>2. /\ store' \in Vault!Stores /\ store'.is = "empty"
      /\ \A n \in Names : WasSet(store'.map[n])
  <2>1. Vault!Nothing \in Vault!Maps
    BY DEF Vault!Nothing, Vault!Maps
  <2>2. store' = [is |-> "empty", map |-> Vault!Nothing]
    BY <1>0 DEF Vault!File
  <2>3. ASSUME NEW n \in Names PROVE WasSet(store'.map[n])
    <3>1. store'.map[n] = Vault!NoEntry
      BY <2>2 DEF Vault!Nothing
    <3>2. Vault!NoEntry.by = "other" /\ "other" \notin Commands
      <4>1. Vault!NoEntry.by = "other"
        BY Zenon DEF Vault!NoEntry
      <4> QED
        BY <4>1, ProcessAssumption
    <3> QED
      BY <3>1, <3>2 DEF WasSet
  <2> QED
    BY <2>1, <2>2, <2>3 DEF Vault!Stores
<1>3. Sealed'
  <2>1. \A e : WasSet(e) => WasSet(e)'
    BY <1>1 DEF WasSet
  <2>2. \A d \in Commands : \A n \in Names : WasSet(cmd'[d].mem[n])
    BY <1>1 DEF VaultInv, Sealed
  <2> QED
    BY <1>1, <1>2, <2>2 DEF Sealed, WasSet
<1>4. Vault!TypeOK'
  BY <1>0, <1>1, <1>2 DEF VaultInv, Vault!TypeOK
<1>5. Vault!KeyStays' /\ Vault!ValueIsIts'
  BY <1>0, <1>1 DEF VaultInv, Vault!KeyStays, Vault!ValueIsIts
<1>6. OneMakes'
  <2>1. \A n \in Names : settled[n] # "-" => settled[n] \in Commands
    BY DEF VaultInv, Vault!TypeOK
  <2> QED
    BY <1>0, <1>1, <2>1 DEF VaultInv, OneMakes
<1>7. InMemory'
  BY <1>0, <1>1 DEF VaultInv, InMemory, Holds
<1>8. Vault!SavedStays'
  BY <1>2 DEF Vault!SavedStays
<1> QED
  BY <1>1, <1>3, <1>4, <1>5, <1>6, <1>7, <1>8 DEF VaultInv

(* save writes it: others who have the store in memory have it from before. *)
LEMMA VaultWrites == ASSUME VaultInv, NEW c \in Commands, Vault!SaveWrite(c) PROVE VaultInv'
<1> DEFINE n == cmd[c].name
           Works(d) == cmd[d].at \in {"set", "remove", "cut", "write"}
<1>0. /\ cmd[c].at = "write"
      /\ store' = Vault!Whole(cmd[c].mem) \/ store' = Vault!File("bad")
      /\ settled' = [settled EXCEPT ![n] = IF cmd[c].op = "set" THEN c ELSE "-"]
      /\ clashed' = (clashed \cup cmd[c].stale) \ {n}
      /\ cmd' = [d \in Commands |->
            IF d = c THEN Vault!Ends(c, "done")[c]
            ELSE IF Works(d) THEN [cmd[d] EXCEPT !.stale = cmd[d].stale \cup ({n} \ {cmd[d].name})]
            ELSE cmd[d]]
      /\ UNCHANGED <<key, edits>>
  BY DEF Vault!SaveWrite
<1>t. /\ cmd \in [Commands ->
               [op : {"init", "set", "remove", "get"}, name : Names,
                at : {"start", "create", "fill", "key", "open", "set", "remove", "get", "cut",
                      "write", "end"},
                key : Commands \cup {"none"}, mem : Vault!Maps,
                got : Commands \cup {"old", "-", "done", "error", "absent", "died"},
                stale : SUBSET Names]]
      /\ n \in Names /\ cmd[c].mem \in Vault!Maps /\ cmd[c].key \in Commands
      /\ cmd[c].op \in {"set", "remove"} /\ key = cmd[c].key /\ key \in Commands
  <2>1. cmd[c].key \in Commands /\ cmd[c].op \in {"set", "remove"}
    BY <1>0 DEF VaultInv, InMemory
  <2>2. key = cmd[c].key
    BY <2>1, ProcessAssumption DEF VaultInv, Vault!KeyStays
  <2> QED
    BY <2>1, <2>2 DEF VaultInv, VaultCmds
<1>1. /\ cmd'[c] = [cmd[c] EXCEPT !.at = "end", !.got = "done", !.mem = Vault!Nothing, !.stale = {}]
      /\ \A d \in Commands : d # c =>
            cmd'[d] = IF Works(d) THEN [cmd[d] EXCEPT !.stale = cmd[d].stale \cup ({n} \ {cmd[d].name})]
                      ELSE cmd[d]
      /\ DOMAIN cmd' = Commands
  BY <1>0, <1>t DEF Vault!Ends
<1>2. /\ cmd'[c].op = cmd[c].op /\ cmd'[c].name = cmd[c].name /\ cmd'[c].key = cmd[c].key
      /\ cmd'[c].at = "end" /\ cmd'[c].got = "done" /\ cmd'[c].mem = Vault!Nothing
      /\ cmd'[c] \in [op : {"init", "set", "remove", "get"}, name : Names,
                at : {"start", "create", "fill", "key", "open", "set", "remove", "get", "cut",
                      "write", "end"},
                key : Commands \cup {"none"}, mem : Vault!Maps,
                got : Commands \cup {"old", "-", "done", "error", "absent", "died"},
                stale : SUBSET Names]
  <2>1. Vault!Nothing \in Vault!Maps /\ {} \in SUBSET Names
    BY DEF Vault!Nothing, Vault!Maps
  <2> DEFINE r == cmd[c]
  <2>2. r \in [op : {"init", "set", "remove", "get"}, name : Names,
                at : {"start", "create", "fill", "key", "open", "set", "remove", "get", "cut",
                      "write", "end"},
                key : Commands \cup {"none"}, mem : Vault!Maps,
                got : Commands \cup {"old", "-", "done", "error", "absent", "died"},
                stale : SUBSET Names]
    BY <1>t
  <2>3. cmd'[c] = [r EXCEPT !.at = "end", !.got = "done", !.mem = Vault!Nothing, !.stale = {}]
    BY <1>1
  <2> HIDE DEF r, n
  <2>4. /\ cmd'[c].op = r.op /\ cmd'[c].name = r.name /\ cmd'[c].key = r.key
        /\ cmd'[c].at = "end" /\ cmd'[c].got = "done" /\ cmd'[c].mem = Vault!Nothing
    BY <2>2, <2>3
  <2>5. cmd'[c] \in [op : {"init", "set", "remove", "get"}, name : Names,
                at : {"start", "create", "fill", "key", "open", "set", "remove", "get", "cut",
                      "write", "end"},
                key : Commands \cup {"none"}, mem : Vault!Maps,
                got : Commands \cup {"old", "-", "done", "error", "absent", "died"},
                stale : SUBSET Names]
    BY <2>1, <2>2, <2>3
  <2> QED
    BY <2>4, <2>5 DEF r
<1>3. ASSUME NEW d \in Commands, d # c
      PROVE  /\ cmd'[d].op = cmd[d].op /\ cmd'[d].name = cmd[d].name /\ cmd'[d].key = cmd[d].key
             /\ cmd'[d].at = cmd[d].at /\ cmd'[d].got = cmd[d].got /\ cmd'[d].mem = cmd[d].mem
             /\ cmd[d].stale \subseteq cmd'[d].stale
             /\ Works(d) /\ n # cmd[d].name => n \in cmd'[d].stale
             /\ cmd'[d] \in [op : {"init", "set", "remove", "get"}, name : Names,
                at : {"start", "create", "fill", "key", "open", "set", "remove", "get", "cut",
                      "write", "end"},
                key : Commands \cup {"none"}, mem : Vault!Maps,
                got : Commands \cup {"old", "-", "done", "error", "absent", "died"},
                stale : SUBSET Names]
  <2> DEFINE s == cmd[d].stale \cup ({n} \ {cmd[d].name})
  <2>1. s \in SUBSET Names /\ cmd[d].stale \subseteq s /\ (n # cmd[d].name => n \in s)
    BY <1>t
  <2>2. cmd'[d] = IF Works(d) THEN [cmd[d] EXCEPT !.stale = s] ELSE cmd[d]
    BY <1>1, <1>3
  <2> HIDE DEF s, n, Works
  <2>3. CASE Works(d)
    BY <1>t, <2>1, <2>2, <2>3
  <2>4. CASE ~Works(d)
    BY <1>t, <2>2, <2>4
  <2> QED
    BY <2>3, <2>4
<1>4. VaultCmds'
  <2>1. cmd' = [d \in Commands |-> cmd'[d]]
    BY <1>0
  <2> QED
    BY <1>2, <1>3, <2>1 DEF VaultCmds
<1> HIDE DEF Works
<1>5. \A d \in Commands : cmd'[d].op = cmd[d].op /\ cmd'[d].name = cmd[d].name
                          /\ cmd'[d].key = cmd[d].key
  BY <1>2, <1>3
<1>6. /\ WasSet(Vault!NoEntry) /\ Vault!Nothing \in Vault!Maps
      /\ \A k \in Names : Vault!Nothing[k] = Vault!NoEntry
  <2>1. Vault!NoEntry.by = "other"
    BY Zenon DEF Vault!NoEntry
  <2> QED
    BY <2>1, ProcessAssumption DEF WasSet, Vault!Nothing, Vault!Maps
<1>7. /\ store' \in Vault!Stores /\ store'.map \in {cmd[c].mem, Vault!Nothing}
      /\ store'.is # "bad" => store'.map = cmd[c].mem
      /\ store'.is \in {"whole", "bad"}
  BY <1>0, <1>6, <1>t DEF Vault!Whole, Vault!File, Vault!Stores
<1>8. Sealed'
  <2>1. \A k \in Names : WasSet(store'.map[k])
    BY <1>6, <1>7 DEF VaultInv, Sealed
  <2>2. \A d \in Commands : \A k \in Names : WasSet(cmd'[d].mem[k])
    BY <1>2, <1>3, <1>6 DEF VaultInv, Sealed
  <2> QED
    BY <1>5, <2>1, <2>2 DEF Sealed, WasSet
<1>9. /\ settled' \in [Names -> Commands \cup {"-"}]
      /\ settled'[n] = IF cmd[c].op = "set" THEN c ELSE "-"
      /\ \A k \in Names : k # n => settled'[k] = settled[k]
      /\ clashed' \subseteq Names
      /\ \A k \in Names : k # n /\ k \notin clashed' => k \notin clashed \cup cmd[c].stale
  BY <1>0, <1>t DEF VaultInv, Vault!TypeOK
<1>10. Vault!TypeOK'
  BY <1>0, <1>4, <1>7, <1>9 DEF VaultInv, Vault!TypeOK, VaultCmds
<1>11. Vault!KeyStays' /\ Vault!ValueIsIts'
  <2>1. Vault!KeyStays'
    BY <1>0, <1>5 DEF VaultInv, Vault!KeyStays
  <2>2. cmd[c].op # "get"
    BY <1>t
  <2> QED
    BY <1>2, <1>3, <1>5, <2>1, <2>2 DEF VaultInv, Vault!ValueIsIts
<1>12. OneMakes'
  <2>1. /\ \A d \in Commands : cmd'[d].at = "fill" => d # c /\ cmd[d].at = "fill"
        /\ key' = key
    BY <1>0, <1>2, <1>3
  <2>2. ASSUME NEW k \in Names, settled'[k] # "-" PROVE cmd'[settled'[k]].key # "none"
    <3>1. CASE k = n
      <4>1. settled'[k] = c /\ "none" \notin Commands
        BY <1>9, <2>2, <3>1, ProcessAssumption
      <4> QED
        BY <1>2, <1>t, <4>1
    <3>2. CASE k # n
      BY <1>5, <1>9, <2>2, <3>2 DEF VaultInv, OneMakes, Vault!TypeOK
    <3> QED
      BY <3>1, <3>2
  <2> QED
    BY <2>1, <2>2 DEF VaultInv, OneMakes
<1>13. InMemory'
  <2> SUFFICES ASSUME NEW d \in Commands, d # c
               PROVE  /\ cmd'[d].at \in {"open", "set", "remove", "get", "cut", "write"} =>
                            cmd'[d].key \in Commands
                      /\ cmd'[d].at \in {"key", "open"} => cmd'[d].op # "init"
                      /\ cmd'[d].at \in {"set", "remove", "get"} => cmd'[d].op = cmd'[d].at
                      /\ cmd'[d].at \in {"cut", "write"} =>
                          /\ cmd'[d].op \in {"set", "remove"}
                          /\ cmd'[d].op = "set" =>
                              cmd'[d].mem[cmd'[d].name] =
                                 [by |-> cmd'[d].key, name |-> cmd'[d].name, value |-> d]
                      /\ edits = 0 /\ cmd'[d].at \in {"set", "remove", "cut", "write"} =>
                          \A k \in Names \ (clashed' \cup cmd'[d].stale \cup {cmd'[d].name}) :
                              settled'[k] # "-" =>
                                cmd'[d].mem[k] = [by |-> key, name |-> k, value |-> settled'[k]]
    BY <1>0, <1>2 DEF InMemory, Holds
  <2>1. /\ cmd[d].at \in {"open", "set", "remove", "get", "cut", "write"} => cmd[d].key \in Commands
        /\ cmd[d].at \in {"key", "open"} => cmd[d].op # "init"
        /\ cmd[d].at \in {"set", "remove", "get"} => cmd[d].op = cmd[d].at
        /\ cmd[d].at \in {"cut", "write"} =>
            /\ cmd[d].op \in {"set", "remove"}
            /\ cmd[d].op = "set" =>
                cmd[d].mem[cmd[d].name] = [by |-> cmd[d].key, name |-> cmd[d].name, value |-> d]
    BY DEF VaultInv, InMemory
  <2>2. ASSUME edits = 0, cmd[d].at \in {"set", "remove", "cut", "write"},
               NEW k \in Names \ (clashed' \cup cmd'[d].stale \cup {cmd[d].name}),
               settled'[k] # "-"
        PROVE  cmd[d].mem[k] = [by |-> key, name |-> k, value |-> settled'[k]]
    <3>1. k # n
      BY <1>3, <2>2 DEF Works
    <3>2. k \notin clashed \cup cmd[d].stale \cup {cmd[d].name} /\ settled'[k] = settled[k]
      BY <1>3, <1>9, <2>2, <3>1
    <3>3. /\ edits = 0 /\ cmd[d].at \in {"set", "remove", "cut", "write"}
          /\ k \in Names \ (clashed \cup cmd[d].stale \cup {cmd[d].name})
          /\ settled[k] # "-"
      BY <2>2, <3>2
    <3>4. Holds(cmd[d].mem, k)
      BY <3>3 DEF VaultInv, InMemory
    <3> QED
      BY <3>2, <3>4 DEF Holds
  <2> QED
    BY <1>3, <2>1, <2>2
<1>14. Vault!SavedStays'
  <2> SUFFICES ASSUME edits = 0, store'.map = cmd[c].mem, NEW k \in Names \ clashed',
                      settled'[k] # "-"
               PROVE  cmd[c].mem[k] = [by |-> key, name |-> k, value |-> settled'[k]]
    BY <1>0, <1>7 DEF Vault!SavedStays
  <2>1. CASE k = n
    BY <1>0, <1>9, <1>t, <2>1 DEF VaultInv, InMemory
  <2>2. CASE k # n
    <3>1. /\ cmd[c].at \in {"set", "remove", "cut", "write"} /\ settled'[k] = settled[k]
          /\ k \in Names \ (clashed \cup cmd[c].stale \cup {cmd[c].name})
      BY <1>0, <1>9, <2>2
    <3>2. Holds(cmd[c].mem, k)
      BY <3>1 DEF VaultInv, InMemory
    <3> QED
      BY <3>1, <3>2 DEF Holds
  <2> QED
    BY <2>1, <2>2
<1> QED
  BY <1>4, <1>8, <1>10, <1>11, <1>12, <1>13, <1>14 DEF VaultInv

(* Two entries are swapped by hand.                                        *)
LEMMA VaultSwaps ==
    ASSUME VaultInv, NEW m \in Names, NEW n \in Names, Vault!Swap(m, n) PROVE VaultInv'
<1>0. /\ edits < MaxEdits /\ edits' = edits + 1
      /\ store' = Vault!Whole([store.map EXCEPT ![m] = store.map[n], ![n] = store.map[m]])
      /\ UNCHANGED <<key, cmd, settled, clashed>>
  BY DEF Vault!Swap
<1>1. store.map \in Vault!Maps /\ edits \in Nat /\ edits' # 0 /\ edits' \in 0 .. MaxEdits
  BY <1>0, ProcessAssumption DEF VaultInv, Vault!TypeOK, Vault!Stores
<1> DEFINE f == [store.map EXCEPT ![m] = store.map[n], ![n] = store.map[m]]
<1>2. f \in Vault!Maps /\ \A k \in Names : \E l \in Names : f[k] = store.map[l]
  BY <1>1 DEF Vault!Maps
<1>3. store'.map = f /\ store' \in Vault!Stores
  BY <1>0, <1>2 DEF Vault!Whole, Vault!Stores
<1> HIDE DEF f
<1>4. Sealed'
  BY <1>0, <1>2, <1>3 DEF VaultInv, Sealed, WasSet
<1>5. Vault!TypeOK'
  BY <1>0, <1>1, <1>3 DEF VaultInv, Vault!TypeOK
<1>6. VaultCmds' /\ OneMakes' /\ Vault!KeyStays' /\ Vault!ValueIsIts'
  BY <1>0 DEF VaultInv, VaultCmds, OneMakes, Vault!KeyStays, Vault!ValueIsIts
<1>7. InMemory' /\ Vault!SavedStays'
  BY <1>0, <1>1 DEF VaultInv, InMemory, Vault!SavedStays
<1> QED
  BY <1>4, <1>5, <1>6, <1>7 DEF VaultInv

LEMMA VaultStep == VaultInv /\ [Vault!Next]_Vault!secretVars => VaultInv'
<1> SUFFICES ASSUME VaultInv, [Vault!Next]_Vault!secretVars PROVE VaultInv'
  OBVIOUS
<1>1. ASSUME NEW c \in Commands,
             \/ Vault!Initialise(c) \/ Vault!CreateKey(c) \/ Vault!FillKey(c)
             \/ Vault!ReadKey(c) \/ Vault!Dies(c)
      PROVE  VaultInv'
  BY <1>1, VaultKeys
<1>2. ASSUME NEW c \in Commands,
             Vault!OpenStore(c) \/ Vault!Set(c) \/ Vault!Remove(c) \/ Vault!Get(c)
      PROVE  VaultInv'
  BY <1>2, VaultWorks
<1>3. ASSUME NEW c \in Commands, Vault!SaveCut(c) PROVE VaultInv'
  BY <1>3, VaultCuts
<1>4. ASSUME NEW c \in Commands, Vault!SaveWrite(c) PROVE VaultInv'
  BY <1>4, VaultWrites
<1>5. ASSUME NEW m \in Names, NEW n \in Names, Vault!Swap(m, n) PROVE VaultInv'
  BY <1>5, VaultSwaps
<1>6. CASE UNCHANGED Vault!secretVars
  BY <1>6 DEF Vault!secretVars, VaultInv, Vault!TypeOK, VaultCmds, Sealed, WasSet, OneMakes,
     InMemory, Holds, Vault!KeyStays, Vault!ValueIsIts, Vault!SavedStays
<1> QED
  BY <1>1, <1>2, <1>3, <1>4, <1>5, <1>6 DEF Vault!Next

LEMMA VaultInit == Vault!Init => VaultInv
<1> SUFFICES ASSUME Vault!Init PROVE VaultInv
  OBVIOUS
<1>1. /\ key = "none" /\ edits = 0 /\ clashed = {} /\ settled = [n \in Names |-> "-"]
      /\ \A n \in Names : settled[n] = "-"
  BY DEF Vault!Init
<1>2. /\ cmd \in [Commands -> [op : {"init", "set", "remove", "get"}, name : Names,
                              at : {"start"}, key : {"none"}, mem : {Vault!Nothing}, got : {"-"},
                              stale : {{}}]]
  BY DEF Vault!Init, Vault!Ops
<1>3. Vault!NoEntry.by = "other" /\ "other" \notin Commands /\ "-" \notin Commands
  <2>1. Vault!NoEntry.by = "other"
    BY Zenon DEF Vault!NoEntry
  <2> QED
    BY <2>1, ProcessAssumption
<1>4. Vault!Nothing \in Vault!Maps /\ \A n \in Names : Vault!Nothing[n] = Vault!NoEntry
  BY DEF Vault!Nothing, Vault!Maps
<1>5. store \in Vault!Stores /\ \A n \in Names : store.map[n].by = "other"
  <2>1. CASE store = Vault!File("none")
    BY <1>3, <1>4, <2>1 DEF Vault!File, Vault!Stores
  <2>2. CASE store = Vault!Whole([n \in Names |-> [by |-> "other", name |-> n, value |-> "old"]])
    <3> DEFINE f == [n \in Names |-> [by |-> "other", name |-> n, value |-> "old"]]
    <3>1. f \in Vault!Maps /\ \A n \in Names : f[n].by = "other"
      BY DEF Vault!Maps, Vault!Entries
    <3> HIDE DEF f
    <3>2. store.map = f /\ store.is = "whole" /\ store = [is |-> "whole", map |-> f]
      BY <2>2 DEF Vault!Whole, f
    <3> QED
      BY <3>1, <3>2 DEF Vault!Stores
  <2> QED
    BY <2>1, <2>2 DEF Vault!Init
<1>6. /\ \A c \in Commands : /\ cmd[c].at = "start" /\ cmd[c].key = "none" /\ cmd[c].got = "-"
                             /\ cmd[c].mem = Vault!Nothing /\ cmd[c].stale = {}
                             /\ cmd[c] \in [op : {"init", "set", "remove", "get"}, name : Names,
                              at : {"start"}, key : {"none"}, mem : {Vault!Nothing}, got : {"-"},
                              stale : {{}}]
      /\ VaultCmds
  <2>1. \A c \in Commands : /\ cmd[c].at = "start" /\ cmd[c].key = "none" /\ cmd[c].got = "-"
                            /\ cmd[c].mem = Vault!Nothing /\ cmd[c].stale = {}
    BY <1>2
  <2>2. VaultCmds
    BY <1>2, <1>4 DEF VaultCmds
  <2> QED
    BY <1>2, <2>1, <2>2
<1>7. Vault!TypeOK
  BY <1>1, <1>4, <1>5, <1>6, ProcessAssumption DEF Vault!TypeOK
<1>8. Sealed
  BY <1>3, <1>4, <1>5, <1>6 DEF Sealed, WasSet
<1>9. OneMakes /\ InMemory /\ Vault!KeyStays /\ Vault!SavedStays
  BY <1>1, <1>6 DEF OneMakes, InMemory, Vault!KeyStays, Vault!SavedStays
<1>10. Vault!ValueIsIts
  BY <1>3, <1>6 DEF Vault!ValueIsIts
<1> QED
  BY <1>6, <1>7, <1>8, <1>9, <1>10 DEF VaultInv

(* Any number of commands on any secrets, racing and dying anywhere        *)
(* (crates/secrets): a key that was read stays the workspace's, a run is   *)
(* given a value only under its own name and key, and what was saved stays *)
(* but for overlapping saves, edits and writes cut short.                  *)
THEOREM SecretsStayTheorem == ToolsSpec => []SecretsStay
<1> DEFINE Inv == which = "secrets" => VaultInv
<1>1. ToolsInit => Inv
  BY VaultInit DEF ToolsInit
<1>2. Inv /\ [ToolsNext]_all => Inv'
  <2> SUFFICES ASSUME Inv, [ToolsNext]_all, which' = "secrets" PROVE VaultInv'
    OBVIOUS
  <2>1. which = "secrets" /\ [Vault!Next]_Vault!secretVars
    BY DEF ToolsNext, CommandsEnd, all, vault, Vault!secretVars
  <2> QED
    BY <2>1, VaultStep
<1>3. Inv => SecretsStay
  BY DEF VaultInv, SecretsStay
<1> QED
  BY <1>1, <1>2, <1>3, PTL DEF ToolsSpec

-----------------------------------------------------------------------------
(* The run history.                                                        *)

(* What lines may be: of runs there were, the earlier ones first.          *)
Numbered(f, n) ==
    /\ DOMAIN f \subseteq 1 .. n
    /\ \A i \in DOMAIN f : f[i] \subseteq 1 .. n
Ascending(f) ==
    \A i, j \in DOMAIN f : i < j => \A r \in f[i], s \in f[j] : r < s
OnePerLine(f) == \A i \in DOMAIN f : \E r \in f[i] : f[i] = {r}

(* The runs that the history has to show, and those of which it has to     *)
(* show the newest, while no half-written file has become the history.     *)
Shown == IF halved THEN {} ELSE whole \ (dropped \cup raced \cup glued)
Owed == IF halved THEN {} ELSE whole \ (glued \cup raced)

(* A history that was cut: what it keeps, what it dropped as old and what  *)
(* came since account for every run, and the newest it could know is kept. *)
Fit(c, n, shown, owed) ==
    /\ Numbered(c.kept, n) /\ Ascending(c.kept) /\ OnePerLine(c.kept)
    /\ ~c.half =>
         /\ shown \subseteq Log!RunsOn(c.kept) \cup c.old \cup c.since
         /\ Keep > 0 /\ owed \ c.since # {} =>
              \E r \in Log!RunsOn(c.kept) : \A s \in owed \ c.since : s <= r

Files == UNION {[S -> SUBSET (1 .. MaxRuns)] : S \in SUBSET (1 .. MaxRuns)}
Cuts ==
    [kept : Files, old : SUBSET (1 .. MaxRuns), since : SUBSET (1 .. MaxRuns), half : BOOLEAN]
HistoryTypes ==
    /\ runs \in 0 .. MaxRuns /\ whole \subseteq 1 .. runs
    /\ torn \in BOOLEAN /\ halved \in BOOLEAN /\ crossed \in BOOLEAN
    /\ file \in Files
    /\ torn => DOMAIN file # {}
    /\ prune \in [Pruners -> [at : {"idle", "write", "rename"}, cut : Cuts]]
    /\ temp \in Cuts

(* The file, and what may yet be renamed over it.                          *)
FileFit == Numbered(file, runs) /\ Ascending(file)
CutsFit ==
    /\ \A p \in Pruners : prune[p].at = "write" =>
         Fit(prune[p].cut, runs, Shown, Owed) /\ ~prune[p].cut.half
    /\ temp # Log!NoTemp => Fit(temp, runs, Shown, Owed)

(* Two that prune have crossed, and without that no half file is renamed.  *)
TwoCross ==
    /\ \A p, q \in Pruners : p # q /\ prune[p].at # "idle" /\ prune[q].at # "idle" => crossed
    /\ \A p \in Pruners : prune[p].at = "rename" /\ temp.half => crossed
    /\ halved => crossed

HistoryInv ==
    HistoryTypes /\ FileFit /\ CutsFit /\ TwoCross /\ Log!HistoryAccounted /\ Log!NewestStays

LEMMA HistoryNumbers == MaxRuns \in Nat /\ Keep \in Nat
BY HistoryAssumption

LEMMA LogCounts == ASSUME NEW S PROVE Log!Cardinality(S) = Cardinality(S)
BY DEF Log!Cardinality, Cardinality

(* A set of numbers that has a bound has a greatest one.                   *)
LEMMA GreatestOf ==
    ASSUME NEW n \in Nat, NEW S \in SUBSET (0 .. n), S # {}
    PROVE  /\ Log!Max(S) \in S /\ \A x \in S : x <= Log!Max(S)
<1> DEFINE T == {n - x : x \in S}
<1>0. \A x \in S : n - x \in Nat
  OBVIOUS
<1>1. T \in SUBSET Nat /\ T # {}
  BY <1>0
<1>2. IsWellFoundedOn(OpToRel(<, Nat), Nat)
  BY NatLessThanWellFounded
<1>3. PICK t \in T : \A y \in T : ~ (<<y, t>> \in OpToRel(<, Nat))
  BY <1>1, <1>2, WFMin
<1>4. \A y \in T : ~ (y < t)
  BY <1>1, <1>3 DEF OpToRel
<1>5. PICK m \in S : t = n - m
  BY <1>3
<1>6. \A x \in S : x <= m
  <2> TAKE x \in S
  <2>1. n - x \in T /\ x \in 0 .. n /\ m \in 0 .. n
    OBVIOUS
  <2>2. ~ (n - x < t)
    BY <2>1, <1>4
  <2> QED
    BY <2>1, <2>2, <1>5
<1>7. \E x \in S : \A y \in S : x >= y
  <2>1. \A y \in S : m >= y
    BY <1>6
  <2> QED
    BY <2>1, <1>5
<1>8. Log!Max(S) \in S /\ \A y \in S : Log!Max(S) >= y
  BY <1>7 DEF Log!Max
<1> QED
  BY <1>8

(* What is on some lines, and what can be read.                            *)
LEMMA OnLines ==
    ASSUME NEW f, NEW r
    PROVE  r \in Log!RunsOn(f) <=> \E i \in DOMAIN f : r \in f[i]
BY DEF Log!RunsOn

LEMMA InRecord ==
    ASSUME NEW r
    PROVE  r \in Log!Recorded <=> \E i \in Log!Readable : r \in file[i]
<1>1. DOMAIN Log!Lines(Log!Readable) = Log!Readable
  BY DEF Log!Lines
<1>2. \A i \in Log!Readable : Log!Lines(Log!Readable)[i] = file[i]
  BY DEF Log!Lines
<1> QED
  BY <1>1, <1>2, OnLines DEF Log!Recorded

LEMMA InRecordNext ==
    ASSUME NEW r
    PROVE  r \in Log!Recorded' <=> \E i \in Log!Readable' : r \in file'[i]
<1>1. DOMAIN Log!Lines(Log!Readable)' = Log!Readable'
  BY DEF Log!Lines
<1>2. \A i \in Log!Readable' : Log!Lines(Log!Readable)'[i] = file'[i]
  BY DEF Log!Lines
<1> QED
  BY <1>1, <1>2 DEF Log!Recorded, Log!RunsOn

LEMMA PlaceIs ==
    ASSUME HistoryTypes, FileFit
    PROVE  /\ Log!Place \in 0 .. runs
           /\ DOMAIN file # {} => Log!Place \in DOMAIN file
           /\ \A i \in DOMAIN file : i \in Nat /\ i <= Log!Place
<1>1. runs \in Nat /\ DOMAIN file \in SUBSET (0 .. runs)
  BY HistoryNumbers DEF HistoryTypes, FileFit, Numbered
<1>2. CASE DOMAIN file = {}
  BY <1>1, <1>2 DEF Log!Place
<1>3. CASE DOMAIN file # {}
  <2> DEFINE S == DOMAIN file
  <2>1. S \in SUBSET (0 .. runs) /\ S # {} /\ runs \in Nat
    BY <1>1, <1>3
  <2> HIDE DEF S
  <2>2. Log!Max(S) \in S /\ \A x \in S : x <= Log!Max(S)
    BY <2>1, GreatestOf
  <2>0. \A x \in S : x \in 0 .. runs /\ x \in Nat
    BY <2>1
  <2>3. Log!Max(S) \in 0 .. runs /\ \A x \in S : x \in Nat
    BY <2>0, <2>2
  <2>4. Log!Place = Log!Max(S)
    BY <1>3 DEF Log!Place, S
  <2> QED
    BY <2>2, <2>3, <2>4, <1>3 DEF S
<1> QED
  BY <1>2, <1>3

-----------------------------------------------------------------------------
LEMMA HistoryBegins == Log!Init => HistoryInv
<1> SUFFICES ASSUME Log!Init PROVE HistoryInv
  OBVIOUS
<1>1. Log!NoLines \in Files
  <2>1. Log!NoLines \in [{} -> SUBSET (1 .. MaxRuns)] /\ {} \in SUBSET (1 .. MaxRuns)
    BY DEF Log!NoLines
  <2> QED
    BY <2>1 DEF Files
<1>2. Log!NoCut \in Cuts /\ ~Log!NoCut.half
  BY <1>1 DEF Log!NoCut, Cuts
<1>3. HistoryTypes
  <2>1. runs \in 0 .. MaxRuns /\ whole \subseteq 1 .. runs
    BY HistoryNumbers DEF Log!Init
  <2>2. torn = FALSE /\ halved = FALSE /\ crossed = FALSE /\ file \in Files /\ temp \in Cuts
    BY <1>1, <1>2 DEF Log!Init, Log!NoTemp
  <2>3. prune \in [Pruners -> [at : {"idle", "write", "rename"}, cut : Cuts]]
    BY <1>2 DEF Log!Init, Log!Idle
  <2> QED
    BY <2>1, <2>2, <2>3 DEF HistoryTypes
<1>4. FileFit
  BY DEF FileFit, Numbered, Ascending, Log!Init, Log!NoLines
<1>5. CutsFit /\ TwoCross
  BY <1>2 DEF CutsFit, TwoCross, Log!Init, Log!Idle
<1>6. Log!HistoryAccounted /\ Log!NewestStays
  BY DEF Log!HistoryAccounted, Log!NewestStays, Log!Init
<1> QED
  BY <1>3, <1>4, <1>5, <1>6 DEF HistoryInv

-----------------------------------------------------------------------------
LEMMA IsFile ==
    ASSUME NEW f
    PROVE  f \in Files <=> /\ f = [i \in DOMAIN f |-> f[i]]
                           /\ DOMAIN f \subseteq 1 .. MaxRuns
                           /\ \A i \in DOMAIN f : f[i] \subseteq 1 .. MaxRuns
<1>1. ASSUME f \in Files
      PROVE  /\ f = [i \in DOMAIN f |-> f[i]]
             /\ DOMAIN f \subseteq 1 .. MaxRuns
             /\ \A i \in DOMAIN f : f[i] \subseteq 1 .. MaxRuns
  <2>1. PICK S \in SUBSET (1 .. MaxRuns) : f \in [S -> SUBSET (1 .. MaxRuns)]
    BY <1>1 DEF Files
  <2> QED
    BY <2>1
<1>2. ASSUME f = [i \in DOMAIN f |-> f[i]], DOMAIN f \subseteq 1 .. MaxRuns,
             \A i \in DOMAIN f : f[i] \subseteq 1 .. MaxRuns
      PROVE  f \in Files
  <2>1. f \in [DOMAIN f -> SUBSET (1 .. MaxRuns)] /\ DOMAIN f \in SUBSET (1 .. MaxRuns)
    BY <1>2
  <2> QED
    BY <2>1 DEF Files
<1> QED
  BY <1>1, <1>2

(* A write at the end: the lines stay in order, and nothing that could be  *)
(* read is lost.                                                           *)
LEMMA WritesAtEnd ==
    ASSUME HistoryTypes, FileFit, runs < MaxRuns, runs' = runs + 1,
           file' = Log!Written(runs + 1), torn' \in BOOLEAN
    PROVE  /\ file' \in Files /\ DOMAIN file' # {} /\ FileFit'
           /\ \A s \in Log!Recorded : s \in Log!Recorded'
           /\ ~torn /\ ~torn' => runs + 1 \in Log!Recorded'
<1> DEFINE e == Log!Place
           n == runs + 1
<1>0. /\ runs \in Nat /\ n \in Nat /\ MaxRuns \in Nat /\ n <= MaxRuns /\ runs' = n
      /\ DOMAIN file \subseteq 1 .. runs /\ \A i \in DOMAIN file : file[i] \subseteq 1 .. runs
      /\ Ascending(file) /\ torn \in BOOLEAN /\ file = [i \in DOMAIN file |-> file[i]]
  BY HistoryNumbers, IsFile DEF HistoryTypes, FileFit, Numbered
<1>1. /\ e \in 0 .. runs /\ e \in Nat
      /\ DOMAIN file # {} => e \in DOMAIN file
      /\ \A i \in DOMAIN file : i \in Nat /\ i <= e
  BY <1>0, PlaceIs
<1> HIDE DEF n, e
<1>2. \A i \in DOMAIN file : \A s \in file[i] : s \in Nat /\ s < n
  BY <1>0 DEF n
<1>3. CASE torn
  <2>1. e \in DOMAIN file
    BY <1>1, <1>3 DEF HistoryTypes
  <2>2. /\ DOMAIN file' = DOMAIN file /\ file' = [i \in DOMAIN file |-> file'[i]]
        /\ file'[e] = file[e] \cup {n}
        /\ \A i \in DOMAIN file : i # e => file'[i] = file[i]
    BY <1>0, <1>3, <2>1 DEF Log!Written, e, n
  <2>3. /\ DOMAIN file' \subseteq 1 .. n
        /\ \A i \in DOMAIN file' : file'[i] \subseteq 1 .. n
    BY <1>0, <2>2 DEF n
  <2>4. Ascending(file')
    BY <1>0, <1>1, <1>2, <2>1, <2>2 DEF Ascending
  <2>5. file' \in Files
    BY <1>0, <2>2, <2>3, IsFile
  <2>6. FileFit' /\ DOMAIN file' # {}
    BY <1>0, <2>1, <2>2, <2>3, <2>4 DEF FileFit, Numbered, Ascending
  <2>7. Log!Place' = e
    BY <2>2 DEF Log!Place, e
  <2>8. \A i \in Log!Readable : i \in Log!Readable' /\ file'[i] = file[i]
    BY <1>3, <2>2, <2>7 DEF Log!Readable, Log!Parses, e
  <2>9. \A s \in Log!Recorded : s \in Log!Recorded'
    BY <2>8, InRecord, InRecordNext
  <2> QED
    BY <1>3, <2>5, <2>6, <2>9
<1>4. CASE ~torn
  <2>1. e + 1 \notin DOMAIN file /\ e + 1 \in 1 .. n
    BY <1>0, <1>1 DEF n
  <2>2. /\ DOMAIN file' = DOMAIN file \cup {e + 1} /\ file' = [i \in DOMAIN file' |-> file'[i]]
        /\ file'[e + 1] = {n}
        /\ \A i \in DOMAIN file : file'[i] = file[i]
    BY <1>4, <2>1 DEF Log!Written, e, n
  <2>3. /\ DOMAIN file' \subseteq 1 .. n
        /\ \A i \in DOMAIN file' : file'[i] \subseteq 1 .. n
    BY <1>0, <2>1, <2>2 DEF n
  <2>4. Ascending(file')
    <3> SUFFICES ASSUME NEW i \in DOMAIN file', NEW j \in DOMAIN file', i < j,
                        NEW r \in file'[i], NEW s \in file'[j]
                 PROVE  r < s
      BY DEF Ascending
    <3>1. i \in DOMAIN file
      BY <1>1, <2>2
    <3>2. CASE j \in DOMAIN file
      BY <1>0, <2>2, <3>1, <3>2 DEF Ascending
    <3>3. CASE j = e + 1
      BY <1>2, <2>2, <3>1, <3>3
    <3> QED
      BY <2>2, <3>2, <3>3
  <2>5. file' \in Files
    BY <1>0, <2>2, <2>3, IsFile
  <2>6. FileFit' /\ DOMAIN file' # {}
    BY <1>0, <2>1, <2>2, <2>3, <2>4 DEF FileFit, Numbered, Ascending
  <2>7. Log!Place' = e + 1
    <3> DEFINE S == DOMAIN file'
    <3>1. S \in SUBSET (0 .. n) /\ S # {}
      BY <2>3, <2>6
    <3>2. \A i \in S : i \in Nat /\ i <= e + 1
      BY <1>1, <2>2
    <3>3. e + 1 \in S
      BY <2>2
    <3>4. Log!Place' = Log!Max(S)
      BY <2>6 DEF Log!Place
    <3> HIDE DEF S
    <3>5. Log!Max(S) \in S /\ \A x \in S : x <= Log!Max(S)
      BY <1>0, <3>1, GreatestOf
    <3> QED
      BY <1>1, <3>2, <3>3, <3>4, <3>5
  <2>8. \A i \in Log!Readable : i \in Log!Readable' /\ file'[i] = file[i]
    BY <1>1, <2>2, <2>7 DEF Log!Readable, Log!Parses
  <2>9. \A s \in Log!Recorded : s \in Log!Recorded'
    BY <2>8, InRecord, InRecordNext
  <2>10. ASSUME ~torn' PROVE n \in Log!Recorded'
    <3>1. e + 1 \in Log!Readable'
      BY <2>2, <2>10 DEF Log!Readable, Log!Parses
    <3> QED
      BY <2>2, <3>1, InRecordNext
  <2> QED
    BY <2>5, <2>6, <2>9, <2>10 DEF n
<1> QED
  BY <1>0, <1>3, <1>4

-----------------------------------------------------------------------------
(* What fits goes on fitting: when less is to be shown, when a run comes   *)
(* that it is told of, and when it is torn.                                *)
LEMMA FitsLess ==
    ASSUME NEW c, NEW n \in Nat, NEW m \in Nat, n <= m, NEW S, NEW T \in SUBSET S,
           NEW O, NEW P \in SUBSET O, Fit(c, n, S, O)
    PROVE  Fit(c, m, T, P)
<1>1. Numbered(c.kept, m)
  BY DEF Fit, Numbered
<1>2. ASSUME ~c.half PROVE T \subseteq Log!RunsOn(c.kept) \cup c.old \cup c.since
  BY <1>2 DEF Fit
<1>3. ASSUME ~c.half, Keep > 0, P \ c.since # {}
      PROVE  \E r \in Log!RunsOn(c.kept) : \A s \in P \ c.since : s <= r
  BY <1>3 DEF Fit
<1> QED
  BY <1>1, <1>2, <1>3 DEF Fit

LEMMA FitsSince ==
    ASSUME NEW c \in Cuts, NEW n \in Nat, NEW S, NEW O, Fit(c, n, S, O), n + 1 <= MaxRuns,
           NEW T \in SUBSET (S \cup {n + 1}), NEW P \in SUBSET (O \cup {n + 1})
    PROVE  /\ Log!Since(c, n + 1) \in Cuts
           /\ Fit(Log!Since(c, n + 1), n + 1, T, P)
           /\ Log!Since(c, n + 1).half = c.half
<1> DEFINE d == Log!Since(c, n + 1)
<1>1. /\ d.kept = c.kept /\ d.old = c.old /\ d.half = c.half /\ d.since = c.since \cup {n + 1}
      /\ d \in Cuts
  BY HistoryNumbers DEF Log!Since, Cuts
<1> HIDE DEF d
<1>2. Numbered(d.kept, n + 1) /\ Ascending(d.kept) /\ OnePerLine(d.kept)
  BY <1>1 DEF Fit, Numbered
<1>3. ASSUME ~d.half PROVE T \subseteq Log!RunsOn(d.kept) \cup d.old \cup d.since
  BY <1>1, <1>3 DEF Fit
<1>4. ASSUME ~d.half, Keep > 0, P \ d.since # {}
      PROVE  \E r \in Log!RunsOn(d.kept) : \A s \in P \ d.since : s <= r
  <2>1. P \ d.since \subseteq O \ c.since
    BY <1>1
  <2> QED
    BY <1>1, <1>4, <2>1 DEF Fit
<1>5. Fit(d, n + 1, T, P)
  BY <1>2, <1>3, <1>4 DEF Fit
<1> QED
  BY <1>1, <1>5 DEF d

LEMMA NoLinesFit ==
    /\ Log!NoLines \in Files /\ Numbered(Log!NoLines, runs)
    /\ Ascending(Log!NoLines) /\ OnePerLine(Log!NoLines)
<1>1. Log!NoLines \in [{} -> SUBSET (1 .. MaxRuns)] /\ {} \in SUBSET (1 .. MaxRuns)
  BY DEF Log!NoLines
<1>2. Log!NoLines \in Files
  BY <1>1 DEF Files
<1> QED
  BY <1>2 DEF Log!NoLines, Numbered, Ascending, OnePerLine

LEMMA NoCutIs == Log!NoCut \in Cuts /\ ~Log!NoCut.half
BY NoLinesFit DEF Log!NoCut, Cuts

(* A run is recorded, or its writer dies.                                  *)
LEMMA HistoryAppends ==
    ASSUME HistoryInv, runs < MaxRuns, runs' = runs + 1, file' = Log!Written(runs + 1),
           torn' \in BOOLEAN, Log!NowRaced(runs + 1),
           dropped' = dropped, raced' = raced, halved' = halved, crossed' = crossed,
           \/ whole' = whole \cup {runs + 1} /\ torn' = FALSE
              /\ glued' = IF torn THEN glued \cup {runs + 1} ELSE glued
           \/ whole' = whole /\ glued' = glued
    PROVE  HistoryInv'
<1> DEFINE n == runs + 1
<1>0. /\ HistoryTypes /\ FileFit /\ CutsFit /\ TwoCross
      /\ Log!HistoryAccounted /\ Log!NewestStays
  BY DEF HistoryInv
<1>1. /\ runs \in Nat /\ n \in Nat /\ n <= MaxRuns /\ runs' = n /\ MaxRuns \in Nat
      /\ whole \subseteq 1 .. runs /\ whole' \subseteq whole \cup {n}
      /\ temp \in Cuts /\ prune \in [Pruners -> [at : {"idle", "write", "rename"}, cut : Cuts]]
  BY <1>0, HistoryNumbers DEF HistoryTypes
<1>2. /\ file' \in Files /\ DOMAIN file' # {} /\ FileFit'
      /\ \A s \in Log!Recorded : s \in Log!Recorded'
      /\ ~torn /\ ~torn' => n \in Log!Recorded'
  BY <1>0, WritesAtEnd
<1> HIDE DEF n
<1>3. /\ Shown' \subseteq Shown \cup {n} /\ Owed' \subseteq Owed \cup {n}
  BY <1>1 DEF Shown, Owed, n
<1>4. \A c \in Cuts : Fit(c, runs, Shown, Owed) =>
        /\ Log!Since(c, n) \in Cuts /\ Fit(Log!Since(c, n), n, Shown', Owed')
        /\ Log!Since(c, n).half = c.half
  BY <1>1, <1>3, FitsSince DEF n
<1>5. /\ temp' \in Cuts /\ temp'.half = temp.half
      /\ temp' # Log!NoTemp => Fit(temp', n, Shown', Owed')
  <2>1. CASE temp = Log!NoTemp
    BY <1>1, <2>1 DEF Log!NowRaced
  <2>2. CASE temp # Log!NoTemp
    <3>1. temp' = Log!Since(temp, n) /\ Fit(temp, runs, Shown, Owed)
      BY <1>0, <2>2 DEF Log!NowRaced, CutsFit, n
    <3> QED
      BY <1>1, <1>4, <3>1
  <2> QED
    BY <2>1, <2>2
<1>6. ASSUME NEW p \in Pruners
      PROVE  /\ prune'[p] \in [at : {"idle", "write", "rename"}, cut : Cuts]
             /\ prune'[p].at = prune[p].at
             /\ prune'[p].at = "write" =>
                  Fit(prune'[p].cut, n, Shown', Owed') /\ ~prune'[p].cut.half
  <2>1. prune[p] \in [at : {"idle", "write", "rename"}, cut : Cuts]
    BY <1>1
  <2>2. CASE prune[p].at = "write"
    <3>1. Fit(prune[p].cut, runs, Shown, Owed) /\ ~prune[p].cut.half /\ prune[p].cut \in Cuts
      BY <1>0, <2>1, <2>2 DEF CutsFit
    <3>2. prune'[p] = [prune[p] EXCEPT !.cut = Log!Since(prune[p].cut, n)]
      BY <2>2 DEF Log!NowRaced, n
    <3>3. prune'[p].at = prune[p].at /\ prune'[p].cut = Log!Since(prune[p].cut, n)
      BY <2>1, <3>2
    <3>4. /\ Log!Since(prune[p].cut, n) \in Cuts
          /\ Fit(Log!Since(prune[p].cut, n), n, Shown', Owed')
          /\ ~Log!Since(prune[p].cut, n).half
      BY <1>4, <3>1
    <3>5. prune'[p] \in [at : {"idle", "write", "rename"}, cut : Cuts]
      BY <2>1, <3>2, <3>4
    <3> QED
      BY <3>3, <3>4, <3>5
  <2>3. CASE prune[p].at # "write"
    BY <2>1, <2>3 DEF Log!NowRaced
  <2> QED
    BY <2>2, <2>3
<1>7. prune' \in [Pruners -> [at : {"idle", "write", "rename"}, cut : Cuts]]
  <2>1. prune' = [p \in Pruners |-> prune'[p]]
    BY DEF Log!NowRaced
  <2> QED
    BY <1>6, <2>1
<1>8. HistoryTypes'
  <2>1. whole' \subseteq 1 .. runs' /\ runs' \in 0 .. MaxRuns
    BY <1>1 DEF n
  <2>2. halved' \in BOOLEAN /\ crossed' \in BOOLEAN
    BY <1>0 DEF HistoryTypes
  <2> QED
    BY <1>2, <1>5, <1>7, <2>1, <2>2 DEF HistoryTypes
<1>9. CutsFit'
  BY <1>1, <1>5, <1>6 DEF CutsFit
<1>10. TwoCross'
  BY <1>0, <1>5, <1>6 DEF TwoCross
<1>11. Log!HistoryAccounted'
  <2>1. ASSUME ~halved, NEW s \in whole', s \notin Log!Recorded'
        PROVE  s \in dropped' \cup raced' \cup glued'
    <3>1. CASE s \in whole
      BY <1>0, <1>2, <2>1, <3>1 DEF Log!HistoryAccounted
    <3>2. CASE s \notin whole
      BY <1>1, <1>2, <2>1, <3>2 DEF n
    <3> QED
      BY <3>1, <3>2
  <2> QED
    BY <2>1 DEF Log!HistoryAccounted
<1>12. Log!NewestStays'
  <2> SUFFICES ASSUME Keep > 0, ~halved, whole' \ (glued' \cup raced') # {}
               PROVE  \E r \in Log!Recorded' : \A s \in whole' \ (glued' \cup raced') : s <= r
    BY DEF Log!NewestStays
  <2>1. CASE whole' = whole \/ torn
    <3>1. whole' \ (glued' \cup raced') \subseteq whole \ (glued \cup raced)
      BY <1>1, <2>1 DEF n
    <3> QED
      BY <1>0, <1>2, <3>1 DEF Log!NewestStays
  <2>2. CASE whole' # whole /\ ~torn
    <3>1. n \in Log!Recorded'
      BY <1>2, <2>2
    <3>2. \A s \in whole' : s <= n
      BY <1>1
    <3> QED
      BY <3>1, <3>2
  <2> QED
    BY <2>1, <2>2
<1> QED
  BY <1>2, <1>8, <1>9, <1>10, <1>11, <1>12 DEF HistoryInv

-----------------------------------------------------------------------------
(* What is read and kept: the last lines, with the newest run on them.     *)
LEMMA NewestIsKept ==
    ASSUME HistoryTypes, FileFit, Keep > 0, Log!Readable # {}
    PROVE  \E r \in Log!RunsOn(Log!Newest) : \A s \in Log!Recorded : s <= r
<1> DEFINE R == Log!Readable
           m == Log!Max(R)
<1>1. runs \in Nat /\ R \in SUBSET (0 .. runs) /\ R # {} /\ R \subseteq DOMAIN file
  BY HistoryNumbers DEF HistoryTypes, FileFit, Numbered, Log!Readable
<1>2. m \in R /\ (\A x \in R : x <= m) /\ R \subseteq Nat
  <2> HIDE DEF R
  <2>1. m \in R /\ \A x \in R : x <= m
    BY <1>1, GreatestOf
  <2> QED
    BY <1>1, <2>1
<1> HIDE DEF m
<1>3. PICK r \in file[m] : file[m] = {r}
  BY <1>2 DEF Log!Readable, Log!Parses
<1>4. Log!Behind(m) = {}
  <2>1. \A j \in Log!Readable : j \in Nat /\ m \in Nat /\ j <= m
    BY <1>2
  <2>2. \A j \in Log!Readable : ~(j > m)
    BY <2>1
  <2> QED
    BY <2>2 DEF Log!Behind
<1>5. m \in Log!LastOnes
  BY <1>2, <1>4, LogCounts, FS_EmptySet, HistoryNumbers DEF Log!LastOnes
<1>6. r \in Log!RunsOn(Log!Newest)
  <2>1. m \in DOMAIN Log!Newest /\ Log!Newest[m] = file[m]
    BY <1>5 DEF Log!Newest, Log!Lines
  <2> QED
    BY <1>3, <2>1, OnLines
<1>7. ASSUME NEW s \in Log!Recorded PROVE s <= r
  <2>1. PICK i \in R : s \in file[i]
    BY InRecord
  <2>2. i \in DOMAIN file /\ m \in DOMAIN file /\ i \in Nat /\ m \in Nat /\ i <= m
    BY <1>1, <1>2
  <2>3. s \in Nat /\ r \in Nat
    BY <1>3, <2>1, <2>2, HistoryNumbers DEF HistoryTypes, FileFit, Numbered
  <2>4. CASE i = m
    BY <1>3, <2>1, <2>3, <2>4
  <2>5. CASE i < m
    <3>1. s < r
      BY <1>3, <2>1, <2>2, <2>5 DEF FileFit, Ascending
    <3> QED
      BY <2>3, <3>1
  <2> QED
    BY <2>2, <2>4, <2>5
<1> QED
  BY <1>6, <1>7

LEMMA CutFits ==
    ASSUME HistoryInv
    PROVE  LET c == [kept |-> Log!Newest, old |-> Log!Recorded \ Log!RunsOn(Log!Newest),
                     since |-> {}, half |-> FALSE]
           IN  c \in Cuts /\ Fit(c, runs, Shown, Owed) /\ ~c.half
<1> DEFINE c == [kept |-> Log!Newest, old |-> Log!Recorded \ Log!RunsOn(Log!Newest),
                 since |-> {}, half |-> FALSE]
<1>0. /\ HistoryTypes /\ FileFit /\ Log!HistoryAccounted /\ Log!NewestStays
      /\ runs \in Nat /\ runs <= MaxRuns /\ MaxRuns \in Nat
  BY HistoryNumbers DEF HistoryInv, HistoryTypes
<1>1. /\ DOMAIN Log!Newest \subseteq Log!Readable
      /\ \A i \in DOMAIN Log!Newest : Log!Newest[i] = file[i]
      /\ Log!Newest = [i \in DOMAIN Log!Newest |-> Log!Newest[i]]
  BY DEF Log!Newest, Log!Lines, Log!LastOnes
<1>2. \A i \in DOMAIN Log!Newest :
        /\ i \in DOMAIN file
        /\ \E r \in Log!Newest[i] : Log!Newest[i] = {r}
  BY <1>1 DEF Log!Readable, Log!Parses
<1>3. Numbered(Log!Newest, runs) /\ Ascending(Log!Newest) /\ OnePerLine(Log!Newest)
  BY <1>0, <1>1, <1>2 DEF FileFit, Numbered, Ascending, OnePerLine
<1>4. Log!Newest \in Files
  BY <1>0, <1>1, <1>3, IsFile DEF Numbered
<1>5. Log!Recorded \subseteq 1 .. MaxRuns
  BY <1>0, InRecord DEF FileFit, Numbered, Log!Readable
<1>6. c \in Cuts
  BY <1>4, <1>5 DEF Cuts
<1>7. Shown \subseteq Log!RunsOn(Log!Newest) \cup c.old
  BY <1>0 DEF Shown, Log!HistoryAccounted
<1>8. ASSUME Keep > 0, Owed # {}
      PROVE  \E r \in Log!RunsOn(Log!Newest) : \A s \in Owed : s <= r
  <2>1. PICK t \in Log!Recorded : \A s \in Owed : s <= t
    BY <1>0, <1>8 DEF Owed, Log!NewestStays
  <2>2. Log!Readable # {}
    BY InRecord
  <2>3. PICK r \in Log!RunsOn(Log!Newest) : \A s \in Log!Recorded : s <= r
    BY <1>0, <1>8, <2>2, NewestIsKept
  <2>4. r \in Nat /\ t \in Nat /\ t <= r
    BY <1>0, <1>3, <1>5, <2>3, OnLines DEF Numbered
  <2>5. \A s \in Owed : s \in Nat
    <3>1. whole \subseteq 1 .. runs
      BY <1>0 DEF HistoryTypes
    <3>2. Owed \subseteq whole
      BY DEF Owed
    <3> QED
      BY <1>0, <3>1, <3>2
  <2> QED
    BY <2>1, <2>3, <2>4, <2>5
<1>9. Fit(c, runs, Shown, Owed)
  BY <1>3, <1>7, <1>8 DEF Fit
<1> QED
  BY <1>6, <1>9

LEMMA HistoryRead ==
    ASSUME HistoryInv, NEW p \in Pruners, Log!PruneRead(p) PROVE HistoryInv'
<1> DEFINE c == [kept |-> Log!Newest, old |-> Log!Recorded \ Log!RunsOn(Log!Newest),
                 since |-> {}, half |-> FALSE]
<1>0. /\ HistoryTypes /\ FileFit /\ CutsFit /\ TwoCross
      /\ Log!HistoryAccounted /\ Log!NewestStays
  BY DEF HistoryInv
<1>1. c \in Cuts /\ Fit(c, runs, Shown, Owed) /\ ~c.half
  BY CutFits
<1>2. prune' = [prune EXCEPT ![p] = [at |-> "write", cut |-> c]]
  BY DEF Log!PruneRead
<1> HIDE DEF c
<1>3. prune \in [Pruners -> [at : {"idle", "write", "rename"}, cut : Cuts]]
  BY <1>0 DEF HistoryTypes
<1>4. /\ prune' \in [Pruners -> [at : {"idle", "write", "rename"}, cut : Cuts]]
      /\ prune'[p].at = "write" /\ prune'[p].cut = c
      /\ \A q \in Pruners : q # p => prune'[q] = prune[q]
  BY <1>1, <1>2, <1>3
<1>5. UNCHANGED <<file, torn, temp, runs, whole, glued, dropped, raced, halved>>
  BY DEF Log!PruneRead
<1>6. Shown' = Shown /\ Owed' = Owed
  BY <1>5 DEF Shown, Owed
<1>7. crossed' \in BOOLEAN
  BY Zenon DEF Log!PruneRead
<1>8. HistoryTypes'
  BY <1>0, <1>4, <1>5, <1>7 DEF HistoryTypes
<1>9. CutsFit'
  BY <1>0, <1>1, <1>4, <1>5, <1>6 DEF CutsFit
<1>10. TwoCross'
  <2>1. /\ crossed => crossed'
        /\ (\E q \in Pruners : prune[q].at # "idle") => crossed'
    BY Zenon DEF Log!PruneRead
  <2>2. prune[p].at = "idle"
    BY DEF Log!PruneRead
  <2> QED
    BY <1>0, <1>4, <1>5, <2>1, <2>2 DEF TwoCross
<1>11. FileFit' /\ Log!HistoryAccounted' /\ Log!NewestStays'
  <2>1. Log!Recorded' = Log!Recorded
    BY <1>5 DEF Log!Recorded, Log!Readable, Log!Parses, Log!Place, Log!Lines
  <2>2. Log!HistoryAccounted'
    BY <1>0, <1>5, <2>1 DEF Log!HistoryAccounted
  <2>3. Log!NewestStays'
    BY <1>0, <1>5, <2>1 DEF Log!NewestStays
  <2> QED
    BY <1>0, <1>5, <2>2, <2>3 DEF FileFit
<1> QED
  BY <1>8, <1>9, <1>10, <1>11 DEF HistoryInv

(* The file stays as it is: only a pruner and the temporary file change.   *)
LEMMA HistoryAside ==
    ASSUME HistoryInv, NEW p \in Pruners, UNCHANGED <<file, torn, runs, whole, Log!ghosts>>,
           temp' \in Cuts, temp' # Log!NoTemp => Fit(temp', runs, Shown, Owed),
           NEW a \in {"idle", "rename"},
           prune' = [prune EXCEPT ![p] = [at |-> a, cut |-> Log!NoCut]],
           temp'.half => temp.half \/ (a = "idle" /\ prune[p].at # "idle"),
           a = "rename" => prune[p].at # "idle" /\ ~temp'.half
    PROVE  HistoryInv'
<1>0. /\ HistoryTypes /\ FileFit /\ CutsFit /\ TwoCross
      /\ Log!HistoryAccounted /\ Log!NewestStays
  BY DEF HistoryInv
<1>1. prune \in [Pruners -> [at : {"idle", "write", "rename"}, cut : Cuts]]
  BY <1>0 DEF HistoryTypes
<1>2. /\ prune' \in [Pruners -> [at : {"idle", "write", "rename"}, cut : Cuts]]
      /\ prune'[p].at = a
      /\ \A q \in Pruners : q # p => prune'[q] = prune[q]
  BY <1>1, NoCutIs
<1>3. UNCHANGED <<file, torn, runs, whole, glued, dropped, raced, halved, crossed>>
  BY DEF Log!ghosts
<1>4. Shown' = Shown /\ Owed' = Owed
  BY <1>3 DEF Shown, Owed
<1>5. HistoryTypes'
  BY <1>0, <1>2, <1>3 DEF HistoryTypes
<1>6. CutsFit'
  BY <1>0, <1>2, <1>3, <1>4 DEF CutsFit
<1>7. TwoCross'
  BY <1>0, <1>2, <1>3 DEF TwoCross
<1>8. FileFit' /\ Log!HistoryAccounted' /\ Log!NewestStays'
  <2>1. Log!Recorded' = Log!Recorded
    BY <1>3 DEF Log!Recorded, Log!Readable, Log!Parses, Log!Place, Log!Lines
  <2>2. Log!HistoryAccounted'
    BY <1>0, <1>3, <2>1 DEF Log!HistoryAccounted
  <2>3. Log!NewestStays'
    BY <1>0, <1>3, <2>1 DEF Log!NewestStays
  <2> QED
    BY <1>0, <1>3, <2>2, <2>3 DEF FileFit
<1> QED
  BY <1>5, <1>6, <1>7, <1>8 DEF HistoryInv

LEMMA HistoryWrites ==
    ASSUME HistoryInv, NEW p \in Pruners, Log!PruneWrite(p) PROVE HistoryInv'
<1>1. prune[p] \in [at : {"idle", "write", "rename"}, cut : Cuts]
  BY DEF HistoryInv, HistoryTypes
<1>2. /\ temp' \in Cuts /\ Fit(temp', runs, Shown, Owed) /\ ~temp'.half /\ prune[p].at = "write"
  BY <1>1 DEF HistoryInv, CutsFit, Log!PruneWrite
<1>3. prune' = [prune EXCEPT ![p] = [at |-> "rename", cut |-> Log!NoCut]]
  BY DEF Log!PruneWrite
<1>4. UNCHANGED <<file, torn, runs, whole, Log!ghosts>>
  BY DEF Log!PruneWrite
<1> QED
  BY <1>2, <1>3, <1>4, HistoryAside

LEMMA HistoryTears ==
    ASSUME HistoryInv, NEW p \in Pruners, Log!PruneTorn(p) PROVE HistoryInv'
<1>1. prune[p] \in [at : {"idle", "write", "rename"}, cut : Cuts]
  BY DEF HistoryInv, HistoryTypes
<1>2. temp' = [prune[p].cut EXCEPT !.kept = Log!NoLines, !.half = TRUE] /\ prune[p].at = "write"
  BY DEF Log!PruneTorn
<1>3. temp' \in Cuts /\ temp'.kept = Log!NoLines /\ temp'.half
  BY <1>1, <1>2, NoLinesFit DEF Cuts
<1>4. Fit(temp', runs, Shown, Owed)
  BY <1>3, NoLinesFit DEF Fit
<1>5. prune' = [prune EXCEPT ![p] = [at |-> "idle", cut |-> Log!NoCut]]
  BY DEF Log!PruneTorn, Log!TornEnds, Log!Idle
<1>6. UNCHANGED <<file, torn, runs, whole, Log!ghosts>>
  BY DEF Log!PruneTorn
<1> QED
  BY <1>2, <1>3, <1>4, <1>5, <1>6, HistoryAside

LEMMA HistoryFails ==
    ASSUME HistoryInv, NEW p \in Pruners, Log!PruneFails(p) PROVE HistoryInv'
<1>1. temp' = temp \/ temp' = Log!NoTemp
  BY DEF Log!PruneFails
<1>2. temp' \in Cuts /\ (temp'.half => temp.half)
  BY <1>1, NoCutIs DEF HistoryInv, HistoryTypes, Log!NoTemp
<1>3. temp' # Log!NoTemp => Fit(temp', runs, Shown, Owed)
  BY <1>1 DEF HistoryInv, CutsFit
<1>4. prune' = [prune EXCEPT ![p] = [at |-> "idle", cut |-> Log!NoCut]]
  BY DEF Log!PruneFails, Log!Idle
<1>5. UNCHANGED <<file, torn, runs, whole, Log!ghosts>>
  BY DEF Log!PruneFails
<1> QED
  BY <1>2, <1>3, <1>4, <1>5, HistoryAside

(* The rename: the file is what the temporary file was.                    *)
LEMMA HistoryRenames ==
    ASSUME HistoryInv, NEW p \in Pruners, Log!PruneRename(p) PROVE HistoryInv'
<1>0. /\ HistoryTypes /\ FileFit /\ CutsFit /\ TwoCross
      /\ Log!HistoryAccounted /\ Log!NewestStays
  BY DEF HistoryInv
<1>1. CASE temp = Log!NoTemp
  <2>1. UNCHANGED <<file, torn, runs, whole, Log!ghosts>>
    BY <1>1 DEF Log!PruneRename, Log!ghosts
  <2>2. temp' = Log!NoTemp /\ prune' = [prune EXCEPT ![p] = [at |-> "idle", cut |-> Log!NoCut]]
    BY DEF Log!PruneRename, Log!Idle
  <2>3. temp' \in Cuts /\ ~temp'.half
    BY <2>2, NoCutIs DEF Log!NoTemp
  <2> QED
    BY <2>1, <2>2, <2>3, HistoryAside
<1>2. CASE temp # Log!NoTemp
  <2> DEFINE c == temp
  <2>1. /\ file' = c.kept /\ torn' = FALSE /\ dropped' = dropped \cup c.old
        /\ raced' = raced \cup c.since /\ halved' = (halved \/ c.half)
        /\ UNCHANGED <<runs, whole, glued, crossed>> /\ temp' = Log!NoTemp
        /\ prune[p].at = "rename" /\ prune' = [prune EXCEPT ![p] = Log!Idle]
    BY <1>2 DEF Log!PruneRename
  <2>2. c \in Cuts /\ Fit(c, runs, Shown, Owed)
    BY <1>0, <1>2 DEF CutsFit, HistoryTypes
  <2> HIDE DEF c
  <2>3. halved' \in BOOLEAN /\ (halved => halved') /\ (~halved' => ~halved /\ ~c.half)
    BY <2>1, Zenon
  <2>4. prune \in [Pruners -> [at : {"idle", "write", "rename"}, cut : Cuts]]
    BY <1>0 DEF HistoryTypes
  <2>5. /\ prune' \in [Pruners -> [at : {"idle", "write", "rename"}, cut : Cuts]]
        /\ prune'[p].at = "idle"
        /\ \A q \in Pruners : q # p => prune'[q] = prune[q]
    BY <2>1, <2>4, NoCutIs DEF Log!Idle
  <2>6. HistoryTypes'
    <3>1. file' \in Files
      BY <2>1, <2>2 DEF Cuts
    <3>2. temp' \in Cuts
      BY <2>1, NoCutIs DEF Log!NoTemp
    <3> QED
      BY <1>0, <2>1, <2>3, <2>5, <3>1, <3>2 DEF HistoryTypes
  <2>7. FileFit'
    BY <2>1, <2>2 DEF FileFit, Fit
  <2>8. Shown' \subseteq Shown /\ Owed' \subseteq Owed /\ runs \in Nat
    BY <1>0, <2>1, <2>3 DEF Shown, Owed, HistoryTypes
  <2>9. CutsFit'
    <3>1. ASSUME NEW q \in Pruners, prune'[q].at = "write"
          PROVE  Fit(prune'[q].cut, runs', Shown', Owed') /\ ~prune'[q].cut.half
      <4>1. prune'[q] = prune[q]
        BY <2>5, <3>1
      <4>2. Fit(prune[q].cut, runs, Shown, Owed) /\ ~prune[q].cut.half
        BY <1>0, <3>1, <4>1 DEF CutsFit
      <4>3. Fit(prune[q].cut, runs, Shown', Owed')
        BY <2>8, <4>2, FitsLess
      <4> QED
        BY <2>1, <4>1, <4>2, <4>3
    <3> QED
      BY <2>1, <3>1 DEF CutsFit
  <2>10. TwoCross'
    <3>1. halved' => crossed'
      BY <1>0, <2>1, <2>3 DEF TwoCross, c
    <3>2. ~temp'.half
      BY <2>1, NoCutIs DEF Log!NoTemp
    <3> QED
      BY <1>0, <2>1, <2>5, <3>1, <3>2 DEF TwoCross
  <2>11. \A s \in Log!RunsOn(c.kept) : s \in Log!Recorded'
    <3>1. \A i \in DOMAIN c.kept : i \in Log!Readable'
      BY <2>1, <2>2 DEF Fit, OnePerLine, Log!Readable, Log!Parses
    <3> QED
      BY <2>1, <3>1, OnLines, InRecordNext
  <2>12. Log!HistoryAccounted'
    <3>1. ASSUME ~halved', NEW s \in whole', s \notin Log!Recorded'
          PROVE  s \in dropped' \cup raced' \cup glued'
      <4>1. s \in Shown \/ s \in dropped \cup raced \cup glued
        BY <2>1, <2>3, <3>1 DEF Shown
      <4>2. s \in Shown => s \in c.old \cup c.since
        BY <2>2, <2>3, <2>11, <3>1 DEF Fit
      <4> QED
        BY <2>1, <4>1, <4>2
    <3> QED
      BY <3>1 DEF Log!HistoryAccounted
  <2>13. Log!NewestStays'
    <3> SUFFICES ASSUME Keep > 0, ~halved', whole' \ (glued' \cup raced') # {}
                 PROVE  \E r \in Log!Recorded' : \A s \in whole' \ (glued' \cup raced') : s <= r
      BY DEF Log!NewestStays
    <3>1. whole' \ (glued' \cup raced') = Owed \ c.since
      BY <2>1, <2>3 DEF Owed
    <3>2. \E r \in Log!RunsOn(c.kept) : \A s \in Owed \ c.since : s <= r
      BY <2>2, <2>3, <3>1 DEF Fit
    <3> QED
      BY <2>11, <3>1, <3>2
  <2> QED
    BY <2>6, <2>7, <2>9, <2>10, <2>12, <2>13 DEF HistoryInv
<1> QED
  BY <1>1, <1>2

LEMMA HistoryStep == ASSUME HistoryInv, [Log!Next]_Log!histVars PROVE HistoryInv'
<1>1. ASSUME Log!Appends PROVE HistoryInv'
  BY <1>1, HistoryAppends DEF Log!Appends
<1>2. ASSUME Log!AppendTorn PROVE HistoryInv'
  BY <1>2, HistoryAppends DEF Log!AppendTorn, Log!ghosts
<1>3. ASSUME UNCHANGED Log!histVars PROVE HistoryInv'
  <2>1. UNCHANGED <<file, torn, temp, runs, whole, prune, glued, dropped, raced, halved, crossed>>
    BY <1>3 DEF Log!histVars, Log!ghosts
  <2>2. Log!Recorded' = Log!Recorded
    BY <2>1 DEF Log!Recorded, Log!Readable, Log!Parses, Log!Place, Log!Lines
  <2>3. Shown' = Shown /\ Owed' = Owed
    BY <2>1 DEF Shown, Owed
  <2>4. Log!HistoryAccounted' /\ Log!NewestStays'
    BY <2>1, <2>2 DEF HistoryInv, Log!HistoryAccounted, Log!NewestStays
  <2>5. HistoryTypes' /\ FileFit' /\ CutsFit' /\ TwoCross'
    BY <2>1, <2>3 DEF HistoryInv, HistoryTypes, FileFit, CutsFit, TwoCross
  <2> QED
    BY <2>4, <2>5 DEF HistoryInv
<1> QED
  BY <1>1, <1>2, <1>3, HistoryRead, HistoryWrites, HistoryTears, HistoryRenames, HistoryFails
     DEF Log!Next

(* The history of runs (append and prune of runs.rs), with any number of   *)
(* runs and of commands that prune at once, whatever --keep says and       *)
(* wherever each of them dies: nothing is lost but what a prune dropped as *)
(* old, raced with or found torn; only two prunes at a time can leave a    *)
(* half-written file; the newest run stays, and so does the order.         *)
THEOREM HistoryKeptTheorem == ToolsSpec => []HistoryKept
<1> DEFINE Inv == which = "history" => HistoryInv
<1>1. ToolsInit => Inv
  BY HistoryBegins DEF ToolsInit
<1>2. Inv /\ [ToolsNext]_all => Inv'
  <2> SUFFICES ASSUME Inv, [ToolsNext]_all, which' = "history" PROVE HistoryInv'
    OBVIOUS
  <2>1. which = "history" /\ [Log!Next]_Log!histVars
    BY DEF ToolsNext, CommandsEnd, all, logged, Log!histVars, Log!ghosts
  <2> QED
    BY <2>1, HistoryStep
<1>3. Inv => HistoryKept
  <2> SUFFICES ASSUME HistoryInv, which = "history" PROVE HistoryKept
    BY DEF HistoryKept
  <2>1. Log!TypeOK
    <3>1. /\ runs \in 0 .. MaxRuns /\ whole \subseteq 1 .. runs /\ torn \in BOOLEAN
          /\ DOMAIN file \subseteq 1 .. runs /\ \A i \in DOMAIN file : file[i] \subseteq 1 .. runs
      BY DEF HistoryInv, HistoryTypes, FileFit, Numbered
    <3>2. Log!RunsOn(file) \subseteq 1 .. runs
      BY <3>1, OnLines
    <3> QED
      BY <3>1, <3>2 DEF Log!TypeOK
  <2>2. Log!OldestFirst
    BY DEF Log!OldestFirst, Log!Readable, HistoryInv, FileFit, Ascending
  <2>3. Log!HalfFileTakesTwo
    BY DEF Log!HalfFileTakesTwo, HistoryInv, TwoCross
  <2> QED
    BY <2>1, <2>2, <2>3 DEF HistoryKept, HistoryInv
<1> QED
  BY <1>1, <1>2, <1>3, PTL DEF ToolsSpec

-----------------------------------------------------------------------------
(* Artifacts. What is in a file is a beginning of one build's artifact.    *)

(* What a build may gather for a platform: nothing, an engine, or an       *)
(* engine and an extension, each at its offset.                            *)
Bare(h) == h.blobs = <<>> /\ h.entries = <<>>
Engined(h, t) ==
    /\ h.platform = t /\ h.blobs = Build!EngineOf(t, h.blobs[1].n)
    /\ h.entries = <<[offset |-> 0, length |-> 2]>>
Extended(h, t) ==
    /\ h.platform = t
    /\ h.blobs = <<Build!Unit("engine", t, h.blobs[1].n), Build!Unit("engine", t, h.blobs[1].n),
                   Build!Unit("extension", t, 0)>>
    /\ h.entries = <<[offset |-> 0, length |-> 2], [offset |-> 2, length |-> 1]>>
Gathered(h, t) == Bare(h) \/ Engined(h, t) \/ Extended(h, t)

(* The artifact of a build, unit by unit.                                  *)
UnitAt(b, h, t, i) ==
    IF i = 1 THEN Build!Unit("runner", t, 0)
    ELSE IF i <= Len(h.blobs) + 1 THEN h.blobs[i - 1]
    ELSE IF i = Len(h.blobs) + 2 THEN Build!Unit("header", b, 0)
    ELSE IF i = Len(h.blobs) + 3 THEN Build!Unit("number", "", 1)
    ELSE IF i = Len(h.blobs) + 4 THEN Build!Unit("number", "", Len(h.blobs))
    ELSE Build!Unit("magic", "", Build!Huge)
UnitsOf(b, h, t, n) == {UnitAt(b, h, t, i) : i \in 1 .. n}
Beginning(b, h, t, n) == [i \in 1 .. n |-> UnitAt(b, h, t, i)]

(* How much of it is written in each stage.                                *)
WrittenBy(s, m) ==
    IF s = "blobs" THEN 1
    ELSE IF s = "header" THEN m + 1
    ELSE IF s = "hlen" THEN m + 2
    ELSE IF s = "blen" THEN m + 3
    ELSE m + 4

Writing == {"blobs", "header", "hlen", "blen", "magic"}
Decided == Writing \cup {"copy", "done", "dead"}

BuildFits(b) ==
    LET h == payload[b]
        t == setup[b].target
    IN  /\ setup[b].to \in Build!Destinations
        /\ stage[b] \in {"compile", "runner", "gather", "extend", "check", "refused"} \cup Decided
        /\ stage[b] \in {"compile", "runner", "gather"} => Bare(h)
        /\ stage[b] = "extend" => Engined(h, t)
        /\ stage[b] \in Decided \cup {"check"} => Gathered(h, t)
        /\ stage[b] \in Decided => h.digest = h.blobs

BeginningOf(f, s, p, w) ==
    f = <<>> \/ \E b \in Builders : \E n \in 0 .. Len(p[b].blobs) + 5 :
        s[b] \in Decided /\ f = Beginning(b, p[b], w[b].target, n)
IsBeginning(f) == BeginningOf(f, stage, payload, setup)

DestinationFits(d) ==
    /\ writers[d] = {b \in Builders : setup[b].to = d /\ stage[b] \in Writing}
    /\ d \notin mixed =>
        /\ \A b, c \in writers[d] : b = c
        /\ \A b \in writers[d] :
             built[d] = Beginning(b, payload[b], setup[b].target,
                                  WrittenBy(stage[b], Len(payload[b].blobs)))
        /\ IsBeginning(built[d])

ArtifactTypes ==
    /\ stage = [b \in Builders |-> stage[b]] /\ payload = [b \in Builders |-> payload[b]]
    /\ built = [d \in Build!Destinations |-> built[d]]
    /\ writers = [d \in Build!Destinations |-> writers[d]]
    /\ mixed \subseteq Build!Destinations
    /\ \A b \in Builders : payload[b] \in [blobs : {payload[b].blobs}, entries : {payload[b].entries},
                                           digest : {payload[b].digest}, platform : {payload[b].platform}]

BuildInv ==
    /\ ArtifactTypes
    /\ \A b \in Builders : BuildFits(b)
    /\ \A d \in Build!Destinations : DestinationFits(d)

Blobs(s, t) ==
    /\ Len(s) \in Nat /\ s \in Seq({s[i] : i \in 1 .. Len(s)})
    /\ \A i \in 1 .. Len(s) : s[i].is \in {"engine", "extension"} /\ s[i].what = t

LEMMA BlobsAre == ASSUME NEW h, NEW t, Gathered(h, t) PROVE Blobs(h.blobs, t)
<1>1. CASE Bare(h)
  BY <1>1 DEF Bare, Blobs
<1>2. CASE Engined(h, t)
  <2> DEFINE u == Build!Unit("engine", t, h.blobs[1].n)
  <2>1. h.blobs = <<u, u>>
    BY <1>2 DEF Engined, Build!EngineOf
  <2>2. u.is = "engine" /\ u.what = t
    BY DEF Build!Unit
  <2> HIDE DEF u
  <2> QED
    BY <2>1, <2>2 DEF Blobs
<1>3. CASE Extended(h, t)
  <2> DEFINE u == Build!Unit("engine", t, h.blobs[1].n)
             x == Build!Unit("extension", t, 0)
  <2>1. h.blobs = <<u, u, x>>
    BY <1>3 DEF Extended
  <2>2. u.is = "engine" /\ u.what = t /\ x.is = "extension" /\ x.what = t
    BY DEF Build!Unit
  <2> HIDE DEF u, x
  <2> QED
    BY <2>1, <2>2 DEF Blobs
<1> QED
  BY <1>1, <1>2, <1>3 DEF Gathered

LEMMA BeginningIs ==
    ASSUME NEW b, NEW h, NEW t, NEW n \in Nat
    PROVE  /\ Len(Beginning(b, h, t, n)) = n
           /\ Beginning(b, h, t, n) \in Seq(UnitsOf(b, h, t, n))
           /\ \A i \in 1 .. n : Beginning(b, h, t, n)[i] = UnitAt(b, h, t, i)
<1> DEFINE S == UnitsOf(b, h, t, n)
           f == Beginning(b, h, t, n)
<1>1. f \in [1 .. n -> S] /\ \A i \in 1 .. n : f[i] = UnitAt(b, h, t, i)
  BY DEF Beginning, UnitsOf
<1> HIDE DEF S, f
<1>2. f \in Seq(S)
  BY <1>1, SeqDef
<1>3. Len(f) \in Nat /\ DOMAIN f = 1 .. Len(f) /\ DOMAIN f = 1 .. n
  BY <1>1, <1>2, LenProperties
<1>4. Len(f) = n
  <2>1. CASE Len(f) < n
    <3>1. n \in 1 .. n /\ n \notin 1 .. Len(f)
      BY <1>3, <2>1
    <3> QED
      BY <1>3, <3>1
  <2>2. CASE n < Len(f)
    <3>1. Len(f) \in 1 .. Len(f) /\ Len(f) \notin 1 .. n
      BY <1>3, <2>2
    <3> QED
      BY <1>3, <3>1
  <2>3. Len(f) \in Nat
    BY <1>3
  <2> QED
    BY <2>1, <2>2, <2>3
<1> QED
  BY <1>1, <1>2, <1>4 DEF f, S

(* The units of p are the k of build b's artifact after its first n.       *)
NextUnits(p, b, h, t, n, k) ==
    /\ n \in Nat /\ k \in Nat
    /\ \E S : p \in Seq(S)
    /\ Len(p) = k
    /\ \A j \in 1 .. k : p[j] = UnitAt(b, h, t, n + j)

(* What is written next makes a longer beginning.                          *)
LEMMA BeginningGrows ==
    ASSUME NEW b, NEW h, NEW t, NEW n, NEW k, NEW p, NextUnits(p, b, h, t, n, k)
    PROVE  Beginning(b, h, t, n) \o p = Beginning(b, h, t, n + k)
<1>1. PICK S : p \in Seq(S)
  BY DEF NextUnits
<1>2. /\ n \in Nat /\ k \in Nat /\ Len(p) = k
      /\ \A j \in 1 .. k : p[j] = UnitAt(b, h, t, n + j)
  BY DEF NextUnits
<1> DEFINE f == Beginning(b, h, t, n)
           g == Beginning(b, h, t, n + k)
           F == UnitsOf(b, h, t, n)
           G == UnitsOf(b, h, t, n + k)
           U == S \cup F \cup G
<1>3. n + k \in Nat
  BY <1>2
<1>4. /\ Len(f) = n /\ f \in Seq(F) /\ \A i \in 1 .. n : f[i] = UnitAt(b, h, t, i)
      /\ Len(g) = n + k /\ g \in Seq(G) /\ \A i \in 1 .. n + k : g[i] = UnitAt(b, h, t, i)
  BY <1>3, <1>2, BeginningIs
<1>5. F \subseteq U /\ G \subseteq U /\ S \subseteq U
  OBVIOUS
<1> HIDE DEF f, g, F, G, U
<1>6. f \in Seq(U) /\ g \in Seq(U) /\ p \in Seq(U)
  BY <1>1, <1>4, <1>5, SeqMonotonic
<1>7. /\ f \o p \in Seq(U) /\ Len(f \o p) = n + k
      /\ \A i \in 1 .. n + k : (f \o p)[i] = IF i <= n THEN f[i] ELSE p[i - n]
  BY <1>4, <1>6, <1>2, ConcatProperties
<1>8. ASSUME NEW i \in 1 .. n + k PROVE (f \o p)[i] = g[i]
  <2>1. CASE i <= n
    BY <1>4, <1>7, <1>2, <2>1
  <2>2. CASE ~(i <= n)
    <3>1. i - n \in 1 .. k /\ n + (i - n) = i
      BY <1>2, <2>2
    <3>2. p[i - n] = UnitAt(b, h, t, n + (i - n))
      BY <1>2, <3>1
    <3> QED
      BY <1>4, <1>7, <1>2, <2>2, <3>1, <3>2
  <2> QED
    BY <2>1, <2>2
<1>9. f \o p = g
  BY <1>4, <1>6, <1>7, <1>8, <1>2, SeqEqual
<1> QED
  BY <1>9 DEF f, g

(* A runner alone is the shortest beginning that holds anything.           *)
LEMMA RunnerBegins ==
    ASSUME NEW b, NEW h, NEW t
    PROVE  Build!RunnerOf(t) = Beginning(b, h, t, 1)
<1> DEFINE r == Build!Unit("runner", t, 0)
           f == Beginning(b, h, t, 1)
           F == UnitsOf(b, h, t, 1)
<1>1. Len(f) = 1 /\ f \in Seq(F) /\ \A i \in 1 .. 1 : f[i] = UnitAt(b, h, t, i)
  BY BeginningIs
<1>2. UnitAt(b, h, t, 1) = r
  BY DEF UnitAt
<1>3. Build!RunnerOf(t) = <<r>>
  BY DEF Build!RunnerOf
<1> HIDE DEF r, f, F
<1>4. f[1] = r
  BY <1>1, <1>2
<1>5. f = <<r>>
  BY <1>1, <1>4
<1> QED
  BY <1>3, <1>5 DEF f

(* A file that is cut short is a shorter one.                              *)
LEMMA BeginningCut ==
    ASSUME NEW b, NEW h, NEW t, NEW n \in Nat, NEW m \in 0 .. n
    PROVE  SubSeq(Beginning(b, h, t, n), 1, m) = Beginning(b, h, t, m)
<1> DEFINE f == Beginning(b, h, t, n)
           g == Beginning(b, h, t, m)
           F == UnitsOf(b, h, t, n)
           G == UnitsOf(b, h, t, m)
<1>1. /\ Len(f) = n /\ f \in Seq(F) /\ \A i \in 1 .. n : f[i] = UnitAt(b, h, t, i)
      /\ Len(g) = m /\ g \in Seq(G) /\ \A i \in 1 .. m : g[i] = UnitAt(b, h, t, i)
  BY BeginningIs
<1>2. \A i \in 1 .. m : f[i] \in G
  BY <1>1 DEF UnitsOf
<1> HIDE DEF f, g, F, G
<1>3. /\ SubSeq(f, 1, m) \in Seq(G) /\ Len(SubSeq(f, 1, m)) = IF 1 <= m THEN m - 1 + 1 ELSE 0
      /\ \A i \in 1 .. m - 1 + 1 : SubSeq(f, 1, m)[i] = f[1 + i - 1]
  BY <1>2, SubSeqProperties
<1>4. Len(SubSeq(f, 1, m)) = m /\ \A i \in 1 .. m : SubSeq(f, 1, m)[i] = g[i]
  BY <1>1, <1>3
<1>5. SubSeq(f, 1, m) = g
  BY <1>1, <1>3, <1>4, SeqEqual
<1> QED
  BY <1>5 DEF f, g

(* Only the last unit is the magic number: what runs is whole.             *)
LEMMA RunsIsWhole ==
    ASSUME NEW b, NEW h, NEW t, Gathered(h, t), NEW n \in 0 .. Len(h.blobs) + 5,
           Build!Runs(Beginning(b, h, t, n))
    PROVE  n = Len(h.blobs) + 5
<1> DEFINE f == Beginning(b, h, t, n)
<1>1. /\ Len(h.blobs) \in Nat
      /\ \A i \in 1 .. Len(h.blobs) : h.blobs[i].is \in {"engine", "extension"}
  BY BlobsAre DEF Blobs
<1>2. Len(f) = n /\ \A i \in 1 .. n : f[i] = UnitAt(b, h, t, i)
  BY <1>1, BeginningIs
<1>3. ~(Len(f) < 3) /\ f[Len(f)].is = "magic"
  BY DEF Build!Runs, Build!Starts, Build!Reads, Build!Last, Build!Trailer
<1> HIDE DEF f
<1>4. n \in 1 .. n /\ UnitAt(b, h, t, n).is = "magic" /\ n # 1
  BY <1>1, <1>2, <1>3
<1>5. CASE n <= Len(h.blobs) + 1
  <2>1. UnitAt(b, h, t, n) = h.blobs[n - 1] /\ n - 1 \in 1 .. Len(h.blobs)
    BY <1>1, <1>4, <1>5 DEF UnitAt
  <2> QED
    BY <1>1, <1>4, <2>1
<1>6. CASE n \in Len(h.blobs) + 2 .. Len(h.blobs) + 4
  <2>1. UnitAt(b, h, t, n).is \in {"header", "number"}
    BY <1>1, <1>4, <1>6 DEF UnitAt, Build!Unit
  <2> QED
    BY <1>4, <2>1
<1> QED
  BY <1>1, <1>4, <1>5, <1>6

LEMMA UnitIs ==
    ASSUME NEW is, NEW what, NEW n
    PROVE  /\ Build!Unit(is, what, n).is = is /\ Build!Unit(is, what, n).what = what
           /\ Build!Unit(is, what, n).n = n
BY DEF Build!Unit

(* All of it.                                                              *)
IsAll(f, b, h, t) == f = Beginning(b, h, t, Len(h.blobs) + 5)
Carries(f, b, s, t) ==
    /\ Len(f) = Len(s) + 5 /\ Build!Back(f, 1).n = Len(s)
    /\ Build!Back(f, 3).what = b /\ Build!StartOf(f) = 1
    /\ \A i \in 1 .. Len(s) : f[i + 1] = s[i]
    /\ f[1] = Build!Unit("runner", t, 0)

LEMMA WholeIs ==
    ASSUME NEW b, NEW h, NEW t, Gathered(h, t), NEW f, IsAll(f, b, h, t)
    PROVE  Carries(f, b, h.blobs, t)
<1> DEFINE m == Len(h.blobs)
<1>1. m \in Nat
  BY BlobsAre DEF Blobs
<1>2. Len(f) = m + 5 /\ \A i \in 1 .. m + 5 : f[i] = UnitAt(b, h, t, i)
  BY <1>1, BeginningIs DEF IsAll
<1>3. /\ f[m + 4] = Build!Unit("number", "", m) /\ f[m + 3] = Build!Unit("number", "", 1)
      /\ f[m + 2] = Build!Unit("header", b, 0) /\ f[1] = Build!Unit("runner", t, 0)
  <2>1. /\ m + 4 \in 1 .. m + 5 /\ m + 3 \in 1 .. m + 5 /\ m + 2 \in 1 .. m + 5 /\ 1 \in 1 .. m + 5
    BY <1>1
  <2>2. /\ UnitAt(b, h, t, m + 4) = Build!Unit("number", "", m)
        /\ UnitAt(b, h, t, m + 3) = Build!Unit("number", "", 1)
        /\ UnitAt(b, h, t, m + 2) = Build!Unit("header", b, 0)
        /\ UnitAt(b, h, t, 1) = Build!Unit("runner", t, 0)
    <3>1. UnitAt(b, h, t, 1) = Build!Unit("runner", t, 0)
      BY DEF UnitAt
    <3>2. UnitAt(b, h, t, m + 2) = Build!Unit("header", b, 0)
      BY <1>1 DEF UnitAt
    <3>3. UnitAt(b, h, t, m + 3) = Build!Unit("number", "", 1)
      <4>1. m + 3 # 1 /\ ~(m + 3 <= m + 1) /\ m + 3 # m + 2
        BY <1>1
      <4> QED
        BY <4>1, Zenon DEF UnitAt
    <3>4. UnitAt(b, h, t, m + 4) = Build!Unit("number", "", m)
      <4>1. m + 4 # 1 /\ ~(m + 4 <= m + 1) /\ m + 4 # m + 2 /\ m + 4 # m + 3
        BY <1>1
      <4> QED
        BY <4>1, Zenon DEF UnitAt
    <3> QED
      BY <3>1, <3>2, <3>3, <3>4
  <2> HIDE DEF m
  <2> QED
    BY <1>2, <2>1, <2>2
<1>4. ASSUME NEW i \in 1 .. m PROVE f[i + 1] = h.blobs[i]
  <2>1. i + 1 \in 1 .. m + 5 /\ i + 1 # 1 /\ i + 1 <= m + 1 /\ (i + 1) - 1 = i
    BY <1>1
  <2>2. UnitAt(b, h, t, i + 1) = h.blobs[(i + 1) - 1]
    BY <2>1 DEF UnitAt
  <2> QED
    BY <1>2, <2>1, <2>2
<1> HIDE DEF m
<1>5. /\ Build!Back(f, 1) = f[m + 4] /\ Build!Back(f, 2) = f[m + 3] /\ Build!Back(f, 3) = f[m + 2]
  BY <1>1, <1>2 DEF Build!Back
<1>6. Build!Back(f, 1).n = m /\ Build!Back(f, 2).n = 1 /\ Build!Back(f, 3).what = b
  <2>1. /\ Build!Back(f, 1) = Build!Unit("number", "", m)
        /\ Build!Back(f, 2) = Build!Unit("number", "", 1)
        /\ Build!Back(f, 3) = Build!Unit("header", b, 0)
    BY <1>3, <1>5, Zenon
  <2>2. /\ Build!Unit("number", "", m).n = m /\ Build!Unit("number", "", 1).n = 1
        /\ Build!Unit("header", b, 0).what = b
    BY DEF Build!Unit
  <2> QED
    BY <2>1, <2>2, Zenon
<1>7. Build!StartOf(f) = 1
  BY <1>1, <1>2, <1>6 DEF Build!StartOf, Build!Claimed, Build!Trailer
<1> QED
  BY <1>2, <1>3, <1>4, <1>6, <1>7 DEF m, Carries

LEMMA TwoOf == ASSUME NEW f, NEW u, f[2] = u, f[3] = u PROVE SubSeq(f, 2, 3) = <<u, u>>
<1>1. \A i \in 2 .. 3 : f[i] \in {u}
  <2>1. \A i \in 2 .. 3 : i = 2 \/ i = 3
    OBVIOUS
  <2> QED
    BY <2>1
<1>2. /\ SubSeq(f, 2, 3) \in Seq({u}) /\ Len(SubSeq(f, 2, 3)) = IF 2 <= 3 THEN 3 - 2 + 1 ELSE 0
  BY <1>1, SubSeqProperties
<1>3. Len(SubSeq(f, 2, 3)) = 2 /\ \A i \in 1 .. 2 : SubSeq(f, 2, 3)[i] = u
  BY <1>2, ElementOfSeq
<1>4. <<u, u>> \in Seq({u}) /\ Len(<<u, u>>) = 2 /\ \A i \in 1 .. 2 : <<u, u>>[i] = u
  OBVIOUS
<1> QED
  BY <1>2, <1>3, <1>4, SeqEqual, ZenonT(30)

LEMMA OneOf == ASSUME NEW f, NEW u, f[4] = u PROVE SubSeq(f, 4, 4) = <<u>>
<1>1. \A i \in 4 .. 4 : f[i] \in {u}
  <2>1. \A i \in 4 .. 4 : i = 4
    OBVIOUS
  <2> QED
    BY <2>1
<1>2. /\ SubSeq(f, 4, 4) \in Seq({u}) /\ Len(SubSeq(f, 4, 4)) = IF 4 <= 4 THEN 4 - 4 + 1 ELSE 0
  BY <1>1, SubSeqProperties
<1>3. Len(SubSeq(f, 4, 4)) = 1 /\ \A i \in 1 .. 1 : SubSeq(f, 4, 4)[i] = u
  BY <1>2, ElementOfSeq
<1>4. <<u>> \in Seq({u}) /\ Len(<<u>>) = 1 /\ \A i \in 1 .. 1 : <<u>>[i] = u
  OBVIOUS
<1> QED
  BY <1>2, <1>3, <1>4, SeqEqual, ZenonT(30)

(* The embedded files are the units between the runner and the header.     *)
LEMMA CarriedIs ==
    ASSUME NEW b, NEW h, NEW t, Gathered(h, t), NEW f, IsAll(f, b, h, t)
    PROVE  Build!Carried(f) = h.blobs
<1> DEFINE m == Len(h.blobs)
           S == {h.blobs[i] : i \in 1 .. m}
<1>1. m \in Nat /\ h.blobs \in Seq(S)
  BY BlobsAre DEF Blobs
<1>2. Len(f) = m + 5 /\ Build!StartOf(f) = 1 /\ \A i \in 1 .. m : f[i + 1] = h.blobs[i]
  <2>1. Carries(f, b, h.blobs, t)
    BY WholeIs
  <2> QED
    BY <1>1, <2>1 DEF Carries
<1>3. \A i \in 2 .. m + 1 : f[i] \in S
  <2> SUFFICES ASSUME NEW i \in 2 .. m + 1 PROVE f[i] \in S
    OBVIOUS
  <2>1. i - 1 \in 1 .. m /\ (i - 1) + 1 = i
    BY <1>1
  <2>2. f[(i - 1) + 1] = h.blobs[i - 1]
    BY <1>2, <2>1
  <2> QED
    BY <2>1, <2>2
<1>4. Len(h.blobs) = m
  OBVIOUS
<1> HIDE DEF m, S
<1>5. Build!Carried(f) = SubSeq(f, 2, m + 1)
  BY <1>1, <1>2 DEF Build!Carried, Build!Trailer
<1>6. /\ SubSeq(f, 2, m + 1) \in Seq(S)
      /\ Len(SubSeq(f, 2, m + 1)) = IF 2 <= m + 1 THEN (m + 1) - 2 + 1 ELSE 0
      /\ \A i \in 1 .. (m + 1) - 2 + 1 : SubSeq(f, 2, m + 1)[i] = f[2 + i - 1]
  BY <1>1, <1>3, SubSeqProperties
<1>7. Len(SubSeq(f, 2, m + 1)) = m
  BY <1>1, <1>6
<1>8. ASSUME NEW i \in 1 .. m PROVE SubSeq(f, 2, m + 1)[i] = h.blobs[i]
  <2>1. i \in 1 .. (m + 1) - 2 + 1 /\ 2 + i - 1 = i + 1
    BY <1>1
  <2> QED
    BY <1>2, <1>6, <2>1
<1> QED
  BY <1>1, <1>4, <1>5, <1>6, <1>7, <1>8, SeqEqual

-----------------------------------------------------------------------------
IsWhole(f, b) ==
    /\ stage[b] \in Decided /\ Gathered(payload[b], setup[b].target)
    /\ IsAll(f, b, payload[b], setup[b].target)

LEMMA NothingRuns == ~Build!Runs(<<>>)
BY DEF Build!Runs, Build!Starts, Build!Reads, Build!Trailer

LEMMA WhatRuns ==
    ASSUME BuildInv, NEW f, IsBeginning(f), Build!Runs(f)
    PROVE  \E b \in Builders : IsWhole(f, b) /\ Build!HeaderOf(f) = payload[b]
<1>0. PICK b \in Builders : \E n \in 0 .. Len(payload[b].blobs) + 5 :
        stage[b] \in Decided /\ f = Beginning(b, payload[b], setup[b].target, n)
  BY NothingRuns DEF IsBeginning, BeginningOf
<1>1. PICK n \in 0 .. Len(payload[b].blobs) + 5 :
        stage[b] \in Decided /\ f = Beginning(b, payload[b], setup[b].target, n)
  BY <1>0
<1>2. Gathered(payload[b], setup[b].target)
  BY <1>1 DEF BuildInv, BuildFits
<1>3. n = Len(payload[b].blobs) + 5
  BY <1>1, <1>2, RunsIsWhole
<1>4. IsAll(f, b, payload[b], setup[b].target)
  BY <1>1, <1>3 DEF IsAll
<1>5. Build!Back(f, 3).what = b
  <2>1. Carries(f, b, payload[b].blobs, setup[b].target)
    BY <1>2, <1>4, WholeIs
  <2> QED
    BY <2>1, Zenon DEF Carries
<1> QED
  BY <1>1, <1>2, <1>4, <1>5 DEF IsWhole, Build!HeaderOf

LEMMA CopyIsBeginning ==
    ASSUME BuildInv, NEW f \in Build!Copies PROVE IsBeginning(f)
<1>1. PICK d \in Build!Destinations \ mixed : \E n \in 0 .. Len(built[d]) : f = SubSeq(built[d], 1, n)
  BY DEF Build!Copies
<1>2. PICK n \in 0 .. Len(built[d]) : f = SubSeq(built[d], 1, n)
  BY <1>1
<1>3. IsBeginning(built[d])
  BY DEF BuildInv, DestinationFits
<1>4. CASE built[d] = <<>>
  <2>1. n = 0
    BY <1>4
  <2>2. SubSeq(built[d], 1, 0) = <<>>
    BY SubSeqEmpty
  <2> QED
    BY <1>2, <2>1, <2>2 DEF IsBeginning, BeginningOf
<1>5. CASE built[d] # <<>>
  <2>0. PICK b \in Builders : \E k \in 0 .. Len(payload[b].blobs) + 5 :
          stage[b] \in Decided /\ built[d] = Beginning(b, payload[b], setup[b].target, k)
    BY <1>3, <1>5 DEF IsBeginning, BeginningOf
  <2>1. PICK k \in 0 .. Len(payload[b].blobs) + 5 :
          stage[b] \in Decided /\ built[d] = Beginning(b, payload[b], setup[b].target, k)
    BY <2>0
  <2>2. Gathered(payload[b], setup[b].target)
    BY <2>1 DEF BuildInv, BuildFits
  <2>3. Len(payload[b].blobs) \in Nat
    BY <2>2, BlobsAre DEF Blobs
  <2>4. k \in Nat /\ Len(built[d]) = k
    BY <2>1, <2>3, BeginningIs
  <2>5. n \in 0 .. k /\ n \in 0 .. Len(payload[b].blobs) + 5
    BY <2>3, <2>4
  <2>6. f = Beginning(b, payload[b], setup[b].target, n)
    BY <1>2, <2>1, <2>4, <2>5, BeginningCut
  <2> QED
    BY <2>1, <2>5, <2>6 DEF IsBeginning, BeginningOf
<1> QED
  BY <1>4, <1>5

LEMMA FilesReadBack ==
    ASSUME NEW b, NEW h, NEW t, Gathered(h, t), NEW f, IsAll(f, b, h, t),
           NEW i \in DOMAIN h.entries
    PROVE  Build!ReadFile(f, h.entries[i]) =
             IF i = 1 THEN Build!EngineOf(h.platform, h.blobs[1].n) ELSE Build!ExtensionOf(h.platform)
<1> DEFINE u == Build!Unit("engine", t, h.blobs[1].n)
           x == Build!Unit("extension", t, 0)
           e1 == [offset |-> 0, length |-> 2]
           e2 == [offset |-> 2, length |-> 1]
<1>1. /\ Build!Back(f, 1).n = Len(h.blobs) /\ Build!StartOf(f) = 1
      /\ \A j \in 1 .. Len(h.blobs) : f[j + 1] = h.blobs[j]
  <2>1. Carries(f, b, h.blobs, t)
    BY WholeIs
  <2> QED
    BY <2>1 DEF Carries
<1>2. Build!EngineOf(t, h.blobs[1].n) = <<u, u>> /\ Build!ExtensionOf(t) = <<x>>
  BY DEF Build!EngineOf, Build!ExtensionOf
<1>3. ~Bare(h)
  BY DEF Bare
<1>4. /\ h.platform = t
      /\ \/ h.blobs = <<u, u>> /\ h.entries = <<e1>>
         \/ h.blobs = <<u, u, x>> /\ h.entries = <<e1, e2>>
  BY <1>2, <1>3 DEF Gathered, Engined, Extended
<1> HIDE DEF u, x
<1>5. (i = 1 /\ h.entries[i] = e1) \/ (i = 2 /\ h.entries[i] = e2 /\ h.blobs = <<u, u, x>>)
  BY <1>4
<1>6. CASE i = 1 /\ h.entries[i] = e1
  <2>1. Len(h.blobs) \in {2, 3} /\ h.blobs[1] = u /\ h.blobs[2] = u
    BY <1>4
  <2>2. f[1 + 1] = u /\ f[2 + 1] = u
    BY <1>1, <2>1
  <2>3. Build!ReadFile(f, e1) = SubSeq(f, 2, 3)
    BY <1>1, <2>1 DEF Build!ReadFile
  <2>4. SubSeq(f, 2, 3) = <<u, u>>
    BY <2>2, TwoOf
  <2> QED
    BY <1>2, <1>4, <1>6, <2>3, <2>4
<1>7. CASE i = 2 /\ h.entries[i] = e2 /\ h.blobs = <<u, u, x>>
  <2>1. Len(h.blobs) = 3 /\ h.blobs[3] = x
    BY <1>7
  <2>2. f[3 + 1] = x
    BY <1>1, <2>1
  <2>3. Build!ReadFile(f, e2) = SubSeq(f, 4, 4)
    BY <1>1, <2>1 DEF Build!ReadFile
  <2>4. SubSeq(f, 4, 4) = <<x>>
    BY <2>2, OneOf
  <2> QED
    <3>1. i # 1 /\ Build!ExtensionOf(h.platform) = <<x>>
      BY <1>2, <1>4, <1>7
    <3>2. Build!ReadFile(f, h.entries[i]) = <<x>>
      BY <1>7, <2>3, <2>4
    <3> QED
      BY <3>1, <3>2
<1> QED
  BY <1>5, <1>6, <1>7

LEMMA BuildTold == ASSUME BuildInv PROVE Build!ReadsBack /\ Build!OnePlatform /\ Build!KeyMeansEngine
<1>1. Build!ReadsBack
  <2> SUFFICES ASSUME NEW f \in Build!Copies, Build!Runs(f), NEW i \in DOMAIN Build!HeaderOf(f).entries
               PROVE  Build!ReadFile(f, Build!HeaderOf(f).entries[i]) =
                        IF i = 1 THEN Build!EngineOf(Build!HeaderOf(f).platform, Build!HeaderOf(f).blobs[1].n)
                        ELSE Build!ExtensionOf(Build!HeaderOf(f).platform)
    BY DEF Build!ReadsBack
  <2>1. PICK b \in Builders : IsWhole(f, b) /\ Build!HeaderOf(f) = payload[b]
    BY CopyIsBeginning, WhatRuns
  <2> DEFINE h == payload[b]
             t == setup[b].target
  <2>2. Gathered(h, t) /\ IsAll(f, b, h, t) /\ Build!HeaderOf(f) = h
    BY <2>1 DEF IsWhole
  <2> HIDE DEF h, t
  <2>3. i \in DOMAIN h.entries
    BY <2>2
  <2> QED
    BY <2>2, <2>3, FilesReadBack
<1>2. ASSUME NEW d \in Build!Destinations, Build!Whole(d)
      PROVE  \E b \in Builders : IsWhole(built[d], b) /\ Build!HeaderOf(built[d]) = payload[b]
  <2>1. IsBeginning(built[d]) /\ Build!Runs(built[d])
    BY <1>2 DEF BuildInv, DestinationFits, Build!Whole
  <2> QED
    BY <2>1, WhatRuns
<1>3. Build!OnePlatform
  <2> SUFFICES ASSUME NEW d \in Build!Destinations, Build!Whole(d),
                      Build!HeaderOf(built[d]).entries # <<>>,
                      NEW i \in 1 .. Len(built[d]) - Build!Trailer - 1
               PROVE  built[d][i].what = Build!HeaderOf(built[d]).platform
    BY DEF Build!OnePlatform
  <2>1. PICK b \in Builders : IsWhole(built[d], b) /\ Build!HeaderOf(built[d]) = payload[b]
    BY <1>2
  <2> DEFINE h == payload[b]
             t == setup[b].target
             f == built[d]
  <2>2. Gathered(h, t) /\ IsAll(f, b, h, t) /\ Build!HeaderOf(f) = h
    BY <2>1 DEF IsWhole
  <2>3. h.entries # <<>> /\ i \in 1 .. Len(f) - Build!Trailer - 1
    BY <2>2
  <2>9. i \in 1 .. Len(f) - 4
    BY <2>3 DEF Build!Trailer
  <2> HIDE DEF h, t, f
  <2>4. /\ Len(h.blobs) \in Nat
        /\ \A j \in 1 .. Len(h.blobs) : h.blobs[j].what = t
    BY <2>2, BlobsAre DEF Blobs
  <2>5. /\ Len(f) = Len(h.blobs) + 5 /\ f[1] = Build!Unit("runner", t, 0)
        /\ \A j \in 1 .. Len(h.blobs) : f[j + 1] = h.blobs[j]
    <3>1. Carries(f, b, h.blobs, t)
      BY <2>2, WholeIs
    <3> QED
      BY <3>1 DEF Carries
  <2>6. h.platform = t
    BY <2>2, <2>3 DEF Gathered, Bare, Engined, Extended
  <2>7. f[i].what = t
    <3>1. CASE i = 1
      <4>1. f[i] = Build!Unit("runner", t, 0)
        BY <2>5, <3>1
      <4>2. Build!Unit("runner", t, 0).what = t
        BY DEF Build!Unit
      <4> QED
        BY <4>1, <4>2
    <3>2. CASE i # 1
      <4>1. i - 1 \in 1 .. Len(h.blobs) /\ (i - 1) + 1 = i
        BY <2>9, <2>4, <2>5, <3>2
      <4>2. f[(i - 1) + 1] = h.blobs[i - 1] /\ h.blobs[i - 1].what = t
        BY <2>4, <2>5, <4>1
      <4> QED
        BY <4>1, <4>2
    <3> QED
      BY <3>1, <3>2
  <2> QED
    BY <2>2, <2>6, <2>7 DEF f
<1>4. Build!KeyMeansEngine
  <2> SUFFICES ASSUME NEW d \in Build!Destinations, NEW e \in Build!Destinations,
                      Build!Whole(d), Build!Whole(e), Build!Key(built[d]) = Build!Key(built[e])
               PROVE  Build!Carried(built[d]) = Build!Carried(built[e])
    BY DEF Build!KeyMeansEngine
  <2>1. PICK b \in Builders : IsWhole(built[d], b) /\ Build!HeaderOf(built[d]) = payload[b]
    BY <1>2
  <2>2. PICK c \in Builders : IsWhole(built[e], c) /\ Build!HeaderOf(built[e]) = payload[c]
    BY <1>2
  <2>3. Build!Carried(built[d]) = payload[b].blobs /\ Build!Carried(built[e]) = payload[c].blobs
    BY <2>1, <2>2, CarriedIs DEF IsWhole
  <2>4. payload[b].digest = payload[b].blobs /\ payload[c].digest = payload[c].blobs
    BY <2>1, <2>2 DEF IsWhole, BuildInv, BuildFits
  <2>5. [payload[b] EXCEPT !.blobs = <<>>] = [payload[c] EXCEPT !.blobs = <<>>]
    BY <2>1, <2>2 DEF Build!Key
  <2>6. "digest" \in DOMAIN payload[b] /\ "digest" \in DOMAIN payload[c]
    BY DEF BuildInv, ArtifactTypes
  <2>7. payload[b].digest = payload[c].digest
    BY <2>5, <2>6
  <2> QED
    BY <2>3, <2>4, <2>7
<1> QED
  BY <1>1, <1>3, <1>4

-----------------------------------------------------------------------------
LEMMA BuildBegins == ASSUME Build!Init PROVE BuildInv
<1>1. /\ stage = [b \in Builders |-> "compile"] /\ payload = [b \in Builders |-> Build!NoPayload]
      /\ built = [d \in Build!Destinations |-> <<>>] /\ writers = [d \in Build!Destinations |-> {}]
      /\ mixed = {}
  BY DEF Build!Init
<1>2. \A b \in Builders : setup[b].to \in Build!Destinations
  BY DEF Build!Init, Build!Setups
<1>3. ArtifactTypes
  BY <1>1 DEF ArtifactTypes, Build!NoPayload
<1>4. ASSUME NEW b \in Builders PROVE BuildFits(b)
  <2>1. Bare(payload[b]) /\ stage[b] = "compile"
    BY <1>1 DEF Build!NoPayload, Bare
  <2> QED
    BY <1>2, <2>1 DEF BuildFits, Decided, Writing
<1>5. ASSUME NEW d \in Build!Destinations PROVE DestinationFits(d)
  BY <1>1 DEF DestinationFits, IsBeginning, BeginningOf, Writing
<1> QED
  BY <1>3, <1>4, <1>5 DEF BuildInv

LEMMA StaysBeginning ==
    ASSUME NEW f, NEW s, NEW p, NEW w, BeginningOf(f, s, p, w), NEW s2, NEW p2,
           \A c \in Builders : s[c] \in Decided => s2[c] \in Decided /\ p2[c] = p[c]
    PROVE  BeginningOf(f, s2, p2, w)
<1>1. CASE f = <<>>
  BY <1>1 DEF BeginningOf
<1>2. CASE f # <<>>
  <2>1. PICK c \in Builders : \E n \in 0 .. Len(p[c].blobs) + 5 :
          s[c] \in Decided /\ f = Beginning(c, p[c], w[c].target, n)
    BY <1>2 DEF BeginningOf
  <2>2. s2[c] \in Decided /\ p2[c] = p[c]
    BY <2>1
  <2>3. \E n \in 0 .. Len(p2[c].blobs) + 5 :
          s2[c] \in Decided /\ f = Beginning(c, p2[c], w[c].target, n)
    BY <2>1, <2>2
  <2> QED
    BY <2>3 DEF BeginningOf
<1> QED
  BY <1>1, <1>2

(* What the step of one build leaves alone.                                *)
OnlyOf(b) ==
    /\ setup' = setup /\ mixed' \subseteq Build!Destinations
    /\ \A c \in Builders \ {b} : stage'[c] = stage[c] /\ payload'[c] = payload[c]
    /\ stage[b] \in Decided => stage'[b] \in Decided /\ payload'[b] = payload[b]
    /\ ArtifactTypes'

(* A destination that is not the build's, or that it does not write to.    *)
LEMMA FileStays ==
    ASSUME BuildInv, NEW d \in Build!Destinations, NEW b \in Builders, OnlyOf(b),
           built'[d] = built[d], writers'[d] = writers[d], d \in mixed <=> d \in mixed',
           setup[b].to = d => stage[b] \notin Writing /\ stage'[b] \notin Writing
    PROVE  DestinationFits(d)'
<1>1. DestinationFits(d)
  BY DEF BuildInv
<1>2. writers'[d] = {c \in Builders : setup'[c].to = d /\ stage'[c] \in Writing}
  BY <1>1 DEF DestinationFits, OnlyOf
<1>3. b \notin writers[d] /\ writers[d] \subseteq Builders
  BY <1>1 DEF DestinationFits
<1>4. ASSUME d \notin mixed'
      PROVE  /\ \A a, c \in writers'[d] : a = c
             /\ \A c \in writers'[d] :
                  built'[d] = Beginning(c, payload'[c], setup'[c].target,
                                        WrittenBy(stage'[c], Len(payload'[c].blobs)))
  BY <1>1, <1>3, <1>4 DEF DestinationFits, OnlyOf
<1>5. ASSUME d \notin mixed' PROVE IsBeginning(built[d])'
  <2>1. BeginningOf(built[d], stage, payload, setup)
    BY <1>1, <1>5 DEF DestinationFits, IsBeginning
  <2>2. \A c \in Builders : stage[c] \in Decided => stage'[c] \in Decided /\ payload'[c] = payload[c]
    BY DEF OnlyOf
  <2>3. BeginningOf(built[d], stage', payload', setup)
    BY <2>1, <2>2, StaysBeginning
  <2> QED
    BY <2>3 DEF IsBeginning, OnlyOf
<1> QED
  BY <1>2, <1>4, <1>5 DEF DestinationFits

LEMMA OthersFit ==
    ASSUME BuildInv, NEW b \in Builders, OnlyOf(b), NEW c \in Builders, c # b PROVE BuildFits(c)'
BY DEF BuildInv, BuildFits, OnlyOf

(* A build before it writes.                                               *)
LEMMA BuildsEarly ==
    ASSUME BuildInv, NEW b \in Builders, OnlyOf(b), UNCHANGED <<built, writers, mixed>>,
           stage[b] \notin Writing, stage'[b] \notin Writing, BuildFits(b)'
    PROVE  BuildInv'
<1>1. \A c \in Builders : BuildFits(c)'
  BY OthersFit
<1>2. \A d \in Build!Destinations : DestinationFits(d)'
  BY FileStays
<1>3. ArtifactTypes'
  BY DEF OnlyOf
<1> QED
  BY <1>1, <1>2, <1>3 DEF BuildInv

LEMMA StageNext ==
    ASSUME BuildInv, NEW b \in Builders, NEW s, Build!Goto(b, s)
    PROVE  /\ stage'[b] = s /\ \A c \in Builders \ {b} : stage'[c] = stage[c]
           /\ stage' = [c \in Builders |-> stage'[c]]
BY DEF BuildInv, ArtifactTypes, Build!Goto

LEMMA BuildCompiles ==
    ASSUME BuildInv, NEW b \in Builders, Build!Compile(b) \/ Build!LocateRunner(b) PROVE BuildInv'
<1>1. /\ stage[b] \in {"compile", "runner"}
      /\ UNCHANGED <<setup, payload, built, writers, mixed>>
  BY DEF Build!Compile, Build!LocateRunner, Build!World
<1>2. PICK s \in {"runner", "refused", "gather", "check"} : Build!Goto(b, s)
  BY DEF Build!Compile, Build!LocateRunner
<1>3. /\ stage'[b] = s /\ \A c \in Builders \ {b} : stage'[c] = stage[c]
      /\ stage' = [c \in Builders |-> stage'[c]]
  BY <1>2, StageNext
<1>4. OnlyOf(b)
  BY <1>1, <1>3 DEF OnlyOf, BuildInv, ArtifactTypes, Decided, Writing
<1>5. Bare(payload[b]) /\ setup[b].to \in Build!Destinations
  BY <1>1 DEF BuildInv, BuildFits
<1>6. BuildFits(b)'
  BY <1>1, <1>3, <1>5 DEF BuildFits, Decided, Writing, Gathered, Bare
<1> QED
  BY <1>1, <1>3, <1>4, <1>6, BuildsEarly DEF Writing

LEMMA BuildStill ==
    ASSUME BuildInv, UNCHANGED <<setup, stage, payload, built, writers, mixed>> PROVE BuildInv'
BY DEF BuildInv, ArtifactTypes, BuildFits, DestinationFits, IsBeginning

LEMMA BuildRefuses ==
    ASSUME BuildInv, NEW b \in Builders, stage[b] \in {"gather", "extend", "check"},
           Build!Goto(b, "refused"), UNCHANGED <<setup, payload, built, writers, mixed>>
    PROVE  BuildInv'
<1>1. /\ stage'[b] = "refused" /\ \A c \in Builders \ {b} : stage'[c] = stage[c]
      /\ stage' = [c \in Builders |-> stage'[c]]
  BY StageNext
<1>2. OnlyOf(b)
  BY <1>1 DEF OnlyOf, BuildInv, ArtifactTypes, Decided, Writing
<1>3. BuildFits(b)'
  BY <1>1 DEF BuildInv, BuildFits, Decided, Writing
<1> QED
  BY <1>1, <1>2, <1>3, BuildsEarly DEF Writing

LEMMA TwoAndOne == ASSUME NEW u, NEW x PROVE <<u, u>> \o <<x>> = <<u, u, x>> /\ Append(<<u>>, x) = <<u, x>>
<1>1. <<u, u>> \in Seq({u, x}) /\ <<x>> \in Seq({u, x}) /\ <<u>> \in Seq({u, x}) /\ x \in {u, x}
  OBVIOUS
<1>2. /\ <<u, u>> \o <<x>> \in Seq({u, x})
      /\ Len(<<u, u>> \o <<x>>) = Len(<<u, u>>) + Len(<<x>>)
      /\ \A i \in 1 .. Len(<<u, u>>) + Len(<<x>>) : (<<u, u>> \o <<x>>)[i] =
            IF i <= Len(<<u, u>>) THEN <<u, u>>[i] ELSE <<x>>[i - Len(<<u, u>>)]
  BY <1>1, ConcatProperties
<1> DEFINE f == <<u, u>> \o <<x>>
<1>3. f \in Seq({u, x}) /\ Len(f) = 3 /\ f[1] = u /\ f[2] = u /\ f[3] = x
  BY <1>2
<1> HIDE DEF f
<1>4. f = <<u, u, x>>
  BY <1>3
<1> DEFINE g == Append(<<u>>, x)
<1>5. g \in Seq({u, x}) /\ Len(g) = 2 /\ g[1] = u /\ g[2] = x
  BY <1>1, AppendProperties
<1> HIDE DEF g
<1>6. g = <<u, x>>
  BY <1>5
<1> QED
  BY <1>4, <1>6 DEF f, g

LEMMA Embeds ==
    ASSUME BuildInv, NEW b \in Builders, NEW bytes, Build!Embed(b, bytes)
    PROVE  /\ payload'[b].blobs = payload[b].blobs \o bytes
           /\ payload'[b].entries = Append(payload[b].entries,
                [offset |-> Len(payload[b].blobs), length |-> Len(bytes)])
           /\ payload'[b].platform = setup[b].target /\ payload'[b].digest = payload[b].digest
           /\ payload' = [c \in Builders |-> payload'[c]]
           /\ \A c \in Builders \ {b} : payload'[c] = payload[c]
           /\ payload'[b] \in [blobs : {payload'[b].blobs}, entries : {payload'[b].entries},
                               digest : {payload'[b].digest}, platform : {payload'[b].platform}]
<1> DEFINE h == payload[b]
           e == Append(h.entries, [offset |-> Len(h.blobs), length |-> Len(bytes)])
           k == [[[h EXCEPT !.blobs = h.blobs \o bytes] EXCEPT !.entries = e]
                   EXCEPT !.platform = setup[b].target]
<1>1. payload = [c \in Builders |-> payload[c]] /\ h \in [blobs : {h.blobs}, entries : {h.entries},
                                           digest : {h.digest}, platform : {h.platform}]
  BY DEF BuildInv, ArtifactTypes
<1>2. payload' = [payload EXCEPT ![b] = k]
  BY <1>1 DEF Build!Embed, Build!EntryAt
<1>3. payload'[b] = k /\ \A c \in Builders \ {b} : payload'[c] = payload[c]
  BY <1>1, <1>2
<1>4. payload' = [c \in Builders |-> payload'[c]]
  BY <1>1, <1>2
<1> DEFINE o == h.blobs \o bytes
<1>5. k = [blobs |-> o, entries |-> e, digest |-> h.digest, platform |-> setup[b].target]
  <2> HIDE DEF e
  <2>1. k = [[[h EXCEPT !.blobs = o] EXCEPT !.entries = e] EXCEPT !.platform = setup[b].target]
    OBVIOUS
  <2>2. h = [blobs |-> h.blobs, entries |-> h.entries, digest |-> h.digest, platform |-> h.platform]
    BY <1>1
  <2> HIDE DEF o, k
  <2>3. [h EXCEPT !.blobs = o] =
          [blobs |-> o, entries |-> h.entries, digest |-> h.digest, platform |-> h.platform]
    BY <2>2
  <2> QED
    BY <2>1, <2>3
<1> HIDE DEF e, o, k
<1>6. /\ k.blobs = o /\ k.entries = e /\ k.platform = setup[b].target /\ k.digest = h.digest
      /\ k \in [blobs : {k.blobs}, entries : {k.entries}, digest : {k.digest}, platform : {k.platform}]
  BY <1>5
<1> QED
  BY <1>3, <1>4, <1>6 DEF e, o

LEMMA BuildGathers == ASSUME BuildInv, NEW b \in Builders, Build!GatherEngine(b) PROVE BuildInv'
<1> DEFINE t == setup[b].target
           bytes == Build!EngineFor(t)
           u == Build!Unit("engine", t, engines[t])
<1>1. /\ stage[b] = "gather" /\ UNCHANGED <<setup, built, writers, mixed>>
      /\ \/ Build!Goto(b, "refused") /\ payload' = payload
         \/ /\ bytes # <<>> /\ Build!Embed(b, bytes)
            /\ \/ Build!Goto(b, "extend")
               \/ Build!Goto(b, "check")
  BY DEF Build!GatherEngine, Build!World
<1>2. CASE Build!Goto(b, "refused") /\ payload' = payload
  BY <1>1, <1>2, BuildRefuses
<1>3. CASE bytes # <<>> /\ Build!Embed(b, bytes)
  <2>1. PICK s \in {"extend", "check"} : Build!Goto(b, s)
    <3>1. \A x : Build!Goto(b, x) => stage'[b] = x
      BY StageNext
    <3>2. CASE Build!Goto(b, "refused")
      BY <1>1, <1>3, <3>2 DEF Build!GatherEngine
    <3> QED
      BY <1>1, <3>2
  <2>2. /\ stage'[b] = s /\ \A c \in Builders \ {b} : stage'[c] = stage[c]
        /\ stage' = [c \in Builders |-> stage'[c]]
    BY <2>1, StageNext
  <2>3. bytes = <<u, u>>
    BY <1>3 DEF Build!EngineFor, Build!EngineOf
  <2>4. Bare(payload[b]) /\ setup[b].to \in Build!Destinations
    BY <1>1 DEF BuildInv, BuildFits
  <2> HIDE DEF bytes
  <2>5. /\ payload'[b].blobs = payload[b].blobs \o bytes
        /\ payload'[b].entries = Append(payload[b].entries,
             [offset |-> Len(payload[b].blobs), length |-> Len(bytes)])
        /\ payload'[b].platform = setup[b].target
        /\ payload' = [c \in Builders |-> payload'[c]]
        /\ \A c \in Builders \ {b} : payload'[c] = payload[c]
        /\ payload'[b] \in [blobs : {payload'[b].blobs}, entries : {payload'[b].entries},
                            digest : {payload'[b].digest}, platform : {payload'[b].platform}]
    BY <1>3, Embeds
  <2>6. ArtifactTypes'
    BY <1>1, <2>2, <2>5 DEF BuildInv, ArtifactTypes
  <2>7. OnlyOf(b)
    BY <1>1, <2>2, <2>5, <2>6 DEF OnlyOf, BuildInv, ArtifactTypes, Decided, Writing
  <2>8. Engined(payload'[b], t)
    <3>1. payload'[b].blobs = <<u, u>>
      <4>1. <<>> \o <<u, u>> = <<u, u>>
        OBVIOUS
      <4> QED
        BY <2>3, <2>4, <2>5, <4>1 DEF Bare
    <3>2. payload'[b].entries = <<[offset |-> 0, length |-> 2]>>
      <4>1. Len(bytes) = 2 /\ Len(payload[b].blobs) = 0
        BY <2>3, <2>4 DEF Bare
      <4>2. payload'[b].entries = Append(<<>>, [offset |-> 0, length |-> 2])
        BY <2>4, <2>5, <4>1 DEF Bare
      <4> QED
        BY <4>2
    <3>3. payload'[b].blobs[1].n = engines[t]
      BY <3>1 DEF Build!Unit
    <3> QED
      BY <2>5, <3>1, <3>2, <3>3 DEF Engined, Build!EngineOf
  <2>9. BuildFits(b)'
    BY <1>1, <2>2, <2>4, <2>8 DEF BuildFits, Decided, Writing, Gathered
  <2> QED
    BY <1>1, <2>2, <2>7, <2>9, BuildsEarly DEF Writing
<1> QED
  BY <1>1, <1>2, <1>3

LEMMA BuildExtends == ASSUME BuildInv, NEW b \in Builders, Build!GatherExtension(b) PROVE BuildInv'
<1> DEFINE t == setup[b].target
           bytes == Build!ExtensionOf(t)
           u == Build!Unit("engine", t, payload[b].blobs[1].n)
           x == Build!Unit("extension", t, 0)
<1>1. /\ stage[b] = "extend" /\ UNCHANGED <<setup, built, writers, mixed>>
      /\ \/ Build!Goto(b, "refused") /\ payload' = payload
         \/ Build!Embed(b, bytes) /\ Build!Goto(b, "check")
  BY DEF Build!GatherExtension, Build!World
<1>2. CASE Build!Goto(b, "refused") /\ payload' = payload
  BY <1>1, <1>2, BuildRefuses
<1>3. CASE Build!Embed(b, bytes) /\ Build!Goto(b, "check")
  <2>2. /\ stage'[b] = "check" /\ \A c \in Builders \ {b} : stage'[c] = stage[c]
        /\ stage' = [c \in Builders |-> stage'[c]]
    BY <1>3, StageNext
  <2>3. bytes = <<x>>
    BY DEF Build!ExtensionOf
  <2>4. Engined(payload[b], t) /\ setup[b].to \in Build!Destinations
    BY <1>1 DEF BuildInv, BuildFits
  <2> HIDE DEF bytes
  <2>5. /\ payload'[b].blobs = payload[b].blobs \o bytes
        /\ payload'[b].entries = Append(payload[b].entries,
             [offset |-> Len(payload[b].blobs), length |-> Len(bytes)])
        /\ payload'[b].platform = setup[b].target
        /\ payload' = [c \in Builders |-> payload'[c]]
        /\ \A c \in Builders \ {b} : payload'[c] = payload[c]
        /\ payload'[b] \in [blobs : {payload'[b].blobs}, entries : {payload'[b].entries},
                            digest : {payload'[b].digest}, platform : {payload'[b].platform}]
    BY <1>3, Embeds
  <2>6. ArtifactTypes'
    BY <1>1, <2>2, <2>5 DEF BuildInv, ArtifactTypes
  <2>7. OnlyOf(b)
    BY <1>1, <2>2, <2>5, <2>6 DEF OnlyOf, BuildInv, ArtifactTypes, Decided, Writing
  <2>8. Extended(payload'[b], t)
    <3>0. /\ payload[b].blobs = <<u, u>> /\ payload[b].entries = <<[offset |-> 0, length |-> 2]>>
      BY <2>4 DEF Engined, Build!EngineOf
    <3>4. u.n = payload[b].blobs[1].n
      BY DEF Build!Unit
    <3>5. t = setup[b].target
      OBVIOUS
    <3>1. payload'[b].blobs = <<u, u, x>>
      <4> HIDE DEF u, x
      <4>1. <<u, u>> \o <<x>> = <<u, u, x>>
        BY TwoAndOne
      <4> QED
        BY <2>3, <2>5, <3>0, <4>1
    <3>2. payload'[b].entries = <<[offset |-> 0, length |-> 2], [offset |-> 2, length |-> 1]>>
      <4> HIDE DEF u, x
      <4>1. Len(bytes) = 1 /\ Len(payload[b].blobs) = 2
        BY <2>3, <3>0
      <4>2. payload'[b].entries = Append(<<[offset |-> 0, length |-> 2]>>, [offset |-> 2, length |-> 1])
        BY <2>5, <3>0, <4>1
      <4> QED
        BY <4>2, TwoAndOne
    <3>3. payload'[b].blobs[1] = u
      <4> HIDE DEF u, x
      <4> QED
        BY <3>1
    <3> QED
      BY <2>5, <3>1, <3>2, <3>3, <3>4 DEF Extended
  <2>9. BuildFits(b)'
    BY <1>1, <2>2, <2>4, <2>8 DEF BuildFits, Decided, Writing, Gathered
  <2> QED
    BY <1>1, <2>2, <2>7, <2>9, BuildsEarly DEF Writing
<1> QED
  BY <1>1, <1>2, <1>3

LEMMA BuildChecks == ASSUME BuildInv, NEW b \in Builders, Build!CheckRunner(b) PROVE BuildInv'
<1>1. /\ stage[b] = "check" /\ UNCHANGED <<setup, built, writers, mixed>>
      /\ \/ Build!Goto(b, "refused") /\ payload' = payload
         \/ /\ Build!Goto(b, "copy")
            /\ payload' = [payload EXCEPT ![b].digest = payload[b].blobs]
  BY DEF Build!CheckRunner, Build!World, Build!Digest
<1>2. CASE Build!Goto(b, "refused") /\ payload' = payload
  BY <1>1, <1>2, BuildRefuses
<1>3. CASE Build!Goto(b, "copy") /\ payload' = [payload EXCEPT ![b].digest = payload[b].blobs]
  <2> DEFINE h == payload[b]
             k == [h EXCEPT !.digest = h.blobs]
  <2>1. /\ stage'[b] = "copy" /\ \A c \in Builders \ {b} : stage'[c] = stage[c]
        /\ stage' = [c \in Builders |-> stage'[c]]
    BY <1>3, StageNext
  <2>2. payload = [c \in Builders |-> payload[c]] /\ h \in [blobs : {h.blobs}, entries : {h.entries},
                                           digest : {h.digest}, platform : {h.platform}]
    BY DEF BuildInv, ArtifactTypes
  <2>3. payload'[b] = k /\ \A c \in Builders \ {b} : payload'[c] = payload[c]
    BY <1>3, <2>2
  <2>4. payload' = [c \in Builders |-> payload'[c]]
    BY <1>3, <2>2
  <2>5. k = [blobs |-> h.blobs, entries |-> h.entries, digest |-> h.blobs, platform |-> h.platform]
    BY <2>2
  <2> HIDE DEF k
  <2>6. /\ k.blobs = h.blobs /\ k.entries = h.entries /\ k.platform = h.platform /\ k.digest = h.blobs
        /\ k \in [blobs : {k.blobs}, entries : {k.entries}, digest : {k.digest}, platform : {k.platform}]
    BY <2>5
  <2>7. ArtifactTypes'
    BY <1>1, <2>1, <2>3, <2>4, <2>6 DEF BuildInv, ArtifactTypes
  <2>8. OnlyOf(b)
    BY <1>1, <2>1, <2>3, <2>7 DEF OnlyOf, BuildInv, ArtifactTypes, Decided, Writing
  <2>9. Gathered(h, setup[b].target) /\ setup[b].to \in Build!Destinations
    BY <1>1 DEF BuildInv, BuildFits
  <2>10. Gathered(k, setup[b].target)
    BY <2>6, <2>9 DEF Gathered, Bare, Engined, Extended
  <2>11. BuildFits(b)'
    BY <1>1, <2>1, <2>3, <2>6, <2>9, <2>10 DEF BuildFits, Decided, Writing
  <2> QED
    BY <1>1, <2>1, <2>8, <2>11, BuildsEarly DEF Writing
<1> QED
  BY <1>1, <1>2, <1>3

(* A build at work on its destination: the others are as they were.        *)
LEMMA BuildsAt ==
    ASSUME BuildInv, NEW b \in Builders, OnlyOf(b), stage'[b] \in Decided, stage[b] \in Decided,
           NEW d, d = setup[b].to,
           \A e \in Build!Destinations \ {d} : /\ built'[e] = built[e] /\ writers'[e] = writers[e]
                                               /\ e \in mixed <=> e \in mixed',
           writers'[d] = IF stage'[b] \in Writing THEN writers[d] \cup {b} ELSE writers[d] \ {b},
           d \notin mixed' =>
               /\ stage'[b] \in Writing =>
                    /\ writers[d] \subseteq {b}
                    /\ built'[d] = Beginning(b, payload[b], setup[b].target,
                                             WrittenBy(stage'[b], Len(payload[b].blobs)))
               /\ stage'[b] \notin Writing =>
                    d \notin mixed /\ (built'[d] = built[d] \/ writers[d] \subseteq {b})
               /\ IsBeginning(built'[d])
    PROVE  BuildInv'
<1>1. /\ d \in Build!Destinations /\ Gathered(payload[b], setup[b].target)
      /\ payload[b].digest = payload[b].blobs
  BY DEF BuildInv, BuildFits, Decided
<1>2. payload'[b] = payload[b] /\ setup' = setup
  BY DEF OnlyOf
<1>3. BuildFits(b)'
  BY <1>1, <1>2 DEF BuildFits, Decided, Writing
<1>4. \A c \in Builders : BuildFits(c)'
  BY <1>3, OthersFit
<1>5. \A e \in Build!Destinations \ {d} : DestinationFits(e)'
  BY FileStays
<1>6. DestinationFits(d)'
  <2>1. writers[d] = {c \in Builders : setup[c].to = d /\ stage[c] \in Writing}
    BY <1>1 DEF BuildInv, DestinationFits
  <2>2. \A c \in Builders \ {b} : stage'[c] = stage[c]
    BY DEF OnlyOf
  <2>3. writers'[d] = {c \in Builders : setup'[c].to = d /\ stage'[c] \in Writing}
    BY <1>2, <2>1, <2>2
  <2>4. ASSUME d \notin mixed'
        PROVE  /\ \A a, c \in writers'[d] : a = c
               /\ \A c \in writers'[d] :
                    built'[d] = Beginning(c, payload'[c], setup'[c].target,
                                          WrittenBy(stage'[c], Len(payload'[c].blobs)))
    <3>1. CASE stage'[b] \in Writing
      <4>1. writers'[d] = {b}
        BY <2>4, <3>1
      <4> QED
        BY <1>2, <2>4, <3>1, <4>1
    <3>2. CASE stage'[b] \notin Writing
      <4>1. writers'[d] = writers[d] \ {b} /\ d \notin mixed
        BY <2>4, <3>2
      <4>2. CASE writers[d] \subseteq {b}
        BY <4>1, <4>2
      <4>3. CASE built'[d] = built[d]
        <5>1. /\ \A a, c \in writers[d] : a = c
              /\ \A c \in writers[d] :
                   built[d] = Beginning(c, payload[c], setup[c].target,
                                        WrittenBy(stage[c], Len(payload[c].blobs)))
          BY <1>1, <4>1 DEF BuildInv, DestinationFits
        <5>2. \A c \in writers'[d] : /\ c \in writers[d] /\ stage'[c] = stage[c]
                                     /\ payload'[c] = payload[c]
          BY <2>1, <4>1 DEF OnlyOf
        <5> QED
          BY <1>2, <4>3, <5>1, <5>2
      <4> QED
        BY <2>4, <3>2, <4>2, <4>3
    <3> QED
      BY <3>1, <3>2
  <2>5. ASSUME d \notin mixed' PROVE IsBeginning(built[d])'
    <3>1. BeginningOf(built'[d], stage, payload, setup)
      BY <2>5 DEF IsBeginning
    <3>2. \A c \in Builders : stage[c] \in Decided => stage'[c] \in Decided /\ payload'[c] = payload[c]
      BY DEF OnlyOf
    <3> DEFINE f == built'[d]
               s2 == stage'
               p2 == payload'
    <3> HIDE DEF f, s2, p2
    <3>3. BeginningOf(f, s2, p2, setup)
      BY <3>1, <3>2, StaysBeginning DEF f, s2, p2
    <3> QED
      BY <1>2, <3>3 DEF IsBeginning, f, s2, p2
  <2> QED
    BY <2>3, <2>4, <2>5 DEF DestinationFits
<1>7. ArtifactTypes'
  BY DEF OnlyOf
<1> QED
  BY <1>4, <1>5, <1>6, <1>7 DEF BuildInv

LEMMA BuildCopies == ASSUME BuildInv, NEW b \in Builders, Build!Copy(b) PROVE BuildInv'
<1> DEFINE d == setup[b].to
           h == payload[b]
           t == setup[b].target
<1>1. /\ stage[b] = "copy" /\ setup' = setup /\ payload' = payload /\ Build!Goto(b, "blobs")
      /\ built' = [built EXCEPT ![d] = Build!RunnerOf(t)]
      /\ writers' = [writers EXCEPT ![d] = @ \cup {b}]
      /\ mixed' = IF writers[d] # {} THEN mixed \cup {d} ELSE mixed \ {d}
  BY DEF Build!Copy
<1>2. /\ stage'[b] = "blobs" /\ \A c \in Builders \ {b} : stage'[c] = stage[c]
      /\ stage' = [c \in Builders |-> stage'[c]]
  BY <1>1, StageNext
<1>3. d \in Build!Destinations /\ Gathered(h, t)
  BY <1>1 DEF BuildInv, BuildFits, Decided
<1>4. ArtifactTypes'
  BY <1>1, <1>2, <1>3 DEF BuildInv, ArtifactTypes
<1>5. OnlyOf(b)
  BY <1>1, <1>2, <1>4 DEF OnlyOf, ArtifactTypes, Decided, Writing
<1>6. /\ built'[d] = Build!RunnerOf(t) /\ writers'[d] = writers[d] \cup {b}
      /\ \A e \in Build!Destinations \ {d} : /\ built'[e] = built[e] /\ writers'[e] = writers[e]
                                             /\ e \in mixed <=> e \in mixed'
  BY <1>1, <1>3 DEF BuildInv, ArtifactTypes
<1>7. Build!RunnerOf(t) = Beginning(b, h, t, 1)
  BY RunnerBegins
<1>8. WrittenBy("blobs", Len(h.blobs)) = 1 /\ 1 \in 0 .. Len(h.blobs) + 5
  BY <1>3, BlobsAre DEF WrittenBy, Blobs
<1>9. IsBeginning(built'[d])
  BY <1>1, <1>6, <1>7, <1>8 DEF IsBeginning, BeginningOf, Decided
<1>10. d \notin mixed' => writers[d] = {}
  BY <1>1
<1>11. stage[b] \in Decided /\ stage'[b] \in Decided /\ stage'[b] \in Writing
  BY <1>1, <1>2 DEF Decided, Writing
<1>12. built'[d] = Beginning(b, payload[b], setup[b].target, WrittenBy(stage'[b], Len(payload[b].blobs)))
  BY <1>2, <1>6, <1>7, <1>8
<1> HIDE DEF d
<1>13. d = setup[b].to
  BY DEF d
<1> QED
  BY <1>5, <1>6, <1>9, <1>10, <1>11, <1>12, <1>13, BuildsAt

LEMMA BuildBreaks == ASSUME BuildInv, NEW b \in Builders, Build!BuildDies(b) PROVE BuildInv'
<1> DEFINE d == setup[b].to
<1>1. /\ stage[b] \in Writing \cup {"copy"} /\ Build!Goto(b, "dead")
      /\ UNCHANGED <<setup, payload, built, mixed>> /\ writers' = [writers EXCEPT ![d] = @ \ {b}]
  BY DEF Build!BuildDies, Writing
<1>2. /\ stage'[b] = "dead" /\ \A c \in Builders \ {b} : stage'[c] = stage[c]
      /\ stage' = [c \in Builders |-> stage'[c]]
  BY <1>1, StageNext
<1>3. d \in Build!Destinations
  BY DEF BuildInv, BuildFits
<1>4. ArtifactTypes'
  BY <1>1, <1>2, <1>3 DEF BuildInv, ArtifactTypes
<1>5. OnlyOf(b)
  BY <1>1, <1>2, <1>4 DEF OnlyOf, ArtifactTypes, Decided, Writing
<1>6. /\ built'[d] = built[d] /\ writers'[d] = writers[d] \ {b} /\ mixed' = mixed
      /\ \A e \in Build!Destinations \ {d} : /\ built'[e] = built[e] /\ writers'[e] = writers[e]
                                             /\ e \in mixed <=> e \in mixed'
  BY <1>1, <1>3 DEF BuildInv, ArtifactTypes
<1>7. stage[b] \in Decided /\ stage'[b] \in Decided /\ stage'[b] \notin Writing
  BY <1>1, <1>2 DEF Decided, Writing
<1>8. DestinationFits(d)
  BY <1>3 DEF BuildInv
<1>9. d \notin mixed' => d \notin mixed /\ IsBeginning(built'[d])
  BY <1>6, <1>8 DEF DestinationFits
<1> HIDE DEF d
<1>10. d = setup[b].to
  BY DEF d
<1> QED
  BY <1>5, <1>6, <1>7, <1>9, <1>10, BuildsAt

(* The next piece of an artifact.                                          *)
LEMMA PieceAfter ==
    /\ Build!NextPiece("blobs") = "header" /\ Build!NextPiece("header") = "hlen"
    /\ Build!NextPiece("hlen") = "blen" /\ Build!NextPiece("blen") = "magic"
    /\ Build!NextPiece("magic") = "done"
<1> DEFINE P == Build!Pieces
<1>1. /\ DOMAIN P = 1 .. 6 /\ P[1] = "blobs" /\ P[2] = "header" /\ P[3] = "hlen"
      /\ P[4] = "blen" /\ P[5] = "magic" /\ P[6] = "done"
  BY DEF Build!Pieces
<1>2. \A i \in 1 .. 6 : i \in {1, 2, 3, 4, 5, 6}
  OBVIOUS
<1>3. \A p : Build!NextPiece(p) = P[(CHOOSE i \in DOMAIN P : P[i] = p) + 1]
  BY DEF Build!NextPiece
<1> HIDE DEF P
<1>4. (CHOOSE i \in DOMAIN P : P[i] = "blobs") = 1
  BY <1>1, <1>2
<1>5. (CHOOSE i \in DOMAIN P : P[i] = "header") = 2
  BY <1>1, <1>2
<1>6. (CHOOSE i \in DOMAIN P : P[i] = "hlen") = 3
  BY <1>1, <1>2
<1>7. (CHOOSE i \in DOMAIN P : P[i] = "blen") = 4
  BY <1>1, <1>2
<1>8. (CHOOSE i \in DOMAIN P : P[i] = "magic") = 5
  BY <1>1, <1>2
<1> QED
  BY <1>1, <1>3, <1>4, <1>5, <1>6, <1>7, <1>8

LEMMA PieceIs ==
    ASSUME NEW b \in Builders, stage[b] \in Writing, Gathered(payload[b], setup[b].target)
    PROVE  \E k \in Nat :
             /\ \E S : Build!PieceOf(b) \in Seq(S)
             /\ Len(Build!PieceOf(b)) = k
             /\ WrittenBy(stage[b], Len(payload[b].blobs)) \in Nat
             /\ WrittenBy(stage[b], Len(payload[b].blobs)) + k \in 0 .. Len(payload[b].blobs) + 5
             /\ Build!NextPiece(stage[b]) \in Writing =>
                  WrittenBy(stage[b], Len(payload[b].blobs)) + k
                    = WrittenBy(Build!NextPiece(stage[b]), Len(payload[b].blobs))
             /\ \A j \in 1 .. k : Build!PieceOf(b)[j] =
                  UnitAt(b, payload[b], setup[b].target, WrittenBy(stage[b], Len(payload[b].blobs)) + j)
<1> DEFINE h == payload[b]
           t == setup[b].target
           m == Len(h.blobs)
           n == WrittenBy(stage[b], m)
           p == Build!PieceOf(b)
<1>1. m \in Nat /\ h.blobs \in Seq({h.blobs[i] : i \in 1 .. m})
  BY BlobsAre DEF Blobs
<1>2. CASE stage[b] = "blobs"
  <2>1. p = h.blobs /\ n = 1 /\ Build!NextPiece(stage[b]) = "header"
    BY <1>2, PieceAfter DEF Build!PieceOf, WrittenBy
  <2>2. WrittenBy("header", m) = m + 1
    BY DEF WrittenBy
  <2>3. ASSUME NEW j \in 1 .. m PROVE h.blobs[j] = UnitAt(b, h, t, 1 + j)
    <3>1. 1 + j # 1 /\ 1 + j <= m + 1 /\ (1 + j) - 1 = j
      BY <1>1
    <3>2. UnitAt(b, h, t, 1 + j) = h.blobs[(1 + j) - 1]
      BY <3>1, Zenon DEF UnitAt
    <3> QED
      BY <3>1, <3>2
  <2>4. Len(p) = m
    BY <2>1
  <2> HIDE DEF n, p, m
  <2>5. 1 + m \in 0 .. m + 5 /\ 1 + m = m + 1 /\ 1 \in Nat
    BY <1>1
  <2>6. \E S : p \in Seq(S)
    BY <1>1, <2>1
  <2> QED
    BY <1>1, <2>1, <2>2, <2>3, <2>4, <2>5, <2>6 DEF n, p, m
<1>3. ASSUME stage[b] # "blobs"
      PROVE  \E u : /\ p = <<u>> /\ n \in Nat /\ n + 1 \in 0 .. m + 5 /\ u = UnitAt(b, h, t, n + 1)
                    /\ Build!NextPiece(stage[b]) \in Writing =>
                         n + 1 = WrittenBy(Build!NextPiece(stage[b]), m)
  <2>1. CASE stage[b] = "header"
    <3>1. p = <<Build!Unit("header", b, 0)>> /\ n = m + 1 /\ Build!NextPiece(stage[b]) = "hlen"
      BY <2>1, PieceAfter DEF Build!PieceOf, WrittenBy
    <3>2. (m + 1) + 1 = m + 2 /\ WrittenBy("hlen", m) = m + 2
      BY <1>1 DEF WrittenBy
    <3>3. m + 2 # 1 /\ ~(m + 2 <= m + 1)
      BY <1>1
    <3>4. UnitAt(b, h, t, m + 2) = Build!Unit("header", b, 0)
      BY <3>3, Zenon DEF UnitAt
    <3> HIDE DEF n, p, m
    <3>5. m + 1 \in Nat /\ m + 2 \in 0 .. m + 5
      BY <1>1
    <3> QED
      BY <3>1, <3>2, <3>4, <3>5
  <2>2. CASE stage[b] = "hlen"
    <3>1. p = <<Build!Unit("number", "", 1)>> /\ n = m + 2 /\ Build!NextPiece(stage[b]) = "blen"
      BY <2>2, PieceAfter DEF Build!PieceOf, WrittenBy
    <3>2. (m + 2) + 1 = m + 3 /\ WrittenBy("blen", m) = m + 3
      BY <1>1 DEF WrittenBy
    <3>3. m + 3 # 1 /\ ~(m + 3 <= m + 1) /\ m + 3 # m + 2
      BY <1>1
    <3>4. UnitAt(b, h, t, m + 3) = Build!Unit("number", "", 1)
      BY <3>3, Zenon DEF UnitAt
    <3> HIDE DEF n, p, m
    <3>5. m + 2 \in Nat /\ m + 3 \in 0 .. m + 5
      BY <1>1
    <3> QED
      BY <3>1, <3>2, <3>4, <3>5
  <2>3. CASE stage[b] = "blen"
    <3>1. p = <<Build!Unit("number", "", m)>> /\ n = m + 3 /\ Build!NextPiece(stage[b]) = "magic"
      BY <2>3, PieceAfter DEF Build!PieceOf, WrittenBy
    <3>2. (m + 3) + 1 = m + 4 /\ WrittenBy("magic", m) = m + 4
      BY <1>1 DEF WrittenBy
    <3>3. m + 4 # 1 /\ ~(m + 4 <= m + 1) /\ m + 4 # m + 2 /\ m + 4 # m + 3
      BY <1>1
    <3>4. UnitAt(b, h, t, m + 4) = Build!Unit("number", "", m)
      BY <3>3, Zenon DEF UnitAt
    <3> HIDE DEF n, p, m
    <3>5. m + 3 \in Nat /\ m + 4 \in 0 .. m + 5
      BY <1>1
    <3> QED
      BY <3>1, <3>2, <3>4, <3>5
  <2>4. CASE stage[b] = "magic"
    <3>1. p = <<Build!Unit("magic", "", Build!Huge)>> /\ n = m + 4 /\ Build!NextPiece(stage[b]) = "done"
      BY <2>4, PieceAfter DEF Build!PieceOf, WrittenBy
    <3>2. (m + 4) + 1 = m + 5 /\ "done" \notin Writing
      BY <1>1 DEF Writing
    <3>3. m + 5 # 1 /\ ~(m + 5 <= m + 1) /\ m + 5 # m + 2 /\ m + 5 # m + 3 /\ m + 5 # m + 4
      BY <1>1, SMTT(20)
    <3>4. UnitAt(b, h, t, m + 5) = Build!Unit("magic", "", Build!Huge)
      BY <3>3, Zenon DEF UnitAt
    <3> HIDE DEF n, p, m
    <3>5. m + 4 \in Nat /\ m + 5 \in 0 .. m + 5
      BY <1>1
    <3> QED
      BY <3>1, <3>2, <3>4, <3>5
  <2> QED
    BY <1>3, <2>1, <2>2, <2>3, <2>4 DEF Writing
<1>4. CASE stage[b] # "blobs"
  <2>1. PICK u : /\ p = <<u>> /\ n \in Nat /\ n + 1 \in 0 .. m + 5 /\ u = UnitAt(b, h, t, n + 1)
                 /\ Build!NextPiece(stage[b]) \in Writing =>
                      n + 1 = WrittenBy(Build!NextPiece(stage[b]), m)
    BY <1>3, <1>4
  <2> HIDE DEF n, p, m
  <2>2. p \in Seq({u}) /\ Len(p) = 1 /\ p[1] = u
    BY <2>1
  <2>3. \A j \in 1 .. 1 : p[j] = UnitAt(b, h, t, n + j)
    BY <2>1, <2>2
  <2> QED
    BY <2>1, <2>2, <2>3 DEF n, p, m
<1> QED
  BY <1>2, <1>4

LEMMA BuildWrites == ASSUME BuildInv, NEW b \in Builders, Build!WritePiece(b) PROVE BuildInv'
<1> DEFINE d == setup[b].to
           h == payload[b]
           t == setup[b].target
           m == Len(h.blobs)
           n == WrittenBy(stage[b], m)
           p == Build!PieceOf(b)
           s == Build!NextPiece(stage[b])
<1>1. /\ stage[b] \in Writing /\ setup' = setup /\ payload' = payload /\ mixed' = mixed
      /\ Build!Goto(b, s) /\ built' = [built EXCEPT ![d] = @ \o p]
      /\ writers' = [writers EXCEPT ![d] = IF stage[b] = "magic" THEN @ \ {b} ELSE @]
  BY DEF Build!WritePiece, Writing
<1>2. /\ stage'[b] = s /\ \A c \in Builders \ {b} : stage'[c] = stage[c]
      /\ stage' = [c \in Builders |-> stage'[c]]
  <2> HIDE DEF s
  <2> QED
    BY <1>1, StageNext
<1>3. d \in Build!Destinations /\ Gathered(h, t)
  BY <1>1 DEF BuildInv, BuildFits, Decided
<1>4. stage[b] \in Decided /\ s \in Decided /\ (s \in Writing <=> stage[b] # "magic")
  BY <1>1, PieceAfter DEF Decided, Writing
<1>5. ArtifactTypes'
  BY <1>1, <1>2, <1>3 DEF BuildInv, ArtifactTypes
<1>6. OnlyOf(b)
  BY <1>1, <1>2, <1>4, <1>5 DEF OnlyOf, ArtifactTypes
<1>7. DestinationFits(d)
  BY <1>3 DEF BuildInv
<1>8. b \in writers[d]
  BY <1>1, <1>7 DEF DestinationFits
<1>9. /\ built'[d] = built[d] \o p
      /\ writers'[d] = IF stage[b] = "magic" THEN writers[d] \ {b} ELSE writers[d]
      /\ \A e \in Build!Destinations \ {d} : /\ built'[e] = built[e] /\ writers'[e] = writers[e]
                                             /\ e \in mixed <=> e \in mixed'
  BY <1>1, <1>3 DEF BuildInv, ArtifactTypes
<1>10. writers'[d] = IF stage'[b] \in Writing THEN writers[d] \cup {b} ELSE writers[d] \ {b}
  BY <1>2, <1>4, <1>8, <1>9
<1>11. ASSUME d \notin mixed'
       PROVE  /\ stage'[b] \in Writing =>
                   built'[d] = Beginning(b, h, t, WrittenBy(stage'[b], m))
              /\ writers[d] \subseteq {b} /\ d \notin mixed
              /\ IsBeginning(built'[d])
  <2>1. built[d] = Beginning(b, h, t, n) /\ writers[d] \subseteq {b} /\ d \notin mixed
    BY <1>1, <1>7, <1>8, <1>11 DEF DestinationFits
  <2>2. PICK k \in Nat :
             /\ \E S : p \in Seq(S)
             /\ Len(p) = k /\ n \in Nat /\ n + k \in 0 .. m + 5
             /\ s \in Writing => n + k = WrittenBy(s, m)
             /\ \A j \in 1 .. k : p[j] = UnitAt(b, h, t, n + j)
    BY <1>1, <1>3, PieceIs
  <2>3. PICK S : p \in Seq(S)
    BY <2>2
  <2> HIDE DEF h, t, n, p, s
  <2>4. Beginning(b, h, t, n) \o p = Beginning(b, h, t, n + k)
    <3>1. NextUnits(p, b, h, t, n, k)
      BY <2>2, <2>3 DEF NextUnits
    <3> QED
      BY <3>1, BeginningGrows
  <2>5. built'[d] = Beginning(b, h, t, n + k)
    BY <1>9, <2>1, <2>4
  <2>6. BeginningOf(built'[d], stage, payload, setup)
    <3>1. \E q \in 0 .. Len(payload[b].blobs) + 5 :
            stage[b] \in Decided /\ built'[d] = Beginning(b, payload[b], setup[b].target, q)
      BY <1>4, <2>2, <2>5 DEF h, t
    <3> QED
      BY <3>1 DEF BeginningOf
  <2> QED
    BY <1>2, <2>1, <2>2, <2>5, <2>6 DEF IsBeginning
<1>12. stage'[b] \in Decided
  BY <1>2, <1>4
<1> HIDE DEF d, s
<1>13. d = setup[b].to
  BY DEF d
<1> QED
  BY <1>4, <1>6, <1>9, <1>10, <1>11, <1>12, <1>13, BuildsAt

-----------------------------------------------------------------------------
LEMMA BuildStep == ASSUME BuildInv, Build!Next PROVE BuildInv'
<1>1. CASE \E p \in Build!Platforms : Build!Fetch(p)
  BY <1>1, BuildStill DEF Build!Fetch, Build!World
<1>2. ASSUME NEW b \in Builders,
             \/ Build!Compile(b) \/ Build!LocateRunner(b) \/ Build!GatherEngine(b)
             \/ Build!GatherExtension(b) \/ Build!CheckRunner(b) \/ Build!Copy(b)
             \/ Build!WritePiece(b) \/ Build!BuildDies(b)
      PROVE  BuildInv'
  BY <1>2, BuildCompiles, BuildGathers, BuildExtends, BuildChecks, BuildCopies, BuildWrites, BuildBreaks
<1> QED
  BY <1>1, <1>2 DEF Build!Next

LEMMA BuildTypes == ASSUME BuildInv PROVE Build!TypeOK
<1>1. stage \in [Builders -> {"compile", "runner", "gather", "extend", "check", "refused"} \cup Decided]
  BY DEF BuildInv, ArtifactTypes, BuildFits
<1>2. {"blobs", "header", "hlen", "blen", "magic", "done"} \subseteq Build!ToSet(Build!Pieces)
  <2> DEFINE P == Build!Pieces
  <2>1. /\ 1 \in DOMAIN P /\ 2 \in DOMAIN P /\ 3 \in DOMAIN P /\ 4 \in DOMAIN P /\ 5 \in DOMAIN P
        /\ 6 \in DOMAIN P /\ P[1] = "blobs" /\ P[2] = "header" /\ P[3] = "hlen"
        /\ P[4] = "blen" /\ P[5] = "magic" /\ P[6] = "done"
    BY DEF Build!Pieces
  <2>2. Build!ToSet(P) = {P[i] : i \in DOMAIN P}
    BY DEF Build!ToSet
  <2> HIDE DEF P
  <2>3. {"blobs", "header", "hlen", "blen", "magic", "done"} \subseteq Build!ToSet(P)
    BY <2>1, <2>2
  <2> QED
    BY <2>3 DEF P
<1>3. stage \in [Builders -> {"compile", "runner", "gather", "extend", "check", "copy", "refused", "dead"}
                         \cup Build!ToSet(Build!Pieces)]
  BY <1>1, <1>2 DEF Decided, Writing
<1>4. \A d \in Build!Destinations : writers[d] \subseteq Builders
  BY DEF BuildInv, DestinationFits
<1> QED
  BY <1>3, <1>4 DEF Build!TypeOK, BuildInv, ArtifactTypes

(* For any number of builds of any platforms, into two files, that die     *)
(* anywhere: what runs, cut short or not, reads back each embedded file as *)
(* it was gathered, is of one platform, and shares a cache directory only  *)
(* with what carries the same files (write_built and read_from).           *)
THEOREM ArtifactsReadTheorem == ToolsSpec => []ArtifactsRead
<1> DEFINE Inv == which = "build" => BuildInv
<1>1. ToolsInit => Inv
  BY BuildBegins DEF ToolsInit
<1>2. Inv /\ [ToolsNext]_all => Inv'
  <2> SUFFICES ASSUME Inv, [ToolsNext]_all, which' = "build" PROVE BuildInv'
    OBVIOUS
  <2>1. which = "build"
    BY DEF ToolsNext, CommandsEnd, all
  <2>2. Build!Next \/ UNCHANGED builds
    BY <2>1 DEF ToolsNext, CommandsEnd, all
  <2> QED
    BY <2>1, <2>2, BuildStep, BuildStill DEF builds
<1>3. Inv => ArtifactsRead
  BY BuildTypes, BuildTold DEF ArtifactsRead
<1> QED
  BY <1>1, <1>2, <1>3, PTL DEF ToolsSpec

-----------------------------------------------------------------------------
(* Parameters. What a text means is defined by recursion over its symbols:  *)
(* that there is one such function, and one only, and that it reads a rest  *)
(* of a text as it reads a text, is shown by the least number of symbols    *)
(* for which it might fail.                                                 *)

(* What is read from the i-th symbol on, given what is read further on.     *)
Turn(f, t, g, d, place, i) ==
    IF i > Len(t) THEN <<>>
    ELSE IF t[i] # Refs!Dollar \/ i = Len(t) THEN <<t[i]>> \o f[i + 1]
    ELSE IF t[i + 1] = Refs!Dollar THEN <<Refs!Dollar>> \o f[i + 2]
    ELSE IF t[i + 1].is = "braces" THEN Refs!BoundTo(t[i + 1], g, d, place) \o f[i + 2]
    ELSE <<Refs!Dollar>> \o f[i + 1]

(* f is right from the i-th symbol on.                                      *)
RightFrom(f, t, g, d, place, i) ==
    f = [j \in i .. Len(t) + 1 |-> Turn(f, t, g, d, place, j)]

LEMMA TurnLooksAhead ==
    ASSUME NEW t, Len(t) \in Nat, NEW g, NEW d, NEW place, NEW i \in 1 .. Len(t) + 1, NEW f, NEW h,
           \A j \in i + 1 .. Len(t) + 1 : f[j] = h[j]
    PROVE  Turn(f, t, g, d, place, i) = Turn(h, t, g, d, place, i)
<1>1. CASE i > Len(t)
  BY <1>1 DEF Turn
<1>2. CASE ~(i > Len(t))
  <2>1. f[i + 1] = h[i + 1]
    BY <1>2
  <2>2. i # Len(t) => f[i + 2] = h[i + 2]
    BY <1>2
  <2> QED
    BY <1>2, <2>1, <2>2 DEF Turn
<1> QED
  BY <1>1, <1>2

LEMMA RightOnce ==
    ASSUME NEW t, Len(t) \in Nat, NEW g, NEW d, NEW place, NEW f, NEW h,
           RightFrom(f, t, g, d, place, 1), RightFrom(h, t, g, d, place, 1)
    PROVE  f = h
<1> DEFINE n == Len(t)
           Bad == {k \in 0 .. n : f[n + 1 - k] # h[n + 1 - k]}
<1>1. ASSUME NEW i \in 1 .. n + 1
      PROVE  f[i] = Turn(f, t, g, d, place, i) /\ h[i] = Turn(h, t, g, d, place, i)
  BY <1>1 DEF RightFrom
<1>2. ASSUME Bad # {} PROVE FALSE
  <2>0. Bad \in SUBSET Nat
    OBVIOUS
  <2>1. PICK k \in Bad : \A x \in Bad : k <= x
    <3> HIDE DEF Bad
    <3> QED
      BY <1>2, <2>0, MinFacts
  <2>2. k \in 0 .. n /\ f[n + 1 - k] # h[n + 1 - k]
    BY <2>1
  <2>3. ASSUME NEW j \in n + 1 - k + 1 .. n + 1 PROVE f[j] = h[j]
    <3>1. n + 1 - j \in 0 .. n /\ n + 1 - j < k /\ n + 1 - (n + 1 - j) = j
      BY <2>2, <2>3
    <3>2. n + 1 - j \notin Bad
      BY <2>1, <3>1
    <3> QED
      BY <3>1, <3>2
  <2>4. n + 1 - k \in 1 .. n + 1
    BY <2>2
  <2> HIDE DEF n
  <2>5. Turn(f, t, g, d, place, n + 1 - k) = Turn(h, t, g, d, place, n + 1 - k)
    BY <2>3, <2>4, TurnLooksAhead DEF n
  <2> QED
    BY <1>1, <2>2, <2>4, <2>5
<1>3. ASSUME NEW i \in 1 .. n + 1 PROVE f[i] = h[i]
  <2>1. n + 1 - i \in 0 .. n /\ n + 1 - (n + 1 - i) = i
    BY <1>3
  <2>2. n + 1 - i \notin Bad
    BY <1>2
  <2> QED
    BY <2>1, <2>2
<1>4. f = [i \in 1 .. n + 1 |-> f[i]] /\ h = [i \in 1 .. n + 1 |-> h[i]]
  BY DEF RightFrom
<1> QED
  BY <1>3, <1>4

LEMMA RightExists ==
    ASSUME NEW t, Len(t) \in Nat, NEW g, NEW d, NEW place
    PROVE  \E f : RightFrom(f, t, g, d, place, 1)
<1> DEFINE n == Len(t)
           Bad == {k \in 0 .. n : ~\E f : RightFrom(f, t, g, d, place, n + 1 - k)}
<1>1. ASSUME Bad # {} PROVE FALSE
  <2>0. Bad \in SUBSET Nat
    OBVIOUS
  <2>1. PICK k \in Bad : \A x \in Bad : k <= x
    <3> HIDE DEF Bad
    <3> QED
      BY <1>1, <2>0, MinFacts
  <2>2. k \in 0 .. n /\ ~\E f : RightFrom(f, t, g, d, place, n + 1 - k)
    BY <2>1
  <2>3. CASE k = 0
    <3> DEFINE f == [j \in n + 1 .. n + 1 |-> <<>>]
    <3>1. \A j \in n + 1 .. n + 1 : Turn(f, t, g, d, place, j) = <<>>
      BY DEF Turn
    <3>2. f = [j \in n + 1 .. n + 1 |-> Turn(f, t, g, d, place, j)]
      BY <3>1
    <3>3. n + 1 - k = n + 1
      BY <2>3
    <3> QED
      BY <2>2, <3>2, <3>3 DEF RightFrom
  <2>4. CASE k # 0
    <3> DEFINE a == n + 1 - k
    <3>1. k - 1 \in 0 .. n /\ n + 1 - (k - 1) = a + 1 /\ a \in 1 .. n
      BY <2>2, <2>4
    <3>2. k - 1 \notin Bad
      BY <2>1, <2>2, <2>4
    <3>3. PICK f : RightFrom(f, t, g, d, place, a + 1)
      BY <3>1, <3>2
    <3> DEFINE h == [j \in a .. n + 1 |-> IF j = a THEN Turn(f, t, g, d, place, a) ELSE f[j]]
    <3> HIDE DEF a
    <3>4. ASSUME NEW j \in a .. n + 1 PROVE h[j] = Turn(h, t, g, d, place, j)
      <4>1. \A m \in j + 1 .. n + 1 : m \in a .. n + 1 /\ m # a
        BY <3>1
      <4>2. \A m \in j + 1 .. n + 1 : f[m] = h[m]
        BY <4>1
      <4>3. j \in 1 .. n + 1
        BY <3>1
      <4> HIDE DEF h
      <4>4. Turn(f, t, g, d, place, j) = Turn(h, t, g, d, place, j)
        BY <4>2, <4>3, TurnLooksAhead
      <4>5. CASE j = a
        BY <4>4, <4>5 DEF h
      <4>6. CASE j # a
        <5>1. j \in a + 1 .. n + 1
          BY <3>1, <4>6
        <5>2. f[j] = Turn(f, t, g, d, place, j)
          BY <3>3, <5>1 DEF RightFrom
        <5>3. h[j] = f[j]
          BY <4>6 DEF h
        <5> QED
          BY <4>4, <5>2, <5>3
      <4> QED
        BY <4>5, <4>6
    <3>5. h = [j \in a .. n + 1 |-> Turn(h, t, g, d, place, j)]
      BY <3>4
    <3>6. RightFrom(h, t, g, d, place, a)
      BY <3>5 DEF RightFrom
    <3> QED
      BY <2>2, <3>6 DEF a
  <2> QED
    BY <2>3, <2>4
<1>2. n \in 0 .. n /\ n + 1 - n = 1
  OBVIOUS
<1>3. n \notin Bad
  BY <1>1
<1> HIDE DEF n
<1> QED
  BY <1>2, <1>3

(* What a text means is what any such function says of its first symbol.    *)
LEMMA ReadingIs ==
    ASSUME NEW t, Len(t) \in Nat, NEW g, NEW d, NEW place, NEW f, RightFrom(f, t, g, d, place, 1)
    PROVE  Refs!Reading(t, g, d, place) = f[1]
<1> DEFINE c == CHOOSE h : RightFrom(h, t, g, d, place, 1)
<1>1. Refs!Reading(t, g, d, place) = c[1]
  BY Zenon DEF Refs!Reading, RightFrom, Turn
<1>2. RightFrom(c, t, g, d, place, 1)
  BY Zenon
<1> HIDE DEF c
<1>3. c = f
  BY <1>2, RightOnce
<1> QED
  BY <1>1, <1>3

(* Symbols.                                                                 *)
Said == {"$", "{", "s", "c", "f", "date", "nothing"} \cup Refs!Passes \cup Words

LEMMA CharFacts ==
    ASSUME NEW c \in Said
    PROVE  Refs!Chr(c) \in Refs!Symbols /\ Refs!Chr(c).is = "char" /\ Refs!Chr(c).what = c
<1>1. \A a, b, e : [is |-> a, what |-> b, of |-> e].is = a /\ [is |-> a, what |-> b, of |-> e].what = b
  OBVIOUS
<1> QED
  BY <1>1 DEF Refs!Chr, Refs!Symbols, Said

LEMMA SymbolFacts ==
    /\ Refs!Dollar \in Refs!Symbols /\ Refs!Open \in Refs!Symbols /\ Refs!Secret \in Refs!Symbols
    /\ Refs!Dollar # Refs!Open /\ Refs!Dollar # Refs!Secret
    /\ Refs!Dollar.is # "braces" /\ Refs!Open.is # "braces" /\ Refs!Secret.is # "braces"
    /\ Refs!Nothing \in Seq(Refs!Symbols) /\ Refs!Nothing # <<>>
    /\ Refs!Nothing[1] # Refs!Dollar /\ Refs!Nothing[1] # Refs!Open
    /\ Refs!Nothing[1].is # "braces"
<1>1. \A c \in Said : Refs!Chr(c) \in Refs!Symbols /\ Refs!Chr(c).is = "char" /\ Refs!Chr(c).what = c
  BY CharFacts
<1>2. "$" \in Said /\ "{" \in Said /\ "s" \in Said /\ "nothing" \in Said
  BY DEF Said
<1>5. /\ "char" # "braces" /\ "$" # "{" /\ "$" # "s" /\ "nothing" # "$" /\ "nothing" # "{"
  OBVIOUS
<1>3. /\ Refs!Dollar = Refs!Chr("$") /\ Refs!Open = Refs!Chr("{") /\ Refs!Secret = Refs!Chr("s")
      /\ Refs!Nothing = <<Refs!Chr("nothing")>>
  BY DEF Refs!Dollar, Refs!Open, Refs!Secret, Refs!Nothing
<1>4. \A x \in Refs!Symbols : <<x>> \in Seq(Refs!Symbols) /\ <<x>> # <<>> /\ <<x>>[1] = x
  OBVIOUS
<1> QED
  BY <1>1, <1>2, <1>3, <1>4, <1>5

LEMMA BracesFacts ==
    ASSUME NEW kind \in {"", "name", "context", "env", "secret", "empty"}, NEW name \in Said
    PROVE  /\ Refs!Braces(kind, name) \in Refs!Symbols
           /\ Refs!Braces(kind, name).is = "braces" /\ Refs!Braces(kind, name).of = kind
           /\ Refs!Braces(kind, name).what = name
           /\ Refs!Braces(kind, name) # Refs!Dollar /\ Refs!Braces(kind, name) # Refs!Open
           /\ Refs!Braces(kind, name) # Refs!Secret
<1>1. /\ Refs!Braces(kind, name) \in Refs!Symbols /\ Refs!Braces(kind, name).is = "braces"
      /\ Refs!Braces(kind, name).of = kind /\ Refs!Braces(kind, name).what = name
  BY DEF Refs!Braces, Refs!Symbols, Said
<1>2. Refs!Dollar.is # "braces" /\ Refs!Open.is # "braces" /\ Refs!Secret.is # "braces"
  BY SymbolFacts
<1> QED
  BY <1>1, <1>2

Date == Refs!Braces("name", "date")

LEMMA DateFacts ==
    /\ Date \in Refs!Symbols /\ Date.is = "braces" /\ Date.of = "name" /\ Date.what = "date"
    /\ Date # Refs!Dollar /\ Date # Refs!Open /\ Date # Refs!Secret
<1>1. "name" \in {"", "name", "context", "env", "secret", "empty"} /\ "date" \in Said
  BY DEF Said
<1> QED
  <2>1. /\ Date \in Refs!Symbols /\ Date.is = "braces" /\ Date # Refs!Dollar
        /\ Date # Refs!Open /\ Date # Refs!Secret
    BY <1>1, BracesFacts DEF Date
  <2>2. Date.of = "name" /\ Date.what = "date"
    BY DEF Date, Refs!Braces
  <2> QED
    BY <2>1, <2>2

LEMMA PlainFacts ==
    ASSUME NEW c \in Said
    PROVE  /\ Refs!Chr(c) \in Refs!Symbols /\ Refs!Chr(c).is # "braces"
           /\ c # "$" => Refs!Chr(c) # Refs!Dollar
           /\ c # "s" => Refs!Chr(c) # Refs!Secret
<1>1. \A x \in Said : Refs!Chr(x) \in Refs!Symbols /\ Refs!Chr(x).is = "char" /\ Refs!Chr(x).what = x
  BY CharFacts
<1>2. "$" \in Said /\ "s" \in Said
  BY DEF Said
<1>3. "char" # "braces"
  OBVIOUS
<1>4. Refs!Dollar = Refs!Chr("$") /\ Refs!Secret = Refs!Chr("s")
  BY DEF Refs!Dollar, Refs!Secret
<1> QED
  BY <1>1, <1>2, <1>3, <1>4

(* What references may stand for.                                           *)
Values(g, d) ==
    /\ g.explicit \in Seq(Refs!Symbols) /\ g.active \in Seq(Refs!Symbols)
    /\ g.secret \in Seq(Refs!Symbols) /\ g.env \in Seq(Refs!Symbols)
    /\ d \in Seq(Refs!Symbols)

LEMMA BoundIs ==
    ASSUME NEW ref, NEW g, NEW d, NEW place \in Refs!Passes, Values(g, d)
    PROVE  Refs!BoundTo(ref, g, d, place) \in Seq(Refs!Symbols)
<1>1. <<Refs!Chr("c")>> \in Seq(Refs!Symbols) /\ <<Refs!Chr(place)>> \in Seq(Refs!Symbols)
  <2>0. "c" \in Said /\ place \in Said
    BY DEF Said
  <2>1. Refs!Chr("c") \in Refs!Symbols /\ Refs!Chr(place) \in Refs!Symbols
    BY <2>0, PlainFacts
  <2> QED
    BY <2>1
<1> QED
  BY <1>1 DEF Values, Refs!BoundTo

LEMMA ReadIsText ==
    ASSUME NEW t \in Seq(Refs!Symbols), NEW g, NEW d, NEW place \in Refs!Passes, Values(g, d),
           NEW f, RightFrom(f, t, g, d, place, 1)
    PROVE  \A i \in 1 .. Len(t) + 1 : f[i] \in Seq(Refs!Symbols)
<1> DEFINE n == Len(t)
           Bad == {k \in 0 .. n : f[n + 1 - k] \notin Seq(Refs!Symbols)}
<1>0. n \in Nat
  OBVIOUS
<1>1. ASSUME Bad # {} PROVE FALSE
  <2>0. Bad \in SUBSET Nat
    OBVIOUS
  <2>1. PICK k \in Bad : \A x \in Bad : k <= x
    <3> HIDE DEF Bad
    <3> QED
      BY <1>1, <2>0, MinFacts
  <2> DEFINE i == n + 1 - k
  <2>2. k \in 0 .. n /\ i \in 1 .. n + 1 /\ f[i] \notin Seq(Refs!Symbols)
    BY <1>0, <2>1
  <2>3. ASSUME NEW j \in i + 1 .. n + 1 PROVE f[j] \in Seq(Refs!Symbols)
    <3>1. n + 1 - j \in 0 .. n /\ n + 1 - j < k /\ n + 1 - (n + 1 - j) = j
      BY <1>0, <2>2, <2>3
    <3>2. n + 1 - j \notin Bad
      BY <2>1, <3>1
    <3> QED
      BY <3>1, <3>2
  <2>4. f[i] = Turn(f, t, g, d, place, i)
    BY <2>2 DEF RightFrom
  <2> HIDE DEF i
  <2>5. Turn(f, t, g, d, place, i) \in Seq(Refs!Symbols)
    <3>1. CASE i > Len(t)
      BY <3>1 DEF Turn
    <3>2. CASE ~(i > Len(t))
      <4>1. i \in 1 .. Len(t) /\ t[i] \in Refs!Symbols /\ f[i + 1] \in Seq(Refs!Symbols)
        BY <1>0, <2>2, <2>3, <3>2
      <4>2. <<t[i]>> \in Seq(Refs!Symbols) /\ <<Refs!Dollar>> \in Seq(Refs!Symbols)
        BY <4>1, SymbolFacts
      <4>3. <<t[i]>> \o f[i + 1] \in Seq(Refs!Symbols) /\ <<Refs!Dollar>> \o f[i + 1] \in Seq(Refs!Symbols)
        BY <4>1, <4>2
      <4>4. i # Len(t) =>
              /\ <<Refs!Dollar>> \o f[i + 2] \in Seq(Refs!Symbols)
              /\ Refs!BoundTo(t[i + 1], g, d, place) \o f[i + 2] \in Seq(Refs!Symbols)
        <5>1. i # Len(t) => f[i + 2] \in Seq(Refs!Symbols)
          BY <1>0, <2>2, <2>3, <3>2
        <5>2. Refs!BoundTo(t[i + 1], g, d, place) \in Seq(Refs!Symbols)
          BY BoundIs
        <5>3. \A x, y \in Seq(Refs!Symbols) : x \o y \in Seq(Refs!Symbols)
          OBVIOUS
        <5> QED
          BY <4>2, <5>1, <5>2, <5>3, Zenon
      <4> QED
        BY <3>2, <4>3, <4>4 DEF Turn
    <3> QED
      BY <3>1, <3>2
  <2> QED
    BY <2>2, <2>4, <2>5
<1>2. ASSUME NEW i \in 1 .. n + 1 PROVE f[i] \in Seq(Refs!Symbols)
  <2>1. n + 1 - i \in 0 .. n /\ n + 1 - (n + 1 - i) = i
    BY <1>0, <1>2
  <2>2. n + 1 - i \notin Bad
    BY <1>1
  <2> QED
    BY <2>1, <2>2
<1> QED
  BY <1>2

(* A text without its first symbols, as Write leaves it.                    *)
After(t, n) == SubSeq(t, n + 1, Len(t))

LEMMA AfterFacts ==
    ASSUME NEW S, NEW t \in Seq(S), NEW n \in 0 .. Len(t)
    PROVE  /\ After(t, n) \in Seq(S) /\ Len(After(t, n)) = Len(t) - n
           /\ \A i \in 1 .. Len(t) - n : After(t, n)[i] = t[i + n]
<1>1. \A i \in n + 1 .. Len(t) : t[i] \in S
  OBVIOUS
<1>2. /\ SubSeq(t, n + 1, Len(t)) \in Seq(S)
      /\ Len(SubSeq(t, n + 1, Len(t))) = IF n + 1 <= Len(t) THEN Len(t) - (n + 1) + 1 ELSE 0
      /\ \A i \in 1 .. Len(t) - (n + 1) + 1 : SubSeq(t, n + 1, Len(t))[i] = t[(n + 1) + i - 1]
  BY <1>1, SubSeqProperties
<1>3. Len(t) \in Nat /\ n \in Nat /\ n <= Len(t)
  OBVIOUS
<1>4. /\ (IF n + 1 <= Len(t) THEN Len(t) - (n + 1) + 1 ELSE 0) = Len(t) - n
      /\ Len(t) - (n + 1) + 1 = Len(t) - n
      /\ \A i \in 1 .. Len(t) - n : (n + 1) + i - 1 = i + n
  BY <1>3
<1> QED
  BY <1>2, <1>4 DEF After

LEMMA Shifted ==
    ASSUME NEW m \in Nat, NEW n \in Nat, NEW k \in Nat, k = m - n, NEW i \in 1 .. k
    PROVE  /\ i + 1 \in 1 .. k + 1 /\ (i + 1) + n = i + n + 1
           /\ i # k => /\ i + 1 \in 1 .. m - n
                       /\ i + 2 \in 1 .. k + 1 /\ (i + 2) + n = i + n + 2
OBVIOUS

(* The rest of a text is read as a text of its own.                         *)
LEMMA RestIsRead ==
    ASSUME NEW t \in Seq(Refs!Symbols), NEW g, NEW d, NEW place, NEW f, RightFrom(f, t, g, d, place, 1),
           NEW n \in 0 .. Len(t)
    PROVE  Refs!Reading(After(t, n), g, d, place) = f[n + 1]
<1> DEFINE u == After(t, n)
           h == [i \in 1 .. Len(u) + 1 |-> f[i + n]]
<1>1. u \in Seq(Refs!Symbols) /\ Len(u) = Len(t) - n /\ \A i \in 1 .. Len(t) - n : u[i] = t[i + n]
  BY AfterFacts
<1>2. Len(t) \in Nat /\ n \in Nat /\ n <= Len(t) /\ Len(u) \in Nat
  BY <1>1
<1> HIDE DEF u
<1>3. ASSUME NEW i \in 1 .. Len(u) + 1 PROVE h[i] = Turn(h, u, g, d, place, i)
  <2>1. i + n \in 1 .. Len(t) + 1 /\ h[i] = f[i + n]
    BY <1>1, <1>2
  <2>2. f[i + n] = Turn(f, t, g, d, place, i + n)
    BY <2>1 DEF RightFrom
  <2>3. CASE i > Len(u)
    <3>1. i + n > Len(t)
      BY <1>1, <1>2, <2>3
    <3> QED
      BY <2>1, <2>2, <2>3, <3>1 DEF Turn
  <2>4. CASE ~(i > Len(u))
    <3>1. /\ i \in 1 .. Len(t) - n /\ ~(i + n > Len(t))
          /\ i = Len(u) => i + n = Len(t)
          /\ i # Len(u) => i + n # Len(t)
      BY <1>1, <1>2, <2>4
    <3>4. Len(u) = Len(t) - n /\ i \in 1 .. Len(u)
      BY <1>1, <3>1
    <3>2. u[i] = t[i + n] /\ h[i + 1] = f[i + n + 1]
      <4>1. i + 1 \in 1 .. Len(u) + 1 /\ (i + 1) + n = i + n + 1
        BY <3>4, <1>2, Shifted
      <4> QED
        BY <1>1, <3>1, <4>1
    <3>3. i # Len(u) => u[i + 1] = t[i + n + 1] /\ h[i + 2] = f[i + n + 2]
      <4>1. i # Len(u) => /\ i + 1 \in 1 .. Len(t) - n /\ (i + 1) + n = i + n + 1
                          /\ i + 2 \in 1 .. Len(u) + 1 /\ (i + 2) + n = i + n + 2
        BY <3>4, <1>2, Shifted
      <4> QED
        BY <1>1, <4>1
    <3> HIDE DEF h
    <3> QED
      BY <2>1, <2>2, <2>4, <3>1, <3>2, <3>3 DEF Turn
  <2> QED
    BY <2>3, <2>4
<1>4. RightFrom(h, u, g, d, place, 1)
  <2>1. h = [i \in 1 .. Len(u) + 1 |-> Turn(h, u, g, d, place, i)]
    BY <1>3
  <2> QED
    BY <2>1 DEF RightFrom
<1>5. Refs!Reading(u, g, d, place) = h[1]
  <2> HIDE DEF h
  <2> QED
    BY <1>2, <1>4, ReadingIs
<1>6. h[1] = f[n + 1]
  BY <1>2
<1> QED
  BY <1>5, <1>6 DEF u

(* A text is read from its beginning.                                       *)
Read(t, g, d, place) == Refs!Reading(t, g, d, place)
Texted(t) == t \in Seq(Refs!Symbols)

ReadsBySymbol(t, g, d, place) ==
    /\ t = <<>> => Read(t, g, d, place) = <<>>
    /\ t # <<>> /\ t[1] # Refs!Dollar => Read(t, g, d, place) = <<t[1]>> \o Read(After(t, 1), g, d, place)
    /\ t # <<>> /\ t[1] = Refs!Dollar /\ (Len(t) > 1 => t[2] # Refs!Dollar /\ t[2].is # "braces") =>
          Read(t, g, d, place) = <<Refs!Dollar>> \o Read(After(t, 1), g, d, place)
    /\ Len(t) > 1 /\ t[1] = Refs!Dollar /\ t[2] = Refs!Dollar =>
          Read(t, g, d, place) = <<Refs!Dollar>> \o Read(After(t, 2), g, d, place)
    /\ Len(t) > 1 /\ t[1] = Refs!Dollar /\ t[2].is = "braces" =>
          Read(t, g, d, place) = Refs!BoundTo(t[2], g, d, place) \o Read(After(t, 2), g, d, place)

LEMMA ReadsOn ==
    ASSUME NEW t \in Seq(Refs!Symbols), NEW g, NEW d, NEW place
    PROVE  ReadsBySymbol(t, g, d, place)
<1>0. Len(t) \in Nat /\ (t # <<>> => Len(t) > 0) /\ (t = <<>> => Len(t) = 0)
  OBVIOUS
<1>1. PICK f : RightFrom(f, t, g, d, place, 1)
  BY <1>0, RightExists
<1>2. Refs!Reading(t, g, d, place) = f[1]
  BY <1>0, <1>1, ReadingIs
<1>3. f[1] = Turn(f, t, g, d, place, 1)
  <2>1. 1 \in 1 .. Len(t) + 1
    BY <1>0
  <2> QED
    BY <1>1, <2>1 DEF RightFrom
<1>4. Len(t) > 0 => Refs!Reading(After(t, 1), g, d, place) = f[1 + 1]
  <2>1. Len(t) > 0 => 1 \in 0 .. Len(t)
    BY <1>0
  <2> QED
    BY <1>1, <2>1, RestIsRead
<1>5. Len(t) > 1 => Refs!Reading(After(t, 2), g, d, place) = f[2 + 1]
  <2>1. Len(t) > 1 => 2 \in 0 .. Len(t)
    BY <1>0
  <2> QED
    BY <1>1, <2>1, RestIsRead
<1>6. 1 + 1 = 2 /\ 2 + 1 = 3 /\ 1 + 2 = 3
  OBVIOUS
<1>7. Refs!Dollar.is # "braces"
  BY SymbolFacts
<1> QED
  <2> DEFINE n == Len(t)
  <2>1. Turn(f, t, g, d, place, 1) =
          IF 1 > n THEN <<>>
          ELSE IF t[1] # Refs!Dollar \/ 1 = n THEN <<t[1]>> \o f[2]
          ELSE IF t[2] = Refs!Dollar THEN <<Refs!Dollar>> \o f[3]
          ELSE IF t[2].is = "braces" THEN Refs!BoundTo(t[2], g, d, place) \o f[3]
          ELSE <<Refs!Dollar>> \o f[2]
    BY <1>6 DEF Turn
  <2>2. /\ t = <<>> => 1 > n
        /\ t # <<>> => ~(1 > n) /\ n > 0
        /\ n > 1 => t # <<>> /\ 1 # n
        /\ t # <<>> /\ 1 # n => n > 1
    BY <1>0
  <2>3. /\ n > 0 => Refs!Reading(After(t, 1), g, d, place) = f[2]
        /\ n > 1 => Refs!Reading(After(t, 2), g, d, place) = f[3]
    BY <1>4, <1>5, <1>6
  <2> HIDE DEF n
  <2> QED
    BY <1>2, <1>3, <1>7, <2>1, <2>2, <2>3, Zenon DEF n, Read, ReadsBySymbol

(* Sequences, taken apart and put together.                                 *)
LEMMA JoinTyped ==
    ASSUME NEW S, NEW a \in Seq(S), NEW b \in Seq(S)
    PROVE  a \o b \in Seq(S)
OBVIOUS

LEMMA JoinFacts ==
    ASSUME NEW S, NEW a \in Seq(S), NEW b \in Seq(S)
    PROVE  /\ Len(a \o b) = Len(a) + Len(b)
           /\ \A i \in 1 .. Len(a) : (a \o b)[i] = a[i]
           /\ \A i \in 1 .. Len(b) : (a \o b)[Len(a) + i] = b[i]
<1>1. /\ Len(a \o b) = Len(a) + Len(b)
      /\ \A i \in 1 .. Len(a) + Len(b) : (a \o b)[i] = IF i <= Len(a) THEN a[i] ELSE b[i - Len(a)]
  BY ConcatProperties
<1>2. ASSUME NEW i \in 1 .. Len(a) PROVE (a \o b)[i] = a[i]
  <2>1. i \in 1 .. Len(a) + Len(b) /\ i <= Len(a)
    OBVIOUS
  <2> QED
    BY <1>1, <2>1
<1>3. ASSUME NEW i \in 1 .. Len(b) PROVE (a \o b)[Len(a) + i] = b[i]
  <2>1. Len(a) + i \in 1 .. Len(a) + Len(b) /\ ~(Len(a) + i <= Len(a)) /\ (Len(a) + i) - Len(a) = i
    OBVIOUS
  <2> QED
    BY <1>1, <2>1
<1> QED
  BY <1>1, <1>2, <1>3

LEMMA JoinAssoc ==
    ASSUME NEW S, NEW a \in Seq(S), NEW b \in Seq(S), NEW c \in Seq(S)
    PROVE  (a \o b) \o c = a \o (b \o c)
BY ConcatAssociative

LEMMA JoinNothing ==
    ASSUME NEW S, NEW a \in Seq(S)
    PROVE  a \o <<>> = a /\ <<>> \o a = a
BY ConcatEmptySeq

LEMMA PrependFacts ==
    ASSUME NEW S, NEW c \in S, NEW b \in Seq(S)
    PROVE  /\ <<c>> \in Seq(S) /\ <<c>> \o b \in Seq(S) /\ Len(<<c>> \o b) = 1 + Len(b)
           /\ (<<c>> \o b)[1] = c /\ \A i \in 1 .. Len(b) : (<<c>> \o b)[1 + i] = b[i]
OBVIOUS

LEMMA FirstSplits ==
    ASSUME NEW S, NEW a \in Seq(S), a # <<>>
    PROVE  /\ a[1] \in S /\ <<a[1]>> \in Seq(S) /\ After(a, 1) \in Seq(S)
           /\ Len(a) > 0 /\ Len(After(a, 1)) = Len(a) - 1
           /\ a = <<a[1]>> \o After(a, 1)
<1>1. Len(a) \in Nat /\ Len(a) > 0 /\ 1 \in 0 .. Len(a) /\ 1 \in 1 .. Len(a)
  OBVIOUS
<1>2. /\ After(a, 1) \in Seq(S) /\ Len(After(a, 1)) = Len(a) - 1
      /\ \A i \in 1 .. Len(a) - 1 : After(a, 1)[i] = a[i + 1]
  BY <1>1, AfterFacts
<1>3. a[1] \in S
  BY <1>1
<1>4. <<a[1]>> \in Seq(S) /\ Len(<<a[1]>>) = 1 /\ <<a[1]>>[1] = a[1]
  BY <1>3
<1> DEFINE r == After(a, 1)
           b == <<a[1]>> \o r
<1>5. b \in Seq(S) /\ Len(b) = Len(a) /\ b[1] = a[1] /\ \A i \in 1 .. Len(a) - 1 : b[1 + i] = a[i + 1]
  <2>1. a[1] \in S /\ r \in Seq(S)
    BY <1>2, <1>3
  <2> HIDE DEF r
  <2>2. /\ b \in Seq(S) /\ Len(b) = 1 + Len(r) /\ b[1] = a[1]
        /\ \A i \in 1 .. Len(r) : b[1 + i] = r[i]
    BY <2>1, PrependFacts
  <2> HIDE DEF b
  <2> QED
    BY <1>1, <1>2, <2>2 DEF r
<1>6. ASSUME NEW i \in 1 .. Len(a) PROVE a[i] = b[i]
  <2>1. CASE i = 1
    BY <1>5, <2>1
  <2>2. CASE i # 1
    <3>1. i - 1 \in 1 .. Len(a) - 1 /\ 1 + (i - 1) = i /\ (i - 1) + 1 = i
      BY <1>1, <2>2
    <3> HIDE DEF b
    <3> QED
      BY <1>5, <3>1
  <2> QED
    BY <2>1, <2>2
<1> HIDE DEF b
<1>7. a = b
  BY <1>5, <1>6, SeqEqual
<1> QED
  BY <1>1, <1>2, <1>3, <1>4, <1>7 DEF b

(* What is left of a join when its first part is taken away.                *)
LEMMA AfterJoin ==
    ASSUME NEW S, NEW a \in Seq(S), NEW b \in Seq(S)
    PROVE  After(a \o b, Len(a)) = b
<1> DEFINE c == a \o b
           r == After(c, Len(a))
<1>1. /\ c \in Seq(S) /\ Len(c) = Len(a) + Len(b)
      /\ \A i \in 1 .. Len(b) : c[Len(a) + i] = b[i]
  BY JoinTyped, JoinFacts
<1> HIDE DEF c
<1>2. Len(a) \in 0 .. Len(c) /\ Len(c) - Len(a) = Len(b) /\ Len(a) \in Nat /\ Len(b) \in Nat
  BY <1>1
<1>3. r \in Seq(S) /\ Len(r) = Len(c) - Len(a) /\ \A i \in 1 .. Len(c) - Len(a) : r[i] = c[i + Len(a)]
  BY <1>1, <1>2, AfterFacts
<1> HIDE DEF r
<1>4. ASSUME NEW i \in 1 .. Len(b) PROVE r[i] = b[i]
  <2>1. i + Len(a) = Len(a) + i
    BY <1>2
  <2> QED
    BY <1>1, <1>2, <1>3, <2>1
<1>5. r = b
  BY <1>2, <1>3, <1>4, SeqEqual
<1> QED
  BY <1>5 DEF r, c

(* What c means does not depend on x behind it.                             *)
Alone(c, x) ==
    \/ c # Refs!Dollar
    \/ x = <<>>
    \/ x[1] # Refs!Dollar /\ x[1].is # "braces"

(* A text that has a first part is read from that part on.                  *)
LEMMA ReadsChar ==
    ASSUME NEW c \in Refs!Symbols, NEW x, Texted(x), NEW g, NEW d, NEW place, Alone(c, x)
    PROVE  Read(<<c>> \o x, g, d, place) = <<c>> \o Read(x, g, d, place)
<1> DEFINE t == <<c>> \o x
<1>1. x \in Seq(Refs!Symbols) /\ <<c>> \in Seq(Refs!Symbols) /\ Len(<<c>>) = 1
  BY DEF Texted
<1>2. /\ t \in Seq(Refs!Symbols) /\ Len(t) = 1 + Len(x) /\ t[1] = c /\ (Len(x) > 0 => t[2] = x[1])
      /\ t # <<>> /\ Len(x) \in Nat /\ (x = <<>> <=> ~(Len(x) > 0))
  BY <1>1
<1>3. After(t, 1) = x
  BY <1>1, AfterJoin
<1> HIDE DEF t
<1>4. t[1] = Refs!Dollar => (Len(t) > 1 => t[2] # Refs!Dollar /\ t[2].is # "braces")
  BY <1>2 DEF Alone
<1>5. Read(t, g, d, place) = <<t[1]>> \o Read(After(t, 1), g, d, place)
  <2>1. ReadsBySymbol(t, g, d, place) /\ t # <<>>
    BY <1>2, ReadsOn
  <2>2. CASE t[1] # Refs!Dollar
    BY <2>1, <2>2 DEF ReadsBySymbol
  <2>3. CASE t[1] = Refs!Dollar
    BY <1>4, <2>1, <2>3 DEF ReadsBySymbol
  <2> QED
    BY <2>2, <2>3
<1> QED
  BY <1>2, <1>3, <1>5 DEF t

PairIsRead(c, x, g, d, place) ==
    /\ c = Refs!Dollar =>
          Read(<<Refs!Dollar, c>> \o x, g, d, place) = <<Refs!Dollar>> \o Read(x, g, d, place)
    /\ c.is = "braces" =>
          Read(<<Refs!Dollar, c>> \o x, g, d, place) =
              Refs!BoundTo(c, g, d, place) \o Read(x, g, d, place)

LEMMA ReadsPair ==
    ASSUME NEW c \in Refs!Symbols, NEW x, Texted(x), NEW g, NEW d, NEW place
    PROVE  PairIsRead(c, x, g, d, place)
<1> DEFINE h == <<Refs!Dollar, c>>
           t == h \o x
<1>1. x \in Seq(Refs!Symbols) /\ h \in Seq(Refs!Symbols) /\ Len(h) = 2 /\ h[1] = Refs!Dollar /\ h[2] = c
  BY SymbolFacts DEF Texted
<1> HIDE DEF h
<1>2. t \in Seq(Refs!Symbols) /\ Len(t) > 1 /\ t[1] = Refs!Dollar /\ t[2] = c
  <2>1. 1 \in 1 .. Len(h) /\ 2 \in 1 .. Len(h) /\ Len(x) \in Nat
    BY <1>1
  <2>2. /\ t \in Seq(Refs!Symbols) /\ Len(t) = Len(h) + Len(x)
        /\ \A i \in 1 .. Len(h) : t[i] = h[i]
    BY <1>1, JoinFacts, JoinTyped
  <2> HIDE DEF t
  <2> QED
    BY <1>1, <2>1, <2>2
<1>3. After(t, 2) = x
  BY <1>1, AfterJoin
<1> HIDE DEF t
<1> QED
  <2>0. ReadsBySymbol(t, g, d, place)
    BY <1>2, ReadsOn
  <2>1. CASE c = Refs!Dollar
    <3>1. Read(t, g, d, place) = <<Refs!Dollar>> \o Read(After(t, 2), g, d, place)
      BY <1>2, <2>0, <2>1 DEF ReadsBySymbol
    <3>2. c.is # "braces"
      BY <2>1, SymbolFacts
    <3> QED
      BY <1>3, <3>1, <3>2 DEF t, h, PairIsRead
  <2>2. CASE c # Refs!Dollar
    <3>1. c.is = "braces" =>
            Read(t, g, d, place) = Refs!BoundTo(c, g, d, place) \o Read(After(t, 2), g, d, place)
      BY <1>2, <2>0 DEF ReadsBySymbol
    <3> QED
      BY <1>3, <2>2, <3>1 DEF t, h, PairIsRead
  <2> QED
    BY <2>1, <2>2

LEMMA ReadsNothing ==
    ASSUME NEW g, NEW d, NEW place
    PROVE  Read(<<>>, g, d, place) = <<>>
<1>1. <<>> \in Seq(Refs!Symbols)
  OBVIOUS
<1> QED
  <2>1. ReadsBySymbol(<<>>, g, d, place)
    BY <1>1, ReadsOn
  <2> QED
    BY <2>1 DEF ReadsBySymbol

LEMMA ReadIsTexted ==
    ASSUME NEW t, Texted(t), NEW g, NEW d, NEW place \in Refs!Passes, Values(g, d)
    PROVE  Texted(Read(t, g, d, place))
<1>1. t \in Seq(Refs!Symbols) /\ Len(t) \in Nat
  BY DEF Texted
<1>2. PICK f : RightFrom(f, t, g, d, place, 1)
  BY <1>1, RightExists
<1>3. \A i \in 1 .. Len(t) + 1 : f[i] \in Seq(Refs!Symbols)
  BY <1>1, <1>2, ReadIsText
<1>4. 1 \in 1 .. Len(t) + 1
  BY <1>1
<1> QED
  BY <1>1, <1>2, <1>3, <1>4, ReadingIs DEF Read, Texted

(* What holds no dollar is read as it stands.                               *)
NoDollar(v) == Texted(v) /\ ~Refs!Dollars(v)

LEMMA NoDollarIs ==
    ASSUME NEW v
    PROVE  NoDollar(v) <=> Texted(v) /\ \A i \in 1 .. Len(v) : v[i] # Refs!Dollar
<1>1. Texted(v) => DOMAIN v = 1 .. Len(v)
  BY DEF Texted
<1> QED
  BY <1>1 DEF NoDollar, Refs!Dollars, Refs!Holds, Refs!ToSet

LEMMA PlainIsRead ==
    ASSUME NEW v, NoDollar(v), NEW x, Texted(x), NEW g, NEW d, NEW place \in Refs!Passes, Values(g, d)
    PROVE  Read(v \o x, g, d, place) = v \o Read(x, g, d, place)
<1> DEFINE R(t) == Read(t, g, d, place)
           Fails(k) == \E w : NoDollar(w) /\ Len(w) = k /\ R(w \o x) # w \o R(x)
           Bad == {k \in Nat : Fails(k)}
<1>1. Texted(R(x)) /\ R(x) \in Seq(Refs!Symbols) /\ x \in Seq(Refs!Symbols)
  BY ReadIsTexted DEF Texted
<1>2. ASSUME Bad # {} PROVE FALSE
  <2>0. Bad \in SUBSET Nat
    OBVIOUS
  <2>1. PICK k \in Bad : \A y \in Bad : k <= y
    <3> HIDE DEF Bad
    <3> QED
      BY <1>2, <2>0, MinFacts
  <2>2. PICK w : NoDollar(w) /\ Len(w) = k /\ R(w \o x) # w \o R(x)
    BY <2>1
  <2>3. w \in Seq(Refs!Symbols) /\ \A i \in 1 .. Len(w) : w[i] # Refs!Dollar
    BY <2>2, NoDollarIs DEF Texted
  <2>4. w # <<>>
    BY <1>1, <2>2, JoinNothing
  <2> DEFINE u == After(w, 1)
             c == w[1]
  <2>5. /\ c \in Refs!Symbols /\ <<c>> \in Seq(Refs!Symbols) /\ u \in Seq(Refs!Symbols)
        /\ Len(w) > 0 /\ Len(u) = Len(w) - 1 /\ w = <<c>> \o u
    BY <2>3, <2>4, FirstSplits
  <2>6. c # Refs!Dollar
    BY <2>3, <2>5
  <2>7. \A i \in 1 .. Len(u) : u[i] # Refs!Dollar
    <3>1. 1 \in 0 .. Len(w) /\ Len(w) \in Nat
      BY <2>3, <2>5
    <3>2. \A i \in 1 .. Len(w) - 1 : u[i] = w[i + 1]
      BY <2>3, <3>1, AfterFacts
    <3> HIDE DEF u
    <3>3. ASSUME NEW i \in 1 .. Len(u) PROVE i \in 1 .. Len(w) - 1 /\ i + 1 \in 1 .. Len(w)
      BY <2>5, <3>1
    <3> QED
      BY <2>3, <3>2, <3>3
  <2> HIDE DEF u, c
  <2>8. NoDollar(u)
    BY <2>5, <2>7, NoDollarIs DEF Texted
  <2>9. R(u \o x) = u \o R(x)
    <3>1. k \in Nat /\ Len(u) \in Nat /\ Len(u) = k - 1
      BY <2>1, <2>2, <2>5
    <3>2. Len(u) \notin Bad
      BY <2>1, <3>1
    <3> QED
      BY <2>8, <3>1, <3>2
  <2>10. w \o x = <<c>> \o (u \o x) /\ w \o R(x) = <<c>> \o (u \o R(x))
    BY <1>1, <2>5, JoinAssoc
  <2>11. R(<<c>> \o (u \o x)) = <<c>> \o R(u \o x)
    <3>1. Texted(u \o x)
      BY <1>1, <2>5, JoinTyped DEF Texted
    <3> QED
      <4> DEFINE y == u \o x
      <4> HIDE DEF y
      <4>1. c \in Refs!Symbols /\ Texted(y) /\ place \in Refs!Passes
        BY <2>5, <3>1 DEF y
      <4>2. Read(<<c>> \o y, g, d, place) = <<c>> \o Read(y, g, d, place)
        <5>1. Alone(c, y)
          BY <2>6 DEF Alone
        <5> QED
          BY <4>1, <5>1, ReadsChar
      <4> QED
        BY <4>2 DEF y
  <2> QED
    BY <2>2, <2>9, <2>10, <2>11
<1>3. Len(v) \in Nat /\ Len(v) \notin Bad
  BY <1>2 DEF NoDollar, Texted
<1> QED
  BY <1>3

-----------------------------------------------------------------------------
(* What a build leaves for the artifact to read: lone dollars, each before   *)
(* what makes it one, and references to the built-in.                        *)

Ends(s) == s # <<>> /\ s[Len(s)] = Refs!Dollar
Harmless(c) == c # Refs!Dollar /\ c # Refs!Open /\ c.is # "braces"
Kept(c) == c # Refs!Dollar /\ c # Refs!Open /\ (c.is = "braces" => c = Date)
Clean(s) == \A i \in 1 .. Len(s) - 1 : s[i] = Refs!Dollar => Kept(s[i + 1])
Apart(s) == \A i \in 1 .. Len(s) - 1 : ~(s[i] = Refs!Dollar /\ s[i + 1] = Refs!Dollar)
Links(s, x) == Ends(s) /\ x # <<>> => Harmless(x[1])

LEMMA EndOfJoin ==
    ASSUME NEW a, Texted(a), NEW b, Texted(b)
    PROVE  /\ b # <<>> => (Ends(a \o b) <=> Ends(b))
           /\ b = <<>> => a \o b = a
<1>1. a \in Seq(Refs!Symbols) /\ b \in Seq(Refs!Symbols) /\ Len(a) \in Nat /\ Len(b) \in Nat
  BY DEF Texted
<1>2. ASSUME b # <<>> PROVE Ends(a \o b) <=> Ends(b)
  <2>1. Len(b) > 0 /\ Len(b) \in 1 .. Len(b)
    BY <1>1, <1>2
  <2>2. /\ a \o b \in Seq(Refs!Symbols) /\ Len(a \o b) = Len(a) + Len(b)
        /\ \A i \in 1 .. Len(b) : (a \o b)[Len(a) + i] = b[i]
    BY <1>1, JoinTyped, JoinFacts
  <2>3. (a \o b)[Len(a \o b)] = b[Len(b)] /\ a \o b # <<>>
    BY <1>1, <2>1, <2>2
  <2> QED
    BY <1>2, <2>3 DEF Ends
<1>3. b = <<>> => a \o b = a
  BY <1>1, JoinNothing
<1> QED
  BY <1>2, <1>3

LEMMA CleanJoin ==
    ASSUME NEW a, Texted(a), Clean(a), NEW b, Texted(b), Clean(b), Links(a, b)
    PROVE  Clean(a \o b)
<1> DEFINE c == a \o b
           m == Len(a)
           n == Len(b)
<1>1. a \in Seq(Refs!Symbols) /\ b \in Seq(Refs!Symbols) /\ m \in Nat /\ n \in Nat
  BY DEF Texted
<1>2. /\ Len(c) = m + n
      /\ \A i \in 1 .. m : c[i] = a[i]
      /\ \A i \in 1 .. n : c[m + i] = b[i]
  BY <1>1, JoinFacts
<1>3. /\ \A i \in 1 .. m - 1 : a[i] = Refs!Dollar => Kept(a[i + 1])
      /\ \A i \in 1 .. n - 1 : b[i] = Refs!Dollar => Kept(b[i + 1])
  BY DEF Clean
<1>4. (m > 0 => a # <<>>) /\ (n > 0 => b # <<>>)
  BY <1>1
<1>5. m > 0 /\ n > 0 /\ a[m] = Refs!Dollar => Harmless(b[1])
  BY <1>4 DEF Links, Ends
<1> HIDE DEF c, m, n
<1>6. ASSUME NEW i \in 1 .. m + n - 1, c[i] = Refs!Dollar PROVE Kept(c[i + 1])
  <2>1. CASE i < m
    <3>1. i \in 1 .. m - 1 /\ i \in 1 .. m /\ i + 1 \in 1 .. m
      BY <1>1, <2>1
    <3> QED
      BY <1>2, <1>3, <1>6, <3>1
  <2>2. CASE i = m
    <3>1. i \in 1 .. m /\ 1 \in 1 .. n /\ m > 0 /\ n > 0
      BY <1>1, <2>2
    <3>2. Harmless(b[1])
      BY <1>2, <1>5, <1>6, <2>2, <3>1
    <3>3. c[i + 1] = b[1]
      BY <1>2, <2>2, <3>1
    <3> QED
      BY <3>2, <3>3 DEF Harmless, Kept
  <2>3. CASE i > m
    <3> DEFINE j == i - m
    <3>1. j \in 1 .. n - 1 /\ j \in 1 .. n /\ j + 1 \in 1 .. n /\ m + j = i /\ m + (j + 1) = i + 1
      BY <1>1, <2>3
    <3> HIDE DEF j
    <3> QED
      BY <1>2, <1>3, <1>6, <3>1
  <2> QED
    BY <1>1, <2>1, <2>2, <2>3
<1>7. ASSUME NEW i \in 1 .. Len(c) - 1, c[i] = Refs!Dollar PROVE Kept(c[i + 1])
  <2>0. Len(c) = m + n /\ m \in Nat /\ n \in Nat
    BY <1>1, <1>2
  <2>1. i \in 1 .. m + n - 1
    BY <1>7, <2>0
  <2> QED
    BY <1>6, <1>7, <2>1
<1> QED
  BY <1>7 DEF c, Clean

LEMMA RestStays ==
    ASSUME NEW s, Texted(s), NEW n \in 0 .. Len(s)
    PROVE  /\ Texted(After(s, n)) /\ (Clean(s) => Clean(After(s, n))) /\ (Apart(s) => Apart(After(s, n)))
           /\ After(s, n) # <<>> => n + 1 \in 1 .. Len(s) /\ After(s, n)[1] = s[n + 1]
<1> DEFINE r == After(s, n)
<1>1. /\ r \in Seq(Refs!Symbols) /\ Len(r) = Len(s) - n
      /\ \A i \in 1 .. Len(s) - n : r[i] = s[i + n]
  BY AfterFacts DEF Texted
<1>2. Len(s) \in Nat /\ n \in Nat /\ n <= Len(s)
  BY DEF Texted
<1> HIDE DEF r
<1>3. ASSUME NEW i \in 1 .. Len(r) - 1
      PROVE  i + n \in 1 .. Len(s) - 1 /\ r[i] = s[i + n] /\ r[i + 1] = s[(i + n) + 1]
  <2>1. /\ i + n \in 1 .. Len(s) - 1 /\ i \in 1 .. Len(s) - n /\ i + 1 \in 1 .. Len(s) - n
        /\ (i + 1) + n = (i + n) + 1
    BY <1>1, <1>2
  <2> QED
    BY <1>1, <2>1
<1>4. Clean(s) => Clean(r)
  BY <1>3 DEF Clean
<1>5. Apart(s) => Apart(r)
  BY <1>3 DEF Apart
<1>6. r # <<>> => n + 1 \in 1 .. Len(s) /\ r[1] = s[n + 1]
  <2>1. r # <<>> => Len(r) > 0
    BY <1>1
  <2>2. Len(r) > 0 => 1 \in 1 .. Len(s) - n /\ 1 + n = n + 1 /\ n + 1 \in 1 .. Len(s)
    BY <1>1, <1>2
  <2> QED
    BY <1>1, <2>1, <2>2
<1> QED
  BY <1>1, <1>4, <1>5, <1>6 DEF r, Texted

LEMMA SmallOnesAreClean ==
    /\ \A c \in Refs!Symbols : Texted(<<c>>) /\ Clean(<<c>>) /\ (Ends(<<c>>) <=> c = Refs!Dollar)
    /\ \A v : NoDollar(v) => Clean(v) /\ ~Ends(v)
    /\ \A c \in Refs!Symbols : Kept(c) =>
          Texted(<<Refs!Dollar, c>>) /\ Clean(<<Refs!Dollar, c>>) /\ ~Ends(<<Refs!Dollar, c>>)
<1>1. ASSUME NEW c \in Refs!Symbols
      PROVE  Texted(<<c>>) /\ Clean(<<c>>) /\ (Ends(<<c>>) <=> c = Refs!Dollar)
  BY DEF Texted, Clean, Ends
<1>2. ASSUME NEW v, NoDollar(v) PROVE Clean(v) /\ ~Ends(v)
  <2>1. v \in Seq(Refs!Symbols) /\ \A i \in 1 .. Len(v) : v[i] # Refs!Dollar
    BY <1>2, NoDollarIs DEF Texted
  <2>2. /\ \A i \in 1 .. Len(v) - 1 : i \in 1 .. Len(v)
        /\ v # <<>> => Len(v) \in 1 .. Len(v)
    BY <2>1
  <2> QED
    BY <2>1, <2>2 DEF Clean, Ends
<1>3. ASSUME NEW c \in Refs!Symbols, Kept(c)
      PROVE  Texted(<<Refs!Dollar, c>>) /\ Clean(<<Refs!Dollar, c>>) /\ ~Ends(<<Refs!Dollar, c>>)
  <2> DEFINE p == <<Refs!Dollar, c>>
  <2>1. p \in Seq(Refs!Symbols) /\ Len(p) = 2 /\ p[1] = Refs!Dollar /\ p[2] = c
    BY SymbolFacts
  <2> HIDE DEF p
  <2>2. \A i \in 1 .. Len(p) - 1 : Kept(p[i + 1])
    <3>1. \A i \in 1 .. Len(p) - 1 : i + 1 = 2
      BY <2>1
    <3> QED
      BY <1>3, <2>1, <3>1
  <2>3. p[Len(p)] # Refs!Dollar
    BY <1>3, <2>1 DEF Kept
  <2> QED
    BY <2>1, <2>2, <2>3 DEF p, Texted, Clean, Ends
<1> QED
  BY <1>1, <1>2, <1>3

(* What the artifact reads of s before x is m, whatever x is.               *)
Fits(s, x) == Ends(s) /\ x # <<>> => x[1] # Refs!Dollar /\ x[1].is # "braces"
Means(s, m, g, d) ==
    \A x : Texted(x) /\ Fits(s, x) =>
        Read(s \o x, g, d, "artifact") = m \o Read(x, g, d, "artifact")

LEMMA MeansMore ==
    ASSUME NEW s, Texted(s), NEW m, Texted(m), NEW g, NEW d, Values(g, d), Means(s, m, g, d),
           NEW v, Texted(v), NEW w, Texted(w),
           \A x : Texted(x) /\ Fits(s \o v, x) =>
               Fits(s, v \o x) /\ Read(v \o x, g, d, "artifact") = w \o Read(x, g, d, "artifact")
    PROVE  Means(s \o v, m \o w, g, d)
<1>1. ASSUME NEW x, Texted(x), Fits(s \o v, x)
      PROVE  Read((s \o v) \o x, g, d, "artifact") = (m \o w) \o Read(x, g, d, "artifact")
  <2>1. Fits(s, v \o x) /\ Read(v \o x, g, d, "artifact") = w \o Read(x, g, d, "artifact")
    BY <1>1
  <2>2. Texted(v \o x)
    BY <1>1, JoinTyped DEF Texted
  <2>3. Read(s \o (v \o x), g, d, "artifact") = m \o (w \o Read(x, g, d, "artifact"))
    BY <2>1, <2>2 DEF Means
  <2>4. "artifact" \in Refs!Passes
    BY DEF Refs!Passes
  <2>5. Texted(Read(x, g, d, "artifact"))
    BY <1>1, <2>4, ReadIsTexted
  <2> DEFINE y == Read(x, g, d, "artifact")
  <2> HIDE DEF y
  <2>6. s \o (v \o x) = (s \o v) \o x
    <3>1. s \in Seq(Refs!Symbols) /\ v \in Seq(Refs!Symbols) /\ x \in Seq(Refs!Symbols)
      BY <1>1 DEF Texted
    <3> QED
      BY <3>1, JoinAssoc
  <2>7. y \in Seq(Refs!Symbols) /\ m \in Seq(Refs!Symbols) /\ w \in Seq(Refs!Symbols)
    BY <2>5 DEF y, Texted
  <2>8. m \o (w \o y) = (m \o w) \o y
    BY <2>7, JoinAssoc
  <2> QED
    BY <2>3, <2>6, <2>8 DEF y
<1> QED
  BY <1>1 DEF Means

(* A build under way: what it has written, o, and what it has yet to read,  *)
(* r, of the text t, resolved with g and read where f is all there is.       *)
BuiltSoFar(o, r, t, g, f, d) ==
    /\ Texted(o) /\ Texted(r) /\ Clean(o) /\ Apart(r) /\ Links(o, r)
    /\ \E m : /\ Texted(m) /\ Means(o, m, f, d)
              /\ m \o Read(r, g, d, "artifact") = Read(t, g, d, "artifact")

(* v is written for the first n symbols of what is to be read: it may follow *)
(* what is written, and the artifact reads it as w, which they mean.         *)
Writes(o, r, n, v, w, g, f, d) ==
    /\ Texted(v) /\ Texted(w) /\ Clean(v) /\ Links(o, v) /\ n \in 0 .. Len(r)
    /\ v # <<>> /\ Ends(v) => (After(r, n) # <<>> => Harmless(After(r, n)[1]))
    /\ v = <<>> => ~Ends(o)
    /\ \A x : Texted(x) /\ Fits(o \o v, x) =>
          Fits(o, v \o x) /\ Read(v \o x, f, d, "artifact") = w \o Read(x, f, d, "artifact")
    /\ Read(r, g, d, "artifact") = w \o Read(After(r, n), g, d, "artifact")

LEMMA BuildGoesOn ==
    ASSUME NEW o, NEW r, NEW t, NEW g, NEW f, NEW d, NEW n, NEW v, NEW w, Values(g, d), Values(f, d),
           BuiltSoFar(o, r, t, g, f, d), Writes(o, r, n, v, w, g, f, d)
    PROVE  BuiltSoFar(o \o v, After(r, n), t, g, f, d)
<1>1. /\ Texted(o) /\ Texted(r) /\ Clean(o) /\ Apart(r)
      /\ Texted(v) /\ Texted(w) /\ Clean(v) /\ Links(o, v) /\ n \in 0 .. Len(r)
  BY DEF BuiltSoFar, Writes
<1>2. PICK m : /\ Texted(m) /\ Means(o, m, f, d)
               /\ m \o Read(r, g, d, "artifact") = Read(t, g, d, "artifact")
  BY DEF BuiltSoFar
<1>3. Clean(o \o v)
  BY <1>1, CleanJoin
<1>4. Texted(After(r, n)) /\ Apart(After(r, n))
  BY <1>1, RestStays
<1>5. Texted(o \o v) /\ Texted(m \o w)
  BY <1>1, <1>2, JoinTyped DEF Texted
<1>6. Links(o \o v, After(r, n))
  <2>1. CASE v = <<>>
    <3>1. o \o v = o /\ ~Ends(o)
      BY <1>1, <2>1, EndOfJoin DEF Writes
    <3> QED
      BY <3>1 DEF Links
  <2>2. CASE v # <<>>
    <3>1. Ends(o \o v) <=> Ends(v)
      BY <1>1, <2>2, EndOfJoin
    <3>2. Ends(v) => (After(r, n) # <<>> => Harmless(After(r, n)[1]))
      BY <2>2 DEF Writes
    <3> QED
      BY <3>1, <3>2 DEF Links
  <2> QED
    BY <2>1, <2>2
<1>7. Means(o \o v, m \o w, f, d)
  <2>1. \A x : Texted(x) /\ Fits(o \o v, x) =>
           Fits(o, v \o x) /\ Read(v \o x, f, d, "artifact") = w \o Read(x, f, d, "artifact")
    BY DEF Writes
  <2> QED
    BY <1>1, <1>2, <2>1, MeansMore
<1>8. (m \o w) \o Read(After(r, n), g, d, "artifact") = Read(t, g, d, "artifact")
  <2> DEFINE y == Read(After(r, n), g, d, "artifact")
  <2>1. "artifact" \in Refs!Passes
    BY DEF Refs!Passes
  <2>2. y \in Seq(Refs!Symbols) /\ m \in Seq(Refs!Symbols) /\ w \in Seq(Refs!Symbols)
    BY <1>1, <1>2, <1>4, <2>1, ReadIsTexted DEF Texted
  <2>3. Read(r, g, d, "artifact") = w \o y
    BY DEF Writes
  <2> HIDE DEF y
  <2>4. (m \o w) \o y = m \o (w \o y)
    BY <2>2, JoinAssoc
  <2> QED
    BY <1>2, <2>3, <2>4 DEF y
<1> QED
  BY <1>3, <1>4, <1>5, <1>6, <1>7, <1>8 DEF BuiltSoFar

(* A symbol that is not a dollar, or a dollar alone, is written as it is.    *)
LEMMA CopyGoesOn ==
    ASSUME NEW o, NEW r, NEW t, NEW g, NEW f, NEW d, Values(g, d), Values(f, d),
           BuiltSoFar(o, r, t, g, f, d), r # <<>>,
           r[1] = Refs!Dollar => (Len(r) > 1 => Harmless(r[2]))
    PROVE  BuiltSoFar(o \o <<r[1]>>, After(r, 1), t, g, f, d)
<1> DEFINE c == r[1]
           x == After(r, 1)
           v == <<c>>
<1>1. Texted(o) /\ Texted(r) /\ Clean(o) /\ Apart(r) /\ Links(o, r)
  BY DEF BuiltSoFar
<1>2. /\ c \in Refs!Symbols /\ Texted(v) /\ Texted(x) /\ r = v \o x
      /\ Len(r) > 0 /\ Len(r) \in Nat /\ 1 \in 0 .. Len(r)
  <2>1. r \in Seq(Refs!Symbols)
    BY <1>1 DEF Texted
  <2>2. Len(r) \in Nat /\ (Len(r) > 0 => 1 \in 0 .. Len(r))
    BY <2>1
  <2> QED
    BY <2>1, <2>2, FirstSplits DEF Texted
<1>3. Clean(v) /\ (Ends(v) <=> c = Refs!Dollar) /\ v # <<>> /\ v[1] = c
  BY <1>2, SmallOnesAreClean
<1>4. x # <<>> => Len(r) > 1 /\ x[1] = r[2]
  <2>1. x # <<>> => 1 + 1 \in 1 .. Len(r) /\ x[1] = r[1 + 1]
    BY <1>1, <1>2, RestStays
  <2> QED
    BY <1>2, <2>1
<1>5. ASSUME c = Refs!Dollar, x # <<>> PROVE Harmless(x[1])
  BY <1>4, <1>5
<1>6. Links(o, v)
  BY <1>1, <1>3 DEF Links
<1> HIDE DEF v, x, c
<1>7. ASSUME NEW y, Texted(y), Fits(o \o v, y)
      PROVE  Fits(o, v \o y) /\ Read(v \o y, f, d, "artifact") = v \o Read(y, f, d, "artifact")
  <2>1. (v \o y)[1] = c
    BY <1>2, <1>7 DEF v, Texted
  <2>2. Fits(o, v \o y)
    BY <1>3, <1>6, <2>1 DEF Fits, Links, Harmless
  <2>3. Alone(c, y)
    <3>1. Ends(o \o v) <=> Ends(v)
      BY <1>1, <1>2, <1>3, EndOfJoin
    <3> QED
      BY <1>3, <1>7, <3>1 DEF Fits, Alone
  <2>4. Read(<<c>> \o y, f, d, "artifact") = <<c>> \o Read(y, f, d, "artifact")
    BY <1>2, <1>7, <2>3, ReadsChar
  <2> QED
    BY <2>2, <2>4 DEF v
<1>8. Read(r, g, d, "artifact") = v \o Read(x, g, d, "artifact")
  <2>1. Alone(c, x)
    BY <1>5 DEF Alone, Harmless
  <2>2. Read(<<c>> \o x, g, d, "artifact") = <<c>> \o Read(x, g, d, "artifact")
    BY <1>2, <2>1, ReadsChar
  <2> QED
    BY <1>2, <2>2 DEF v
<1>9. Writes(o, r, 1, v, v, g, f, d)
  BY <1>2, <1>3, <1>5, <1>6, <1>7, <1>8 DEF Writes, x
<1> QED
  BY <1>9, BuildGoesOn DEF v, x, c

(* A reference is written as a value without a dollar, or as itself.         *)
LEMMA BuildRefers ==
    ASSUME NEW o, NEW r, NEW t, NEW g, NEW f, NEW d, Values(g, d), Values(f, d),
           BuiltSoFar(o, r, t, g, f, d), Len(r) > 1, r[1] = Refs!Dollar, r[2].is = "braces",
           NEW v, Texted(v), NEW w, Texted(w), w = Refs!BoundTo(r[2], g, d, "artifact"),
           \/ NoDollar(v) /\ v = w
           \/ /\ v = <<Refs!Dollar, Date>>
              /\ w = Refs!BoundTo(Date, f, d, "artifact")
    PROVE  BuiltSoFar(o \o v, After(r, 2), t, g, f, d)
<1>1. Texted(o) /\ Texted(r) /\ Clean(o) /\ Apart(r) /\ Links(o, r) /\ r # <<>>
  BY DEF BuiltSoFar, Texted
<1>2. ~Ends(o)
  BY <1>1 DEF Links, Harmless
<1>3. Date \in Refs!Symbols /\ Date.is = "braces" /\ Date # Refs!Dollar /\ Date # Refs!Open
  BY DateFacts
<1>4. "artifact" \in Refs!Passes
  BY DEF Refs!Passes
<1>5. Clean(v) /\ ~Ends(v)
  <2>1. CASE NoDollar(v)
    BY <2>1, SmallOnesAreClean
  <2>2. CASE v = <<Refs!Dollar, Date>>
    <3>1. Kept(Date)
      BY <1>3 DEF Kept
    <3> QED
      BY <1>3, <2>2, <3>1, SmallOnesAreClean
  <2> QED
    BY <2>1, <2>2
<1>6. ASSUME NEW x, Texted(x)
      PROVE  Fits(o, v \o x) /\ Read(v \o x, f, d, "artifact") = w \o Read(x, f, d, "artifact")
  <2>1. Fits(o, v \o x)
    BY <1>2 DEF Fits
  <2>2. CASE NoDollar(v) /\ v = w
    BY <1>4, <1>6, <2>1, <2>2, PlainIsRead
  <2>3. CASE v = <<Refs!Dollar, Date>> /\ w = Refs!BoundTo(Date, f, d, "artifact")
    <3>1. Read(<<Refs!Dollar, Date>> \o x, f, d, "artifact") =
            Refs!BoundTo(Date, f, d, "artifact") \o Read(x, f, d, "artifact")
      <4>1. PairIsRead(Date, x, f, d, "artifact")
        BY <1>3, <1>6, ReadsPair
      <4> QED
        BY <1>3, <4>1 DEF PairIsRead
    <3> QED
      BY <2>1, <2>3, <3>1
  <2> QED
    BY <2>2, <2>3
<1>7. Read(r, g, d, "artifact") = w \o Read(After(r, 2), g, d, "artifact")
  <2>1. ReadsBySymbol(r, g, d, "artifact")
    BY <1>1, ReadsOn DEF Texted
  <2> QED
    BY <2>1 DEF ReadsBySymbol
<1>8. 2 \in 0 .. Len(r)
  BY <1>1 DEF Texted
<1>9. Links(o, v)
  BY <1>2 DEF Links
<1>10. Writes(o, r, 2, v, w, g, f, d)
  BY <1>1, <1>2, <1>5, <1>6, <1>7, <1>8, <1>9 DEF Writes
<1> QED
  BY <1>10, BuildGoesOn

(* The beginning: nothing is written.                                        *)
LEMMA BuildOpens ==
    ASSUME NEW t, Texted(t), Apart(t), NEW g, NEW f, NEW d, Values(g, d), Values(f, d)
    PROVE  BuiltSoFar(<<>>, t, t, g, f, d)
<1>1. Texted(<<>>) /\ Clean(<<>>) /\ Links(<<>>, t)
  BY DEF Texted, Clean, Links, Ends
<1>2. "artifact" \in Refs!Passes
  BY DEF Refs!Passes
<1>3. ASSUME NEW x, Texted(x)
      PROVE  Read(<<>> \o x, f, d, "artifact") = <<>> \o Read(x, f, d, "artifact")
  <2>1. x \in Seq(Refs!Symbols) /\ Read(x, f, d, "artifact") \in Seq(Refs!Symbols)
    BY <1>2, <1>3, ReadIsTexted DEF Texted
  <2> QED
    BY <2>1, JoinNothing
<1>4. Means(<<>>, <<>>, f, d)
  BY <1>3 DEF Means
<1>5. <<>> \o Read(t, g, d, "artifact") = Read(t, g, d, "artifact")
  <2>1. Read(t, g, d, "artifact") \in Seq(Refs!Symbols)
    BY <1>2, ReadIsTexted DEF Texted
  <2> QED
    BY <2>1, JoinNothing
<1> QED
  BY <1>1, <1>4, <1>5 DEF BuiltSoFar

(* The end: what is written reads as the text does.                          *)
LEMMA BuildIsRead ==
    ASSUME NEW o, NEW t, NEW g, NEW f, NEW d, Values(g, d), Values(f, d),
           BuiltSoFar(o, <<>>, t, g, f, d)
    PROVE  /\ Texted(o) /\ Clean(o)
           /\ Read(o, f, d, "artifact") = Read(t, g, d, "artifact")
<1>1. PICK m : /\ Texted(m) /\ Means(o, m, f, d)
               /\ m \o Read(<<>>, g, d, "artifact") = Read(t, g, d, "artifact")
  BY DEF BuiltSoFar
<1>2. Texted(o) /\ Clean(o)
  BY DEF BuiltSoFar
<1>3. Read(<<>>, g, d, "artifact") = <<>> /\ Read(<<>>, f, d, "artifact") = <<>>
  BY ReadsNothing
<1>4. m \o <<>> = m /\ o \o <<>> = o
  BY <1>1, <1>2, JoinNothing DEF Texted
<1>5. Read(o \o <<>>, f, d, "artifact") = m \o Read(<<>>, f, d, "artifact")
  <2>1. Texted(<<>>) /\ Fits(o, <<>>)
    BY DEF Texted, Fits
  <2> QED
    BY <1>1, <2>1 DEF Means
<1> QED
  BY <1>1, <1>2, <1>3, <1>4, <1>5

-----------------------------------------------------------------------------
(* The invariant: where a document is in being read, for each of the passes. *)

Far == [Refs!Unbound EXCEPT !.env = <<Refs!Chr("f")>>]

RefsTypes ==
    /\ document \in Texts /\ spec \in Specs /\ given \in Resolvers /\ pass \in Refs!Passes
    /\ walk \in {"contract", "walk", "done", "refused"}
    /\ Texted(rest) /\ Texted(out) /\ secrets \subseteq {given.secret}
    /\ walk = "done" => rest = <<>>
    /\ walk = "contract" => out = <<>>

(* A run has written what the rest leaves of the meaning.                    *)
RunMeans ==
    pass = "run" =>
        out \o Read(rest, given, spec.default, "run") = Read(document, given, spec.default, "run")

(* A secret in what is written is remembered, and recorded as no more.       *)
Remembered ==
    /\ pass # "artifact" => Refs!Public(rest) /\ (Refs!Holds(out, Refs!Secret) => secrets # {})
    /\ \A u \in used : u[1].of = "secret" => u[2] = Refs!Redacted

BuildMeans ==
    pass = "build" /\ Refs!PlainDollars => BuiltSoFar(out, rest, document, given, Far, spec.default)

ArtifactMeans ==
    pass = "artifact" /\ Refs!PlainDollars /\ Refs!DefaultSatisfies =>
        /\ walk # "refused" /\ Clean(rest)
        /\ out \o Read(rest, Far, spec.default, "artifact") =
              Read(document, given, spec.default, "artifact")

RefsInv == RefsTypes /\ RunMeans /\ Remembered /\ BuildMeans /\ ArtifactMeans

LEMMA PublicIs ==
    ASSUME NEW v, Texted(v)
    PROVE  /\ Refs!Public(v) <=> \A i \in 1 .. Len(v) : v[i] # Refs!Secret
           /\ Refs!Holds(v, Refs!Secret) <=> ~Refs!Public(v)
<1>1. DOMAIN v = 1 .. Len(v)
  BY DEF Texted
<1> QED
  BY <1>1 DEF Refs!Public, Refs!Holds, Refs!ToSet

LEMMA PublicJoin ==
    ASSUME NEW a, Texted(a), NEW b, Texted(b), Refs!Public(a), Refs!Public(b)
    PROVE  Refs!Public(a \o b)
<1>1. a \in Seq(Refs!Symbols) /\ b \in Seq(Refs!Symbols) /\ Len(a) \in Nat /\ Len(b) \in Nat
  BY DEF Texted
<1>2. /\ a \o b \in Seq(Refs!Symbols) /\ Len(a \o b) = Len(a) + Len(b)
      /\ \A i \in 1 .. Len(a) : (a \o b)[i] = a[i]
      /\ \A i \in 1 .. Len(b) : (a \o b)[Len(a) + i] = b[i]
  BY <1>1, JoinTyped, JoinFacts
<1>3. /\ \A i \in 1 .. Len(a) : a[i] # Refs!Secret
      /\ \A i \in 1 .. Len(b) : b[i] # Refs!Secret
  BY PublicIs
<1> DEFINE c == a \o b
<1>4. ASSUME NEW i \in 1 .. Len(c) PROVE c[i] # Refs!Secret
  <2>1. i \in 1 .. Len(a) + Len(b)
    BY <1>2, <1>4
  <2>2. CASE i \in 1 .. Len(a)
    BY <1>2, <1>3, <2>2
  <2>3. CASE i \notin 1 .. Len(a)
    <3>1. i - Len(a) \in 1 .. Len(b) /\ Len(a) + (i - Len(a)) = i
      BY <1>1, <2>1, <2>3
    <3> QED
      BY <1>2, <1>3, <3>1
  <2> QED
    BY <2>2, <2>3
<1>5. Texted(c)
  BY <1>2 DEF Texted
<1> HIDE DEF c
<1>6. Refs!Public(c)
  BY <1>4, <1>5, PublicIs
<1> QED
  BY <1>6 DEF c

LEMMA PublicRest ==
    ASSUME NEW a, Texted(a), NEW n \in 0 .. Len(a), Refs!Public(a)
    PROVE  Refs!Public(After(a, n))
<1>1. /\ Texted(After(a, n)) /\ Len(After(a, n)) = Len(a) - n
      /\ \A i \in 1 .. Len(a) - n : After(a, n)[i] = a[i + n]
  BY AfterFacts DEF Texted
<1>2. \A i \in 1 .. Len(a) : a[i] # Refs!Secret
  BY PublicIs
<1>3. \A i \in 1 .. Len(a) - n : i + n \in 1 .. Len(a)
  BY DEF Texted
<1> QED
  BY <1>1, <1>2, <1>3, PublicIs

(* What the invariant's types give, with what the constants are.             *)
LEMMA RefsGiven ==
    ASSUME RefsTypes
    PROVE  /\ Values(given, spec.default) /\ Texted(document) /\ Refs!Public(document)
           /\ Refs!Public(given.explicit) /\ Refs!Public(given.active) /\ Refs!Public(given.env)
           /\ Refs!Public(spec.default) /\ (Refs!Has(given.secret) => given.store)
           /\ ~spec.declared => spec.default = Refs!Nothing
<1>1. given \in Refs!ResolverType /\ spec \in Refs!SpecType /\ document \in Seq(Refs!Symbols)
  BY ParamAssumption DEF RefsTypes, Refs!WellGiven
<1>2. Values(given, spec.default)
  BY <1>1 DEF Values, Refs!ResolverType, Refs!SpecType
<1> QED
  BY <1>1, <1>2, ParamAssumption DEF RefsTypes, Refs!WellGiven, Texted

LEMMA FarFacts ==
    /\ Far.explicit = Refs!Nothing /\ Far.active = Refs!Nothing /\ Far.secret = Refs!Nothing
    /\ ~Far.store /\ ~Far.shadow /\ Far.env = <<Refs!Chr("f")>> /\ Far.env \in Seq(Refs!Symbols)
<1>1. "f" \in Said
  BY DEF Said
<1>2. Refs!Chr("f") \in Refs!Symbols
  BY <1>1, PlainFacts
<1> QED
  BY <1>2 DEF Far, Refs!Unbound

LEMMA FarValues == ASSUME RefsTypes PROVE Values(Far, spec.default)
BY FarFacts, SymbolFacts, RefsGiven DEF Values

LEMMA PlainDocument ==
    ASSUME RefsTypes, Refs!PlainDollars
    PROVE  /\ Apart(document) /\ NoDollar(given.explicit) /\ NoDollar(given.active)
           /\ NoDollar(given.secret) /\ NoDollar(given.env) /\ NoDollar(spec.default)
BY RefsGiven DEF Refs!PlainDollars, Apart, NoDollar, Values, Texted

(* What a reference resolves to is what it is bound to: in a run; in a build,*)
(* unless it is deferred; and in an artifact, where it was.                  *)
LEMMA RunResolves ==
    ASSUME RefsTypes, pass = "run", NEW ref, Refs!Has(Refs!ResolveOne(ref))
    PROVE  Refs!ResolveOne(ref) = Refs!BoundTo(ref, given, spec.default, "run")
BY Zenon DEF Refs!ResolveOne, Refs!BoundTo, Refs!ResolveSecret, Refs!ResolveContext, Refs!Lookup,
             Refs!BuiltIn, Refs!BuiltIns, Refs!Resolver, Refs!Has, Date

LEMMA BuildResolves ==
    ASSUME RefsTypes, pass = "build", NEW ref, Refs!Has(Refs!ResolveOne(ref))
    PROVE  \/ /\ Refs!ResolveOne(ref) = Refs!BoundTo(ref, given, spec.default, "artifact")
              /\ Refs!ResolveOne(ref) \in {given.explicit, given.active, given.secret, given.env,
                                           spec.default, <<Refs!Chr("c")>>}
           \/ /\ Refs!ResolveOne(ref) = <<Refs!Dollar, Date>>
              /\ Refs!BoundTo(ref, given, spec.default, "artifact") = <<Refs!Chr("artifact")>>
BY Zenon DEF Refs!ResolveOne, Refs!BoundTo, Refs!ResolveSecret, Refs!ResolveContext, Refs!Lookup,
             Refs!BuiltIn, Refs!BuiltIns, Refs!Resolver, Refs!Has, Date

LEMMA FarResolves ==
    ASSUME RefsTypes, pass = "artifact"
    PROVE  /\ Refs!ResolveOne(Date) = <<Refs!Chr("artifact")>> /\ Refs!Has(Refs!ResolveOne(Date))
           /\ Refs!BoundTo(Date, Far, spec.default, "artifact") = <<Refs!Chr("artifact")>>
<1>1. Date.of = "name" /\ Date.what = "date"
  BY DateFacts
<1>2. Refs!Resolver = Far
  BY DEF Refs!Resolver, Far
<1>3. "date" # "p" /\ "date" \in Refs!BuiltIns /\ "name" \notin {"secret", "env", "context", "empty"}
  BY DEF Refs!BuiltIns
<1>4. <<Refs!Chr("artifact")>> # Refs!Nothing
  <2>1. "artifact" \in Said /\ "nothing" \in Said
    BY DEF Said, Refs!Passes
  <2>2. Refs!Chr("artifact").what = "artifact" /\ Refs!Chr("nothing").what = "nothing"
    BY <2>1, CharFacts
  <2>3. "artifact" # "nothing"
    OBVIOUS
  <2>4. Refs!Chr("artifact") # Refs!Chr("nothing")
    BY <2>2, <2>3
  <2> QED
    BY <2>4 DEF Refs!Nothing
<1>5. Refs!ResolveOne(Date) = Refs!Lookup("date")
  BY <1>1, <1>3 DEF Refs!ResolveOne
<1>6. Refs!Lookup("date") = Refs!BuiltIn("date")
  BY <1>2, <1>3, FarFacts DEF Refs!Lookup
<1>7. Refs!BuiltIn("date") = <<Refs!Chr("artifact")>>
  BY <1>3 DEF Refs!BuiltIn
<1>8. Refs!BoundTo(Date, Far, spec.default, "artifact") = <<Refs!Chr("artifact")>>
  BY <1>1, <1>3, FarFacts DEF Refs!BoundTo
<1> QED
  BY <1>4, <1>5, <1>6, <1>7, <1>8 DEF Refs!Has

(* One step of reading: v is written for the first n symbols of the rest.    *)
Stepped(v, n) ==
    /\ Texted(v) /\ n \in 0 .. Len(rest)
    /\ pass # "artifact" => Refs!Public(v) \/ secrets' # {}
    /\ pass = "run" =>
          Read(rest, given, spec.default, "run") = v \o Read(After(rest, n), given, spec.default, "run")
    /\ pass = "build" /\ Refs!PlainDollars =>
          BuiltSoFar(out \o v, After(rest, n), document, given, Far, spec.default)
    /\ pass = "artifact" /\ Clean(rest) =>
          Read(rest, Far, spec.default, "artifact") = v \o Read(After(rest, n), Far, spec.default, "artifact")

LEMMA StepKeeps ==
    ASSUME RefsInv, walk = "walk", NEW v, NEW n, Stepped(v, n),
           out' = out \o v, rest' = After(rest, n), UNCHANGED <<document, spec, given, pass, walk>>,
           secrets \subseteq secrets', secrets' \subseteq {given.secret},
           \A u \in used' : u[1].of = "secret" => u[2] = Refs!Redacted
    PROVE  RefsInv'
<1> DEFINE d == spec.default
<1>1. /\ RefsTypes /\ Texted(rest) /\ Texted(out) /\ Texted(v) /\ n \in 0 .. Len(rest)
      /\ Values(given, d) /\ Values(Far, d)
  BY RefsGiven, FarValues DEF RefsInv, RefsTypes, Stepped
<1>2. Texted(rest') /\ Texted(out')
  <2>1. Texted(After(rest, n))
    BY <1>1, RestStays
  <2>2. Texted(out \o v)
    BY <1>1, JoinTyped DEF Texted
  <2> QED
    BY <2>1, <2>2
<1>3. RefsTypes'
  BY <1>1, <1>2 DEF RefsTypes
<1>4. ASSUME NEW g, Values(g, d), NEW place \in Refs!Passes, NEW t,
             out \o Read(rest, g, d, place) = t,
             Read(rest, g, d, place) = v \o Read(After(rest, n), g, d, place)
      PROVE  (out \o v) \o Read(After(rest, n), g, d, place) = t
  <2> DEFINE y == Read(After(rest, n), g, d, place)
  <2>1. Texted(After(rest, n))
    BY <1>1, RestStays
  <2>2. y \in Seq(Refs!Symbols) /\ out \in Seq(Refs!Symbols) /\ v \in Seq(Refs!Symbols)
    BY <1>1, <1>4, <2>1, ReadIsTexted DEF Texted
  <2>3. (out \o v) \o y = out \o (v \o y)
    BY <2>2, JoinAssoc
  <2> QED
    BY <1>4, <2>3
<1> DEFINE x == After(rest, n)
           o == out \o v
<1>5. rest' = x /\ out' = o
  OBVIOUS
<1>6. RunMeans'
  <2>1. SUFFICES ASSUME pass = "run"
                 PROVE  o \o Read(x, given, d, "run") = Read(document, given, d, "run")
    BY <1>5 DEF RunMeans
  <2>2. out \o Read(rest, given, d, "run") = Read(document, given, d, "run")
    BY <2>1 DEF RefsInv, RunMeans
  <2>3. Read(rest, given, d, "run") = v \o Read(x, given, d, "run")
    BY <2>1 DEF Stepped
  <2>4. "run" \in Refs!Passes
    BY DEF Refs!Passes
  <2> QED
    BY <1>1, <1>4, <2>2, <2>3, <2>4
<1>7. Remembered'
  <2>1. ASSUME pass # "artifact" PROVE Refs!Public(x)
    BY <1>1, <2>1, PublicRest DEF RefsInv, Remembered
  <2>2. ASSUME pass # "artifact", Refs!Holds(o, Refs!Secret) PROVE secrets' # {}
    <3>1. CASE secrets' # {}
      BY <3>1
    <3>2. CASE secrets' = {}
      <4>1. Refs!Public(v) /\ secrets = {}
        BY <2>2, <3>2 DEF Stepped
      <4>2. Refs!Public(out)
        BY <1>1, <2>2, <4>1, PublicIs DEF RefsInv, Remembered
      <4>3. Refs!Public(o) /\ Texted(o)
        BY <1>1, <1>2, <1>5, <4>1, <4>2, PublicJoin
      <4> HIDE DEF o
      <4> QED
        BY <2>2, <4>3, PublicIs
    <3> QED
      BY <3>1, <3>2
  <2> HIDE DEF x, o
  <2> QED
    BY <1>5, <2>1, <2>2 DEF Remembered, Refs!Public, Refs!Holds
<1>8. BuildMeans'
  <2>1. Refs!PlainDollars' <=> Refs!PlainDollars
    BY DEF Refs!PlainDollars, Refs!Dollars, Refs!Holds
  <2>2. pass = "build" /\ Refs!PlainDollars => BuiltSoFar(o, x, document, given, Far, d)
    BY DEF Stepped
  <2> HIDE DEF x, o
  <2>3. BuiltSoFar(out, rest, document, given, Far, spec.default)' <=>
          BuiltSoFar(o, x, document, given, Far, d)
    BY <1>5 DEF BuiltSoFar, Far
  <2> QED
    BY <2>1, <2>2, <2>3 DEF BuildMeans
<1>9. ArtifactMeans'
  <2>1. /\ Refs!PlainDollars' <=> Refs!PlainDollars
        /\ Refs!DefaultSatisfies' <=> Refs!DefaultSatisfies
    BY DEF Refs!PlainDollars, Refs!Dollars, Refs!Holds, Refs!DefaultSatisfies, Refs!Satisfied,
           Refs!CheckType
  <2>2. SUFFICES ASSUME pass = "artifact", Refs!PlainDollars, Refs!DefaultSatisfies
                 PROVE  /\ Clean(x)
                        /\ o \o Read(x, Far, d, "artifact") = Read(document, given, d, "artifact")
    BY <1>5, <2>1 DEF ArtifactMeans, Far
  <2>3. Clean(rest) /\ out \o Read(rest, Far, d, "artifact") = Read(document, given, d, "artifact")
    BY <2>2 DEF RefsInv, ArtifactMeans
  <2>4. Clean(x)
    BY <1>1, <2>3, RestStays
  <2>5. Read(rest, Far, d, "artifact") = v \o Read(x, Far, d, "artifact")
    BY <2>2, <2>3 DEF Stepped
  <2>6. "artifact" \in Refs!Passes
    BY DEF Refs!Passes
  <2> QED
    BY <1>1, <1>4, <2>3, <2>4, <2>5, <2>6
<1> QED
  BY <1>3, <1>6, <1>7, <1>8, <1>9 DEF RefsInv

(* The second symbol of what is to be read.                                  *)
LEMMA SecondIs ==
    ASSUME RefsTypes, rest # <<>>
    PROVE  /\ rest \in Seq(Refs!Symbols) /\ Len(rest) \in Nat /\ Len(rest) > 0 /\ rest[1] \in Refs!Symbols
           /\ Len(rest) > 1 => Refs!Second = rest[2]
           /\ Refs!Second.is = "braces" \/ Refs!Second \in {Refs!Dollar, Refs!Open} => Len(rest) > 1
<1>1. rest \in Seq(Refs!Symbols)
  BY DEF RefsTypes, Texted
<1>2. Len(rest) \in Nat /\ Len(rest) > 0 /\ rest[1] \in Refs!Symbols
  BY <1>1
<1>3. Len(rest) > 1 => Refs!Second = rest[2]
  BY DEF Refs!Second
<1>4. ~(Len(rest) > 1) => Refs!Second = Refs!Nothing[1]
  BY DEF Refs!Second
<1> QED
  BY <1>1, <1>2, <1>3, <1>4, SymbolFacts

(* A symbol that stays as it is, in whichever pass.                          *)
LEMMA CharacterKeeps ==
    ASSUME RefsInv, Refs!Character \/ Refs!Lone
    PROVE  RefsInv'
<1> DEFINE c == rest[1]
           v == <<c>>
           d == spec.default
<1>1. /\ RefsTypes /\ walk = "walk" /\ rest # <<>> /\ UNCHANGED <<used, secrets>>
      /\ UNCHANGED <<document, spec, given, pass, walk>>
      /\ out' = out \o v /\ rest' = After(rest, 1)
  BY DEF RefsInv, Refs!Character, Refs!Lone, Refs!Interpolating, Refs!Write, Refs!Traced, After
<1>2. /\ rest \in Seq(Refs!Symbols) /\ Len(rest) \in Nat /\ Len(rest) > 0 /\ c \in Refs!Symbols
      /\ Len(rest) > 1 => Refs!Second = rest[2]
  BY <1>1, SecondIs
<1>3. c = Refs!Dollar => (Len(rest) > 1 => Harmless(rest[2]))
  BY <1>2 DEF Refs!Character, Refs!Lone, Harmless
<1>4. Texted(v) /\ Len(v) = 1 /\ v[1] = c /\ 1 \in 0 .. Len(rest)
  BY <1>2 DEF Texted
<1>5. pass # "artifact" => Refs!Public(v)
  <2>1. pass # "artifact" => c # Refs!Secret
    <3>1. Texted(rest) /\ 1 \in 1 .. Len(rest)
      BY <1>1, <1>2 DEF RefsTypes
    <3> QED
      BY <3>1, PublicIs DEF RefsInv, Remembered
  <2>2. pass # "artifact" => \A i \in 1 .. Len(v) : v[i] # Refs!Secret
    BY <1>4, <2>1
  <2> HIDE DEF v
  <2> QED
    BY <1>4, <2>2, PublicIs
<1>6. ASSUME NEW g, NEW place
      PROVE  Read(rest, g, d, place) = v \o Read(After(rest, 1), g, d, place)
  <2>1. ReadsBySymbol(rest, g, d, place)
    BY <1>2, ReadsOn
  <2>2. c = Refs!Dollar => (Len(rest) > 1 => rest[2] # Refs!Dollar /\ rest[2].is # "braces")
    BY <1>3 DEF Harmless
  <2> QED
    BY <1>1, <2>1, <2>2 DEF ReadsBySymbol
<1>7. pass = "build" /\ Refs!PlainDollars =>
          BuiltSoFar(out \o v, After(rest, 1), document, given, Far, d)
  <2>1. Values(given, d) /\ Values(Far, d)
    BY <1>1, RefsGiven, FarValues
  <2> QED
    BY <1>1, <1>3, <2>1, CopyGoesOn DEF RefsInv, BuildMeans
<1>8. Stepped(v, 1)
  <2> HIDE DEF v
  <2> QED
    BY <1>4, <1>5, <1>6, <1>7 DEF Stepped
<1>9. /\ secrets \subseteq secrets' /\ secrets' \subseteq {given.secret}
      /\ \A u \in used' : u[1].of = "secret" => u[2] = Refs!Redacted
  BY <1>1 DEF RefsInv, RefsTypes, Remembered
<1> HIDE DEF v, d
<1> QED
  BY <1>1, <1>8, <1>9, StepKeeps

(* "$$" is one dollar; a build that artifacts rest on meets none.            *)
LEMMA EscapedKeeps ==
    ASSUME RefsInv, Refs!Escaped
    PROVE  RefsInv'
<1> DEFINE v == <<Refs!Dollar>>
           d == spec.default
<1>1. /\ RefsTypes /\ walk = "walk" /\ rest # <<>> /\ UNCHANGED <<used, secrets>>
      /\ UNCHANGED <<document, spec, given, pass, walk>>
      /\ out' = out \o v /\ rest' = After(rest, 2)
      /\ rest[1] = Refs!Dollar /\ Refs!Second = Refs!Dollar
  BY DEF RefsInv, Refs!Escaped, Refs!Interpolating, Refs!Write, Refs!Traced, After
<1>2. /\ rest \in Seq(Refs!Symbols) /\ Len(rest) \in Nat /\ Len(rest) > 1 /\ rest[2] = Refs!Dollar
  BY <1>1, SecondIs
<1>4. Texted(v) /\ Len(v) = 1 /\ v[1] = Refs!Dollar /\ 2 \in 0 .. Len(rest)
  BY <1>2, SymbolFacts DEF Texted
<1>5. Refs!Public(v)
  <2>1. \A i \in 1 .. Len(v) : v[i] # Refs!Secret
    BY <1>4, SymbolFacts
  <2> HIDE DEF v
  <2> QED
    BY <1>4, <2>1, PublicIs
<1>6. ASSUME NEW g, NEW place
      PROVE  Read(rest, g, d, place) = v \o Read(After(rest, 2), g, d, place)
  <2>1. ReadsBySymbol(rest, g, d, place)
    BY <1>2, ReadsOn
  <2> QED
    BY <1>1, <1>2, <2>1 DEF ReadsBySymbol
<1>7. ~(pass = "build" /\ Refs!PlainDollars)
  <2>1. ASSUME pass = "build", Refs!PlainDollars PROVE FALSE
    <3>1. Apart(rest)
      BY <2>1 DEF RefsInv, BuildMeans, BuiltSoFar
    <3>2. 1 \in 1 .. Len(rest) - 1 /\ 1 + 1 = 2
      BY <1>2
    <3> QED
      BY <1>1, <1>2, <3>1, <3>2 DEF Apart
  <2> QED
    BY <2>1
<1>8. Stepped(v, 2)
  <2> HIDE DEF v
  <2> QED
    BY <1>4, <1>5, <1>6, <1>7 DEF Stepped
<1>9. /\ secrets \subseteq secrets' /\ secrets' \subseteq {given.secret}
      /\ \A u \in used' : u[1].of = "secret" => u[2] = Refs!Redacted
  BY <1>1 DEF RefsInv, RefsTypes, Remembered
<1> HIDE DEF v, d
<1> QED
  BY <1>1, <1>8, <1>9, StepKeeps

(* Where what a reference resolves to comes from.                            *)
LEMMA ResolvedFrom ==
    ASSUME RefsTypes, NEW ref, Refs!Has(Refs!ResolveOne(ref))
    PROVE  \/ ref.of = "secret" /\ pass # "artifact" /\ Refs!ResolveOne(ref) = given.secret
           \/ /\ ref.of # "secret"
              /\ Refs!ResolveOne(ref) \in
                    {given.explicit, given.active, given.env, spec.default, <<Refs!Chr("c")>>,
                     <<Refs!Chr("f")>>, <<Refs!Chr(pass)>>, <<Refs!Dollar, Date>>}
<1>1. CASE pass = "artifact"
  <2>1. Refs!Resolver = Far
    BY <1>1 DEF Refs!Resolver, Far
  <2> QED
    BY <2>1, <1>1, FarFacts, Zenon DEF Refs!ResolveOne, Refs!ResolveSecret, Refs!ResolveContext,
       Refs!Lookup, Refs!BuiltIn, Refs!BuiltIns, Refs!Has, Date
<1>2. CASE pass # "artifact"
  BY <1>2, Zenon DEF Refs!ResolveOne, Refs!ResolveSecret, Refs!ResolveContext, Refs!Lookup,
     Refs!BuiltIn, Refs!BuiltIns, Refs!Resolver, Refs!Has, Date
<1> QED
  BY <1>1, <1>2

LEMMA ResolvedFacts ==
    ASSUME RefsTypes, NEW ref, Refs!Has(Refs!ResolveOne(ref))
    PROVE  /\ Texted(Refs!ResolveOne(ref))
           /\ ref.of # "secret" => Refs!Public(Refs!ResolveOne(ref))
           /\ ref.of = "secret" => Refs!ResolveOne(ref) = given.secret
<1>1. ASSUME NEW c \in Refs!Symbols, c # Refs!Secret PROVE Texted(<<c>>) /\ Refs!Public(<<c>>)
  <2> DEFINE v == <<c>>
  <2>1. Texted(v) /\ \A i \in 1 .. Len(v) : v[i] # Refs!Secret
    BY <1>1 DEF Texted
  <2> HIDE DEF v
  <2>2. Texted(v) /\ Refs!Public(v)
    BY <2>1, PublicIs
  <2> QED
    BY <2>2 DEF v
<1>2. /\ "c" \in Said /\ "f" \in Said /\ pass \in Said
      /\ "c" # "s" /\ "f" # "s" /\ pass # "s"
  BY DEF Said, RefsTypes, Refs!Passes
<1>3. /\ Texted(<<Refs!Chr("c")>>) /\ Refs!Public(<<Refs!Chr("c")>>)
      /\ Texted(<<Refs!Chr("f")>>) /\ Refs!Public(<<Refs!Chr("f")>>)
      /\ Texted(<<Refs!Chr(pass)>>) /\ Refs!Public(<<Refs!Chr(pass)>>)
  BY <1>1, <1>2, PlainFacts
<1>4. Texted(<<Refs!Dollar, Date>>) /\ Refs!Public(<<Refs!Dollar, Date>>)
  <2> DEFINE v == <<Refs!Dollar, Date>>
  <2>1. v \in Seq(Refs!Symbols) /\ \A i \in 1 .. Len(v) : v[i] # Refs!Secret
    BY SymbolFacts, DateFacts
  <2> HIDE DEF v
  <2>2. Texted(v) /\ Refs!Public(v)
    BY <2>1, PublicIs DEF Texted
  <2> QED
    BY <2>2 DEF v
<1>5. /\ Texted(given.explicit) /\ Texted(given.active) /\ Texted(given.env) /\ Texted(given.secret)
      /\ Texted(spec.default) /\ Refs!Public(given.explicit) /\ Refs!Public(given.active)
      /\ Refs!Public(given.env) /\ Refs!Public(spec.default)
  BY RefsGiven DEF Values, Texted
<1> QED
  BY <1>3, <1>4, <1>5, ResolvedFrom

LEMMA ReferenceKeeps ==
    ASSUME RefsInv, Refs!Reference
    PROVE  RefsInv'
<1> DEFINE ref == Refs!Second
           v == Refs!ResolveOne(ref)
           d == spec.default
<1>1. /\ RefsTypes /\ walk = "walk" /\ rest # <<>>
      /\ UNCHANGED <<document, spec, given, pass, walk>>
      /\ out' = out \o v /\ rest' = After(rest, 2)
      /\ rest[1] = Refs!Dollar /\ ref.is = "braces" /\ Refs!Has(v)
      /\ secrets' = Refs!Remember(ref, v)
      /\ used' = used \cup {<<ref, IF v \in secrets' THEN Refs!Redacted ELSE v>>}
  BY DEF RefsInv, Refs!Reference, Refs!Referring, Refs!Interpolating, Refs!Write, After
<1>2. /\ rest \in Seq(Refs!Symbols) /\ Len(rest) \in Nat /\ Len(rest) > 1 /\ rest[2] = ref
      /\ 2 \in 0 .. Len(rest)
  BY <1>1, SecondIs
<1> HIDE DEF ref
<1>3. /\ Texted(v) /\ (ref.of # "secret" => Refs!Public(v))
      /\ ref.of = "secret" => v = given.secret
  BY <1>1, ResolvedFacts
<1>4. Values(given, d) /\ Values(Far, d)
  BY <1>1, RefsGiven, FarValues
<1>5. ASSUME NEW g, NEW place
      PROVE  Read(rest, g, d, place) = Refs!BoundTo(ref, g, d, place) \o Read(After(rest, 2), g, d, place)
  <2>1. ReadsBySymbol(rest, g, d, place)
    BY <1>2, ReadsOn
  <2> QED
    BY <1>1, <1>2, <2>1 DEF ReadsBySymbol
<1>6. ASSUME pass = "run"
      PROVE  Read(rest, given, d, "run") = v \o Read(After(rest, 2), given, d, "run")
  BY <1>1, <1>5, <1>6, RunResolves
<1>7. ASSUME pass = "build", Refs!PlainDollars
      PROVE  BuiltSoFar(out \o v, After(rest, 2), document, given, Far, d)
  <2> DEFINE w == Refs!BoundTo(ref, given, d, "artifact")
  <2>0. "artifact" \in Refs!Passes
    BY DEF Refs!Passes
  <2>1. Texted(w)
    BY <1>4, <2>0, BoundIs DEF Texted
  <2>2. BuiltSoFar(out, rest, document, given, Far, d)
    BY <1>7 DEF RefsInv, BuildMeans
  <2>3. \/ NoDollar(v) /\ v = w
        \/ v = <<Refs!Dollar, Date>> /\ w = Refs!BoundTo(Date, Far, d, "artifact")
    <3>1. NoDollar(<<Refs!Chr("c")>>)
      <4>1. "c" \in Said /\ "c" # "$"
        BY DEF Said
      <4>2. Refs!Chr("c") \in Refs!Symbols /\ Refs!Chr("c") # Refs!Dollar
        BY <4>1, PlainFacts
      <4> DEFINE u == <<Refs!Chr("c")>>
      <4>3. Texted(u) /\ \A i \in 1 .. Len(u) : u[i] # Refs!Dollar
        BY <4>2 DEF Texted
      <4> HIDE DEF u
      <4>4. NoDollar(u)
        BY <4>3, NoDollarIs
      <4> QED
        BY <4>4 DEF u
    <3>2. /\ NoDollar(given.explicit) /\ NoDollar(given.active) /\ NoDollar(given.secret)
          /\ NoDollar(given.env) /\ NoDollar(d)
      BY <1>1, <1>7, PlainDocument
    <3>3. Refs!BoundTo(Date, Far, d, "artifact") = <<Refs!Chr("artifact")>>
      <4>1. Date.of = "name" /\ Date.what = "date" /\ ~Far.shadow
        BY DateFacts, FarFacts
      <4>2. "date" \in Refs!BuiltIns /\ "name" \notin {"secret", "env", "context"}
        BY DEF Refs!BuiltIns
      <4> QED
        BY <4>1, <4>2 DEF Refs!BoundTo
    <3> QED
      BY <1>1, <1>7, <3>1, <3>2, <3>3, BuildResolves
  <2> HIDE DEF v, w, d
  <2>4. /\ Len(rest) > 1 /\ rest[1] = Refs!Dollar /\ rest[2].is = "braces"
        /\ w = Refs!BoundTo(rest[2], given, d, "artifact")
    BY <1>1, <1>2 DEF w
  <2> QED
    BY <1>3, <1>4, <2>1, <2>2, <2>3, <2>4, BuildRefers
<1>8. ASSUME pass = "artifact", Clean(rest)
      PROVE  Read(rest, Far, d, "artifact") = v \o Read(After(rest, 2), Far, d, "artifact")
  <2>1. 1 \in 1 .. Len(rest) - 1 /\ 1 + 1 = 2
    BY <1>2
  <2>2. ref = Date
    BY <1>1, <1>2, <1>8, <2>1 DEF Clean, Kept
  <2>3. v = Refs!BoundTo(ref, Far, d, "artifact")
    BY <1>1, <1>8, <2>2, FarResolves
  <2> QED
    BY <1>5, <2>3
<1>9. /\ secrets \subseteq secrets' /\ secrets' \subseteq {given.secret}
      /\ ref.of = "secret" => v \in secrets'
  BY <1>1, <1>3 DEF Refs!Remember, RefsTypes
<1>10. \A u \in used' : u[1].of = "secret" => u[2] = Refs!Redacted
  <2>1. \A u \in used : u[1].of = "secret" => u[2] = Refs!Redacted
    BY DEF RefsInv, Remembered
  <2> HIDE DEF v
  <2> QED
    BY <1>1, <1>9, <2>1
<1>11. Stepped(v, 2)
  <2> HIDE DEF v
  <2> QED
    BY <1>2, <1>3, <1>6, <1>7, <1>8, <1>9 DEF Stepped
<1> HIDE DEF v, d
<1> QED
  BY <1>1, <1>9, <1>10, <1>11, StepKeeps

(* An artifact whose build met its conditions.                               *)
Built == pass = "artifact" /\ Refs!PlainDollars /\ Refs!DefaultSatisfies

LEMMA PhaseKeeps ==
    ASSUME RefsInv, UNCHANGED <<document, spec, given, pass, rest, out, used, secrets>>,
           walk' \in {"walk", "done", "refused"}, walk' = "done" => rest = <<>>,
           walk' = "refused" => ~Built
    PROVE  RefsInv'
<1>1. RefsTypes'
  BY DEF RefsInv, RefsTypes
<1>2. RunMeans'
  BY DEF RefsInv, RunMeans
<1>3. Remembered'
  BY DEF RefsInv, Remembered, Refs!Public, Refs!Holds
<1>4. BuildMeans'
  BY DEF RefsInv, BuildMeans, Refs!PlainDollars, Refs!Dollars, Refs!Holds, BuiltSoFar, Far
<1>5. ArtifactMeans'
  <2>1. /\ Refs!PlainDollars' <=> Refs!PlainDollars
        /\ Refs!DefaultSatisfies' <=> Refs!DefaultSatisfies
    BY DEF Refs!PlainDollars, Refs!Dollars, Refs!Holds, Refs!DefaultSatisfies, Refs!Satisfied,
           Refs!CheckType
  <2> QED
    BY <2>1 DEF RefsInv, ArtifactMeans, Built, Far
<1> QED
  BY <1>1, <1>2, <1>3, <1>4, <1>5 DEF RefsInv

LEMMA RefsStill ==
    ASSUME RefsInv, UNCHANGED <<document, spec, given, pass, walk, rest, out, used, secrets>>
    PROVE  RefsInv'
<1>1. RefsTypes'
  BY DEF RefsInv, RefsTypes
<1>2. RunMeans'
  BY DEF RefsInv, RunMeans
<1>3. Remembered'
  BY DEF RefsInv, Remembered, Refs!Public, Refs!Holds
<1>4. BuildMeans'
  BY DEF RefsInv, BuildMeans, Refs!PlainDollars, Refs!Dollars, Refs!Holds, BuiltSoFar, Far
<1>5. ArtifactMeans'
  BY DEF RefsInv, ArtifactMeans, Refs!PlainDollars, Refs!Dollars, Refs!Holds,
         Refs!DefaultSatisfies, Refs!Satisfied, Refs!CheckType, Far
<1> QED
  BY <1>1, <1>2, <1>3, <1>4, <1>5 DEF RefsInv

LEMMA ContractKeeps ==
    ASSUME RefsInv, Refs!CheckContract
    PROVE  RefsInv'
<1>1. /\ UNCHANGED <<document, spec, given, pass, rest, out, used, secrets>>
      /\ walk' \in {"walk", "refused"}
      /\ walk' = "refused" => spec.declared /\ ~Refs!Satisfied(Refs!Lookup("p"))
  BY DEF Refs!CheckContract
<1>2. ASSUME Built PROVE spec.declared => Refs!Satisfied(Refs!Lookup("p"))
  <2>1. Refs!Resolver = Far
    BY <1>2 DEF Built, Refs!Resolver, Far
  <2>2. "p" # "date"
    OBVIOUS
  <2>3. Refs!BuiltIn("p") = Refs!Nothing
    BY <2>2 DEF Refs!BuiltIn, Refs!BuiltIns
  <2>4. spec.declared => Refs!Lookup("p") = spec.default
    BY <2>1, <2>2, <2>3, FarFacts DEF Refs!Lookup, Refs!BuiltIns, Refs!Has
  <2> QED
    BY <1>2, <2>4 DEF Built, Refs!DefaultSatisfies
<1> QED
  BY <1>1, <1>2, PhaseKeeps

LEMMA RefuseKeeps ==
    ASSUME RefsInv, Refs!Unterminated \/ Refs!Unresolved
    PROVE  RefsInv'
<1>1. /\ UNCHANGED <<document, spec, given, pass, rest, out, used, secrets>> /\ walk' = "refused"
      /\ RefsTypes /\ rest # <<>> /\ rest[1] = Refs!Dollar
      /\ \/ Refs!Second = Refs!Open
         \/ Refs!Second.is = "braces" /\ ~Refs!Has(Refs!ResolveOne(Refs!Second))
  BY DEF RefsInv, Refs!Unterminated, Refs!Unresolved, Refs!Referring, Refs!Interpolating, Refs!Refuse
<1>2. ASSUME Built PROVE FALSE
  <2>1. Len(rest) \in Nat /\ Len(rest) > 1 /\ rest[2] = Refs!Second
    BY <1>1, SecondIs
  <2>2. 1 \in 1 .. Len(rest) - 1 /\ 1 + 1 = 2
    BY <2>1
  <2>3. Clean(rest)
    BY <1>2 DEF RefsInv, ArtifactMeans, Built
  <2>4. Kept(Refs!Second)
    BY <1>1, <2>1, <2>2, <2>3 DEF Clean
  <2>5. Refs!Second = Date /\ ~Refs!Has(Refs!ResolveOne(Date))
    BY <1>1, <2>4 DEF Kept
  <2> QED
    BY <1>1, <1>2, <2>5, FarResolves DEF Built
<1> QED
  BY <1>1, <1>2, PhaseKeeps

LEMMA ResolveKeeps ==
    ASSUME RefsInv, Refs!Resolve
    PROVE  RefsInv'
<1>1. /\ UNCHANGED <<document, spec, given, pass, rest, out, used, secrets>>
      /\ walk' = "done" /\ rest = <<>>
  BY DEF Refs!Resolve
<1> QED
  BY <1>1, PhaseKeeps

LEMMA RunArtifactKeeps ==
    ASSUME RefsInv, Refs!RunArtifact
    PROVE  RefsInv'
<1>1. /\ RefsTypes /\ walk = "done" /\ pass = "build" /\ rest = <<>>
      /\ pass' = "artifact" /\ walk' = "contract" /\ rest' = out /\ out' = <<>>
      /\ used' = {} /\ secrets' = {} /\ UNCHANGED <<document, spec, given>>
  BY DEF RefsInv, RefsTypes, Refs!RunArtifact
<1>2. Texted(<<>>)
  BY DEF Texted
<1>3. RefsTypes'
  BY <1>1, <1>2 DEF RefsTypes, Refs!Passes
<1>4. RunMeans' /\ Remembered' /\ BuildMeans'
  BY <1>1 DEF RunMeans, Remembered, BuildMeans
<1>5. ArtifactMeans'
  <2>1. Refs!PlainDollars' <=> Refs!PlainDollars
    BY <1>1 DEF Refs!PlainDollars, Refs!Dollars, Refs!Holds
  <2> DEFINE d == spec.default
  <2>2. ASSUME Refs!PlainDollars
        PROVE  /\ Clean(out)
               /\ <<>> \o Read(out, Far, d, "artifact") = Read(document, given, d, "artifact")
    <3>1. Values(given, d) /\ Values(Far, d)
      BY <1>1, RefsGiven, FarValues
    <3>2. BuiltSoFar(out, <<>>, document, given, Far, d)
      BY <1>1, <2>2 DEF RefsInv, BuildMeans
    <3>3. /\ Texted(out) /\ Clean(out)
          /\ Read(out, Far, d, "artifact") = Read(document, given, d, "artifact")
      BY <3>1, <3>2, BuildIsRead
    <3>4. "artifact" \in Refs!Passes
      BY DEF Refs!Passes
    <3>5. Read(out, Far, d, "artifact") \in Seq(Refs!Symbols)
      BY <3>1, <3>3, <3>4, ReadIsTexted DEF Texted
    <3>6. <<>> \o Read(out, Far, d, "artifact") = Read(out, Far, d, "artifact")
      BY <3>5, JoinNothing
    <3> QED
      BY <3>3, <3>6
  <2> QED
    BY <1>1, <2>1, <2>2 DEF ArtifactMeans, Far
<1> QED
  BY <1>3, <1>4, <1>5 DEF RefsInv

LEMMA RefsBegin ==
    ASSUME Refs!Init
    PROVE  RefsInv
<1>1. /\ document \in Texts /\ spec \in Specs /\ given \in Resolvers /\ pass \in {"run", "build"}
      /\ walk = "contract" /\ rest = document /\ out = <<>> /\ used = {} /\ secrets = {}
  BY DEF Refs!Init
<1>2. Texted(document) /\ Texted(<<>>)
  BY <1>1, ParamAssumption DEF Refs!WellGiven, Texted
<1>3. RefsTypes
  BY <1>1, <1>2 DEF RefsTypes, Refs!Passes
<1> DEFINE d == spec.default
<1>4. Values(given, d) /\ Values(Far, d) /\ Refs!Public(document)
  BY <1>3, RefsGiven, FarValues
<1>5. RunMeans
  <2>1. "run" \in Refs!Passes
    BY DEF Refs!Passes
  <2>2. Read(document, given, d, "run") \in Seq(Refs!Symbols)
    BY <1>2, <1>4, <2>1, ReadIsTexted DEF Texted
  <2>3. <<>> \o Read(document, given, d, "run") = Read(document, given, d, "run")
    BY <2>2, JoinNothing
  <2> QED
    BY <1>1, <2>3 DEF RunMeans
<1>6. Remembered
  <2>1. ~Refs!Holds(<<>>, Refs!Secret)
    BY DEF Refs!Holds, Refs!ToSet
  <2> QED
    BY <1>1, <1>4, <2>1 DEF Remembered
<1>7. BuildMeans
  <2>1. ASSUME Refs!PlainDollars PROVE BuiltSoFar(<<>>, document, document, given, Far, d)
    BY <1>2, <1>3, <1>4, <2>1, PlainDocument, BuildOpens
  <2> QED
    BY <1>1, <2>1 DEF BuildMeans
<1>8. ArtifactMeans
  BY <1>1 DEF ArtifactMeans
<1> QED
  BY <1>3, <1>5, <1>6, <1>7, <1>8 DEF RefsInv

LEMMA RefsStep ==
    ASSUME RefsInv, Refs!Next
    PROVE  RefsInv'
<1>1. CASE Refs!CheckContract
  BY <1>1, ContractKeeps
<1>2. CASE Refs!Character \/ Refs!Lone
  BY <1>2, CharacterKeeps
<1>3. CASE Refs!Escaped
  BY <1>3, EscapedKeeps
<1>4. CASE Refs!Unterminated \/ Refs!Unresolved
  BY <1>4, RefuseKeeps
<1>5. CASE Refs!Reference
  BY <1>5, ReferenceKeeps
<1>6. CASE Refs!Resolve
  BY <1>6, ResolveKeeps
<1>7. CASE Refs!RunArtifact
  BY <1>7, RunArtifactKeeps
<1>8. CASE Refs!Ended
  BY <1>8, RefsStill DEF Refs!Ended, Refs!paramVars
<1> QED
  BY <1>1, <1>2, <1>3, <1>4, <1>5, <1>6, <1>7, <1>8 DEF Refs!Next

LEMMA RefsTold ==
    ASSUME RefsInv
    PROVE  Refs!TypeOK /\ Refs!SaysWhatItMeans /\ Refs!ArtifactAgrees /\ Refs!SecretsKept
<1> DEFINE d == spec.default
<1>1. RefsTypes /\ Texted(out) /\ (walk = "done" => rest = <<>>)
  BY DEF RefsInv, RefsTypes
<1>2. Refs!TypeOK
  BY <1>1 DEF RefsTypes, Refs!TypeOK
<1>3. ASSUME NEW g, NEW place PROVE walk = "done" => out \o Read(rest, g, d, place) = out
  <2>1. Read(<<>>, g, d, place) = <<>>
    BY ReadsNothing
  <2>2. out \o <<>> = out
    BY <1>1, JoinNothing DEF Texted
  <2> QED
    BY <1>1, <2>1, <2>2
<1>4. Refs!SaysWhatItMeans
  <2>1. pass = "run" =>
          out \o Read(rest, given, d, "run") = Read(document, given, d, "run")
    BY DEF RefsInv, RunMeans
  <2> QED
    BY <1>3, <2>1 DEF Refs!SaysWhatItMeans, Refs!Meaning, Read
<1>5. Refs!ArtifactAgrees
  <2>1. pass = "artifact" /\ Refs!PlainDollars /\ Refs!DefaultSatisfies =>
          /\ walk # "refused"
          /\ out \o Read(rest, Far, d, "artifact") = Read(document, given, d, "artifact")
    BY DEF RefsInv, ArtifactMeans
  <2> QED
    BY <1>3, <2>1 DEF Refs!ArtifactAgrees, Refs!Meaning, Read
<1>6. Refs!SecretsKept
  BY DEF RefsInv, Remembered, Refs!SecretsKept
<1> QED
  BY <1>2, <1>4, <1>5, <1>6

(* For any text, any declaration and any bindings: what is resolved says    *)
(* what the text means, with each reference replaced once; an artifact says *)
(* it too, without a second contract to fail, if no dollar is left over     *)
(* and its default satisfies; and a secret that is put in is remembered     *)
(* (Resolver::interpolate, resolve_one, check_contract and deferring).      *)
THEOREM ParamsMeanTheorem == ToolsSpec => []ParamsMean
<1> DEFINE Inv == which = "params" => RefsInv
<1>1. ToolsInit => Inv
  BY RefsBegin DEF ToolsInit
<1>2. Inv /\ [ToolsNext]_all => Inv'
  <2> SUFFICES ASSUME Inv, [ToolsNext]_all, which' = "params" PROVE RefsInv'
    OBVIOUS
  <2>1. which = "params"
    BY DEF ToolsNext, CommandsEnd, all
  <2>2. Refs!Next \/ UNCHANGED resolved
    BY <2>1 DEF ToolsNext, CommandsEnd, all
  <2> QED
    BY <2>1, <2>2, RefsStep, RefsStill DEF resolved
<1>3. Inv => ParamsMean
  BY RefsTold DEF ParamsMean
<1> QED
  BY <1>1, <1>2, <1>3, PTL DEF ToolsSpec

=============================================================================
