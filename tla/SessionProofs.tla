--------------------------- MODULE SessionProofs ---------------------------
(***************************************************************************)
(* What a DuckDB session tells its caller is so, for any number of         *)
(* statements and lines and any size of the pipes, whatever the order in   *)
(* which the two pipes deliver, the pumps run and the child dies.          *)
(***************************************************************************)
EXTENDS Session, TLAPS

Sizes == PipeSize \in Nat /\ MaxStatements \in Nat /\ MaxLines \in Nat

-----------------------------------------------------------------------------
(* Types.                                                                  *)

FlagTypes ==
    /\ prompt \in BOOLEAN
    /\ marked \in BOOLEAN
    /\ opened \in BOOLEAN
    /\ lost \in BOOLEAN

ChildTypes ==
    /\ child \in {"alive", "doomed", "dead"}
    /\ doing \in Nat
    /\ doing <= sent + 1
    /\ left \in Outputs
    /\ said \in [Streams -> Seq(Line)]

DriverTypes ==
    /\ mode \in {"idle", "out", "err", "closing", "closed"}
    /\ sequence \in Statements
    /\ sent \in Statements
    /\ sent <= sequence
    /\ verdict \in {"none", "ok", "badOutput"} \cup Errors

CursorTypes ==
    /\ pumped \in [Streams -> Nat]
    /\ read \in [Streams -> Nat]
    /\ from \in [Streams -> Nat]
    /\ \A s \in Streams : /\ from[s] <= read[s]
                          /\ read[s] <= pumped[s]
                          /\ pumped[s] <= Len(said[s])
                          /\ Len(said[s]) <= pumped[s] + PipeSize

Types == FlagTypes /\ ChildTypes /\ DriverTypes /\ CursorTypes

(* What a write to a stream does to its history.                           *)
LEMMA WriteFacts ==
    ASSUME said \in [Streams -> Seq(Line)], NEW s \in Streams, NEW line \in Line,
           Writes(s, line)
    PROVE  /\ said' \in [Streams -> Seq(Line)]
           /\ \A t \in Streams : t # s => said'[t] = said[t]
           /\ Len(said'[s]) = Len(said[s]) + 1
           /\ \A k \in 1 .. Len(said[s]) : said'[s][k] = said[s][k]
           /\ said'[s][Len(said[s]) + 1] = line
           /\ Len(said[s]) - pumped[s] < PipeSize
BY DEF Writes, Room

LEMMA FlagTypesStep == FlagTypes /\ [Next]_vars => FlagTypes'
<1> SUFFICES ASSUME FlagTypes, [Next]_vars PROVE FlagTypes'
  OBVIOUS
<1>1. prompt' = prompt
  BY DEF Next, Child, Pumps, Driver, Caller, Finished, Say, Mark, ErrorMark, EndRaw, Exit,
     Die, Pump, Recv, TimedOut, Hangup, Shutdown, Execute, Close, vars
<1>2. marked' \in BOOLEAN
  BY Zenon DEF FlagTypes, Next, Child, Pumps, Driver, Caller, Finished, Say, Mark, ErrorMark,
     EndRaw, Exit, Die, Pump, Recv, TimedOut, Hangup, Shutdown, Execute, Close, vars,
     NextStatement, childVars
<1>3. /\ opened' = opened \/ \E v : Returns(v)
      /\ lost' = lost \/ \E v : Returns(v)
  BY DEF Next, Child, Pumps, Driver, Caller, Finished, Say, Mark, ErrorMark, EndRaw, Exit,
     Die, Pump, Recv, TimedOut, Hangup, Shutdown, Execute, Close, vars, driverVars,
     Boundary
<1>4. ASSUME NEW v, Returns(v) PROVE opened' \in BOOLEAN /\ lost' \in BOOLEAN
  BY <1>4, Zenon DEF Returns
<1> QED
  BY <1>1, <1>2, <1>3, <1>4, Zenon DEF FlagTypes

LEMMA ChildTypesStep ==
    ASSUME Sizes
    PROVE  FlagTypes /\ ChildTypes /\ DriverTypes /\ [Next]_vars => ChildTypes'
<1> SUFFICES ASSUME FlagTypes, ChildTypes, DriverTypes, [Next]_vars PROVE ChildTypes'
  OBVIOUS
<1>0. sent \in Nat /\ sequence \in Nat /\ sent <= MaxStatements
  BY DEF Sizes, DriverTypes, Statements
<1>1. ASSUME NEW s \in Streams, Say(s) PROVE ChildTypes'
  <2>1. doing <= sent /\ [of |-> doing, mark |-> FALSE] \in Line
    BY <1>1, <1>0 DEF Say, Running, Line, Statements, ChildTypes, Sizes
  <2>2. said' \in [Streams -> Seq(Line)]
    BY <1>1, <2>1, WriteFacts DEF Say, ChildTypes
  <2>3. left' \in Outputs
    <3>1. /\ left["out"] \in 0 .. MaxLines /\ left["err"] \in 0 .. MaxLines
          /\ left["out"] + left["err"] <= MaxLines
          /\ left' = [left EXCEPT ![s] = left[s] - 1] /\ left[s] > 0
          /\ left \in [Streams -> 0 .. MaxLines]
      BY <1>1 DEF Say, ChildTypes, Outputs, Streams
    <3>2. left[s] - 1 \in 0 .. MaxLines
      BY <3>1 DEF Sizes, Streams
    <3>3. left' \in [Streams -> 0 .. MaxLines]
      BY <3>1, <3>2
    <3>4. left'["out"] + left'["err"] <= MaxLines
      <4>1. CASE s = "out"
        BY <3>1, <4>1 DEF Sizes, Streams
      <4>2. CASE s = "err"
        BY <3>1, <4>2 DEF Sizes, Streams
      <4> QED
        BY <4>1, <4>2 DEF Streams
    <3> QED
      BY <3>3, <3>4 DEF Outputs
  <2> QED
    BY <1>1, <2>2, <2>3 DEF Say, ChildTypes, driverVars
<1>2. CASE Mark
  <2>1. [of |-> doing, mark |-> TRUE] \in Line /\ "out" \in Streams
    BY <1>2, <1>0 DEF Mark, Running, Line, Statements, ChildTypes, Sizes, Streams
  <2>2. said' \in [Streams -> Seq(Line)]
    BY <1>2, <2>1, WriteFacts DEF Mark, ChildTypes
  <2> QED
    BY <1>2, <2>2 DEF Mark, ChildTypes, driverVars
<1>3. CASE ErrorMark
  <2>1. [of |-> doing, mark |-> TRUE] \in Line /\ "err" \in Streams /\ doing <= sent
    BY <1>3, <1>0 DEF ErrorMark, Running, Line, Statements, ChildTypes, Sizes, Streams
  <2>2. said' \in [Streams -> Seq(Line)]
    BY <1>3, <2>1, WriteFacts DEF ErrorMark, ChildTypes
  <2> QED
    BY <1>0, <1>3, <2>1, <2>2 DEF ErrorMark, NextStatement, ChildTypes, driverVars
<1>4. CASE EndRaw
  BY <1>0, <1>4 DEF EndRaw, NextStatement, Running, ChildTypes, driverVars
<1>5. CASE \E reaches \in BOOLEAN : Execute(reaches)
  BY <1>0, <1>5 DEF Execute, ChildTypes, DriverTypes, childVars, Returns
<1>6. CASE \/ Exit \/ Die \/ Pumps \/ Recv \/ TimedOut \/ Hangup \/ Shutdown \/ Close
           \/ Finished \/ UNCHANGED vars
  <2>1. UNCHANGED <<childVars, sent>> /\ child' \in {child, "dead", "doomed"}
    BY <1>6 DEF Exit, Die, Pumps, Pump, Recv, TimedOut, Hangup, Shutdown, Close, Finished,
       vars, driverVars
  <2> QED
    BY <2>1 DEF ChildTypes, childVars
<1> QED
  BY <1>1, <1>2, <1>3, <1>4, <1>5, <1>6 DEF Next, Child, Driver, Caller

LEMMA DriverTypesStep == ASSUME Sizes PROVE DriverTypes /\ [Next]_vars => DriverTypes'
<1> SUFFICES ASSUME DriverTypes, [Next]_vars PROVE DriverTypes'
  OBVIOUS
<1>1. ASSUME NEW v \in {"ok", "badOutput"} \cup Errors, Returns(v)
      PROVE  /\ mode' \in {"idle", "closing"}
             /\ verdict' \in {"none", "ok", "badOutput"} \cup Errors
  BY <1>1 DEF Returns
<1>2. ASSUME NEW reaches \in BOOLEAN, Execute(reaches) PROVE DriverTypes'
  <2>1. CASE reaches
    BY <1>2, <2>1 DEF Execute, DriverTypes, Statements, Sizes
  <2>2. CASE ~reaches
    BY <1>1, <1>2, <2>2 DEF Execute, DriverTypes, Statements, Sizes, Errors
  <2> QED
    BY <2>1, <2>2
<1>3. CASE Recv
  BY <1>1, <1>3 DEF Recv, Boundary, DriverTypes, Errors
<1>4. CASE TimedOut \/ Hangup
  BY <1>1, <1>4 DEF TimedOut, Hangup, DriverTypes, Errors
<1>5. CASE Child \/ Die \/ Pumps \/ Shutdown \/ Close \/ Finished \/ UNCHANGED vars
  <2>1. /\ UNCHANGED <<sequence, sent, verdict>>
        /\ mode' \in {mode, "closing", "closed"}
    BY <1>5 DEF Child, Say, Mark, ErrorMark, EndRaw, Exit, Die, Pumps, Pump, Shutdown,
       Close, Finished, vars, driverVars
  <2> QED
    BY <2>1 DEF DriverTypes
<1> QED
  BY <1>2, <1>3, <1>4, <1>5 DEF Next, Driver, Caller

LEMMA CursorTypesStep ==
    ASSUME Sizes
    PROVE  Types /\ [Next]_vars => CursorTypes'
<1> SUFFICES ASSUME Types, [Next]_vars PROVE CursorTypes'
  OBVIOUS
<1>0. /\ CursorTypes /\ said \in [Streams -> Seq(Line)]
      /\ \A s \in Streams : /\ Len(said[s]) \in Nat
                            /\ pumped[s] \in Nat /\ read[s] \in Nat /\ from[s] \in Nat
      /\ PipeSize \in Nat
  BY DEF Types, ChildTypes, CursorTypes, Sizes
<1>c. \A s \in Streams : /\ from[s] <= read[s]
                          /\ read[s] <= pumped[s]
                          /\ pumped[s] <= Len(said[s])
                          /\ Len(said[s]) <= pumped[s] + PipeSize
  BY <1>0 DEF CursorTypes
<1>1. ASSUME NEW s \in Streams, NEW line \in Line, Writes(s, line),
             UNCHANGED <<pumped, read, from>>
      PROVE  CursorTypes'
  <2>1. /\ \A t \in Streams : t # s => said'[t] = said[t]
        /\ Len(said'[s]) = Len(said[s]) + 1
        /\ Len(said[s]) - pumped[s] < PipeSize
    BY <1>0, <1>1, WriteFacts
  <2>2. \A t \in Streams : /\ pumped[t] <= Len(said'[t])
                           /\ Len(said'[t]) <= pumped[t] + PipeSize
    <3> SUFFICES ASSUME NEW t \in Streams
                 PROVE  pumped[t] <= Len(said'[t]) /\ Len(said'[t]) <= pumped[t] + PipeSize
      OBVIOUS
    <3>1. CASE t = s
      BY <1>0, <1>c, <2>1, <3>1
    <3>2. CASE t # s
      BY <1>c, <2>1, <3>2
    <3> QED
      BY <3>1, <3>2
  <2> QED
    BY <1>0, <1>1, <2>2 DEF CursorTypes
<1>2. CASE \/ \E s \in Streams : Say(s)
           \/ Mark \/ ErrorMark
  <2>1. \E s \in Streams, m \in BOOLEAN :
           Writes(s, [of |-> doing, mark |-> m]) /\ Running
           /\ UNCHANGED <<pumped, read, from>>
    BY <1>2 DEF Say, Mark, ErrorMark, driverVars, Streams
  <2>2. \A m \in BOOLEAN : Running => [of |-> doing, mark |-> m] \in Line
    BY DEF Running, Line, Types, ChildTypes, DriverTypes, Statements, Sizes
  <2> QED
    BY <1>1, <2>1, <2>2
<1>3. ASSUME NEW s \in Streams, Pump(s) PROVE CursorTypes'
  <2>1. /\ \A t \in Streams : pumped'[t] = IF t = s THEN pumped[s] + 1 ELSE pumped[t]
        /\ pumped' \in [Streams -> Nat]
        /\ pumped[s] < Len(said[s]) /\ UNCHANGED <<read, from, said>>
    BY <1>0, <1>3 DEF Pump, CursorTypes, driverVars, childVars
  <2>2. ASSUME NEW t \in Streams
        PROVE  /\ from[t] <= read[t] /\ read[t] <= pumped'[t]
               /\ pumped'[t] <= Len(said[t]) /\ Len(said[t]) <= pumped'[t] + PipeSize
    <3>1. CASE t = s
      BY <1>0, <1>c, <2>1, <3>1
    <3>2. CASE t # s
      BY <1>c, <2>1, <3>2
    <3> QED
      BY <3>1, <3>2
  <2> QED
    BY <1>0, <2>1, <2>2 DEF CursorTypes
<1>4. CASE Recv
  <2>1. /\ mode \in Streams
        /\ \A t \in Streams : read'[t] = IF t = mode THEN read[mode] + 1 ELSE read[t]
        /\ read' \in [Streams -> Nat]
        /\ read[mode] < pumped[mode] /\ UNCHANGED <<pumped, from, said>>
    BY <1>0, <1>4 DEF Recv, CursorTypes, childVars
  <2>2. ASSUME NEW t \in Streams PROVE from[t] <= read'[t] /\ read'[t] <= pumped[t]
    <3>1. CASE t = mode
      BY <1>0, <1>c, <2>1, <3>1
    <3>2. CASE t # mode
      BY <1>c, <2>1, <3>2
    <3> QED
      BY <3>1, <3>2
  <2> QED
    BY <1>0, <1>c, <2>1, <2>2 DEF CursorTypes
<1>5. CASE \E reaches \in BOOLEAN : Execute(reaches)
  BY <1>0, <1>5 DEF Execute, CursorTypes, childVars
<1>6. CASE \/ EndRaw \/ Exit \/ Die \/ TimedOut \/ Hangup \/ Shutdown \/ Close
           \/ Finished \/ UNCHANGED vars
  <2>1. UNCHANGED <<pumped, read, from, said>>
    BY <1>6 DEF EndRaw, Exit, Die, TimedOut, Hangup, Shutdown, Close, Finished, vars,
       driverVars, childVars
  <2> QED
    BY <1>0, <2>1 DEF CursorTypes
<1> QED
  BY <1>2, <1>3, <1>4, <1>5, <1>6 DEF Next, Child, Pumps, Driver, Caller

LEMMA TypesStep == ASSUME Sizes PROVE Types /\ [Next]_vars => Types'
BY FlagTypesStep, ChildTypesStep, DriverTypesStep, CursorTypesStep DEF Types

LEMMA TypesInit == ASSUME Sizes PROVE Init => Types
<1> SUFFICES ASSUME Init PROVE Types
  OBVIOUS
<1>1. FlagTypes
  BY Zenon DEF Init, FlagTypes
<1>2. ChildTypes /\ DriverTypes /\ CursorTypes
  BY DEF Init, ChildTypes, DriverTypes, CursorTypes, Sizes, Zero, RawOutputs, Statements
<1> QED
  BY <1>1, <1>2 DEF Types

LEMMA TypesImply == ASSUME Sizes PROVE Types => TypeOK
<1> SUFFICES ASSUME Types PROVE TypeOK
  OBVIOUS
<1>1. doing \in 0 .. MaxStatements + 1
  BY DEF Types, ChildTypes, DriverTypes, Statements, Sizes
<1> QED
  BY <1>1 DEF Types, FlagTypes, ChildTypes, DriverTypes, CursorTypes, TypeOK

-----------------------------------------------------------------------------
(* What the child has written.                                             *)

(* Statement after statement, on either stream, with the marker last.      *)
InTurn(s) ==
    \A i, j \in 1 .. Len(said[s]) : i < j =>
        /\ said[s][i].of <= said[s][j].of
        /\ said[s][i].mark => said[s][i].of < said[s][j].of

(* No marker without the one before it.                                    *)
Chained(s) ==
    \A k \in 1 .. Len(said[s]) : said[s][k].mark /\ said[s][k].of > 1 =>
        \E j \in 1 .. k - 1 : said[s][j].mark /\ said[s][j].of = said[s][k].of - 1

(* Every statement that the child is done with has its marker.             *)
Answered(s) ==
    \A n \in 1 .. doing - 1 :
        \E k \in 1 .. Len(said[s]) : said[s][k].mark /\ said[s][k].of = n

(* Nothing is written ahead of what was sent, and no marker ahead of what  *)
(* it marks.                                                               *)
NotAhead(s) ==
    \A k \in 1 .. Len(said[s]) :
        /\ said[s][k].of <= doing /\ said[s][k].of <= sent
        /\ said[s][k].mark => said[s][k].of > 0
        /\ said[s][k].mark => said[s][k].of < doing \/ (s = "out" /\ marked)

Written ==
    /\ \A s \in Streams : InTurn(s) /\ Chained(s) /\ Answered(s) /\ NotAhead(s)
    /\ marked => /\ left = Zero
                 /\ \E k \in 1 .. Len(said["out"]) :
                       said["out"][k].mark /\ said["out"][k].of = doing

-----------------------------------------------------------------------------
(* Where the driver is in it.                                              *)

(* Its call began behind everything that belongs to an earlier one.        *)
BeganAt(s) ==
    \A k \in 1 .. Len(said[s]) : k <= from[s] <=> Owner(said[s][k]) < sequence

NoMarkerSince(s) == \A k \in from[s] + 1 .. read[s] : ~said[s][k].mark

AtMarker(s) ==
    /\ read[s] \in 1 .. Len(said[s])
    /\ said[s][read[s]].mark /\ said[s][read[s]].of = sequence

(* Before the first call nothing was read; in a call the driver is in it;  *)
(* and after one it has read everything there is.  Nothing of this holds   *)
(* once the session is lost.                                               *)
InStep ==
    ~lost =>
        /\ sent = sequence
        /\ mode \in Streams /\ sequence > 1 => doing >= sequence
        /\ sequence > 0 => \A s \in Streams : BeganAt(s)
        /\ mode = "out" => NoMarkerSince("out") /\ read["err"] = from["err"]
        /\ mode = "err" => NoMarkerSince("err")
        /\ mode \notin Streams /\ sequence > 0 =>
              /\ doing = sequence + 1
              /\ \A s \in Streams : AtMarker(s) /\ read[s] = Len(said[s])

(* What the driver knows, lost or not.                                     *)
Progress ==
    /\ mode \in Streams => verdict = "none" /\ sequence > 0
    /\ sequence = 0 => read = Zero /\ verdict = "none" /\ ~lost
    /\ sequence <= 1 => from = Zero
    /\ mode = "err" => AtMarker("out")
    /\ opened => Len(said["err"]) > 0 /\ said["err"][1].of > 0

(* Once lost, one of the streams is a marker behind, and stays behind.     *)
Lags(s, n) == \A k \in 1 .. read[s] : said[s][k].mark => said[s][k].of < n

Behind ==
    lost =>
        /\ verdict # "ok"
        /\ mode \in Streams => sequence > 1
        /\ \E s \in Streams : Lags(s, IF mode \in Streams THEN sequence - 1 ELSE sequence)

AInv == Types /\ Written /\ Progress /\ InStep /\ Behind

-----------------------------------------------------------------------------
(* A line more, of the statement that the child is at.                     *)
LEMMA WriteKeeps ==
    ASSUME Sizes, Types, Written, Running, NEW s \in Streams, NEW m \in BOOLEAN,
           Writes(s, [of |-> doing, mark |-> m]), s = "out" => ~marked, m => doing > 0
    PROVE  /\ \A t \in Streams : InTurn(t)' /\ Chained(t)'
           /\ \A t \in Streams : t # s => said'[t] = said[t]
           /\ Len(said'[s]) = Len(said[s]) + 1
           /\ \A t \in Streams : Len(said'[t]) \in Nat /\ Len(said[t]) \in Nat
           /\ \A t \in Streams : \A k \in 1 .. Len(said[t]) :
                 k \in 1 .. Len(said'[t]) /\ said'[t][k] = said[t][k]
           /\ said'[s][Len(said[s]) + 1] = [of |-> doing, mark |-> m]
<1>l. [of |-> doing, mark |-> m] \in Line /\ doing \in Nat
  BY DEF Running, Line, Types, ChildTypes, DriverTypes, Statements, Sizes
<1>s. said \in [Streams -> Seq(Line)]
  BY DEF Types, ChildTypes
<1>1. /\ said' \in [Streams -> Seq(Line)]
      /\ \A t \in Streams : t # s => said'[t] = said[t]
      /\ Len(said'[s]) = Len(said[s]) + 1
      /\ \A k \in 1 .. Len(said[s]) : said'[s][k] = said[s][k]
      /\ said'[s][Len(said[s]) + 1] = [of |-> doing, mark |-> m]
  BY <1>l, <1>s, WriteFacts
<1>2. \A t \in Streams : Len(said'[t]) \in Nat /\ Len(said[t]) \in Nat
  BY <1>s, <1>1
<1>3. \A t \in Streams : \A k \in 1 .. Len(said[t]) :
         k \in 1 .. Len(said'[t]) /\ said'[t][k] = said[t][k]
  <2> SUFFICES ASSUME NEW t \in Streams, NEW k \in 1 .. Len(said[t])
               PROVE  k \in 1 .. Len(said'[t]) /\ said'[t][k] = said[t][k]
    OBVIOUS
  <2>1. CASE t = s
    BY <1>1, <1>2, <2>1
  <2>2. CASE t # s
    BY <1>1, <2>2
  <2> QED
    BY <2>1, <2>2
<1>4. \A k \in 1 .. Len(said[s]) : /\ said[s][k].of \in Nat /\ said[s][k].of <= doing
                                   /\ said[s][k].mark => said[s][k].of < doing
  <2>1. \A k \in 1 .. Len(said[s]) : said[s][k] \in Line
    BY <1>s
  <2> QED
    BY <2>1 DEF Written, NotAhead, Line, Statements, Sizes
<1>5. ASSUME NEW t \in Streams, t # s PROVE InTurn(t)' /\ Chained(t)'
  <2>1. said'[t] = said[t] /\ InTurn(t) /\ Chained(t)
    BY <1>1, <1>5 DEF Written
  <2>2. InTurn(t)'
    BY <2>1 DEF InTurn
  <2>3. Chained(t)'
    BY <2>1 DEF Chained
  <2> QED
    BY <2>2, <2>3
<1>6. InTurn(s)'
  <2> SUFFICES ASSUME NEW i \in 1 .. Len(said[s]) + 1, NEW j \in 1 .. Len(said[s]) + 1,
                      i < j
               PROVE  /\ said'[s][i].of <= said'[s][j].of
                      /\ said'[s][i].mark => said'[s][i].of < said'[s][j].of
    BY <1>1 DEF InTurn
  <2>1. i \in 1 .. Len(said[s])
    BY <1>2
  <2>2. CASE j \in 1 .. Len(said[s])
    BY <1>3, <2>1, <2>2 DEF Written, InTurn
  <2>3. CASE j = Len(said[s]) + 1
    <3>1. said'[s][j].of = doing
      BY <1>1, <2>3
    <3>2. said'[s][i] = said[s][i]
      BY <1>3, <2>1
    <3>3. said[s][i].of <= doing /\ (said[s][i].mark => said[s][i].of < doing)
      BY <1>4, <2>1
    <3> QED
      BY <3>1, <3>2, <3>3
  <2> QED
    BY <1>2, <2>2, <2>3
<1>7. Chained(s)'
  <2> SUFFICES ASSUME NEW k \in 1 .. Len(said[s]) + 1,
                      said'[s][k].mark, said'[s][k].of > 1
               PROVE  \E j \in 1 .. k - 1 :
                         said'[s][j].mark /\ said'[s][j].of = said'[s][k].of - 1
    BY <1>1 DEF Chained
  <2>1. CASE k \in 1 .. Len(said[s])
    <3>1. PICK j \in 1 .. k - 1 : said[s][j].mark /\ said[s][j].of = said[s][k].of - 1
      BY <1>3, <2>1 DEF Written, Chained
    <3>2. j \in 1 .. Len(said[s])
      BY <1>2, <2>1
    <3> QED
      BY <1>3, <2>1, <3>1, <3>2
  <2>2. CASE k = Len(said[s]) + 1
    <3>1. doing - 1 \in 1 .. doing - 1 /\ said'[s][k].of = doing
      BY <1>1, <1>l, <2>2
    <3>2. PICK j \in 1 .. Len(said[s]) : said[s][j].mark /\ said[s][j].of = doing - 1
      BY <3>1 DEF Written, Answered
    <3>3. j \in 1 .. k - 1
      BY <1>2, <2>2
    <3> QED
      BY <1>3, <3>1, <3>2, <3>3
  <2> QED
    BY <1>2, <2>1, <2>2
<1> QED
  BY <1>1, <1>2, <1>3, <1>5, <1>6, <1>7

LEMMA WrittenStep == ASSUME Sizes PROVE Types /\ Written /\ [Next]_vars => Written'
<1> SUFFICES ASSUME Types, Written, [Next]_vars PROVE Written'
  OBVIOUS
<1>t. /\ doing \in Nat /\ sent \in Nat /\ sequence \in Nat /\ sent <= sequence
      /\ said \in [Streams -> Seq(Line)] /\ left \in [Streams -> Nat]
      /\ \A s \in Streams : Len(said[s]) \in Nat
      /\ \A s \in Streams : \A k \in 1 .. Len(said[s]) : said[s][k].of \in Nat
  <2>1. said \in [Streams -> Seq(Line)]
    BY DEF Types, ChildTypes
  <2>2. \A s \in Streams : \A k \in 1 .. Len(said[s]) : said[s][k] \in Line
    BY <2>1
  <2>3. left \in [Streams -> Nat]
    BY DEF Types, ChildTypes, Outputs, Sizes
  <2>4. doing \in Nat /\ sent \in Nat /\ sequence \in Nat /\ sent <= sequence
    BY DEF Types, ChildTypes, DriverTypes, Statements, Sizes
  <2>5. \A s \in Streams : \A k \in 1 .. Len(said[s]) : said[s][k].of \in Nat
    BY <2>2 DEF Line, Statements, Sizes
  <2>6. \A s \in Streams : Len(said[s]) \in Nat
    BY <2>1
  <2> QED
    BY <2>1, <2>3, <2>4, <2>5, <2>6
<1>w. /\ \A s \in Streams : InTurn(s) /\ Chained(s) /\ Answered(s) /\ NotAhead(s)
      /\ marked => /\ left = Zero
                   /\ \E k \in 1 .. Len(said["out"]) :
                         said["out"][k].mark /\ said["out"][k].of = doing
  BY DEF Written
<1>o. "out" \in Streams /\ "err" \in Streams
  BY DEF Streams
<1>1. ASSUME NEW s \in Streams, Say(s) PROVE Written'
  <2>0. ~marked /\ marked' = marked /\ doing' = doing /\ sent' = sent /\ doing <= sent
        /\ Running /\ Writes(s, [of |-> doing, mark |-> FALSE])
    <3>1. left[s] > 0
      BY <1>1 DEF Say
    <3>2. left # Zero
      BY <3>1, <1>t DEF Zero
    <3> QED
      BY <1>1, <1>w, <3>2 DEF Say, Running, driverVars
  <2>1. /\ \A t \in Streams : InTurn(t)' /\ Chained(t)'
        /\ \A t \in Streams : t # s => said'[t] = said[t]
        /\ Len(said'[s]) = Len(said[s]) + 1
        /\ \A t \in Streams : \A k \in 1 .. Len(said[t]) :
              k \in 1 .. Len(said'[t]) /\ said'[t][k] = said[t][k]
        /\ said'[s][Len(said[s]) + 1] = [of |-> doing, mark |-> FALSE]
    BY <2>0, WriteKeeps
  <2>2. \A t \in Streams : Answered(t)'
    BY <1>w, <2>0, <2>1 DEF Answered
  <2>3. \A t \in Streams : \A k \in 1 .. Len(said'[t]) :
           k \in 1 .. Len(said[t]) \/ (t = s /\ k = Len(said[s]) + 1)
    BY <1>t, <2>1
  <2>4. ASSUME NEW t \in Streams, NEW k \in 1 .. Len(said'[t])
        PROVE  /\ said'[t][k].of <= doing /\ said'[t][k].of <= sent
               /\ said'[t][k].mark => said'[t][k].of > 0 /\ said'[t][k].of < doing
    <3>1. CASE k \in 1 .. Len(said[t])
      BY <1>w, <2>0, <2>1, <3>1 DEF NotAhead
    <3>2. CASE t = s /\ k = Len(said[s]) + 1
      BY <1>t, <2>0, <2>1, <3>2
    <3> QED
      BY <2>3, <3>1, <3>2
  <2>5. \A t \in Streams : NotAhead(t)'
    BY <2>0, <2>4 DEF NotAhead
  <2> QED
    BY <2>0, <2>1, <2>2, <2>5 DEF Written
<1>2. CASE Mark
  <2>0. ~marked /\ marked' = TRUE /\ doing' = doing /\ sent' = sent /\ doing <= sent
        /\ doing > 0 /\ left' = left /\ left = Zero
        /\ Running /\ Writes("out", [of |-> doing, mark |-> TRUE])
    BY <1>2 DEF Mark, Running, driverVars
  <2>1. /\ \A t \in Streams : InTurn(t)' /\ Chained(t)'
        /\ \A t \in Streams : t # "out" => said'[t] = said[t]
        /\ Len(said'["out"]) = Len(said["out"]) + 1
        /\ \A t \in Streams : \A k \in 1 .. Len(said[t]) :
              k \in 1 .. Len(said'[t]) /\ said'[t][k] = said[t][k]
        /\ said'["out"][Len(said["out"]) + 1] = [of |-> doing, mark |-> TRUE]
    BY <1>o, <2>0, WriteKeeps
  <2>2. ASSUME NEW t \in Streams PROVE Answered(t)'
    <3>1. \A n \in 1 .. doing - 1 :
             \E k \in 1 .. Len(said[t]) : said[t][k].mark /\ said[t][k].of = n
      BY <1>w DEF Answered
    <3> QED
      BY <2>0, <2>1, <3>1 DEF Answered
  <2>3. \A t \in Streams : \A k \in 1 .. Len(said'[t]) :
           k \in 1 .. Len(said[t]) \/ (t = "out" /\ k = Len(said["out"]) + 1)
    BY <1>t, <2>1
  <2>4. \A t \in Streams : NotAhead(t)'
    BY <1>t, <1>w, <2>0, <2>1, <2>3 DEF NotAhead
  <2>5. Len(said["out"]) + 1 \in 1 .. Len(said'["out"])
    BY <1>t, <1>o, <2>1
  <2> QED
    BY <2>0, <2>1, <2>2, <2>4, <2>5 DEF Written, Zero
<1>3. CASE ErrorMark
  <2>0. marked /\ ~marked' /\ doing' = doing + 1 /\ sent' = sent /\ doing <= sent
        /\ Running /\ Writes("err", [of |-> doing, mark |-> TRUE])
    BY <1>3 DEF ErrorMark, NextStatement, Running, driverVars
  <2>p. doing > 0
    BY <1>o, <1>w, <2>0 DEF NotAhead
  <2>1. /\ \A t \in Streams : InTurn(t)' /\ Chained(t)'
        /\ \A t \in Streams : t # "err" => said'[t] = said[t]
        /\ Len(said'["err"]) = Len(said["err"]) + 1
        /\ \A t \in Streams : \A k \in 1 .. Len(said[t]) :
              k \in 1 .. Len(said'[t]) /\ said'[t][k] = said[t][k]
        /\ said'["err"][Len(said["err"]) + 1] = [of |-> doing, mark |-> TRUE]
    BY <1>o, <2>0, <2>p, WriteKeeps
  <2>2. ASSUME NEW t \in Streams, NEW n \in 1 .. doing
        PROVE  \E k \in 1 .. Len(said'[t]) : said'[t][k].mark /\ said'[t][k].of = n
    <3>1. CASE n \in 1 .. doing - 1
      BY <1>w, <2>1, <3>1 DEF Answered
    <3>2. CASE n = doing /\ t = "out"
      BY <1>w, <1>o, <2>0, <2>1, <3>2
    <3>3. CASE n = doing /\ t = "err"
      <4>1. Len(said["err"]) + 1 \in 1 .. Len(said'["err"])
        BY <1>t, <1>o, <2>1
      <4> QED
        BY <2>1, <3>3, <4>1
    <3> QED
      BY <1>t, <3>1, <3>2, <3>3 DEF Streams
  <2>3. \A t \in Streams : Answered(t)'
    BY <1>t, <2>0, <2>2 DEF Answered
  <2>4. \A t \in Streams : \A k \in 1 .. Len(said'[t]) :
           k \in 1 .. Len(said[t]) \/ (t = "err" /\ k = Len(said["err"]) + 1)
    BY <1>t, <2>1
  <2>5. ASSUME NEW t \in Streams, NEW k \in 1 .. Len(said'[t])
        PROVE  /\ said'[t][k].of <= doing + 1 /\ said'[t][k].of <= sent
               /\ said'[t][k].mark => said'[t][k].of > 0 /\ said'[t][k].of < doing + 1
    <3>1. CASE k \in 1 .. Len(said[t])
      <4>1. /\ said[t][k].of \in Nat /\ said[t][k].of <= doing /\ said[t][k].of <= sent
            /\ said[t][k].mark => said[t][k].of > 0
        BY <1>t, <1>w, <3>1 DEF NotAhead
      <4>2. said'[t][k] = said[t][k] /\ doing \in Nat
        BY <1>t, <2>1, <3>1
      <4> QED
        BY <4>1, <4>2
    <3>2. CASE t = "err" /\ k = Len(said["err"]) + 1
      BY <1>t, <2>0, <2>p, <2>1, <3>2
    <3> QED
      BY <2>4, <3>1, <3>2
  <2>6. \A t \in Streams : NotAhead(t)'
    BY <2>0, <2>5 DEF NotAhead
  <2> QED
    BY <2>0, <2>1, <2>3, <2>6 DEF Written
<1>4. CASE EndRaw
  <2>0. doing = 0 /\ doing' = 1 /\ ~marked' /\ UNCHANGED <<said, sent>>
    BY <1>4, <1>t DEF EndRaw, NextStatement, driverVars
  <2>1. \A t \in Streams : InTurn(t)' /\ Chained(t)'
    BY <1>w, <2>0 DEF InTurn, Chained
  <2>2. \A t \in Streams : Answered(t)'
    BY <2>0 DEF Answered
  <2>3. \A t \in Streams : NotAhead(t)'
    BY <1>t, <1>w, <2>0 DEF NotAhead
  <2> QED
    BY <2>0, <2>1, <2>2, <2>3 DEF Written
<1>5. CASE \/ Exit \/ Die \/ Pumps \/ Driver \/ Caller \/ Finished \/ UNCHANGED vars
  <2>0. UNCHANGED childVars /\ (sent' = sent \/ sent' = sequence + 1)
    BY <1>5 DEF Exit, Die, Pumps, Pump, Driver, Recv, TimedOut, Hangup, Shutdown, Caller,
       Execute, Close, Finished, vars, driverVars
  <2>1. sent <= sent' /\ sent' \in Nat
    BY <1>t, <2>0
  <2>2. \A t \in Streams : InTurn(t)' /\ Chained(t)' /\ Answered(t)'
    BY <1>w, <2>0 DEF InTurn, Chained, Answered, childVars
  <2>3. \A t \in Streams : NotAhead(t)'
    BY <1>t, <1>w, <2>0, <2>1 DEF NotAhead, childVars
  <2> QED
    BY <1>w, <2>0, <2>2, <2>3 DEF Written, childVars
<1> QED
  BY <1>1, <1>2, <1>3, <1>4, <1>5 DEF Next, Child

-----------------------------------------------------------------------------
(* The numbers that lines and cursors are compared by.                     *)
LEMMA Numbers ==
    ASSUME Sizes, Types
    PROVE  /\ doing \in Nat /\ sent \in Nat /\ sequence \in Nat
           /\ sent <= sequence /\ doing <= sent + 1
           /\ \A s \in Streams : /\ Len(said[s]) \in Nat
                                 /\ read[s] \in Nat /\ from[s] \in Nat /\ pumped[s] \in Nat
                                 /\ from[s] <= read[s] /\ read[s] <= pumped[s]
                                 /\ pumped[s] <= Len(said[s])
           /\ \A s \in Streams : \A k \in 1 .. Len(said[s]) : said[s][k].of \in Nat
           /\ "out" \in Streams /\ "err" \in Streams
<1>1. said \in [Streams -> Seq(Line)]
  BY DEF Types, ChildTypes
<1>2. \A s \in Streams : \A k \in 1 .. Len(said[s]) : said[s][k] \in Line
  BY <1>1
<1>3. \A s \in Streams : \A k \in 1 .. Len(said[s]) : said[s][k].of \in Nat
  BY <1>2 DEF Line, Statements, Sizes
<1>4. \A s \in Streams : Len(said[s]) \in Nat
  BY <1>1
<1>5. /\ doing \in Nat /\ sent \in Nat /\ sequence \in Nat
      /\ sent <= sequence /\ doing <= sent + 1
  BY DEF Types, ChildTypes, DriverTypes, Statements, Sizes
<1>6. \A s \in Streams : /\ read[s] \in Nat /\ from[s] \in Nat /\ pumped[s] \in Nat
                         /\ from[s] <= read[s] /\ read[s] <= pumped[s]
                         /\ pumped[s] <= Len(said[s])
  BY DEF Types, CursorTypes
<1> QED
  BY <1>3, <1>4, <1>5, <1>6 DEF Streams

(* The child only adds lines, and only of what it was sent.                *)
LEMMA ChildAdds ==
    ASSUME Sizes, Types, Written, Child \/ Die \/ Pumps
    PROVE  /\ UNCHANGED driverVars
           /\ doing' \in {doing, doing + 1}
           /\ doing > sent => UNCHANGED <<said, doing>>
           /\ \A t \in Streams : Len(said[t]) <= Len(said'[t]) /\ Len(said'[t]) \in Nat
           /\ \A t \in Streams : \A k \in 1 .. Len(said[t]) : said'[t][k] = said[t][k]
           /\ \A t \in Streams : \A k \in 1 .. Len(said'[t]) :
                 k \notin 1 .. Len(said[t]) => said'[t][k].of = doing
<1>n. /\ doing \in Nat /\ sent \in Nat
      /\ \A t \in Streams : Len(said[t]) \in Nat
      /\ "out" \in Streams /\ "err" \in Streams
      /\ left \in [Streams -> Nat]
  BY Numbers DEF Types, ChildTypes, Outputs, Sizes
<1>1. ASSUME NEW s \in Streams, NEW m \in BOOLEAN, Running,
             Writes(s, [of |-> doing, mark |-> m]), s = "out" => ~marked, m => doing > 0
      PROVE  /\ \A t \in Streams : Len(said[t]) <= Len(said'[t]) /\ Len(said'[t]) \in Nat
             /\ \A t \in Streams : \A k \in 1 .. Len(said[t]) : said'[t][k] = said[t][k]
             /\ \A t \in Streams : \A k \in 1 .. Len(said'[t]) :
                   k \notin 1 .. Len(said[t]) => said'[t][k].of = doing
             /\ doing <= sent
  <2>1. /\ \A t \in Streams : t # s => said'[t] = said[t]
        /\ Len(said'[s]) = Len(said[s]) + 1
        /\ \A t \in Streams : \A k \in 1 .. Len(said[t]) : said'[t][k] = said[t][k]
        /\ said'[s][Len(said[s]) + 1] = [of |-> doing, mark |-> m]
    BY <1>1, WriteKeeps
  <2>2. \A t \in Streams : Len(said[t]) <= Len(said'[t]) /\ Len(said'[t]) \in Nat
    BY <1>n, <2>1
  <2>3. \A t \in Streams : \A k \in 1 .. Len(said'[t]) :
           k \notin 1 .. Len(said[t]) => t = s /\ k = Len(said[s]) + 1
    BY <1>n, <2>1
  <2> QED
    BY <1>1, <2>1, <2>2, <2>3 DEF Running
<1>2. ASSUME NEW s \in Streams, Say(s) PROVE ~marked
  <2>1. left[s] > 0
    BY <1>2 DEF Say
  <2>2. left # Zero
    BY <1>n, <2>1 DEF Zero
  <2> QED
    BY <2>2 DEF Written
<1>3. ErrorMark => doing > 0
  BY <1>n DEF ErrorMark, Written, NotAhead
<1>4. CASE (\E s \in Streams : Say(s)) \/ Mark \/ ErrorMark
  <2>1. /\ UNCHANGED driverVars /\ doing' \in {doing, doing + 1}
        /\ \E s \in Streams, m \in BOOLEAN :
              /\ Running /\ Writes(s, [of |-> doing, mark |-> m])
              /\ s = "out" => ~marked
              /\ m => doing > 0
    <3>1. ASSUME NEW s \in Streams, Say(s)
          PROVE  /\ Running /\ Writes(s, [of |-> doing, mark |-> FALSE]) /\ ~marked
                 /\ UNCHANGED driverVars /\ doing' = doing
      BY <1>2, <3>1 DEF Say
    <3>2. CASE Mark
      BY <1>n, <3>2 DEF Mark
    <3>3. CASE ErrorMark
      BY <1>n, <1>3, <3>3 DEF ErrorMark, NextStatement
    <3> QED
      BY <1>4, <3>1, <3>2, <3>3
  <2>2. PICK s \in Streams, m \in BOOLEAN :
           /\ Running /\ Writes(s, [of |-> doing, mark |-> m])
           /\ s = "out" => ~marked
           /\ m => doing > 0
    BY <2>1
  <2>3. /\ \A t \in Streams : Len(said[t]) <= Len(said'[t]) /\ Len(said'[t]) \in Nat
        /\ \A t \in Streams : \A k \in 1 .. Len(said[t]) : said'[t][k] = said[t][k]
        /\ \A t \in Streams : \A k \in 1 .. Len(said'[t]) :
              k \notin 1 .. Len(said[t]) => said'[t][k].of = doing
        /\ doing <= sent
    BY <1>1, <2>2
  <2> QED
    BY <1>n, <2>1, <2>3
<1>7. CASE EndRaw
  BY <1>7, <1>n DEF EndRaw, NextStatement, Running
<1>8. CASE Exit \/ Die \/ Pumps
  BY <1>8, <1>n DEF Exit, Die, Pumps, Pump, childVars
<1> QED
  BY <1>4, <1>7, <1>8 DEF Child

(* How a call returns.                                                     *)
LEMMA ReturnFacts ==
    ASSUME NEW v, Returns(v)
    PROVE  /\ mode' \in {"idle", "closing"} /\ verdict' = v
           /\ lost' => lost \/ v \in Errors
           /\ lost => lost'
           /\ v \in Errors => lost'
           /\ opened' => opened \/ (v = "ok" /\ sequence' = 1 /\ PreludeLanded)
BY Zenon DEF Returns

(* What a step of reading does.                                            *)
LEMMA RecvFacts ==
    ASSUME Sizes, Types, Recv
    PROVE  /\ mode \in Streams /\ read[mode] + 1 \in 1 .. Len(said[mode])
           /\ UNCHANGED <<childVars, sequence, sent, from>>
           /\ \A t \in Streams : read'[t] = IF t = mode THEN read[mode] + 1 ELSE read[t]
           /\ \/ /\ ~said[mode][read[mode] + 1].mark
                 /\ UNCHANGED <<mode, verdict, opened, lost>>
              \/ /\ said[mode][read[mode] + 1].mark
                 /\ said[mode][read[mode] + 1].of # sequence
                 /\ Returns("outOfStep")
              \/ /\ said[mode][read[mode] + 1].mark
                 /\ said[mode][read[mode] + 1].of = sequence
                 /\ mode = "out" /\ mode' = "err" /\ UNCHANGED <<verdict, opened, lost>>
              \/ /\ said[mode][read[mode] + 1].mark
                 /\ said[mode][read[mode] + 1].of = sequence
                 /\ mode = "err" /\ \E v \in {"ok", "badOutput"} : Returns(v)
<1>1. mode \in Streams /\ read[mode] < pumped[mode]
  BY DEF Recv
<1>2. read[mode] + 1 \in 1 .. Len(said[mode])
  BY <1>1, Numbers
<1>3. \A t \in Streams : read'[t] = IF t = mode THEN read[mode] + 1 ELSE read[t]
  BY <1>1 DEF Recv, Types, CursorTypes
<1>4. CASE ~said[mode][read[mode] + 1].mark
  BY <1>1, <1>2, <1>3, <1>4 DEF Recv
<1>5. CASE said[mode][read[mode] + 1].mark
  BY <1>1, <1>2, <1>3, <1>5 DEF Recv, Boundary, Streams
<1> QED
  BY <1>4, <1>5

LEMMA ProgressStep ==
    ASSUME Sizes PROVE Types /\ Written /\ Progress /\ [Next]_vars => Progress'
<1> SUFFICES ASSUME Types, Written, Progress, [Next]_vars PROVE Progress'
  OBVIOUS
<1>n. /\ sequence \in Nat
      /\ \A s \in Streams : /\ Len(said[s]) \in Nat /\ read[s] \in Nat
                            /\ read[s] <= Len(said[s])
      /\ \A s \in Streams : \A k \in 1 .. Len(said[s]) : said[s][k].of \in Nat
      /\ "out" \in Streams /\ "err" \in Streams
  BY Numbers
<1>p. /\ mode \in Streams => verdict = "none" /\ sequence > 0
      /\ sequence = 0 => read = Zero /\ verdict = "none" /\ ~lost
      /\ sequence <= 1 => from = Zero
      /\ mode = "err" => AtMarker("out")
      /\ opened => Len(said["err"]) > 0 /\ said["err"][1].of > 0
  BY DEF Progress
<1>r. ASSUME NEW v, Returns(v), sequence' > 0, sequence' <= 1 => from' = Zero,
             said' = said, v # "ok"
      PROVE  Progress'
  <2>1. mode' \in {"idle", "closing"} /\ (opened' => opened)
    BY <1>r, ReturnFacts
  <2> QED
    BY <1>n, <1>p, <1>r, <2>1 DEF Progress, Streams
<1>1. CASE Child \/ Die \/ Pumps
  <2>1. /\ UNCHANGED driverVars
        /\ \A t \in Streams : Len(said[t]) <= Len(said'[t]) /\ Len(said'[t]) \in Nat
        /\ \A t \in Streams : \A k \in 1 .. Len(said[t]) : said'[t][k] = said[t][k]
    BY <1>1, ChildAdds
  <2>2. mode = "err" => AtMarker("out")'
    BY <1>n, <1>p, <2>1 DEF AtMarker, driverVars
  <2>3. opened => Len(said'["err"]) > 0 /\ said'["err"][1].of > 0
    BY <1>n, <1>p, <2>1
  <2> QED
    BY <1>p, <2>1, <2>2, <2>3 DEF Progress, driverVars
<1>2. ASSUME NEW reaches \in BOOLEAN, Execute(reaches) PROVE Progress'
  <2>1. /\ sequence' = sequence + 1 /\ from' = read /\ UNCHANGED childVars
    BY <1>2 DEF Execute
  <2>2. sequence' > 0 /\ (sequence' <= 1 => from' = Zero)
    BY <1>n, <1>p, <2>1
  <2>3. CASE reaches
    <3>1. mode' = "out" /\ verdict' = "none" /\ opened' = opened
      BY <1>2, <2>3 DEF Execute
    <3> QED
      BY <1>n, <1>p, <2>1, <2>2, <3>1 DEF Progress, childVars
  <2>4. CASE ~reaches
    <3>1. Returns("write")
      BY <1>2, <2>4 DEF Execute
    <3> QED
      BY <1>r, <2>1, <2>2, <3>1 DEF childVars
  <2> QED
    BY <2>3, <2>4
<1>3. CASE Recv
  <2>1. /\ mode \in Streams /\ read[mode] + 1 \in 1 .. Len(said[mode])
        /\ UNCHANGED <<childVars, sequence, sent, from>>
        /\ \A t \in Streams : read'[t] = IF t = mode THEN read[mode] + 1 ELSE read[t]
    BY <1>3, RecvFacts
  <2>2. said' = said /\ sequence' > 0 /\ sequence > 0 /\ (sequence' <= 1 => from' = Zero)
    BY <1>p, <2>1 DEF childVars
  <2>3. CASE ~said[mode][read[mode] + 1].mark /\ UNCHANGED <<mode, verdict, opened, lost>>
    <3>1. mode = "err" => AtMarker("out")'
      BY <1>n, <1>p, <2>1, <2>2, <2>3 DEF AtMarker
    <3> QED
      BY <1>p, <2>1, <2>2, <2>3, <3>1 DEF Progress
  <2>4. CASE Returns("outOfStep")
    BY <1>r, <2>2, <2>4
  <2>5. CASE /\ said[mode][read[mode] + 1].mark /\ said[mode][read[mode] + 1].of = sequence
             /\ mode = "out" /\ mode' = "err" /\ UNCHANGED <<verdict, opened, lost>>
    <3>1. AtMarker("out")'
      BY <1>n, <2>1, <2>2, <2>5 DEF AtMarker
    <3> QED
      BY <1>p, <2>1, <2>2, <2>5, <3>1 DEF Progress
  <2>6. ASSUME NEW v \in {"ok", "badOutput"}, Returns(v), mode = "err",
               said[mode][read[mode] + 1].of = sequence
        PROVE  Progress'
    <3>1. /\ mode' \in {"idle", "closing"}
          /\ opened' => opened \/ (sequence' = 1 /\ PreludeLanded)
      BY <2>6, ReturnFacts
    <3>2. ASSUME sequence' = 1, PreludeLanded
          PROVE  Len(said["err"]) > 0 /\ said["err"][1].of > 0
      <4>1. read'["err"] = 1 /\ read["err"] + 1 = 1
        BY <1>n, <1>p, <2>1, <2>2, <2>6, <3>2 DEF PreludeLanded, Zero
      <4> QED
        BY <1>n, <2>1, <2>2, <2>6, <4>1
    <3> QED
      BY <1>p, <2>1, <2>2, <3>1, <3>2 DEF Progress, Streams
  <2> QED
    BY <1>3, <2>3, <2>4, <2>5, <2>6, RecvFacts
<1>4. CASE TimedOut \/ Hangup
  <2>1. /\ UNCHANGED <<childVars, sequence, from>> /\ mode \in Streams
        /\ Returns("timeout") \/ Returns("closed")
    BY <1>4 DEF TimedOut, Hangup
  <2> QED
    BY <1>p, <1>r, <2>1 DEF childVars
<1>5. CASE Shutdown \/ Close \/ Finished \/ UNCHANGED vars
  <2>1. /\ UNCHANGED <<said, read, from, sequence, verdict, opened, lost>>
        /\ mode' = mode \/ mode' \in {"closing", "closed"}
    BY <1>5 DEF Shutdown, Close, Finished, vars, driverVars, childVars
  <2> QED
    BY <1>p, <2>1 DEF Progress, AtMarker, Streams
<1> QED
  BY <1>1, <1>2, <1>3, <1>4, <1>5 DEF Next, Driver, Caller

LEMMA InStepStep ==
    ASSUME Sizes
    PROVE  Types /\ Written /\ Progress /\ InStep /\ [Next]_vars => InStep'
<1> SUFFICES ASSUME Types, Written, Progress, InStep, [Next]_vars, ~lost' PROVE InStep'
  BY DEF InStep
<1>n. /\ doing \in Nat /\ sent \in Nat /\ sequence \in Nat /\ doing <= sent + 1
      /\ \A s \in Streams : /\ Len(said[s]) \in Nat
                            /\ read[s] \in Nat /\ from[s] \in Nat
                            /\ from[s] <= read[s] /\ read[s] <= Len(said[s])
      /\ \A s \in Streams : \A k \in 1 .. Len(said[s]) : said[s][k].of \in Nat
      /\ "out" \in Streams /\ "err" \in Streams
  BY Numbers
<1>i. ASSUME ~lost
      PROVE  /\ sent = sequence
             /\ mode \in Streams /\ sequence > 1 => doing >= sequence
             /\ sequence > 0 => \A s \in Streams : BeganAt(s)
             /\ mode = "out" => NoMarkerSince("out") /\ read["err"] = from["err"]
             /\ mode = "err" => NoMarkerSince("err")
             /\ mode \notin Streams /\ sequence > 0 =>
                   /\ doing = sequence + 1
                   /\ \A s \in Streams : AtMarker(s) /\ read[s] = Len(said[s])
  BY <1>i DEF InStep
<1>1. CASE Child \/ Die \/ Pumps
  <2>1. /\ UNCHANGED driverVars /\ ~lost
        /\ doing' \in {doing, doing + 1}
        /\ doing > sent => UNCHANGED <<said, doing>>
        /\ \A t \in Streams : Len(said[t]) <= Len(said'[t]) /\ Len(said'[t]) \in Nat
        /\ \A t \in Streams : \A k \in 1 .. Len(said[t]) : said'[t][k] = said[t][k]
        /\ \A t \in Streams : \A k \in 1 .. Len(said'[t]) :
              k \notin 1 .. Len(said[t]) => said'[t][k].of = doing
    BY <1>1, ChildAdds DEF driverVars
  <2>2. UNCHANGED <<read, mode, sequence, sent, from>>
    BY <2>1 DEF driverVars
  <2>3. CASE mode \notin Streams /\ sequence > 0
    <3>1. UNCHANGED <<said, doing>>
      BY <1>i, <1>n, <2>1, <2>3
    <3> QED
      BY <1>i, <2>1, <2>2, <3>1 DEF InStep, BeganAt, NoMarkerSince, AtMarker
  <2>4. CASE mode \in Streams
    <3>0. sequence > 0
      BY <2>4 DEF Progress
    <3>1. ASSUME NEW s \in Streams, NEW k \in 1 .. Len(said'[s])
          PROVE  k <= from[s] <=> Owner(said'[s][k]) < sequence
      <4>1. CASE k \in 1 .. Len(said[s])
        BY <1>i, <2>1, <3>0, <4>1 DEF BeganAt
      <4>2. CASE k \notin 1 .. Len(said[s])
        <5>1. said'[s][k].of = doing /\ ~(k <= from[s])
          BY <1>n, <2>1, <4>2
        <5>2. ~(Owner(said'[s][k]) < sequence)
          BY <1>i, <1>n, <2>1, <2>4, <3>0, <5>1 DEF Owner
        <5> QED
          BY <5>1, <5>2
      <4> QED
        BY <4>1, <4>2
    <3>2. \A s \in Streams : BeganAt(s)'
      BY <2>2, <3>1 DEF BeganAt
    <3>3. \A s \in Streams : NoMarkerSince(s) => NoMarkerSince(s)'
      <4> SUFFICES ASSUME NEW s \in Streams, NoMarkerSince(s),
                          NEW k \in from[s] + 1 .. read[s]
                   PROVE  ~said'[s][k].mark
        BY <2>2 DEF NoMarkerSince
      <4>1. k \in 1 .. Len(said[s])
        BY <1>n
      <4> QED
        BY <2>1, <4>1 DEF NoMarkerSince
    <3>4. sequence > 1 => doing' >= sequence
      BY <1>i, <1>n, <2>1, <2>4
    <3> QED
      BY <1>i, <1>n, <2>1, <2>2, <2>4, <3>2, <3>3, <3>4 DEF InStep
  <2>5. CASE mode \notin Streams /\ sequence = 0
    BY <1>i, <1>n, <2>1, <2>2, <2>5 DEF InStep, Streams
  <2> QED
    BY <1>n, <2>3, <2>4, <2>5
<1>2. ASSUME NEW reaches \in BOOLEAN, Execute(reaches) PROVE InStep'
  <2>0. reaches
    <3>1. ~reaches => Returns("write")
      BY <1>2 DEF Execute
    <3> QED
      BY <3>1, ReturnFacts DEF Errors
  <2>1. /\ mode = "idle" /\ sequence' = sequence + 1 /\ from' = read /\ read' = read
        /\ UNCHANGED childVars /\ sent' = sequence + 1 /\ mode' = "out" /\ lost' = lost
    BY <1>2, <2>0 DEF Execute
  <2>2. UNCHANGED <<said, doing>> /\ mode \notin Streams /\ ~lost
    BY <2>1 DEF childVars, Streams
  <2>3. ASSUME NEW s \in Streams, NEW k \in 1 .. Len(said[s])
        PROVE  k <= read[s] <=> Owner(said[s][k]) < sequence + 1
    <3>1. CASE sequence = 0
      <4>1. read[s] = 0
        BY <3>1 DEF Progress, Zero
      <4>2. ~(Owner(said[s][k]) < 1)
        BY <1>n DEF Owner
      <4> QED
        BY <1>n, <3>1, <4>1, <4>2
    <3>2. CASE sequence > 0
      <4>1. read[s] = Len(said[s]) /\ sent = sequence
        BY <1>i, <2>2, <3>2
      <4>2. said[s][k].of <= sent
        BY DEF Written, NotAhead
      <4>3. Owner(said[s][k]) < sequence + 1
        BY <1>n, <3>2, <4>1, <4>2 DEF Owner
      <4> QED
        BY <1>n, <4>1, <4>3
    <3> QED
      BY <1>n, <3>1, <3>2
  <2>4. \A s \in Streams : BeganAt(s)'
    BY <2>1, <2>2, <2>3 DEF BeganAt
  <2>5. NoMarkerSince("out")'
    BY <1>n, <2>1 DEF NoMarkerSince
  <2>6. sequence' > 1 => doing' >= sequence'
    BY <1>i, <1>n, <2>1, <2>2
  <2> QED
    BY <2>1, <2>4, <2>5, <2>6 DEF InStep, Streams
<1>3. CASE Recv
  <2>1. /\ mode \in Streams /\ read[mode] + 1 \in 1 .. Len(said[mode])
        /\ UNCHANGED <<said, doing, sequence, sent, from>>
        /\ \A t \in Streams : read'[t] = IF t = mode THEN read[mode] + 1 ELSE read[t]
    BY <1>3, RecvFacts DEF childVars
  <2>l. ~lost
    BY <1>3, RecvFacts, ReturnFacts
  <2>2. /\ sequence > 0 /\ sent = sequence
        /\ sequence > 1 => doing >= sequence
        /\ \A s \in Streams : BeganAt(s)'
    BY <1>i, <2>1, <2>l DEF Progress, BeganAt
  <2>3. CASE ~said[mode][read[mode] + 1].mark /\ UNCHANGED <<mode, verdict, opened, lost>>
    <3>1. NoMarkerSince(mode)'
      <4> SUFFICES ASSUME NEW k \in from[mode] + 1 .. read[mode] + 1
                   PROVE  ~said[mode][k].mark
        BY <2>1, <2>3 DEF NoMarkerSince
      <4>1. NoMarkerSince(mode)
        BY <1>i, <2>1, <2>l DEF Streams
      <4>2. k \in from[mode] + 1 .. read[mode] \/ k = read[mode] + 1
        BY <1>n, <2>1
      <4> QED
        BY <2>3, <4>1, <4>2 DEF NoMarkerSince
    <3>2. mode = "out" => read'["err"] = from["err"]
      BY <1>i, <1>n, <2>1, <2>l
    <3> QED
      BY <2>1, <2>2, <2>3, <3>1, <3>2 DEF InStep
  <2>4. CASE Returns("outOfStep")
    BY <2>4, ReturnFacts DEF Errors
  <2>5. CASE mode = "out" /\ mode' = "err"
    <3>1. read'["err"] = from["err"]
      BY <1>i, <1>n, <2>1, <2>5, <2>l
    <3>2. NoMarkerSince("err")'
      BY <1>n, <2>1, <3>1 DEF NoMarkerSince
    <3> QED
      BY <2>1, <2>2, <2>5, <3>2 DEF InStep, Streams
  <2>6. ASSUME NEW v \in {"ok", "badOutput"}, Returns(v), mode = "err",
               said[mode][read[mode] + 1].mark, said[mode][read[mode] + 1].of = sequence
        PROVE  InStep'
    <3>1. mode' \in {"idle", "closing"}
      BY <2>6, ReturnFacts
    <3>2. doing = sequence + 1
      <4>1. sequence < doing
        BY <1>n, <2>1, <2>6 DEF Written, NotAhead
      <4> QED
        BY <1>n, <2>2, <4>1
    <3>3. \A s \in Streams : AtMarker(s)'
      <4>1. AtMarker("out")
        BY <2>6 DEF Progress
      <4>2. AtMarker("out")'
        BY <1>n, <2>1, <2>6, <4>1 DEF AtMarker
      <4>3. AtMarker("err")'
        BY <1>n, <2>1, <2>6 DEF AtMarker
      <4> QED
        BY <4>2, <4>3 DEF Streams
    <3>4. ASSUME NEW s \in Streams PROVE read'[s] = Len(said[s])
      <4>1. /\ read'[s] \in 1 .. Len(said[s])
            /\ said[s][read'[s]].mark /\ said[s][read'[s]].of = sequence
        BY <2>1, <3>3 DEF AtMarker
      <4>2. Len(said[s]) \in 1 .. Len(said[s])
        BY <1>n, <4>1
      <4>3. said[s][Len(said[s])].of <= sequence
        BY <2>2, <4>2 DEF Written, NotAhead
      <4>4. ~(read'[s] < Len(said[s]))
        <5> SUFFICES ASSUME read'[s] < Len(said[s]) PROVE FALSE
          OBVIOUS
        <5>1. sequence < said[s][Len(said[s])].of
          BY <4>1, <4>2 DEF Written, InTurn
        <5>2. said[s][Len(said[s])].of \in Nat
          BY <1>n, <4>2
        <5> QED
          BY <1>n, <4>3, <5>1, <5>2
      <4> QED
        BY <1>n, <4>1, <4>4
    <3> QED
      BY <2>1, <2>2, <3>1, <3>2, <3>3, <3>4 DEF InStep, Streams
  <2> QED
    BY <1>3, <2>3, <2>4, <2>5, <2>6, RecvFacts
<1>4. CASE TimedOut \/ Hangup
  BY <1>4, ReturnFacts DEF TimedOut, Hangup, Errors
<1>5. CASE Shutdown \/ Close \/ Finished \/ UNCHANGED vars
  <2>1. /\ UNCHANGED <<said, doing, read, from, sequence, sent, lost>>
        /\ mode' = mode \/ (mode \notin Streams /\ mode' \in {"closing", "closed"})
    BY <1>5 DEF Shutdown, Close, Finished, vars, driverVars, childVars, Streams
  <2> QED
    BY <1>i, <2>1 DEF InStep, BeganAt, NoMarkerSince, AtMarker, Streams
<1> QED
  BY <1>1, <1>2, <1>3, <1>4, <1>5 DEF Next, Driver, Caller

LEMMA BehindStep ==
    ASSUME Sizes
    PROVE  Types /\ Written /\ Progress /\ InStep /\ Behind /\ [Next]_vars => Behind'
<1> SUFFICES ASSUME Types, Written, Progress, InStep, Behind, [Next]_vars, lost'
             PROVE  Behind'
  BY DEF Behind
<1>n. /\ sent \in Nat /\ sequence \in Nat /\ sent <= sequence
      /\ \A s \in Streams : /\ Len(said[s]) \in Nat
                            /\ read[s] \in Nat /\ from[s] \in Nat
                            /\ from[s] <= read[s] /\ read[s] <= Len(said[s])
      /\ \A s \in Streams : \A k \in 1 .. Len(said[s]) : said[s][k].of \in Nat
      /\ "out" \in Streams /\ "err" \in Streams
  BY Numbers
<1>k. \A s \in Streams : \A k \in 1 .. read[s] :
         k \in 1 .. Len(said[s]) /\ said[s][k].of \in Nat /\ said[s][k].of <= sent
  <2> SUFFICES ASSUME NEW s \in Streams, NEW k \in 1 .. read[s]
               PROVE  /\ k \in 1 .. Len(said[s])
                      /\ said[s][k].of \in Nat /\ said[s][k].of <= sent
    OBVIOUS
  <2>1. k \in 1 .. Len(said[s])
    BY <1>n
  <2> QED
    BY <1>n, <2>1 DEF Written, NotAhead
<1>b. ASSUME lost
      PROVE  /\ verdict # "ok" /\ sequence > 0
             /\ mode \in Streams => sequence > 1 /\ \E s \in Streams : Lags(s, sequence - 1)
             /\ mode \notin Streams => \E s \in Streams : Lags(s, sequence)
  BY <1>b, <1>n DEF Behind, Progress
<1>g. ASSUME mode \in Streams PROVE \E s \in Streams : Lags(s, sequence)
  <2>1. CASE lost
    <3>1. PICK s \in Streams : Lags(s, sequence - 1)
      BY <1>b, <1>g, <2>1
    <3>2. Lags(s, sequence)
      <4> SUFFICES ASSUME NEW k \in 1 .. read[s], said[s][k].mark
                   PROVE  said[s][k].of < sequence
        BY DEF Lags
      <4>1. said[s][k].of < sequence - 1 /\ said[s][k].of \in Nat
        BY <1>k, <3>1 DEF Lags
      <4> QED
        BY <1>n, <4>1
    <3> QED
      BY <3>2
  <2>2. CASE ~lost
    <3>1. NoMarkerSince(mode) /\ BeganAt(mode)
      BY <1>g, <2>2 DEF InStep, Progress, Streams
    <3>2. ASSUME NEW k \in 1 .. read[mode], said[mode][k].mark
          PROVE  said[mode][k].of < sequence
      <4>1. k \in 1 .. Len(said[mode]) /\ said[mode][k].of \in Nat
        BY <1>g, <1>k
      <4>2. k <= from[mode]
        BY <1>g, <1>n, <3>1, <3>2 DEF NoMarkerSince
      <4>3. Owner(said[mode][k]) < sequence
        BY <3>1, <4>1, <4>2 DEF BeganAt
      <4> QED
        BY <1>n, <4>1, <4>3 DEF Owner
    <3> QED
      BY <1>g, <3>2 DEF Lags
  <2> QED
    BY <2>1, <2>2
<1>1. CASE Child \/ Die \/ Pumps
  <2>1. /\ UNCHANGED <<read, mode, sequence, verdict, lost>>
        /\ \A t \in Streams : \A k \in 1 .. Len(said[t]) : said'[t][k] = said[t][k]
    BY <1>1, ChildAdds DEF driverVars
  <2>2. ASSUME NEW s \in Streams, NEW n, Lags(s, n)
        PROVE  \A k \in 1 .. read[s] : said'[s][k].mark => said'[s][k].of < n
    BY <1>k, <2>1, <2>2 DEF Lags
  <2>3. \A s \in Streams : Lags(s, sequence) => Lags(s, sequence)'
    BY <2>1, <2>2 DEF Lags
  <2>4. \A s \in Streams : Lags(s, sequence - 1) => Lags(s, sequence - 1)'
    BY <2>1, <2>2 DEF Lags
  <2> QED
    BY <1>b, <2>1, <2>3, <2>4 DEF Behind
<1>2. ASSUME NEW reaches \in BOOLEAN, Execute(reaches) PROVE Behind'
  <2>1. /\ mode = "idle" /\ sequence' = sequence + 1
        /\ UNCHANGED <<said, read>>
    BY <1>2 DEF Execute, childVars
  <2>2. CASE reaches
    <3>1. mode' = "out" /\ verdict' = "none" /\ lost' = lost
      BY <1>2, <2>2 DEF Execute
    <3>2. sequence > 0 /\ \E s \in Streams : Lags(s, sequence)
      BY <1>b, <2>1, <3>1 DEF Streams
    <3>3. sequence' - 1 = sequence /\ sequence' > 1
      BY <1>n, <2>1, <3>2
    <3>4. \E s \in Streams : Lags(s, sequence - 1)'
      BY <2>1, <3>2, <3>3 DEF Lags
    <3> QED
      BY <3>1, <3>3, <3>4 DEF Behind, Streams
  <2>3. CASE ~reaches
    <3>1. mode' \in {"idle", "closing"} /\ verdict' = "write"
      BY <1>2, <2>3, ReturnFacts DEF Execute
    <3>2. ASSUME NEW k \in 1 .. read["out"] PROVE said["out"][k].of < sequence + 1
      <4>1. said["out"][k].of \in Nat /\ said["out"][k].of <= sent
        BY <1>k, <1>n
      <4> QED
        BY <1>n, <4>1
    <3>3. Lags("out", sequence)'
      BY <2>1, <3>2 DEF Lags
    <3> QED
      BY <1>n, <3>1, <3>3 DEF Behind, Streams
  <2> QED
    BY <2>2, <2>3
<1>3. CASE Recv
  <2>1. /\ mode \in Streams /\ read[mode] + 1 \in 1 .. Len(said[mode])
        /\ UNCHANGED <<said, sequence>>
        /\ \A t \in Streams : read'[t] = IF t = mode THEN read[mode] + 1 ELSE read[t]
    BY <1>3, RecvFacts DEF childVars
  <2> DEFINE line == said[mode][read[mode] + 1]
  <2>2. ASSUME NEW s \in Streams, NEW n, Lags(s, n), s = mode /\ line.mark => line.of < n
        PROVE  \A k \in 1 .. read'[s] : said[s][k].mark => said[s][k].of < n
    <3> SUFFICES ASSUME NEW k \in 1 .. read'[s], said[s][k].mark PROVE said[s][k].of < n
      OBVIOUS
    <3>1. k \in 1 .. read[s] \/ (s = mode /\ k = read[mode] + 1)
      BY <1>n, <2>1
    <3> QED
      BY <2>2, <3>1 DEF Lags
  <2>3. CASE ~line.mark /\ UNCHANGED <<mode, verdict, opened, lost>>
    <3>1. PICK s \in Streams : Lags(s, sequence - 1)
      BY <1>b, <2>1, <2>3
    <3>2. Lags(s, sequence - 1)'
      BY <2>1, <2>2, <2>3, <3>1 DEF Lags
    <3> QED
      BY <1>b, <2>1, <2>3, <3>2 DEF Behind
  <2>4. CASE line.mark /\ line.of # sequence /\ Returns("outOfStep")
    <3>1. mode' \in {"idle", "closing"} /\ verdict' = "outOfStep"
      BY <2>4, ReturnFacts
    <3>2. PICK s \in Streams : Lags(s, sequence)
      BY <1>g, <2>1
    <3>3. line.of < sequence
      <4>1. line.of <= sent /\ line.of \in Nat
        BY <1>n, <2>1 DEF Written, NotAhead
      <4> QED
        BY <1>n, <2>4, <4>1
    <3>4. Lags(s, sequence)'
      BY <2>1, <2>2, <3>2, <3>3 DEF Lags
    <3> QED
      BY <3>1, <3>4 DEF Behind, Streams
  <2>5. ASSUME line.mark, line.of = sequence, lost, Lags(mode, sequence - 1) PROVE FALSE
    <3>1. sequence > 1
      BY <1>b, <2>1, <2>5
    <3>2. PICK j \in 1 .. (read[mode] + 1) - 1 :
             said[mode][j].mark /\ said[mode][j].of = sequence - 1
      BY <2>1, <2>5, <3>1 DEF Written, Chained
    <3>3. j \in 1 .. read[mode]
      BY <1>n, <2>1
    <3> QED
      BY <1>n, <2>5, <3>2, <3>3 DEF Lags
  <2>6. CASE /\ line.mark /\ line.of = sequence
             /\ mode = "out" /\ mode' = "err" /\ UNCHANGED <<verdict, opened, lost>>
    <3>1. PICK s \in Streams : Lags(s, sequence - 1)
      BY <1>b, <2>1, <2>6
    <3>2. s # mode
      BY <2>5, <2>6, <3>1
    <3>3. Lags(s, sequence - 1)'
      BY <2>1, <2>2, <3>1, <3>2 DEF Lags
    <3> QED
      BY <1>b, <2>1, <2>6, <3>3 DEF Behind, Streams
  <2>7. ASSUME NEW v \in {"ok", "badOutput"}, Returns(v), mode = "err",
               line.mark, line.of = sequence
        PROVE  FALSE
    <3>1. lost
      BY <2>7, ReturnFacts DEF Errors
    <3>2. PICK s \in Streams : Lags(s, sequence - 1)
      BY <1>b, <2>1, <3>1
    <3>3. s = "out"
      BY <2>5, <2>7, <3>1, <3>2 DEF Streams
    <3>4. /\ read["out"] \in 1 .. read["out"]
          /\ said["out"][read["out"]].mark /\ said["out"][read["out"]].of = sequence
      BY <1>n, <2>7 DEF Progress, AtMarker
    <3>5. sequence < sequence - 1
      BY <3>2, <3>3, <3>4 DEF Lags
    <3> QED
      BY <1>n, <3>5
  <2> QED
    BY <1>3, <2>3, <2>4, <2>6, <2>7, RecvFacts
<1>4. CASE TimedOut \/ Hangup
  <2>1. /\ mode \in Streams /\ UNCHANGED <<said, read, sequence>>
        /\ Returns("timeout") \/ Returns("closed")
    BY <1>4 DEF TimedOut, Hangup, childVars
  <2>2. mode' \in {"idle", "closing"} /\ verdict' # "ok"
    BY <2>1, ReturnFacts
  <2>3. \E s \in Streams : Lags(s, sequence)'
    BY <1>g, <2>1 DEF Lags
  <2> QED
    BY <2>2, <2>3 DEF Behind, Streams
<1>5. CASE Shutdown \/ Close \/ Finished \/ UNCHANGED vars
  <2>1. /\ UNCHANGED <<said, read, sequence, verdict, lost>>
        /\ mode' = mode \/ (mode \notin Streams /\ mode' \in {"closing", "closed"})
    BY <1>5 DEF Shutdown, Close, Finished, vars, driverVars, childVars, Streams
  <2> QED
    BY <2>1 DEF Behind, Lags, Streams
<1> QED
  BY <1>1, <1>2, <1>3, <1>4, <1>5 DEF Next, Driver, Caller

-----------------------------------------------------------------------------
LEMMA AInit == ASSUME Sizes PROVE Init => AInv
<1> SUFFICES ASSUME Init PROVE AInv
  OBVIOUS
<1>1. Types
  BY TypesInit
<1>2. /\ \A s \in Streams : Len(said[s]) = 0
      /\ doing = 0 /\ marked = FALSE /\ sent = 0 /\ sequence = 0 /\ read = Zero /\ from = Zero
      /\ mode = "idle" /\ verdict = "none" /\ opened = FALSE /\ lost = FALSE
  BY DEF Init
<1>3. Written
  BY <1>2 DEF Written, InTurn, Chained, Answered, NotAhead
<1>4. Progress /\ InStep /\ Behind
  BY <1>2 DEF Progress, InStep, Behind, Streams
<1> QED
  BY <1>1, <1>3, <1>4 DEF AInv

LEMMA AStep == ASSUME Sizes PROVE AInv /\ [Next]_vars => AInv'
BY TypesStep, WrittenStep, ProgressStep, InStepStep, BehindStep DEF AInv

(* An answer is given in step only, with both streams read to the marker   *)
(* that is the last line there is.                                         *)
LEMMA AImplies == ASSUME Sizes PROVE AInv => SessionHears
<1> SUFFICES ASSUME AInv PROVE SessionHears
  OBVIOUS
<1>n. /\ sent \in Nat /\ sequence \in Nat
      /\ \A s \in Streams : /\ Len(said[s]) \in Nat /\ read[s] \in Nat /\ from[s] \in Nat
                            /\ from[s] <= read[s]
      /\ \A s \in Streams : \A k \in 1 .. Len(said[s]) : said[s][k].of \in Nat
      /\ "out" \in Streams /\ "err" \in Streams
  BY Numbers DEF AInv
<1>d. \A s \in Streams : DOMAIN said[s] = 1 .. Len(said[s])
  BY DEF AInv, Types, ChildTypes
<1>1. LostForGood
  BY DEF AInv, Behind, LostForGood
<1>2. Attribution
  <2> SUFFICES ASSUME verdict = "ok", NEW s \in Streams, NEW k \in 1 .. Len(said[s])
               PROVE  k \in from[s] + 1 .. read[s] <=> Owner(said[s][k]) = sequence
    BY <1>d DEF Attribution
  <2>1. ~lost /\ mode \notin Streams /\ sequence > 0
    BY <1>n DEF AInv, Behind, Progress
  <2>2. BeganAt(s) /\ read[s] = Len(said[s]) /\ sent = sequence
    BY <2>1 DEF AInv, InStep
  <2>3. said[s][k].of <= sequence /\ said[s][k].of \in Nat
    BY <1>n, <2>2 DEF AInv, Written, NotAhead
  <2>4. Owner(said[s][k]) <= sequence /\ Owner(said[s][k]) \in Nat
    BY <1>n, <2>1, <2>3 DEF Owner
  <2>5. k <= from[s] <=> Owner(said[s][k]) < sequence
    BY <2>2 DEF BeganAt
  <2> QED
    BY <1>n, <2>2, <2>4, <2>5
<1>3. PreludeHeard
  <2> SUFFICES ASSUME opened, NEW k \in 1 .. Len(said["err"])
               PROVE  said["err"][k].of # 0
    BY <1>d, <1>n DEF PreludeHeard
  <2>1. 1 \in 1 .. Len(said["err"]) /\ said["err"][1].of > 0
    BY <1>n DEF AInv, Progress
  <2>2. CASE k = 1
    BY <2>1, <2>2
  <2>3. CASE k > 1
    <3>1. said["err"][1].of <= said["err"][k].of
      BY <1>n, <2>1, <2>3 DEF AInv, Written, InTurn
    <3>2. said["err"][1].of \in Nat /\ said["err"][k].of \in Nat
      BY <1>n, <2>1
    <3> QED
      BY <2>1, <3>1, <3>2
  <2> QED
    BY <1>n, <2>2, <2>3
<1>4. TypeOK
  BY TypesImply DEF AInv
<1> QED
  BY <1>1, <1>2, <1>3, <1>4 DEF SessionHears

(* What a session tells is so (session.rs, execute and open): an answer    *)
(* holds all that its statement printed on both streams and nothing of a   *)
(* neighbour, a lost session never answers again, and a LOAD that failed   *)
(* fails open; for any number of statements and lines and any pipes.       *)
THEOREM SessionHearsTheorem == ASSUME Sizes PROVE Spec => []SessionHears
<1>1. Init => AInv
  BY AInit
<1>2. AInv /\ [Next]_vars => AInv'
  BY AStep
<1>3. AInv => SessionHears
  BY AImplies
<1> QED
  BY <1>1, <1>2, <1>3, PTL DEF Spec
=============================================================================
