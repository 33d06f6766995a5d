------------------------------ MODULE Session ------------------------------
(***************************************************************************)
(* A DuckDB process held open for a run: crates/duckdb-engine, session.rs. *)
(*                                                                         *)
(* Four parties: the driver, which sends one statement at a time and reads *)
(* its answer; the child, which answers on two pipes that have no order    *)
(* between them; and a pump thread for each pipe, which moves its lines to *)
(* a channel.  A pipe is bounded, a channel is not.                        *)
(*                                                                         *)
(* Each stream is kept as the whole history of its lines, of which pumped  *)
(* lines have reached the channel and read lines the driver.  Statement 0  *)
(* is what the prelude sends raw, ahead of statement 1.                    *)
(***************************************************************************)
EXTENDS Integers, Sequences

CONSTANTS
    PipeSize,       \* lines that fit a pipe
    MaxStatements,  \* bound: calls of execute
    MaxLines        \* bound: lines a statement writes

Streams == {"out", "err"}
Statements == 0 .. MaxStatements
Line == [of : Statements, mark : BOOLEAN]

VARIABLES
    prompt,    \* whether the child answers, and within the timeout
    child,     \* "alive", "doomed" (killed, not yet gone) or "dead"
    doing,     \* the statement that the child is at
    left,      \* left[s]: lines it has still to write to s for it
    marked,    \* whether it has written the statement's marker
    said,      \* said[s]: every line written to stream s
    pumped,    \* pumped[s]: how many of them are in the channel
    read,      \* read[s]: how many the driver has taken
    mode,      \* the driver: "idle", reading "out" or "err", "closing", "closed"
    sequence,  \* Session::sequence
    sent,      \* the last statement that reached stdin
    from,      \* from[s]: what read[s] was when execute was called
    verdict,   \* what the last call of execute returned
    opened,    \* whether Session::open returned a session
    lost       \* whether some call met a lost session

childVars == <<doing, left, marked, said>>
driverVars == <<read, mode, sequence, sent, from, verdict, opened, lost>>
vars == <<prompt, child, childVars, pumped, driverVars>>

Zero == [s \in Streams |-> 0]

(* What a statement may print, and what a SET or a LOAD may.               *)
Outputs == {o \in [Streams -> 0 .. MaxLines] : o["out"] + o["err"] <= MaxLines}
RawOutputs == {o \in Outputs : o["out"] = 0}

Init ==
    /\ prompt \in BOOLEAN
    /\ child = "alive"
    /\ doing = 0
    /\ left \in RawOutputs
    /\ marked = FALSE
    /\ said = [s \in Streams |-> <<>>]
    /\ pumped = Zero
    /\ read = Zero
    /\ mode = "idle"
    /\ sequence = 0
    /\ sent = 0
    /\ from = Zero
    /\ verdict = "none"
    /\ opened = FALSE
    /\ lost = FALSE

-----------------------------------------------------------------------------
(* The child.  It takes the statements in turn: the statement's own lines, *)
(* then its marker on stdout, then its error marker on stderr.  A write to *)
(* a full pipe waits.                                                      *)

Room(s) == Len(said[s]) - pumped[s] < PipeSize
Writes(s, line) == Room(s) /\ said' = [said EXCEPT ![s] = Append(@, line)]

Running == child # "dead" /\ doing <= sent

Say(s) ==
    /\ Running
    /\ left[s] > 0
    /\ Writes(s, [of |-> doing, mark |-> FALSE])
    /\ left' = [left EXCEPT ![s] = @ - 1]
    /\ UNCHANGED <<prompt, child, doing, marked, pumped, driverVars>>

Mark ==
    /\ Running
    /\ doing > 0 /\ left = Zero /\ ~marked
    /\ Writes("out", [of |-> doing, mark |-> TRUE])
    /\ marked' = TRUE
    /\ UNCHANGED <<prompt, child, doing, left, pumped, driverVars>>

NextStatement == doing' = doing + 1 /\ left' \in Outputs /\ marked' = FALSE

ErrorMark ==
    /\ Running
    /\ marked
    /\ Writes("err", [of |-> doing, mark |-> TRUE])
    /\ NextStatement
    /\ UNCHANGED <<prompt, child, pumped, driverVars>>

(* What is sent raw is answered by its messages only.                      *)
EndRaw ==
    /\ Running
    /\ doing = 0 /\ left = Zero
    /\ NextStatement
    /\ UNCHANGED <<prompt, child, said, pumped, driverVars>>

(* It dies of itself, or of the kill, at any point.                        *)
Die ==
    /\ child # "dead"
    /\ child' = "dead"
    /\ UNCHANGED <<prompt, childVars, pumped, driverVars>>

(* It ends once stdin is closed and every statement answered.              *)
Exit ==
    /\ child # "dead"
    /\ mode = "closing"
    /\ doing > sent
    /\ child' = "dead"
    /\ UNCHANGED <<prompt, childVars, pumped, driverVars>>

-----------------------------------------------------------------------------
(* The pump threads.  A pump ends at the end of its pipe, and the channel  *)
(* is disconnected when it is empty then.                                  *)

Pump(s) ==
    /\ pumped[s] < Len(said[s])
    /\ pumped' = [pumped EXCEPT ![s] = @ + 1]
    /\ UNCHANGED <<prompt, child, childVars, driverVars>>

Disconnected(s) == child = "dead" /\ pumped[s] = Len(said[s])

-----------------------------------------------------------------------------
(* The driver.                                                             *)

(* The call returns.  Open, whose first statement proves the prelude,      *)
(* drops the session when stdout was empty or stderr was not.              *)
Errors == {"timeout", "closed", "outOfStep", "write"}

\* Mutant: rows alone prove the prelude, as a failed LOAD does not stop them.
RowsProve == read["out"] > from["out"] + 1

PreludeLanded == read["out"] > from["out"] + 1 /\ read'["err"] = from["err"] + 1

Returns(v) ==
    /\ verdict' = v
    /\ lost' = (lost \/ v \in Errors)
    /\ opened' = (opened \/ (sequence' = 1 /\ v = "ok" /\ PreludeLanded))
    /\ mode' = IF opened' THEN "idle" ELSE "closing"

(* execute, up to the write: it fails when nobody is left to read stdin.   *)
Execute(reaches) ==
    /\ mode = "idle"
    /\ sequence < MaxStatements
    /\ reaches => child # "dead"
    /\ ~reaches => child # "alive"
    /\ sequence' = sequence + 1
    /\ from' = read
    /\ IF reaches
       THEN /\ sent' = sequence + 1
            /\ mode' = "out"
            /\ verdict' = "none"
            /\ UNCHANGED <<opened, lost>>
       ELSE Returns("write") /\ UNCHANGED sent
    /\ UNCHANGED <<prompt, child, childVars, pumped, read>>

(* read_until, one line of the stream that the driver is reading.          *)
\* Mutant: a stale marker is skipped, and reading goes on.
SkipStale(line) ==
    IF line.of # sequence THEN UNCHANGED <<mode, verdict, opened, lost>>
    ELSE IF mode = "out" THEN mode' = "err" /\ UNCHANGED <<verdict, opened, lost>>
    ELSE \E v \in {"ok", "badOutput"} : Returns(v)

Boundary(line) ==
    IF line.of # sequence THEN Returns("outOfStep")
    ELSE IF mode = "out" THEN mode' = "err" /\ UNCHANGED <<verdict, opened, lost>>
    ELSE \E v \in {"ok", "badOutput"} : Returns(v)

\* Mutant: stderr is whatever has arrived by the time stdout is read.
RecvHasty ==
    /\ mode \in Streams
    /\ IF mode = "err"
       THEN /\ read' = [read EXCEPT !["err"] = pumped["err"]]
            /\ UNCHANGED sequence
            /\ Returns("ok")
       ELSE /\ read["out"] < pumped["out"]
            /\ read' = [read EXCEPT !["out"] = @ + 1]
            /\ UNCHANGED sequence
            /\ LET line == said["out"][read["out"] + 1]
               IN  IF line.mark THEN Boundary(line)
                   ELSE UNCHANGED <<mode, verdict, opened, lost>>
    /\ UNCHANGED <<prompt, child, childVars, pumped, sent, from>>

\* Mutant: the driver takes a line straight from the pipe.
RecvUnpumped ==
    /\ mode \in Streams
    /\ read[mode] < Len(said[mode])
    /\ read' = [read EXCEPT ![mode] = @ + 1]
    /\ UNCHANGED sequence
    /\ LET line == said[mode][read[mode] + 1]
       IN  IF line.mark THEN Boundary(line)
           ELSE UNCHANGED <<mode, verdict, opened, lost>>
    /\ UNCHANGED <<prompt, child, childVars, pumped, sent, from>>

Recv ==
    /\ mode \in Streams
    /\ read[mode] < pumped[mode]
    /\ read' = [read EXCEPT ![mode] = @ + 1]
    /\ UNCHANGED sequence
    /\ LET line == said[mode][read[mode] + 1]
       IN  IF line.mark THEN Boundary(line)
           ELSE UNCHANGED <<mode, verdict, opened, lost>>
    /\ UNCHANGED <<prompt, child, childVars, pumped, sent, from>>

(* A line does not come in time: the child is killed, which takes effect   *)
(* when it does.                                                           *)
\* Mutant: the driver waits for as long as the child is there.
WaitForever == FALSE /\ UNCHANGED vars

TimedOut ==
    /\ ~prompt
    /\ mode \in Streams
    /\ read[mode] = pumped[mode]
    /\ ~Disconnected(mode)
    /\ child' = IF child = "alive" THEN "doomed" ELSE child
    /\ UNCHANGED sequence
    /\ Returns("timeout")
    /\ UNCHANGED <<prompt, childVars, pumped, read, sent, from>>

Hangup ==
    /\ mode \in Streams
    /\ read[mode] = pumped[mode]
    /\ Disconnected(mode)
    /\ UNCHANGED sequence
    /\ Returns("closed")
    /\ UNCHANGED <<prompt, child, childVars, pumped, read, sent, from>>

(* close, or the session is dropped: stdin is closed.                      *)
Close ==
    /\ mode = "idle"
    /\ opened
    /\ mode' = "closing"
    /\ UNCHANGED <<prompt, child, childVars, pumped, read, sequence, sent, from, verdict,
                   opened, lost>>

(* shutdown: try_wait, and then wait, for as long as it takes.             *)
Shutdown ==
    /\ mode = "closing"
    /\ child = "dead"
    /\ mode' = "closed"
    /\ UNCHANGED <<prompt, child, childVars, pumped, read, sequence, sent, from, verdict,
                   opened, lost>>

(* A closed session takes no more calls.                                   *)
Finished == mode = "closed" /\ UNCHANGED vars

-----------------------------------------------------------------------------
Child == (\E s \in Streams : Say(s)) \/ Mark \/ ErrorMark \/ EndRaw \/ Exit
Pumps == \E s \in Streams : Pump(s)
Driver == Recv \/ TimedOut \/ Hangup \/ Shutdown
Caller == (\E reaches \in BOOLEAN : Execute(reaches)) \/ Close

Next == Child \/ Die \/ Pumps \/ Driver \/ Caller \/ Finished

Spec == Init /\ [][Next]_vars

(* The driver's own loop and the two threads run, and a kill takes effect. *)
(* A prompt child answers what it is sent; another may hang.               *)
FairSpec ==
    /\ Spec
    /\ WF_vars(Driver)
    /\ \A s \in Streams : WF_vars(Pump(s))
    /\ WF_vars(child = "doomed" /\ Die)
    /\ WF_vars(prompt /\ Child)

-----------------------------------------------------------------------------
(* Types, with the bounds of the pipes and the order of the cursors.       *)
TypeOK ==
    /\ prompt \in BOOLEAN
    /\ child \in {"alive", "doomed", "dead"}
    /\ doing \in 0 .. MaxStatements + 1
    /\ left \in Outputs
    /\ marked \in BOOLEAN
    /\ said \in [Streams -> Seq(Line)]
    /\ pumped \in [Streams -> Nat]
    /\ read \in [Streams -> Nat]
    /\ \A s \in Streams : /\ from[s] <= read[s]
                          /\ read[s] <= pumped[s]
                          /\ pumped[s] <= Len(said[s])
                          /\ Len(said[s]) <= pumped[s] + PipeSize
    /\ mode \in {"idle", "out", "err", "closing", "closed"}
    /\ sequence \in Statements
    /\ sent \in Statements
    /\ from \in [Streams -> Nat]
    /\ verdict \in {"none", "ok", "badOutput"} \cup Errors
    /\ opened \in BOOLEAN
    /\ lost \in BOOLEAN

(* The statement that a line answers: the prelude's are the first one's.   *)
Owner(line) == IF line.of = 0 THEN 1 ELSE line.of

(* An answer holds everything its statement printed on either stream and   *)
(* nothing of a neighbour, whatever order the pipes delivered in and       *)
(* whatever went wrong before (session.rs, Answer::stderr: only this one,  *)
(* and complete).                                                          *)
Attribution ==
    verdict = "ok" =>
        \A s \in Streams : \A k \in DOMAIN said[s] :
            ~said[s][k].mark =>
                (k \in from[s] + 1 .. read[s] <=> Owner(said[s][k]) = sequence)

(* A session that was lost once, to a timeout, a stale marker or a broken  *)
(* pipe, never answers again: it is not reused at a place that may not be  *)
(* a statement boundary.                                                   *)
LostForGood == lost => verdict # "ok"

(* A LOAD that failed fails Session::open, though the statement behind it  *)
(* answers.                                                                *)
PreludeHeard == opened => \A k \in DOMAIN said["err"] : said["err"][k].of # 0

(* What a session tells is so: everything a statement printed is in its    *)
(* own answer, and nothing else, whatever order the two pipes delivered    *)
(* in; a session that was lost never answers again; and a LOAD that failed *)
(* fails Session::open.                                                    *)
SessionHears ==
    /\ TypeOK
    /\ Attribution
    /\ LostForGood
    /\ PreludeHeard

(* Every call of execute returns: by its answer when the child is prompt,  *)
(* with pipes that are always drained, and by the timeout when it is not.  *)
Waits == mode \in Streams
EveryCallReturns == [](Waits => <>(~Waits))

(* Closing a session comes to an end when its child is prompt, and when    *)
(* the session was lost: by then the child is killed or gone, even one     *)
(* that hangs, and wait (session.rs, shutdown) has something to wait for.  *)
MustEnd == mode = "closing" /\ (prompt \/ lost)
Ended == mode = "closed"
CloseReturns == [](MustEnd => <>Ended)
=============================================================================
