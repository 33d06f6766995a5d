--------------------------------- MODULE Ask ---------------------------------
(* xf.ai.prompt, xf.ai.classify and xf.ai.extract (connectors/src/ask.rs):  *)
(* every row is a call to a model. All rows are read first, so that the cap *)
(* is refused before any call; then some threads take rows from a shared    *)
(* counter until one fails; then the answers are written in row order. The  *)
(* local model (assistant/src/server.rs) is started for the stage.          *)
EXTENDS Integers, Sequences, FiniteSets, FiniteSetsExt

CONSTANTS
    Workers,     \* the threads: `concurrency`
    RowCount     \* rows of the input

VARIABLES
    question,   \* "prompt", "classify" or "extract"
    local,      \* no base_url: the local model answers
    server,     \* the local model: "none", "loading", "up", "gone"
    usable,     \* whether a client can be made for the endpoint
    cap,        \* max_rows
    read,       \* rows read so far
    next,       \* the counter the threads take rows from
    stop,
    at,         \* where each thread is
    row,        \* the row each thread took
    answers,    \* one slot per row
    calls,      \* rows sent
    stopSeen,   \* rows that had been sent when stop was set
    out, pc, said

vars == <<question, local, server, usable, cap, read, next, stop, at, row, answers,
          calls, stopSeen, out, pc, said>>

Rows == 1 .. RowCount
Empty == "empty"
Refused == "refused"

-----------------------------------------------------------------------------
(* What becomes of an answer                                                *)

(* Contents a model may answer with, each a class of texts.                 *)
Contents == {"label", "cased", "fenced", "offlist", "object", "mistyped", "prose"}

(* Classify::answer holds the answer to the list, whatever its case, its    *)
(* quotes or the fence around its JSON; a JSON object without a label is    *)
(* matched as text, and is none.                                            *)
Classified(c) == IF c \in {"label", "cased", "fenced"} THEN "onlist" ELSE Refused

(* Extract::answer wants a JSON object; typed makes what is not a field's   *)
(* type a null.                                                             *)
Extracted(c) ==
    IF c = "object" THEN "fields"
    ELSE IF c = "mistyped" THEN "nulls"
    ELSE IF c = "fenced" THEN "nulls"
    ELSE Refused

Answer(c) ==
    IF question = "prompt" THEN "text"
    ELSE IF question = "classify" THEN Classified(c)
    ELSE Extracted(c)

-----------------------------------------------------------------------------
Init ==
    /\ question \in {"prompt", "classify", "extract"}
    /\ local \in BOOLEAN /\ server = "none" /\ usable \in BOOLEAN
    /\ cap \in {RowCount - 1, RowCount}
    /\ read = 0 /\ next = 1 /\ stop = FALSE
    /\ at = [w \in Workers |-> "idle"] /\ row = [w \in Workers |-> 0]
    /\ answers = [r \in Rows |-> Empty]
    /\ calls = {} /\ stopSeen = {} /\ out = <<>>
    /\ pc = "read" /\ said = <<"nothing", 0>>

Setup == <<question, local, usable, cap>>
Threads == <<next, stop, at, row, answers, calls, stopSeen>>

End(how, r) == pc' = "ended" /\ said' = <<how, r>>

\* Mutant: the rows beyond the cap are left out without a word.
OverCapDropped == FALSE
OverCap == read = cap

ReadRow ==
    /\ pc = "read" /\ read < RowCount
    /\ IF OverCap
       THEN End("overcap", 0) /\ UNCHANGED read
       ELSE read' = read + 1 /\ UNCHANGED <<pc, said>>
    /\ UNCHANGED <<Setup, server, Threads, out>>

ReadFails ==
    /\ pc = "read" /\ read <= RowCount
    /\ End("failed", 0)
    /\ UNCHANGED <<Setup, server, read, Threads, out>>

(* Nothing to ask; or the local model, or the endpoint, is next.            *)
ReadEnd ==
    /\ pc = "read" /\ read = RowCount
    /\ IF RowCount = 0 THEN End("ok", 0) /\ UNCHANGED <<server, at>>
       ELSE IF local THEN pc' = "load" /\ server' = "loading" /\ UNCHANGED <<at, said>>
       ELSE /\ pc' = "ask" /\ at' = [w \in Workers |-> "client"]
            /\ UNCHANGED <<server, said>>
    /\ UNCHANGED <<Setup, read, next, stop, row, answers, calls, stopSeen, out>>

(* local_model, wait_until_loaded.                                          *)
Loaded ==
    /\ pc = "load"
    /\ server' = "up" /\ pc' = "ask" /\ at' = [w \in Workers |-> "client"]
    /\ UNCHANGED <<Setup, read, next, stop, row, answers, calls, stopSeen, out, said>>

(* It is not found, exits, or takes too long: dropping it stops it.         *)
LoadFails ==
    /\ pc = "load"
    /\ server' = "gone" /\ End("failed", 0)
    /\ UNCHANGED <<Setup, read, Threads, out>>

-----------------------------------------------------------------------------
(* A thread                                                                 *)

(* Endpoint::client. It fails for every thread or for none, and says so in  *)
(* the first row's slot.                                                    *)
MakeClient(w) ==
    /\ at[w] = "client"
    /\ IF usable
       THEN at' = [at EXCEPT ![w] = "take"] /\ UNCHANGED <<stop, answers, stopSeen>>
       ELSE /\ at' = [at EXCEPT ![w] = "done"]
            /\ stop' = TRUE /\ stopSeen' = IF stop THEN stopSeen ELSE calls
            /\ answers' = [answers EXCEPT ![1] = Refused]
    /\ UNCHANGED <<Setup, server, read, next, row, calls, out, pc, said>>

(* next.fetch_add(1).                                                       *)
Take(w) ==
    /\ at[w] = "take"
    /\ row' = [row EXCEPT ![w] = next] /\ next' = next + 1
    /\ at' = [at EXCEPT ![w] = "check"]
    /\ UNCHANGED <<Setup, server, read, stop, answers, calls, stopSeen, out, pc, said>>

StopRead == stop

Check(w) ==
    /\ at[w] = "check"
    /\ IF row[w] > RowCount \/ StopRead
       THEN at' = [at EXCEPT ![w] = "done"] /\ row' = [row EXCEPT ![w] = 0]
       ELSE at' = [at EXCEPT ![w] = "send"] /\ UNCHANGED row
    /\ UNCHANGED <<Setup, server, read, next, stop, answers, calls, stopSeen, out, pc, said>>

(* The call is made, whatever the other threads have met since the check.   *)
Send(w) ==
    /\ at[w] = "send"
    /\ at' = [at EXCEPT ![w] = "asking"]
    /\ calls' = calls \cup {row[w]}
    /\ UNCHANGED <<Setup, server, read, next, stop, row, answers, stopSeen, out, pc, said>>

(* ask: the call answers, or still fails after its retries.                 *)
Asked(w) ==
    /\ at[w] = "asking"
    /\ \E a \in {Answer(c) : c \in Contents} \cup {Refused} :
        /\ answers' = [answers EXCEPT ![row[w]] = a]
        /\ stop' = (stop \/ a = Refused)
        /\ stopSeen' = IF a = Refused /\ ~stop THEN calls ELSE stopSeen
    /\ at' = [at EXCEPT ![w] = "take"] /\ row' = [row EXCEPT ![w] = 0]
    /\ UNCHANGED <<Setup, server, read, next, calls, out, pc, said>>

-----------------------------------------------------------------------------
(* The scope ends with its last thread; then the local model is dropped.    *)
\* Mutant: the stage does not wait for its other threads.
JoinAny == \E w \in Workers : at[w] = "done"
Joined == \A w \in Workers : at[w] = "done"

\* Mutant: the local model outlives the stage.
KeepServer == server
DropServer == IF local THEN "gone" ELSE server

Failed == {r \in Rows : answers[r] = Refused}

\* Mutant: the row that failed last is named.
LastFailed == Max(Failed)
FirstFailed == Min(Failed)

Join ==
    /\ pc = "ask" /\ Joined
    /\ server' = DropServer
    /\ IF Failed # {}
       THEN End("failed", FirstFailed)
       ELSE pc' = "write" /\ UNCHANGED said
    /\ at' = [w \in Workers |-> "done"] /\ row' = [w \in Workers |-> 0]
    /\ UNCHANGED <<Setup, read, next, stop, answers, calls, stopSeen, out>>

(* The numbers in S, the smallest first.                                    *)
InOrder(S) ==
    CHOOSE s \in [1 .. Cardinality(S) -> S] : \A i, j \in DOMAIN s : i < j => s[i] < s[j]

(* The answers in row order; a slot that is empty is passed over.           *)
Write ==
    /\ pc = "write"
    /\ \/ /\ out' = InOrder({r \in Rows : answers[r] # Empty})
          /\ End("ok", 0)
       \/ End("failed", 0) /\ UNCHANGED out
    /\ UNCHANGED <<Setup, server, read, Threads>>

Ended == pc = "ended" /\ UNCHANGED vars

Step ==
    \/ ReadRow \/ ReadFails \/ ReadEnd \/ Loaded \/ LoadFails
    \/ \E w \in Workers : MakeClient(w) \/ Take(w) \/ Check(w) \/ Send(w) \/ Asked(w)
    \/ Join \/ Write

Next == Step \/ Ended

(* Each call has a timeout and a bounded number of retries, and so has the  *)
(* loading of the model.                                                    *)
Spec == Init /\ [][Next]_vars /\ WF_vars(Step)

-----------------------------------------------------------------------------
TypeOK ==
    /\ read \in 0 .. RowCount /\ next \in 1 .. RowCount + Cardinality(Workers) + 1
    /\ at \in [Workers -> {"idle", "client", "take", "check", "send", "asking", "done"}]
    /\ row \in [Workers -> 0 .. RowCount + Cardinality(Workers)]
    /\ calls \subseteq Rows
    /\ server \in {"none", "loading", "up", "gone"}
    /\ pc \in {"read", "load", "ask", "write", "ended"}

(* A stage that succeeds has an answer for every row, in row order: no slot *)
(* is passed over, although slots may be empty when a thread stops.         *)
EveryRowAnswered == said[1] = "ok" => out = [r \in Rows |-> r]

(* A failure that names a row names the earliest one that failed.           *)
EarliestNamed ==
    said[1] = "failed" /\ said[2] > 0 =>
        /\ answers[said[2]] = Refused
        /\ \A r \in calls : r < said[2] => answers[r] \notin {Refused, Empty}

(* Each row is a call that can cost money: none is made for an input above  *)
(* the cap, and once a call has failed no other is made than those that the *)
(* other threads were about to make.                                        *)
CallsBounded ==
    /\ RowCount > cap => calls = {}
    /\ stop => Cardinality(calls \ stopSeen) < Cardinality(Workers)

(* The local model is gone when the stage is over.                          *)
ServerGone == pc = "ended" => server \in {"none", "gone"}

(* Every stage comes to this.                                               *)
Over == pc = "ended"
=============================================================================
