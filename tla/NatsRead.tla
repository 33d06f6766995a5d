------------------------------ MODULE NatsRead ------------------------------
(***************************************************************************)
(* `src.stream.nats`, run after run: crates/connectors/src/nats.rs.  One   *)
(* run reads a JetStream stream, or what a filter matches of it, from the  *)
(* saved sequence to the last one the stream held when the run started.    *)
(*                                                                         *)
(* A message is its sequence, counted from 1.  An ordered consumer         *)
(* delivers the held messages that match, in order, and says with each     *)
(* how many are pending behind it.                                         *)
(***************************************************************************)
EXTENDS Integers, FiniteSets, FiniteSetsExt

CONSTANTS
    MaxRecords,   \* max_records
    MaxMessages   \* bound: messages that the stream ever gets

VARIABLES
    start,    \* the setting: "earliest" or "latest"
    stream,   \* [first, last, other, gone]: the sequences it ever held, those
              \* that the filter does not match, and those deleted one by one
    anew,     \* the stream was deleted and made again under a saved position
    missed,   \* messages that its limits discarded under a run that goes on
    saved,    \* the checkpoint: [stream, next]
    landed,   \* the messages of runs that succeeded
    base,     \* where the reading began, after the last forget
    pc,       \* where the run is
    from,     \* where this run starts
    last,     \* the stream's last sequence when it started
    next,     \* the next sequence to read
    left,     \* messages pending behind the one read last
    rows      \* the messages written in this run

world == <<start, stream, anew, missed>>
memory == <<saved, landed, base>>
run == <<from, last, next, left, rows>>
vars == <<world, memory, pc, run>>

Fresh == [first |-> 1, last |-> 0, other |-> {}, gone |-> {}]
NoPosition == [stream |-> "none", next |-> 1]

(* What a consumer that starts at sequence s still has to deliver.         *)
Pending(s) ==
    {q \in Max({s, stream.first}) .. stream.last : q \notin stream.other \cup stream.gone}

Init ==
    /\ start \in {"earliest", "latest"}
    /\ stream = Fresh /\ anew = FALSE /\ missed = {}
    /\ saved \in {NoPosition, [stream |-> "other", next |-> 2]}
    /\ landed = {} /\ base = 1
    /\ pc = "idle"
    /\ from = 0 /\ last = 0 /\ next = 0 /\ left = 0 /\ rows = {}

Over == pc' = "idle" /\ from' = 0 /\ last' = 0 /\ next' = 0 /\ left' = 0 /\ rows' = {}

-----------------------------------------------------------------------------
(* The stream: publishers, deletions from its middle, its limits.          *)

Publish(matches) ==
    /\ stream.last < MaxMessages
    /\ stream' = [stream EXCEPT !.last = @ + 1,
                    !.other = IF matches THEN @ ELSE @ \cup {stream.last + 1}]
    /\ UNCHANGED <<start, anew, missed, memory, pc, run>>

DeleteOne ==
    /\ \E q \in stream.first .. stream.last :
        stream' = [stream EXCEPT !.gone = @ \cup {q}]
    /\ UNCHANGED <<start, anew, missed, memory, pc, run>>

Discard ==
    /\ stream.first <= stream.last
    /\ stream' = [stream EXCEPT !.first = @ + 1]
    /\ missed' = IF pc = "idle" THEN missed ELSE missed \cup {stream.first}
    /\ UNCHANGED <<start, anew, memory, pc, run>>

MakeAnew ==
    /\ ~anew /\ saved.stream = "ours" /\ pc = "idle"
    /\ anew' = TRUE
    /\ stream' = Fresh
    /\ landed' = {} /\ missed' = {}
    /\ UNCHANGED <<start, saved, base, pc, run>>

-----------------------------------------------------------------------------
(* plan_start: a position for another stream or filter is ignored; one     *)
(* that is older than the stream, or past its end, is an error.            *)
Kept == saved.stream = "ours"

Lost == Kept /\ (saved.next < stream.first \/ saved.next > stream.last + 1)

StartOf ==
    IF Kept THEN saved.next
    ELSE IF start = "earliest" THEN stream.first
    ELSE stream.last + 1

(* read_batch: the stream's state is read once, and the consumer is        *)
(* created afterwards.                                                     *)
Begin ==
    /\ pc = "idle" /\ ~Lost
    /\ from' = StartOf /\ next' = StartOf
    /\ last' = stream.last
    /\ pc' = IF StartOf <= stream.last THEN "consumer" ELSE "read"
    /\ UNCHANGED <<world, memory, left, rows>>

BeginFails ==
    /\ pc = "idle" /\ Lost
    /\ UNCHANGED vars

(* Everything that the filter matched up to the recorded end was read:     *)
(* the position moves past it.                                             *)
\* Mutant: the position jumps to the recorded end after a full batch too.
PastTheEndAlways == TRUE

PastTheEnd == Cardinality(rows) < MaxRecords \/ left = 0

Finish ==
    /\ pc' = "read"
    /\ next' = IF PastTheEnd THEN Max({next, last + 1}) ELSE next
    /\ left' = 0
    /\ UNCHANGED <<world, memory, from, last, rows>>

CreateConsumer ==
    /\ pc = "consumer" /\ Pending(from) # {}
    /\ pc' = "reading"
    /\ UNCHANGED <<world, memory, run>>

NothingPending ==
    /\ pc = "consumer" /\ Pending(from) = {}
    /\ Finish

MayRead == pc = "reading" /\ Cardinality(rows) < MaxRecords /\ (rows = {} \/ left > 0)

Deliver ==
    LET q == Min(Pending(next))
    IN  /\ MayRead /\ Pending(next) # {} /\ q <= last
        /\ rows' = rows \cup {q}
        /\ next' = q + 1
        /\ left' = Cardinality(Pending(q + 1))
        /\ UNCHANGED <<world, memory, pc, from, last>>

(* A message that arrived after the run started is the next run's.         *)
DeliverLater ==
    /\ MayRead /\ Pending(next) # {} /\ Min(Pending(next)) > last
    /\ Finish

ReadStops ==
    /\ pc = "reading" /\ ~MayRead
    /\ Finish

(* A call fails, or the messages that were pending have gone and the wait  *)
(* for the next one times out.                                             *)
ReadFails ==
    /\ pc \in {"consumer", "reading"}
    /\ Over
    /\ UNCHANGED <<world, memory>>

(* A message that was delivered does not decode.                           *)
RowFails ==
    /\ MayRead /\ Pending(next) # {}
    /\ Over
    /\ UNCHANGED <<world, memory>>

-----------------------------------------------------------------------------
(* The engine: the position is kept by a run that succeeds.                *)

RunSucceeds ==
    /\ pc = "read"
    /\ saved' = [stream |-> "ours", next |-> next]
    /\ landed' = landed \cup rows
    /\ base' = IF Kept THEN base ELSE from
    /\ Over
    /\ UNCHANGED world

RunFails == pc = "read" /\ Over /\ UNCHANGED <<world, memory>>

Forget ==
    /\ pc = "idle" /\ saved # NoPosition
    /\ saved' = NoPosition
    /\ anew' = FALSE
    /\ landed' = {} /\ missed' = {}
    /\ UNCHANGED <<start, stream, base, pc, run>>

Server == (\E matches \in BOOLEAN : Publish(matches)) \/ DeleteOne \/ Discard \/ MakeAnew

Run ==
    \/ Begin \/ BeginFails
    \/ CreateConsumer \/ NothingPending
    \/ Deliver \/ DeliverLater \/ ReadStops
    \/ RunSucceeds

Next == Server \/ Run \/ ReadFails \/ RowFails \/ RunFails \/ Forget

Spec == Init /\ [][Next]_vars

-----------------------------------------------------------------------------
TypeOK ==
    /\ stream.last \in 0 .. MaxMessages /\ stream.first \in 1 .. stream.last + 1
    /\ stream.other \cup stream.gone \subseteq 1 .. stream.last
    /\ saved.next \in 1 .. MaxMessages + 1
    /\ landed \cup rows \subseteq 1 .. MaxMessages
    /\ pc \in {"idle", "consumer", "reading", "read"}
    /\ last \in 0 .. MaxMessages /\ next \in 0 .. MaxMessages + 1

(* "Gaps are errors as for Kafka": the position never lies past a matching *)
(* message that no successful run delivered, from where the reading began, *)
(* except messages deleted from the middle of the stream, and those that   *)
(* its limits discarded while a run was reading.                           *)
SkipsNothing ==
    Kept /\ ~anew =>
        \A q \in base .. saved.next - 1 :
            q \in landed \cup stream.other \cup stream.gone \cup missed

(* No message is delivered by two successful runs, unless somebody forgot  *)
(* the position in between.                                                *)
ReadOnce == rows \cap landed = {}
=============================================================================
