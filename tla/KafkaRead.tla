----------------------------- MODULE KafkaRead -----------------------------
(***************************************************************************)
(* `src.stream.kafka`, run after run: crates/connectors/src/kafka.rs.  One *)
(* run reads, in turns, what the partitions of a topic held when it        *)
(* started, up to max_records, and hands the engine where it got to; the   *)
(* engine keeps that position only if the whole run succeeds.              *)
(*                                                                         *)
(* A record is its offset, counted from 0.  `blank` are the offsets that   *)
(* hold nothing readable: transaction markers, and records compacted away. *)
(* A fetch returns at least the first readable record at or after its      *)
(* offset, that is, no unreadable stretch is longer than FETCH_BYTES.      *)
(***************************************************************************)
EXTENDS Integers, FiniteSets, Sequences, FiniteSetsExt, SequencesExt

CONSTANTS
    PartitionCount,  \* partitions the topic may ever have
    MaxRecords,      \* max_records
    MaxOffset        \* bound: records that one partition ever gets

Partitions == 1 .. PartitionCount

VARIABLES
    start,    \* the setting: "earliest" or "latest"
    topic,    \* topic[p]: [first, end, blank], of the partitions that exist
    anew,     \* the topic was deleted and made again under a saved position
    saved,    \* the checkpoint: [topic, next], next a function on partitions
    landed,   \* the records <<p, o>> of runs that succeeded
    base,     \* base[p]: where the reading of p began, after the last forget
    pc,       \* where the run is
    listed,   \* the partitions of the topic when the run began
    bounds,   \* bounds[p]: [earliest, latest], as the broker answered
    from,     \* from[p], to[p]: this run's span of partition p
    next,     \* next[p]: the next offset to read
    turn,     \* the partitions still to fetch from in this round
    again,    \* those of this round that have more
    budget,   \* what is left of max_records
    rows      \* the records written in this run

world == <<start, topic, anew>>
memory == <<saved, landed, base>>
run == <<listed, bounds, from, next, turn, again, budget, rows>>
vars == <<world, memory, pc, run>>

Fresh == [first |-> 0, end |-> 0, blank |-> {}]
NoPosition == [topic |-> "none", next |-> <<>>]

(* The readable records of partition p that are still held.                *)
Readable(p) == topic[p].first .. topic[p].end - 1 \ topic[p].blank

-----------------------------------------------------------------------------
Init ==
    /\ start \in {"earliest", "latest"}
    /\ topic = [p \in {1} |-> Fresh]
    /\ anew = FALSE
    /\ saved \in {NoPosition, [topic |-> "other", next |-> [p \in {1} |-> 1]]}
    /\ landed = {} /\ base = [p \in Partitions |-> 0]
    /\ pc = "idle"
    /\ listed = {} /\ bounds = <<>> /\ from = <<>> /\ next = <<>>
    /\ turn = <<>> /\ again = <<>> /\ budget = 0 /\ rows = {}

(* The run is over, well or badly, and forgets what it knew.               *)
Over ==
    /\ pc' = "idle"
    /\ listed' = {} /\ bounds' = <<>> /\ from' = <<>> /\ next' = <<>>
    /\ turn' = <<>> /\ again' = <<>> /\ budget' = 0 /\ rows' = {}

-----------------------------------------------------------------------------
(* The topic: records arrive, are compacted away (a marker is compacted at *)
(* once) or fall to retention; partitions are added; the topic is deleted  *)
(* and made again.                                                         *)

Produce(p) ==
    /\ topic[p].end < MaxOffset
    /\ topic' = [topic EXCEPT ![p].end = @ + 1]
    /\ UNCHANGED <<start, anew, memory, pc, run>>

Compact(p) ==
    /\ \E o \in Readable(p) : topic' = [topic EXCEPT ![p].blank = @ \cup {o}]
    /\ UNCHANGED <<start, anew, memory, pc, run>>

Expire(p) ==
    /\ topic[p].first < topic[p].end
    /\ topic' = [topic EXCEPT ![p].first = @ + 1]
    /\ UNCHANGED <<start, anew, memory, pc, run>>

AddPartition ==
    /\ \E p \in Partitions \ DOMAIN topic :
        topic' = [q \in DOMAIN topic \cup {p} |-> IF q = p THEN Fresh ELSE topic[q]]
    /\ UNCHANGED <<start, anew, memory, pc, run>>

MakeAnew ==
    /\ ~anew /\ saved.topic = "ours" /\ pc = "idle"
    /\ anew' = TRUE
    /\ topic' = [p \in {1} |-> Fresh]
    /\ landed' = {}
    /\ UNCHANGED <<start, saved, base, pc, run>>

-----------------------------------------------------------------------------
(* read_batch.                                                             *)

(* The topics are listed, and every partition is asked in turn for its     *)
(* oldest offset and its high watermark.                                   *)
Begin ==
    /\ pc = "idle"
    /\ pc' = "asking"
    /\ listed' = DOMAIN topic
    /\ UNCHANGED <<world, memory, bounds, from, next, turn, again, budget, rows>>

Unasked == listed \ DOMAIN bounds

Ask(p) ==
    /\ pc = "asking" /\ p \in Unasked /\ \A q \in Unasked : p <= q
    /\ bounds' = [q \in DOMAIN bounds \cup {p} |->
                    IF q = p THEN [earliest |-> topic[p].first, latest |-> topic[p].end]
                    ELSE bounds[q]]
    /\ UNCHANGED <<world, memory, pc, listed, from, next, turn, again, budget, rows>>

(* plan_spans: a position for another topic is ignored, a partition        *)
(* without one starts from `start`.                                        *)
Kept == IF saved.topic = "ours" THEN saved.next ELSE <<>>

StartOf(p) ==
    IF p \in DOMAIN Kept THEN Kept[p]
    ELSE IF start = "earliest" THEN bounds[p].earliest
    ELSE bounds[p].latest

(* Records were deleted before this pipeline read them, or the position    *)
(* lies past the end.                                                      *)
Lost(p) ==
    /\ p \in DOMAIN Kept
    /\ Kept[p] < bounds[p].earliest \/ Kept[p] > bounds[p].latest

PlanSpans ==
    /\ pc = "asking" /\ Unasked = {}
    /\ \A p \in DOMAIN bounds : ~Lost(p)
    /\ pc' = "reading"
    /\ from' = [p \in DOMAIN bounds |-> StartOf(p)]
    /\ next' = from'
    /\ turn' = SetToSortSeq({p \in DOMAIN bounds : StartOf(p) < bounds[p].latest}, <)
    /\ budget' = MaxRecords
    /\ UNCHANGED <<world, memory, listed, bounds, again, rows>>

PlanFails ==
    /\ pc = "asking" /\ Unasked = {}
    /\ \E p \in DOMAIN bounds : Lost(p)
    /\ Over
    /\ UNCHANGED <<world, memory>>

\* Mutant: max_records is looked at between answers only.
WrittenWhole(p, answer) == {o \in answer : o < bounds[p].latest}

(* The first n of a set of offsets, in their order.                        *)
First(n, offsets) == {o \in offsets : Cardinality({q \in offsets : q < o}) < n}

(* What of partition p's answer is written: the records of its span, in    *)
(* order, as far as the budget goes.                                       *)
Written(p, answer) == First(budget, {o \in answer : o < bounds[p].latest})

\* Mutant: the position is the last record that was written.
AtTheLast(p, written) == IF written = {} THEN bounds[p].latest ELSE Max(written)

\* Mutant: every answer is taken to reach the recorded end.
ToTheEnd(p, written) == bounds[p].latest

(* Nothing readable below the recorded end: it is stepped over.            *)
NextOf(p, written) ==
    IF written = {} THEN bounds[p].latest ELSE Max(written) + 1

(* A fetch below the oldest offset held, or of a partition that is gone,   *)
(* is an error: see CallFails.                                             *)
Fetch(p) ==
    /\ pc = "reading" /\ budget > 0
    /\ turn # <<>> /\ p = Head(turn)
    /\ p \in DOMAIN topic /\ next[p] >= topic[p].first
    /\ LET held == {o \in Readable(p) : o >= next[p]}
       IN  \E size \in (IF held = {} THEN {0} ELSE 1 .. Cardinality(held)) :
             LET answer == First(size, held)
                 written == Written(p, answer)
                 more == IF NextOf(p, written) < bounds[p].latest
                         THEN Append(again, p) ELSE again
             IN  /\ next' = [next EXCEPT ![p] = NextOf(p, written)]
                 /\ rows' = rows \cup {<<p, o>> : o \in written}
                 /\ budget' = budget - Cardinality(written)
                 /\ turn' = IF Len(turn) = 1 THEN more ELSE Tail(turn)
                 /\ again' = IF Len(turn) = 1 THEN <<>> ELSE more
    /\ UNCHANGED <<world, memory, pc, listed, bounds, from>>

(* The brokers are not reached, or refuse the login.                       *)
ConnectFails ==
    /\ pc = "asking" /\ bounds = <<>>
    /\ Over
    /\ UNCHANGED <<world, memory>>

(* A call is refused, or stalls past the deadline of its retries.          *)
CallFails ==
    /\ pc \in {"asking", "reading"}
    /\ Over
    /\ UNCHANGED <<world, memory>>

(* A record that was fetched does not decode: none of them is kept.        *)
RowFails ==
    /\ pc = "reading" /\ budget > 0 /\ turn # <<>>
    /\ Over
    /\ UNCHANGED <<world, memory>>

-----------------------------------------------------------------------------
(* The engine: the position is kept by a run that succeeds.                *)

ReadEnds == pc = "reading" /\ (budget = 0 \/ turn = <<>>)

RunSucceeds ==
    /\ ReadEnds
    /\ saved' = [topic |-> "ours", next |-> next]
    /\ landed' = landed \cup rows
    /\ base' = [p \in Partitions |->
                  IF p \in DOMAIN next \ DOMAIN Kept THEN from[p] ELSE base[p]]
    /\ Over
    /\ UNCHANGED world

RunFails ==
    /\ ReadEnds
    /\ Over
    /\ UNCHANGED <<world, memory>>

Forget ==
    /\ pc = "idle" /\ saved # NoPosition
    /\ saved' = NoPosition
    /\ anew' = FALSE
    /\ landed' = {}
    /\ UNCHANGED <<start, topic, base, pc, run>>

Broker ==
    \/ \E p \in DOMAIN topic : Produce(p) \/ Compact(p) \/ Expire(p)
    \/ AddPartition
    \/ MakeAnew

Run ==
    \/ Begin
    \/ \E p \in DOMAIN topic : Ask(p)
    \/ PlanSpans
    \/ PlanFails
    \/ \E p \in DOMAIN next : Fetch(p)
    \/ RunSucceeds

Trouble == ConnectFails \/ CallFails \/ RowFails \/ RunFails

Next == Broker \/ Run \/ Trouble \/ Forget

Spec == Init /\ [][Next]_vars

-----------------------------------------------------------------------------
TypeOK ==
    /\ start \in {"earliest", "latest"} /\ anew \in BOOLEAN
    /\ DOMAIN topic \subseteq Partitions
    /\ \A p \in DOMAIN topic :
        /\ topic[p].end \in 0 .. MaxOffset /\ topic[p].first \in 0 .. topic[p].end
        /\ topic[p].blank \subseteq 0 .. topic[p].end - 1
    /\ saved.topic \in {"none", "ours", "other"}
    /\ landed \subseteq Partitions \X (0 .. MaxOffset - 1)
    /\ rows \subseteq Partitions \X (0 .. MaxOffset - 1)
    /\ pc \in {"idle", "asking", "reading"}
    /\ budget \in 0 .. MaxRecords

(* "Gaps are errors": a position never lies past a record that a           *)
(* successful run has not delivered, from where the reading of its         *)
(* partition began; unless nothing readable was ever there.                *)
SkipsNothing ==
    saved.topic = "ours" /\ ~anew =>
        \A p \in DOMAIN saved.next \cap DOMAIN topic :
            \A o \in base[p] .. saved.next[p] - 1 :
                o \in topic[p].blank \/ <<p, o>> \in landed

(* No record is delivered by two successful runs, unless somebody forgot   *)
(* the position in between: a run starts where the last one stopped.       *)
ReadOnce == rows \cap landed = {}
=============================================================================
