------------------------------- MODULE Deliver -------------------------------
(* The sinks that send rows to a stream or a queue: Kafka, NATS JetStream,  *)
(* Kinesis, SQS, Pub/Sub and RabbitMQ (crates/connectors). A sink reads its *)
(* input row by row, gathers a batch, sends it with calls that may land in  *)
(* part, be refused in part or lose their answer, and ends by saying how    *)
(* many rows were delivered. Its failure message is what a person recovers  *)
(* from, so what it says must be true of the destination.                   *)
EXTENDS Integers, FiniteSets, FiniteSetsExt

CONSTANTS
    RowCount,     \* rows of the input
    BatchLimit,   \* batch_size, BATCH_LIMIT, MESSAGES_PER_CALL, CONFIRM_BATCH
    Retries,      \* the node's retries: resends, and repeats below them
    Places        \* partitions of the topic

VARIABLES
    sink,      \* the connector
    column,    \* whether a key column is unset, absent from the rows or present
    keys,      \* each row's value in it
    at,        \* rows read so far
    batch,     \* rows gathered for a call, or being sent by one: a set, sent in order
    call,      \* rows of the batch that are still to be sent
    acks,      \* rows published whose acknowledgement is awaited
    batches,   \* batches delivered
    attempt,   \* resends of this call's refused rows
    lost,      \* repeats of this call below the sink
    log,       \* what the destination holds: rows, where, and in which turn they came
    counted,   \* the sink's own count of delivered rows
    doubt,     \* rows whose landing an answer failed to tell
    pc,
    said       \* what the sink ended with

vars == <<sink, column, keys, at, batch, call, acks, batches, attempt, lost, log,
          counted, doubt, pc, said>>

Rows == 1 .. RowCount
Streaming == {"kafka", "nats"}              \* a batch is taken when it is full
Calling == {"kinesis", "sqs", "pubsub"}     \* a batch is sent when the next row does not fit
Sinks == Streaming \cup Calling \cup {"rabbitmq"}
Null == "null"
Keys == {"a", "b"}

-----------------------------------------------------------------------------
(* Keys and places                                                          *)

KeyOf(r) == IF column = "present" THEN keys[r] ELSE Null

\* Mutant: keyed rows take turns over the partitions.
PartitionByTurn(k) == batches % Places

(* partition_for: the same key, the same partition; which one is murmur2's. *)
PartitionFor(k) == IF k = "a" THEN 0 ELSE (Places - 1)

(* Keyless rows share one partition per batch, taking turns over batches.   *)
Keyless == batches % Places

(* assign: the partition of each row of a batch.                            *)
KafkaPlace(r) == IF KeyOf(r) = Null THEN Keyless ELSE PartitionFor(KeyOf(r))

PlaceOf(r) == IF sink = "kafka" THEN KafkaPlace(r) ELSE 0

(* Rows a sink refuses while it takes them apart: a column the rows do not  *)
(* have, and a null where the service needs a value (entry, outgoing and    *)
(* routing_key; a message ID or an ordering key may be null).               *)
NullKey(r) == column = "present" /\ keys[r] = Null
EntryRefuses(r) == sink = "kinesis" /\ NullKey(r)
OutgoingRefuses(r) == sink = "sqs" /\ NullKey(r)
RoutingKeyRefuses(r) == sink = "rabbitmq" /\ NullKey(r)
Refuses(r) ==
    column = "absent" \/ EntryRefuses(r) \/ OutgoingRefuses(r) \/ RoutingKeyRefuses(r)

-----------------------------------------------------------------------------
(* The destination                                                          *)

Landed == {e.row : e \in log}
Turn == Max({0} \cup {e.turn : e \in log})

(* JetStream drops a message whose Nats-Msg-Id it holds; a FIFO queue drops *)
(* a repeated deduplication ID.                                             *)
Deduplicates(r) ==
    \/ sink = "nats" /\ KeyOf(r) # Null      \* msg_id
    \/ sink = "sqs" /\ column = "present"

(* What a request adds: the rows of S that are not dropped, in one turn and *)
(* in the order of the input. The key of a message's ID is its row here:    *)
(* IDs are taken to be distinct.                                            *)
Entry(r, turn) == [row |-> r, at |-> PlaceOf(r), turn |-> turn]
After(S) ==
    log \cup {Entry(r, Turn + 1) : r \in {q \in S : ~(Deduplicates(q) /\ q \in Landed)}}

-----------------------------------------------------------------------------
Init ==
    /\ sink \in Sinks
    /\ column \in {"unset", "absent", "present"}
    /\ IF column = "present" THEN keys \in [Rows -> Keys \cup {Null}]
       ELSE keys = [r \in Rows |-> Null]
    /\ at = 0 /\ batch = {} /\ call = {} /\ acks = {}
    /\ batches = 0 /\ attempt = 0 /\ lost = 0
    /\ log = {} /\ counted = 0 /\ doubt = {}
    /\ pc = "read" /\ said = [how |-> "nothing", count |-> 0]

Fail(n) == pc' = "ended" /\ said' = [how |-> "failed", count |-> n]

Source == <<sink, column, keys>>

(* input.read() itself fails: the error goes up as it is.                   *)
InputFails ==
    /\ pc = "read"
    /\ pc' = "ended" /\ said' = [how |-> "plain", count |-> 0]
    /\ \E S \in SUBSET acks : log' = After(S)
    /\ UNCHANGED <<Source, at, batch, call, acks, batches, attempt, lost, counted, doubt>>

(* entry, outgoing, message and routing_key refuse the row just read, before*)
(* the batch in hand is sent: those rows are never sent.                    *)
RowRefused ==
    /\ pc = "read" /\ sink \notin Streaming /\ at < RowCount /\ Refuses(at + 1)
    /\ at' = at + 1
    /\ IF column = "absent" /\ counted = 0 /\ acks = {}
       THEN pc' = "ended" /\ said' = [how |-> "plain", count |-> 0]
       ELSE Fail(counted)
    /\ \E S \in SUBSET acks : log' = After(S)
    /\ UNCHANGED <<Source, batch, call, acks, batches, attempt, lost, counted, doubt>>

(* A row that is over the service's limit on its own.                       *)
RowTooLarge ==
    /\ pc = "read" /\ sink \in Calling /\ at < RowCount /\ ~Refuses(at + 1)
    /\ at' = at + 1
    /\ Fail(counted)
    /\ UNCHANGED <<Source, batch, call, acks, batches, attempt, lost, log, counted, doubt>>

(* A row joins the batch, or goes first into the next one when the batch is *)
(* full, by rows or by bytes.                                               *)
ReadRow ==
    /\ pc = "read" /\ at < RowCount /\ ~Refuses(at + 1)
    /\ at' = at + 1
    /\ \/ /\ Cardinality(batch) < BatchLimit
          /\ batch' = batch \cup {at + 1}
          /\ UNCHANGED <<call, pc>>
       \/ /\ batch # {}
          /\ call' = batch /\ batch' = {at + 1} /\ pc' = "call"
    /\ UNCHANGED <<Source, acks, batches, attempt, lost, log, counted, doubt, said>>

WriteRecords == sink = "kinesis" /\ ReadRow
SendMessages == sink = "sqs" /\ ReadRow
PublishRow == sink = "pubsub" /\ ReadRow

(* The last batch.                                                          *)
ReadEnd ==
    /\ pc = "read" /\ sink \in Calling /\ at = RowCount /\ batch # {}
    /\ call' = batch /\ batch' = {} /\ pc' = "call"
    /\ UNCHANGED <<Source, at, acks, batches, attempt, lost, log, counted, doubt, said>>

(* write_batches of Kafka and NATS: a batch is taken when it is full or the *)
(* input is exhausted; Kafka's assign then refuses a column that is absent. *)
TakeBatch ==
    /\ pc = "read" /\ sink \in Streaming /\ at < RowCount
    /\ at' = at + 1
    /\ LET rows == batch \cup {at + 1}
       IN  IF Cardinality(rows) < BatchLimit /\ at' < RowCount
           THEN batch' = rows /\ UNCHANGED <<call, pc, said>>
           ELSE IF sink = "kafka" /\ Refuses(at + 1)
           THEN Fail(counted) /\ batch' = rows /\ UNCHANGED call
           ELSE batch' = rows /\ call' = rows /\ pc' = "call" /\ UNCHANGED said
    /\ UNCHANGED <<Source, acks, batches, attempt, lost, log, counted, doubt>>

\* Mutant: the input's end ends the sink, with a batch in hand.
SucceedAtEnd ==
    /\ pc = "read" /\ at = RowCount
    /\ pc' = "ended" /\ said' = [how |-> "ok", count |-> counted]
    /\ UNCHANGED <<Source, at, batch, call, acks, batches, attempt, lost, log, counted, doubt>>

(* Every row was read and nothing is left to send or to confirm.            *)
Succeed ==
    /\ pc = "read" /\ at = RowCount /\ batch = {} /\ acks = {}
    /\ pc' = "ended" /\ said' = [how |-> "ok", count |-> counted]
    /\ UNCHANGED <<Source, at, batch, call, acks, batches, attempt, lost, log, counted, doubt>>

-----------------------------------------------------------------------------
(* Kafka: a produce per partition, each acknowledged before the next        *)

NextProduce == {r \in call : PlaceOf(r) = Min({PlaceOf(q) : q \in call})}

(* The records of one partition are appended together. The client repeats a *)
(* produce whose answer it lost, so they may land twice.                    *)
Produce ==
    /\ pc = "call" /\ sink = "kafka"
    /\ \/ log' = After(NextProduce) /\ UNCHANGED doubt
       \/ /\ log' = After(NextProduce) \cup {Entry(r, Turn + 2) : r \in NextProduce}
          /\ doubt' = doubt \cup NextProduce
    /\ call' = call \ NextProduce
    /\ IF call' = {}
       THEN /\ pc' = "read" /\ batch' = {}
            /\ batches' = batches + 1 /\ counted' = counted + Cardinality(batch)
       ELSE UNCHANGED <<pc, batch, batches, counted>>
    /\ UNCHANGED <<Source, at, acks, attempt, lost, said>>

(* delivered_so_far.                                                        *)
ProduceFails ==
    /\ pc = "call" /\ sink = "kafka"
    /\ \/ UNCHANGED log
       \/ log' = After(NextProduce)
    /\ doubt' = doubt \cup NextProduce
    /\ Fail(counted)
    /\ UNCHANGED <<Source, at, batch, call, acks, batches, attempt, lost, counted>>

-----------------------------------------------------------------------------
(* NATS: the whole batch is published, then every acknowledgement awaited   *)

NatsPublish ==
    /\ pc = "call" /\ sink = "nats" /\ call # {} /\ ~Refuses(Min(call))
    /\ acks' = acks \cup {Min(call)}
    /\ call' = call \ {Min(call)}
    /\ UNCHANGED <<Source, at, batch, batches, attempt, lost, log, counted, doubt, pc, said>>

(* The server answers in the order of publishing; a duplicate is counted as *)
(* delivered, and told as dropped.                                          *)
NatsAck ==
    /\ pc = "call" /\ sink = "nats" /\ call = {}
    /\ log' = After({Min(acks)})
    /\ acks' = acks \ {Min(acks)}
    /\ IF acks' = {}
       THEN /\ pc' = "read" /\ batch' = {}
            /\ batches' = batches + 1 /\ counted' = counted + Cardinality(batch)
       ELSE UNCHANGED <<pc, batch, batches, counted>>
    /\ UNCHANGED <<Source, at, call, attempt, lost, doubt, said>>

(* A publish or an acknowledgement fails or times out, or the row has no    *)
(* such column: any of the published rows may have landed.                  *)
NatsFails ==
    /\ pc = "call" /\ sink = "nats"
    /\ \E S \in SUBSET (acks \cup (IF call = {} \/ Refuses(Min(call)) THEN {} ELSE {Min(call)})) :
        log' = After(S)
    /\ doubt' = doubt \cup acks
    /\ Fail(counted)
    /\ UNCHANGED <<Source, at, batch, call, acks, batches, attempt, lost, counted>>

-----------------------------------------------------------------------------
(* Kinesis, SQS and Pub/Sub: one call, and again for what it refused        *)

(* What one request may put: Pub/Sub takes a call whole or not at all.      *)
MayLand == IF sink = "pubsub" THEN {{}, call} ELSE SUBSET call

\* Mutant: a refused row is counted as delivered.
CountedWhole(ok, final) == Cardinality(call)

(* The rows a call puts, counted as the sink counts them: Kinesis counts in *)
(* order and stops at the first refusal that is not worth a resend.         *)
Counted(ok, final) ==
    IF sink = "kinesis" /\ final # {} THEN Cardinality({r \in ok : r < Min(final)})
    ELSE Cardinality(ok)

\* Mutant: the whole call is sent again, not what was refused.
ResentWhole(refused) == call

(* What is sent again: only what was refused.                               *)
Resent(refused) == refused

(* The answer names the refused rows, and which of them are not worth a     *)
(* resend (resendable, SenderFault).                                        *)
Answered ==
    /\ pc = "call"
    /\ \E ok \in MayLand : \E final \in SUBSET (call \ ok) :
        LET refused == call \ ok
        IN  /\ sink = "pubsub" => refused = {}
            /\ log' = After(ok)
            /\ counted' = counted + Counted(ok, final)
            /\ \/ /\ refused = {}
                  /\ pc' = "read" /\ call' = {} /\ attempt' = 0
                  /\ UNCHANGED said
               \/ /\ refused # {} /\ final = {} /\ attempt < Retries
                  /\ call' = Resent(refused) /\ attempt' = attempt + 1
                  /\ UNCHANGED <<pc, said>>
               \/ /\ refused # {} /\ (final # {} \/ attempt = Retries)
                  /\ Fail(counted') /\ UNCHANGED <<call, attempt>>
    /\ lost' = 0
    /\ UNCHANGED <<Source, at, batch, acks, batches, doubt>>

Put == sink = "kinesis" /\ Answered
Send == sink = "sqs" /\ Answered
PubsubSend == sink = "pubsub" /\ Answered

(* http.rs repeats a request whose answer was lost or was a 5xx: what it had *)
(* put is put again.                                                        *)
CallRepeats ==
    /\ pc = "call" /\ sink \in Calling /\ lost < Retries
    /\ \E S \in MayLand : log' = After(S) /\ doubt' = doubt \cup S
    /\ lost' = lost + 1
    /\ UNCHANGED <<Source, at, batch, call, acks, batches, attempt, counted, pc, said>>

(* The call fails, or its answer cannot be read: an answer for fewer records*)
(* than were sent, as many IDs as there were not.                           *)
CallFails ==
    /\ pc = "call" /\ sink \in Calling
    /\ \E S \in MayLand : log' = After(S) /\ doubt' = doubt \cup S
    /\ Fail(counted)
    /\ UNCHANGED <<Source, at, batch, call, acks, batches, attempt, lost, counted>>

-----------------------------------------------------------------------------
(* RabbitMQ: published as read, confirms awaited in batches                 *)

RabbitPublish ==
    /\ pc = "read" /\ sink = "rabbitmq" /\ at < RowCount /\ ~Refuses(at + 1)
    /\ at' = at + 1
    /\ acks' = acks \cup {at + 1}
    /\ pc' = IF Cardinality(acks') = BatchLimit \/ at' = RowCount THEN "confirm" ELSE "read"
    /\ UNCHANGED <<Source, batch, call, batches, attempt, lost, log, counted, doubt, said>>

(* await_confirms: each confirm is counted as it comes, in order.           *)
Confirm ==
    /\ pc = "confirm"
    /\ log' = After({Min(acks)})
    /\ counted' = counted + 1
    /\ acks' = acks \ {Min(acks)}
    /\ IF acks' = {} THEN pc' = "read" /\ batches' = batches + 1
       ELSE UNCHANGED <<pc, batches>>
    /\ UNCHANGED <<Source, at, batch, call, attempt, lost, doubt, said>>

(* A returned or refused message did not land; a publish or a confirm that  *)
(* fails leaves it open. The rows behind it may have landed all the same.   *)
RabbitFails ==
    /\ \/ pc = "confirm"
       \/ pc = "read" /\ sink = "rabbitmq" /\ at < RowCount /\ ~Refuses(at + 1)
    /\ \E S \in SUBSET (acks \cup (IF pc = "read" THEN {at + 1} ELSE {})) :
        log' = After(S) /\ doubt' = doubt \cup S
    /\ Fail(counted)
    /\ UNCHANGED <<Source, at, batch, call, acks, batches, attempt, lost, counted>>

-----------------------------------------------------------------------------
Ended == pc = "ended" /\ UNCHANGED vars

Step ==
    \/ InputFails \/ RowRefused \/ RowTooLarge
    \/ WriteRecords \/ SendMessages \/ PublishRow \/ ReadEnd \/ TakeBatch \/ Succeed
    \/ Produce \/ ProduceFails
    \/ NatsPublish \/ NatsAck \/ NatsFails
    \/ Put \/ Send \/ PubsubSend \/ CallRepeats \/ CallFails
    \/ RabbitPublish \/ Confirm \/ RabbitFails

Next == Step \/ Ended

(* Every request has a timeout and every resend a bound, so a sink that can *)
(* go on does.                                                              *)
Spec == Init /\ [][Next]_vars /\ WF_vars(Step)

-----------------------------------------------------------------------------
TypeOK ==
    /\ sink \in Sinks /\ at \in 0 .. RowCount /\ log \subseteq [row : Rows, at : Nat, turn : Nat]
    /\ \A gathered \in {batch, call, acks} :
        gathered \subseteq Rows /\ Cardinality(gathered) <= BatchLimit
    /\ attempt \in 0 .. Retries /\ lost \in 0 .. Retries
    /\ counted \in 0 .. RowCount /\ doubt \subseteq Rows
    /\ pc \in {"read", "call", "confirm", "ended"}
    /\ said.how \in {"nothing", "plain", "ok", "failed"}

(* A sink that ends well has put every row where it belongs, and says so:   *)
(* no row falls between two batches, two resends or two partitions.         *)
DeliveredAll == said.how = "ok" => Landed = Rows /\ said.count = RowCount

(* "N record(s) had been put before this, and stay there": the count of a   *)
(* failure never claims a row that is not at the destination.               *)
NeverOverclaims == said.count <= Cardinality(Landed)

(* Rows of one key land in one place, and none before those that came       *)
(* before it, for the sinks that never send a row again on their own        *)
(* (Kinesis and SQS resend what was refused behind what was not).           *)
SameKey(r, s) == KeyOf(r) # Null /\ KeyOf(r) = KeyOf(s)
KeyOrder ==
    sink \notin {"kinesis", "sqs"} /\ pc # "ended" =>
        \A e \in log : \A r \in 1 .. e.row - 1 : SameKey(r, e.row) =>
            \E d \in log : d.row = r /\ d.at = e.at /\ d.turn <= e.turn

(* A row is at the destination twice only if an answer about it was lost:   *)
(* what was put and not refused is not sent again.                          *)
OnceUnlessInDoubt == \A d, e \in log : d # e /\ d.row = e.row => e.row \in doubt

(* Every delivery comes to this.                                            *)
Over == pc = "ended"
=============================================================================
