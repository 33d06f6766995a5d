------------------------------ MODULE MCStreams ------------------------------
(* Small instances of the three stream readers for TLC: a behaviour is one  *)
(* of a Kafka, a NATS or a Kinesis source, run after run.                   *)
EXTENDS Integers

CONSTANTS
    PartitionCount, ShardCount, MaxRecords, MaxOffset, MaxMessages, MaxSequence

VARIABLES
    which,   \* the reader of this behaviour
    start, anew, saved, landed, base, missed, pc, from, next, turn, listed,
    rows,
    topic, bounds, again, budget,
    stream, last, left,
    setting, shards, born, puts, started, position, opened, iter, still, fallen

Kafka == INSTANCE KafkaRead
Nats == INSTANCE NatsRead
Kinesis == INSTANCE KinesisRead

ofKafka == <<topic, bounds, again, budget>>
ofNats == <<stream, last, left>>
ofKinesis == <<setting, shards, born, puts, started, position, opened, iter, still,
               fallen>>
all == <<which, start, anew, saved, landed, base, missed, pc, from, next, turn, listed,
         rows, ofKafka, ofNats, ofKinesis>>

NoKafka == topic = 0 /\ bounds = 0 /\ again = 0 /\ budget = 0
NoNats == stream = 0 /\ last = 0 /\ left = 0
NoKinesis ==
    /\ setting = 0 /\ shards = 0 /\ born = 0 /\ puts = 0 /\ started = 0
    /\ position = 0 /\ opened = 0 /\ iter = 0 /\ still = 0 /\ fallen = 0

Init ==
    \/ which = "kafka" /\ Kafka!Init /\ missed = {} /\ NoNats /\ NoKinesis
    \/ which = "nats" /\ Nats!Init /\ turn = <<>> /\ listed = {} /\ NoKafka /\ NoKinesis
    \/ /\ which = "kinesis" /\ Kinesis!Init
       /\ start = 0 /\ anew = FALSE /\ from = 0 /\ next = 0 /\ NoKafka /\ NoNats

Next ==
    \/ which = "kafka" /\ Kafka!Next /\ UNCHANGED <<which, missed, ofNats, ofKinesis>>
    \/ which = "nats" /\ Nats!Next /\ UNCHANGED <<which, turn, listed, ofKafka, ofKinesis>>
    \/ /\ which = "kinesis" /\ Kinesis!Next
       /\ UNCHANGED <<which, start, anew, from, next, ofKafka, ofNats>>

Spec == Init /\ [][Next]_all

(* The Kafka reader: "gaps are errors" (kafka.rs), so the position never     *)
(* lies past a readable record that no successful run delivered; and a run   *)
(* starts where the last successful one stopped, so nothing is delivered     *)
(* twice unless the position was forgotten.                                 *)
KafkaReads ==
    which = "kafka" =>
        /\ Kafka!TypeOK
        /\ Kafka!SkipsNothing
        /\ Kafka!ReadOnce

(* The same of the NATS reader, whose position jumps to the recorded end of *)
(* the stream when the batch was not full.                                  *)
NatsReads ==
    which = "nats" =>
        /\ Nats!TypeOK
        /\ Nats!SkipsNothing
        /\ Nats!ReadOnce

(* The Kinesis reader skips nothing through splits, merges, caps, shards    *)
(* that were opened and not read and shards that were not opened, and       *)
(* writes a child shard's records after those of its parents.               *)
KinesisReads ==
    which = "kinesis" =>
        /\ Kinesis!TypeOK
        /\ Kinesis!SkipsNothing
        /\ Kinesis!ParentsFirst
=============================================================================
