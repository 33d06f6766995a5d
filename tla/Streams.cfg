\* The three stream readers, over several runs: records arrive, expire and are
\* compacted away, partitions are added, shards split and merge, runs fail.
SPECIFICATION Spec
CONSTANTS
    PartitionCount = 2
    ShardCount = 3
    MaxRecords = 1
    MaxOffset = 2
    MaxMessages = 3
    MaxSequence = 2
INVARIANTS
    KafkaReads NatsReads KinesisReads
