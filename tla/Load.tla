-------------------------------- MODULE Load --------------------------------
(* The sinks that write rows to a table, a collection or an API: BigQuery,  *)
(* Snowflake, ClickHouse, SQL Server, MongoDB, REST and GraphQL             *)
(* (crates/connectors). Rows are gathered into batches, each written by one *)
(* statement, load job or request; a table may be emptied first, and rows   *)
(* may replace others by key. What a sink says when it ends must be true of *)
(* the table, although a request whose answer was lost may take effect      *)
(* twice, or later.                                                         *)
EXTENDS Integers, Sequences, FiniteSets, SequencesExt

CONSTANTS
    RowCount,     \* rows of the input
    BatchLimit,   \* INSERT_ROWS, WRITE_BATCH, batch_size, or what LOAD_BYTES holds
    Retries       \* repeats of one request by the HTTP layer

VARIABLES
    sink, mode,
    keys,      \* each row's key; row 0 is the row the table held before
    odd,       \* the row with a column the first one lacks, or no document; 0 for none
    at,        \* rows read so far
    batch,     \* rows gathered
    call,      \* rows of the statement under way
    staged,    \* rows in SQL Server's staging table
    table,     \* how often the table holds each row
    applied,   \* rows that took effect at any time
    late,      \* requests whose answer was lost and that are still to take effect
    wiped,     \* one of those empties the table
    done,      \* statements and jobs done
    lost,      \* repeats of the request under way
    counted,   \* the sink's count of written rows
    pc,
    said

vars == <<sink, mode, keys, odd, at, batch, call, staged, table, applied, late, wiped,
          done, lost, counted, pc, said>>

Rows == 1 .. RowCount
Null == "null"
Warehouses == {"bigquery", "snowflake", "clickhouse"}
Apis == {"rest", "graphql"}

(* SinkSettings, Mode: the modes each sink takes; upsert is MongoDB's merge.*)
BigquerySettings == sink = "bigquery" /\ mode \in {"append", "truncate"}
SnowflakeSettings == sink = "snowflake" /\ mode \in {"append", "truncate"}
ClickhouseSettings == sink = "clickhouse" /\ mode \in {"append", "truncate"}
SqlserverSettings == sink = "sqlserver" /\ mode \in {"append", "truncate", "merge"}
MongoMode == sink = "mongo" /\ mode \in {"append", "merge"}
RestSettings == sink = "rest" /\ mode = "append"
GraphqlSettings == sink = "graphql" /\ mode = "append"
Settings ==
    \/ BigquerySettings \/ SnowflakeSettings \/ ClickhouseSettings \/ SqlserverSettings
    \/ MongoMode \/ RestSettings \/ GraphqlSettings

(* Over http.rs, which sends a request again when its answer is lost.       *)
Repeats == sink \in Warehouses \cup Apis

-----------------------------------------------------------------------------
(* The destination                                                          *)

Empty == [r \in 0 .. RowCount |-> 0]
With(S) == [r \in 0 .. RowCount |-> IF r \in S THEN table[r] + 1 ELSE table[r]]
WithTruncated(S) == [r \in 0 .. RowCount |-> IF r \in S THEN 1 ELSE 0]

\* Mutant: every job of a truncating load replaces the rows.
TruncatesEach == sink = "bigquery" /\ mode = "truncate"

(* The first job of a truncating load replaces the table's rows.            *)
Truncates == sink = "bigquery" /\ mode = "truncate" /\ done = 0

Loaded(S) == IF Truncates THEN WithTruncated(S) ELSE With(S)

(* merge_statement: the last staged row of each key wins; a null key is     *)
(* equal to no key of the table.                                            *)
Winners(S) == {r \in S : \A s \in S : keys[s] = keys[r] => s <= r}

Merged(W) ==
    [r \in 0 .. RowCount |->
        IF r \in W THEN 1
        ELSE IF \E w \in W : keys[w] # Null /\ keys[w] = keys[r] THEN 0
        ELSE table[r]]

(* An unordered update: of the rows of one key in a batch, any comes last.  *)
OnePerKey(S) ==
    {W \in SUBSET S : /\ {keys[r] : r \in W} = {keys[r] : r \in S}
                      /\ \A r, s \in W : keys[r] = keys[s] => r = s}

-----------------------------------------------------------------------------
Init ==
    /\ Settings
    /\ IF mode = "merge"
       THEN keys \in {k \in [0 .. RowCount -> {"a", "b", Null}] : k[0] = "a"}
       ELSE keys = [r \in 0 .. RowCount |-> Null]
    /\ odd \in IF sink = "mongo" THEN 0 .. RowCount
               ELSE IF sink \in {"snowflake", "sqlserver"} THEN {0} \cup 2 .. RowCount
               ELSE {0}
    /\ at = 0 /\ batch = <<>> /\ call = <<>> /\ staged = {}
    /\ table = [Empty EXCEPT ![0] = 1]
    /\ applied = {} /\ late = {} /\ wiped = FALSE
    /\ done = 0 /\ lost = 0 /\ counted = 0
    /\ pc = IF mode = "truncate" /\ sink # "bigquery" THEN "truncate" ELSE "read"
    /\ said = [how |-> "nothing", count |-> 0]

Input == <<sink, mode, keys, odd>>
World == <<table, applied, late, wiped>>
Ends(how) == pc' = "ended" /\ said' = [how |-> how, count |-> counted]

(* TRUNCATE TABLE, before the first row is read.                            *)
Truncate ==
    /\ pc = "truncate"
    /\ table' = Empty /\ pc' = "read" /\ lost' = 0
    /\ UNCHANGED <<Input, at, batch, call, staged, applied, late, wiped, done, counted, said>>

(* It was repeated (ClickHouse: Snowflake knows the request by its ID): the *)
(* first one did its work, never will, or does it later.                    *)
TruncateRepeats ==
    /\ pc = "truncate" /\ sink = "clickhouse" /\ lost < Retries
    /\ \/ table' = Empty /\ UNCHANGED <<late, wiped>>
       \/ UNCHANGED <<table, late, wiped>>
       \/ late' = late \cup {[rows |-> {}, truncates |-> TRUE]} /\ wiped' = TRUE /\ UNCHANGED table
    /\ lost' = lost + 1
    /\ UNCHANGED <<Input, at, batch, call, staged, applied, done, counted, pc, said>>

TruncateFails ==
    /\ pc = "truncate"
    /\ table' \in {table, Empty}
    /\ Ends("failed")
    /\ UNCHANGED <<Input, at, batch, call, staged, applied, late, wiped, done, lost, counted>>

-----------------------------------------------------------------------------
(* Reading and batching                                                     *)

(* input.read() fails: the error goes up as it is.                          *)
InputFails ==
    /\ pc = "read"
    /\ pc' = "ended" /\ said' = [how |-> "plain", count |-> 0]
    /\ UNCHANGED <<Input, at, batch, call, staged, World, done, lost, counted>>

(* A column the first row did not have; a row that is no document.          *)
RowRefused ==
    /\ pc = "read" /\ at < RowCount /\ odd = at + 1
    /\ at' = at + 1
    /\ Ends("failed")
    /\ UNCHANGED <<Input, batch, call, staged, World, done, lost, counted>>

(* ClickHouse and BigQuery: the row that does not fit starts a new batch.   *)
ReadAfterCut ==
    /\ pc = "read" /\ at < RowCount
    /\ at' = at + 1
    /\ \/ /\ Len(batch) < BatchLimit
          /\ batch' = Append(batch, at + 1)
          /\ UNCHANGED <<call, pc>>
       \/ batch # <<>> /\ call' = batch /\ batch' = <<at + 1>> /\ pc' = "call"
    /\ UNCHANGED <<Input, staged, World, done, lost, counted, said>>

LoadBigquery == sink = "bigquery" /\ ReadAfterCut
InsertClickhouse == sink = "clickhouse" /\ ReadAfterCut

(* The others: a batch is written as soon as it is full.                    *)
ReadUntilFull ==
    /\ pc = "read" /\ at < RowCount /\ odd # at + 1
    /\ at' = at + 1
    /\ LET rows == Append(batch, at + 1)
       IN  IF Len(rows) = BatchLimit
           THEN call' = rows /\ batch' = <<>> /\ pc' = "call"
           ELSE batch' = rows /\ UNCHANGED <<call, pc>>
    /\ UNCHANGED <<Input, staged, World, done, lost, counted, said>>

InsertSnowflake == sink = "snowflake" /\ ReadUntilFull
InsertSqlserver == sink = "sqlserver" /\ ReadUntilFull
WriteMongo == sink = "mongo" /\ ReadUntilFull
WriteRest == sink = "rest" /\ ReadUntilFull
WriteGraphql == sink = "graphql" /\ ReadUntilFull

(* The last batch; truncating with nothing to load still empties the table. *)
LastBatch == batch # <<>> \/ (sink = "bigquery" /\ mode = "truncate" /\ done = 0)
ReadEnd ==
    /\ pc = "read" /\ at = RowCount /\ LastBatch
    /\ call' = batch /\ batch' = <<>> /\ pc' = "call"
    /\ UNCHANGED <<Input, at, staged, World, done, lost, counted, said>>

Succeed ==
    /\ pc = "read" /\ at = RowCount /\ ~LastBatch
    /\ IF sink = "sqlserver" /\ mode = "merge"
       THEN pc' = "merge" /\ UNCHANGED said
       ELSE Ends("ok")
    /\ UNCHANGED <<Input, at, batch, call, staged, World, done, lost, counted>>

-----------------------------------------------------------------------------
(* One statement, job or request                                            *)

(* inserted += in_batch, loaded.rows += outputRows: what has landed counts. *)
Wrote(n) ==
    /\ pc' = "read" /\ call' = <<>> /\ done' = done + 1 /\ lost' = 0
    /\ counted' = counted + n
    /\ UNCHANGED <<Input, at, batch, said>>

(* The batch is in the table. A request known by its ID, or by the token of *)
(* its batch in a table that deduplicates, has done its work already.       *)
Insert ==
    /\ pc = "call" /\ mode # "merge"
    /\ table' \in {Loaded(ToSet(call))} \cup
                  (IF sink = "clickhouse" /\ lost > 0 /\ ToSet(call) \subseteq applied
                   THEN {table} ELSE {})
    /\ applied' = applied \cup ToSet(call)
    /\ Wrote(Len(call))
    /\ UNCHANGED <<staged, late, wiped>>

RunLoad == sink = "bigquery" /\ Insert
ExecuteSnowflake == sink = "snowflake" /\ Insert
ExecuteClickhouse == sink = "clickhouse" /\ Insert
ExecuteSqlserver == sink = "sqlserver" /\ Insert
InsertMongo == sink = "mongo" /\ Insert
PostBatch == sink = "rest" /\ Insert
PostMutation == sink = "graphql" /\ Insert

\* Mutant: a batch is merged as it is written, with no staging table.
StageNothing ==
    /\ pc = "call" /\ sink = "sqlserver" /\ mode = "merge"
    /\ table' = Merged(Winners(ToSet(call)))
    /\ applied' = applied \cup ToSet(call)
    /\ Wrote(Len(call))
    /\ UNCHANGED <<staged, late, wiped>>

(* SQL Server's staging table is the connection's own.                      *)
Stage ==
    /\ pc = "call" /\ sink = "sqlserver" /\ mode = "merge"
    /\ staged' = staged \cup ToSet(call)
    /\ Wrote(Len(call))
    /\ UNCHANGED World

Keyless == \E r \in ToSet(call) : keys[r] = Null

(* MongoDB's update with upsert: n counts each row that replaced or added.  *)
Upsert ==
    /\ pc = "call" /\ sink = "mongo" /\ mode = "merge" /\ ~Keyless
    /\ \E W \in OnePerKey(ToSet(call)) : table' = Merged(W)
    /\ applied' = applied \cup ToSet(call)
    /\ Wrote(Len(call))
    /\ UNCHANGED <<staged, late, wiped>>

(* Unordered: a refused document keeps none of the others out.              *)
Counted(ok) == Cardinality(ok)
MongoRefuses ==
    /\ pc = "call" /\ sink = "mongo"
    /\ ~(mode = "merge" /\ Keyless)
    /\ \E ok \in (SUBSET ToSet(call)) \ {ToSet(call)} :
        /\ \E W \in OnePerKey(ok) : table' = IF mode = "merge" THEN Merged(W) ELSE With(ok)
        /\ applied' = applied \cup ok
        /\ counted' = counted + Counted(ok)
    /\ pc' = "ended" /\ said' = [how |-> "failed", count |-> counted']
    /\ UNCHANGED <<Input, at, batch, call, staged, late, wiped, done, lost>>

(* A row without a value for a key field: the batch is not sent.            *)
KeylessRow ==
    /\ pc = "call" /\ sink = "mongo" /\ mode = "merge" /\ Keyless
    /\ Ends("failed")
    /\ UNCHANGED <<Input, at, batch, call, staged, World, done, lost, counted>>

(* The answer was lost or a 5xx: the request has done its work, in part     *)
(* where an API takes rows one by one, has not, or does it later (a load    *)
(* job runs on). Snowflake takes the repeat for the same statement.         *)
Unanswered ==
    \/ UNCHANGED World
    \/ /\ \E S \in IF sink \in Apis \/ sink = "mongo" THEN SUBSET ToSet(call)
                   ELSE {ToSet(call)} :
            table' = Loaded(S) /\ applied' = applied \cup S
       /\ UNCHANGED <<late, wiped>>
    \/ /\ sink \in {"bigquery", "clickhouse"}
       /\ late' = late \cup {[rows |-> ToSet(call), truncates |-> Truncates]}
       /\ wiped' = (wiped \/ Truncates)
       /\ UNCHANGED <<table, applied>>

\* Mutant: a repeat is a request of its own.
SameRequestNever == FALSE
(* request_id: the repeat is the same statement to Snowflake.               *)
SameRequest == sink = "snowflake"

CallRepeats ==
    /\ pc = "call" /\ Repeats /\ ~SameRequest /\ lost < Retries
    /\ Unanswered
    /\ lost' = lost + 1
    /\ UNCHANGED <<Input, at, batch, call, staged, done, counted, pc, said>>

(* The statement is refused, or the last repeat has no answer either.       *)
CallFails ==
    /\ pc = "call"
    /\ IF mode = "merge" THEN sink = "sqlserver" /\ UNCHANGED World ELSE Unanswered
    /\ Ends("failed")
    /\ UNCHANGED <<Input, at, batch, call, staged, done, lost, counted>>

(* A request whose answer was lost takes effect after all.                  *)
LateLands ==
    /\ \E job \in late :
        /\ table' = IF job.truncates THEN WithTruncated(job.rows) ELSE With(job.rows)
        /\ applied' = applied \cup job.rows
        /\ late' = late \ {job}
    /\ UNCHANGED <<Input, at, batch, call, staged, wiped, done, lost, counted, pc, said>>

-----------------------------------------------------------------------------
(* SQL Server: everything is staged, then one MERGE                         *)

Merge ==
    /\ pc = "merge"
    /\ table' = Merged(Winners(staged))
    /\ applied' = applied \cup staged
    /\ staged' = {}
    /\ Ends("ok")
    /\ UNCHANGED <<Input, at, batch, call, late, wiped, done, lost, counted>>

(* The server refuses the statement, or its answer does not come in time.   *)
MergeFails ==
    /\ pc = "merge"
    /\ table' \in {table, Merged(Winners(staged))}
    /\ staged' = {}
    /\ Ends("unmerged")
    /\ UNCHANGED <<Input, at, batch, call, applied, late, wiped, done, lost, counted>>

-----------------------------------------------------------------------------
Ended == pc = "ended" /\ UNCHANGED vars

Step ==
    \/ Truncate \/ TruncateRepeats \/ TruncateFails
    \/ InputFails \/ RowRefused
    \/ LoadBigquery \/ InsertClickhouse \/ InsertSnowflake \/ InsertSqlserver
    \/ WriteMongo \/ WriteRest \/ WriteGraphql \/ ReadEnd \/ Succeed
    \/ RunLoad \/ ExecuteSnowflake \/ ExecuteClickhouse \/ ExecuteSqlserver
    \/ InsertMongo \/ PostBatch \/ PostMutation
    \/ Stage \/ Upsert \/ MongoRefuses \/ KeylessRow
    \/ CallRepeats \/ CallFails
    \/ Merge \/ MergeFails

Next == Step \/ LateLands \/ Ended

(* Every request has a timeout and a bounded number of repeats.             *)
Spec == Init /\ [][Next]_vars /\ WF_vars(Step)

-----------------------------------------------------------------------------
Held == {r \in Rows : table[r] > 0}

TypeOK ==
    /\ Settings /\ at \in 0 .. RowCount
    /\ Len(batch) <= BatchLimit /\ Len(call) <= BatchLimit
    /\ table \in [0 .. RowCount -> 0 .. Retries + 1]
    /\ applied \subseteq Rows /\ staged \subseteq Rows
    /\ counted \in 0 .. RowCount /\ lost \in 0 .. Retries
    /\ pc \in {"truncate", "read", "call", "merge", "ended"}
    /\ said.how \in {"nothing", "plain", "ok", "failed", "unmerged"}

(* A sink that ends well has written every row: appended to what was there, *)
(* in place of what was there, or, with keys, the last row of each key once *)
(* and no row it replaced (of a MongoDB batch, any one row of each key).    *)
(* Excepted is a truncate that was repeated, which may still empty it.      *)
LoadedAll ==
    said.how = "ok" /\ ~wiped =>
        /\ said.count = RowCount
        /\ mode # "merge" => Held = Rows
        /\ mode = "append" => table[0] = 1
        /\ mode = "truncate" => table[0] = 0
        /\ mode = "merge" /\ sink = "sqlserver" => Held = Winners(Rows)
        /\ mode = "merge" /\ sink = "mongo" => Held \in OnePerKey(Rows)
        /\ mode = "merge" => (table[0] = 0 <=> \E r \in Rows : keys[r] = "a")

(* "N row(s) had been inserted ... before this, and stay": what a failure   *)
(* claims is in the table, or was until a later row of its key replaced it. *)
NeverOverclaims ==
    said.how = "failed" /\ ~wiped =>
        \/ sink = "sqlserver" /\ mode = "merge"
        \/ said.count <= Cardinality(IF mode = "merge" THEN applied ELSE Held)

(* With key columns SQL Server's table is never half written: it holds what *)
(* it held, or all the rows merged, whatever fails on the way.              *)
MergeIsWhole ==
    sink = "sqlserver" /\ mode = "merge" =>
        table \in {[Empty EXCEPT ![0] = 1],
                   [r \in 0 .. RowCount |->
                      IF r \in Winners(Rows) THEN 1
                      ELSE IF r = 0 /\ ~(\E s \in Rows : keys[s] = "a") THEN 1 ELSE 0]}

(* Only a request that a table or an API may take for a new one writes a    *)
(* row twice: Snowflake's request IDs and a connection that is not repeated *)
(* write it once.                                                           *)
WrittenOnce ==
    sink \in {"snowflake", "sqlserver", "mongo"} => \A r \in 0 .. RowCount : table[r] <= 1

(* Every load comes to this.                                                *)
Over == pc = "ended"
=============================================================================
