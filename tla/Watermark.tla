------------------------------ MODULE Watermark ------------------------------
(* Reading only what is new from a warehouse, a database or a collection    *)
(* (BigQuery, Snowflake, ClickHouse, SQL Server and MongoDB in              *)
(* crates/connectors): each run selects the rows whose incremental column   *)
(* is above the highest value the last successful run read, in the order of *)
(* that column, and the executor saves the highest value it read when the   *)
(* run succeeds. The position is a value, not a row: rows that share it,    *)
(* rows without one and a node whose settings change are what can go wrong. *)
EXTENDS Integers, FiniteSets, FiniteSetsExt

CONSTANTS
    MaxRows,    \* rows ever loaded into the table
    MaxCap,     \* max_records, when it is set
    StartAt     \* start, when it is set: the literal rows must lie above

VARIABLES
    source,
    incremental, \* whether incremental_column is set
    cap,         \* max_records; 0 when it is not set
    start,       \* whether start is set
    what,        \* the table or query, and the column, the node names
    value,       \* the incremental column of each row of the table
    saved,       \* the position in the state store
    delivered,   \* rows the successful runs of each read delivered
    twice,       \* a row was delivered again by a run that had a position
    cut,         \* reads whose cap fell between rows of one value
    mute,        \* reads that saved a position nothing lies above
    pc,
    present,     \* rows of the table when the statement ran
    todo         \* rows the statement selected

vars == <<source, incremental, cap, start, what, value, saved, delivered, twice, cut,
          mute, pc, present, todo>>

Sources == {"bigquery", "snowflake", "clickhouse", "sqlserver", "mongo"}
Reads == {"x", "y"}
Null == 0
None == [what |-> "none", value |-> Null]
Loaded == DOMAIN value
Valued(S) == {r \in S : value[r] # Null}

(* SourceSettings of the five: max_records is optional, and start goes with *)
(* an incremental column.                                                   *)
Asks ==
    /\ incremental \in BOOLEAN /\ cap \in {0, MaxCap}
    /\ start \in IF incremental THEN BOOLEAN ELSE {FALSE}
BigquerySettings == source = "bigquery" /\ Asks
SnowflakeSettings == source = "snowflake" /\ Asks
ClickhouseSettings == source = "clickhouse" /\ Asks
SqlserverSettings == source = "sqlserver" /\ Asks
MongoSettings == source = "mongo" /\ Asks

Init ==
    /\ \/ BigquerySettings \/ SnowflakeSettings \/ ClickhouseSettings
       \/ SqlserverSettings \/ MongoSettings
    /\ what = "x"
    /\ value = [r \in {} |-> Null]
    /\ saved = None /\ delivered = [w \in Reads |-> {}]
    /\ twice = FALSE /\ cut = {} /\ mute = {}
    /\ pc = "idle" /\ present = {} /\ todo = {}

Settings == <<source, incremental, cap, start>>
Ghosts == <<delivered, twice, cut, mute>>

-----------------------------------------------------------------------------
(* The world                                                                *)

Highest == IF Loaded = {} THEN Null ELSE Max({value[r] : r \in Loaded})

(* One load adds rows, some of them without a value, the others with one    *)
(* value above every earlier one: "it must only ever go up".                *)
Load(n, v) ==
    /\ Cardinality(Loaded) + n <= MaxRows
    /\ v = Null \/ v = Highest + 1
    /\ value' = [r \in 1 .. Cardinality(Loaded) + n |-> IF r \in Loaded THEN value[r] ELSE v]
    /\ UNCHANGED <<Settings, what, saved, Ghosts, pc, present, todo>>

(* The node is pointed at another table, query or column between runs.      *)
Retarget ==
    /\ pc = "idle"
    /\ what' \in Reads \ {what}
    /\ UNCHANGED <<Settings, value, saved, Ghosts, pc, present, todo>>

(* etl state forget.                                                        *)
Forget ==
    /\ pc = "idle" /\ saved # None
    /\ saved' = None
    /\ delivered' = [delivered EXCEPT ![saved.what] = {}]
    /\ cut' = cut \ {saved.what} /\ mute' = mute \ {saved.what}
    /\ UNCHANGED <<Settings, what, value, twice, pc, present, todo>>

-----------------------------------------------------------------------------
(* One run                                                                  *)

\* Mutant: a position saved for another table or column is taken for this one.
MineAnyway == saved # None

(* The saved position is this read's own, or is set aside.                  *)
Mine == saved # None /\ saved.what = what

\* Mutant: the row the last run ended with is selected again.
AboveOrAt(v) == {r \in Valued(Loaded) : value[r] >= v}
Above(v) == {r \in Valued(Loaded) : value[r] > v}

(* statement: what a run selects; first is what a first run without start   *)
(* takes.                                                                   *)
Selects(first) ==
    IF ~incremental THEN Loaded
    ELSE IF Mine THEN Above(saved.value)
    ELSE IF start THEN Above(StartAt)
    ELSE first

(* IS NOT NULL, except in ClickHouse's first statement.                     *)
BigqueryStatement == Selects(Valued(Loaded))
SnowflakeStatement == Selects(Valued(Loaded))
SqlserverStatement == Selects(Valued(Loaded))
ClickhouseStatement == Selects(Loaded)

(* resume_from: MongoDB's first run takes documents that hold a null, and   *)
(* nothing is above a null that was saved.                                  *)
ResumeFrom == IF incremental /\ Mine /\ saved.value = Null THEN {} ELSE Selects(Loaded)

Start(selected) ==
    /\ pc = "idle"
    /\ pc' = "reading"
    /\ present' = Loaded /\ todo' = selected
    /\ UNCHANGED <<Settings, what, value, saved, Ghosts>>

ReadBigquery == source = "bigquery" /\ Start(BigqueryStatement)
ReadSnowflake == source = "snowflake" /\ Start(SnowflakeStatement)
ReadClickhouse == source = "clickhouse" /\ Start(ClickhouseStatement)
ReadSqlserver == source = "sqlserver" /\ Start(SqlserverStatement)
ReadMongo == source = "mongo" /\ Start(ResumeFrom)

(* ORDER BY: nulls come last in ClickHouse and first in MongoDB.            *)
Rank(r) == IF value[r] = Null /\ source = "clickhouse" THEN MaxRows + 1 ELSE value[r]

(* The rows that come before the cap, ties in any order.                    *)
Prefixes ==
    {S \in SUBSET todo :
        /\ Cardinality(S) = IF cap = 0 \/ cap > Cardinality(todo) THEN Cardinality(todo) ELSE cap
        /\ incremental => \A r \in S, s \in todo \ S : Rank(r) <= Rank(s)}

\* Mutant: the position is the highest value selected, not the highest read.
LastSelected(S) == Max({Rank(r) : r \in todo})
LastOf(S) == Max({Rank(r) : r \in S})

(* The highest value read becomes the position, unless nothing was read or  *)
(* the last row holds no value; MongoDB saves a null as it is.              *)
Checkpoint(S) ==
    IF ~incremental \/ S = {} \/ LastOf(S) > MaxRows THEN saved
    ELSE [what |-> what, value |-> LastOf(S)]

(* The run succeeds, and what the read reported is saved.                   *)
Finish ==
    /\ pc = "reading"
    /\ \E S \in Prefixes :
        /\ saved' = Checkpoint(S)
        /\ delivered' = [delivered EXCEPT ![what] = IF Mine THEN @ \cup S ELSE S]
        /\ twice' = (twice \/ (Mine /\ S \cap delivered[what] # {}))
        /\ cut' = IF incremental /\ \E r \in S, s \in Valued(todo \ S) : value[r] = value[s]
                  THEN cut \cup {what} ELSE IF Mine THEN cut ELSE cut \ {what}
        /\ mute' = IF saved' # saved /\ saved'.value = Null
                   THEN mute \cup {what} ELSE IF Mine THEN mute ELSE mute \ {what}
    /\ pc' = "idle" /\ present' = {} /\ todo' = {}
    /\ UNCHANGED <<Settings, what, value>>

(* The statement, a page, a partition or a later stage fails: nothing is    *)
(* saved and what was written goes with the run.                            *)
Fail ==
    /\ pc = "reading"
    /\ pc' = "idle" /\ present' = {} /\ todo' = {}
    /\ UNCHANGED <<Settings, what, value, saved, Ghosts>>

Next ==
    \/ \E n \in 1 .. 2, v \in 0 .. MaxRows : Load(n, v)
    \/ Retarget \/ Forget
    \/ ReadBigquery \/ ReadSnowflake \/ ReadClickhouse \/ ReadSqlserver \/ ReadMongo
    \/ Finish \/ Fail

Spec == Init /\ [][Next]_vars

-----------------------------------------------------------------------------
TypeOK ==
    /\ source \in Sources /\ incremental \in BOOLEAN /\ what \in Reads
    /\ Loaded \subseteq 1 .. MaxRows
    /\ saved = None \/ (saved.what \in Reads /\ saved.value \in 0 .. MaxRows)
    /\ todo \subseteq present /\ present \subseteq Loaded
    /\ pc \in {"idle", "reading"}

Wanted(r) == value[r] # Null /\ (start => value[r] > StartAt)

Unread == {r \in Loaded : Wanted(r) /\ r \notin delivered[saved.what]}

(* The position of a read never lies past a row it did not deliver, through *)
(* failures, caps, changed settings and rows without a value. Excepted is a *)
(* cap that fell between rows of one value.                                 *)
SkipsNothing ==
    saved # None /\ saved.what \notin cut => \A r \in Unread : value[r] > saved.value

(* A run that goes on from its own position delivers nothing again.         *)
ReadsOnce == incremental => ~twice

(* An uncapped run that succeeds has delivered every row that was there.    *)
(* Excepted are a cap before it that fell between rows of one value, and a  *)
(* null that MongoDB saved.                                                 *)
CatchesUpStep ==
    pc = "reading" /\ pc' = "idle" /\ delivered' # delivered
      /\ cap = 0 /\ what \notin cut' \cup mute' =>
        \A r \in present : Wanted(r) => r \in delivered'[what]
CatchesUp == [][CatchesUpStep]_vars

(* "max_records with it reads the oldest new documents first and the next   *)
(* run carries on" (docs/connectors.md, of MongoDB): stopping at the cap    *)
(* loses no document.                                                       *)
NextRunCarriesOn ==
    source = "mongo" /\ saved # None => \A r \in Unread : value[r] > saved.value
=============================================================================
