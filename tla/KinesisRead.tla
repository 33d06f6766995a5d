---------------------------- MODULE KinesisRead ----------------------------
(***************************************************************************)
(* `src.stream.kinesis`, run after run: crates/connectors/src/kinesis.rs.  *)
(* Shards are read in turns until they are caught up, ended or             *)
(* max_records is reached; a child is read only when its parents are       *)
(* finished, and what a run leaves unread has to be found by the next one. *)
(*                                                                         *)
(* A record is its number in its shard, counted from 1.  A shard iterator  *)
(* is the number of the next record it returns.  A time is what every      *)
(* shard held then: Since(n) stands for "arriving after the first n".      *)
(***************************************************************************)
EXTENDS Integers, FiniteSets, Sequences, FiniteSetsExt, SequencesExt

CONSTANTS
    ShardCount,   \* bound: shards the stream ever has
    MaxRecords,   \* max_records
    MaxSequence   \* bound: records that the stream ever gets

Shards == 1 .. ShardCount

VARIABLES
    setting,    \* [start, onExpired]
    shards,     \* shards[s]: [count, first, closed, parents] of those listed
    born,       \* shards that ever existed
    puts,       \* records that were ever put
    saved,      \* the checkpoint: position by shard, or NoPosition
    landed,     \* the records <<s, i>> of runs that succeeded
    base,       \* base[s]: records of s from before its reading began
    missed,     \* records that expired where nothing could tell: under a run,
                \* or before anything of their shard was read
    pc,         \* where the run is
    started,    \* started[s]: what s held when the run started
    listed,     \* listed[s]: the parents of s, as ListShards answered
    position,   \* position[s]: where the reading of s got to
    opened,     \* opened[s]: how the reading of s began in this run
    iter,       \* iter[s]: the iterator of s; 0 is none
    turn,       \* the shards still to read from in this round
    still,      \* those of this round that have more
    rows,       \* the records written in this run
    fallen      \* records that on_expired: continue gave up in this run

world == <<setting, shards, born, puts>>
memory == <<saved, landed, base, missed>>
run == <<started, listed, position, opened, iter, turn, still, rows, fallen>>
vars == <<world, memory, pc, run>>

NoPosition == [s \in {} |-> 0]
New(parents) == [count |-> 0, first |-> 1, closed |-> FALSE, parents |-> parents]

(* ShardPosition.                                                          *)
After(i) == [kind |-> "after", at |-> i]
Since(i) == [kind |-> "since", at |-> i]
Done == [kind |-> "done", at |-> 0]
Start == [kind |-> "start", at |-> 0]

With(f, x, v) == [y \in DOMAIN f \cup {x} |-> IF y = x THEN v ELSE f[y]]

Init ==
    /\ setting \in [start : {"earliest", "latest"}, onExpired : {"fail", "continue"}]
    /\ shards = [s \in {1, 2} |-> New({})]
    /\ born = {1, 2} /\ puts = 0
    /\ saved = NoPosition /\ landed = {} /\ missed = {}
    /\ base = [s \in Shards |-> 0]
    /\ pc = "idle"
    /\ started = <<>> /\ listed = <<>> /\ position = <<>> /\ opened = <<>>
    /\ iter = <<>> /\ turn = <<>> /\ still = <<>> /\ rows = {} /\ fallen = {}

Over ==
    /\ pc' = "idle"
    /\ started' = <<>> /\ listed' = <<>> /\ position' = <<>> /\ opened' = <<>>
    /\ iter' = <<>> /\ turn' = <<>> /\ still' = <<>> /\ rows' = {} /\ fallen' = {}

-----------------------------------------------------------------------------
(* The stream.                                                             *)

Put(s) ==
    /\ ~shards[s].closed /\ puts < MaxSequence
    /\ puts' = puts + 1
    /\ shards' = [shards EXCEPT ![s].count = @ + 1]
    /\ UNCHANGED <<setting, born, memory, pc, run>>

Expire(s) ==
    /\ shards[s].first <= shards[s].count
    /\ shards' = [shards EXCEPT ![s].first = @ + 1]
    /\ missed' = IF pc = "idle" /\ s \in DOMAIN saved /\ saved[s].kind = "after"
                 THEN missed ELSE missed \cup {<<s, shards[s].first>>}
    /\ UNCHANGED <<setting, born, puts, saved, landed, base, pc, run>>

(* A split closes one shard, a merge two; the next shard is their child.   *)
Reshard(parents) ==
    /\ \A s \in parents : ~shards[s].closed
    /\ \E child \in Shards \ born :
        /\ child = Max(born) + 1
        /\ born' = born \cup {child}
        /\ shards' = [s \in DOMAIN shards \cup {child} |->
                        IF s = child THEN New(parents)
                        ELSE [shards[s] EXCEPT !.closed = @ \/ s \in parents]]
    /\ UNCHANGED <<setting, puts, memory, pc, run>>

(* A closed shard whose records have all expired is listed no more.        *)
AgeOut(s) ==
    /\ shards[s].closed /\ shards[s].first > shards[s].count
    /\ shards' = [t \in DOMAIN shards \ {s} |-> shards[t]]
    /\ UNCHANGED <<setting, born, puts, memory, pc, run>>

-----------------------------------------------------------------------------
(* read_batch.                                                             *)

Begin ==
    /\ pc = "idle"
    /\ pc' = "listing"
    /\ started' = [s \in Shards |-> IF s \in DOMAIN shards THEN shards[s].count ELSE 0]
    /\ position' = saved
    /\ UNCHANGED <<world, memory, listed, opened, iter, turn, still, rows, fallen>>

ListShards ==
    /\ pc = "listing"
    /\ pc' = "opening"
    /\ listed' = [s \in DOMAIN shards |-> shards[s].parents]
    /\ UNCHANGED <<world, memory, started, position, opened, iter, turn, still, rows, fallen>>

FirstRun == saved = NoPosition

(* readable: not done, and every parent is.                                *)
Finished(s) == s \notin DOMAIN listed \/ (s \in DOMAIN position /\ position[s] = Done)

\* Mutant: a child is read before its parents have ended.
ReadableAny == {s \in DOMAIN listed : ~Finished(s)}

ReadableShards ==
    {s \in DOMAIN listed : ~Finished(s) /\ \A p \in listed[s] : Finished(p)}

ToOpen == ReadableShards \ DOMAIN opened

(* still_held: the record read last is still in the shard.                 *)
StillHeld(s) ==
    s \in DOMAIN position /\ position[s].kind = "after" => position[s].at >= shards[s].first

(* open_iterator: where the reading of s begins, and how.                  *)
Continued(s) == s \in DOMAIN position /\ position[s] # Start

FromNow(s) == s \notin DOMAIN position /\ FirstRun /\ setting.start = "latest"

How(s) ==
    IF Continued(s) /\ StillHeld(s) THEN "continuing"
    ELSE IF FromNow(s) THEN "now"
    ELSE "start"

IteratorOf(s) ==
    IF How(s) = "continuing" THEN position[s].at + 1
    ELSE IF How(s) = "now" THEN shards[s].count + 1
    ELSE shards[s].first

(* A shard that is gone since it was listed is an error: see ReadFails.    *)
OpenIterator(s) ==
    /\ pc = "opening" /\ s \in ToOpen /\ \A t \in ToOpen : s <= t
    /\ s \in DOMAIN shards
    /\ StillHeld(s) \/ setting.onExpired = "continue"
    /\ iter' = With(iter, s, IteratorOf(s))
    /\ opened' = With(opened, s, How(s))
    /\ turn' = Append(turn, s)
    /\ fallen' = IF StillHeld(s) THEN fallen
                 ELSE fallen \cup ({s} \X (position[s].at + 1 .. shards[s].first - 1))
    /\ UNCHANGED <<world, memory, pc, started, listed, position, still, rows>>

OpenFails(s) ==
    /\ pc = "opening" /\ s \in ToOpen /\ s \in DOMAIN shards
    /\ ~StillHeld(s) /\ setting.onExpired = "fail"
    /\ Over
    /\ UNCHANGED <<world, memory>>

AllOpened ==
    /\ pc = "opening" /\ ToOpen = {}
    /\ pc' = IF turn = <<>> THEN "read" ELSE "reading"
    /\ UNCHANGED <<world, memory, run>>

(* One GetRecords: some of the records there are, no more than the cap     *)
(* leaves.  A closed shard read to its end is done; an open one that is    *)
(* caught up is left for the next run.                                     *)
Limit == MaxRecords - Cardinality(rows)

GoOn(stays, s) ==
    LET more == IF stays THEN Append(still, s) ELSE still
    IN  /\ turn' = IF Len(turn) = 1 THEN more ELSE Tail(turn)
        /\ still' = IF Len(turn) = 1 THEN <<>> ELSE more
        /\ pc' = IF Len(turn) = 1 /\ more = <<>> THEN "opening" ELSE pc

GetRecords(s) ==
    /\ pc = "reading" /\ Limit > 0 /\ s = Head(turn)
    /\ s \in DOMAIN shards
    /\ LET from == Max({iter[s], shards[s].first})
       IN  \E upTo \in from - 1 .. Min({shards[s].count, from + Limit - 1}) :
             LET ended == shards[s].closed /\ upTo >= shards[s].count
                 caughtUp == upTo >= shards[s].count /\ upTo - from + 1 < Limit
             IN  /\ rows' = rows \cup ({s} \X (from .. upTo))
                 /\ position' = IF ended THEN With(position, s, Done)
                                ELSE IF upTo >= from THEN With(position, s, After(upTo))
                                ELSE position
                 /\ iter' = With(iter, s, IF ended THEN 0 ELSE Max({iter[s], upTo + 1}))
                 /\ GoOn(~ended /\ ~caughtUp, s)
    /\ UNCHANGED <<world, memory, started, listed, opened, fallen>>

Capped ==
    /\ pc = "reading" /\ Limit = 0
    /\ pc' = "read"
    /\ UNCHANGED <<world, memory, run>>

(* A record that was answered does not decode.                             *)
RowFails ==
    /\ pc = "reading" /\ Limit > 0 /\ turn # <<>>
    /\ Over
    /\ UNCHANGED <<world, memory>>

(* A call fails, or a listed shard is gone.                                *)
ReadFails ==
    /\ pc \in {"listing", "opening", "reading"}
    /\ Over
    /\ UNCHANGED <<world, memory>>

-----------------------------------------------------------------------------
(* A shard that was opened and gave nothing still says where to begin.     *)
\* Mutant: a shard opened from its start and not read is kept as starting now.
LeftUnreadNow(s) == Since(started[s])

LeftUnread(s) == IF opened[s] = "now" THEN Since(started[s]) ELSE Start

Checkpoint ==
    [s \in DOMAIN position \cup DOMAIN opened |->
        IF s \in DOMAIN position THEN position[s] ELSE LeftUnread(s)]

(* The engine keeps the checkpoint of a run that succeeds.                 *)
RunSucceeds ==
    /\ pc = "read"
    /\ saved' = Checkpoint
    /\ landed' = landed \cup rows
    /\ missed' = missed \cup fallen
    /\ base' = [s \in Shards |->
                  IF s \notin DOMAIN opened \/ opened[s] # "now" THEN base[s]
                  ELSE IF \E i \in 1 .. MaxSequence : <<s, i>> \in rows
                       THEN Min({i \in 1 .. MaxSequence : <<s, i>> \in rows}) - 1
                  ELSE IF Checkpoint[s] = Done THEN MaxSequence
                  ELSE started[s]]
    /\ Over
    /\ UNCHANGED world

RunFails == pc = "read" /\ Over /\ UNCHANGED <<world, memory>>

Forget ==
    /\ pc = "idle" /\ saved # NoPosition
    /\ saved' = NoPosition
    /\ landed' = {} /\ missed' = {}
    /\ base' = [s \in Shards |-> IF s \in DOMAIN shards THEN shards[s].first - 1 ELSE 0]
    /\ UNCHANGED <<world, pc, run>>

Stream ==
    \/ \E s \in DOMAIN shards : Put(s) \/ Expire(s) \/ AgeOut(s)
    \/ \E s \in DOMAIN shards : \E t \in DOMAIN shards : Reshard({s, t})

Run ==
    \/ Begin \/ ListShards
    \/ \E s \in DOMAIN listed : OpenIterator(s) \/ OpenFails(s) \/ GetRecords(s)
    \/ AllOpened \/ Capped
    \/ RunSucceeds

Next == Stream \/ Run \/ ReadFails \/ RowFails \/ RunFails \/ Forget

Spec == Init /\ [][Next]_vars

-----------------------------------------------------------------------------
TypeOK ==
    /\ DOMAIN shards \subseteq born
    /\ \A s \in DOMAIN shards :
        /\ shards[s].count \in 0 .. MaxSequence
        /\ shards[s].first \in 1 .. shards[s].count + 1
    /\ DOMAIN saved \subseteq born /\ DOMAIN opened \subseteq DOMAIN listed
    /\ landed \cup rows \subseteq born \X (1 .. MaxSequence)
    /\ Cardinality(rows) <= MaxRecords
    /\ Range(turn) \cup Range(still) \subseteq DOMAIN opened
    /\ pc \in {"idle", "listing", "opening", "reading", "read"}

(* The next run still comes to record i of shard s: from its position, or  *)
(* from its start when it has none.                                        *)
StillToRead(s, i) ==
    s \in DOMAIN saved => saved[s] # Done /\ i > saved[s].at

(* Once a run has succeeded, every record a shard holds that is not from   *)
(* before its reading began has been delivered, is ahead of the next run,  *)
(* or expired where nothing could tell, or where on_expired: continue      *)
(* says so; whatever was split, capped or left unopened.                   *)
SkipsNothing ==
    saved # NoPosition =>
        \A s \in DOMAIN shards : \A i \in base[s] + 1 .. shards[s].count :
            \/ <<s, i>> \in landed \cup missed
            \/ StillToRead(s, i)

(* "A child shard is read only after its parents are finished, so a        *)
(* partition key's records stay in order across resharding": when a record *)
(* of a child is written, no held record of a parent is still to come.     *)
ParentsFirst ==
    \A s \in DOMAIN listed :
        (\E i \in 1 .. MaxSequence : <<s, i>> \in rows) =>
            \A p \in listed[s] \cap DOMAIN shards :
                \A i \in Max({shards[p].first, base[p] + 1}) .. shards[p].count :
                    \/ <<p, i>> \in landed \cup rows \cup missed
                    \/ p \in DOMAIN opened /\ opened[p] = "now"
=============================================================================
