----------------------------- MODULE QueueHold -----------------------------
(***************************************************************************)
(* The queue sources: crates/connectors, sqs.rs, pubsub.rs, rabbitmq.rs    *)
(* and lease.rs.  A run receives messages, holds them under a receipt      *)
(* while a keeper thread extends the hold, and settles the receipt once    *)
(* the run's outcome is known: acknowledged, or released.                  *)
(*                                                                         *)
(* The broker hides a message for a number of ticks.  Who received it last *)
(* can delete it; whoever finds it visible receives it next.  Whole rows,  *)
(* formats and the text of the reports are left out.                       *)
(***************************************************************************)
EXTENDS Integers, FiniteSets

CONSTANTS
    Messages,    \* what is in the queue when the run starts
    Brokers,     \* a subset of {"sqs", "pubsub", "rabbitmq"}
    MaxRecords,  \* max_records
    Batch,       \* the most that one call takes
    Hold,        \* visibility_seconds or ack_deadline_seconds, in ticks
    Short,       \* the Pub/Sub subscription's own deadline
    CallTime,    \* bound: ticks that a batch, or a round of the keeper, takes
    MaxTrouble   \* bound: calls that fail, and channels that are closed

ASSUME BrokerAssumption == Brokers \subseteq {"sqs", "pubsub", "rabbitmq"}
ASSUME MessagesAssumption == IsFiniteSet(Messages)

(* A message received behind the keeper's back waits out the rest of its   *)
(* own batch, the round under way, a period, and the next round.           *)
ASSUME HoldAssumption ==
    /\ {MaxRecords, Batch} \subseteq Nat \ {0}
    /\ {Hold, Short, CallTime, MaxTrouble} \subseteq Nat
    /\ 3 * CallTime + Hold \div 2 < Hold
    /\ CallTime < Short /\ Short <= Hold

VARIABLES
    broker,   \* which of the brokers this is
    at,       \* at[m]: "queue" (visible), "hidden" or "gone"
    to,       \* to[m]: who received it last: "nobody", "run" or "other"
    left,     \* left[m]: ticks that it stays hidden from others
    channel,  \* RabbitMQ: whether the channel is open
    trouble,  \* failures so far
    phase,    \* the run: "receiving", "pulled", "writing", "holding",
              \* "stopping", "settling", "ended" or "killed"
    batch,    \* messages of the last answer still to be held or written
    lag,      \* ticks since that answer
    held,     \* the receipt's handles
    written,  \* messages whose rows were written
    ack,      \* whether the receipt is being acknowledged
    rest,     \* held messages still to be settled
    refused,  \* whether the broker refused one of them
    outcome,  \* what settle returned: "none", "ok" or "error"
    keeper,   \* the thread: "none", "waiting", "extending" or "stopped"
    timer,    \* ticks until its next round, or that this one has taken
    todo,     \* messages still to be extended in this round
    noted,    \* whether an extension failed, Keeper::trouble
    deleted,  \* messages that this run deleted
    taken     \* held messages that somebody else received meanwhile

brokerVars == <<at, to, left, channel>>
runVars == <<phase, batch, lag, held, written, ack, rest, refused, outcome>>
keeperVars == <<keeper, timer, todo, noted>>
vars == <<broker, brokerVars, trouble, runVars, keeperVars, deleted, taken>>

Leased == broker # "rabbitmq"
Ours(m) == at[m] = "hidden" /\ to[m] = "run"
Visible == {m \in Messages : at[m] = "queue"}
Fails == trouble < MaxTrouble /\ trouble' = trouble + 1

\* Mutant: a round for every period, not for every half of it.
WholePeriod == Hold

Period == Hold \div 2

Init ==
    /\ broker \in Brokers
    /\ at = [m \in Messages |-> "queue"]
    /\ to = [m \in Messages |-> "nobody"]
    /\ left = [m \in Messages |-> 0]
    /\ channel = TRUE
    /\ trouble = 0
    /\ phase = "receiving"
    /\ batch = {}
    /\ lag = 0
    /\ held = {}
    /\ written = {}
    /\ ack = FALSE
    /\ rest = {}
    /\ refused = FALSE
    /\ outcome = "none"
    /\ keeper = IF broker = "rabbitmq" THEN "none" ELSE "waiting"
    /\ timer = IF broker = "rabbitmq" THEN 0 ELSE Period
    /\ todo = {}
    /\ noted = FALSE
    /\ deleted = {}
    /\ taken = {}

-----------------------------------------------------------------------------
(* What a call does at the broker.                                         *)

Hide(S, ticks) ==
    /\ at' = [m \in Messages |-> IF m \in S THEN "hidden" ELSE at[m]]
    /\ to' = [m \in Messages |-> IF m \in S THEN "run" ELSE to[m]]
    /\ left' = [m \in Messages |-> IF m \in S THEN ticks ELSE left[m]]

(* A hold is extended as long as it has not lapsed.                        *)
Extend(S, ticks) ==
    left' = [m \in Messages |-> IF m \in S /\ Ours(m) THEN ticks ELSE left[m]]

GiveBack(S) ==
    /\ at' = [m \in Messages |-> IF m \in S /\ Ours(m) THEN "queue" ELSE at[m]]
    /\ left' = [m \in Messages |-> IF m \in S /\ Ours(m) THEN 0 ELSE left[m]]

(* The last receiver's handle deletes, whether the hold has lapsed or not. *)
Delete(S) ==
    LET mine == {m \in S : to[m] = "run" /\ at[m] # "gone"}
    IN  /\ at' = [m \in Messages |-> IF m \in mine THEN "gone" ELSE at[m]]
        /\ left' = [m \in Messages |-> IF m \in mine THEN 0 ELSE left[m]]
        /\ deleted' = deleted \cup mine

-----------------------------------------------------------------------------
(* receive.                                                                *)

Least(i, j) == IF i < j THEN i ELSE j

Want == IF Leased THEN Least(MaxRecords - Cardinality(held), Batch) ELSE 1

(* How long the broker hides what it hands out; RabbitMQ does so for as    *)
(* long as the channel is open.                                            *)
FirstHold == CASE broker = "sqs" -> Hold
               [] broker = "pubsub" -> Short
               [] broker = "rabbitmq" -> 0

(* Something failed, and the receipt is dropped.                           *)
Dropped == phase' = "stopping" /\ ack' = FALSE /\ batch' = {} /\ lag' = 0

(* ReceiveMessage, pull or basic.get is answered.  A message that comes a  *)
(* second time, its hold having lapsed, counts once.  Pub/Sub's are held   *)
(* at once, before anything is done with them.                             *)
Pull(S) ==
    /\ phase = "receiving"
    /\ Cardinality(held) < MaxRecords
    /\ channel
    /\ S \subseteq Visible /\ S # {} /\ Cardinality(S) <= Want
    /\ Hide(S, FirstHold)
    /\ batch' = S
    /\ lag' = 0
    /\ held' = IF broker = "pubsub" THEN held \cup S ELSE held
    /\ phase' = IF broker = "pubsub" THEN "pulled" ELSE "writing"
    /\ UNCHANGED <<broker, channel, trouble, written, ack, rest, refused, outcome,
                   keeperVars, deleted, taken>>

(* The call fails, although the broker may have handed messages out.       *)
PullFails(S) ==
    /\ phase = "receiving"
    /\ Cardinality(held) < MaxRecords
    /\ S \subseteq Visible /\ Cardinality(S) <= Want
    /\ S # {} => channel
    /\ IF channel THEN Fails ELSE UNCHANGED trouble
    /\ Hide(S, FirstHold)
    /\ Dropped
    /\ UNCHANGED <<broker, channel, held, written, rest, refused, outcome, keeperVars,
                   deleted, taken>>

(* modify_deadline: from the subscription's deadline to ours.              *)
ExtendPulled ==
    /\ phase = "pulled"
    /\ Extend(batch, Hold)
    /\ phase' = "writing"
    /\ UNCHANGED <<broker, at, to, channel, trouble, batch, lag, held, written,
                   ack, rest, refused, outcome, keeperVars, deleted, taken>>

ExtendPulledFails ==
    /\ phase = "pulled"
    /\ Fails
    /\ Dropped
    /\ UNCHANGED <<broker, brokerVars, held, written, rest, refused, outcome, keeperVars,
                   deleted, taken>>

(* A message is held, and then its row is written.                         *)
WriteRow(m) ==
    /\ phase = "writing"
    /\ m \in batch
    /\ held' = held \cup {m}
    /\ written' = written \cup {m}
    /\ batch' = batch \ {m}
    /\ UNCHANGED <<broker, brokerVars, trouble, phase, lag, ack, rest, refused,
                   outcome, keeperVars, deleted, taken>>

(* Its row does not decode, or cannot be written.                          *)
\* Mutant: such a row is passed over.
RowPassedOver(m) ==
    /\ phase = "writing"
    /\ m \in batch
    /\ held' = held \cup {m}
    /\ batch' = batch \ {m}
    /\ UNCHANGED <<broker, brokerVars, trouble, phase, lag, written, ack, rest,
                   refused, outcome, keeperVars, deleted, taken>>

RowFails(m) ==
    /\ phase = "writing"
    /\ m \in batch
    /\ held' = held \cup {m}
    /\ Dropped
    /\ UNCHANGED <<broker, brokerVars, trouble, written, rest, refused, outcome,
                   keeperVars, deleted, taken>>

NextCall ==
    /\ phase = "writing"
    /\ batch = {}
    /\ phase' = "receiving"
    /\ lag' = 0
    /\ UNCHANGED <<broker, brokerVars, trouble, batch, held, written, ack, rest,
                   refused, outcome, keeperVars, deleted, taken>>

(* Empty, at the cap, or waited long enough.                               *)
Received ==
    /\ phase = "receiving"
    /\ phase' = "holding"
    /\ UNCHANGED <<broker, brokerVars, trouble, batch, lag, held, written, ack,
                   rest, refused, outcome, keeperVars, deleted, taken>>

-----------------------------------------------------------------------------
(* The keeper's thread, lease.rs, and what it calls, as one batch call     *)
(* after another.                                                          *)

(* The next call takes Batch of them, or what there is; Pub/Sub's may be   *)
(* cut shorter, as its calls are limited in bytes too (id_chunks).         *)
Chunks(S) ==
    {C \in SUBSET S : /\ C # {}
                      /\ Cardinality(C) <= Batch
                      /\ broker = "sqs" =>
                            Cardinality(C) = Least(Batch, Cardinality(S))}

(* SQS answers with the entries that it refused: by a fault of its own,    *)
(* or because the handle is no longer the message's.                       *)
MayRefuse(C, failed, good) ==
    /\ failed \subseteq C
    /\ failed # {} => broker = "sqs"
    /\ IF failed \cap good # {} THEN Fails ELSE UNCHANGED trouble

KeeperWakes ==
    /\ keeper = "waiting"
    /\ timer = 0
    /\ keeper' = "extending"
    /\ todo' = held
    /\ UNCHANGED <<broker, brokerVars, trouble, runVars, timer, noted, deleted,
                   taken>>

KeeperExtends(C, failed) ==
    /\ keeper = "extending"
    /\ C \in Chunks(todo)
    /\ MayRefuse(C, failed, {m \in C : Ours(m)})
    /\ Extend(C \ failed, Hold)
    /\ todo' = todo \ C
    /\ noted' = (noted \/ failed # {})
    /\ UNCHANGED <<broker, at, to, channel, runVars, keeper, timer, deleted, taken>>

(* SQS's keeper goes on with the next call, Pub/Sub's gives the round up.  *)
KeeperCallFails(C, landed) ==
    /\ keeper = "extending"
    /\ C \in Chunks(todo)
    /\ landed \in {{}, C}
    /\ Fails
    /\ Extend(landed, Hold)
    /\ todo' = IF broker = "pubsub" THEN {} ELSE todo \ C
    /\ noted' = TRUE
    /\ UNCHANGED <<broker, at, to, channel, runVars, keeper, timer, deleted, taken>>

KeeperRests ==
    /\ keeper = "extending"
    /\ todo = {}
    /\ keeper' = "waiting"
    /\ timer' = Period
    /\ UNCHANGED <<broker, brokerVars, trouble, runVars, todo, noted, deleted, taken>>

(* The channel's other end is gone: the thread ends.                       *)
\* Mutant: only a message on the channel ends it.
KeeperDeaf == FALSE /\ UNCHANGED vars

KeeperStops ==
    /\ keeper = "waiting"
    /\ phase = "stopping"
    /\ keeper' = "stopped"
    /\ timer' = 0
    /\ UNCHANGED <<broker, brokerVars, trouble, runVars, todo, noted, deleted, taken>>

-----------------------------------------------------------------------------
(* settle: the keeper is stopped and waited for, then the handles go to    *)
(* the broker in batches.                                                  *)

(* The engine acknowledges after a run whose sinks delivered, and releases *)
(* after any other, a preview included.                                    *)
Settle(acknowledge) ==
    /\ phase = "holding"
    /\ phase' = "stopping"
    /\ ack' = acknowledge
    /\ UNCHANGED <<broker, brokerVars, trouble, batch, lag, held, written, rest,
                   refused, outcome, keeperVars, deleted, taken>>

\* Mutant: the keeper is told to stop, and not waited for.
KeeperNotJoined ==
    /\ phase = "stopping"
    /\ phase' = "settling"
    /\ rest' = held
    /\ UNCHANGED <<broker, brokerVars, trouble, batch, lag, held, written, ack,
                   refused, outcome, keeperVars, deleted, taken>>

KeeperJoined ==
    /\ phase = "stopping"
    /\ keeper \in {"none", "stopped"}
    /\ phase' = "settling"
    /\ rest' = held
    /\ UNCHANGED <<broker, brokerVars, trouble, batch, lag, held, written, ack,
                   refused, outcome, keeperVars, deleted, taken>>

Land(S) ==
    IF ack THEN Delete(S) ELSE GiveBack(S) /\ UNCHANGED deleted

(* One batch call is answered.                                             *)
\* Mutant: the answer was 200, so everything went through.
ChunkTaken(C, failed) ==
    /\ phase = "settling"
    /\ Leased
    /\ C \in Chunks(rest)
    /\ MayRefuse(C, failed, {m \in C : to[m] = "run"})
    /\ Land(C \ failed)
    /\ rest' = rest \ C
    /\ UNCHANGED <<broker, to, channel, phase, batch, lag, held, written, ack,
                   refused, outcome, keeperVars, taken>>

ChunkSettled(C, failed) ==
    /\ phase = "settling"
    /\ Leased
    /\ C \in Chunks(rest)
    /\ MayRefuse(C, failed, {m \in C : to[m] = "run"})
    /\ Land(C \ failed)
    /\ rest' = rest \ C
    /\ refused' = (refused \/ failed # {})
    /\ UNCHANGED <<broker, to, channel, phase, batch, lag, held, written, ack,
                   outcome, keeperVars, taken>>

(* The call fails, landed or not, and what is left is left.                *)
ChunkFails(C, landed) ==
    /\ phase = "settling"
    /\ Leased
    /\ C \in Chunks(rest)
    /\ landed \in {{}, C}
    /\ Fails
    /\ Land(landed)
    /\ phase' = "ended"
    /\ rest' = {}
    /\ outcome' = "error"
    /\ UNCHANGED <<broker, to, channel, batch, lag, held, written, ack, refused,
                   keeperVars, taken>>

Settled ==
    /\ phase = "settling"
    /\ Leased
    /\ rest = {}
    /\ phase' = "ended"
    /\ outcome' = IF refused THEN "error" ELSE "ok"
    /\ UNCHANGED <<broker, brokerVars, trouble, batch, lag, held, written, ack,
                   rest, refused, keeperVars, deleted, taken>>

(* RabbitMQ: one basic.ack or basic.nack up to the last delivery, and then *)
(* the channel is closed, which gives back what is still unacknowledged.   *)
(* A message that was sent may be lost with the connection.                *)
RabbitSettles(sent, landed) ==
    LET settled == IF ack /\ landed THEN {m \in held : Ours(m)} ELSE {}
    IN  /\ phase = "settling"
        /\ ~Leased
        /\ landed \/ sent => channel /\ held # {}
        /\ IF (sent /\ landed) \/ ~channel \/ held = {}
           THEN UNCHANGED trouble ELSE Fails
        /\ at' = [m \in Messages |-> IF m \in settled THEN "gone"
                                    ELSE IF Ours(m) THEN "queue" ELSE at[m]]
        /\ deleted' = deleted \cup settled
        /\ channel' = FALSE
        /\ rest' = {}
        /\ phase' = "ended"
        /\ outcome' = IF ack /\ ~sent /\ held # {} THEN "error" ELSE "ok"
        /\ UNCHANGED <<broker, to, left, batch, lag, held, written, ack, refused,
                       keeperVars, taken>>

-----------------------------------------------------------------------------
(* The others.                                                             *)

(* The broker closes the channel: consumer_timeout, or a lost connection.  *)
BrokerCloses ==
    /\ ~Leased
    /\ channel
    /\ Fails
    /\ GiveBack(Messages)
    /\ channel' = FALSE
    /\ UNCHANGED <<broker, to, runVars, keeperVars, deleted, taken>>

(* The process is killed, and what it knew is gone: the broker sees the    *)
(* channel close, and nobody extends a hold.                               *)
Kill ==
    /\ phase \notin {"ended", "killed"}
    /\ phase' = "killed"
    /\ IF Leased THEN UNCHANGED <<at, left>> ELSE GiveBack(Messages)
    /\ channel' = FALSE
    /\ keeper' = IF Leased THEN "stopped" ELSE "none"
    /\ batch' = {} /\ held' = {} /\ written' = {} /\ rest' = {} /\ todo' = {}
    /\ deleted' = {} /\ taken' = {}
    /\ ack' = FALSE /\ refused' = FALSE /\ noted' = FALSE
    /\ lag' = 0 /\ timer' = 0
    /\ UNCHANGED <<broker, to, trouble, outcome>>

(* Another consumer of the queue, the next run among them.                 *)
OtherReceives(m) ==
    /\ at[m] = "queue"
    /\ at' = [at EXCEPT ![m] = "hidden"]
    /\ to' = [to EXCEPT ![m] = "other"]
    /\ taken' = IF m \in held /\ phase \in {"receiving", "pulled", "writing", "holding"}
                THEN taken \cup {m} ELSE taken
    /\ UNCHANGED <<broker, left, channel, trouble, runVars, keeperVars, deleted>>

OtherSettles(m) ==
    /\ at[m] = "hidden" /\ to[m] = "other"
    /\ \E where \in {"queue", "gone"} : at' = [at EXCEPT ![m] = where]
    /\ UNCHANGED <<broker, to, left, channel, trouble, runVars, keeperVars, deleted,
                   taken>>

(* Time passes, as long as nobody has something to do first.               *)
Unheld == phase = "pulled" \/ ~(batch \subseteq held)

Tick ==
    /\ keeper = "waiting" => timer > 0
    /\ keeper = "extending" => timer < CallTime
    /\ Unheld => lag < CallTime
    /\ at' = [m \in Messages |->
                IF Ours(m) /\ left[m] = 1 THEN "queue" ELSE at[m]]
    /\ left' = [m \in Messages |-> IF left[m] > 0 THEN left[m] - 1 ELSE 0]
    /\ timer' = CASE keeper = "waiting" -> timer - 1
                  [] keeper = "extending" -> timer + 1
                  [] OTHER -> timer
    /\ lag' = IF Unheld THEN lag + 1 ELSE lag
    /\ UNCHANGED <<broker, to, channel, trouble, phase, batch, held, written, ack,
                   rest, refused, outcome, keeper, todo, noted, deleted, taken>>

-----------------------------------------------------------------------------
Receive ==
    \/ \E S \in SUBSET Messages : Pull(S) \/ PullFails(S)
    \/ ExtendPulled \/ ExtendPulledFails
    \/ \E m \in Messages : WriteRow(m) \/ RowFails(m)
    \/ NextCall \/ Received

Settlement ==
    \/ KeeperJoined
    \/ \E C \in SUBSET rest, D \in SUBSET Messages :
          ChunkSettled(C, D) \/ ChunkFails(C, D)
    \/ Settled
    \/ \E sent \in BOOLEAN, landed \in BOOLEAN : RabbitSettles(sent, landed)

Keep ==
    \/ KeeperWakes \/ KeeperRests \/ KeeperStops
    \/ \E C \in SUBSET todo, D \in SUBSET Messages :
          KeeperExtends(C, D) \/ KeeperCallFails(C, D)

Others ==
    \/ BrokerCloses
    \/ \E m \in Messages : OtherReceives(m) \/ OtherSettles(m)

Next ==
    \/ Receive
    \/ \E acknowledge \in BOOLEAN : Settle(acknowledge)
    \/ Settlement \/ Keep \/ Others \/ Kill \/ Tick

Spec == Init /\ [][Next]_vars

(* Time passes, the keeper's thread runs, and a settlement, which waits    *)
(* for calls with a timeout only, goes on.  recv_timeout returns as soon as *)
(* the other end of its channel is gone.                                   *)
FairSpec ==
    /\ Spec
    /\ WF_vars(Tick) /\ WF_vars(Settlement)
    /\ WF_vars(Keep) /\ SF_vars(KeeperStops)

-----------------------------------------------------------------------------
(* Types; no more is held than asked for, and the keeper has ended before  *)
(* anything is settled (lease.rs, Keeper::stop).                           *)
TypeOK ==
    /\ broker \in Brokers
    /\ at \in [Messages -> {"queue", "hidden", "gone"}]
    /\ to \in [Messages -> {"nobody", "run", "other"}]
    /\ left \in [Messages -> 0 .. Hold]
    /\ {channel, ack, refused, noted} \subseteq BOOLEAN
    /\ trouble \in 0 .. MaxTrouble
    /\ phase \in {"receiving", "pulled", "writing", "holding", "stopping",
                  "settling", "ended", "killed"}
    /\ lag \in 0 .. CallTime
    /\ outcome \in {"none", "ok", "error"}
    /\ keeper \in {"none", "waiting", "extending", "stopped"}
    /\ timer \in 0 .. Hold
    /\ {batch, held, written, rest, todo, deleted, taken} \subseteq SUBSET Messages
    /\ Cardinality(held) <= MaxRecords
    /\ rest \cup todo \cup taken \subseteq held
    /\ phase \in {"settling", "ended"} => keeper \in {"none", "stopped"}

(* Nothing is deleted from a queue unless its row was written and the run  *)
(* succeeded: neither a row that did not decode, nor one that only the     *)
(* broker believes to have been received (sqs.rs, receive and settle).     *)
DeletedWereDelivered == deleted # {} => ack /\ deleted \subseteq written

(* Nobody else receives what a run holds, or the acknowledgement says so:  *)
(* the keeper is in time for every message, also one that arrived behind   *)
(* its back, and a failed extension is remembered (lease.rs).              *)
LapsesAreTold == ack /\ outcome = "ok" /\ taken # {} => noted

(* What settle reports is so: everything held is deleted, or has become    *)
(* somebody else's; or everything held is visible again.  An acknowledge-  *)
(* ment to RabbitMQ may get lost after it was sent, and is left out.       *)
ReportIsTrue ==
    outcome = "ok" =>
        \A m \in held : IF ack THEN Leased => m \in deleted \/ to[m] = "other"
                        ELSE ~Ours(m)

(* What a queue source reports is so, and a message that somebody else     *)
(* received while the run held it is never kept from the report.           *)
QueueTells ==
    /\ TypeOK
    /\ LapsesAreTold
    /\ ReportIsTrue

(* Whatever becomes of the run, what it has not deleted is visible again   *)
(* in the end: neither a settlement that fails half-way nor a kill leaves  *)
(* somebody who extends the hold.                                          *)
ComesBack ==
    phase \in {"stopping", "settling", "ended", "killed"}
        ~> \A m \in Messages : ~Ours(m)
=============================================================================
