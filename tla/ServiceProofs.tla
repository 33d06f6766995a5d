--------------------------- MODULE ServiceProofs ---------------------------
(***************************************************************************)
(* What a run has to do with other machines. For any number of messages,   *)
(* any batch size and any number of failures: what a queue source deletes  *)
(* it has delivered (QInv); and what it reports is so, nothing that        *)
(* somebody else received from under it being kept from the report (TInv:  *)
(* the types and bounds KInv, the settlement SInv, and the keeper's race   *)
(* against the broker's clock HInv). For any rows and caps: a source that  *)
(* reads by a column's value passes over nothing (MarkInv). For any number *)
(* of clients and attempts: no request goes out without a token (CallInv). *)
(* For any rows, batches and resends: what a table load or a stream sink   *)
(* says of its destination is so (LoadInv, SinkInv); a model stage answers *)
(* for its own rows in their order (AskInv); a paged read passes over no   *)
(* row and stops at a cursor that stands still (PageInv).                  *)
(***************************************************************************)
EXTENDS MCServices, Sequences, WellFoundedInduction, FiniteSetTheorems, TLAPS

Early == {"receiving", "pulled", "writing", "holding"}

(* While the run receives, nothing is settled, and what is held is written *)
(* or about to be.  At the top of the loop nothing is about to be.         *)
Receiving ==
    phase \in Early =>
        /\ ~ack
        /\ deleted = {}
        /\ held \subseteq written \cup batch
        /\ phase \in {"receiving", "holding"} => batch = {}

(* A receipt that is acknowledged holds only what was written.             *)
Acknowledged == ack => held \subseteq written

(* What is settled comes from the receipt, and deletes only for an         *)
(* acknowledged one.                                                       *)
FromReceipt ==
    /\ rest \subseteq held
    /\ deleted \subseteq held
    /\ deleted # {} => ack

QInv == Receiving /\ Acknowledged /\ FromReceipt

LEMMA QInit == Init => QInv
BY DEF Init, QInv, Receiving, Acknowledged, FromReceipt, Early

(* What a delete call adds comes from what it was given.                   *)
LEMMA DeleteAdds ==
    ASSUME NEW S, Delete(S)
    PROVE  deleted' \subseteq deleted \cup S
BY DEF Delete

(* Landing a call, acknowledged or not.                                    *)
LEMMA LandAdds ==
    ASSUME NEW S, Land(S)
    PROVE  deleted' \subseteq deleted \cup S /\ (~ack => deleted' = deleted)
BY DeleteAdds DEF Land

(* Every step of receive.                                                  *)
LEMMA ReceiveKeeps == QInv /\ Receive => QInv'
<1> SUFFICES ASSUME QInv, Receive PROVE QInv'
  OBVIOUS
<1> USE DEF QInv, Receiving, Acknowledged, FromReceipt, Early
<1>1. ASSUME NEW S \in SUBSET Messages, Pull(S) PROVE QInv'
  BY <1>1 DEF Pull
<1>2. ASSUME NEW S \in SUBSET Messages, PullFails(S) PROVE QInv'
  BY <1>2 DEF PullFails, Dropped
<1>3. CASE ExtendPulled
  BY <1>3 DEF ExtendPulled
<1>4. CASE ExtendPulledFails
  BY <1>4 DEF ExtendPulledFails, Dropped
<1>5. ASSUME NEW m \in Messages, WriteRow(m) PROVE QInv'
  BY <1>5 DEF WriteRow
<1>6. ASSUME NEW m \in Messages, RowFails(m) PROVE QInv'
  BY <1>6 DEF RowFails, Dropped
<1>7. CASE NextCall
  BY <1>7 DEF NextCall
<1>8. CASE Received
  BY <1>8 DEF Received
<1> QED
  BY <1>1, <1>2, <1>3, <1>4, <1>5, <1>6, <1>7, <1>8 DEF Receive

(* Every step of settle.                                                   *)
LEMMA SettlementKeeps == QInv /\ Settlement => QInv'
<1> SUFFICES ASSUME QInv, Settlement PROVE QInv'
  OBVIOUS
<1> USE DEF QInv, Receiving, Acknowledged, FromReceipt, Early
<1>1. CASE KeeperJoined
  BY <1>1 DEF KeeperJoined
<1>2. ASSUME NEW C \in SUBSET rest, NEW D \in SUBSET Messages, ChunkSettled(C, D)
      PROVE  QInv'
  <2>1. deleted' \subseteq deleted \cup (C \ D) /\ (~ack => deleted' = deleted)
    BY <1>2, LandAdds DEF ChunkSettled
  <2> QED
    BY <1>2, <2>1 DEF ChunkSettled
<1>3. ASSUME NEW C \in SUBSET rest, NEW D \in SUBSET Messages, ChunkFails(C, D)
      PROVE  QInv'
  <2>1. deleted' \subseteq deleted \cup D /\ (~ack => deleted' = deleted)
    BY <1>3, LandAdds DEF ChunkFails
  <2>2. D \subseteq C
    BY <1>3 DEF ChunkFails
  <2> QED
    BY <1>3, <2>1, <2>2 DEF ChunkFails
<1>4. CASE Settled
  BY <1>4 DEF Settled
<1>5. ASSUME NEW sent \in BOOLEAN, NEW landed \in BOOLEAN,
             RabbitSettles(sent, landed)
      PROVE  QInv'
  BY <1>5 DEF RabbitSettles
<1> QED
  BY <1>1, <1>2, <1>3, <1>4, <1>5 DEF Settlement

(* The keeper, the broker and the other consumers leave the run alone.     *)
LEMMA OthersKeep == QInv /\ (Keep \/ Others \/ Tick) => QInv'
<1> SUFFICES ASSUME QInv, Keep \/ Others \/ Tick PROVE QInv'
  OBVIOUS
<1>1. UNCHANGED <<phase, batch, held, written, ack, rest, deleted>>
  BY DEF Keep, KeeperWakes, KeeperRests, KeeperStops, KeeperExtends,
         KeeperCallFails, Others, BrokerCloses, OtherReceives, OtherSettles,
         Tick, runVars
<1> QED
  BY <1>1 DEF QInv, Receiving, Acknowledged, FromReceipt

LEMMA QStep == QInv /\ [Next]_vars => QInv'
<1> SUFFICES ASSUME QInv, [Next]_vars PROVE QInv'
  OBVIOUS
<1>1. CASE Receive
  BY <1>1, ReceiveKeeps
<1>2. ASSUME NEW acknowledge \in BOOLEAN, Settle(acknowledge) PROVE QInv'
  BY <1>2 DEF Settle, QInv, Receiving, Acknowledged, FromReceipt, Early
<1>3. CASE Settlement
  BY <1>3, SettlementKeeps
<1>4. CASE Keep \/ Others \/ Tick
  BY <1>4, OthersKeep
<1>5. CASE Kill
  BY <1>5 DEF Kill, QInv, Receiving, Acknowledged, FromReceipt, Early
<1>6. CASE UNCHANGED vars
  BY <1>6 DEF vars, runVars, QInv, Receiving, Acknowledged, FromReceipt
<1> QED
  BY <1>1, <1>2, <1>3, <1>4, <1>5, <1>6 DEF Next

(* A queue source deletes only messages whose rows were written by a run   *)
(* that was acknowledged (sqs.rs, pubsub.rs, rabbitmq.rs: receive, settle).*)
THEOREM DeletedWereDeliveredTheorem == Spec => []DeletedWereDelivered
<1>1. QInv => DeletedWereDelivered
  BY DEF QInv, Acknowledged, FromReceipt, DeletedWereDelivered
<1> QED
  BY <1>1, QInit, QStep, PTL DEF Spec
-----------------------------------------------------------------------------
(* What the report tells.  First the types, part by part.                  *)

BrokerTypes ==
    /\ broker \in Brokers
    /\ at \in [Messages -> {"queue", "hidden", "gone"}]
    /\ to \in [Messages -> {"nobody", "run", "other"}]
    /\ left \in [Messages -> 0 .. Hold]

FlagTypes == {channel, ack, refused, noted} \subseteq BOOLEAN

CountTypes ==
    /\ trouble \in 0 .. MaxTrouble
    /\ lag \in 0 .. CallTime
    /\ timer \in 0 .. Hold

ModeTypes ==
    /\ phase \in {"receiving", "pulled", "writing", "holding", "stopping",
                  "settling", "ended", "killed"}
    /\ outcome \in {"none", "ok", "error"}
    /\ keeper \in {"none", "waiting", "extending", "stopped"}

SetTypes == {batch, held, written, rest, todo, deleted, taken} \subseteq SUBSET Messages

(* The thread waits for a period at most, takes CallTime for a round at    *)
(* most, is there as long as the run receives, and has ended before        *)
(* anything is settled; RabbitMQ has none.                                 *)
Pace ==
    /\ keeper = "waiting" => timer <= Period
    /\ keeper = "extending" => timer <= CallTime
    /\ keeper = "none" <=> ~Leased
    /\ Leased /\ phase \in Early => keeper \in {"waiting", "extending"}
    /\ phase \in {"settling", "ended"} => keeper \in {"none", "stopped"}

(* What is, or is about to be, on the receipt is no more than asked for;   *)
(* what the others work on comes from it.                                  *)
Capped ==
    /\ Cardinality(held \cup batch) <= MaxRecords
    /\ phase \notin {"pulled", "writing"} => batch = {}
    /\ rest \cup todo \cup taken \subseteq held

KInv == BrokerTypes /\ FlagTypes /\ CountTypes /\ ModeTypes /\ SetTypes /\ Pace
        /\ Capped

(* Three calls and half a hold fit into a hold, a call into the            *)
(* subscription's own deadline.                                            *)
LEMMA HoldFacts ==
    /\ Hold \in Nat /\ Short \in Nat /\ CallTime \in Nat /\ Period \in Nat
    /\ MaxTrouble \in Nat /\ MaxRecords \in Nat
    /\ 3 * CallTime + Period < Hold
    /\ CallTime < Short /\ Short <= Hold
<1>1. Hold \in Nat /\ Short \in Nat /\ CallTime \in Nat /\ MaxTrouble \in Nat
      /\ MaxRecords \in Nat
  BY HoldAssumption
<1>2. Period \in Nat
  BY <1>1 DEF Period
<1> QED
  BY <1>1, <1>2, HoldAssumption DEF Period

LEMMA FirstHoldFacts ==
    ASSUME broker \in Brokers
    PROVE  /\ FirstHold \in 0 .. Hold
           /\ broker = "sqs" => FirstHold = Hold
           /\ broker = "pubsub" => FirstHold = Short
           /\ ~Leased => FirstHold = 0
<1>1. broker \in {"sqs", "pubsub", "rabbitmq"}
  BY BrokerAssumption
<1>2. CASE broker = "sqs"
  BY <1>2, HoldFacts DEF FirstHold, Leased
<1>3. CASE broker = "pubsub"
  BY <1>3, HoldFacts DEF FirstHold, Leased
<1>4. CASE broker = "rabbitmq"
  BY <1>4, HoldFacts DEF FirstHold, Leased
<1> QED
  BY <1>1, <1>2, <1>3, <1>4

(* Every step keeps the broker's types.                                    *)
LEMMA BrokerTypesStep == BrokerTypes /\ [Next]_vars => BrokerTypes'
<1> SUFFICES ASSUME BrokerTypes, [Next]_vars PROVE BrokerTypes'
  OBVIOUS
<1> USE DEF BrokerTypes, brokerVars
<1>z. 0 \in 0 .. Hold /\ Hold \in 0 .. Hold
  BY HoldFacts
<1>1. ASSUME NEW S \in SUBSET Messages, Pull(S) \/ PullFails(S) PROVE BrokerTypes'
  <2>1. Hide(S, FirstHold) /\ broker' = broker
    BY <1>1 DEF Pull, PullFails
  <2> QED
    BY <2>1, FirstHoldFacts DEF Hide
<1>2. CASE ExtendPulled
  BY <1>2, <1>z DEF ExtendPulled, Extend
<1>3. ASSUME NEW C, NEW D, KeeperExtends(C, D) \/ KeeperCallFails(C, D)
      PROVE  BrokerTypes'
  <2>1. UNCHANGED <<broker, at, to>> /\ \E S : Extend(S, Hold)
    BY <1>3 DEF KeeperExtends, KeeperCallFails
  <2> QED
    BY <2>1, <1>z DEF Extend
<1>4. ASSUME NEW S, Land(S), UNCHANGED <<broker, to>> PROVE BrokerTypes'
  <2>1. CASE ack
    BY <1>4, <2>1, <1>z DEF Land, Delete
  <2>2. CASE ~ack
    BY <1>4, <2>2, <1>z DEF Land, GiveBack
  <2> QED
    BY <2>1, <2>2
<1>5. ASSUME NEW C, NEW D, ChunkSettled(C, D) \/ ChunkFails(C, D) PROVE BrokerTypes'
  BY <1>4, <1>5 DEF ChunkSettled, ChunkFails
<1>6. ASSUME NEW sent, NEW landed, RabbitSettles(sent, landed) PROVE BrokerTypes'
  BY <1>6 DEF RabbitSettles
<1>7. CASE BrokerCloses \/ Kill
  BY <1>7, <1>z DEF BrokerCloses, Kill, GiveBack
<1>8. ASSUME NEW m \in Messages, OtherReceives(m) \/ OtherSettles(m)
      PROVE  BrokerTypes'
  BY <1>8 DEF OtherReceives, OtherSettles
<1>9. CASE Tick
  <2>1. \A m \in Messages : left[m] > 0 => left[m] - 1 \in 0 .. Hold
    BY HoldFacts
  <2> QED
    BY <1>9, <1>z, <2>1 DEF Tick
<1>10. CASE \/ ExtendPulledFails \/ NextCall \/ Received \/ KeeperJoined \/ Settled
            \/ KeeperWakes \/ KeeperRests \/ KeeperStops \/ UNCHANGED vars
            \/ \E m \in Messages : WriteRow(m) \/ RowFails(m)
            \/ \E acknowledge \in BOOLEAN : Settle(acknowledge)
  BY <1>10 DEF ExtendPulledFails, NextCall, Received, KeeperJoined, Settled,
     KeeperWakes, KeeperRests, KeeperStops, WriteRow, RowFails, Settle, vars
<1> QED
  BY <1>1, <1>2, <1>3, <1>5, <1>6, <1>7, <1>8, <1>9, <1>10
     DEF Next, Receive, Settlement, Keep, Others

(* Every step keeps the flags Boolean.                                     *)
LEMMA FlagTypesStep == FlagTypes /\ [Next]_vars => FlagTypes'
<1> SUFFICES ASSUME FlagTypes, [Next]_vars PROVE FlagTypes'
  OBVIOUS
<1>0. channel \in BOOLEAN /\ ack \in BOOLEAN /\ refused \in BOOLEAN /\ noted \in BOOLEAN
  BY Zenon DEF FlagTypes
<1>1. channel' \in BOOLEAN
  BY <1>0, Zenon DEF Next, Receive, Settlement, Keep, Others, Pull, PullFails, ExtendPulled,
     ExtendPulledFails, WriteRow, RowFails, NextCall, Received, Settle, KeeperJoined,
     ChunkSettled, ChunkFails, Settled, RabbitSettles, KeeperWakes, KeeperRests,
     KeeperStops, KeeperExtends, KeeperCallFails, BrokerCloses, OtherReceives,
     OtherSettles, Kill, Tick, vars, brokerVars
<1>2. ack' \in BOOLEAN
  BY <1>0, Zenon DEF Next, Receive, Settlement, Keep, Others, Pull, PullFails, ExtendPulled,
     ExtendPulledFails, WriteRow, RowFails, NextCall, Received, Settle, KeeperJoined,
     ChunkSettled, ChunkFails, Settled, RabbitSettles, KeeperWakes, KeeperRests,
     KeeperStops, KeeperExtends, KeeperCallFails, BrokerCloses, OtherReceives,
     OtherSettles, Kill, Tick, vars, runVars, Dropped
<1>3. refused' \in BOOLEAN
  BY <1>0, Zenon DEF Next, Receive, Settlement, Keep, Others, Pull, PullFails, ExtendPulled,
     ExtendPulledFails, WriteRow, RowFails, NextCall, Received, Settle, KeeperJoined,
     ChunkSettled, ChunkFails, Settled, RabbitSettles, KeeperWakes, KeeperRests,
     KeeperStops, KeeperExtends, KeeperCallFails, BrokerCloses, OtherReceives,
     OtherSettles, Kill, Tick, vars, runVars
<1>4. noted' \in BOOLEAN
  BY <1>0, Zenon DEF Next, Receive, Settlement, Keep, Others, Pull, PullFails, ExtendPulled,
     ExtendPulledFails, WriteRow, RowFails, NextCall, Received, Settle, KeeperJoined,
     ChunkSettled, ChunkFails, Settled, RabbitSettles, KeeperWakes, KeeperRests,
     KeeperStops, KeeperExtends, KeeperCallFails, BrokerCloses, OtherReceives,
     OtherSettles, Kill, Tick, vars, keeperVars
<1> QED
  BY <1>1, <1>2, <1>3, <1>4, Zenon DEF FlagTypes

(* Every step keeps the counters in their bounds.                          *)
LEMMA CountTypesStep == CountTypes /\ Pace /\ [Next]_vars => CountTypes'
<1> SUFFICES ASSUME CountTypes, Pace, [Next]_vars PROVE CountTypes'
  OBVIOUS
<1>1. trouble' \in 0 .. MaxTrouble
  <2>1. trouble' = trouble \/ Fails
    BY DEF Next, Receive, Settlement, Keep, Others, Pull, PullFails, ExtendPulled,
       ExtendPulledFails, WriteRow, RowFails, NextCall, Received, Settle, KeeperJoined,
       ChunkSettled, ChunkFails, Settled, RabbitSettles, KeeperWakes, KeeperRests,
       KeeperStops, KeeperExtends, KeeperCallFails, BrokerCloses, OtherReceives,
       OtherSettles, Kill, Tick, vars, MayRefuse
  <2> QED
    BY <2>1, HoldFacts DEF Fails, CountTypes
<1>2. lag' \in 0 .. CallTime
  <2>1. lag' = lag \/ lag' = 0 \/ (lag < CallTime /\ lag' = lag + 1)
    BY DEF Next, Receive, Settlement, Keep, Others, Pull, PullFails, ExtendPulled,
       ExtendPulledFails, WriteRow, RowFails, NextCall, Received, Settle, KeeperJoined,
       ChunkSettled, ChunkFails, Settled, RabbitSettles, KeeperWakes, KeeperRests,
       KeeperStops, KeeperExtends, KeeperCallFails, BrokerCloses, OtherReceives,
       OtherSettles, Kill, Tick, vars, runVars, Dropped
  <2> QED
    BY <2>1, HoldFacts DEF CountTypes
<1>3. timer' \in 0 .. Hold
  <2>1. CASE Tick
    <3>1. \/ keeper = "waiting" /\ timer > 0 /\ timer' = timer - 1
          \/ keeper = "extending" /\ timer < CallTime /\ timer' = timer + 1
          \/ timer' = timer
      BY <2>1 DEF Tick
    <3> QED
      BY <3>1, HoldFacts DEF CountTypes
  <2>2. CASE ~Tick
    <3>1. timer' = timer \/ timer' = 0 \/ timer' = Period
      BY <2>2 DEF Next, Receive, Settlement, Keep, Others, Pull, PullFails, ExtendPulled,
         ExtendPulledFails, WriteRow, RowFails, NextCall, Received, Settle, KeeperJoined,
         ChunkSettled, ChunkFails, Settled, RabbitSettles, KeeperWakes, KeeperRests,
         KeeperStops, KeeperExtends, KeeperCallFails, BrokerCloses, OtherReceives,
         OtherSettles, Kill, vars, keeperVars
    <3> QED
      BY <3>1, HoldFacts DEF CountTypes
  <2> QED
    BY <2>1, <2>2
<1> QED
  BY <1>1, <1>2, <1>3 DEF CountTypes

(* Every step keeps the phases and what the thread is doing.               *)
LEMMA ModeTypesStep == ModeTypes /\ [Next]_vars => ModeTypes'
<1> SUFFICES ASSUME ModeTypes, [Next]_vars PROVE ModeTypes'
  OBVIOUS
<1>1. phase' = phase \/ phase' \in {"receiving", "pulled", "writing", "holding",
                                    "stopping", "settling", "ended", "killed"}
  BY DEF Next, Receive, Settlement, Keep, Others, Pull, PullFails, ExtendPulled,
       ExtendPulledFails, WriteRow, RowFails, NextCall, Received, Settle, KeeperJoined,
       ChunkSettled, ChunkFails, Settled, RabbitSettles, KeeperWakes, KeeperRests,
       KeeperStops, KeeperExtends, KeeperCallFails, BrokerCloses, OtherReceives,
       OtherSettles, Kill, Tick, vars, runVars, Dropped
<1>2. outcome' = outcome \/ outcome' \in {"ok", "error"}
  BY DEF Next, Receive, Settlement, Keep, Others, Pull, PullFails, ExtendPulled,
       ExtendPulledFails, WriteRow, RowFails, NextCall, Received, Settle, KeeperJoined,
       ChunkSettled, ChunkFails, Settled, RabbitSettles, KeeperWakes, KeeperRests,
       KeeperStops, KeeperExtends, KeeperCallFails, BrokerCloses, OtherReceives,
       OtherSettles, Kill, Tick, vars, runVars
<1>3. keeper' = keeper \/ keeper' \in {"none", "waiting", "extending", "stopped"}
  BY DEF Next, Receive, Settlement, Keep, Others, Pull, PullFails, ExtendPulled,
       ExtendPulledFails, WriteRow, RowFails, NextCall, Received, Settle, KeeperJoined,
       ChunkSettled, ChunkFails, Settled, RabbitSettles, KeeperWakes, KeeperRests,
       KeeperStops, KeeperExtends, KeeperCallFails, BrokerCloses, OtherReceives,
       OtherSettles, Kill, Tick, vars, keeperVars
<1> QED
  BY <1>1, <1>2, <1>3 DEF ModeTypes

(* Every step keeps to the messages there are.                             *)
LEMMA SetTypesStep == SetTypes /\ [Next]_vars => SetTypes'
<1> SUFFICES ASSUME SetTypes, [Next]_vars PROVE SetTypes'
  OBVIOUS
<1> USE DEF SetTypes
<1>1. ASSUME NEW S \in SUBSET Messages, Pull(S) \/ PullFails(S) PROVE SetTypes'
  BY <1>1 DEF Pull, PullFails, Dropped, keeperVars
<1>2. ASSUME NEW m \in Messages, WriteRow(m) \/ RowFails(m) PROVE SetTypes'
  BY <1>2 DEF WriteRow, RowFails, Dropped, keeperVars
<1>3. CASE ExtendPulled \/ ExtendPulledFails \/ NextCall \/ Received
           \/ \E acknowledge \in BOOLEAN : Settle(acknowledge)
  BY <1>3 DEF ExtendPulled, ExtendPulledFails, NextCall, Received, Settle, Dropped,
     keeperVars
<1>4. CASE KeeperJoined \/ Settled
  BY <1>4 DEF KeeperJoined, Settled, keeperVars
<1>5. ASSUME NEW C \in SUBSET rest, NEW D \in SUBSET Messages,
             ChunkSettled(C, D) \/ ChunkFails(C, D)
      PROVE  SetTypes'
  <2>1. deleted' \subseteq deleted \cup Messages
    BY <1>5, LandAdds DEF ChunkSettled, ChunkFails
  <2> QED
    BY <1>5, <2>1 DEF ChunkSettled, ChunkFails, keeperVars
<1>6. ASSUME NEW sent \in BOOLEAN, NEW landed \in BOOLEAN, RabbitSettles(sent, landed)
      PROVE  SetTypes'
  BY <1>6 DEF RabbitSettles, keeperVars
<1>7. CASE Keep
  <2>1. UNCHANGED <<batch, held, written, rest, deleted, taken>>
    BY <1>7 DEF Keep, KeeperWakes, KeeperRests, KeeperStops, KeeperExtends,
       KeeperCallFails, runVars
  <2>2. todo' \subseteq todo \cup held
    BY <1>7 DEF Keep, KeeperWakes, KeeperRests, KeeperStops, KeeperExtends,
       KeeperCallFails
  <2> QED
    BY <2>1, <2>2
<1>8. CASE Others \/ Tick
  BY <1>8 DEF Others, BrokerCloses, OtherReceives, OtherSettles, Tick, runVars, keeperVars
<1>9. CASE Kill
  BY <1>9 DEF Kill
<1>10. CASE UNCHANGED vars
  BY <1>10 DEF vars, runVars, keeperVars
<1> QED
  BY <1>1, <1>2, <1>3, <1>4, <1>5, <1>6, <1>7, <1>8, <1>9, <1>10
     DEF Next, Receive, Settlement

(* No step changes the broker.                                             *)
LEMMA BrokerStays == [Next]_vars => broker' = broker
BY DEF Next, Receive, Settlement, Keep, Others, Pull, PullFails, ExtendPulled,
       ExtendPulledFails, WriteRow, RowFails, NextCall, Received, Settle, KeeperJoined,
       ChunkSettled, ChunkFails, Settled, RabbitSettles, KeeperWakes, KeeperRests,
       KeeperStops, KeeperExtends, KeeperCallFails, BrokerCloses, OtherReceives,
       OtherSettles, Kill, Tick, vars

(* Every step keeps the thread's pace.                                     *)
LEMMA PaceStep == CountTypes /\ ModeTypes /\ Pace /\ [Next]_vars => Pace'
<1> SUFFICES ASSUME CountTypes, ModeTypes, Pace, [Next]_vars PROVE Pace'
  OBVIOUS
<1> USE HoldFacts DEF Pace, Leased, CountTypes, ModeTypes, Early
<1>b. broker' = broker
  BY BrokerStays
<1>1. CASE Receive \/ \E acknowledge \in BOOLEAN : Settle(acknowledge)
  <2>1. UNCHANGED <<keeper, timer>> /\ phase \in Early
        /\ phase' \in Early \cup {"stopping"}
    BY <1>1 DEF Receive, Pull, PullFails, ExtendPulled, ExtendPulledFails, WriteRow,
       RowFails, NextCall, Received, Settle, Dropped, keeperVars
  <2> QED
    BY <1>b, <2>1
<1>2. CASE Settlement
  <2>1. /\ UNCHANGED <<keeper, timer>> /\ phase' \in {"settling", "ended"}
        /\ phase = "settling" \/ keeper \in {"none", "stopped"}
    BY <1>2 DEF Settlement, KeeperJoined, ChunkSettled, ChunkFails, Settled,
       RabbitSettles, keeperVars
  <2> QED
    BY <1>b, <2>1
<1>3. CASE Keep
  <2>1. phase' = phase /\ keeper \in {"waiting", "extending"}
    BY <1>3 DEF Keep, KeeperWakes, KeeperRests, KeeperStops, KeeperExtends,
       KeeperCallFails, runVars
  <2>2. \/ keeper = "waiting" /\ keeper' = "extending" /\ timer = 0 /\ timer' = 0
        \/ keeper = "extending" /\ keeper' = "waiting" /\ timer' = Period
        \/ keeper' = "stopped" /\ phase = "stopping"
        \/ keeper = "extending" /\ keeper' = keeper /\ timer' = timer
    BY <1>3 DEF Keep, KeeperWakes, KeeperRests, KeeperStops, KeeperExtends,
       KeeperCallFails
  <2> QED
    BY <1>b, <2>1, <2>2
<1>4. CASE Others \/ UNCHANGED vars
  <2>1. UNCHANGED <<keeper, timer, phase>>
    BY <1>4 DEF Others, BrokerCloses, OtherReceives, OtherSettles, runVars, keeperVars,
       vars
  <2> QED
    BY <1>b, <2>1
<1>5. CASE Kill
  BY <1>b, <1>5 DEF Kill
<1>6. CASE Tick
  <2>1. /\ UNCHANGED <<keeper, phase>>
        /\ keeper = "waiting" => timer' = timer - 1
        /\ keeper = "extending" => timer < CallTime /\ timer' = timer + 1
    BY <1>6 DEF Tick
  <2> QED
    BY <1>b, <2>1
<1> QED
  BY <1>1, <1>2, <1>3, <1>4, <1>5, <1>6 DEF Next

(* No more is pulled than there is room for on the receipt.                *)
LEMMA PullFits ==
    ASSUME SetTypes, Capped, BrokerTypes, NEW S \in SUBSET Messages,
           phase = "receiving", Cardinality(held) < MaxRecords,
           Cardinality(S) <= Want
    PROVE  Cardinality(held \cup S) <= MaxRecords
<1>1. IsFiniteSet(held) /\ IsFiniteSet(S) /\ IsFiniteSet(held \cap S)
  BY MessagesAssumption, FS_Subset DEF SetTypes
<1>2. /\ Cardinality(held) \in Nat /\ Cardinality(S) \in Nat
      /\ Cardinality(held \cap S) \in Nat
  BY <1>1, FS_CardinalityType
<1>3. Cardinality(held \cup S)
        = Cardinality(held) + Cardinality(S) - Cardinality(held \cap S)
  BY <1>1, FS_Union
<1>4. Want <= MaxRecords - Cardinality(held)
  BY <1>2, HoldFacts, HoldAssumption DEF Want, Least
<1>5. Want \in Int
  BY <1>2, HoldFacts, HoldAssumption DEF Want, Least
<1> QED
  BY <1>2, <1>3, <1>4, <1>5, HoldFacts

(* Every step keeps the receipt within what was asked for.                 *)
LEMMA CappedStep == KInv /\ [Next]_vars => Capped'
<1> SUFFICES ASSUME KInv, [Next]_vars PROVE Capped'
  OBVIOUS
<1>k. SetTypes /\ BrokerTypes /\ Capped
  BY DEF KInv
<1> USE DEF Capped
<1>c. ASSUME held' \cup batch' \subseteq held \cup batch
      PROVE  Cardinality(held' \cup batch') <= MaxRecords
  <2>1. IsFiniteSet(held \cup batch)
    BY <1>k, MessagesAssumption, FS_Subset DEF SetTypes
  <2>2. Cardinality(held' \cup batch') <= Cardinality(held \cup batch)
    BY <1>c, <2>1, FS_Subset
  <2>3. Cardinality(held \cup batch) \in Nat /\ Cardinality(held' \cup batch') \in Nat
    BY <1>c, <2>1, FS_Subset, FS_CardinalityType
  <2> QED
    BY <1>k, <2>2, <2>3, HoldFacts
<1>1. ASSUME NEW S \in SUBSET Messages, Pull(S) PROVE Capped'
  <2>1. /\ phase = "receiving" /\ Cardinality(held) < MaxRecords /\ Cardinality(S) <= Want
        /\ held' \cup batch' = held \cup S /\ phase' \in {"pulled", "writing"}
        /\ held \subseteq held' /\ UNCHANGED <<rest, todo, taken>>
    BY <1>1 DEF Pull, keeperVars
  <2>2. Cardinality(held \cup S) <= MaxRecords
    BY <1>k, <2>1, PullFits
  <2> QED
    BY <1>k, <2>1, <2>2
<1>2. ASSUME NEW S \in SUBSET Messages, PullFails(S) PROVE Capped'
  BY <1>2, <1>c, <1>k DEF PullFails, Dropped, keeperVars
<1>3. ASSUME NEW m \in Messages, WriteRow(m) \/ RowFails(m) PROVE Capped'
  <2>1. /\ held' \cup batch' \subseteq held \cup batch /\ held \subseteq held'
        /\ UNCHANGED <<rest, todo, taken>>
        /\ phase' = "writing" \/ batch' = {}
    BY <1>3 DEF WriteRow, RowFails, Dropped, keeperVars
  <2> QED
    BY <1>c, <1>k, <2>1
<1>4. CASE \/ ExtendPulled \/ ExtendPulledFails \/ NextCall \/ Received
           \/ \E acknowledge \in BOOLEAN : Settle(acknowledge)
  <2>1. /\ held' = held /\ batch' \subseteq batch
        /\ UNCHANGED <<rest, todo, taken>>
        /\ phase' \notin {"pulled", "writing"} => batch' = {} \/ phase \notin {"pulled", "writing"}
    BY <1>4 DEF ExtendPulled, ExtendPulledFails, NextCall, Received, Settle, Dropped,
       keeperVars
  <2> QED
    BY <1>c, <1>k, <2>1
<1>5. CASE Settlement
  <2>1. /\ UNCHANGED <<held, batch, todo, taken>> /\ rest' \subseteq rest \cup held
        /\ phase \notin {"pulled", "writing"}
    BY <1>5 DEF Settlement, KeeperJoined, ChunkSettled, ChunkFails, Settled,
       RabbitSettles, keeperVars
  <2> QED
    BY <1>c, <1>k, <2>1
<1>6. CASE Keep
  <2>1. UNCHANGED <<held, batch, rest, taken, phase>> /\ todo' \subseteq todo \cup held
    BY <1>6 DEF Keep, KeeperWakes, KeeperRests, KeeperStops, KeeperExtends,
       KeeperCallFails, runVars
  <2> QED
    BY <1>c, <1>k, <2>1
<1>7. CASE Others \/ Tick \/ UNCHANGED vars
  <2>1. UNCHANGED <<held, batch, rest, todo, phase>> /\ taken' \subseteq taken \cup held
    BY <1>7 DEF Others, BrokerCloses, OtherReceives, OtherSettles, Tick, vars, runVars,
       keeperVars
  <2> QED
    BY <1>c, <1>k, <2>1
<1>8. CASE Kill
  <2>1. held' \cup batch' = {} /\ batch' = {} /\ rest' \cup todo' \cup taken' = {}
    BY <1>8 DEF Kill
  <2> QED
    BY <1>c, <2>1
<1> QED
  BY <1>1, <1>2, <1>3, <1>4, <1>5, <1>6, <1>7, <1>8 DEF Next, Receive

(* Every step keeps the types and the bounds, and they imply TypeOK.       *)
LEMMA KStep == KInv /\ [Next]_vars => KInv'
BY BrokerTypesStep, FlagTypesStep, CountTypesStep, ModeTypesStep, SetTypesStep,
   PaceStep, CappedStep DEF KInv

LEMMA KInit == Init => KInv
<1> SUFFICES ASSUME Init PROVE KInv
  OBVIOUS
<1>1. BrokerTypes /\ CountTypes /\ ModeTypes /\ SetTypes
  BY HoldFacts DEF Init, BrokerTypes, CountTypes, ModeTypes, SetTypes
<1>2. FlagTypes
  BY Zenon DEF Init, FlagTypes
<1>3. Pace
  BY HoldFacts DEF Init, Pace, Leased, Early
<1>4. Capped
  <2>1. held \cup batch = {}
    BY DEF Init
  <2> QED
    BY <2>1, FS_EmptySet, HoldFacts DEF Init, Capped
<1> QED
  BY <1>1, <1>2, <1>3, <1>4 DEF KInv

LEMMA KTypes == KInv => TypeOK
<1> SUFFICES ASSUME KInv PROVE TypeOK
  OBVIOUS
<1>1. Cardinality(held) <= MaxRecords
  <2>1. IsFiniteSet(held \cup batch)
    BY MessagesAssumption, FS_Subset DEF KInv, SetTypes
  <2>2. Cardinality(held) <= Cardinality(held \cup batch)
    BY <2>1, FS_Subset
  <2>3. Cardinality(held \cup batch) \in Nat /\ Cardinality(held) \in Nat
    BY <2>1, FS_Subset, FS_CardinalityType
  <2> QED
    BY <2>2, <2>3, HoldFacts DEF KInv, Capped
<1>2. FlagTypes
  BY DEF KInv
<1>3. {channel, ack, refused, noted} \subseteq BOOLEAN
  BY <1>2, Zenon DEF FlagTypes
<1> QED
  BY <1>1, <1>3 DEF KInv, BrokerTypes, CountTypes, ModeTypes, SetTypes, Pace, Capped,
     TypeOK

-----------------------------------------------------------------------------
(* What the settlement knows of a message.                                 *)

(* What was pulled has been received by the run or by somebody after it.   *)
Known == \A m \in held \cup batch : to[m] \in {"run", "other"}

(* Nobody but the run deletes what the run received last.                  *)
GoneIsDeleted ==
    phase # "killed" =>
        \A m \in Messages : at[m] = "gone" /\ to[m] = "run" => m \in deleted

(* What has become of m, if the settlement of it went through.             *)
IsSettled(m) == IF ack THEN Leased => m \in deleted \/ to[m] = "other"
                ELSE ~Ours(m)

(* As long as nothing was refused, what was settled is settled.            *)
Told ==
    /\ phase # "ended" => outcome = "none"
    /\ phase = "ended" => rest = {}
    /\ \/ phase = "settling" /\ ~refused
       \/ phase = "ended" /\ outcome = "ok"
       => \A m \in held \ rest : IsSettled(m)

SInv == Known /\ GoneIsDeleted /\ Told

(* A settled message stays settled while nobody pulls for this run.        *)
LEMMA SettledStays ==
    ASSUME KInv, NEW m \in Messages, IsSettled(m),
           UNCHANGED <<ack, broker>>, deleted \subseteq deleted',
           to'[m] \in {to[m], "other"}, at'[m] \in {at[m], "queue", "gone"}
                                         \/ to'[m] = "other"
    PROVE  IsSettled(m)'
BY DEF IsSettled, Leased, Ours

(* What a batch call settles, nothing in it refused.                       *)
LEMMA LandSettles ==
    ASSUME KInv, SInv, phase = "settling", NEW S \in SUBSET held, Land(S),
           UNCHANGED <<ack, broker, to>>
    PROVE  /\ \A m \in S : IsSettled(m)'
           /\ \A m \in held : IsSettled(m) => IsSettled(m)'
           /\ deleted \subseteq deleted'
           /\ \A m \in Messages : at'[m] = "gone" /\ to'[m] = "run" => m \in deleted'
<1>h. held \subseteq Messages
  BY DEF KInv, SetTypes
<1>1. CASE ack
  <2>1. /\ \A m \in Messages : at'[m] = IF m \in S /\ to[m] = "run" /\ at[m] # "gone"
                                        THEN "gone" ELSE at[m]
        /\ deleted' = deleted \cup {m \in S : to[m] = "run" /\ at[m] # "gone"}
    BY <1>1 DEF Land, Delete
  <2>2. \A m \in S : m \in deleted' \/ to[m] = "other"
    BY <1>h, <2>1 DEF SInv, Known, GoneIsDeleted
  <2>3. \A m \in S : IsSettled(m)'
    BY <1>1, <2>2 DEF IsSettled
  <2>4. \A m \in held : IsSettled(m) => IsSettled(m)'
    BY <1>1, <2>1 DEF IsSettled, Leased
  <2> QED
    BY <2>1, <2>3, <2>4 DEF SInv, GoneIsDeleted
<1>2. CASE ~ack
  <2>1. /\ \A m \in Messages : at'[m] = IF m \in S /\ Ours(m) THEN "queue" ELSE at[m]
        /\ deleted' = deleted
    BY <1>2 DEF Land, GiveBack
  <2>2. \A m \in S : IsSettled(m)'
    BY <1>2, <1>h, <2>1 DEF IsSettled, Ours
  <2>3. \A m \in held : IsSettled(m) => IsSettled(m)'
    BY <1>2, <1>h, <2>1 DEF IsSettled, Ours
  <2> QED
    BY <2>1, <2>2, <2>3 DEF SInv, GoneIsDeleted
<1> QED
  BY <1>1, <1>2

(* Every step keeps what the settlement knows.                             *)
LEMMA SStep == KInv /\ SInv /\ [Next]_vars => SInv'
<1> SUFFICES ASSUME KInv, SInv, [Next]_vars PROVE SInv'
  OBVIOUS
<1>k. BrokerTypes /\ ModeTypes /\ SetTypes /\ Capped
  BY DEF KInv
<1>s. Known /\ GoneIsDeleted /\ Told
  BY DEF SInv
<1>b. broker' = broker
  BY BrokerStays
<1>h. held \subseteq Messages /\ batch \subseteq Messages
  BY <1>k DEF SetTypes
(* The run's steps up to the end of receiving.                             *)
<1>1. ASSUME NEW S \in SUBSET Messages, Pull(S) \/ PullFails(S) PROVE SInv'
  <2>1. /\ \A m \in Messages : to'[m] = IF m \in S THEN "run" ELSE to[m]
        /\ \A m \in Messages : at'[m] = IF m \in S THEN "hidden" ELSE at[m]
        /\ held' \cup batch' \subseteq held \cup S
        /\ deleted' = deleted /\ outcome' = outcome /\ phase = "receiving"
        /\ phase' \in {"pulled", "writing", "stopping"}
    BY <1>1 DEF Pull, PullFails, Hide, Dropped
  <2>2. Known'
    BY <1>s, <1>h, <2>1 DEF Known
  <2>3. GoneIsDeleted'
    BY <1>s, <2>1 DEF GoneIsDeleted
  <2>4. Told'
    BY <1>s, <2>1 DEF Told
  <2> QED
    BY <2>2, <2>3, <2>4 DEF SInv
<1>2. CASE \/ ExtendPulled \/ ExtendPulledFails \/ NextCall \/ Received
           \/ \E m \in Messages : WriteRow(m) \/ RowFails(m)
           \/ \E acknowledge \in BOOLEAN : Settle(acknowledge)
  <2>1. /\ UNCHANGED <<at, to, deleted, outcome>>
        /\ held' \cup batch' \subseteq held \cup batch
        /\ phase \in Early
        /\ phase' \in Early \cup {"stopping"}
    BY <1>2 DEF ExtendPulled, ExtendPulledFails, NextCall, Received, WriteRow, RowFails,
       Settle, Dropped, brokerVars, Early
  <2> QED
    BY <1>s, <2>1 DEF SInv, Known, GoneIsDeleted, Told, Early
<1>3. CASE KeeperJoined
  BY <1>s, <1>3 DEF KeeperJoined, SInv, Known, GoneIsDeleted, Told, brokerVars
<1>4. ASSUME NEW C \in SUBSET rest, NEW D \in SUBSET Messages, ChunkSettled(C, D)
      PROVE  SInv'
  <2>1. /\ Land(C \ D) /\ phase = "settling" /\ phase' = phase
        /\ UNCHANGED <<broker, to, ack, held, batch, outcome>>
        /\ rest' = rest \ C /\ refused' = (refused \/ D # {})
    BY <1>4 DEF ChunkSettled
  <2>2. C \ D \subseteq held
    BY <1>k DEF Capped
  <2>3. /\ \A m \in C \ D : IsSettled(m)'
        /\ \A m \in held : IsSettled(m) => IsSettled(m)'
        /\ \A m \in Messages : at'[m] = "gone" /\ to'[m] = "run" => m \in deleted'
    BY <2>1, <2>2, LandSettles
  <2>4. Told'
    BY <1>s, <2>1, <2>3 DEF Told
  <2> QED
    BY <1>s, <2>1, <2>3, <2>4 DEF SInv, Known, GoneIsDeleted
<1>5. ASSUME NEW C \in SUBSET rest, NEW D \in SUBSET Messages, ChunkFails(C, D)
      PROVE  SInv'
  <2>1. /\ Land(D) /\ phase = "settling" /\ phase' = "ended" /\ D \subseteq C
        /\ UNCHANGED <<broker, to, ack, held, batch>>
        /\ rest' = {} /\ outcome' = "error"
    BY <1>5 DEF ChunkFails
  <2>2. D \subseteq held
    BY <1>k, <2>1 DEF Capped
  <2>3. \A m \in Messages : at'[m] = "gone" /\ to'[m] = "run" => m \in deleted'
    BY <2>1, <2>2, LandSettles
  <2> QED
    BY <1>s, <2>1, <2>3 DEF SInv, Known, GoneIsDeleted, Told
<1>6. CASE Settled
  <2>1. /\ UNCHANGED <<broker, at, to, ack, held, batch, deleted, rest>>
        /\ phase = "settling" /\ phase' = "ended" /\ rest = {}
        /\ outcome' = "ok" => ~refused
    BY <1>6 DEF Settled, brokerVars
  <2>2. \A m \in held : IsSettled(m)' = IsSettled(m)
    BY <2>1 DEF IsSettled, Leased, Ours
  <2> QED
    BY <1>s, <2>1, <2>2 DEF SInv, Known, GoneIsDeleted, Told
<1>7. ASSUME NEW sent \in BOOLEAN, NEW landed \in BOOLEAN, RabbitSettles(sent, landed)
      PROVE  SInv'
  <2> DEFINE settled == IF ack /\ landed THEN {m \in held : Ours(m)} ELSE {}
  <2>1. /\ UNCHANGED <<broker, to, ack, held, batch>>
        /\ phase = "settling" /\ phase' = "ended" /\ rest' = {} /\ ~Leased
        /\ deleted' = deleted \cup settled
        /\ \A m \in Messages : at'[m] = IF m \in settled THEN "gone"
                                        ELSE IF Ours(m) THEN "queue" ELSE at[m]
    BY <1>7 DEF RabbitSettles
  <2>2. \A m \in held : IsSettled(m)'
    BY <1>h, <2>1 DEF IsSettled, Leased, Ours
  <2>3. GoneIsDeleted'
    BY <1>s, <2>1 DEF GoneIsDeleted
  <2> QED
    BY <1>s, <2>1, <2>2, <2>3 DEF SInv, Known, Told
<1>8. CASE Keep \/ UNCHANGED vars
  <2>1. UNCHANGED <<broker, at, to, deleted, phase, batch, held, ack, rest, refused, outcome>>
    BY <1>8 DEF Keep, KeeperWakes, KeeperRests, KeeperStops, KeeperExtends,
       KeeperCallFails, runVars, brokerVars, vars
  <2>2. \A m \in held : IsSettled(m)' = IsSettled(m)
    BY <2>1 DEF IsSettled, Leased, Ours
  <2> QED
    BY <1>s, <2>1, <2>2 DEF SInv, Known, GoneIsDeleted, Told
<1>9. CASE Others \/ Tick
  <2>1. /\ UNCHANGED <<deleted, phase, batch, held, ack, rest, refused, outcome>>
        /\ \A m \in Messages : \/ to'[m] = to[m] /\ at'[m] \in {at[m], "queue"}
                               \/ to'[m] = "other"
    BY <1>9, <1>k DEF Others, BrokerCloses, GiveBack, OtherReceives, OtherSettles, Tick,
       runVars, BrokerTypes
  <2>2. \A m \in held : IsSettled(m) => IsSettled(m)'
    BY <1>b, <1>h, <2>1, SettledStays
  <2> QED
    BY <1>s, <1>h, <2>1, <2>2 DEF SInv, Known, GoneIsDeleted, Told
<1>10. CASE Kill
  BY <1>s, <1>10 DEF Kill, SInv, Known, GoneIsDeleted, Told
<1> QED
  BY <1>1, <1>2, <1>3, <1>4, <1>5, <1>6, <1>7, <1>8, <1>9, <1>10
     DEF Next, Receive, Settlement

-----------------------------------------------------------------------------
(* The keeper's race against the broker's clock.                           *)

(* Ticks until the keeper has extended m for certain: the rest of its      *)
(* wait, or of the round under way, a period unless m is still to come in  *)
(* this round, and a round.                                                *)
Until(m) == IF keeper = "waiting" THEN timer + CallTime
            ELSE IF m \in todo THEN CallTime - timer
            ELSE 2 * CallTime - timer + Period

(* As long as no extension has failed, what the run holds is hidden from   *)
(* others for longer than that; what Pub/Sub has just handed out, for      *)
(* longer than its first extension takes, and what SQS has, for longer     *)
(* than it takes to write it down.                                         *)
Timely ==
    Leased /\ phase \in Early /\ ~noted =>
        /\ \A m \in held \cup batch : Ours(m)
        /\ \A m \in held : left[m] > Until(m) \/ (phase = "pulled" /\ m \in batch)
        /\ phase = "pulled" => \A m \in batch : left[m] >= Short - lag
        /\ \A m \in batch \ held : left[m] >= Hold - lag

(* Pub/Sub's messages are on the receipt before anything is done with      *)
(* them.                                                                   *)
PulledAreHeld ==
    /\ broker = "pubsub" => batch \subseteq held
    /\ phase = "pulled" => broker = "pubsub"

(* RabbitMQ hides what it handed out as long as the channel is open.       *)
ChannelHides ==
    ~Leased =>
        /\ \A m \in Messages : left[m] = 0
        /\ channel /\ phase \in Early => \A m \in held \cup batch : Ours(m)
        /\ channel => taken = {}
        /\ ack /\ outcome = "ok" => taken = {}

(* Nothing was taken from under a leased run's hands unless it was noted.  *)
TakenIsNoted == Leased /\ taken # {} => noted

HInv == Timely /\ PulledAreHeld /\ ChannelHides /\ TakenIsNoted

(* The types of what the clock is compared with.                           *)
LEMMA ClockTypes ==
    ASSUME KInv
    PROVE  /\ lag \in 0 .. CallTime /\ timer \in 0 .. Hold
           /\ \A m \in Messages : left[m] \in 0 .. Hold
           /\ held \subseteq Messages /\ batch \subseteq Messages
           /\ broker \in {"sqs", "pubsub", "rabbitmq"}
BY BrokerAssumption DEF KInv, CountTypes, BrokerTypes, SetTypes

(* A hold that has just been set, or has been for a call's time, is long   *)
(* enough for any message the keeper's round does not hold any more.       *)
LEMMA LongEnough ==
    ASSUME KInv, phase \in Early, Leased, NEW m, m \notin todo \/ keeper = "waiting"
    PROVE  Until(m) \in Int /\ Hold - CallTime > Until(m)
<1>1. keeper \in {"waiting", "extending"}
  BY DEF KInv, Pace
<1>2. /\ timer \in 0 .. Hold
      /\ keeper = "waiting" => timer <= Period
  BY DEF KInv, Pace, CountTypes
<1> QED
  BY <1>1, <1>2, HoldFacts DEF Until

(* Nothing that the run holds in time is about to become visible.          *)
LEMMA TickIsSafe ==
    ASSUME KInv, HInv, Tick, Leased, phase \in Early, ~noted,
           NEW m \in held \cup batch
    PROVE  left[m] > 1
<1>1. /\ timer \in 0 .. Hold /\ lag \in 0 .. CallTime /\ left[m] \in 0 .. Hold
  BY ClockTypes
<1>2. /\ keeper \in {"waiting", "extending"}
      /\ keeper = "waiting" => timer > 0
      /\ keeper = "extending" => timer < CallTime
      /\ Unheld => lag < CallTime
  BY DEF KInv, Pace, Tick
<1>3. CASE m \in held /\ left[m] > Until(m)
  BY <1>1, <1>2, <1>3, HoldFacts DEF Until
<1>4. CASE phase = "pulled" /\ m \in batch
  <2>1. left[m] >= Short - lag /\ lag < CallTime
    BY <1>2, <1>4 DEF HInv, Timely, Unheld
  <2> QED
    BY <1>1, <2>1, HoldFacts
<1>5. CASE m \in batch \ held
  <2>1. left[m] >= Hold - lag /\ lag < CallTime
    BY <1>2, <1>5 DEF HInv, Timely, Unheld
  <2> QED
    BY <1>1, <2>1, HoldFacts
<1> QED
  BY <1>3, <1>4, <1>5 DEF HInv, Timely

(* Every step keeps the keeper in time.                                    *)
LEMMA TimelyStep == KInv /\ HInv /\ [Next]_vars => Timely'
<1> SUFFICES ASSUME KInv, HInv, [Next]_vars,
                    Leased', phase' \in Early, ~noted'
             PROVE  /\ \A m \in held' \cup batch' : Ours(m)'
                    /\ \A m \in held' : left'[m] > Until(m)'
                                        \/ (phase' = "pulled" /\ m \in batch')
                    /\ phase' = "pulled" => \A m \in batch' : left'[m] >= Short - lag'
                    /\ \A m \in batch' \ held' : left'[m] >= Hold - lag'
  BY DEF Timely
<1> DEFINE Goal == /\ \A m \in held' \cup batch' : Ours(m)'
                   /\ \A m \in held' : left'[m] > Until(m)'
                                       \/ (phase' = "pulled" /\ m \in batch')
                   /\ phase' = "pulled" => \A m \in batch' : left'[m] >= Short - lag'
                   /\ \A m \in batch' \ held' : left'[m] >= Hold - lag'
<1>b. broker' = broker /\ Leased
  BY BrokerStays DEF Leased
<1>c. /\ lag \in 0 .. CallTime /\ timer \in 0 .. Hold
      /\ \A m \in Messages : left[m] \in 0 .. Hold
      /\ held \subseteq Messages /\ batch \subseteq Messages
      /\ broker \in {"sqs", "pubsub"}
  BY <1>b, ClockTypes DEF Leased
<1>m. Capped /\ todo \subseteq held
  BY DEF KInv, Capped
<1>p. PulledAreHeld
  BY DEF HInv
<1>t. ASSUME phase \in Early, ~noted
      PROVE  /\ \A m \in held \cup batch : Ours(m)
             /\ \A m \in held : left[m] > Until(m) \/ (phase = "pulled" /\ m \in batch)
             /\ phase = "pulled" => \A m \in batch : left[m] >= Short - lag
             /\ \A m \in batch \ held : left[m] >= Hold - lag
  BY <1>b, <1>t DEF HInv, Timely
<1>1. ASSUME NEW S \in SUBSET Messages, Pull(S) PROVE Goal
  <2>1. /\ phase = "receiving" /\ batch = {} /\ batch' = S /\ lag' = 0
        /\ UNCHANGED <<keeper, timer, todo, noted>>
        /\ \A m \in S : at[m] = "queue"
        /\ \A m \in Messages :
              /\ at'[m] = IF m \in S THEN "hidden" ELSE at[m]
              /\ to'[m] = IF m \in S THEN "run" ELSE to[m]
              /\ left'[m] = IF m \in S THEN FirstHold ELSE left[m]
    BY <1>1, <1>m DEF Pull, Hide, Capped, keeperVars, Visible
  <2>2. /\ broker = "pubsub" => held' = held \cup S /\ phase' = "pulled"
        /\ broker = "sqs" => held' = held /\ phase' = "writing"
    BY <1>1 DEF Pull
  <2>3. /\ broker = "pubsub" => FirstHold = Short
        /\ broker = "sqs" => FirstHold = Hold
    BY FirstHoldFacts DEF KInv, BrokerTypes
  <2>4. \A m \in held : Ours(m) /\ left[m] > Until(m)
    BY <1>t, <2>1 DEF Early
  <2>5. \A m \in held : m \notin S /\ Until(m)' = Until(m)
    BY <2>1, <2>4 DEF Ours, Until
  <2>6. \A m \in held \cup S : Ours(m)'
    BY <1>c, <2>1, <2>4 DEF Ours
  <2>7. \A m \in held : left'[m] > Until(m)'
    BY <1>c, <2>1, <2>4, <2>5
  <2> QED
    BY <1>c, <2>1, <2>2, <2>3, <2>6, <2>7, HoldFacts
<1>2. ASSUME NEW S, PullFails(S) PROVE Goal
  BY <1>2 DEF PullFails, Dropped, Early
<1>3. CASE ExtendPulled
  <2>1. /\ phase = "pulled" /\ phase' = "writing"
        /\ UNCHANGED <<at, to, batch, lag, held, keeper, timer, todo, noted>>
        /\ \A m \in Messages : left'[m] = IF m \in batch /\ Ours(m) THEN Hold ELSE left[m]
    BY <1>3 DEF ExtendPulled, Extend, keeperVars
  <2>2. batch \subseteq held
    BY <1>p, <2>1 DEF PulledAreHeld
  <2>3. \A m \in held \cup batch : Ours(m) /\ Ours(m)' /\ Until(m)' = Until(m)
    BY <1>t, <2>1 DEF Early, Ours, Until
  <2>4. \A m \in held \ batch : left'[m] > Until(m)'
    BY <1>c, <1>t, <2>1, <2>3 DEF Early
  <2>5. ASSUME NEW m \in batch PROVE left'[m] > Until(m)'
    <3>1. left'[m] = Hold
      BY <1>c, <2>1, <2>3
    <3>2. keeper \in {"waiting", "extending"}
          /\ (keeper = "waiting" => timer <= Period)
      BY <1>b, <2>1 DEF KInv, Pace, Early
    <3>3. Until(m) \in Int /\ Hold > Until(m)
      BY <1>c, <3>2, HoldFacts DEF Until
    <3> QED
      BY <2>3, <3>1, <3>3
  <2> QED
    BY <2>1, <2>2, <2>3, <2>4, <2>5
<1>4. CASE ExtendPulledFails
  BY <1>4 DEF ExtendPulledFails, Dropped, Early
<1>5. ASSUME NEW m \in Messages, WriteRow(m) PROVE Goal
  <2>1. /\ phase = "writing" /\ phase' = "writing" /\ m \in batch
        /\ held' = held \cup {m} /\ batch' = batch \ {m}
        /\ UNCHANGED <<at, to, left, lag, keeper, timer, todo, noted>>
    BY <1>5 DEF WriteRow, brokerVars, keeperVars
  <2>2. \A q \in held \cup batch : Ours(q)' /\ Until(q)' = Until(q)
    BY <1>t, <2>1 DEF Early, Ours, Until
  <2>3. \A q \in held : left'[q] > Until(q)'
    BY <1>t, <2>1, <2>2 DEF Early
  <2>4. m \notin held => left'[m] > Until(m)'
    <3> SUFFICES ASSUME m \notin held PROVE left[m] > Until(m)
      BY <2>1, <2>2
    <3>1. left[m] >= Hold - lag
      BY <1>t, <2>1 DEF Early
    <3>2. m \notin todo
      BY <1>m
    <3>3. Until(m) \in Int /\ Hold - CallTime > Until(m)
      BY <1>b, <2>1, <3>2, LongEnough DEF Early
    <3> QED
      BY <1>c, <3>1, <3>3, HoldFacts
  <2>5. \A q \in batch' \ held' : left'[q] >= Hold - lag'
    BY <1>t, <2>1 DEF Early
  <2> QED
    BY <2>1, <2>2, <2>3, <2>4, <2>5
<1>6. ASSUME NEW m, RowFails(m) PROVE Goal
  BY <1>6 DEF RowFails, Dropped, Early
<1>7. CASE NextCall \/ Received
  <2>1. /\ phase \in Early \ {"pulled"} /\ phase' # "pulled" /\ batch = {}
        /\ UNCHANGED <<at, to, left, batch, held, keeper, timer, todo, noted>>
    BY <1>7, <1>m DEF NextCall, Received, Capped, brokerVars, keeperVars, Early
  <2>2. \A q \in held : Ours(q)' /\ Until(q)' = Until(q) /\ left'[q] > Until(q)'
    BY <1>t, <2>1 DEF Ours, Until
  <2> QED
    BY <2>1, <2>2
<1>8. CASE \/ \E acknowledge \in BOOLEAN : Settle(acknowledge)
           \/ Settlement \/ Kill
  BY <1>8 DEF Settle, Settlement, KeeperJoined, ChunkSettled, ChunkFails, Settled,
     RabbitSettles, Kill, Early
<1>9. CASE KeeperWakes
  <2>1. /\ UNCHANGED <<at, to, left, phase, batch, lag, held, timer, noted>>
        /\ keeper = "waiting" /\ keeper' = "extending" /\ timer = 0 /\ todo' = held
    BY <1>9 DEF KeeperWakes, brokerVars, runVars
  <2>2. \A q \in held : Until(q)' = CallTime /\ Until(q) = CallTime
    BY <2>1, HoldFacts DEF Until
  <2>3. \A q \in held \cup batch : Ours(q)'
    BY <1>t, <2>1 DEF Ours
  <2> QED
    BY <1>t, <2>1, <2>2, <2>3
<1>10. ASSUME NEW C \in SUBSET todo, UNCHANGED <<at, to, runVars, keeper, timer>>,
              keeper = "extending", ~noted, Extend(C, Hold), todo' = todo \ C
       PROVE  Goal
  <2>1. /\ UNCHANGED <<at, to, phase, batch, lag, held, keeper, timer>>
        /\ \A m \in Messages : left'[m] = IF m \in C /\ Ours(m) THEN Hold ELSE left[m]
    BY <1>10 DEF Extend, runVars
  <2>2. \A q \in held \cup batch : Ours(q)' /\ Ours(q)
    BY <1>t, <1>10, <2>1 DEF Ours
  <2>3. \A q \in held \ C : left'[q] = left[q] /\ Until(q)' = Until(q)
    BY <1>c, <1>10, <2>1 DEF Until
  <2>4. ASSUME NEW q \in C PROVE left'[q] = Hold /\ left'[q] > Until(q)'
    <3>1. left'[q] = Hold
      BY <1>c, <1>m, <2>1, <2>2
    <3>2. Until(q)' = 2 * CallTime - timer + Period
      BY <1>10, <2>1 DEF Until
    <3> QED
      BY <1>c, <3>1, <3>2, HoldFacts
  <2>5. \A q \in batch \ held : left'[q] = left[q]
    BY <1>c, <1>m, <2>1
  <2>6. phase' = "pulled" => \A q \in batch' : left'[q] >= Short - lag'
    <3> SUFFICES ASSUME phase = "pulled", NEW q \in batch PROVE left'[q] >= Short - lag
      BY <2>1
    <3>1. CASE q \in C
      BY <1>c, <2>4, <3>1, HoldFacts
    <3>2. CASE q \notin C
      BY <1>c, <1>t, <1>10, <2>1, <3>2
    <3> QED
      BY <3>1, <3>2
  <2> QED
    BY <1>m, <1>t, <1>10, <2>1, <2>2, <2>3, <2>4, <2>5, <2>6
<1>11. ASSUME NEW C \in SUBSET todo, NEW D \in SUBSET Messages, KeeperExtends(C, D)
       PROVE  Goal
  <2>1. /\ UNCHANGED <<at, to, runVars, keeper, timer>> /\ keeper = "extending"
        /\ ~noted /\ D = {} /\ Extend(C \ D, Hold) /\ todo' = todo \ C
    BY <1>11 DEF KeeperExtends
  <2>2. C \ D = C
    BY <2>1
  <2> QED
    BY <1>10, <2>1, <2>2
<1>12. ASSUME NEW C, NEW D, KeeperCallFails(C, D) PROVE Goal
  BY <1>12 DEF KeeperCallFails
<1>13. CASE KeeperRests
  <2>1. /\ UNCHANGED <<at, to, left, phase, batch, lag, held, todo, noted>>
        /\ keeper = "extending" /\ keeper' = "waiting" /\ timer' = Period /\ todo = {}
    BY <1>13 DEF KeeperRests, brokerVars, runVars
  <2>2. timer <= CallTime
    BY <2>1 DEF KInv, Pace
  <2>3. \A q \in held : /\ Until(q)' = Period + CallTime
                        /\ Until(q) = 2 * CallTime - timer + Period
    BY <2>1 DEF Until
  <2>4. \A q \in held \cup batch : Ours(q)'
    BY <1>t, <2>1 DEF Ours
  <2>5. \A q \in held : left[q] > Until(q) => left'[q] > Until(q)'
    BY <1>c, <2>1, <2>2, <2>3, HoldFacts
  <2> QED
    BY <1>t, <2>1, <2>4, <2>5
<1>14. CASE KeeperStops
  BY <1>14 DEF KeeperStops, Early, runVars
<1>15. CASE BrokerCloses
  BY <1>15, <1>b DEF BrokerCloses
<1>16. ASSUME NEW m \in Messages, OtherReceives(m) \/ OtherSettles(m) PROVE Goal
  <2>1. /\ UNCHANGED <<left, phase, batch, lag, held, keeper, timer, todo, noted>>
        /\ ~Ours(m)
        /\ \A q \in Messages : q # m => at'[q] = at[q] /\ to'[q] = to[q]
    BY <1>16 DEF OtherReceives, OtherSettles, runVars, keeperVars, Ours, KInv, BrokerTypes
  <2>2. \A q \in held \cup batch : Ours(q)' /\ Until(q)' = Until(q)
    BY <1>c, <1>t, <2>1 DEF Ours, Until
  <2> QED
    BY <1>t, <2>1, <2>2
<1>17. CASE Tick
  <2>1. /\ UNCHANGED <<to, phase, batch, held, keeper, todo, noted>>
        /\ \A q \in Messages : at'[q] = IF Ours(q) /\ left[q] = 1 THEN "queue" ELSE at[q]
        /\ \A q \in Messages : left[q] > 0 => left'[q] = left[q] - 1
        /\ keeper = "waiting" => timer' = timer - 1
        /\ keeper = "extending" => timer' = timer + 1
        /\ lag' = IF Unheld THEN lag + 1 ELSE lag
    BY <1>17 DEF Tick
  <2>2. \A q \in held \cup batch : left[q] > 1 /\ Ours(q)
    BY <1>b, <1>t, <1>17, <2>1, TickIsSafe
  <2>3. \A q \in held \cup batch : Ours(q)' /\ left'[q] = left[q] - 1
    BY <1>c, <2>1, <2>2 DEF Ours
  <2>4. keeper \in {"waiting", "extending"}
    BY <1>b, <2>1 DEF KInv, Pace
  <2>5. \A q \in held : Until(q)' = Until(q) - 1 /\ Until(q) \in Int
    BY <1>c, <2>1, <2>4, HoldFacts DEF Until
  <2>6. \A q \in held : left[q] > Until(q) => left'[q] > Until(q)'
    BY <1>c, <2>3, <2>5
  <2>7. phase = "pulled" => \A q \in batch : left'[q] >= Short - lag'
    BY <1>c, <1>t, <2>1, <2>3, HoldFacts DEF Unheld
  <2>8. \A q \in batch \ held : left'[q] >= Hold - lag'
    <3> SUFFICES ASSUME NEW q \in batch \ held PROVE left'[q] >= Hold - lag'
      OBVIOUS
    <3>1. lag' = lag + 1
      BY <2>1 DEF Unheld
    <3>2. left[q] >= Hold - lag
      BY <1>t, <2>1
    <3> QED
      BY <1>c, <2>3, <3>1, <3>2, HoldFacts
  <2> QED
    BY <1>t, <2>1, <2>3, <2>6, <2>7, <2>8
<1>18. CASE UNCHANGED vars
  <2>1. UNCHANGED <<at, to, left, phase, batch, lag, held, keeper, timer, todo, noted>>
    BY <1>18 DEF vars, brokerVars, runVars, keeperVars
  <2>2. \A q \in held \cup batch : Ours(q)' /\ Until(q)' = Until(q)
    BY <1>t, <2>1 DEF Ours, Until
  <2> QED
    BY <1>t, <2>1, <2>2
<1> QED
  BY <1>1, <1>2, <1>3, <1>4, <1>5, <1>6, <1>7, <1>8, <1>9, <1>11, <1>12, <1>13,
     <1>14, <1>15, <1>16, <1>17, <1>18 DEF Next, Receive, Keep, Others

(* Every step keeps Pub/Sub's messages on the receipt.                     *)
LEMMA PulledAreHeldStep == PulledAreHeld /\ [Next]_vars => PulledAreHeld'
<1> SUFFICES ASSUME PulledAreHeld, [Next]_vars PROVE PulledAreHeld'
  OBVIOUS
<1>b. broker' = broker
  BY BrokerStays
<1>1. ASSUME NEW S \in SUBSET Messages, Pull(S) PROVE PulledAreHeld'
  BY <1>1, <1>b DEF Pull, PulledAreHeld
<1>2. CASE Kill \/ \E S \in SUBSET Messages : PullFails(S)
  BY <1>2, <1>b DEF Kill, PullFails, Dropped, PulledAreHeld
<1>3. CASE ~Kill /\ \A S \in SUBSET Messages : ~Pull(S) /\ ~PullFails(S)
  <2>1. batch' \subseteq batch /\ held \subseteq held'
    BY <1>3 DEF Next, Receive, Settlement, Keep, Others, ExtendPulled,
       ExtendPulledFails, WriteRow, RowFails, NextCall, Received, Settle, KeeperJoined,
       ChunkSettled, ChunkFails, Settled, RabbitSettles, KeeperWakes, KeeperRests,
       KeeperStops, KeeperExtends, KeeperCallFails, BrokerCloses, OtherReceives,
       OtherSettles, Tick, vars, runVars, Dropped
  <2>2. phase' = phase \/ phase' # "pulled"
    BY <1>3 DEF Next, Receive, Settlement, Keep, Others, ExtendPulled,
       ExtendPulledFails, WriteRow, RowFails, NextCall, Received, Settle, KeeperJoined,
       ChunkSettled, ChunkFails, Settled, RabbitSettles, KeeperWakes, KeeperRests,
       KeeperStops, KeeperExtends, KeeperCallFails, BrokerCloses, OtherReceives,
       OtherSettles, Tick, vars, runVars, Dropped
  <2> QED
    BY <1>b, <2>1, <2>2 DEF PulledAreHeld
<1> QED
  BY <1>1, <1>2, <1>3

(* Every step keeps what RabbitMQ's channel hides.                         *)
LEMMA ChannelHidesStep == KInv /\ Told /\ HInv /\ [Next]_vars => ChannelHides'
<1> SUFFICES ASSUME KInv, Told, HInv, [Next]_vars, ~Leased'
             PROVE  /\ \A m \in Messages : left'[m] = 0
                    /\ channel' /\ phase' \in Early => \A m \in held' \cup batch' : Ours(m)'
                    /\ channel' => taken' = {}
                    /\ ack' /\ outcome' = "ok" => taken' = {}
  BY DEF ChannelHides
<1> DEFINE Goal == /\ \A m \in Messages : left'[m] = 0
                   /\ channel' /\ phase' \in Early => \A m \in held' \cup batch' : Ours(m)'
                   /\ channel' => taken' = {}
                   /\ ack' /\ outcome' = "ok" => taken' = {}
<1>b. broker' = broker /\ ~Leased /\ broker = "rabbitmq"
  BY BrokerStays DEF Leased
<1>k. keeper = "none" /\ phase # "pulled"
  BY <1>b DEF KInv, Pace, HInv, PulledAreHeld
<1>h. /\ held \subseteq Messages /\ batch \subseteq Messages
      /\ taken \subseteq held
      /\ phase # "ended" => outcome = "none"
  BY DEF KInv, SetTypes, Capped, Told
<1>c. /\ \A m \in Messages : left[m] = 0
      /\ channel /\ phase \in Early => \A m \in held \cup batch : Ours(m)
      /\ channel => taken = {}
      /\ ack /\ outcome = "ok" => taken = {}
  BY <1>b DEF HInv, ChannelHides
<1>1. ASSUME NEW S \in SUBSET Messages, Pull(S) PROVE Goal
  <2>1. FirstHold = 0
    BY <1>b, FirstHoldFacts DEF KInv, BrokerTypes
  <2>2. /\ phase = "receiving" /\ batch' = S /\ held' = held
        /\ UNCHANGED <<channel, taken, ack, outcome>>
        /\ \A m \in Messages :
              /\ at'[m] = IF m \in S THEN "hidden" ELSE at[m]
              /\ to'[m] = IF m \in S THEN "run" ELSE to[m]
              /\ left'[m] = IF m \in S THEN 0 ELSE left[m]
    BY <1>1, <1>b, <2>1 DEF Pull, Hide
  <2> QED
    BY <1>c, <1>h, <2>2 DEF Ours, Early
<1>2. ASSUME NEW S \in SUBSET Messages, PullFails(S) PROVE Goal
  <2>1. FirstHold = 0
    BY <1>b, FirstHoldFacts DEF KInv, BrokerTypes
  <2>2. /\ phase' = "stopping" /\ ~ack' /\ UNCHANGED <<channel, taken>>
        /\ \A m \in Messages : left'[m] = IF m \in S THEN 0 ELSE left[m]
    BY <1>2, <2>1 DEF PullFails, Hide, Dropped
  <2> QED
    BY <1>c, <2>2 DEF Early
<1>3. CASE \/ NextCall \/ Received \/ KeeperJoined \/ UNCHANGED vars
           \/ \E m \in Messages : WriteRow(m) \/ RowFails(m)
           \/ \E acknowledge \in BOOLEAN : Settle(acknowledge)
  <2>1. /\ UNCHANGED <<at, to, left, channel, taken, outcome>>
        /\ phase' \in Early => phase \in Early /\ held' \cup batch' \subseteq held \cup batch
        /\ phase # "ended" \/ ack' = ack
    BY <1>3 DEF NextCall, Received, KeeperJoined, WriteRow, RowFails, Dropped, Settle,
       vars, runVars, brokerVars, Early
  <2> QED
    BY <1>c, <1>h, <2>1 DEF Ours
<1>4. ASSUME NEW sent \in BOOLEAN, NEW landed \in BOOLEAN, RabbitSettles(sent, landed)
      PROVE  Goal
  <2>1. /\ UNCHANGED <<left, taken, ack>> /\ ~channel' /\ phase' = "ended"
        /\ sent => channel
        /\ ack /\ ~sent /\ held # {} => outcome' = "error"
    BY <1>4 DEF RabbitSettles
  <2>2. ack /\ outcome' = "ok" => taken = {}
    BY <1>c, <1>h, <2>1
  <2> QED
    BY <1>c, <2>1, <2>2 DEF Early
<1>5. CASE BrokerCloses
  <2>1. /\ \A m \in Messages : left'[m] \in {0, left[m]}
        /\ ~channel' /\ UNCHANGED <<taken, ack, outcome>>
    BY <1>5 DEF BrokerCloses, GiveBack, runVars
  <2> QED
    BY <1>c, <2>1
<1>6. CASE Kill
  <2>1. /\ \A m \in Messages : left'[m] \in {0, left[m]}
        /\ ~channel' /\ taken' = {}
    BY <1>6, <1>b DEF Kill, GiveBack
  <2> QED
    BY <1>c, <2>1
<1>7. ASSUME NEW m \in Messages, OtherReceives(m) \/ OtherSettles(m) PROVE Goal
  <2>1. /\ UNCHANGED <<left, channel, phase, held, batch, ack, outcome>>
        /\ ~Ours(m)
        /\ \A q \in Messages : q # m => at'[q] = at[q] /\ to'[q] = to[q]
        /\ taken' = taken \/ (taken' = taken \cup {m} /\ m \in held /\ phase \in Early)
    BY <1>7 DEF OtherReceives, OtherSettles, runVars, Ours, KInv, BrokerTypes, Early
  <2>2. channel /\ phase \in Early => m \notin held \cup batch
    BY <1>c, <2>1
  <2>3. channel /\ phase \in Early => \A q \in held \cup batch : Ours(q)'
    BY <1>c, <1>h, <2>1, <2>2 DEF Ours
  <2>4. channel => taken' = {}
    BY <1>c, <2>1, <2>2
  <2>5. outcome = "ok" => taken' = taken
    BY <1>h, <2>1 DEF Early
  <2> QED
    BY <1>c, <2>1, <2>3, <2>4, <2>5
<1>8. CASE Tick
  <2>1. /\ UNCHANGED <<to, channel, phase, held, batch, taken, ack, outcome>>
        /\ \A q \in Messages : at'[q] = IF Ours(q) /\ left[q] = 1 THEN "queue" ELSE at[q]
        /\ \A q \in Messages : left'[q] = IF left[q] > 0 THEN left[q] - 1 ELSE 0
    BY <1>8 DEF Tick
  <2>2. \A q \in Messages : left'[q] = 0 /\ at'[q] = at[q]
    BY <1>c, <2>1
  <2> QED
    BY <1>c, <1>h, <2>1, <2>2 DEF Ours
<1>9. CASE \/ ExtendPulled \/ ExtendPulledFails \/ Settled \/ Keep
           \/ \E C \in SUBSET rest, D \in SUBSET Messages :
                 ChunkSettled(C, D) \/ ChunkFails(C, D)
  BY <1>9, <1>b, <1>k DEF ExtendPulled, ExtendPulledFails, Settled, Keep, KeeperWakes,
     KeeperRests, KeeperStops, KeeperExtends, KeeperCallFails, ChunkSettled, ChunkFails
<1> QED
  BY <1>1, <1>2, <1>3, <1>4, <1>5, <1>6, <1>7, <1>8, <1>9
     DEF Next, Receive, Settlement, Others

(* Every step notes what it loses.                                         *)
LEMMA TakenIsNotedStep == KInv /\ HInv /\ [Next]_vars => TakenIsNoted'
<1> SUFFICES ASSUME KInv, HInv, [Next]_vars, Leased', taken' # {} PROVE noted'
  BY DEF TakenIsNoted
<1>b. Leased
  BY BrokerStays DEF Leased
<1>t. taken # {} => noted
  BY <1>b DEF HInv, TakenIsNoted
<1>1. ASSUME NEW m \in Messages, OtherReceives(m) PROVE noted'
  <2>1. noted' = noted /\ ~Ours(m)
    BY <1>1 DEF OtherReceives, keeperVars, Ours
  <2>2. taken' = taken \/ (m \in held /\ phase \in Early)
    BY <1>1 DEF OtherReceives, Early
  <2>3. m \in held /\ phase \in Early => noted
    BY <1>b, <2>1 DEF HInv, Timely
  <2> QED
    BY <1>t, <2>1, <2>2, <2>3
<1>2. CASE Kill
  BY <1>2 DEF Kill
<1>3. CASE ~Kill /\ \A m \in Messages : ~OtherReceives(m)
  <2>1. taken' = taken
    BY <1>3 DEF Next, Receive, Settlement, Keep, Others, Pull, PullFails, ExtendPulled,
       ExtendPulledFails, WriteRow, RowFails, NextCall, Received, Settle, KeeperJoined,
       ChunkSettled, ChunkFails, Settled, RabbitSettles, KeeperWakes, KeeperRests,
       KeeperStops, KeeperExtends, KeeperCallFails, BrokerCloses,
       OtherSettles, Tick, vars, keeperVars
  <2>2. noted => noted'
    BY <1>3, ZenonT(30) DEF Next, Receive, Settlement, Keep, Others, Pull, PullFails, ExtendPulled,
       ExtendPulledFails, WriteRow, RowFails, NextCall, Received, Settle, KeeperJoined,
       ChunkSettled, ChunkFails, Settled, RabbitSettles, KeeperWakes, KeeperRests,
       KeeperStops, KeeperExtends, KeeperCallFails, BrokerCloses,
       OtherSettles, Tick, vars, keeperVars
  <2> QED
    BY <1>t, <2>1, <2>2
<1> QED
  BY <1>1, <1>2, <1>3

(* The inductive invariant of the reports.                                 *)
TInv == KInv /\ SInv /\ HInv

LEMMA TInit == Init => TInv
<1> SUFFICES ASSUME Init PROVE TInv
  OBVIOUS
<1>1. SInv
  BY DEF Init, SInv, Known, GoneIsDeleted, Told
<1>2. HInv
  BY DEF Init, HInv, Timely, PulledAreHeld, ChannelHides, TakenIsNoted
<1> QED
  BY <1>1, <1>2, KInit DEF TInv

LEMMA TStep == TInv /\ [Next]_vars => TInv'
<1> SUFFICES ASSUME TInv, [Next]_vars PROVE TInv'
  OBVIOUS
<1>1. KInv' /\ SInv'
  BY KStep, SStep DEF TInv
<1>2. Timely' /\ PulledAreHeld' /\ TakenIsNoted'
  BY TimelyStep, PulledAreHeldStep, TakenIsNotedStep DEF TInv, HInv
<1>3. ChannelHides'
  BY ChannelHidesStep DEF TInv, SInv
<1> QED
  BY <1>1, <1>2, <1>3 DEF TInv, HInv

(* What a queue source reports is so, and what somebody else received      *)
(* while the run held it is not kept from the report: for any number of    *)
(* messages, batches and failures, as long as three calls and half a hold  *)
(* fit into a hold (lease.rs: Keeper; sqs.rs, pubsub.rs, rabbitmq.rs:      *)
(* receive, settle).                                                       *)
THEOREM QueueTellsTheorem == Spec => []QueueTells
<1>1. TInv => QueueTells
  <2> SUFFICES ASSUME TInv PROVE QueueTells
    OBVIOUS
  <2>1. TypeOK
    BY KTypes DEF TInv
  <2>2. LapsesAreTold
    BY DEF TInv, HInv, TakenIsNoted, ChannelHides, LapsesAreTold
  <2>3. ReportIsTrue
    BY DEF TInv, SInv, Told, IsSettled, ReportIsTrue
  <2> QED
    BY <2>1, <2>2, <2>3 DEF QueueTells
<1> QED
  BY <1>1, TInit, TStep, PTL DEF Spec

-----------------------------------------------------------------------------
(* The watermark.                                                          *)

(* A bounded set of natural numbers has a greatest one.                    *)
LEMMA MaxFacts ==
    ASSUME NEW N \in Nat, NEW S \in SUBSET (0 .. N), S # {}
    PROVE  \E x \in S : \A y \in S : y <= x
<1> DEFINE T == {n \in 0 .. N : \A y \in S : y <= n}
<1>1. T \in SUBSET Nat /\ N \in T
  OBVIOUS
<1>2. IsWellFoundedOn(OpToRel(<, Nat), Nat)
  BY NatLessThanWellFounded
<1>3. PICK x \in T : \A y \in T : ~ (<<y, x>> \in OpToRel(<, Nat))
  BY <1>1, <1>2, WFMin
<1>4. x \in T /\ \A y \in T : ~ (y < x)
  BY <1>3, <1>1 DEF OpToRel
<1>5. x \in S
  <2> SUFFICES ASSUME x \notin S PROVE FALSE
    OBVIOUS
  <2>4. x \in 0 .. N /\ \A y \in S : y <= x
    BY <1>4
  <2>5. \A y \in S : y \in Nat
    OBVIOUS
  <2>0. /\ x \in Nat /\ x <= N /\ \A y \in S : y <= x
        /\ \A y \in S : y \in Nat
    BY <2>4, <2>5
  <2>3. PICK y \in S : TRUE
    OBVIOUS
  <2>1. x # 0 /\ \A z \in S : z < x
    BY <2>0, <2>3
  <2>2. x - 1 \in T
    <3>1. x - 1 \in 0 .. N
      BY <2>0, <2>1
    <3>2. \A z \in S : z <= x - 1
      BY <2>0, <2>1
    <3> QED
      BY <3>1, <3>2
  <2> QED
    BY <1>4, <2>0, <2>2
<1> QED
  BY <1>3, <1>5

(* The rows are numbered as they come, and a value is none or a number.    *)
RowsLoaded == \E n \in 0 .. MaxRows : value \in [1 .. n -> 0 .. MaxRows]

MarkTypes ==
    /\ source \in Mark!Sources /\ what \in Mark!Reads /\ reading \in {"idle", "reading"}
    /\ {incremental, start, twice} \subseteq BOOLEAN /\ cap \in Nat
    /\ saved \in [what : Mark!Reads, value : 0 .. MaxRows] \cup {Mark!None}
    /\ delivered \in [Mark!Reads -> SUBSET DOMAIN value]
    /\ cut \subseteq Mark!Reads /\ mute \subseteq Mark!Reads
    /\ selected \subseteq present /\ present \subseteq DOMAIN value

(* A position was reached, nothing that was delivered lies above it, and   *)
(* one that is no value is known to be mute.                               *)
Reached ==
    saved # Mark!None =>
        /\ incremental
        /\ saved.value # 0 => \E r \in DOMAIN value : value[r] >= saved.value
        /\ \A r \in delivered[saved.what] : value[r] <= saved.value
        /\ saved.value = 0 => saved.what \in mute

(* What comes while a statement runs lies above all that it could see.     *)
ComesLater ==
    reading = "reading" =>
        \A r \in DOMAIN value \ present : \A s \in present :
            value[r] = 0 \/ value[r] > value[s]

(* What the statement selected, of what was there.                         *)
Selected ==
    reading = "reading" =>
        /\ ~incremental => selected = present
        /\ incremental /\ Mark!Mine =>
            /\ \A r \in selected : value[r] > saved.value
            /\ \/ saved.value = 0 /\ selected = {}
               \/ \A r \in present : value[r] > saved.value => r \in selected
        /\ incremental /\ ~Mark!Mine =>
            \A r \in present : Mark!Wanted(r) => r \in selected

MarkInv ==
    /\ RowsLoaded /\ MarkTypes /\ Reached /\ ComesLater /\ Selected
    /\ Mark!SkipsNothing /\ Mark!ReadsOnce

LEMMA MarkValues ==
    ASSUME RowsLoaded
    PROVE  /\ \A r \in DOMAIN value : value[r] \in 0 .. MaxRows
           /\ IsFiniteSet(DOMAIN value)
           /\ Cardinality(DOMAIN value) \in 0 .. MaxRows
           /\ DOMAIN value = 1 .. Cardinality(DOMAIN value)
<1>1. PICK n \in 0 .. MaxRows : value \in [1 .. n -> 0 .. MaxRows]
  BY DEF RowsLoaded
<1>2. DOMAIN value = 1 .. n
  BY <1>1
<1>3. IsFiniteSet(1 .. n) /\ Cardinality(1 .. n) = n
  BY <1>1, FS_Interval, RowsAssumption
<1> QED
  BY <1>1, <1>2, <1>3

LEMMA MarkStarts == Mark!Init => MarkInv
<1> SUFFICES ASSUME Mark!Init PROVE MarkInv
  OBVIOUS
<1>0. 1 .. 0 = {} /\ value = [r \in {} |-> Mark!Null]
  BY DEF Mark!Init
<1>1. value \in [1 .. 0 -> 0 .. MaxRows] /\ DOMAIN value = {}
  <2>1. value = [r \in 1 .. 0 |-> Mark!Null] /\ DOMAIN value = {}
    BY <1>0
  <2> QED
    BY <2>1
<1>2. RowsLoaded
  BY <1>1, RowsAssumption DEF RowsLoaded
<1>3. source \in Mark!Sources /\ incremental \in BOOLEAN /\ start \in BOOLEAN /\ cap \in Nat
  <2>1. source \in Mark!Sources /\ Mark!Asks
    BY DEF Mark!Init, Mark!Sources, Mark!BigquerySettings, Mark!SnowflakeSettings,
       Mark!ClickhouseSettings, Mark!SqlserverSettings, Mark!MongoSettings
  <2>2. incremental \in BOOLEAN /\ start \in BOOLEAN
    BY <2>1, Zenon DEF Mark!Asks
  <2>3. cap \in Nat
    BY <2>1, RowsAssumption DEF Mark!Asks
  <2> QED
    BY <2>1, <2>2, <2>3
<1>4. /\ saved = Mark!None /\ delivered = [w \in Mark!Reads |-> {}] /\ reading = "idle"
      /\ twice = FALSE /\ cut = {} /\ mute = {} /\ present = {} /\ selected = {} /\ what = "x"
  BY DEF Mark!Init
<1>5. MarkTypes
  BY <1>1, <1>3, <1>4 DEF MarkTypes, Mark!Reads
<1> QED
  BY <1>1, <1>2, <1>4, <1>5 DEF MarkInv, Reached, ComesLater, Selected, Mark!SkipsNothing,
     Mark!ReadsOnce

LEMMA MarkCounts == ASSUME NEW S PROVE Mark!Cardinality(S) = Cardinality(S)
BY DEF Mark!Cardinality, Cardinality

(* A load adds rows whose value is none or above every earlier one.        *)
LEMMA MarkLoads ==
    ASSUME MarkInv, NEW n \in 1 .. 2, NEW v \in 0 .. MaxRows, Mark!Load(n, v)
    PROVE  MarkInv'
<1> DEFINE c == Cardinality(DOMAIN value)
<1>0. /\ c \in Nat /\ c <= MaxRows /\ DOMAIN value = 1 .. c
      /\ \A r \in DOMAIN value : value[r] \in 0 .. MaxRows
  BY MarkValues, RowsAssumption DEF MarkInv
<1>1. /\ c + n <= MaxRows
      /\ value' = [r \in 1 .. c + n |-> IF r \in DOMAIN value THEN value[r] ELSE v]
      /\ UNCHANGED <<source, incremental, cap, start, what, saved, delivered, twice, cut, mute,
                     reading, present, selected>>
  <2>1. /\ c + n <= MaxRows
        /\ value' = [r \in 1 .. c + n |-> IF r \in DOMAIN value THEN value[r] ELSE v]
    <3>1. Mark!Cardinality(DOMAIN value) = c
      BY MarkCounts
    <3>2. /\ Mark!Cardinality(DOMAIN value) + n <= MaxRows
          /\ value' = [r \in 1 .. Mark!Cardinality(DOMAIN value) + n |->
                          IF r \in DOMAIN value THEN value[r] ELSE v]
      BY Zenon DEF Mark!Load, Mark!Loaded
    <3> HIDE DEF c
    <3> QED
      BY <3>1, <3>2
  <2>2. UNCHANGED <<source, incremental, cap, start, what, saved, delivered, twice, cut, mute,
                    reading, present, selected>>
    BY DEF Mark!Load, Mark!Settings, Mark!Ghosts
  <2> QED
    BY <2>1, <2>2
<1>2. v = 0 \/ \A s \in DOMAIN value : v > value[s]
  <2> SUFFICES ASSUME v # 0, NEW s \in DOMAIN value PROVE v > value[s]
    OBVIOUS
  <2> DEFINE V == {value[r] : r \in DOMAIN value}
  <2>1. v = Mark!Highest + 1
    BY DEF Mark!Load, Mark!Null
  <2>2. V \in SUBSET (0 .. MaxRows) /\ V # {} /\ value[s] \in V
    BY <1>0
  <2>3. Mark!Highest = CHOOSE x \in V : \A y \in V : x >= y
    BY DEF Mark!Highest, Mark!Loaded, Mark!Max
  <2>7. \A y \in V : y \in Nat
    BY <1>0
  <2> HIDE DEF V
  <2>4. \E x \in V : \A y \in V : y <= x
    BY <2>2, MaxFacts, RowsAssumption
  <2>5. \E x \in V : \A y \in V : x >= y
    BY <2>2, <2>4
  <2>6. Mark!Highest \in V /\ \A y \in V : Mark!Highest >= y
    BY <2>3, <2>5
  <2>8. Mark!Highest \in Nat /\ value[s] \in Nat /\ Mark!Highest >= value[s]
    BY <2>2, <2>6, <2>7
  <2> QED
    BY <2>1, <2>8
<1> HIDE DEF c
<1>3. /\ DOMAIN value' = 1 .. c + n /\ DOMAIN value \subseteq DOMAIN value'
      /\ \A r \in DOMAIN value : value'[r] = value[r]
      /\ \A r \in DOMAIN value' \ DOMAIN value : value'[r] = v
      /\ value' \in [1 .. c + n -> 0 .. MaxRows]
  BY <1>0, <1>1
<1>4. RowsLoaded'
  BY <1>0, <1>1, <1>3 DEF RowsLoaded
<1>5. MarkTypes'
  BY <1>1, <1>3 DEF MarkInv, MarkTypes
<1>d. /\ present \subseteq DOMAIN value /\ selected \subseteq present
      /\ \A w \in Mark!Reads : delivered[w] \subseteq DOMAIN value
      /\ saved # Mark!None => saved.what \in Mark!Reads /\ saved.value \in 0 .. MaxRows
  BY DEF MarkInv, MarkTypes, Mark!None
<1>6. Reached'
  BY <1>0, <1>1, <1>3, <1>d DEF MarkInv, Reached
<1>7. ComesLater'
  BY <1>0, <1>1, <1>2, <1>3, <1>d DEF MarkInv, ComesLater
<1>8. Selected'
  BY <1>1, <1>3, <1>d DEF MarkInv, Selected, Mark!Mine, Mark!Wanted
<1>9. Mark!SkipsNothing'
  <2> SUFFICES ASSUME saved # Mark!None, saved.what \notin cut, NEW r \in DOMAIN value',
                      value'[r] # 0, start => value'[r] > StartAt,
                      r \notin delivered[saved.what]
               PROVE  value'[r] > saved.value
    BY <1>1 DEF Mark!SkipsNothing, Mark!Unread, Mark!Loaded, Mark!Wanted, Mark!Null
  <2>1. CASE r \in DOMAIN value
    BY <1>3, <2>1 DEF MarkInv, Mark!SkipsNothing, Mark!Unread, Mark!Loaded, Mark!Wanted, Mark!Null
  <2>2. CASE r \notin DOMAIN value
    <3>1. value'[r] = v /\ v # 0
      BY <1>3, <2>2
    <3>2. \A s \in DOMAIN value : v > value[s]
      BY <1>2, <3>1
    <3> QED
      BY <1>0, <1>d, <3>1, <3>2 DEF MarkInv, Reached
  <2> QED
    BY <2>1, <2>2
<1>10. Mark!ReadsOnce'
  BY <1>1 DEF MarkInv, Mark!ReadsOnce
<1> QED
  BY <1>4, <1>5, <1>6, <1>7, <1>8, <1>9, <1>10 DEF MarkInv

(* Between runs the node may be pointed elsewhere, or its position         *)
(* forgotten; a run that fails leaves everything.                          *)
LEMMA MarkRests ==
    ASSUME MarkInv, Mark!Retarget \/ Mark!Forget \/ Mark!Fail
    PROVE  MarkInv'
<1>1. CASE Mark!Retarget
  BY <1>1 DEF MarkInv, RowsLoaded, MarkTypes, Reached, ComesLater, Selected, Mark!SkipsNothing,
     Mark!ReadsOnce, Mark!Retarget, Mark!Settings, Mark!Ghosts, Mark!Unread, Mark!Loaded,
     Mark!Wanted
<1>2. CASE Mark!Forget
  <2>1. /\ reading = "idle" /\ saved' = Mark!None
        /\ delivered' = [delivered EXCEPT ![saved.what] = {}]
        /\ cut' \subseteq cut /\ mute' \subseteq mute
        /\ UNCHANGED <<source, incremental, cap, start, what, value, twice, reading, present,
                       selected>>
    BY <1>2 DEF Mark!Forget, Mark!Settings
  <2>2. delivered' \in [Mark!Reads -> SUBSET DOMAIN value]
    BY <2>1 DEF MarkInv, MarkTypes
  <2> QED
    BY <2>1, <2>2 DEF MarkInv, RowsLoaded, MarkTypes, Reached, ComesLater, Selected,
       Mark!SkipsNothing, Mark!ReadsOnce
<1>3. CASE Mark!Fail
  <2>1. /\ reading' = "idle" /\ present' = {} /\ selected' = {}
        /\ UNCHANGED <<source, incremental, cap, start, what, value, saved, delivered, twice, cut,
                       mute>>
    BY <1>3 DEF Mark!Fail, Mark!Settings, Mark!Ghosts
  <2> QED
    BY <2>1 DEF MarkInv, RowsLoaded, MarkTypes, Reached, ComesLater, Selected,
       Mark!SkipsNothing, Mark!ReadsOnce, Mark!Unread, Mark!Loaded, Mark!Wanted
<1> QED
  BY <1>1, <1>2, <1>3

(* A run starts, with what its statement selects of what is there.         *)
LEMMA MarkReads ==
    ASSUME MarkInv,
           \/ Mark!ReadBigquery \/ Mark!ReadSnowflake \/ Mark!ReadClickhouse
           \/ Mark!ReadSqlserver \/ Mark!ReadMongo
    PROVE  MarkInv'
<1>1. PICK S :
        /\ Mark!Start(S)
        /\ \/ incremental /\ Mark!Mine /\ saved.value = 0 /\ S = {}
           \/ S \in {Mark!Selects(DOMAIN value), Mark!Selects(Mark!Valued(DOMAIN value))}
  BY DEF Mark!ReadBigquery, Mark!ReadSnowflake, Mark!ReadClickhouse, Mark!ReadSqlserver,
     Mark!ReadMongo, Mark!BigqueryStatement, Mark!SnowflakeStatement, Mark!SqlserverStatement,
     Mark!ClickhouseStatement, Mark!ResumeFrom, Mark!Loaded, Mark!Null
<1>2. /\ reading' = "reading" /\ present' = DOMAIN value /\ selected' = S
      /\ UNCHANGED <<source, incremental, cap, start, what, value, saved, delivered, twice, cut,
                     mute>>
  BY <1>1 DEF Mark!Start, Mark!Loaded, Mark!Settings, Mark!Ghosts
<1>3. /\ S \subseteq DOMAIN value
      /\ ~incremental => S = DOMAIN value
      /\ incremental /\ Mark!Mine =>
            /\ \A r \in S : value[r] > saved.value
            /\ \/ saved.value = 0 /\ S = {}
               \/ \A r \in DOMAIN value : value[r] > saved.value => r \in S
      /\ incremental /\ ~Mark!Mine =>
            \A r \in DOMAIN value : Mark!Wanted(r) => r \in S
  <2>1. /\ \A r \in DOMAIN value : value[r] \in Nat
        /\ Mark!Mine => saved.value \in Nat
    BY MarkValues, RowsAssumption DEF MarkInv, MarkTypes, Mark!Mine
  <2>2. CASE incremental /\ Mark!Mine /\ saved.value = 0 /\ S = {}
    BY <2>2
  <2>3. CASE S \in {Mark!Selects(DOMAIN value), Mark!Selects(Mark!Valued(DOMAIN value))}
    BY <2>1, <2>3, RowsAssumption DEF Mark!Selects, Mark!Valued, Mark!Above, Mark!Loaded,
       Mark!Wanted, Mark!Null
  <2> QED
    BY <1>1, <2>2, <2>3
<1>4. RowsLoaded' /\ Reached' /\ ComesLater' /\ Mark!ReadsOnce'
  BY <1>2 DEF MarkInv, RowsLoaded, Reached, ComesLater, Mark!ReadsOnce
<1>5. MarkTypes'
  BY <1>2, <1>3 DEF MarkInv, MarkTypes
<1>6. Selected'
  BY <1>2, <1>3 DEF Selected, Mark!Mine, Mark!Wanted
<1>7. Mark!SkipsNothing'
  BY <1>2 DEF MarkInv, Mark!SkipsNothing, Mark!Unread, Mark!Loaded, Mark!Wanted
<1> QED
  BY <1>4, <1>5, <1>6, <1>7 DEF MarkInv

(* What the rows read are: the first of what was selected, all of it where *)
(* there is no cap; and the highest rank of them.                          *)
LEMMA MarkFirst ==
    ASSUME MarkInv, NEW S \in Mark!Prefixes
    PROVE  /\ S \subseteq selected
           /\ cap = 0 => S = selected
           /\ incremental => \A r \in S : \A s \in selected \ S : Mark!Rank(r) <= Mark!Rank(s)
<1>1. /\ S \subseteq selected
      /\ Mark!Cardinality(S) = IF cap = 0 \/ cap > Mark!Cardinality(selected)
                               THEN Mark!Cardinality(selected) ELSE cap
      /\ incremental => \A r \in S : \A s \in selected \ S : Mark!Rank(r) <= Mark!Rank(s)
  BY DEF Mark!Prefixes
<1>2. IsFiniteSet(selected)
  <2>1. IsFiniteSet(DOMAIN value) /\ selected \subseteq DOMAIN value
    BY MarkValues DEF MarkInv, MarkTypes
  <2> QED
    BY <2>1, FS_Subset
<1>3. cap = 0 => Cardinality(S) = Cardinality(selected)
  BY <1>1, MarkCounts
<1> QED
  BY <1>1, <1>2, <1>3, FS_Subset

LEMMA MarkLast ==
    ASSUME MarkInv, NEW S \in Mark!Prefixes, S # {}
    PROVE  /\ \E r \in S : Mark!LastOf(S) = Mark!Rank(r)
           /\ \A r \in S : Mark!Rank(r) <= Mark!LastOf(S)
           /\ \A r \in DOMAIN value : /\ value[r] \in Nat /\ Mark!Rank(r) \in Nat
                                      /\ value[r] # 0 => Mark!Rank(r) = value[r]
                                      /\ Mark!Rank(r) <= MaxRows => Mark!Rank(r) = value[r]
<1> DEFINE V == {Mark!Rank(r) : r \in S}
<1>1. S \subseteq DOMAIN value
  BY MarkFirst DEF MarkInv, MarkTypes
<1>2. \A r \in DOMAIN value : /\ value[r] \in Nat /\ Mark!Rank(r) \in 0 .. MaxRows + 1
                              /\ value[r] # 0 => Mark!Rank(r) = value[r]
                              /\ Mark!Rank(r) <= MaxRows => Mark!Rank(r) = value[r]
  BY MarkValues, RowsAssumption DEF MarkInv, Mark!Rank, Mark!Null
<1>3. V \in SUBSET (0 .. MaxRows + 1) /\ V # {} /\ MaxRows + 1 \in Nat
  BY <1>1, <1>2, RowsAssumption
<1>4. Mark!LastOf(S) = CHOOSE x \in V : \A y \in V : x >= y
  BY DEF Mark!LastOf, Mark!Max
<1>5. \A y \in V : y \in Nat
  BY <1>3
<1>9. \A r \in S : Mark!Rank(r) \in V
  OBVIOUS
<1>10. \A y \in V : \E r \in S : y = Mark!Rank(r)
  OBVIOUS
<1> HIDE DEF V
<1>6. \E x \in V : \A y \in V : y <= x
  BY <1>3, MaxFacts
<1>7. \E x \in V : \A y \in V : x >= y
  BY <1>5, <1>6
<1>8. Mark!LastOf(S) \in V /\ \A y \in V : Mark!LastOf(S) >= y
  BY <1>4, <1>7
<1>11. \A r \in S : Mark!Rank(r) <= Mark!LastOf(S)
  BY <1>5, <1>8, <1>9
<1> QED
  BY <1>2, <1>8, <1>10, <1>11, RowsAssumption

(* A run succeeds: its position moves to the highest value it read, past   *)
(* nothing that it did not deliver.                                        *)
LEMMA MarkFinishes ==
    ASSUME MarkInv, Mark!Finish
    PROVE  MarkInv' /\ Mark!CatchesUpStep
<1>1. PICK S \in Mark!Prefixes :
        /\ saved' = Mark!Checkpoint(S)
        /\ delivered' = [delivered EXCEPT ![what] = IF Mark!Mine THEN delivered[what] \cup S ELSE S]
        /\ twice' = (twice \/ (Mark!Mine /\ S \cap delivered[what] # {}))
        /\ cut' = IF incremental /\ \E r \in S, s \in Mark!Valued(selected \ S) : value[r] = value[s]
                  THEN cut \cup {what} ELSE IF Mark!Mine THEN cut ELSE cut \ {what}
        /\ mute' = IF saved' # saved /\ saved'.value = 0
                   THEN mute \cup {what} ELSE IF Mark!Mine THEN mute ELSE mute \ {what}
  BY DEF Mark!Finish, Mark!Null
<1>2. /\ reading = "reading" /\ reading' = "idle" /\ present' = {} /\ selected' = {}
      /\ UNCHANGED <<source, incremental, cap, start, what, value>>
  BY DEF Mark!Finish, Mark!Settings
<1>t. /\ what \in Mark!Reads /\ incremental \in BOOLEAN /\ twice \in BOOLEAN
      /\ delivered \in [Mark!Reads -> SUBSET DOMAIN value]
      /\ cut \subseteq Mark!Reads /\ mute \subseteq Mark!Reads
      /\ selected \subseteq present /\ present \subseteq DOMAIN value
      /\ saved \in [what : Mark!Reads, value : 0 .. MaxRows] \cup {Mark!None}
      /\ saved # Mark!None => saved.what \in Mark!Reads /\ saved.value \in 0 .. MaxRows
      /\ \A r \in DOMAIN value : value[r] \in 0 .. MaxRows
  BY MarkValues DEF MarkInv, MarkTypes, Mark!None
<1>f. /\ S \subseteq selected
      /\ cap = 0 => S = selected
      /\ incremental => \A r \in S : \A s \in selected \ S : Mark!Rank(r) <= Mark!Rank(s)
  BY MarkFirst
<1>3. /\ delivered'[what] = IF Mark!Mine THEN delivered[what] \cup S ELSE S
      /\ \A w \in Mark!Reads : w # what =>
            /\ delivered'[w] = delivered[w]
            /\ w \in cut' <=> w \in cut
            /\ w \in mute' <=> w \in mute
      /\ delivered' \in [Mark!Reads -> SUBSET DOMAIN value]
      /\ cut' \subseteq Mark!Reads /\ mute' \subseteq Mark!Reads
      /\ Mark!Mine => cut \subseteq cut' /\ mute \subseteq mute'
  BY <1>1, <1>t, <1>f
<1> DEFINE L == Mark!LastOf(S)
<1>4. \/ saved' = saved
      \/ /\ incremental /\ S # {} /\ L <= MaxRows
         /\ saved' = [what |-> what, value |-> L]
  <2>1. saved' = IF ~incremental \/ S = {} \/ L > MaxRows THEN saved
                 ELSE [what |-> what, value |-> L]
    BY <1>1 DEF Mark!Checkpoint
  <2>2. S # {} => L \in Nat
    BY MarkLast, <1>f, <1>t
  <2> HIDE DEF L
  <2> QED
    BY <2>1, <2>2, RowsAssumption
<1>5. ASSUME S # {}
      PROVE  /\ L \in Nat
             /\ \E r \in S : L = Mark!Rank(r)
             /\ \A r \in S : Mark!Rank(r) <= L
             /\ \A r \in DOMAIN value : /\ value[r] \in Nat /\ Mark!Rank(r) \in Nat
                                        /\ value[r] # 0 => Mark!Rank(r) = value[r]
                                        /\ Mark!Rank(r) <= MaxRows => Mark!Rank(r) = value[r]
  BY MarkLast, <1>5, <1>f, <1>t
<1> HIDE DEF L
(* Where the position moves: all that was read lies at or below it, some   *)
(* at it.                                                                  *)
<1>6. ASSUME incremental, S # {}, L <= MaxRows
      PROVE  /\ \E r \in S : value[r] = L
             /\ \A r \in S : value[r] <= L
             /\ \A r \in selected \ S : value[r] # 0 => value[r] >= L
             /\ Mark!Mine => L > saved.value
  <2>1. /\ \A r \in S : Mark!Rank(r) = value[r] /\ value[r] <= L /\ r \in DOMAIN value
        /\ \E r \in S : value[r] = L
    BY <1>5, <1>6, <1>f, <1>t, RowsAssumption
  <2>2. \A r \in selected \ S : value[r] # 0 => value[r] >= L
    BY <1>5, <1>6, <1>f, <1>t, <2>1
  <2>3. Mark!Mine => L > saved.value
    <3> SUFFICES ASSUME Mark!Mine PROVE L > saved.value
      OBVIOUS
    <3>1. \A r \in selected : value[r] > saved.value
      BY <1>2, <1>6 DEF MarkInv, Selected
    <3> QED
      BY <1>f, <2>1, <3>1
  <2> QED
    BY <2>1, <2>2, <2>3
<1>7. RowsLoaded' /\ ComesLater' /\ Selected'
  BY <1>2 DEF MarkInv, RowsLoaded, ComesLater, Selected
<1>8. MarkTypes'
  <2>1. saved' \in [what : Mark!Reads, value : 0 .. MaxRows] \cup {Mark!None}
    <3>1. CASE saved' = saved
      BY <1>t, <3>1
    <3>2. CASE incremental /\ S # {} /\ L <= MaxRows /\ saved' = [what |-> what, value |-> L]
      <4>1. L \in 0 .. MaxRows
        BY <1>5, <3>2, RowsAssumption
      <4> QED
        BY <1>t, <3>2, <4>1
    <3> QED
      BY <1>4, <3>1, <3>2
  <2>2. twice' \in BOOLEAN
    BY <1>1
  <2> QED
    BY <1>2, <1>3, <1>t, <2>1, <2>2 DEF MarkInv, MarkTypes
<1>9. Reached'
  <2> SUFFICES ASSUME saved' # Mark!None
               PROVE  /\ incremental
                      /\ saved'.value # 0 => \E r \in DOMAIN value : value[r] >= saved'.value
                      /\ \A r \in delivered'[saved'.what] : value[r] <= saved'.value
                      /\ saved'.value = 0 => saved'.what \in mute'
    BY <1>2 DEF Reached
  <2>1. CASE saved' = saved
    <3>1. /\ incremental
          /\ saved.value # 0 => \E r \in DOMAIN value : value[r] >= saved.value
          /\ \A r \in delivered[saved.what] : value[r] <= saved.value
          /\ saved.value = 0 => saved.what \in mute
      BY <2>1 DEF MarkInv, Reached
    <3>2. CASE saved.what # what
      BY <1>3, <1>t, <2>1, <3>1, <3>2
    <3>3. CASE saved.what = what
      <4>1. Mark!Mine
        BY <2>1, <3>3 DEF Mark!Mine
      <4>2. S = {}
        <5> SUFFICES ASSUME S # {} PROVE FALSE
          OBVIOUS
        <5>1. \A r \in selected : value[r] > saved.value
          BY <1>2, <3>1, <4>1 DEF MarkInv, Selected
        <5>2. \A r \in S : r \in DOMAIN value /\ value[r] # 0 /\ value[r] \in 0 .. MaxRows
          BY <1>f, <1>t, <2>1, <5>1
        <5>3. L <= MaxRows
          BY <1>5, <5>2
        <5>4. L > saved.value
          BY <1>6, <3>1, <4>1, <5>3
        <5>5. saved' = [what |-> what, value |-> L]
          <6>1. ~(L > MaxRows)
            BY <1>5, <5>3, RowsAssumption
          <6> QED
            BY <1>1, <3>1, <6>1 DEF Mark!Checkpoint, L
        <5>6. saved.value \in Nat /\ L \in Nat /\ saved'.value = L
          BY <1>5, <1>t, <2>1, <5>5
        <5> QED
          BY <2>1, <5>4, <5>6
      <4> QED
        BY <1>3, <2>1, <3>1, <3>3, <4>1, <4>2
    <3> QED
      BY <3>2, <3>3
  <2>2. CASE incremental /\ S # {} /\ L <= MaxRows /\ saved' = [what |-> what, value |-> L]
    <3>0. saved'.what = what /\ saved'.value = L /\ L \in Nat
      BY <1>5, <2>2
    <3>1. \E r \in DOMAIN value : value[r] >= L
      <4>1. PICK r \in S : value[r] = L
        BY <1>6, <2>2
      <4>2. r \in DOMAIN value /\ value[r] >= L
        BY <1>f, <1>t, <3>0, <4>1
      <4> QED
        BY <4>2
    <3>2. \A r \in delivered'[what] : value[r] <= L
      <4> SUFFICES ASSUME NEW r \in delivered'[what] PROVE value[r] <= L
        OBVIOUS
      <4>1. CASE r \in S
        BY <1>6, <2>2, <4>1
      <4>2. CASE r \notin S
        <5>1. Mark!Mine /\ r \in delivered[what] /\ saved # Mark!None /\ saved.what = what
          BY <1>3, <4>2 DEF Mark!Mine
        <5>2. value[r] <= saved.value /\ L > saved.value
          BY <1>6, <2>2, <5>1 DEF MarkInv, Reached
        <5>3. value[r] \in Nat /\ saved.value \in Nat
          BY <1>t, <5>1
        <5> QED
          BY <3>0, <5>2, <5>3
      <4> QED
        BY <4>1, <4>2
    <3>3. L = 0 => what \in mute'
      <4> SUFFICES ASSUME L = 0 PROVE what \in mute'
        OBVIOUS
      <4>1. CASE saved' # saved
        BY <1>1, <3>0, <4>1
      <4>2. CASE saved' = saved
        <5>1. Mark!Mine /\ saved.value = 0 /\ saved.what = what
          BY <2>2, <3>0, <4>2, <2>2 DEF Mark!Mine, Mark!None
        <5> QED
          BY <1>6, <2>2, <3>0, <5>1
      <4> QED
        BY <4>1, <4>2
    <3> QED
      BY <2>2, <3>0, <3>1, <3>2, <3>3
  <2> QED
    BY <1>4, <2>1, <2>2
<1>10. Mark!SkipsNothing'
  <2> SUFFICES ASSUME saved' # Mark!None, saved'.what \notin cut', NEW r \in DOMAIN value,
                      Mark!Wanted(r), r \notin delivered'[saved'.what]
               PROVE  value[r] > saved'.value
    BY <1>2 DEF Mark!SkipsNothing, Mark!Unread, Mark!Loaded, Mark!Wanted
  <2>0. saved # Mark!None /\ saved.what \notin cut /\ r \notin delivered[saved.what] =>
          value[r] > saved.value
    BY DEF MarkInv, Mark!SkipsNothing, Mark!Unread, Mark!Loaded
  <2>v. value[r] # 0 /\ value[r] \in Nat
    BY <1>t DEF Mark!Wanted, Mark!Null
  <2>1. CASE saved' = saved
    <3>1. CASE saved.what # what
      BY <1>3, <1>t, <2>0, <2>1, <3>1
    <3>2. CASE saved.what = what
      <4>1. Mark!Mine
        BY <2>1, <3>2 DEF Mark!Mine
      <4>2. saved.what \notin cut /\ r \notin delivered[saved.what]
        BY <1>3, <2>1, <3>2, <4>1
      <4> QED
        BY <2>0, <2>1, <4>2
    <3> QED
      BY <3>1, <3>2
  <2>2. CASE incremental /\ S # {} /\ L <= MaxRows /\ saved' = [what |-> what, value |-> L]
    <3>0. saved'.what = what /\ saved'.value = L /\ L \in Nat
      BY <1>5, <2>2
    <3>1. CASE r \in selected
      <4>1. r \in selected \ S /\ value[r] >= L
        BY <1>3, <1>6, <2>2, <2>v, <3>0, <3>1
      <4>2. value[r] # L
        <5> SUFFICES ASSUME value[r] = L PROVE FALSE
          OBVIOUS
        <5>1. PICK s \in S : value[s] = L
          BY <1>6, <2>2
        <5>2. r \in Mark!Valued(selected \ S) /\ value[s] = value[r]
          BY <2>v, <4>1, <5>1 DEF Mark!Valued, Mark!Null
        <5>3. what \in cut'
          BY <1>1, <2>2, <5>2
        <5> QED
          BY <3>0, <5>3
      <4> QED
        BY <2>v, <3>0, <4>1, <4>2
    <3>2. CASE r \notin present
      <4>1. PICK s \in S : value[s] = L
        BY <1>6, <2>2
      <4>2. s \in present
        BY <1>f, <1>t, <4>1
      <4>3. value[r] = 0 \/ value[r] > value[s]
        BY <1>2, <3>2, <4>2 DEF MarkInv, ComesLater
      <4> QED
        BY <2>v, <3>0, <4>1, <4>3
    <3>3. CASE r \in present \ selected
      <4>1. Mark!Mine
        BY <1>2, <2>2, <3>3 DEF MarkInv, Selected
      <4>2. saved # Mark!None /\ saved.what = what
        BY <4>1 DEF Mark!Mine
      <4>3. saved.what \notin cut /\ r \notin delivered[saved.what]
        BY <1>3, <3>0, <4>1, <4>2
      <4>4. value[r] > saved.value
        BY <2>0, <4>2, <4>3
      <4>5. selected # {}
        BY <1>f, <2>2
      <4>6. r \in selected
        BY <1>2, <2>2, <3>3, <4>1, <4>4, <4>5 DEF MarkInv, Selected
      <4> QED
        BY <3>3, <4>6
    <3> QED
      BY <3>1, <3>2, <3>3
  <2> QED
    BY <1>4, <2>1, <2>2
<1>11. Mark!ReadsOnce'
  <2> SUFFICES ASSUME incremental, Mark!Mine, NEW r \in S, r \in delivered[what] PROVE FALSE
    BY <1>1, <1>2 DEF MarkInv, Mark!ReadsOnce
  <2>1. saved # Mark!None /\ saved.what = what
    BY DEF Mark!Mine
  <2>2. value[r] <= saved.value
    BY <2>1 DEF MarkInv, Reached
  <2>3. value[r] > saved.value
    BY <1>2, <1>f DEF MarkInv, Selected
  <2>4. value[r] \in Nat /\ saved.value \in Nat
    BY <1>f, <1>t, <2>1
  <2> QED
    BY <2>2, <2>3, <2>4
<1>12. Mark!CatchesUpStep
  <2> SUFFICES ASSUME cap = 0, what \notin cut', what \notin mute', NEW r \in present,
                      Mark!Wanted(r), r \notin delivered'[what]
               PROVE  FALSE
    BY DEF Mark!CatchesUpStep
  <2>1. S = selected /\ r \notin selected
    BY <1>3, <1>f
  <2>2. incremental /\ Mark!Mine
    BY <1>2, <1>t, <2>1 DEF MarkInv, Selected
  <2>3. /\ saved # Mark!None /\ saved.what = what
        /\ what \notin cut /\ what \notin mute /\ r \notin delivered[what]
    BY <1>3, <2>2 DEF Mark!Mine
  <2>4. value[r] > saved.value /\ saved.value # 0
    <3>1. r \in Mark!Unread
      BY <1>t, <2>3 DEF Mark!Unread, Mark!Loaded
    <3>2. value[r] > saved.value
      BY <2>3, <3>1 DEF MarkInv, Mark!SkipsNothing
    <3>3. saved.value # 0
      BY <2>3 DEF MarkInv, Reached
    <3> QED
      BY <3>2, <3>3
  <2>5. r \in selected
    BY <1>2, <2>2, <2>4 DEF MarkInv, Selected
  <2> QED
    BY <2>1, <2>5
<1> QED
  BY <1>7, <1>8, <1>9, <1>10, <1>11, <1>12 DEF MarkInv

LEMMA MarkSteps ==
    MarkInv /\ [Mark!Next]_mark => MarkInv' /\ (Mark!CatchesUpStep \/ delivered' = delivered)
<1> SUFFICES ASSUME MarkInv, [Mark!Next]_mark
             PROVE  MarkInv' /\ (Mark!CatchesUpStep \/ delivered' = delivered)
  OBVIOUS
<1>1. ASSUME NEW n \in 1 .. 2, NEW v \in 0 .. MaxRows, Mark!Load(n, v)
      PROVE  MarkInv' /\ delivered' = delivered
  BY <1>1, MarkLoads DEF Mark!Load, Mark!Ghosts
<1>2. CASE Mark!Retarget
  BY <1>2, MarkRests DEF Mark!Retarget, Mark!Ghosts
<1>3. CASE Mark!Forget
  <2>1. reading = "idle"
    BY <1>3 DEF Mark!Forget
  <2> QED
    BY <1>3, <2>1, MarkRests DEF Mark!CatchesUpStep
<1>4. CASE Mark!Fail
  BY <1>4, MarkRests DEF Mark!Fail, Mark!Ghosts
<1>5. CASE \/ Mark!ReadBigquery \/ Mark!ReadSnowflake \/ Mark!ReadClickhouse
           \/ Mark!ReadSqlserver \/ Mark!ReadMongo
  <2>1. delivered' = delivered
    BY <1>5 DEF Mark!ReadBigquery, Mark!ReadSnowflake, Mark!ReadClickhouse, Mark!ReadSqlserver,
       Mark!ReadMongo, Mark!Start, Mark!Ghosts
  <2> QED
    BY <1>5, <2>1, MarkReads
<1>6. CASE Mark!Finish
  BY <1>6, MarkFinishes
<1>7. CASE UNCHANGED mark
  BY <1>7 DEF mark, MarkInv, RowsLoaded, MarkTypes, Reached, ComesLater, Selected,
     Mark!SkipsNothing, Mark!ReadsOnce, Mark!Unread, Mark!Loaded, Mark!Wanted, Mark!Mine
<1> QED
  BY <1>1, <1>2, <1>3, <1>4, <1>5, <1>6, <1>7 DEF Mark!Next

(* For any number of rows, any cap, any start and any sequence of loads,   *)
(* failures, retargets and forgets (the five warehouse and document        *)
(* sources): the position never lies past a row that was not delivered,    *)
(* but for a cap that fell between rows of one value; a run that goes on   *)
(* from its own position delivers nothing again; and an uncapped run that  *)
(* succeeds has delivered every row that was there.                        *)
THEOREM WatermarkReadsTheorem == ServicesSpec => WatermarkReads
<1> DEFINE Inv == which = "mark" => MarkInv
           Catches == which = "mark" => Mark!CatchesUpStep
<1>1. ServicesInit => Inv
  BY MarkStarts DEF ServicesInit
<1>2. Inv /\ [ServicesNext]_all => Inv' /\ [Catches]_all
  <2> SUFFICES ASSUME Inv, [ServicesNext]_all PROVE Inv' /\ [Catches]_all
    OBVIOUS
  <2>1. which' = which /\ (which = "mark" => [Mark!Next]_mark)
    BY DEF ServicesNext, all
  <2>2. delivered' = delivered => Mark!CatchesUpStep
    BY DEF Mark!CatchesUpStep
  <2> QED
    BY <2>1, <2>2, MarkSteps
<1>3. Inv => (which = "mark" => Mark!TypeOK /\ Mark!SkipsNothing /\ Mark!ReadsOnce)
  <2> SUFFICES ASSUME MarkInv PROVE Mark!TypeOK
    BY DEF MarkInv
  <2>1. DOMAIN value \subseteq 1 .. MaxRows
    BY MarkValues, RowsAssumption DEF MarkInv
  <2> QED
    BY <2>1 DEF MarkInv, MarkTypes, Mark!TypeOK, Mark!Loaded
<1> QED
  BY <1>1, <1>2, <1>3, PTL DEF ServicesSpec, WatermarkReads

-----------------------------------------------------------------------------
(* A call of the HTTP layer. CallTimes are the back-off after each attempt *)
(* and the latest that each goes out, as CallsAssumption has them.         *)
Waits ==
    CHOOSE waits \in [1 .. Attempts + 1 -> 0 .. Margin] :
        /\ waits[1] = Backoff
        /\ \A n \in 1 .. Attempts : waits[n + 1] = 2 * waits[n]
        /\ \E latest \in [1 .. Attempts + 1 -> 0 .. Margin] :
            /\ latest[1] = MinInterval
            /\ \A n \in 1 .. Attempts :
                /\ latest[n] + MinInterval =< latest[n + 1]
                /\ latest[n] + Timeout + waits[n] =< latest[n + 1]
Latest ==
    CHOOSE latest \in [1 .. Attempts + 1 -> 0 .. Margin] :
        /\ latest[1] = MinInterval
        /\ \A n \in 1 .. Attempts :
            /\ latest[n] + MinInterval =< latest[n + 1]
            /\ latest[n] + Timeout + Waits[n] =< latest[n + 1]

LEMMA CallTimes ==
    /\ Waits \in [1 .. Attempts + 1 -> 0 .. Margin] /\ Waits[1] = Backoff
    /\ \A n \in 1 .. Attempts : Waits[n + 1] = 2 * Waits[n]
    /\ Latest \in [1 .. Attempts + 1 -> 0 .. Margin] /\ Latest[1] = MinInterval
    /\ \A n \in 1 .. Attempts :
        /\ Latest[n] + MinInterval =< Latest[n + 1]
        /\ Latest[n] + Timeout + Waits[n] =< Latest[n + 1]
<1>1. /\ Waits \in [1 .. Attempts + 1 -> 0 .. Margin] /\ Waits[1] = Backoff
      /\ \A n \in 1 .. Attempts : Waits[n + 1] = 2 * Waits[n]
      /\ \E latest \in [1 .. Attempts + 1 -> 0 .. Margin] :
            /\ latest[1] = MinInterval
            /\ \A n \in 1 .. Attempts :
                /\ latest[n] + MinInterval =< latest[n + 1]
                /\ latest[n] + Timeout + Waits[n] =< latest[n + 1]
  BY CallsAssumption, Zenon DEF Waits
<1>2. /\ Latest \in [1 .. Attempts + 1 -> 0 .. Margin] /\ Latest[1] = MinInterval
      /\ \A n \in 1 .. Attempts :
            /\ Latest[n] + MinInterval =< Latest[n + 1]
            /\ Latest[n] + Timeout + Waits[n] =< Latest[n + 1]
  BY <1>1, Zenon DEF Latest
<1> QED
  BY <1>1, <1>2, Zenon

LEMMA CallNumbers ==
    /\ Attempts \in Nat /\ Backoff \in Nat /\ MinInterval \in Nat /\ MaxRetryAfter \in Nat
    /\ Timeout \in Nat /\ Margin \in Nat /\ Lasts \in Nat
    /\ Margin < Lasts /\ -1 \notin Clients
BY CallsAssumption

LEMMA EachTime ==
    ASSUME NEW n \in 1 .. Attempts + 1
    PROVE  Waits[n] \in Nat /\ Latest[n] \in Nat /\ Latest[n] =< Margin
BY CallTimes, CallNumbers

LEMMA NextTime ==
    ASSUME NEW n \in 1 .. Attempts
    PROVE  /\ Waits[n] \in Nat /\ Latest[n] \in Nat
           /\ Waits[n + 1] \in Nat /\ Latest[n + 1] \in Nat
           /\ Waits[n + 1] = 2 * Waits[n]
           /\ Latest[n] + MinInterval =< Latest[n + 1]
           /\ Latest[n] + Timeout + Waits[n] =< Latest[n + 1]
           /\ Latest[n + 1] =< Margin
<1>1. n \in 1 .. Attempts + 1 /\ n + 1 \in 1 .. Attempts + 1
  BY CallNumbers
<1> QED
  BY <1>1, EachTime, CallTimes

LEMMA FirstTime ==
    /\ Waits[1] = Backoff /\ Latest[1] = MinInterval /\ MinInterval =< Margin
<1>1. 1 \in 1 .. Attempts + 1
  BY CallNumbers
<1> QED
  BY <1>1, EachTime, CallTimes

CallTypes ==
    /\ cache \in 0 .. Lasts /\ lock \in Clients \cup {-1}
    /\ calling \in [Clients -> {"idle", "token", "fetch", "pace", "send", "sleep"}]
    /\ attempt \in [Clients -> 0 .. Attempts + 1]
    /\ wait \in [Clients -> Nat]
    /\ due \in [Clients -> Nat]
    /\ since \in [Clients -> 0 .. MinInterval]
    /\ auth \in [Clients -> Nat]
    /\ told \in [Clients -> BOOLEAN]

(* Who trades for a token holds the mutex, and found none in the cache.     *)
LockHeld ==
    /\ \A t \in Clients : calling[t] = "fetch" <=> lock = t
    /\ lock # -1 => cache =< Margin

(* The attempts made so far, and the wait that comes next.                  *)
Counted(t) ==
    /\ calling[t] \in {"idle", "token", "fetch"} => attempt[t] = 0
    /\ calling[t] \in {"token", "fetch"} => wait[t] = Backoff
    /\ calling[t] \in {"send", "sleep"} => attempt[t] >= 1
    /\ calling[t] = "send" => wait[t] = Waits[attempt[t]]
    /\ calling[t] \in {"sleep", "pace"} =>
        attempt[t] =< Attempts /\ wait[t] = Waits[attempt[t] + 1]

(* How much of the margin a call has used up: nothing but its first pace    *)
(* before the first request; the time since the last request, where the     *)
(* client still knows it; and never more than that request's timeout, the   *)
(* wait after it and the pace of the next.                                  *)
Fresher(t) ==
    /\ calling[t] = "pace" /\ attempt[t] = 0 => auth[t] + since[t] > Margin
    /\ calling[t] = "send" => due[t] =< Timeout
    /\ calling[t] = "send" /\ due[t] = Timeout => auth[t] + Latest[attempt[t]] > Margin
    /\ calling[t] = "send" /\ attempt[t] =< Attempts =>
        auth[t] + Latest[attempt[t]] + Timeout > Margin + due[t]
    /\ calling[t] = "sleep" =>
        /\ due[t] =< Waits[attempt[t]]
        /\ auth[t] + Latest[attempt[t]] + Timeout + Waits[attempt[t]] > Margin + due[t]
    /\ calling[t] = "pace" /\ attempt[t] >= 1 => auth[t] + Latest[attempt[t] + 1] > Margin
    /\ calling[t] \in {"send", "sleep", "pace"} /\ attempt[t] \in 1 .. Attempts =>
        (since[t] < MinInterval => auth[t] + Latest[attempt[t]] + since[t] > Margin)

CallInv ==
    /\ CallTypes /\ LockHeld
    /\ \A t \in Clients : Counted(t) /\ (~told[t] => Fresher(t))

Untouched(u) ==
    /\ calling'[u] = calling[u] /\ attempt'[u] = attempt[u] /\ wait'[u] = wait[u]
    /\ due'[u] = due[u] /\ since'[u] = since[u] /\ auth'[u] = auth[u] /\ told'[u] = told[u]

(* A step of one client leaves what is known of the others as it was.       *)
LEMMA OneCallMoves ==
    ASSUME CallInv, NEW t \in Clients, \A u \in Clients \ {t} : Untouched(u),
           CallTypes', LockHeld', Counted(t)', ~told'[t] => Fresher(t)'
    PROVE  CallInv'
<1>1. ASSUME NEW u \in Clients \ {t} PROVE Counted(u)' /\ (~told'[u] => Fresher(u)')
  <2>1. Counted(u) /\ (~told[u] => Fresher(u)) /\ Untouched(u)
    BY DEF CallInv
  <2> QED
    BY <2>1 DEF Counted, Fresher, Untouched
<1> QED
  BY <1>1 DEF CallInv

LEMMA CallStarts == Http!Init => CallInv
BY CallNumbers
DEF Http!Init, Http!None, CallInv, CallTypes, LockHeld, Counted, Fresher

LEMMA CallMoves ==
    ASSUME CallInv, NEW t \in Clients, Http!BeginCall(t) \/ Http!Move(t)
    PROVE  CallInv' /\ Http!PacedStep
<1> USE CallNumbers DEF Http!None, Http!Goto
<1>0. CallTypes /\ LockHeld /\ Counted(t) /\ (~told[t] => Fresher(t))
  BY DEF CallInv
<1> DEFINE Done == CallTypes' /\ LockHeld' /\ Counted(t)' /\ (~told'[t] => Fresher(t)')
                   /\ (\A u \in Clients \ {t} : Untouched(u)) /\ Http!PacedStep
<1>1. CASE Http!BeginCall(t)
  <2>1. CallTypes'
    BY <1>0, <1>1 DEF Http!BeginCall, CallTypes
  <2>2. LockHeld'
    BY <1>0, <1>1 DEF Http!BeginCall, CallTypes, LockHeld
  <2>3. Counted(t)' /\ Fresher(t)'
    BY <1>0, <1>1 DEF Http!BeginCall, CallTypes, Counted, Fresher
  <2>4. (\A u \in Clients \ {t} : Untouched(u)) /\ Http!PacedStep
    BY <1>0, <1>1 DEF Http!BeginCall, CallTypes, Untouched, Http!PacedStep
  <2> QED
    BY <2>1, <2>2, <2>3, <2>4, OneCallMoves
<1>2. CASE Http!UseCached(t)
  <2>1. CallTypes'
    BY <1>0, <1>2 DEF Http!UseCached, CallTypes
  <2>2. LockHeld'
    BY <1>0, <1>2 DEF Http!UseCached, Http!MayLook, CallTypes, LockHeld
  <2>3. Counted(t)' /\ (~told'[t] => Fresher(t)')
    BY <1>0, <1>2, FirstTime DEF Http!UseCached, Http!Fresh, CallTypes, Counted, Fresher
  <2>4. (\A u \in Clients \ {t} : Untouched(u)) /\ Http!PacedStep
    BY <1>0, <1>2 DEF Http!UseCached, CallTypes, Untouched, Http!PacedStep
  <2> QED
    BY <2>1, <2>2, <2>3, <2>4, OneCallMoves
<1>3. CASE Http!StartFetch(t)
  <2>1. CallTypes'
    BY <1>0, <1>3 DEF Http!StartFetch, CallTypes
  <2>2. LockHeld'
    BY <1>0, <1>3 DEF Http!StartFetch, Http!MayLook, Http!Fresh, CallTypes, LockHeld
  <2>3. Counted(t)' /\ Fresher(t)'
    BY <1>0, <1>3 DEF Http!StartFetch, CallTypes, Counted, Fresher
  <2>4. (\A u \in Clients \ {t} : Untouched(u)) /\ Http!PacedStep
    BY <1>0, <1>3 DEF Http!StartFetch, CallTypes, Untouched, Http!PacedStep
  <2> QED
    BY <2>1, <2>2, <2>3, <2>4, OneCallMoves
<1>4. CASE Http!Fetched(t)
  <2>1. CallTypes'
    BY <1>0, <1>4 DEF Http!Fetched, CallTypes
  <2>2. LockHeld'
    BY <1>0, <1>4 DEF Http!Fetched, CallTypes, LockHeld
  <2>3. Counted(t)' /\ (~told'[t] => Fresher(t)')
    BY <1>0, <1>4, FirstTime DEF Http!Fetched, CallTypes, Counted, Fresher
  <2>4. (\A u \in Clients \ {t} : Untouched(u)) /\ Http!PacedStep
    BY <1>0, <1>4 DEF Http!Fetched, CallTypes, Untouched, Http!PacedStep
  <2> QED
    BY <2>1, <2>2, <2>3, <2>4, OneCallMoves
<1>5. ASSUME Http!EndCall(t), calling[t] \in {"fetch", "send"}, UNCHANGED <<cache, since>>,
             lock' = IF calling[t] = "fetch" THEN -1 ELSE lock
      PROVE  CallInv' /\ Http!PacedStep
  <2>1. CallTypes'
    BY <1>0, <1>5 DEF Http!EndCall, CallTypes
  <2>2. LockHeld'
    BY <1>0, <1>5 DEF Http!EndCall, CallTypes, LockHeld
  <2>3. Counted(t)' /\ Fresher(t)'
    BY <1>0, <1>5 DEF Http!EndCall, CallTypes, Counted, Fresher
  <2>4. (\A u \in Clients \ {t} : Untouched(u)) /\ Http!PacedStep
    BY <1>0, <1>5 DEF Http!EndCall, CallTypes, Untouched, Http!PacedStep
  <2> QED
    BY <2>1, <2>2, <2>3, <2>4, OneCallMoves
<1>6. CASE Http!FetchFails(t)
  BY <1>5, <1>6 DEF Http!FetchFails
<1>7. CASE Http!SendRequest(t)
  <2>0. attempt[t] =< Attempts /\ attempt'[t] = attempt[t] + 1 /\ since[t] = MinInterval
        /\ since'[t] = 0 /\ auth'[t] = auth[t] /\ due'[t] = Timeout /\ calling'[t] = "send"
        /\ wait'[t] = wait[t] /\ told'[t] = told[t] /\ calling[t] = "pace"
    BY <1>0, <1>7 DEF Http!SendRequest, Http!PaceOver, CallTypes, Counted
  <2>1. CallTypes'
    BY <1>0, <1>7, <2>0 DEF Http!SendRequest, CallTypes
  <2>2. LockHeld'
    BY <1>0, <1>7 DEF Http!SendRequest, CallTypes, LockHeld
  <2>3. Counted(t)'
    BY <1>0, <2>0 DEF CallTypes, Counted
  <2>4. ASSUME ~told'[t] PROVE Fresher(t)'
    <3>1. auth[t] + Latest[attempt[t] + 1] > Margin
      BY <1>0, <2>0, <2>4, FirstTime DEF CallTypes, Fresher
    <3>2. Latest[attempt[t] + 1] \in Nat /\ auth[t] \in Nat
      BY <1>0, <2>0, EachTime DEF CallTypes
    <3> QED
      BY <2>0, <3>1, <3>2 DEF Fresher
  <2>5. \A u \in Clients \ {t} : Untouched(u)
    BY <1>0, <1>7 DEF Http!SendRequest, CallTypes, Untouched
  <2>6. Http!PacedStep
    BY <1>0, <1>7, <2>0 DEF Http!SendRequest, CallTypes, Http!PacedStep
  <2> QED
    BY <2>1, <2>2, <2>3, <2>4, <2>5, <2>6, OneCallMoves
<1>8. CASE Http!Settled(t)
  BY <1>5, <1>8 DEF Http!Settled
<1>9. CASE Http!RetryLater(t)
  <2> PICK after \in {-1, 1, MaxRetryAfter, MaxRetryAfter + 1} :
        IF Http!GivesUp(t, after) THEN Http!EndCall(t)
        ELSE /\ due' = [due EXCEPT ![t] = Http!Pause(t, after)]
             /\ wait' = [wait EXCEPT ![t] = 2 * @]
             /\ told' = [told EXCEPT ![t] = @ \/ after # -1]
             /\ Http!Goto(t, "sleep")
             /\ UNCHANGED <<attempt, auth>>
    BY <1>9 DEF Http!RetryLater
  <2>0. calling[t] = "send" /\ UNCHANGED <<cache, lock, since>>
    BY <1>9 DEF Http!RetryLater
  <2>1. CASE Http!GivesUp(t, after)
    BY <1>5, <2>0, <2>1
  <2>2. CASE ~Http!GivesUp(t, after)
    <3>0. /\ due' = [due EXCEPT ![t] = Http!Pause(t, after)]
          /\ wait' = [wait EXCEPT ![t] = 2 * @]
          /\ calling' = [calling EXCEPT ![t] = "sleep"]
          /\ UNCHANGED <<attempt, auth>>
      BY <2>2
    <3>1. told' = [told EXCEPT ![t] = @ \/ after # -1]
      BY <2>2
    <3>2. attempt[t] \in 1 .. Attempts /\ Http!Pause(t, after) \in Nat
          /\ (after = -1 => Http!Pause(t, after) = wait[t])
      BY <1>0, <2>0, <2>2 DEF Http!GivesUp, Http!Pause, CallTypes, Counted
    <3>3. told' \in [Clients -> BOOLEAN]
      BY <1>0, <3>1, Zenon DEF CallTypes
    <3>4. CallTypes'
      <4>1. 2 * wait[t] \in Nat
        BY <1>0 DEF CallTypes
      <4>2. wait' \in [Clients -> Nat] /\ due' \in [Clients -> Nat]
        BY <1>0, <3>0, <3>2, <4>1 DEF CallTypes
      <4>3. calling' \in [Clients -> {"idle", "token", "fetch", "pace", "send", "sleep"}]
        BY <1>0, <3>0 DEF CallTypes
      <4> QED
        BY <1>0, <2>0, <3>0, <3>3, <4>2, <4>3 DEF CallTypes
    <3>5. LockHeld'
      BY <1>0, <2>0, <3>0 DEF CallTypes, LockHeld
    <3>6. Counted(t)'
      BY <1>0, <2>0, <3>0, <3>2, NextTime DEF CallTypes, Counted
    <3>7. ASSUME ~told'[t] PROVE Fresher(t)'
      <4>1. ~told[t] /\ after = -1
        BY <1>0, <3>1, <3>7 DEF CallTypes
      <4>2. due'[t] = Waits[attempt[t]] /\ since'[t] = since[t] /\ attempt'[t] = attempt[t]
            /\ auth'[t] = auth[t] /\ calling'[t] = "sleep"
        BY <1>0, <2>0, <3>0, <3>2, <4>1 DEF CallTypes, Counted
      <4>3. Fresher(t) /\ Waits[attempt[t]] \in Nat /\ Latest[attempt[t]] \in Nat
            /\ auth[t] \in Nat /\ due[t] \in Nat
        BY <1>0, <3>2, <4>1, NextTime DEF CallTypes
      <4> QED
        BY <2>0, <3>2, <4>2, <4>3 DEF Fresher
    <3>8. \A u \in Clients \ {t} : Untouched(u)
      BY <1>0, <2>0, <3>0, <3>1 DEF CallTypes, Untouched
    <3>9. Http!PacedStep
      BY <1>0, <2>0 DEF CallTypes, Http!PacedStep
    <3> QED
      BY <3>4, <3>5, <3>6, <3>7, <3>8, <3>9, OneCallMoves
  <2> QED
    BY <2>1, <2>2
<1>10. CASE Http!Wake(t)
  <2>0. calling[t] = "sleep" /\ due[t] = 0 /\ UNCHANGED <<cache, lock, attempt, wait, since, auth, told>>
        /\ calling' = [calling EXCEPT ![t] = "pace"] /\ due' = [due EXCEPT ![t] = 0]
    BY <1>10 DEF Http!Wake
  <2>1. CallTypes'
    BY <1>0, <2>0 DEF CallTypes
  <2>2. LockHeld'
    BY <1>0, <2>0 DEF CallTypes, LockHeld
  <2>3. Counted(t)'
    BY <1>0, <2>0 DEF CallTypes, Counted
  <2>4. ASSUME ~told'[t] PROVE Fresher(t)'
    <3>1. Fresher(t) /\ attempt[t] \in 1 .. Attempts /\ auth[t] \in Nat
      BY <1>0, <2>0, <2>4 DEF CallTypes, Counted
    <3>2. Latest[attempt[t]] + Timeout + Waits[attempt[t]] =< Latest[attempt[t] + 1]
          /\ Latest[attempt[t]] \in Nat /\ Waits[attempt[t]] \in Nat /\ Latest[attempt[t] + 1] \in Nat
      BY <3>1, NextTime
    <3>3. calling'[t] = "pace" /\ since'[t] = since[t] /\ attempt'[t] = attempt[t] /\ auth'[t] = auth[t]
      BY <1>0, <2>0 DEF CallTypes
    <3> QED
      BY <2>0, <3>1, <3>2, <3>3 DEF Fresher
  <2>5. (\A u \in Clients \ {t} : Untouched(u)) /\ Http!PacedStep
    BY <1>0, <2>0 DEF CallTypes, Untouched, Http!PacedStep
  <2> QED
    BY <2>1, <2>2, <2>3, <2>4, <2>5, OneCallMoves
<1> QED
  BY <1>1, <1>2, <1>3, <1>4, <1>6, <1>7, <1>8, <1>9, <1>10 DEF Http!Move

LEMMA HttpMin == ASSUME NEW a \in Nat, NEW b \in Nat PROVE Http!Min({a, b}) = IF a =< b THEN a ELSE b
<1> DEFINE m == IF a =< b THEN a ELSE b
<1>1. m \in {a, b} /\ \A y \in {a, b} : m =< y
  OBVIOUS
<1>2. \A z \in {a, b} : (\A y \in {a, b} : z =< y) => z = m
  OBVIOUS
<1> QED
  BY <1>1, <1>2 DEF Http!Min

(* A tick: what was left of a token becomes less, and so does what is left  *)
(* of the time in which the call may need it.                               *)
LEMMA CallTicks == ASSUME CallInv, Http!Tick PROVE CallInv' /\ Http!PacedStep
<1> USE CallNumbers
<1>0. CallTypes /\ LockHeld
  BY DEF CallInv
<1>1. \A t \in Clients :
        /\ due'[t] = IF due[t] = 0 THEN 0 ELSE due[t] - 1
        /\ auth'[t] = IF auth[t] = 0 THEN 0 ELSE auth[t] - 1
        /\ since'[t] = IF MinInterval =< since[t] + 1 THEN MinInterval ELSE since[t] + 1
  <2> SUFFICES ASSUME NEW t \in Clients
               PROVE  /\ due'[t] = IF due[t] = 0 THEN 0 ELSE due[t] - 1
                      /\ auth'[t] = IF auth[t] = 0 THEN 0 ELSE auth[t] - 1
                      /\ since'[t] = IF MinInterval =< since[t] + 1 THEN MinInterval ELSE since[t] + 1
    OBVIOUS
  <2>1. since[t] + 1 \in Nat
    BY <1>0 DEF CallTypes
  <2>2. since'[t] = Http!Min({MinInterval, since[t] + 1})
    BY DEF Http!Tick
  <2>3. since'[t] = IF MinInterval =< since[t] + 1 THEN MinInterval ELSE since[t] + 1
    BY <2>1, <2>2, HttpMin
  <2> QED
    BY <2>3 DEF Http!Tick, Http!Less
<1>2. CallTypes'
  <2>1. due' \in [Clients -> Nat] /\ auth' \in [Clients -> Nat]
    BY <1>0 DEF CallTypes, Http!Tick, Http!Less
  <2>2. since' \in [Clients -> 0 .. MinInterval]
    <3>1. \A t \in Clients : since'[t] \in 0 .. MinInterval
      BY <1>0, <1>1 DEF CallTypes
    <3>2. since' = [t \in Clients |-> since'[t]]
      BY DEF Http!Tick
    <3> HIDE DEF Http!Tick
    <3> QED
      BY <3>1, <3>2
  <2> QED
    BY <1>0, <2>1, <2>2 DEF CallTypes, Http!Tick, Http!Less
<1>3. LockHeld'
  BY <1>0 DEF CallTypes, LockHeld, Http!Tick, Http!Less
<1>4. ASSUME NEW t \in Clients PROVE Counted(t)'
  BY DEF CallInv, Counted, Http!Tick
<1>5. ASSUME NEW t \in Clients, ~told'[t] PROVE Fresher(t)'
  <2>1. Fresher(t) /\ Counted(t) /\ UNCHANGED <<calling, attempt, told>>
    BY <1>5 DEF CallInv, Http!Tick
  <2>2. auth[t] \in Nat /\ due[t] \in Nat /\ since[t] \in 0 .. MinInterval
        /\ attempt[t] \in 0 .. Attempts + 1
    BY <1>0 DEF CallTypes
  <2>3. ~(calling[t] = "pace" /\ since[t] >= MinInterval)
        /\ ~(calling[t] \in {"send", "sleep"} /\ due[t] = 0)
    BY DEF Http!Tick, Http!Urgent, Http!PaceOver
  <2>4. CASE attempt[t] \notin 1 .. Attempts
    BY <1>1, <2>1, <2>2, <2>3, <2>4, FirstTime DEF Fresher, Counted
  <2>5. CASE attempt[t] \in 1 .. Attempts
    <3>1. /\ Latest[attempt[t]] + Timeout + Waits[attempt[t]] =< Latest[attempt[t] + 1]
          /\ Latest[attempt[t]] + MinInterval =< Latest[attempt[t] + 1]
          /\ Latest[attempt[t] + 1] =< Margin
          /\ Latest[attempt[t]] \in Nat /\ Waits[attempt[t]] \in Nat
          /\ Latest[attempt[t] + 1] \in Nat
      BY <2>5, NextTime
    <3> QED
      BY <1>1, <2>1, <2>2, <2>3, <2>5, <3>1 DEF Fresher, Counted
  <2> QED
    BY <2>4, <2>5
<1>6. Http!PacedStep
  BY <1>0, <1>1 DEF CallTypes, Http!PacedStep
<1> QED
  BY <1>2, <1>3, <1>4, <1>5, <1>6 DEF CallInv

LEMMA CallStays == CallInv /\ UNCHANGED http => CallInv' /\ Http!PacedStep
BY CallNumbers DEF CallInv, CallTypes, LockHeld, Counted, Fresher, http, Http!PacedStep

(* The HTTP layer, for any number of clients sharing one token, any number  *)
(* of retries and any times that CallsAssumption admits: a request whose    *)
(* server named no Retry-After carries a token that is still good; nobody   *)
(* trades for one while the cache has one; requests keep their distance.    *)
THEOREM CallsSignedInTheorem == ServicesSpec => CallsSignedIn
<1> DEFINE Inv == which = "http" => CallInv
           Paces == which = "http" => Http!PacedStep
<1>1. ServicesInit => Inv
  BY CallStarts DEF ServicesInit
<1>2. Inv /\ [ServicesNext]_all => Inv' /\ [Paces]_all
  <2> SUFFICES ASSUME Inv, [ServicesNext]_all PROVE Inv' /\ [Paces]_all
    OBVIOUS
  <2>1. which' = which /\ (which = "http" => Http!Next \/ UNCHANGED http)
    BY DEF ServicesNext, all
  <2> QED
    BY <2>1, CallMoves, CallTicks, CallStays DEF Http!Next
<1>3. Inv => (which = "http" => Http!TypeOK /\ Http!FreshAfterBackoff /\ Http!OneTokenForAll)
  <2> SUFFICES ASSUME CallInv PROVE Http!TypeOK /\ Http!FreshAfterBackoff /\ Http!OneTokenForAll
    OBVIOUS
  <2>1. Http!TypeOK
    BY CallNumbers DEF CallInv, CallTypes, Http!TypeOK, Http!None
  <2>2. Http!OneTokenForAll
    BY CallNumbers DEF CallInv, CallTypes, LockHeld, Http!OneTokenForAll, Http!Fresh
  <2>3. Http!FreshAfterBackoff
    BY CallNumbers, EachTime DEF CallInv, CallTypes, Counted, Fresher, Http!FreshAfterBackoff
  <2> QED
    BY <2>1, <2>2, <2>3
<1> QED
  BY <1>1, <1>2, <1>3, PTL DEF ServicesSpec, CallsSignedIn

-----------------------------------------------------------------------------
(* A load. LoadTypes and Placed say where in the input it stands: what is   *)
(* counted, the statement under way and the batch follow on one another.    *)
(* Bounded says how often the table may hold a row, requests still to land  *)
(* counted in; the other parts say what the table holds, for sinks that     *)
(* insert, for SQL Server's MERGE and for MongoDB's upserts.                *)
Loads == {"read", "call", "merge", "truncate"}
Well == {"nothing", "ok"}

LoadTypes ==
    /\ Table!Settings
    /\ keys \in [0 .. RowCount -> {"a", "b", "null"}]
    /\ mode = "merge" => keys[0] = "a"
    /\ row \in 0 .. RowCount /\ counted \in 0 .. RowCount
    /\ gathered \in Seq(Nat) /\ call \in Seq(Nat)
    /\ Len(gathered) =< BatchLimit /\ Len(call) =< BatchLimit
    /\ staged \subseteq 1 .. RowCount /\ applied \subseteq 1 .. RowCount
    /\ table \in [0 .. RowCount -> Nat]
    /\ late \subseteq [rows : SUBSET (1 .. RowCount), truncates : BOOLEAN]
    /\ IsFiniteSet(late)
    /\ wiped \in BOOLEAN
    /\ done \in Nat /\ lost \in 0 .. Retries
    /\ loading \in Loads \cup {"ended"}
    /\ said \in [how : {"nothing", "plain", "ok", "failed", "unmerged"}, count : 0 .. RowCount]

Placed ==
    /\ loading # "ended" =>
        /\ said.how = "nothing"
        /\ counted + Len(call) + Len(gathered) = row
        /\ \A i \in 1 .. Len(call) : call[i] = counted + i
        /\ \A i \in 1 .. Len(gathered) : gathered[i] = counted + Len(call) + i
        /\ loading # "call" => call = <<>>
        /\ loading = "call" => gathered = <<>> \/ sink \in {"bigquery", "clickhouse"}
        /\ done = 0 => counted = 0
    /\ loading \in {"read", "merge"} => lost = 0
    /\ loading = "read" /\ sink \notin {"bigquery", "clickhouse"} => Len(gathered) < BatchLimit
    /\ loading = "truncate" =>
        row = 0 /\ mode = "truncate" /\ sink # "bigquery" /\ applied = {}
    /\ loading = "merge" => row = RowCount /\ gathered = <<>> /\ sink = "sqlserver" /\ mode = "merge"
    /\ said.how = "ok" =>
        /\ loading = "ended" /\ counted = RowCount /\ said.count = RowCount
        /\ sink = "bigquery" /\ mode = "truncate" => done > 0

(* Only ClickHouse and BigQuery may carry out a request later.              *)
Delayed ==
    /\ sink \in {"snowflake", "sqlserver", "mongo"} => lost = 0
    /\ sink \notin {"bigquery", "clickhouse"} => late = {}
    /\ \A job \in late : job.truncates => wiped /\ mode = "truncate"

Pending(r) == {job \in late : r \in job.rows}
Most == IF sink \in {"snowflake", "sqlserver", "mongo"} THEN 1 ELSE Retries + 1
Allowed(r) ==
    IF loading = "ended" \/ r =< counted THEN Most
    ELSE IF r =< counted + Len(call) THEN lost ELSE 0
Bounded ==
    /\ table[0] =< 1
    /\ \A r \in 1 .. RowCount : table[r] + Cardinality(Pending(r)) =< Allowed(r)

Inserted ==
    mode # "merge" =>
        /\ mode = "append" => table[0] = 1
        /\ mode = "truncate" /\ said.how \in Well /\ loading # "truncate"
           /\ (sink = "bigquery" => done > 0) => table[0] = 0
        /\ sink = "clickhouse" /\ ~wiped => \A r \in applied : table[r] > 0
        /\ said.how \in Well /\ ~wiped => \A r \in 1 .. counted : table[r] > 0
        /\ said.how = "failed" /\ ~wiped => said.count =< Cardinality(Table!Held)

Before == [r \in 0 .. RowCount |-> IF r = 0 THEN 1 ELSE 0]
After ==
    [r \in 0 .. RowCount |->
        IF r \in Table!Winners(1 .. RowCount) THEN 1
        ELSE IF r = 0 /\ ~(\E s \in 1 .. RowCount : keys[s] = "a") THEN 1 ELSE 0]
Staging ==
    sink = "sqlserver" /\ mode = "merge" =>
        /\ loading # "ended" => staged = 1 .. counted /\ table = Before
        /\ table \in {Before, After}
        /\ said.how = "ok" => table = After

Upserted ==
    sink = "mongo" /\ mode = "merge" =>
        /\ said.how \in Well =>
            /\ Table!Held \in Table!OnePerKey(1 .. counted)
            /\ table[0] = IF \E r \in 1 .. counted : keys[r] = "a" THEN 0 ELSE 1
            /\ \A r \in 1 .. counted : keys[r] # "null" /\ r \in applied
        /\ said.how = "failed" => said.count =< Cardinality(applied)

LoadInv ==
    LoadTypes /\ Placed /\ Delayed /\ Bounded /\ Inserted /\ Staging /\ Upserted

LEMMA LoadNumbers ==
    RowCount \in Nat /\ BatchLimit \in Nat /\ BatchLimit >= 1 /\ Retries \in Nat
BY LoadAssumption

LEMMA SinkFacts ==
    ASSUME Table!Settings
    PROVE  /\ sink \in {"bigquery", "snowflake", "clickhouse", "sqlserver", "mongo", "rest", "graphql"}
           /\ mode \in {"append", "truncate", "merge"}
           /\ mode = "merge" => sink \in {"sqlserver", "mongo"}
           /\ mode = "truncate" => sink \in {"bigquery", "snowflake", "clickhouse", "sqlserver"}
BY DEF Table!Settings, Table!BigquerySettings, Table!SnowflakeSettings, Table!ClickhouseSettings,
       Table!SqlserverSettings, Table!MongoMode, Table!RestSettings, Table!GraphqlSettings

LEMMA SettingsStay == Table!Settings /\ UNCHANGED <<sink, mode>> => Table!Settings'
BY DEF Table!Settings, Table!BigquerySettings, Table!SnowflakeSettings, Table!ClickhouseSettings,
       Table!SqlserverSettings, Table!MongoMode, Table!RestSettings, Table!GraphqlSettings

(* The rows of a sequence that counts on from n.                            *)
LEMMA SpanRows ==
    ASSUME NEW s \in Seq(Nat), NEW n \in Nat, \A i \in 1 .. Len(s) : s[i] = n + i
    PROVE  Table!ToSet(s) = n + 1 .. n + Len(s)
<1>1. Table!ToSet(s) = {s[i] : i \in 1 .. Len(s)}
  BY DEF Table!ToSet
<1>2. Len(s) \in Nat
  OBVIOUS
<1>3. ASSUME NEW x \in n + 1 .. n + Len(s) PROVE \E i \in 1 .. Len(s) : x = s[i]
  <2>1. x - n \in 1 .. Len(s)
    BY <1>2
  <2>2. s[x - n] = x
    BY <1>2, <2>1
  <2> QED
    BY <2>1, <2>2
<1>4. ASSUME NEW i \in 1 .. Len(s) PROVE s[i] \in n + 1 .. n + Len(s)
  BY <1>2
<1> QED
  BY <1>1, <1>3, <1>4

(* The statement under way has the rows that follow the counted ones.       *)
LEMMA CallRows ==
    ASSUME LoadTypes, Placed, loading = "call"
    PROVE  /\ Table!ToSet(call) = counted + 1 .. counted + Len(call)
           /\ Len(call) \in Nat /\ counted + Len(call) =< RowCount
           /\ Table!ToSet(call) \subseteq 1 .. RowCount
<1>1. counted \in Nat /\ Len(call) \in Nat /\ Len(gathered) \in Nat
  BY LoadNumbers DEF LoadTypes
<1>2. counted + Len(call) =< RowCount
  BY <1>1, LoadNumbers DEF LoadTypes, Placed
<1>3. Table!ToSet(call) = counted + 1 .. counted + Len(call)
  BY <1>1, SpanRows DEF LoadTypes, Placed
<1> QED
  BY <1>1, <1>2, <1>3, LoadNumbers

LEMMA LoadStarts == Table!Init => LoadInv
<1> SUFFICES ASSUME Table!Init PROVE LoadInv
  OBVIOUS
<1> USE LoadNumbers, SinkFacts
<1>0. /\ Table!Settings /\ row = 0 /\ gathered = <<>> /\ call = <<>> /\ staged = {} /\ applied = {}
      /\ late = {} /\ wiped = FALSE /\ done = 0 /\ lost = 0 /\ counted = 0
      /\ loading = (IF mode = "truncate" /\ sink # "bigquery" THEN "truncate" ELSE "read")
      /\ said = [how |-> "nothing", count |-> 0]
  BY DEF Table!Init
<1>1. table = Before
  BY DEF Table!Init, Table!Empty, Before
<1>2. keys \in [0 .. RowCount -> {"a", "b", "null"}] /\ (mode = "merge" => keys[0] = "a")
  BY DEF Table!Init, Table!Null
<1>3. Len(call) = 0 /\ Len(gathered) = 0 /\ call \in Seq(Nat) /\ gathered \in Seq(Nat)
  BY <1>0
<1>4. LoadTypes
  BY <1>0, <1>1, <1>2, <1>3, FS_EmptySet DEF LoadTypes, Before, Loads
<1>5. Placed
  BY <1>0, <1>3 DEF Placed
<1>6. Delayed
  BY <1>0 DEF Delayed
<1>7. Bounded
  <2>1. \A r \in 1 .. RowCount : Pending(r) = {}
    BY <1>0 DEF Pending
  <2> QED
    BY <1>0, <1>1, <1>3, <2>1, FS_EmptySet DEF Bounded, Allowed, Before
<1>8. Inserted
  BY <1>0, <1>1 DEF Inserted, Before
<1>9. Staging
  BY <1>0, <1>1 DEF Staging
<1>10. Upserted
  <2>1. Table!Held = {}
    BY <1>1 DEF Table!Held, Table!Rows, Before
  <2>2. {} \in Table!OnePerKey({})
    BY DEF Table!OnePerKey
  <2>3. 1 .. counted = {}
    BY <1>0
  <2> QED
    BY <1>0, <1>1, <2>1, <2>2, <2>3 DEF Upserted, Before
<1> QED
  BY <1>4, <1>5, <1>6, <1>7, <1>8, <1>9, <1>10 DEF LoadInv

(* Reading a row, and cutting a batch, touches nothing outside the load.    *)
Quiet == UNCHANGED <<sink, mode, keys, odd, staged, table, applied, late, wiped, done, counted, said>>

LEMMA LoadReads ==
    ASSUME LoadInv, \/ Table!LoadBigquery \/ Table!InsertClickhouse \/ Table!InsertSnowflake
                    \/ Table!InsertSqlserver \/ Table!WriteMongo \/ Table!WriteRest
                    \/ Table!WriteGraphql \/ Table!ReadEnd
    PROVE  LoadInv'
<1> USE LoadNumbers
<1>0. LoadTypes /\ Placed /\ Delayed /\ Bounded /\ Inserted /\ Staging /\ Upserted
  BY DEF LoadInv
<1>1. loading = "read" /\ lost' = lost /\ Quiet
  BY DEF Table!LoadBigquery, Table!InsertClickhouse, Table!InsertSnowflake, Table!InsertSqlserver,
         Table!WriteMongo, Table!WriteRest, Table!WriteGraphql, Table!ReadAfterCut,
         Table!ReadUntilFull, Table!ReadEnd, Table!Input, Table!World, Quiet
<1>2. call = <<>> /\ Len(call) = 0 /\ lost = 0 /\ Len(gathered) \in Nat /\ counted \in Nat
      /\ row \in 0 .. RowCount /\ row = counted + Len(gathered)
      /\ gathered \in Seq(Nat) /\ \A i \in 1 .. Len(gathered) : gathered[i] = counted + i
  BY <1>0, <1>1 DEF LoadTypes, Placed
<1>3. row' \in {row, row + 1} /\ row' =< RowCount /\ loading' \in {"read", "call"}
      /\ call' \in Seq(Nat) /\ gathered' \in Seq(Nat)
      /\ Len(call') =< BatchLimit /\ Len(gathered') =< BatchLimit
      /\ (loading' = "read" => call' = <<>>)
      /\ (loading' = "read" /\ sink \notin {"bigquery", "clickhouse"} => Len(gathered') < BatchLimit)
      /\ (loading' = "call" => gathered' = <<>> \/ sink \in {"bigquery", "clickhouse"})
      /\ counted + Len(call') + Len(gathered') = row'
      /\ (\A i \in 1 .. Len(call') : call'[i] = counted + i)
      /\ (\A i \in 1 .. Len(gathered') : gathered'[i] = counted + Len(call') + i)
  <2>1. CASE Table!ReadEnd
    BY <1>0, <1>2, <2>1 DEF Table!ReadEnd, LoadTypes, Placed
  <2>2. CASE Table!ReadAfterCut /\ sink \in {"bigquery", "clickhouse"}
    <3>1. CASE /\ Len(gathered) < BatchLimit /\ gathered' = Append(gathered, row + 1)
               /\ UNCHANGED <<call, loading>>
      <4>1. row' = row + 1 /\ row < RowCount /\ call' = <<>> /\ Len(call') = 0 /\ loading' = "read"
        BY <1>1, <1>2, <2>2, <3>1 DEF Table!ReadAfterCut
      <4>2. gathered' \in Seq(Nat) /\ Len(gathered') = Len(gathered) + 1
            /\ \A i \in 1 .. Len(gathered') : gathered'[i] = counted + i
        BY <1>2, <3>1
      <4> QED
        BY <1>2, <2>2, <3>1, <4>1, <4>2
    <3>2. CASE /\ gathered # <<>> /\ call' = gathered /\ gathered' = <<row + 1>> /\ loading' = "call"
      BY <1>0, <1>1, <1>2, <2>2, <3>2 DEF Table!ReadAfterCut, LoadTypes
    <3> QED
      BY <2>2, <3>1, <3>2 DEF Table!ReadAfterCut
  <2>3. CASE Table!ReadUntilFull /\ sink \notin {"bigquery", "clickhouse"}
    <3> DEFINE rows == Append(gathered, row + 1)
    <3>1. rows \in Seq(Nat) /\ Len(rows) = Len(gathered) + 1
          /\ (\A i \in 1 .. Len(rows) : rows[i] = counted + i) /\ Len(rows) =< BatchLimit
      BY <1>0, <1>1, <1>2, <2>3 DEF Placed
    <3>2. /\ row' = row + 1 /\ row < RowCount
          /\ IF Len(rows) = BatchLimit THEN call' = rows /\ gathered' = <<>> /\ loading' = "call"
             ELSE gathered' = rows /\ UNCHANGED <<call, loading>>
      BY <2>3 DEF Table!ReadUntilFull
    <3> HIDE DEF rows
    <3>3. row' \in {row, row + 1} /\ row' =< RowCount
      BY <1>2, <3>2
    <3>4. CASE Len(rows) = BatchLimit
      <4>1. call' = rows /\ gathered' = <<>> /\ loading' = "call" /\ row' = row + 1
        BY <3>2, <3>4
      <4>2. Len(gathered') = 0 /\ gathered' \in Seq(Nat)
        BY <4>1
      <4>3. counted + Len(call') + Len(gathered') = row'
        BY <1>2, <3>1, <4>1, <4>2
      <4> QED
        BY <3>1, <3>3, <4>1, <4>2, <4>3
    <3>5. CASE Len(rows) # BatchLimit
      BY <1>1, <1>2, <2>3, <3>1, <3>2, <3>3, <3>5
    <3> QED
      BY <3>4, <3>5
  <2> QED
    BY <2>1, <2>2, <2>3
    DEF Table!LoadBigquery, Table!InsertClickhouse, Table!InsertSnowflake, Table!InsertSqlserver,
        Table!WriteMongo, Table!WriteRest, Table!WriteGraphql
<1>4. LoadTypes'
  <2>1. row' \in 0 .. RowCount
    BY <1>2, <1>3
  <2>2. Table!Settings'
    BY <1>0, <1>1, SettingsStay DEF LoadTypes, Quiet
  <2> QED
    BY <1>0, <1>1, <1>3, <2>1, <2>2 DEF LoadTypes, Quiet, Loads
<1>5. Placed'
  BY <1>0, <1>1, <1>2, <1>3 DEF Placed, Quiet
<1>6. Delayed'
  BY <1>0, <1>1 DEF Delayed, Quiet
<1>7. Bounded'
  <2>1. \A r \in 1 .. RowCount : Pending(r)' = Pending(r)
    BY <1>1 DEF Pending, Quiet
  <2>2. ASSUME NEW r \in 1 .. RowCount PROVE Allowed(r)' = Allowed(r)
    <3>1. Allowed(r) = IF r =< counted THEN Most ELSE 0
      BY <1>1, <1>2 DEF Allowed
    <3>2. loading' # "ended" /\ counted' = counted /\ lost' = 0 /\ Most' = Most
      BY <1>1, <1>2, <1>3 DEF Most, Quiet
    <3>3. Allowed(r)' = IF r =< counted THEN Most ELSE 0
      BY <3>2 DEF Allowed
    <3> QED
      BY <3>1, <3>3
  <2> QED
    BY <1>0, <1>1, <2>1, <2>2 DEF Bounded, Quiet
<1>8. Inserted'
  BY <1>0, <1>1, <1>3 DEF Inserted, Quiet, Table!Held
<1>9. Staging'
  BY <1>0, <1>1, <1>3 DEF Staging, Quiet, Before, After, Table!Winners
<1>10. Upserted'
  <2>1. Table!Held' = Table!Held /\ Table!OnePerKey(1 .. counted)' = Table!OnePerKey(1 .. counted)
    BY <1>1 DEF Quiet, Table!Held, Table!OnePerKey
  <2> QED
    BY <1>0, <1>1, <2>1 DEF Upserted, Quiet
<1> QED
  BY <1>4, <1>5, <1>6, <1>7, <1>8, <1>9, <1>10 DEF LoadInv
-----------------------------------------------------------------------------
(* What a request leaves in the table.                                      *)
LEMMA WithFacts ==
    ASSUME LoadTypes, NEW S \in SUBSET (1 .. RowCount)
    PROVE  /\ Table!With(S) \in [0 .. RowCount -> Nat]
           /\ Table!With(S)[0] = table[0]
           /\ \A r \in 1 .. RowCount :
                Table!With(S)[r] = IF r \in S THEN table[r] + 1 ELSE table[r]
BY LoadNumbers DEF LoadTypes, Table!With

LEMMA TruncatedFacts ==
    ASSUME NEW S \in SUBSET (1 .. RowCount)
    PROVE  /\ Table!WithTruncated(S) \in [0 .. RowCount -> Nat]
           /\ Table!WithTruncated(S)[0] = 0
           /\ \A r \in 1 .. RowCount : Table!WithTruncated(S)[r] = IF r \in S THEN 1 ELSE 0
BY LoadNumbers DEF Table!WithTruncated

LEMMA LoadedFacts ==
    ASSUME LoadTypes, NEW S \in SUBSET (1 .. RowCount)
    PROVE  /\ Table!Loaded(S) \in [0 .. RowCount -> Nat]
           /\ Table!Loaded(S)[0] = IF Table!Truncates THEN 0 ELSE table[0]
           /\ \A r \in 1 .. RowCount :
                /\ r \in S => Table!Loaded(S)[r] \in 1 .. table[r] + 1
                /\ r \notin S => Table!Loaded(S)[r] =< table[r]
                /\ ~Table!Truncates => table[r] =< Table!Loaded(S)[r]
<1>1. \A r \in 0 .. RowCount : table[r] \in Nat
  BY DEF LoadTypes
<1>2. CASE Table!Truncates
  BY <1>1, <1>2, TruncatedFacts DEF Table!Loaded
<1>3. CASE ~Table!Truncates
  BY <1>1, <1>3, WithFacts DEF Table!Loaded
<1> QED
  BY <1>2, <1>3

(* Requests that are still to land, by the rows they carry.                 *)
LEMMA PendingFacts ==
    ASSUME LoadTypes, NEW r
    PROVE  IsFiniteSet(Pending(r)) /\ Cardinality(Pending(r)) \in Nat
<1>1. Pending(r) \subseteq late /\ IsFiniteSet(late)
  BY DEF LoadTypes, Pending
<1>2. IsFiniteSet(Pending(r))
  BY <1>1, FS_Subset
<1> QED
  BY <1>2, FS_CardinalityType

LEMMA PendingAdds ==
    ASSUME LoadTypes, NEW job, late' = late \cup {job}, NEW r
    PROVE  /\ Cardinality(Pending(r)') \in Nat
           /\ Cardinality(Pending(r)') =< Cardinality(Pending(r)) + 1
           /\ r \notin job.rows => Pending(r)' = Pending(r)
<1>1. IsFiniteSet(Pending(r)) /\ Cardinality(Pending(r)) \in Nat
  BY PendingFacts
<1>2. r \notin job.rows => Pending(r)' = Pending(r)
  BY DEF Pending
<1>3. r \in job.rows => Pending(r)' = Pending(r) \cup {job}
  BY DEF Pending
<1>4. Cardinality(Pending(r) \cup {job}) =
        IF job \in Pending(r) THEN Cardinality(Pending(r)) ELSE Cardinality(Pending(r)) + 1
  BY <1>1, FS_AddElement
<1> QED
  BY <1>1, <1>2, <1>3, <1>4

LEMMA PendingLands ==
    ASSUME LoadTypes, NEW job \in late, late' = late \ {job}, NEW r
    PROVE  /\ Cardinality(Pending(r)') \in Nat
           /\ r \in job.rows => Cardinality(Pending(r)') + 1 = Cardinality(Pending(r))
           /\ r \notin job.rows => Pending(r)' = Pending(r)
<1>1. IsFiniteSet(Pending(r)) /\ Cardinality(Pending(r)) \in Nat
  BY PendingFacts
<1>2. r \notin job.rows => Pending(r)' = Pending(r)
  BY DEF Pending
<1>3. r \in job.rows => Pending(r)' = Pending(r) \ {job} /\ job \in Pending(r)
  BY DEF Pending
<1>4. IsFiniteSet(Pending(r) \ {job}) /\ Cardinality(Pending(r) \ {job}) =
        IF job \in Pending(r) THEN Cardinality(Pending(r)) - 1 ELSE Cardinality(Pending(r))
  BY <1>1, FS_RemoveElement
<1>5. Cardinality(Pending(r) \ {job}) \in Nat
  BY <1>4, FS_CardinalityType
<1>6. CASE r \in job.rows
  <2>1. Cardinality(Pending(r) \ {job}) + 1 = Cardinality(Pending(r))
    BY <1>1, <1>3, <1>4, <1>5, <1>6
  <2> QED
    BY <1>3, <1>5, <1>6, <2>1
<1>7. CASE r \notin job.rows
  BY <1>1, <1>2, <1>7
<1> QED
  BY <1>6, <1>7

LEMMA RowsFinite ==
    ASSUME NEW S \in SUBSET (1 .. RowCount)
    PROVE  IsFiniteSet(S) /\ Cardinality(S) \in Nat
<1>1. IsFiniteSet(1 .. RowCount)
  BY LoadNumbers, FS_Interval
<1>2. IsFiniteSet(S)
  BY <1>1, FS_Subset
<1> QED
  BY <1>2, FS_CardinalityType

(* A table that lost no row holds as many.                                  *)
LEMMA HeldGrows ==
    ASSUME \A r \in 1 .. RowCount : table[r] > 0 => table'[r] > 0
    PROVE  /\ Table!Held \subseteq Table!Held'
           /\ IsFiniteSet(Table!Held') /\ Cardinality(Table!Held') \in Nat
           /\ Cardinality(Table!Held) \in Nat
           /\ Cardinality(Table!Held) =< Cardinality(Table!Held')
<1>1. IsFiniteSet(1 .. RowCount)
  BY LoadNumbers, FS_Interval
<1>2. Table!Held' \subseteq 1 .. RowCount /\ Table!Held \subseteq Table!Held'
  BY DEF Table!Held, Table!Rows
<1>3. IsFiniteSet(Table!Held')
  BY <1>1, <1>2, FS_Subset
<1>4. IsFiniteSet(Table!Held) /\ Cardinality(Table!Held) =< Cardinality(Table!Held')
  BY <1>2, <1>3, FS_Subset
<1> QED
  BY <1>2, <1>3, <1>4, FS_CardinalityType

(* A table that holds the first n rows holds n.                             *)
LEMMA HoldsFirst ==
    ASSUME NEW n \in 0 .. RowCount, NEW S, IsFiniteSet(S), 1 .. n \subseteq S
    PROVE  n =< Cardinality(S)
<1>1. Cardinality(1 .. n) = n /\ IsFiniteSet(1 .. n)
  BY LoadNumbers, FS_Interval
<1>2. Cardinality(1 .. n) =< Cardinality(S)
  BY FS_Subset
<1> QED
  BY <1>1, <1>2
-----------------------------------------------------------------------------
(* A statement is done: its rows are counted, whatever it did.              *)
LEMMA WroteFacts ==
    ASSUME LoadTypes, Placed, loading = "call", Table!Wrote(Len(call))
    PROVE  /\ counted' = counted + Len(call) /\ counted' \in 0 .. RowCount
           /\ loading' = "read" /\ call' = <<>> /\ Len(call') = 0 /\ lost' = 0 /\ done' = done + 1
           /\ UNCHANGED <<sink, mode, keys, odd, row, gathered, said>>
           /\ 1 .. counted' = 1 .. counted \cup Table!ToSet(call)
           /\ Placed'
<1> USE LoadNumbers
<1>1. counted' = counted + Len(call) /\ loading' = "read" /\ call' = <<>> /\ Len(call') = 0
      /\ lost' = 0 /\ done' = done + 1 /\ UNCHANGED <<sink, mode, keys, odd, row, gathered, said>>
  BY DEF Table!Wrote, Table!Input
<1>2. Len(call) \in Nat /\ Len(gathered) \in Nat /\ counted \in Nat /\ done \in Nat
  BY DEF LoadTypes
<1>3. counted' \in 0 .. RowCount /\ 1 .. counted' = 1 .. counted \cup Table!ToSet(call)
  BY <1>1, <1>2, CallRows
<1>4. Placed'
  BY <1>1, <1>2 DEF Placed
<1> QED
  BY <1>1, <1>3, <1>4

LEMMA LoadInserts == ASSUME LoadInv, Table!Insert PROVE LoadInv'
<1> USE LoadNumbers
<1> DEFINE C == Table!ToSet(call)
<1>0. LoadTypes /\ Placed /\ Delayed /\ Bounded /\ Inserted
  BY DEF LoadInv
<1>1. /\ loading = "call" /\ mode # "merge" /\ Table!Wrote(Len(call))
      /\ applied' = applied \cup C /\ UNCHANGED <<staged, late, wiped>>
  BY DEF Table!Insert
<1>2. \/ table' = Table!Loaded(C)
      \/ table' = table /\ sink = "clickhouse" /\ C \subseteq applied
  BY DEF Table!Insert
<1>3. C = counted + 1 .. counted + Len(call) /\ C \subseteq 1 .. RowCount /\ Len(call) \in Nat
  BY <1>0, <1>1, CallRows
<1>4. /\ counted' = counted + Len(call) /\ counted' \in 0 .. RowCount
      /\ loading' = "read" /\ call' = <<>> /\ Len(call') = 0 /\ lost' = 0 /\ done' = done + 1
      /\ UNCHANGED <<sink, mode, keys, odd, row, gathered, said>>
      /\ 1 .. counted' = 1 .. counted \cup C /\ Placed'
  BY <1>0, <1>1, WroteFacts
<1>5. /\ table' \in [0 .. RowCount -> Nat]
      /\ table'[0] \in {0, table[0]}
      /\ (Table!Truncates => table'[0] = 0) /\ (~Table!Truncates => table'[0] = table[0])
      /\ \A r \in 1 .. RowCount :
            /\ r \in C => table'[r] =< table[r] + 1
            /\ r \notin C => table'[r] =< table[r]
            /\ ~Table!Truncates => table[r] =< table'[r]
  <2>1. \A r \in 0 .. RowCount : table[r] \in Nat
    BY <1>0 DEF LoadTypes
  <2>2. CASE table' = Table!Loaded(C)
    <3>1. C \in SUBSET (1 .. RowCount)
      BY <1>3
    <3> HIDE DEF C
    <3>2. /\ Table!Loaded(C) \in [0 .. RowCount -> Nat]
          /\ Table!Loaded(C)[0] = IF Table!Truncates THEN 0 ELSE table[0]
          /\ \A r \in 1 .. RowCount :
                /\ r \in C => Table!Loaded(C)[r] \in 1 .. table[r] + 1
                /\ r \notin C => Table!Loaded(C)[r] =< table[r]
                /\ ~Table!Truncates => table[r] =< Table!Loaded(C)[r]
      BY <1>0, <3>1, LoadedFacts
    <3> QED
      BY <2>1, <2>2, <3>2
  <2>3. CASE table' = table /\ sink = "clickhouse"
    BY <1>0, <2>1, <2>3 DEF LoadTypes, Table!Truncates
  <2> QED
    BY <1>2, <2>2, <2>3
<1>6. \A r \in C : table'[r] > 0 \/ (sink = "clickhouse" /\ r \in applied /\ table' = table)
  <2>1. CASE table' = Table!Loaded(C)
    <3>1. \A r \in C : r \in 1 .. RowCount /\ table[r] \in Nat
      BY <1>0, <1>3 DEF LoadTypes
    <3>2. C \in SUBSET (1 .. RowCount)
      BY <1>3
    <3> HIDE DEF C
    <3>3. \A r \in 1 .. RowCount : r \in C => Table!Loaded(C)[r] \in 1 .. table[r] + 1
      BY <1>0, <3>2, LoadedFacts
    <3> QED
      BY <2>1, <3>1, <3>3
  <2> QED
    BY <1>2, <2>1
<1> HIDE DEF C
<1>7. LoadTypes'
  <2>1. Table!Settings'
    BY <1>0, <1>4, SettingsStay DEF LoadTypes
  <2>2. Len(call') =< BatchLimit /\ call' \in Seq(Nat) /\ done' \in Nat /\ lost' \in 0 .. Retries
    BY <1>0, <1>4 DEF LoadTypes
  <2>3. applied' \subseteq 1 .. RowCount
    BY <1>0, <1>1, <1>3 DEF LoadTypes
  <2> QED
    BY <1>0, <1>1, <1>3, <1>4, <1>5, <2>1, <2>2, <2>3 DEF LoadTypes, Loads
<1>8. Delayed'
  BY <1>0, <1>1, <1>4 DEF Delayed
<1>9. Bounded'
  <2> SUFFICES ASSUME NEW r \in 1 .. RowCount
               PROVE  table'[r] + Cardinality(Pending(r))' =< Allowed(r)'
    BY <1>0, <1>5 DEF Bounded
  <2>1. Pending(r)' = Pending(r) /\ Cardinality(Pending(r)) \in Nat
    BY <1>0, <1>1, PendingFacts DEF Pending
  <2>2. table[r] \in Nat /\ table'[r] \in Nat /\ lost \in 0 .. Retries
    BY <1>0, <1>5 DEF LoadTypes
  <2>3. Most' = Most /\ Most \in Nat /\ lost + 1 =< Most
    BY <1>0, <1>4, <2>2 DEF Most, Delayed
  <2>4. table[r] + Cardinality(Pending(r)) =< Allowed(r)
    BY <1>0 DEF Bounded
  <2>5. CASE r =< counted
    <3>1. Allowed(r) = Most /\ Allowed(r)' = Most /\ r \notin C
      BY <1>0, <1>3, <1>4, <2>3, <2>5 DEF Allowed, LoadTypes
    <3> QED
      BY <1>5, <2>1, <2>2, <2>3, <2>4, <3>1
  <2>6. CASE r > counted /\ r =< counted + Len(call)
    <3>1. Allowed(r) = lost /\ Allowed(r)' = Most
      BY <1>0, <1>1, <1>3, <1>4, <2>3, <2>6 DEF Allowed, LoadTypes
    <3>2. table'[r] =< table[r] + 1
      BY <1>3, <1>5, <2>6, <2>2
    <3> QED
      BY <2>1, <2>2, <2>3, <2>4, <3>1, <3>2
  <2>7. CASE r > counted + Len(call)
    <3>1. Allowed(r) = 0 /\ Allowed(r)' = 0 /\ r \notin C
      BY <1>0, <1>1, <1>3, <1>4, <2>7 DEF Allowed, LoadTypes
    <3> QED
      BY <1>5, <2>1, <2>2, <2>4, <3>1
  <2> QED
    BY <1>0, <1>3, <2>5, <2>6, <2>7 DEF LoadTypes
<1>10. Inserted'
  <2>0. said.how = "nothing" /\ done \in Nat /\ (done = 0 => counted = 0)
        /\ \A r \in 1 .. RowCount : table[r] \in Nat /\ table'[r] \in Nat
    <3>1. \A r \in 1 .. RowCount : table[r] \in Nat /\ table'[r] \in Nat
      BY <1>0, <1>5 DEF LoadTypes
    <3> QED
      BY <1>0, <1>1, <3>1 DEF Placed, LoadTypes
  <2>1. mode = "append" => table'[0] = 1
    BY <1>0, <1>1, <1>5 DEF Inserted, Table!Truncates
  <2>2. mode = "truncate" => table'[0] = 0
    BY <1>0, <1>1, <1>5, <2>0 DEF Inserted, Table!Truncates, Well
  <2>3. sink = "clickhouse" /\ ~wiped => \A r \in applied' : table'[r] > 0
    <3>1. sink = "clickhouse" => ~Table!Truncates
      BY DEF Table!Truncates
    <3> QED
      BY <1>0, <1>1, <1>3, <1>5, <1>6, <2>0, <3>1 DEF Inserted, LoadTypes
  <2>4. ~wiped => \A r \in 1 .. counted' : table'[r] > 0
    <3> SUFFICES ASSUME ~wiped, NEW r \in 1 .. counted' PROVE table'[r] > 0
      OBVIOUS
    <3>1. r \in 1 .. RowCount
      BY <1>4
    <3>2. CASE r \in C
      BY <1>0, <1>1, <1>6, <3>2 DEF Inserted
    <3>3. CASE r \in 1 .. counted
      <4>1. table[r] > 0 /\ ~Table!Truncates
        BY <1>0, <1>1, <2>0, <3>3 DEF Inserted, Table!Truncates, Well
      <4> QED
        BY <1>5, <2>0, <3>1, <4>1
    <3> QED
      BY <1>4, <3>2, <3>3
  <2> QED
    BY <1>1, <1>4, <2>0, <2>1, <2>2, <2>3, <2>4 DEF Inserted
<1>11. Staging' /\ Upserted'
  BY <1>1, <1>4 DEF Staging, Upserted
<1> QED
  BY <1>4, <1>7, <1>8, <1>9, <1>10, <1>11 DEF LoadInv
-----------------------------------------------------------------------------
(* The load ends as the table stands.                                       *)
LEMMA LoadEnds ==
    ASSUME LoadInv, loading # "ended", loading' = "ended", row' \in 0 .. RowCount,
           UNCHANGED <<sink, mode, keys, odd, gathered, call, staged, table, applied, late, wiped,
                       done, lost, counted>>,
           \/ said' = [how |-> "plain", count |-> 0]
           \/ said' = [how |-> "failed", count |-> counted]
           \/ /\ said' = [how |-> "ok", count |-> counted] /\ counted = RowCount
              /\ ~(sink = "sqlserver" /\ mode = "merge") /\ loading # "truncate"
              /\ sink = "bigquery" /\ mode = "truncate" => done > 0
    PROVE  LoadInv'
<1> USE LoadNumbers
<1>0. LoadTypes /\ Placed /\ Delayed /\ Bounded /\ Inserted /\ Staging /\ Upserted
  BY DEF LoadInv
<1>1. said.how = "nothing" /\ counted \in 0 .. RowCount
  BY <1>0 DEF Placed, LoadTypes
<1>2. said' \in [how : {"nothing", "plain", "ok", "failed", "unmerged"}, count : 0 .. RowCount]
      /\ (said'.how = "failed" => said'.count = counted)
      /\ said'.how \in {"plain", "failed", "ok"}
      /\ (said'.how = "ok" => /\ said'.count = counted /\ counted = RowCount
                              /\ ~(sink = "sqlserver" /\ mode = "merge") /\ loading # "truncate"
                              /\ sink = "bigquery" /\ mode = "truncate" => done > 0)
  BY <1>1
<1>3. LoadTypes'
  <2>1. Table!Settings'
    BY <1>0, SettingsStay DEF LoadTypes
  <2> QED
    BY <1>0, <1>2, <2>1 DEF LoadTypes
<1>4. Placed' /\ Delayed'
  BY <1>0, <1>2 DEF Placed, Delayed
<1>5. Bounded'
  <2> SUFFICES ASSUME NEW r \in 1 .. RowCount
               PROVE  table[r] + Cardinality(Pending(r)) =< Most
    <3>1. \A r \in 1 .. RowCount : Pending(r)' = Pending(r) /\ Allowed(r)' = Most
      BY DEF Pending, Allowed, Most
    <3> QED
      BY <1>0, <3>1 DEF Bounded
  <2>1. table[r] + Cardinality(Pending(r)) =< Allowed(r) /\ table[r] \in Nat
        /\ Cardinality(Pending(r)) \in Nat
    <3>1. Cardinality(Pending(r)) \in Nat
      BY <1>0, PendingFacts
    <3> QED
      BY <1>0, <3>1 DEF Bounded, LoadTypes
  <2>2. Most \in Nat /\ lost \in Nat /\ lost =< Most /\ Allowed(r) \in {Most, lost, 0}
    BY <1>0 DEF Most, Allowed, LoadTypes, Delayed
  <2> QED
    BY <2>1, <2>2
<1>6. Inserted'
  <2>1. ASSUME mode # "merge", ~wiped PROVE counted =< Cardinality(Table!Held)
    <3>1. 1 .. counted \subseteq Table!Held
      BY <1>0, <1>1, <2>1 DEF Inserted, Well, Table!Held, Table!Rows
    <3>2. IsFiniteSet(Table!Held)
      BY RowsFinite DEF Table!Held, Table!Rows
    <3> QED
      BY <1>1, <3>1, <3>2, HoldsFirst
  <2>2. Table!Held' = Table!Held
    BY DEF Table!Held
  <2> QED
    BY <1>0, <1>1, <1>2, <2>1, <2>2 DEF Inserted, Well
<1>7. Staging'
  BY <1>0, <1>1, <1>2 DEF Staging, Before, After, Table!Winners
<1>8. Upserted'
  <2>1. ASSUME sink = "mongo", mode = "merge" PROVE counted =< Cardinality(applied)
    <3>1. 1 .. counted \subseteq applied
      BY <1>0, <1>1, <2>1 DEF Upserted, Well
    <3>2. IsFiniteSet(applied)
      BY <1>0, RowsFinite DEF LoadTypes
    <3> QED
      BY <1>1, <3>1, <3>2, HoldsFirst
  <2>2. Table!Held' = Table!Held /\ Table!OnePerKey(1 .. counted)' = Table!OnePerKey(1 .. counted)
    BY DEF Table!Held, Table!OnePerKey
  <2> QED
    BY <1>0, <1>1, <1>2, <2>1, <2>2 DEF Upserted, Well
<1> QED
  BY <1>3, <1>4, <1>5, <1>6, <1>7, <1>8 DEF LoadInv

LEMMA LoadStops ==
    ASSUME LoadInv, Table!InputFails \/ Table!RowRefused \/ Table!KeylessRow \/ Table!Succeed
    PROVE  LoadInv'
<1> USE LoadNumbers
<1>0. LoadTypes /\ Placed /\ Delayed /\ Bounded /\ Inserted /\ Staging /\ Upserted
  BY DEF LoadInv
<1>1. CASE Table!InputFails
  BY <1>0, <1>1, LoadEnds DEF Table!InputFails, Table!Input, Table!World, LoadTypes
<1>2. CASE Table!RowRefused
  <2>1. row' \in 0 .. RowCount
    BY <1>0, <1>2 DEF Table!RowRefused, LoadTypes
  <2> QED
    BY <1>2, <2>1, LoadEnds DEF Table!RowRefused, Table!Ends, Table!Input, Table!World
<1>3. CASE Table!KeylessRow
  BY <1>0, <1>3, LoadEnds DEF Table!KeylessRow, Table!Ends, Table!Input, Table!World, LoadTypes
<1>4. CASE Table!Succeed
  <2>1. /\ loading = "read" /\ row = RowCount /\ ~Table!LastBatch
        /\ UNCHANGED <<sink, mode, keys, odd, row, gathered, call, staged, table, applied, late, wiped,
                       done, lost, counted>>
    BY <1>4 DEF Table!Succeed, Table!Input, Table!World
  <2>2. gathered = <<>> /\ Len(gathered) = 0 /\ Len(call) = 0 /\ counted = RowCount
        /\ (sink = "bigquery" /\ mode = "truncate" => done > 0)
    BY <1>0, <2>1 DEF Table!LastBatch, Placed, LoadTypes
  <2>3. CASE sink = "sqlserver" /\ mode = "merge"
    <3>1. loading' = "merge" /\ said' = said
      BY <1>4, <2>3 DEF Table!Succeed
    <3>2. LoadTypes'
      BY <1>0, <2>1, <3>1, SettingsStay DEF LoadTypes, Loads
    <3>3. Placed' /\ Delayed'
      BY <1>0, <2>1, <2>2, <2>3, <3>1 DEF Placed, Delayed
    <3>4. Bounded'
      <4>1. \A r \in 1 .. RowCount : Pending(r)' = Pending(r) /\ Allowed(r)' = Allowed(r)
        BY <2>1, <3>1 DEF Pending, Allowed, Most
      <4> QED
        BY <1>0, <2>1, <4>1 DEF Bounded
    <3>5. Inserted' /\ Upserted'
      BY <2>1, <2>3 DEF Inserted, Upserted
    <3>6. Staging'
      BY <1>0, <2>1, <3>1 DEF Staging, Before, After, Table!Winners
    <3> QED
      BY <3>2, <3>3, <3>4, <3>5, <3>6 DEF LoadInv
  <2>4. CASE ~(sink = "sqlserver" /\ mode = "merge")
    <3>1. loading' = "ended" /\ said' = [how |-> "ok", count |-> counted]
      BY <1>4, <2>4 DEF Table!Succeed, Table!Ends
    <3> QED
      BY <1>0, <2>1, <2>2, <2>4, <3>1, LoadEnds DEF LoadTypes
  <2> QED
    BY <2>3, <2>4
<1> QED
  BY <1>1, <1>2, <1>3, <1>4
-----------------------------------------------------------------------------
(* One request without an answer, for the rows C: what it did to the table, *)
(* or may still do.                                                         *)
Touched(C) ==
    /\ table' \in [0 .. RowCount -> Nat]
    /\ applied \subseteq applied' /\ applied' \subseteq applied \cup C
    /\ late' \subseteq [rows : SUBSET (1 .. RowCount), truncates : BOOLEAN] /\ IsFiniteSet(late')
    /\ wiped' \in BOOLEAN /\ (wiped => wiped')
    /\ sink \notin {"bigquery", "clickhouse"} => late' = {}
    /\ \A job \in late' : job.truncates => wiped' /\ mode = "truncate"
    /\ table'[0] \in {0, table[0]} /\ (~Table!Truncates => table'[0] = table[0])
    /\ \A r \in 1 .. RowCount :
        /\ Cardinality(Pending(r)') \in Nat
        /\ r \in C => table'[r] + Cardinality(Pending(r)') =< table[r] + Cardinality(Pending(r)) + 1
        /\ r \notin C => table'[r] + Cardinality(Pending(r)') =< table[r] + Cardinality(Pending(r))
        /\ ~Table!Truncates => table[r] =< table'[r]
    /\ \A r \in applied' \ applied : table'[r] > 0

LEMMA UnansweredTouches ==
    ASSUME LoadTypes, Placed, Delayed, loading = "call", Table!Unanswered
    PROVE  Touched(Table!ToSet(call))
<1> USE LoadNumbers
<1> DEFINE C == Table!ToSet(call)
<1>0. C \in SUBSET (1 .. RowCount)
  BY CallRows
<1>1. \A r \in 0 .. RowCount : table[r] \in Nat
  BY DEF LoadTypes
<1>2. \A r \in 1 .. RowCount : Cardinality(Pending(r)) \in Nat
  BY PendingFacts
<1>3. CASE UNCHANGED <<table, applied, late, wiped>>
  <2>1. \A r \in 1 .. RowCount : Pending(r)' = Pending(r)
    BY <1>3 DEF Pending
  <2> QED
    BY <1>1, <1>2, <1>3, <2>1 DEF Touched, LoadTypes, Delayed
<1>4. ASSUME NEW S \in SUBSET C, table' = Table!Loaded(S), applied' = applied \cup S,
             UNCHANGED <<late, wiped>>
      PROVE  Touched(C)
  <2>1. \A r \in 1 .. RowCount : Pending(r)' = Pending(r)
    BY <1>4 DEF Pending
  <2>2. S \in SUBSET (1 .. RowCount)
    BY <1>0
  <2>3. /\ table' \in [0 .. RowCount -> Nat]
        /\ table'[0] = IF Table!Truncates THEN 0 ELSE table[0]
        /\ \A r \in 1 .. RowCount :
             /\ r \in S => table'[r] \in 1 .. table[r] + 1
             /\ r \notin S => table'[r] =< table[r]
             /\ ~Table!Truncates => table[r] =< table'[r]
    BY <1>4, <2>2, LoadedFacts
  <2> HIDE DEF C
  <2>4. ASSUME NEW r \in 1 .. RowCount
        PROVE  /\ table'[r] \in Nat /\ table'[r] =< table[r] + 1
               /\ r \notin C => table'[r] =< table[r]
    BY <1>1, <1>4, <2>3, <2>4
  <2>5. \A r \in S : table'[r] > 0
    BY <1>1, <2>2, <2>3
  <2>6. \A r \in 1 .. RowCount :
          /\ r \in C => table'[r] + Cardinality(Pending(r)') =< table[r] + Cardinality(Pending(r)) + 1
          /\ r \notin C => table'[r] + Cardinality(Pending(r)') =< table[r] + Cardinality(Pending(r))
    BY <1>1, <1>2, <2>1, <2>4
  <2> QED
    BY <1>2, <1>4, <2>1, <2>3, <2>5, <2>6 DEF Touched, LoadTypes, Delayed
<1>5. CASE /\ sink \in {"bigquery", "clickhouse"}
           /\ late' = late \cup {[rows |-> C, truncates |-> Table!Truncates]}
           /\ wiped' = (wiped \/ Table!Truncates)
           /\ UNCHANGED <<table, applied>>
  <2> DEFINE job == [rows |-> C, truncates |-> Table!Truncates]
  <2>1. Table!Truncates \in BOOLEAN /\ wiped' \in BOOLEAN /\ (wiped => wiped')
    BY <1>5, Zenon DEF Table!Truncates, LoadTypes
  <2>2. job \in [rows : SUBSET (1 .. RowCount), truncates : BOOLEAN] /\ job.rows = C
        /\ (job.truncates => wiped' /\ mode = "truncate")
    BY <1>0, <1>5, <2>1 DEF Table!Truncates
  <2>3. late' = late \cup {job}
    BY <1>5
  <2> HIDE DEF job
  <2>4. IsFiniteSet(late')
    BY <2>3, FS_AddElement DEF LoadTypes
  <2>5. late' \subseteq [rows : SUBSET (1 .. RowCount), truncates : BOOLEAN]
        /\ \A j \in late' : j.truncates => wiped' /\ mode = "truncate"
    BY <2>1, <2>2, <2>3 DEF LoadTypes, Delayed
  <2> HIDE DEF C
  <2>6. ASSUME NEW r \in 1 .. RowCount
        PROVE  /\ Cardinality(Pending(r)') \in Nat
               /\ Cardinality(Pending(r)') =< Cardinality(Pending(r)) + 1
               /\ r \notin C => Cardinality(Pending(r)') = Cardinality(Pending(r))
    BY <2>2, <2>3, PendingAdds
  <2>7. \A r \in 1 .. RowCount :
          /\ Cardinality(Pending(r)') \in Nat
          /\ r \in C => table'[r] + Cardinality(Pending(r)') =< table[r] + Cardinality(Pending(r)) + 1
          /\ r \notin C => table'[r] + Cardinality(Pending(r)') =< table[r] + Cardinality(Pending(r))
          /\ table[r] =< table'[r]
    BY <1>1, <1>2, <1>5, <2>6
  <2>8. table' = table /\ table \in [0 .. RowCount -> Nat] /\ applied' = applied
    BY <1>5 DEF LoadTypes
  <2>9. Touched(C)
    BY <1>5, <2>1, <2>4, <2>5, <2>7, <2>8 DEF Touched
  <2> QED
    BY <2>9 DEF C
<1> QED
  BY <1>3, <1>4, <1>5 DEF Table!Unanswered, Table!World

LEMMA LoadRepeats == ASSUME LoadInv, Table!CallRepeats PROVE LoadInv'
<1> USE LoadNumbers
<1>0. LoadTypes /\ Placed /\ Delayed /\ Bounded /\ Inserted
  BY DEF LoadInv
<1>1. /\ loading = "call" /\ sink \in {"bigquery", "clickhouse", "rest", "graphql"} /\ lost < Retries
      /\ Table!Unanswered /\ lost' = lost + 1
      /\ UNCHANGED <<sink, mode, keys, odd, row, gathered, call, staged, done, counted, loading, said>>
  BY DEF Table!CallRepeats, Table!Repeats, Table!SameRequest, Table!Warehouses, Table!Apis, Table!Input
<1>2. mode # "merge"
  BY <1>0, <1>1, SinkFacts DEF LoadTypes
<1>3. Touched(Table!ToSet(call))
  BY <1>0, <1>1, UnansweredTouches
<1>4. Table!ToSet(call) = counted + 1 .. counted + Len(call) /\ Table!ToSet(call) \subseteq 1 .. RowCount
      /\ Len(call) \in Nat
  BY <1>0, <1>1, CallRows
<1>5. LoadTypes'
  <2>1. Table!Settings'
    BY <1>0, <1>1, SettingsStay DEF LoadTypes
  <2>2. lost' \in 0 .. Retries
    BY <1>0, <1>1 DEF LoadTypes
  <2>3. applied' \subseteq 1 .. RowCount
    BY <1>0, <1>3, <1>4 DEF LoadTypes, Touched
  <2> QED
    BY <1>0, <1>1, <1>3, <2>1, <2>2, <2>3 DEF LoadTypes, Touched
<1>6. Placed'
  BY <1>0, <1>1 DEF Placed
<1>7. Delayed'
  BY <1>0, <1>1, <1>3 DEF Delayed, Touched
<1>8. Bounded'
  <2>1. table'[0] =< 1
    BY <1>0, <1>3 DEF Touched, Bounded
  <2>2. ASSUME NEW r \in 1 .. RowCount
        PROVE  table'[r] + Cardinality(Pending(r)') =< Allowed(r)'
    <3>1. /\ table[r] + Cardinality(Pending(r)) =< Allowed(r)
          /\ table[r] \in Nat /\ Cardinality(Pending(r)) \in Nat
          /\ table'[r] \in Nat /\ Cardinality(Pending(r)') \in Nat
      <4>1. Cardinality(Pending(r)) \in Nat
        BY <1>0, PendingFacts
      <4>2. table'[r] \in Nat /\ Cardinality(Pending(r)') \in Nat
        BY <1>3 DEF Touched
      <4> QED
        BY <1>0, <4>1, <4>2 DEF Bounded, LoadTypes
    <3>2. lost \in Nat /\ Most \in Nat /\ counted \in Nat
      BY <1>0 DEF LoadTypes, Most
    <3>3. CASE r \in Table!ToSet(call)
      <4>1. Allowed(r) = lost /\ Allowed(r)' = lost + 1
        BY <1>1, <1>4, <3>2, <3>3 DEF Allowed
      <4>2. table'[r] + Cardinality(Pending(r)') =< table[r] + Cardinality(Pending(r)) + 1
        BY <1>3, <3>3 DEF Touched
      <4> QED
        BY <3>1, <3>2, <4>1, <4>2
    <3>4. CASE r \notin Table!ToSet(call)
      <4>1. Allowed(r) = Allowed(r)' /\ Allowed(r) \in Nat
        BY <1>1, <1>4, <3>2, <3>4 DEF Allowed, Most
      <4>2. table'[r] + Cardinality(Pending(r)') =< table[r] + Cardinality(Pending(r))
        BY <1>3, <3>4 DEF Touched
      <4> QED
        BY <3>1, <4>1, <4>2
    <3> QED
      BY <3>3, <3>4
  <2> QED
    BY <2>1, <2>2 DEF Bounded
<1>9. Inserted'
  <2>0. said.how = "nothing" /\ said' = said /\ (done = 0 => counted = 0)
    BY <1>0, <1>1 DEF Placed
  <2>1. mode = "append" => table'[0] = 1
    BY <1>0, <1>1, <1>3 DEF Inserted, Touched, Table!Truncates
  <2>2. mode = "truncate" /\ (sink = "bigquery" => done > 0) => table'[0] = 0
    BY <1>0, <1>1, <1>3, <2>0 DEF Inserted, Touched, Well
  <2>3. ASSUME sink = "clickhouse", ~wiped', NEW r \in applied' PROVE table'[r] > 0
    <3>1. ~Table!Truncates /\ ~wiped /\ r \in 1 .. RowCount
      BY <1>0, <1>3, <1>4, <2>3 DEF Table!Truncates, Touched, LoadTypes
    <3>2. table[r] \in Nat /\ table'[r] \in Nat
      BY <1>0, <1>3, <3>1 DEF LoadTypes, Touched
    <3>3. CASE r \in applied
      <4>1. table[r] > 0 /\ table[r] =< table'[r]
        BY <1>0, <1>2, <1>3, <2>3, <3>1, <3>3 DEF Inserted, Touched
      <4> QED
        BY <3>2, <4>1
    <3> QED
      BY <1>3, <2>3, <3>3 DEF Touched
  <2>4. ASSUME ~wiped', NEW r \in 1 .. counted PROVE table'[r] > 0
    <3>1. counted > 0 /\ r \in 1 .. RowCount
      BY <1>0 DEF LoadTypes
    <3>2. ~Table!Truncates /\ ~wiped
      BY <1>3, <2>0, <2>4, <3>1 DEF Table!Truncates, Touched
    <3>3. table[r] > 0 /\ table[r] =< table'[r] /\ table[r] \in Nat /\ table'[r] \in Nat
      BY <1>0, <1>2, <1>3, <2>0, <3>1, <3>2 DEF Inserted, Touched, LoadTypes, Well
    <3> QED
      BY <3>3
  <2> QED
    BY <1>1, <2>0, <2>1, <2>2, <2>3, <2>4 DEF Inserted
<1>10. Staging' /\ Upserted'
  BY <1>1, <1>2 DEF Staging, Upserted
<1> QED
  BY <1>5, <1>6, <1>7, <1>8, <1>9, <1>10 DEF LoadInv

(* The last repeat has no answer either, or a statement is refused.         *)
LEMMA LoadFails == ASSUME LoadInv, Table!CallFails PROVE LoadInv'
<1> USE LoadNumbers
<1>0. LoadTypes /\ Placed /\ Delayed /\ Bounded /\ Inserted
  BY DEF LoadInv
<1>1. /\ loading = "call" /\ loading' = "ended" /\ said' = [how |-> "failed", count |-> counted]
      /\ UNCHANGED <<sink, mode, keys, odd, row, gathered, call, staged, done, lost, counted>>
  BY DEF Table!CallFails, Table!Ends, Table!Input
<1>2. CASE mode = "merge"
  <2>1. UNCHANGED <<table, applied, late, wiped>>
    BY <1>2 DEF Table!CallFails, Table!World
  <2> QED
    BY <1>0, <1>1, <2>1, LoadEnds DEF LoadTypes
<1>3. CASE mode # "merge"
  <2>1. Touched(Table!ToSet(call))
    BY <1>0, <1>1, <1>3, UnansweredTouches DEF Table!CallFails
  <2>2. Table!ToSet(call) = counted + 1 .. counted + Len(call) /\ Table!ToSet(call) \subseteq 1 .. RowCount
        /\ Len(call) \in Nat
    BY <1>0, <1>1, CallRows
  <2>3. said'.how = "failed" /\ said'.count = counted /\ counted \in 0 .. RowCount
        /\ said' \in [how : {"nothing", "plain", "ok", "failed", "unmerged"}, count : 0 .. RowCount]
    BY <1>0, <1>1 DEF LoadTypes
  <2>4. LoadTypes'
    <3>1. Table!Settings'
      BY <1>0, <1>1, SettingsStay DEF LoadTypes
    <3>2. applied' \subseteq 1 .. RowCount
      BY <1>0, <2>1, <2>2 DEF LoadTypes, Touched
    <3> QED
      BY <1>0, <1>1, <2>1, <2>3, <3>1, <3>2 DEF LoadTypes, Touched
  <2>5. Placed' /\ Delayed'
    BY <1>0, <1>1, <2>1, <2>3 DEF Placed, Delayed, Touched
  <2>6. Bounded'
    <3>1. table'[0] =< 1
      BY <1>0, <2>1 DEF Touched, Bounded
    <3>2. ASSUME NEW r \in 1 .. RowCount
          PROVE  table'[r] + Cardinality(Pending(r)') =< Allowed(r)'
      <4>1. Cardinality(Pending(r)) \in Nat
        BY <1>0, PendingFacts
      <4>2. table'[r] \in Nat /\ Cardinality(Pending(r)') \in Nat
        BY <2>1 DEF Touched
      <4>3. table[r] + Cardinality(Pending(r)) =< Allowed(r) /\ table[r] \in Nat
        BY <1>0 DEF Bounded, LoadTypes
      <4>4. lost \in Nat /\ Most \in Nat /\ lost + 1 =< Most /\ counted \in Nat /\ Allowed(r)' = Most
        BY <1>0, <1>1 DEF LoadTypes, Most, Delayed, Allowed
      <4>5. CASE r \in Table!ToSet(call)
        <5>1. Allowed(r) = lost
          BY <1>1, <2>2, <4>4, <4>5 DEF Allowed
        <5>2. table'[r] + Cardinality(Pending(r)') =< table[r] + Cardinality(Pending(r)) + 1
          BY <2>1, <4>5 DEF Touched
        <5> QED
          BY <4>1, <4>2, <4>3, <4>4, <5>1, <5>2
      <4>6. CASE r \notin Table!ToSet(call)
        <5>1. Allowed(r) \in {0, Most}
          BY <1>1, <2>2, <4>4, <4>6 DEF Allowed
        <5>2. table'[r] + Cardinality(Pending(r)') =< table[r] + Cardinality(Pending(r))
          BY <2>1, <4>6 DEF Touched
        <5> QED
          BY <4>1, <4>2, <4>3, <4>4, <5>1, <5>2
      <4> QED
        BY <4>5, <4>6
    <3> QED
      BY <3>1, <3>2 DEF Bounded
  <2>7. Inserted'
    <3>0. said.how = "nothing" /\ (done = 0 => counted = 0)
      BY <1>0, <1>1 DEF Placed
    <3>1. mode = "append" => table'[0] = 1
      BY <1>0, <1>1, <2>1 DEF Inserted, Touched, Table!Truncates
    <3>2. ASSUME sink = "clickhouse", ~wiped', NEW r \in applied' PROVE table'[r] > 0
      <4>1. ~Table!Truncates /\ ~wiped /\ r \in 1 .. RowCount
        BY <1>0, <2>1, <2>2, <3>2 DEF Table!Truncates, Touched, LoadTypes
      <4>2. table[r] \in Nat /\ table'[r] \in Nat
        BY <1>0, <2>1, <4>1 DEF LoadTypes, Touched
      <4>3. CASE r \in applied
        <5>1. table[r] > 0 /\ table[r] =< table'[r]
          BY <1>0, <1>3, <2>1, <3>2, <4>1, <4>3 DEF Inserted, Touched
        <5> QED
          BY <4>2, <5>1
      <4> QED
        BY <2>1, <3>2, <4>3 DEF Touched
    <3>3. ASSUME ~wiped' PROVE counted =< Cardinality(Table!Held')
      <4>1. 1 .. counted \subseteq Table!Held'
        <5> SUFFICES ASSUME NEW r \in 1 .. counted PROVE r \in Table!Held'
          OBVIOUS
        <5>1. counted > 0 /\ r \in 1 .. RowCount
          BY <2>3
        <5>2. ~Table!Truncates /\ ~wiped
          BY <2>1, <3>0, <3>3, <5>1 DEF Table!Truncates, Touched
        <5>3. table[r] > 0 /\ table[r] =< table'[r] /\ table[r] \in Nat /\ table'[r] \in Nat
          BY <1>0, <1>3, <2>1, <3>0, <5>1, <5>2 DEF Inserted, Touched, LoadTypes, Well
        <5> QED
          BY <5>1, <5>3 DEF Table!Held, Table!Rows
      <4>2. IsFiniteSet(Table!Held')
        BY RowsFinite DEF Table!Held, Table!Rows
      <4> QED
        BY <2>3, <4>1, <4>2, HoldsFirst
    <3> QED
      BY <1>1, <2>3, <3>1, <3>2, <3>3 DEF Inserted, Well
  <2>8. Staging' /\ Upserted'
    BY <1>1, <1>3 DEF Staging, Upserted
  <2> QED
    BY <2>4, <2>5, <2>6, <2>7, <2>8 DEF LoadInv
<1> QED
  BY <1>2, <1>3

(* A request whose answer was lost takes effect after all.                  *)
LEMMA LoadLands == ASSUME LoadInv, Table!LateLands PROVE LoadInv'
<1> USE LoadNumbers
<1>0. LoadTypes /\ Placed /\ Delayed /\ Bounded /\ Inserted
  BY DEF LoadInv
<1>1. PICK job \in late :
        /\ table' = IF job.truncates THEN Table!WithTruncated(job.rows) ELSE Table!With(job.rows)
        /\ applied' = applied \cup job.rows
        /\ late' = late \ {job}
  BY DEF Table!LateLands
<1>2. UNCHANGED <<sink, mode, keys, odd, row, gathered, call, staged, wiped, done, lost, counted,
                  loading, said>>
  BY DEF Table!LateLands, Table!Input
<1>3. mode # "merge" /\ job.rows \in SUBSET (1 .. RowCount)
      /\ (job.truncates => wiped /\ mode = "truncate")
  BY <1>0, <1>1, SinkFacts DEF Delayed, LoadTypes
<1>4. \A r \in 0 .. RowCount : table[r] \in Nat
  BY <1>0 DEF LoadTypes
<1>5. /\ table' \in [0 .. RowCount -> Nat]
      /\ table'[0] = IF job.truncates THEN 0 ELSE table[0]
      /\ \A r \in 1 .. RowCount :
            /\ r \in job.rows => table'[r] \in 1 .. table[r] + 1
            /\ r \notin job.rows => table'[r] =< table[r]
            /\ ~job.truncates => table[r] =< table'[r]
  <2>1. CASE job.truncates
    BY <1>1, <1>3, <1>4, <2>1, TruncatedFacts
  <2>2. CASE ~job.truncates
    BY <1>0, <1>1, <1>3, <1>4, <2>2, WithFacts
  <2> QED
    BY <2>1, <2>2
<1>6. ASSUME NEW r \in 1 .. RowCount
      PROVE  /\ table'[r] + Cardinality(Pending(r)') =< Allowed(r)'
             /\ r \in job.rows => Allowed(r) > 0
  <2>1. /\ Cardinality(Pending(r)') \in Nat
        /\ r \in job.rows => Cardinality(Pending(r)') + 1 = Cardinality(Pending(r))
        /\ r \notin job.rows => Cardinality(Pending(r)') = Cardinality(Pending(r))
    BY <1>0, <1>1, PendingLands
  <2>2. Cardinality(Pending(r)) \in Nat
    BY <1>0, PendingFacts
  <2>3. table[r] + Cardinality(Pending(r)) =< Allowed(r) /\ Allowed(r)' = Allowed(r) /\ Allowed(r) \in Nat
    BY <1>0, <1>2 DEF Bounded, Allowed, Most, LoadTypes
  <2>4. table[r] \in Nat /\ table'[r] \in Nat
    BY <1>4, <1>5
  <2> QED
    BY <1>5, <2>1, <2>2, <2>3, <2>4
<1>7. LoadTypes'
  <2>1. Table!Settings'
    BY <1>0, <1>2, SettingsStay DEF LoadTypes
  <2>2. IsFiniteSet(late') /\ late' \subseteq late
    BY <1>0, <1>1, FS_RemoveElement DEF LoadTypes
  <2>3. applied' \subseteq 1 .. RowCount
    BY <1>0, <1>1, <1>3 DEF LoadTypes
  <2> QED
    BY <1>0, <1>2, <1>5, <2>1, <2>2, <2>3 DEF LoadTypes
<1>8. Placed'
  <2>1. ASSUME loading = "truncate" PROVE job.rows = {}
    <3>1. Len(call) = 0 /\ counted = 0 /\ Len(gathered) = 0
      BY <1>0, <2>1 DEF Placed, LoadTypes
    <3>2. \A r \in 1 .. RowCount : Allowed(r) = 0
      BY <2>1, <3>1 DEF Allowed
    <3> QED
      BY <1>3, <1>6, <3>2
  <2> QED
    BY <1>0, <1>1, <1>2, <2>1 DEF Placed
<1>9. Delayed'
  BY <1>0, <1>1, <1>2 DEF Delayed
<1>10. Bounded'
  BY <1>0, <1>5, <1>6 DEF Bounded
<1>11. Inserted'
  <2>1. table[0] \in Nat /\ (mode = "append" => table'[0] = 1)
        /\ (table[0] = 0 => table'[0] = 0)
    BY <1>0, <1>3, <1>4, <1>5 DEF Inserted
  <2>2. ASSUME ~wiped PROVE \A r \in 1 .. RowCount : table[r] > 0 => table'[r] > 0
    <3> SUFFICES ASSUME NEW r \in 1 .. RowCount, table[r] > 0 PROVE table'[r] > 0
      OBVIOUS
    <3>1. table[r] \in Nat /\ table'[r] \in Nat /\ table[r] =< table'[r]
      BY <1>3, <1>4, <1>5, <2>2
    <3> QED
      BY <3>1
  <2>3. \A r \in job.rows : table'[r] > 0
    BY <1>3, <1>4, <1>5
  <2>4. ~wiped /\ sink = "clickhouse" => \A r \in applied' : table'[r] > 0
    BY <1>0, <1>1, <1>3, <2>2, <2>3 DEF Inserted, LoadTypes
  <2>5. said.how \in Well /\ ~wiped => \A r \in 1 .. counted : table'[r] > 0
    <3>1. \A r \in 1 .. counted : r \in 1 .. RowCount
      BY <1>0 DEF LoadTypes
    <3> QED
      BY <1>0, <1>3, <2>2, <3>1 DEF Inserted
  <2>6. said.how = "failed" /\ ~wiped => said.count =< Cardinality(Table!Held')
    <3>1. said.count \in Nat
      BY <1>0 DEF LoadTypes
    <3> QED
      BY <1>0, <1>3, <2>2, <3>1, HeldGrows DEF Inserted
  <2>7. mode = "truncate" /\ said.how \in Well /\ loading # "truncate" /\ (sink = "bigquery" => done > 0)
        => table'[0] = 0
    BY <1>0, <2>1 DEF Inserted
  <2> QED
    BY <1>2, <2>1, <2>4, <2>5, <2>6, <2>7 DEF Inserted
<1>12. Staging' /\ Upserted'
  BY <1>2, <1>3 DEF Staging, Upserted
<1> QED
  BY <1>7, <1>8, <1>9, <1>10, <1>11, <1>12 DEF LoadInv
-----------------------------------------------------------------------------
(* TRUNCATE TABLE.                                                          *)
LEMMA EmptyFacts ==
    /\ Table!Empty \in [0 .. RowCount -> Nat] /\ \A r \in 0 .. RowCount : Table!Empty[r] = 0
BY DEF Table!Empty

LEMMA LoadTruncates ==
    ASSUME LoadInv, Table!Truncate \/ Table!TruncateRepeats \/ Table!TruncateFails
    PROVE  LoadInv'
<1> USE LoadNumbers
<1>0. LoadTypes /\ Placed /\ Delayed /\ Bounded /\ Inserted
  BY DEF LoadInv
<1>1. /\ loading = "truncate" /\ table' \in {table, Table!Empty}
      /\ UNCHANGED <<sink, mode, keys, odd, row, gathered, call, staged, applied, done, counted>>
  BY DEF Table!Truncate, Table!TruncateRepeats, Table!TruncateFails, Table!Input
<1>2. \/ UNCHANGED <<late, wiped>>
      \/ /\ late' = late \cup {[rows |-> {}, truncates |-> TRUE]} /\ wiped' = TRUE
         /\ sink = "clickhouse"
  BY DEF Table!Truncate, Table!TruncateRepeats, Table!TruncateFails
<1>3. \/ loading' = "read" /\ lost' = 0 /\ table' = Table!Empty /\ said' = said
      \/ loading' = loading /\ lost' = lost + 1 /\ lost < Retries /\ said' = said /\ sink = "clickhouse"
      \/ loading' = "ended" /\ lost' = lost /\ said' = [how |-> "failed", count |-> counted]
  BY DEF Table!Truncate, Table!TruncateRepeats, Table!TruncateFails, Table!Ends, Table!Input
<1>4. /\ row = 0 /\ mode = "truncate" /\ sink # "bigquery" /\ applied = {} /\ said.how = "nothing"
      /\ Len(call) = 0 /\ Len(gathered) = 0 /\ counted = 0 /\ call = <<>>
  BY <1>0, <1>1 DEF Placed, LoadTypes
<1>5. /\ table' \in [0 .. RowCount -> Nat]
      /\ \A r \in 0 .. RowCount : table[r] \in Nat /\ table'[r] \in {table[r], 0}
  BY <1>0, <1>1, EmptyFacts DEF LoadTypes
<1>6. /\ late' \subseteq [rows : SUBSET (1 .. RowCount), truncates : BOOLEAN]
      /\ IsFiniteSet(late') /\ wiped' \in BOOLEAN
      /\ (sink \notin {"bigquery", "clickhouse"} => late' = {})
      /\ \A job \in late' : job.truncates => wiped'
  <2>1. CASE UNCHANGED <<late, wiped>>
    BY <1>0, <2>1 DEF LoadTypes, Delayed
  <2>2. CASE /\ late' = late \cup {[rows |-> {}, truncates |-> TRUE]} /\ wiped' = TRUE
             /\ sink = "clickhouse"
    <3>1. IsFiniteSet(late')
      BY <1>0, <2>2, FS_AddElement DEF LoadTypes
    <3>2. [rows |-> {}, truncates |-> TRUE] \in [rows : SUBSET (1 .. RowCount), truncates : BOOLEAN]
      OBVIOUS
    <3> QED
      BY <1>0, <2>2, <3>1, <3>2 DEF LoadTypes
  <2> QED
    BY <1>2, <2>1, <2>2
<1>7. \A r \in 1 .. RowCount : Pending(r)' = Pending(r)
  BY <1>2 DEF Pending
<1>8. LoadTypes'
  <2>1. Table!Settings'
    BY <1>0, <1>1, SettingsStay DEF LoadTypes
  <2>2. lost' \in 0 .. Retries
    BY <1>0, <1>3 DEF LoadTypes
  <2>3. said' \in [how : {"nothing", "plain", "ok", "failed", "unmerged"}, count : 0 .. RowCount]
    BY <1>0, <1>3 DEF LoadTypes
  <2> QED
    BY <1>0, <1>1, <1>3, <1>5, <1>6, <2>1, <2>2, <2>3 DEF LoadTypes, Loads
<1>9. Placed'
  BY <1>0, <1>1, <1>3, <1>4 DEF Placed
<1>10. Delayed'
  BY <1>0, <1>1, <1>3, <1>4, <1>6 DEF Delayed
<1>11. Bounded'
  <2>1. table'[0] =< 1
    BY <1>0, <1>5 DEF Bounded
  <2>2. ASSUME NEW r \in 1 .. RowCount PROVE table'[r] + Cardinality(Pending(r)') =< Allowed(r)'
    <3>1. Cardinality(Pending(r)) \in Nat /\ table[r] \in Nat /\ table'[r] \in {table[r], 0}
      BY <1>0, <1>5, PendingFacts
    <3>2. table[r] + Cardinality(Pending(r)) =< Allowed(r) /\ Allowed(r) = 0
      BY <1>0, <1>1, <1>4 DEF Bounded, Allowed
    <3>3. Allowed(r)' \in Nat
      BY <1>1, <1>3, <1>4 DEF Allowed, Most
    <3> QED
      BY <1>7, <3>1, <3>2, <3>3
  <2> QED
    BY <2>1, <2>2 DEF Bounded
<1>12. Inserted'
  <2>1. loading' = "read" => table'[0] = 0
    BY <1>1, <1>3, EmptyFacts
  <2>2. Cardinality(Table!Held') \in Nat
    BY RowsFinite DEF Table!Held, Table!Rows
  <2>3. said'.how = "failed" => said'.count = 0 /\ said'.how \notin Well
    BY <1>3, <1>4 DEF Well
  <2>4. said'.how \in Well => loading' \in {"read", "truncate"}
    BY <1>1, <1>3 DEF Well
  <2> QED
    BY <1>1, <1>4, <2>1, <2>2, <2>3, <2>4 DEF Inserted
<1>13. Staging' /\ Upserted'
  BY <1>1, <1>4 DEF Staging, Upserted
<1> QED
  BY <1>8, <1>9, <1>10, <1>11, <1>12, <1>13 DEF LoadInv

-----------------------------------------------------------------------------
(* SQL Server's staging table and its one MERGE.                            *)
LEMMA LoadStages == ASSUME LoadInv, Table!Stage PROVE LoadInv'
<1> USE LoadNumbers
<1> DEFINE C == Table!ToSet(call)
<1>0. LoadTypes /\ Placed /\ Delayed /\ Bounded /\ Staging
  BY DEF LoadInv
<1>1. /\ loading = "call" /\ sink = "sqlserver" /\ mode = "merge" /\ Table!Wrote(Len(call))
      /\ staged' = staged \cup C /\ UNCHANGED <<table, applied, late, wiped>>
  BY DEF Table!Stage, Table!World
<1>2. /\ counted' = counted + Len(call) /\ counted' \in 0 .. RowCount
      /\ loading' = "read" /\ call' = <<>> /\ Len(call') = 0 /\ lost' = 0 /\ done' = done + 1
      /\ UNCHANGED <<sink, mode, keys, odd, row, gathered, said>>
      /\ 1 .. counted' = 1 .. counted \cup C /\ Placed'
  BY <1>0, <1>1, WroteFacts
<1>3. C \subseteq 1 .. RowCount
  BY <1>0, <1>1, CallRows
<1> HIDE DEF C
<1>4. LoadTypes'
  <2>1. Table!Settings'
    BY <1>0, <1>2, SettingsStay DEF LoadTypes
  <2>2. Len(call') =< BatchLimit /\ call' \in Seq(Nat) /\ done' \in Nat /\ lost' \in 0 .. Retries
    BY <1>0, <1>2 DEF LoadTypes
  <2> QED
    BY <1>0, <1>1, <1>2, <1>3, <2>1, <2>2 DEF LoadTypes, Loads
<1>5. Delayed'
  BY <1>0, <1>1, <1>2 DEF Delayed
<1>6. table = Before /\ table' = Before /\ Before' = Before
  BY <1>0, <1>1 DEF Staging, Before
<1>7. Bounded'
  <2>1. \A r \in 1 .. RowCount : Pending(r)' = {} /\ table'[r] = 0
    BY <1>0, <1>1, <1>6 DEF Pending, Delayed, Before
  <2>2. \A r \in 1 .. RowCount : Allowed(r)' \in Nat
    BY <1>1, <1>2 DEF Allowed, Most
  <2>3. \A r \in 1 .. RowCount : table'[r] + Cardinality(Pending(r)') =< Allowed(r)'
    BY <2>1, <2>2, FS_EmptySet
  <2>4. table'[0] =< 1
    BY <1>6 DEF Before
  <2> QED
    BY <2>3, <2>4 DEF Bounded
<1>8. Staging'
  <2>1. staged' = 1 .. counted' /\ said'.how = "nothing"
    BY <1>0, <1>1, <1>2 DEF Staging, Placed
  <2> QED
    BY <1>2, <1>6, <2>1 DEF Staging
<1>9. Inserted' /\ Upserted'
  BY <1>1, <1>2 DEF Inserted, Upserted
<1> QED
  BY <1>2, <1>4, <1>5, <1>7, <1>8, <1>9 DEF LoadInv

(* All rows merged into what was there before.                              *)
LEMMA MergedAfter ==
    ASSUME LoadTypes, mode = "merge", table = Before
    PROVE  Table!Merged(Table!Winners(1 .. RowCount)) = After
<1> USE LoadNumbers
<1> DEFINE W == Table!Winners(1 .. RowCount)
<1>1. W \subseteq 1 .. RowCount /\ keys[0] = "a" /\ Before[0] = 1
  BY DEF Table!Winners, LoadTypes, Before
<1>2. (\E w \in W : keys[w] = "a") <=> (\E s \in 1 .. RowCount : keys[s] = "a")
  <2>1. ASSUME NEW s \in 1 .. RowCount, keys[s] = "a" PROVE \E w \in W : keys[w] = "a"
    <3> DEFINE S == {r \in 1 .. RowCount : keys[r] = "a"}
    <3>1. S \in SUBSET (0 .. RowCount) /\ S # {}
      BY <2>1
    <3>2. PICK w \in S : \A y \in S : y <= w
      BY <3>1, MaxFacts
    <3>3. w \in W /\ keys[w] = "a"
      BY <3>2 DEF Table!Winners
    <3> QED
      BY <3>3
  <2> QED
    BY <1>1, <2>1
<1>3. ASSUME NEW r \in 0 .. RowCount
      PROVE  (IF r \in W THEN 1
              ELSE IF \E w \in W : keys[w] # "null" /\ keys[w] = keys[r] THEN 0 ELSE Before[r])
             = (IF r \in W THEN 1
                ELSE IF r = 0 /\ ~(\E s \in 1 .. RowCount : keys[s] = "a") THEN 1 ELSE 0)
  <2> HIDE DEF W
  <2>1. CASE r = 0
    BY <1>1, <1>2, <2>1
  <2>2. CASE r # 0
    <3>1. Before[r] = 0
      BY <2>2 DEF Before
    <3> QED
      BY <2>2, <3>1
  <2> QED
    BY <2>1, <2>2
<1> HIDE DEF W
<1>4. Table!Merged(W) = After
  BY <1>3 DEF Table!Merged, Table!Null, After, W
<1> QED
  BY <1>4 DEF W

LEMMA LoadMerges ==
    ASSUME LoadInv, Table!Merge \/ Table!MergeFails
    PROVE  LoadInv'
<1> USE LoadNumbers
<1>0. LoadTypes /\ Placed /\ Delayed /\ Staging
  BY DEF LoadInv
<1>1. /\ loading = "merge" /\ staged' = {} /\ loading' = "ended"
      /\ UNCHANGED <<sink, mode, keys, odd, row, gathered, call, late, wiped, done, lost, counted>>
      /\ applied' \in {applied, applied \cup staged}
  BY DEF Table!Merge, Table!MergeFails, Table!Ends, Table!Input
<1>2. sink = "sqlserver" /\ mode = "merge" /\ counted = RowCount /\ staged = 1 .. RowCount /\ table = Before
  <2>1. Len(call) = 0 /\ Len(gathered) = 0 /\ row = RowCount /\ sink = "sqlserver" /\ mode = "merge"
    BY <1>0, <1>1 DEF Placed
  <2> QED
    BY <1>0, <1>1, <2>1 DEF Placed, Staging, LoadTypes
<1>3. \/ table' = After /\ said' = [how |-> "ok", count |-> counted]
      \/ table' \in {Before, After} /\ said' = [how |-> "unmerged", count |-> counted]
  BY <1>0, <1>2, MergedAfter DEF Table!Merge, Table!MergeFails, Table!Ends
<1>4. After' = After /\ Before' = Before
  BY <1>1 DEF After, Before, Table!Winners
<1>5. \A f \in {Before, After} : f \in [0 .. RowCount -> Nat] /\ \A r \in 0 .. RowCount : f[r] =< 1
  BY DEF Before, After
<1>6. LoadTypes'
  <2>1. Table!Settings'
    BY <1>0, <1>1, SettingsStay DEF LoadTypes
  <2>2. applied' \subseteq 1 .. RowCount
    BY <1>0, <1>1, <1>2 DEF LoadTypes
  <2>3. said' \in [how : {"nothing", "plain", "ok", "failed", "unmerged"}, count : 0 .. RowCount]
    BY <1>2, <1>3
  <2> QED
    BY <1>0, <1>1, <1>3, <1>5, <2>1, <2>2, <2>3 DEF LoadTypes
<1>7. Placed' /\ Delayed'
  BY <1>0, <1>1, <1>2, <1>3 DEF Placed, Delayed
<1>8. Bounded'
  <2>1. \A r \in 1 .. RowCount : Pending(r)' = {} /\ Allowed(r)' = 1 /\ table'[r] =< 1 /\ table'[r] \in Nat
    BY <1>0, <1>1, <1>2, <1>3, <1>5 DEF Pending, Delayed, Allowed, Most
  <2>2. table'[0] =< 1
    BY <1>3, <1>5
  <2> QED
    BY <2>1, <2>2, FS_EmptySet DEF Bounded
<1>9. Staging'
  BY <1>1, <1>3, <1>4 DEF Staging
<1>10. Inserted' /\ Upserted'
  BY <1>1, <1>2 DEF Inserted, Upserted
<1> QED
  BY <1>6, <1>7, <1>8, <1>9, <1>10 DEF LoadInv
-----------------------------------------------------------------------------
(* MongoDB's upserts: one row of each key that has come, and no other.      *)
LEMMA OnePerKeyFacts ==
    ASSUME NEW W, NEW S
    PROVE  W \in Table!OnePerKey(S) <=>
             /\ W \subseteq S
             /\ \A r \in S : \E w \in W : keys[w] = keys[r]
             /\ \A r, w \in W : keys[r] = keys[w] => r = w
<1>1. ASSUME W \in Table!OnePerKey(S)
      PROVE  /\ W \subseteq S /\ \A r \in S : \E w \in W : keys[w] = keys[r]
             /\ \A r, w \in W : keys[r] = keys[w] => r = w
  <2>1. W \subseteq S /\ {keys[r] : r \in W} = {keys[r] : r \in S}
        /\ \A r, w \in W : keys[r] = keys[w] => r = w
    BY <1>1 DEF Table!OnePerKey
  <2>2. ASSUME NEW r \in S PROVE \E w \in W : keys[w] = keys[r]
    <3>1. keys[r] \in {keys[w] : w \in W}
      BY <2>1
    <3> QED
      BY <3>1
  <2> QED
    BY <2>1, <2>2
<1>2. ASSUME W \subseteq S, \A r \in S : \E w \in W : keys[w] = keys[r],
             \A r, w \in W : keys[r] = keys[w] => r = w
      PROVE  W \in Table!OnePerKey(S)
  <2>1. {keys[r] : r \in W} = {keys[r] : r \in S}
    BY <1>2
  <2> QED
    BY <1>2, <2>1 DEF Table!OnePerKey
<1> QED
  BY <1>1, <1>2

LEMMA MergedFacts ==
    ASSUME LoadTypes, NEW W \in SUBSET (1 .. RowCount), \A w \in W : keys[w] # "null"
    PROVE  /\ Table!Merged(W) \in [0 .. RowCount -> Nat]
           /\ \A r \in 0 .. RowCount :
                Table!Merged(W)[r] = IF r \in W THEN 1
                                     ELSE IF \E w \in W : keys[w] = keys[r] THEN 0 ELSE table[r]
BY LoadNumbers DEF LoadTypes, Table!Merged, Table!Null

LEMMA LoadUpserts == ASSUME LoadInv, Table!Upsert PROVE LoadInv'
<1> USE LoadNumbers
<1> DEFINE C == Table!ToSet(call)
<1>0. LoadTypes /\ Placed /\ Delayed /\ Bounded /\ Upserted
  BY DEF LoadInv
<1>1. /\ loading = "call" /\ sink = "mongo" /\ mode = "merge" /\ Table!Wrote(Len(call))
      /\ applied' = applied \cup C /\ UNCHANGED <<staged, late, wiped>>
      /\ \A r \in C : keys[r] # "null"
  BY DEF Table!Upsert, Table!Keyless, Table!Null
<1>2. PICK W \in Table!OnePerKey(C) : table' = Table!Merged(W)
  BY DEF Table!Upsert
<1>3. /\ counted' = counted + Len(call) /\ counted' \in 0 .. RowCount
      /\ loading' = "read" /\ call' = <<>> /\ Len(call') = 0 /\ lost' = 0 /\ done' = done + 1
      /\ UNCHANGED <<sink, mode, keys, odd, row, gathered, said>>
      /\ 1 .. counted' = 1 .. counted \cup C /\ Placed'
  BY <1>0, <1>1, WroteFacts
<1>4. C = counted + 1 .. counted + Len(call) /\ C \subseteq 1 .. RowCount /\ Len(call) \in Nat
  BY <1>0, <1>1, CallRows
<1> HIDE DEF C
<1>5. /\ W \subseteq C /\ \A r \in C : \E w \in W : keys[w] = keys[r]
      /\ \A r, w \in W : keys[r] = keys[w] => r = w
  BY <1>2, OnePerKeyFacts
<1>6. /\ table' \in [0 .. RowCount -> Nat]
      /\ \A r \in 0 .. RowCount :
            table'[r] = IF r \in W THEN 1
                        ELSE IF \E w \in W : keys[w] = keys[r] THEN 0 ELSE table[r]
  <2>1. W \in SUBSET (1 .. RowCount) /\ \A w \in W : keys[w] # "null"
    BY <1>1, <1>4, <1>5
  <2> QED
    BY <1>0, <1>2, <2>1, MergedFacts
<1>7. LoadTypes'
  <2>1. Table!Settings'
    BY <1>0, <1>3, SettingsStay DEF LoadTypes
  <2>2. Len(call') =< BatchLimit /\ call' \in Seq(Nat) /\ done' \in Nat /\ lost' \in 0 .. Retries
    BY <1>0, <1>3 DEF LoadTypes
  <2>3. applied' \subseteq 1 .. RowCount
    BY <1>0, <1>1, <1>4 DEF LoadTypes
  <2> QED
    BY <1>0, <1>1, <1>3, <1>6, <2>1, <2>2, <2>3 DEF LoadTypes, Loads
<1>8. Delayed'
  BY <1>0, <1>1, <1>3 DEF Delayed
<1>9. Bounded'
  <2>1. table'[0] =< 1
    BY <1>0, <1>6 DEF Bounded
  <2>2. ASSUME NEW r \in 1 .. RowCount PROVE table'[r] + Cardinality(Pending(r)') =< Allowed(r)'
    <3>1. Pending(r)' = {} /\ Pending(r) = {} /\ Cardinality({}) = 0
      BY <1>0, <1>1, FS_EmptySet DEF Pending, Delayed
    <3>2. table[r] =< Allowed(r) /\ table[r] \in Nat /\ table'[r] \in Nat /\ lost = 0
      <4>1. table[r] + Cardinality(Pending(r)) =< Allowed(r) /\ table[r] \in Nat /\ table'[r] \in Nat
        BY <1>0, <1>6 DEF Bounded, LoadTypes
      <4> QED
        BY <1>0, <1>1, <3>1, <4>1 DEF Delayed
    <3>3. counted \in Nat
      BY <1>0 DEF LoadTypes
    <3>4. CASE r =< counted'
      <4>1. Allowed(r)' = 1 /\ Allowed(r) \in {1, 0}
        BY <1>1, <1>3, <3>2, <3>4 DEF Allowed, Most
      <4>2. table'[r] =< 1
        BY <1>6, <3>2, <4>1
      <4> QED
        BY <3>1, <3>2, <4>1, <4>2
    <3>5. CASE r > counted'
      <4>1. Allowed(r)' = 0 /\ Allowed(r) = 0 /\ r \notin W
        BY <1>1, <1>3, <1>4, <1>5, <3>3, <3>5 DEF Allowed
      <4>2. table'[r] = 0
        BY <1>6, <3>2, <4>1
      <4> QED
        BY <3>1, <4>1, <4>2
    <3> QED
      BY <1>3, <3>4, <3>5
  <2> QED
    BY <2>1, <2>2 DEF Bounded
<1>10. Upserted'
  <2> DEFINE D == 1 .. counted
             H == Table!Held
             N == Table!Held'
  <2>0. said.how = "nothing" /\ H = {r \in 1 .. RowCount : table[r] > 0}
        /\ N = {r \in 1 .. RowCount : table'[r] > 0}
    BY <1>0, <1>1 DEF Placed, Table!Held, Table!Rows
  <2>1. /\ H \subseteq D /\ (\A r \in D : \E w \in H : keys[w] = keys[r])
        /\ \A r, w \in H : keys[r] = keys[w] => r = w
    <3>1. H \in Table!OnePerKey(D)
      BY <1>0, <1>1, <2>0 DEF Upserted, Well
    <3> HIDE DEF H, D
    <3> QED
      BY <3>1, OnePerKeyFacts
  <2>2. \A r \in 1 .. RowCount : r \in N <=> r \in W \/ (r \in H /\ ~(\E w \in W : keys[w] = keys[r]))
    <3> SUFFICES ASSUME NEW r \in 1 .. RowCount
                 PROVE  r \in N <=> r \in W \/ (r \in H /\ ~(\E w \in W : keys[w] = keys[r]))
      OBVIOUS
    <3>1. (r \in N <=> table'[r] > 0) /\ (r \in H <=> table[r] > 0)
      BY <2>0
    <3>2. table'[r] = IF r \in W THEN 1 ELSE IF \E w \in W : keys[w] = keys[r] THEN 0 ELSE table[r]
      BY <1>6
    <3> HIDE DEF H, N
    <3> QED
      BY <3>1, <3>2
  <2>3. D \subseteq 1 .. RowCount /\ W \subseteq 1 .. RowCount /\ N \subseteq 1 .. RowCount
    <3>1. N \subseteq 1 .. RowCount
      BY <2>0
    <3>2. D \subseteq 1 .. RowCount
      BY <1>0 DEF LoadTypes
    <3> HIDE DEF D, H, N
    <3> QED
      BY <1>4, <1>5, <3>1, <3>2
  <2> HIDE DEF D, H, N
  <2>4. \A r \in N : r \in W \/ r \in H
    BY <2>2, <2>3
  <2>5. N \subseteq D \cup C
    BY <1>5, <2>1, <2>4
  <2>6. ASSUME NEW r \in D \cup C PROVE \E w \in N : keys[w] = keys[r]
    <3>1. CASE r \in C
      BY <1>5, <2>2, <2>3, <3>1
    <3>2. CASE r \in D
      <4>1. PICK h \in H : keys[h] = keys[r]
        BY <2>1, <3>2
      <4>2. CASE \E w \in W : keys[w] = keys[h]
        BY <2>2, <2>3, <4>1, <4>2
      <4>3. CASE ~(\E w \in W : keys[w] = keys[h])
        BY <2>1, <2>2, <2>3, <4>1, <4>3
      <4> QED
        BY <4>2, <4>3
    <3> QED
      BY <3>1, <3>2
  <2>7. ASSUME NEW r \in N, NEW w \in N, keys[r] = keys[w] PROVE r = w
    <3>1. r \in 1 .. RowCount /\ w \in 1 .. RowCount
      BY <2>3
    <3>2. CASE r \in W /\ w \in W
      BY <1>5, <2>7, <3>2
    <3>3. CASE r \notin W /\ w \notin W
      BY <2>1, <2>2, <2>7, <3>1, <3>3
    <3>4. CASE (r \in W /\ w \notin W) \/ (r \notin W /\ w \in W)
      BY <2>2, <2>7, <3>1, <3>4
    <3> QED
      BY <3>2, <3>3, <3>4
  <2>8. N \in Table!OnePerKey(D \cup C)
    BY <2>5, <2>6, <2>7, OnePerKeyFacts
  <2>9. Table!OnePerKey(1 .. counted)' = Table!OnePerKey(D \cup C)
    <3>1. Table!OnePerKey(1 .. counted)' = Table!OnePerKey(1 .. counted')
      BY <1>3 DEF Table!OnePerKey
    <3> QED
      BY <1>3, <3>1 DEF D
  <2>10. table'[0] = IF \E r \in D \cup C : keys[r] = "a" THEN 0 ELSE 1
    <3>1. 0 \notin W /\ keys[0] = "a" /\ table[0] = IF \E r \in D : keys[r] = "a" THEN 0 ELSE 1
      BY <1>0, <1>1, <2>0, <2>3 DEF LoadTypes, Upserted, D, Well
    <3>2. (\E w \in W : keys[w] = "a") <=> (\E r \in C : keys[r] = "a")
      BY <1>5
    <3>3. table'[0] = IF \E w \in W : keys[w] = "a" THEN 0 ELSE table[0]
      BY <1>6, <3>1
    <3> QED
      BY <3>1, <3>2, <3>3
  <2>11. \A r \in D \cup C : keys[r] # "null" /\ r \in applied'
    BY <1>0, <1>1, <2>0 DEF Upserted, D, Well
  <2> QED
    BY <1>3, <2>0, <2>8, <2>9, <2>10, <2>11 DEF Upserted, D, N
<1>11. Inserted' /\ Staging'
  BY <1>1, <1>3 DEF Inserted, Staging
<1> QED
  BY <1>3, <1>7, <1>8, <1>9, <1>10, <1>11 DEF LoadInv

LEMMA TableCounts == ASSUME NEW S PROVE Table!Cardinality(S) = Cardinality(S)
BY DEF Table!Cardinality, Cardinality

(* Unordered: the documents that were not refused are there.                *)
LEMMA LoadRefuses == ASSUME LoadInv, Table!MongoRefuses PROVE LoadInv'
<1> USE LoadNumbers
<1> DEFINE C == Table!ToSet(call)
           D == 1 .. counted
<1>0. LoadTypes /\ Placed /\ Delayed /\ Bounded /\ Inserted /\ Upserted
  BY DEF LoadInv
<1>1. /\ loading = "call" /\ sink = "mongo" /\ loading' = "ended"
      /\ said' = [how |-> "failed", count |-> counted']
      /\ mode = "merge" => \A r \in C : keys[r] # "null"
      /\ UNCHANGED <<sink, mode, keys, odd, row, gathered, call, staged, late, wiped, done, lost>>
  BY DEF Table!MongoRefuses, Table!Keyless, Table!Null, Table!Input
<1>2. PICK ok \in SUBSET C :
        /\ \E W \in Table!OnePerKey(ok) :
             table' = IF mode = "merge" THEN Table!Merged(W) ELSE Table!With(ok)
        /\ applied' = applied \cup ok
        /\ counted' = counted + Cardinality(ok)
  BY TableCounts DEF Table!MongoRefuses, Table!Counted
<1>3. PICK W \in Table!OnePerKey(ok) :
        table' = IF mode = "merge" THEN Table!Merged(W) ELSE Table!With(ok)
  BY <1>2
<1>4. C = counted + 1 .. counted + Len(call) /\ C \subseteq 1 .. RowCount /\ Len(call) \in Nat
      /\ counted + Len(call) =< RowCount /\ counted \in 0 .. RowCount
  BY <1>0, <1>1, CallRows DEF LoadTypes
<1> HIDE DEF C
<1>5. W \subseteq ok
  BY <1>3, OnePerKeyFacts
<1>6. said.how = "nothing"
  BY <1>0, <1>1 DEF Placed
<1>7. IsFiniteSet(ok) /\ Cardinality(ok) \in Nat /\ Cardinality(ok) =< Len(call)
  <2>1. IsFiniteSet(C) /\ Cardinality(C) = Len(call)
    <3>1. counted + 1 \in Int /\ counted + Len(call) \in Int
      BY <1>4
    <3> QED
      <4>1. IsFiniteSet(counted + 1 .. counted + Len(call))
            /\ Cardinality(counted + 1 .. counted + Len(call)) =
                IF counted + 1 > counted + Len(call) THEN 0 ELSE (counted + Len(call)) - (counted + 1) + 1
        BY <3>1, FS_Interval
      <4> QED
        BY <1>4, <4>1
  <2>2. IsFiniteSet(ok) /\ Cardinality(ok) =< Cardinality(C)
    BY <1>2, <2>1, FS_Subset
  <2> QED
    BY <2>1, <2>2, FS_CardinalityType
<1>8. counted' \in 0 .. RowCount /\ said'.how = "failed" /\ said'.count = counted'
      /\ said' \in [how : {"nothing", "plain", "ok", "failed", "unmerged"}, count : 0 .. RowCount]
  BY <1>1, <1>2, <1>4, <1>7
<1>9. ASSUME NEW S \in SUBSET (1 .. RowCount), D \subseteq S, ok \subseteq S
      PROVE  counted' =< Cardinality(S)
  <2>1. IsFiniteSet(D) /\ Cardinality(D) = counted
    <3>1. 1 \in Int /\ counted \in Int /\ counted \in Nat
      BY <1>4
    <3>2. IsFiniteSet(1 .. counted) /\ Cardinality(1 .. counted) = IF 1 > counted THEN 0 ELSE counted - 1 + 1
      BY <3>1, FS_Interval
    <3> QED
      BY <3>1, <3>2
  <2>2. D \cap ok = {}
    BY <1>2, <1>4
  <2>3. Cardinality(D \cup ok) = Cardinality(D) + Cardinality(ok) - Cardinality(D \cap ok)
    BY <1>7, <2>1, FS_Union
  <2>4. Cardinality(D \cup ok) = counted'
    <3>1. Cardinality(D \cap ok) = 0
      BY <2>2, FS_EmptySet
    <3> HIDE DEF D
    <3> QED
      BY <1>2, <1>4, <1>7, <2>1, <2>3, <3>1
  <2>5. IsFiniteSet(S) /\ D \cup ok \subseteq S
    BY <1>9, RowsFinite
  <2> QED
    BY <2>4, <2>5, FS_Subset
<1>10. ok \in SUBSET (1 .. RowCount) /\ W \in SUBSET (1 .. RowCount)
  BY <1>2, <1>4, <1>5
<1>11. /\ table' \in [0 .. RowCount -> Nat]
       /\ \A r \in 1 .. RowCount :
            /\ r \notin ok => table'[r] \in {table[r], 0}
            /\ r \in ok => table'[r] \in {0, 1, table[r] + 1, table[r]}
            /\ mode # "merge" => table[r] =< table'[r] /\ (r \in ok => table'[r] > 0)
       /\ table'[0] \in {0, table[0]} /\ (mode # "merge" => table'[0] = table[0])
  <2>0. \A r \in 0 .. RowCount : table[r] \in Nat
    BY <1>0 DEF LoadTypes
  <2>1. CASE mode = "merge"
    <3>1. \A w \in W : keys[w] # "null"
      BY <1>1, <1>2, <1>5, <2>1
    <3>2. /\ table' \in [0 .. RowCount -> Nat]
          /\ \A r \in 0 .. RowCount :
               table'[r] = IF r \in W THEN 1
                           ELSE IF \E w \in W : keys[w] = keys[r] THEN 0 ELSE table[r]
      BY <1>0, <1>3, <1>10, <2>1, <3>1, MergedFacts
    <3> QED
      BY <1>5, <1>10, <2>0, <2>1, <3>2
  <2>2. CASE mode # "merge"
    BY <1>0, <1>3, <1>10, <2>0, <2>2, WithFacts
  <2> QED
    BY <2>1, <2>2
<1>12. LoadTypes'
  <2>1. Table!Settings'
    BY <1>0, <1>1, SettingsStay DEF LoadTypes
  <2>2. applied' \subseteq 1 .. RowCount
    BY <1>0, <1>2, <1>10 DEF LoadTypes
  <2> QED
    BY <1>0, <1>1, <1>8, <1>11, <2>1, <2>2 DEF LoadTypes
<1>13. Placed' /\ Delayed'
  BY <1>0, <1>1, <1>8 DEF Placed, Delayed
<1>14. Bounded'
  <2>1. table'[0] =< 1
    BY <1>0, <1>11 DEF Bounded
  <2>2. ASSUME NEW r \in 1 .. RowCount PROVE table'[r] + Cardinality(Pending(r)') =< Allowed(r)'
    <3>1. Pending(r)' = {} /\ Pending(r) = {} /\ Cardinality({}) = 0 /\ lost = 0
      BY <1>0, <1>1, FS_EmptySet DEF Pending, Delayed
    <3>2. table[r] + Cardinality(Pending(r)) =< Allowed(r) /\ table[r] \in Nat /\ table'[r] \in Nat
      BY <1>0, <1>11 DEF Bounded, LoadTypes
    <3>3. Allowed(r)' = 1 /\ Allowed(r) \in {0, 1} /\ (r \in ok => Allowed(r) = 0)
      BY <1>1, <1>2, <1>4, <3>1 DEF Allowed, Most
    <3>4. table[r] =< Allowed(r)
      BY <3>1, <3>2
    <3>5. table'[r] =< 1
      BY <1>11, <3>2, <3>3, <3>4
    <3> QED
      BY <3>1, <3>2, <3>3, <3>5
  <2> QED
    BY <2>1, <2>2 DEF Bounded
<1>15. Inserted'
  <2>1. ASSUME mode # "merge", ~wiped PROVE counted' =< Cardinality(Table!Held')
    <3>1. \A r \in D : table[r] > 0 /\ r \in 1 .. RowCount
      BY <1>0, <1>4, <1>6, <2>1 DEF Inserted, Well
    <3>2. \A r \in 1 .. RowCount : table[r] \in Nat /\ table'[r] \in Nat
      BY <1>0, <1>11 DEF LoadTypes
    <3>3. \A r \in D \cup ok : table'[r] > 0 /\ r \in 1 .. RowCount
      BY <1>10, <1>11, <2>1, <3>1, <3>2
    <3>4. Table!Held' = {r \in 1 .. RowCount : table'[r] > 0}
      BY DEF Table!Held, Table!Rows
    <3>5. Table!Held' \in SUBSET (1 .. RowCount) /\ D \subseteq Table!Held' /\ ok \subseteq Table!Held'
      BY <3>3, <3>4
    <3> QED
      BY <1>9, <3>5
  <2> QED
    BY <1>0, <1>1, <1>8, <1>11, <2>1, SinkFacts DEF Inserted, Well, LoadTypes
<1>16. Upserted'
  <2>1. ASSUME mode = "merge" PROVE counted' =< Cardinality(applied')
    <3>1. D \subseteq applied /\ applied \subseteq 1 .. RowCount
      BY <1>0, <1>1, <1>6, <2>1 DEF Upserted, Well, LoadTypes
    <3>2. applied' \in SUBSET (1 .. RowCount) /\ D \subseteq applied' /\ ok \subseteq applied'
      BY <1>2, <1>10, <3>1
    <3> QED
      BY <1>9, <3>2
  <2> QED
    BY <1>1, <1>8, <2>1 DEF Upserted, Well
<1>17. Staging'
  BY <1>1 DEF Staging
<1> QED
  BY <1>12, <1>13, <1>14, <1>15, <1>16, <1>17 DEF LoadInv

LEMMA LoadStays == LoadInv /\ UNCHANGED load => LoadInv'
<1> SUFFICES ASSUME LoadInv, UNCHANGED load PROVE LoadInv'
  OBVIOUS
<1>1. UNCHANGED <<sink, mode, keys, odd, row, gathered, call, staged, table, applied, late, wiped, done,
                  lost, counted, loading, said>>
  BY DEF load
<1>2. LoadTypes'
  BY <1>1, SettingsStay DEF LoadInv, LoadTypes
<1>3. Placed' /\ Delayed'
  BY <1>1 DEF LoadInv, Placed, Delayed
<1>4. Bounded'
  <2>1. \A r \in 1 .. RowCount : Pending(r)' = Pending(r) /\ Allowed(r)' = Allowed(r)
    BY <1>1 DEF Pending, Allowed, Most
  <2> QED
    BY <1>1, <2>1 DEF LoadInv, Bounded
<1>5. Table!Held' = Table!Held /\ Table!OnePerKey(1 .. counted)' = Table!OnePerKey(1 .. counted)
      /\ Before' = Before /\ After' = After
  BY <1>1 DEF Table!Held, Table!OnePerKey, Before, After, Table!Winners
<1>6. Inserted' /\ Staging' /\ Upserted'
  BY <1>1, <1>5 DEF LoadInv, Inserted, Staging, Upserted
<1> QED
  BY <1>2, <1>3, <1>4, <1>6 DEF LoadInv

LEMMA LoadSteps == LoadInv /\ (Table!Next \/ UNCHANGED load) => LoadInv'
<1> SUFFICES ASSUME LoadInv, Table!Next PROVE LoadInv'
  BY LoadStays
<1>1. CASE \/ Table!RunLoad \/ Table!ExecuteSnowflake \/ Table!ExecuteClickhouse
           \/ Table!ExecuteSqlserver \/ Table!InsertMongo \/ Table!PostBatch \/ Table!PostMutation
  BY <1>1, LoadInserts
  DEF Table!RunLoad, Table!ExecuteSnowflake, Table!ExecuteClickhouse, Table!ExecuteSqlserver,
      Table!InsertMongo, Table!PostBatch, Table!PostMutation
<1>2. CASE Table!Ended
  BY <1>2, LoadStays DEF Table!Ended, Table!vars, load
<1> QED
  BY <1>1, <1>2, LoadReads, LoadStops, LoadTruncates, LoadStages, LoadUpserts, LoadRefuses,
     LoadRepeats, LoadFails, LoadMerges, LoadLands
  DEF Table!Next, Table!Step

(* The tables, collections and APIs, for any rows, batches and repeats.     *)
THEOREM LoadsTellTheorem == ServicesSpec => []LoadsTell
<1> DEFINE Inv == which = "load" => LoadInv
<1>1. ServicesInit => Inv
  BY LoadStarts DEF ServicesInit
<1>2. Inv /\ [ServicesNext]_all => Inv'
  <2> SUFFICES ASSUME Inv, [ServicesNext]_all PROVE Inv'
    OBVIOUS
  <2>1. which' = which /\ (which = "load" => Table!Next \/ UNCHANGED load)
    BY DEF ServicesNext, all
  <2> QED
    BY <2>1, LoadSteps
<1>3. Inv => LoadsTell
  <2> SUFFICES ASSUME LoadInv
               PROVE  /\ Table!TypeOK /\ Table!LoadedAll /\ Table!NeverOverclaims
                      /\ Table!MergeIsWhole /\ Table!WrittenOnce
    BY DEF LoadsTell
  <2> USE LoadNumbers
  <2>0. LoadTypes /\ Placed /\ Delayed /\ Bounded /\ Inserted /\ Staging /\ Upserted
    BY DEF LoadInv
  <2>1. \A r \in 0 .. RowCount : table[r] \in Nat /\ table[r] =< Most /\ Most \in 1 .. Retries + 1
    <3> SUFFICES ASSUME NEW r \in 0 .. RowCount
                 PROVE  table[r] \in Nat /\ table[r] =< Most /\ Most \in 1 .. Retries + 1
      OBVIOUS
    <3>1. table[r] \in Nat /\ Most \in 1 .. Retries + 1 /\ lost \in Nat /\ lost =< Most
      BY <2>0 DEF LoadTypes, Most, Delayed
    <3>2. CASE r = 0
      BY <2>0, <3>1, <3>2 DEF Bounded
    <3>3. CASE r # 0
      <4>1. table[r] + Cardinality(Pending(r)) =< Allowed(r) /\ Cardinality(Pending(r)) \in Nat
        BY <2>0, <3>3, PendingFacts DEF Bounded
      <4>2. Allowed(r) \in {Most, lost, 0}
        BY DEF Allowed
      <4> QED
        BY <3>1, <4>1, <4>2
    <3> QED
      BY <3>2, <3>3
  <2>2. Table!TypeOK
    <3>1. table \in [0 .. RowCount -> 0 .. Retries + 1]
      BY <2>0, <2>1 DEF LoadTypes
    <3> QED
      BY <2>0, <3>1 DEF LoadTypes, Loads, Table!TypeOK, Table!Rows
  <2>3. Table!WrittenOnce
    BY <2>1 DEF Table!WrittenOnce, Most
  <2>4. Table!MergeIsWhole
    <3>1. Before = [Table!Empty EXCEPT ![0] = 1]
      BY DEF Before, Table!Empty
    <3> QED
      BY <2>0, <3>1 DEF Staging, Table!MergeIsWhole, After, Table!Rows
  <2>5. Table!NeverOverclaims
    <3>1. mode = "merge" => sink \in {"sqlserver", "mongo"}
      BY <2>0, SinkFacts DEF LoadTypes
    <3> QED
      BY <2>0, <3>1, TableCounts DEF Inserted, Upserted, Table!NeverOverclaims
  <2>6. Table!LoadedAll
    <3> SUFFICES ASSUME said.how = "ok", ~wiped
                 PROVE  /\ said.count = RowCount
                        /\ mode # "merge" => Table!Held = Table!Rows
                        /\ mode = "append" => table[0] = 1
                        /\ mode = "truncate" => table[0] = 0
                        /\ mode = "merge" /\ sink = "sqlserver" => Table!Held = Table!Winners(Table!Rows)
                        /\ mode = "merge" /\ sink = "mongo" => Table!Held \in Table!OnePerKey(Table!Rows)
                        /\ mode = "merge" => (table[0] = 0 <=> \E r \in Table!Rows : keys[r] = "a")
      BY DEF Table!LoadedAll
    <3>1. said.count = RowCount /\ counted = RowCount /\ loading = "ended"
          /\ (sink = "bigquery" /\ mode = "truncate" => done > 0)
      BY <2>0 DEF Placed
    <3>2. mode # "merge" => Table!Held = Table!Rows
      BY <2>0, <3>1 DEF Inserted, Well, Table!Held, Table!Rows
    <3>3. (mode = "append" => table[0] = 1) /\ (mode = "truncate" => table[0] = 0)
      BY <2>0, <3>1 DEF Inserted, Well
    <3>4. ASSUME mode = "merge", sink = "sqlserver"
          PROVE  /\ Table!Held = Table!Winners(Table!Rows)
                 /\ table[0] = 0 <=> \E r \in Table!Rows : keys[r] = "a"
      <4>1. table = After
        BY <2>0, <3>4 DEF Staging
      <4>2. Table!Winners(Table!Rows) \subseteq 1 .. RowCount
        BY DEF Table!Winners, Table!Rows
      <4> QED
        BY <4>1, <4>2 DEF After, Table!Held, Table!Rows
    <3>5. ASSUME mode = "merge", sink = "mongo"
          PROVE  /\ Table!Held \in Table!OnePerKey(Table!Rows)
                 /\ table[0] = 0 <=> \E r \in Table!Rows : keys[r] = "a"
      BY <2>0, <3>1, <3>5 DEF Upserted, Well, Table!Rows
    <3>6. mode = "merge" => sink \in {"sqlserver", "mongo"}
      BY <2>0, SinkFacts DEF LoadTypes
    <3> QED
      BY <3>1, <3>2, <3>3, <3>4, <3>5, <3>6
  <2> QED
    BY <2>2, <2>3, <2>4, <2>5, <2>6
<1> QED
  BY <1>1, <1>2, <1>3, PTL DEF ServicesSpec

-----------------------------------------------------------------------------
(* The model. AskTypes and Staged say what the stage has come to. Held says *)
(* who works on which row: rows are taken in order, no two threads have the *)
(* same, and a row that was taken is answered or some thread still has it,  *)
(* unless the threads were told to stop. Spent counts the threads that will *)
(* take no row any more, which bounds the counter, and those that are past  *)
(* their check of `stop`, which bounds the calls after a failure.           *)
Rows == 1 .. RowCount
Answers == {"empty", "refused", "text", "onlist", "fields", "nulls"}
Busy == {w \in Workers : thread[w] \in {"check", "send", "asking"}}
Past == {w \in Workers : thread[w] = "done" \/ (thread[w] = "check" /\ slot[w] > RowCount)}
Sending == {w \in Workers : thread[w] = "send"}

AskTypes ==
    /\ question \in {"prompt", "classify", "extract"}
    /\ local \in BOOLEAN /\ usable \in BOOLEAN /\ stop \in BOOLEAN
    /\ server \in {"none", "loading", "up", "gone"}
    /\ maxRows \in {RowCount - 1, RowCount} /\ asked \in 0 .. RowCount /\ next \in Nat \ {0}
    /\ thread \in [Workers -> {"idle", "client", "take", "check", "send", "asking", "done"}]
    /\ slot \in [Workers -> Nat]
    /\ answers \in [Rows -> Answers]
    /\ calls \subseteq Rows
    /\ asking \in {"read", "load", "ask", "write", "ended"}
    /\ verdict \in {"nothing", "ok", "overcap", "failed"} \X (0 .. RowCount)

Staged ==
    /\ asking = "read" => server = "none"
    /\ asking = "load" => local
    /\ asking = "ask" => server = IF local THEN "up" ELSE "none"
    /\ asking \in {"write", "ended"} => server \in {"none", "gone"}
    /\ asking \in {"read", "load"} =>
        /\ next = 1 /\ ~stop /\ calls = {}
        /\ \A w \in Workers : thread[w] = "idle"
        /\ \A r \in Rows : answers[r] = "empty"
    /\ asking = "ask" => \A w \in Workers : thread[w] # "idle"
    /\ asking = "write" => \A r \in Rows : answers[r] \notin {"empty", "refused"}
    /\ asking \in {"write", "ended"} => \A w \in Workers : thread[w] \in {"idle", "done"}
    /\ asking \in {"load", "ask", "write"} => RowCount > 0 /\ RowCount =< maxRows
    /\ asked =< maxRows \/ RowCount = 0
    /\ calls # {} => RowCount =< maxRows
    /\ asking # "ended" => verdict = <<"nothing", 0>> /\ out = <<>>
    /\ ~usable => calls = {} /\ \A w \in Workers : thread[w] \in {"idle", "client", "done"}
    /\ Model!EveryRowAnswered /\ Model!EarliestNamed

Held ==
    /\ \A w \in Busy :
        /\ slot[w] \in 1 .. next - 1
        /\ slot[w] \in Rows => answers[slot[w]] = "empty"
        /\ thread[w] # "check" => slot[w] \in Rows
        /\ \A v \in Busy : slot[v] = slot[w] => v = w
    /\ usable => \A r \in Rows : r >= next => answers[r] = "empty"
    /\ ~stop => \A r \in Rows : r < next => answers[r] # "empty" \/ \E w \in Busy : slot[w] = r
    /\ ~stop => \A w \in Workers : thread[w] = "done" => next > RowCount
    /\ stop <=> \E r \in Rows : answers[r] = "refused"
    /\ \A r \in calls :
        answers[r] # "empty" \/ \E w \in Workers : thread[w] = "asking" /\ slot[w] = r

Spent ==
    /\ next =< RowCount + 1 + Cardinality(Past)
    /\ \A w \in Workers : slot[w] =< RowCount + Cardinality(Workers)
    /\ stop => Cardinality(calls \ stopSeen) + Cardinality(Sending) < Cardinality(Workers)

AskInv == AskTypes /\ Staged /\ Held /\ Spent

LEMMA AskCounts == ASSUME NEW S PROVE Model!Cardinality(S) = Cardinality(S)
BY DEF Model!Cardinality, Cardinality

LEMMA MinFacts ==
    ASSUME NEW S \in SUBSET Nat, S # {}
    PROVE  \E x \in S : \A y \in S : x =< y
<1>1. IsWellFoundedOn(OpToRel(<, Nat), Nat)
  BY NatLessThanWellFounded
<1>2. PICK x \in S : \A y \in S : ~ (<<y, x>> \in OpToRel(<, Nat))
  BY <1>1, WFMin
<1>3. \A y \in S : ~ (y < x)
  BY <1>2 DEF OpToRel
<1>4. \A y \in S : y \in Nat
  OBVIOUS
<1>5. \A y \in S : x =< y
  BY <1>3, <1>4
<1> QED
  BY <1>5

LEMMA ModelMin ==
    ASSUME NEW S \in SUBSET Nat, S # {}
    PROVE  Model!Min(S) \in S /\ \A y \in S : Model!Min(S) =< y
<1>1. \E x \in S : \A y \in S : x =< y
  BY MinFacts
<1> QED
  BY <1>1 DEF Model!Min

(* The only increasing enumeration of 1 .. n is the identity.               *)
LEMMA Increasing ==
    ASSUME NEW n \in Nat, NEW s \in [1 .. n -> 1 .. n],
           \A i, j \in 1 .. n : i < j => s[i] < s[j]
    PROVE  s = [i \in 1 .. n |-> i]
<1>0. \A i \in 1 .. n : s[i] \in Nat /\ s[i] >= 1 /\ s[i] =< n /\ i \in Nat
  OBVIOUS
<1>1. \A i \in 1 .. n : s[i] =< i
  <2> DEFINE E == {i \in 1 .. n : s[i] > i}
  <2> SUFFICES ASSUME E # {} PROVE FALSE
    BY <1>0
  <2>1. E \in SUBSET (0 .. n)
    OBVIOUS
  <2>2. PICK m \in E : \A y \in E : y =< m
    BY <2>1, MaxFacts
  <2>3. m \in 1 .. n /\ s[m] > m /\ s[m] =< n
    BY <1>0, <2>2
  <2>4. m + 1 \in 1 .. n /\ m < m + 1
    BY <1>0, <2>3
  <2>5. s[m] < s[m + 1]
    BY <2>3, <2>4
  <2>6. m + 1 \in E
    BY <1>0, <2>3, <2>4, <2>5
  <2> QED
    BY <2>2, <2>3, <2>6
<1>2. \A i \in 1 .. n : s[i] >= i
  <2> DEFINE E == {i \in 1 .. n : s[i] < i}
  <2> SUFFICES ASSUME E # {} PROVE FALSE
    BY <1>0
  <2>1. E \in SUBSET Nat
    OBVIOUS
  <2>2. PICK m \in E : \A y \in E : m =< y
    BY <2>1, MinFacts
  <2>3. m \in 1 .. n /\ s[m] < m /\ s[m] >= 1
    BY <1>0, <2>2
  <2>4. m - 1 \in 1 .. n /\ m - 1 < m
    BY <1>0, <2>3
  <2>5. s[m - 1] < s[m]
    BY <2>3, <2>4
  <2>6. m - 1 \in E
    BY <1>0, <2>3, <2>4, <2>5
  <2> QED
    BY <2>2, <2>3, <2>6
<1>3. \A i \in 1 .. n : s[i] = i
  BY <1>0, <1>1, <1>2
<1> QED
  BY <1>3

LEMMA RowsInOrder == Model!InOrder(Rows) = [r \in Rows |-> r]
<1> DEFINE Good(s) == \A i, j \in DOMAIN s : i < j => s[i] < s[j]
           id == [r \in 1 .. RowCount |-> r]
<1>1. RowCount \in Nat
  BY LoadAssumption
<1>2. Model!Cardinality(Rows) = RowCount
  <2>1. Cardinality(1 .. RowCount) = IF 1 > RowCount THEN 0 ELSE RowCount - 1 + 1
    BY <1>1, FS_Interval
  <2> QED
    BY <1>1, <2>1, AskCounts DEF Rows
<1>3. id \in [1 .. RowCount -> 1 .. RowCount] /\ Good(id)
  BY <1>1
<1>4. Model!InOrder(Rows) = CHOOSE s \in [1 .. RowCount -> 1 .. RowCount] : Good(s)
  BY <1>2 DEF Model!InOrder, Rows
<1>5. ASSUME NEW s \in [1 .. RowCount -> 1 .. RowCount], Good(s) PROVE s = id
  <2>1. \A i, j \in 1 .. RowCount : i < j => s[i] < s[j]
    BY <1>5
  <2> QED
    BY <1>1, <2>1, Increasing
<1>6. (CHOOSE s \in [1 .. RowCount -> 1 .. RowCount] : Good(s)) = id
  <2> HIDE DEF Good, id
  <2> QED
    BY <1>3, <1>5
<1> QED
  BY <1>4, <1>6 DEF Rows

LEMMA WorkersFinite ==
    /\ Cardinality(Workers) \in Nat /\ Cardinality(Workers) > 0
    /\ \A S \in SUBSET Workers :
        /\ IsFiniteSet(S) /\ Cardinality(S) \in Nat /\ Cardinality(S) =< Cardinality(Workers)
        /\ S # Workers => Cardinality(S) < Cardinality(Workers)
<1>1. IsFiniteSet(Workers) /\ Workers # {}
  BY WorkersAssumption
<1>2. Cardinality(Workers) \in Nat
  BY <1>1, FS_CardinalityType
<1>3. Cardinality(Workers) # 0
  BY <1>1, FS_EmptySet
<1>4. ASSUME NEW S \in SUBSET Workers
      PROVE  /\ IsFiniteSet(S) /\ Cardinality(S) \in Nat /\ Cardinality(S) =< Cardinality(Workers)
             /\ S # Workers => Cardinality(S) < Cardinality(Workers)
  <2>1. /\ IsFiniteSet(S) /\ Cardinality(S) =< Cardinality(Workers)
        /\ Cardinality(Workers) = Cardinality(S) => Workers = S
    BY <1>1, FS_Subset
  <2>2. Cardinality(S) \in Nat
    BY <2>1, FS_CardinalityType
  <2> QED
    BY <1>2, <2>1, <2>2
<1> QED
  BY <1>2, <1>3, <1>4

LEMMA AskStarts == Model!Init => AskInv
<1> SUFFICES ASSUME Model!Init PROVE AskInv
  OBVIOUS
<1>0. RowCount \in Nat
  BY LoadAssumption
<1>1. AskTypes
  <2>1. verdict \in {"nothing", "ok", "overcap", "failed"} \X (0 .. RowCount)
    BY <1>0 DEF Model!Init
  <2>2. answers \in [Rows -> Answers]
    BY DEF Model!Init, Model!Rows, Model!Empty, Rows, Answers
  <2>3. local \in BOOLEAN /\ usable \in BOOLEAN /\ stop \in BOOLEAN
    BY Zenon DEF Model!Init
  <2>4. /\ thread \in [Workers -> {"idle", "client", "take", "check", "send", "asking", "done"}]
        /\ slot \in [Workers -> Nat]
    BY DEF Model!Init
  <2>5. /\ question \in {"prompt", "classify", "extract"}
        /\ server \in {"none", "loading", "up", "gone"}
        /\ maxRows \in {RowCount - 1, RowCount} /\ asked \in 0 .. RowCount /\ next \in Nat \ {0}
        /\ calls \subseteq Rows
        /\ asking \in {"read", "load", "ask", "write", "ended"}
    BY <1>0 DEF Model!Init
  <2> QED
    BY <2>1, <2>2, <2>3, <2>4, <2>5 DEF AskTypes
<1>2. Model!EveryRowAnswered /\ Model!EarliestNamed
  BY DEF Model!Init, Model!EveryRowAnswered, Model!EarliestNamed
<1>3. Staged
  BY <1>0, <1>2 DEF Staged, Model!Init, Model!Rows, Model!Empty, Rows
<1>4. Held
  BY <1>0 DEF Held, Busy, Model!Init, Model!Rows, Model!Empty, Rows
<1>5. Spent
  <2>1. Past \in SUBSET Workers
    BY DEF Past
  <2>2. Cardinality(Past) \in Nat
    BY <2>1, WorkersFinite
  <2> QED
    BY <1>0, <2>2, WorkersFinite DEF Spent, Model!Init
<1> QED
  BY <1>1, <1>3, <1>4, <1>5 DEF AskInv

(* What the threads share stays while the stage is read, loaded and written.*)
LEMMA ThreadsStay ==
    ASSUME UNCHANGED <<next, stop, thread, slot, answers, calls, stopSeen, usable>>
    PROVE  (Held => Held') /\ (Spent => Spent')
<1>1. Busy' = Busy /\ Past' = Past /\ Sending' = Sending
  BY DEF Busy, Past, Sending
<1>2. Held => Held'
  BY <1>1 DEF Held
<1>3. Spent => Spent'
  BY <1>1 DEF Spent
<1> QED
  BY <1>2, <1>3

LEMMA AskReads == ASSUME AskInv, Model!ReadRow \/ Model!ReadFails PROVE AskInv'
<1> USE DEF AskInv
<1>0. RowCount \in Nat
  BY LoadAssumption
<1>1. /\ asking = "read" /\ UNCHANGED <<question, local, usable, maxRows, server, out>>
      /\ UNCHANGED <<next, stop, thread, slot, answers, calls, stopSeen>>
  BY DEF Model!ReadRow, Model!ReadFails, Model!Setup, Model!Threads
<1>2. \/ asked' = asked + 1 /\ asked < RowCount /\ asked # maxRows /\ UNCHANGED <<asking, verdict>>
      \/ /\ asked' = asked /\ asking' = "ended"
         /\ verdict' = <<"overcap", 0>> \/ verdict' = <<"failed", 0>>
  BY DEF Model!ReadRow, Model!ReadFails, Model!OverCap, Model!End
<1>3. Held' /\ Spent'
  BY <1>1, ThreadsStay
<1>4. AskTypes'
  BY <1>0, <1>1, <1>2 DEF AskTypes, Rows
<1>5. Model!EveryRowAnswered' /\ Model!EarliestNamed'
  BY <1>1, <1>2 DEF Staged, Model!EveryRowAnswered, Model!EarliestNamed
<1>6. Staged'
  BY <1>0, <1>1, <1>2, <1>5 DEF Staged, AskTypes, Rows
<1> QED
  BY <1>3, <1>4, <1>6

(* The threads start, with nothing taken yet.                               *)
LEMMA AskOpens ==
    ASSUME AskInv, Model!ReadEnd \/ Model!Loaded, asking' = "ask"
    PROVE  AskInv'
<1> USE DEF AskInv
<1>0. RowCount \in Nat
  BY LoadAssumption
<1>1. /\ asking \in {"read", "load"}
      /\ thread' = [w \in Workers |-> "client"]
      /\ server' = IF local THEN "up" ELSE "none"
      /\ UNCHANGED <<question, local, usable, maxRows, asked, next, stop, slot, answers>>
      /\ UNCHANGED <<calls, stopSeen, out, verdict>>
      /\ RowCount > 0 /\ RowCount =< maxRows
  <2>1. CASE Model!ReadEnd
    BY <1>0, <2>1 DEF Model!ReadEnd, Model!Setup, Model!End, Staged, AskTypes
  <2>2. CASE Model!Loaded
    <3>1. local
      BY <2>2 DEF Model!Loaded, Staged
    <3> QED
      BY <1>0, <2>2, <3>1 DEF Model!Loaded, Model!Setup, Staged
  <2> QED
    BY <2>1, <2>2
<1>2. \A w \in Workers : thread[w] = "idle" /\ thread'[w] = "client"
  BY <1>1 DEF Staged
<1>3. Past' = Past /\ Past \in SUBSET Workers
  BY <1>1, <1>2 DEF Past
<1>4. Busy' = {} /\ Busy = {} /\ Sending' = {} /\ Sending = {}
  BY <1>1, <1>2 DEF Busy, Sending
<1>5. AskTypes'
  <2>1. thread' \in [Workers -> {"idle", "client", "take", "check", "send", "asking", "done"}]
    BY <1>1
  <2>2. server' \in {"none", "loading", "up", "gone"}
    BY <1>1
  <2> QED
    BY <1>1, <2>1, <2>2 DEF AskTypes, Rows
<1>6. Model!EveryRowAnswered' /\ Model!EarliestNamed'
  BY <1>1 DEF Staged, Model!EveryRowAnswered, Model!EarliestNamed
<1>7. Staged'
  BY <1>0, <1>1, <1>2, <1>6 DEF Staged, AskTypes, Rows
<1>8. Held'
  BY <1>0, <1>1, <1>2, <1>4 DEF Held, Staged, AskTypes, Rows
<1>9. Spent'
  BY <1>1, <1>3, <1>4 DEF Spent
<1> QED
  BY <1>5, <1>7, <1>8, <1>9

LEMMA AskLoads ==
    ASSUME AskInv, Model!ReadEnd \/ Model!LoadFails, asking' # "ask"
    PROVE  AskInv'
<1> USE DEF AskInv
<1>0. RowCount \in Nat
  BY LoadAssumption
<1>1. /\ asking \in {"read", "load"}
      /\ UNCHANGED <<question, local, usable, maxRows, asked, out>>
      /\ UNCHANGED <<next, stop, thread, slot, answers, calls, stopSeen>>
  BY DEF Model!ReadEnd, Model!LoadFails, Model!Setup, Model!Threads, Model!End
<1>2. \/ /\ asking' = "load" /\ server' = "loading" /\ UNCHANGED verdict
         /\ local /\ RowCount > 0 /\ RowCount =< maxRows /\ asking = "read"
      \/ asking' = "ended" /\ server' = "none" /\ verdict' = <<"ok", 0>> /\ RowCount = 0
      \/ asking' = "ended" /\ server' = "gone" /\ verdict' = <<"failed", 0>>
  BY <1>0 DEF Model!ReadEnd, Model!LoadFails, Model!End, Staged, AskTypes
<1>3. Held' /\ Spent'
  BY <1>1, ThreadsStay
<1>4. AskTypes'
  BY <1>0, <1>1, <1>2 DEF AskTypes, Rows
<1>5. RowCount = 0 => out = [r \in Rows |-> r]
  BY <1>0, <1>1 DEF Staged, Rows
<1>6. Model!EveryRowAnswered' /\ Model!EarliestNamed'
  BY <1>0, <1>1, <1>2, <1>5 DEF Staged, Model!EveryRowAnswered, Model!EarliestNamed, Model!Rows, Rows
<1>7. Staged'
  BY <1>0, <1>1, <1>2, <1>6 DEF Staged, AskTypes, Rows
<1> QED
  BY <1>3, <1>4, <1>7

(* A thread's move: the stage stays, and only this thread moves.            *)
Moves(w, from, onto) ==
    /\ thread[w] = from /\ thread' = [thread EXCEPT ![w] = onto]
    /\ UNCHANGED <<question, local, server, usable, maxRows, asked, out, asking, verdict>>

LEMMA MovesStage ==
    ASSUME AskInv, NEW w \in Workers,
           NEW from \in {"client", "take", "check", "send", "asking"},
           NEW onto \in {"take", "check", "send", "asking", "done"},
           Moves(w, from, onto)
    PROVE  /\ asking = "ask" /\ asking' = "ask"
           /\ RowCount \in Nat /\ RowCount > 0 /\ RowCount =< maxRows
           /\ thread' \in [Workers -> {"idle", "client", "take", "check", "send", "asking", "done"}]
           /\ \A v \in Workers : thread'[v] = IF v = w THEN onto ELSE thread[v]
           /\ (~usable => calls' = {} /\ onto = "done") /\ calls' \subseteq Rows => Staged'
<1> USE DEF AskInv
<1>0. RowCount \in Nat
  BY LoadAssumption
<1>1. /\ thread[w] = from /\ thread' = [thread EXCEPT ![w] = onto]
      /\ UNCHANGED <<question, local, server, usable, maxRows, asked, out, asking, verdict>>
  BY DEF Moves
<1>2. asking = "ask" /\ RowCount > 0 /\ RowCount =< maxRows
  BY <1>0, <1>1 DEF Staged, AskTypes
<1>3. /\ thread' \in [Workers -> {"idle", "client", "take", "check", "send", "asking", "done"}]
      /\ \A v \in Workers : thread'[v] = IF v = w THEN onto ELSE thread[v]
  BY <1>1 DEF AskTypes
<1>4. ASSUME ~usable => calls' = {} /\ onto = "done", calls' \subseteq Rows
      PROVE  Staged'
  <2>1. Model!EveryRowAnswered' /\ Model!EarliestNamed'
    BY <1>1, <1>2 DEF Staged, Model!EveryRowAnswered, Model!EarliestNamed
  <2>2. ~usable => \A v \in Workers : thread'[v] \in {"idle", "client", "done"}
    BY <1>3, <1>4 DEF Staged
  <2>3. \A v \in Workers : thread'[v] # "idle"
    BY <1>2, <1>3 DEF Staged
  <2> QED
    BY <1>0, <1>1, <1>2, <1>4, <2>1, <2>2, <2>3 DEF Staged
<1> QED
  BY <1>0, <1>1, <1>2, <1>3, <1>4

LEMMA AskClients ==
    ASSUME AskInv, NEW w \in Workers, Model!MakeClient(w)
    PROVE  AskInv'
<1> USE DEF AskInv
<1>1. CASE usable
  <2>1. /\ Moves(w, "client", "take")
        /\ UNCHANGED <<next, stop, slot, answers, calls, stopSeen>>
    BY <1>1 DEF Moves, Model!MakeClient, Model!Setup
  <2>2. /\ RowCount \in Nat /\ RowCount > 0
        /\ thread' \in [Workers -> {"idle", "client", "take", "check", "send", "asking", "done"}]
        /\ \A v \in Workers : thread'[v] = IF v = w THEN "take" ELSE thread[v]
        /\ calls' \subseteq Rows => Staged'
    BY <1>1, <2>1, MovesStage
  <2>3. AskTypes'
    BY <2>1, <2>2 DEF Moves, AskTypes, Rows
  <2>4. Busy' = Busy /\ Past' = Past /\ Sending' = Sending
    BY <2>1, <2>2 DEF Moves, Busy, Past, Sending
  <2>5. Held'
    BY <2>1, <2>2, <2>4 DEF Moves, Held
  <2>6. Spent'
    BY <2>1, <2>4 DEF Spent
  <2> QED
    BY <2>1, <2>2, <2>3, <2>5, <2>6 DEF AskTypes
<1>2. CASE ~usable
  <2>1. /\ Moves(w, "client", "done")
        /\ stop' = TRUE /\ answers' = [answers EXCEPT ![1] = "refused"]
        /\ UNCHANGED <<next, slot, calls>>
    BY <1>2 DEF Moves, Model!MakeClient, Model!Setup, Model!Refused
  <2>2. calls = {} /\ \A v \in Workers : thread[v] \in {"idle", "client", "done"}
    BY <1>2 DEF Staged
  <2>3. /\ RowCount \in Nat /\ RowCount > 0
        /\ thread' \in [Workers -> {"idle", "client", "take", "check", "send", "asking", "done"}]
        /\ \A v \in Workers : thread'[v] = IF v = w THEN "done" ELSE thread[v]
        /\ Staged'
    BY <2>1, <2>2, MovesStage
  <2>4. 1 \in Rows /\ answers' \in [Rows -> Answers] /\ answers'[1] = "refused"
    BY <2>1, <2>3 DEF AskTypes, Rows, Answers
  <2>5. AskTypes'
    BY <2>1, <2>3, <2>4 DEF Moves, AskTypes, Rows
  <2>6. Busy' = {} /\ Sending' = {}
    BY <2>2, <2>3 DEF Busy, Sending
  <2>7. Held'
    BY <1>2, <2>1, <2>2, <2>4, <2>6 DEF Moves, Held
  <2>8. Past \subseteq Past' /\ Past' \subseteq Workers
    BY <2>1, <2>3 DEF Past
  <2>9. Spent'
    <3>1. Cardinality(Past) =< Cardinality(Past')
      BY <2>8, WorkersFinite, FS_Subset
    <3>2. Cardinality(calls' \ stopSeen') + Cardinality(Sending') = 0
      BY <2>1, <2>2, <2>6, FS_EmptySet
    <3>3. Cardinality(Past) \in Nat /\ Cardinality(Past') \in Nat
      BY <2>8, WorkersFinite
    <3> QED
      BY <2>1, <2>3, <3>1, <3>2, <3>3, WorkersFinite DEF Spent, AskTypes
  <2> QED
    BY <2>3, <2>5, <2>7, <2>9
<1> QED
  BY <1>1, <1>2

LEMMA AskTakes ==
    ASSUME AskInv, NEW w \in Workers, Model!Take(w)
    PROVE  AskInv'
<1> USE DEF AskInv
<1>1. /\ Moves(w, "take", "check")
      /\ slot' = [slot EXCEPT ![w] = next] /\ next' = next + 1
      /\ UNCHANGED <<stop, answers, calls, stopSeen>>
  BY DEF Moves, Model!Take, Model!Setup
<1>2. thread[w] = "take" /\ usable /\ usable'
  BY <1>1 DEF Moves, Staged, AskTypes
<1>3. /\ RowCount \in Nat /\ RowCount > 0
      /\ thread' \in [Workers -> {"idle", "client", "take", "check", "send", "asking", "done"}]
      /\ \A v \in Workers : thread'[v] = IF v = w THEN "check" ELSE thread[v]
      /\ calls' \subseteq Rows => Staged'
  BY <1>1, <1>2, MovesStage
<1>4. /\ slot' \in [Workers -> Nat] /\ next \in Nat /\ next >= 1
      /\ \A v \in Workers : slot'[v] = (IF v = w THEN next ELSE slot[v]) /\ slot[v] \in Nat
  BY <1>1 DEF AskTypes
<1>5. AskTypes'
  BY <1>1, <1>3, <1>4 DEF Moves, AskTypes, Rows
<1>6. Busy' = Busy \cup {w} /\ w \notin Busy /\ Sending' = Sending
  BY <1>2, <1>3 DEF Busy, Sending
<1>7. Held'
  <2>1. ASSUME NEW v \in Busy'
        PROVE  /\ slot'[v] \in 1 .. next' - 1
               /\ slot'[v] \in Rows => answers[slot'[v]] = "empty"
               /\ thread'[v] # "check" => slot'[v] \in Rows
               /\ \A u \in Busy' : slot'[u] = slot'[v] => u = v
    <3>1. v \in Workers /\ Busy \subseteq Workers
      BY DEF Busy
    <3>2. \A u \in Busy : slot'[u] = slot[u] /\ slot[u] \in Nat /\ 1 =< slot[u] /\ slot[u] < next
      BY <1>4, <1>6, <3>1 DEF Held
    <3>3. CASE v = w
      BY <1>1, <1>2, <1>3, <1>4, <1>6, <3>2, <3>3 DEF Held
    <3>4. CASE v # w
      <4>1. v \in Busy /\ slot'[v] = slot[v] /\ thread'[v] = thread[v]
        BY <1>3, <1>6, <3>1, <3>2, <3>4
      <4>2. slot[v] \in 1 .. next' - 1
        BY <1>1, <1>4, <3>2, <4>1
      <4>3. \A u \in Busy' : slot'[u] = slot'[v] => u = v
        BY <1>4, <1>6, <3>1, <3>2, <4>1 DEF Held
      <4> QED
        BY <4>1, <4>2, <4>3 DEF Held
    <3> QED
      BY <3>3, <3>4
  <2>2. \A r \in Rows : r >= next' => answers[r] = "empty"
    BY <1>1, <1>2, <1>4 DEF Held, Rows
  <2>3. ASSUME ~stop, NEW r \in Rows, r < next'
        PROVE  answers[r] # "empty" \/ \E v \in Busy' : slot'[v] = r
    <3>1. CASE r = next
      BY <1>4, <1>6, <3>1
    <3>2. CASE r # next
      <4>1. r < next
        BY <1>1, <1>3, <1>4, <2>3, <3>2 DEF Rows
      <4>2. answers[r] # "empty" \/ \E v \in Busy : slot[v] = r
        BY <2>3, <4>1 DEF Held
      <4>3. \A v \in Busy : slot'[v] = slot[v]
        BY <1>4, <1>6 DEF Busy
      <4> QED
        BY <1>6, <4>2, <4>3
    <3> QED
      BY <3>1, <3>2
  <2>4. ASSUME ~stop, NEW v \in Workers, thread'[v] = "done" PROVE next' > RowCount
    <3>1. next > RowCount
      BY <1>3, <2>4 DEF Held
    <3> QED
      BY <1>1, <1>3, <1>4, <3>1
  <2>5. ASSUME NEW r \in calls
        PROVE  answers[r] # "empty" \/ \E v \in Workers : thread'[v] = "asking" /\ slot'[v] = r
    BY <1>2, <1>3, <1>4 DEF Held
  <2>6. stop <=> \E r \in Rows : answers[r] = "refused"
    BY DEF Held
  <2> QED
    BY <1>1, <2>1, <2>2, <2>3, <2>4, <2>5, <2>6 DEF Held, Rows
<1>8. Spent'
  <2>1. Past \in SUBSET Workers /\ w \notin Past /\ Past' \in SUBSET Workers /\ Past \subseteq Past'
    BY <1>2, <1>3, <1>4 DEF Past
  <2>2. /\ Cardinality(Past) \in Nat /\ Cardinality(Past) < Cardinality(Workers)
        /\ Cardinality(Past') \in Nat /\ IsFiniteSet(Past') /\ IsFiniteSet(Past)
    BY <2>1, WorkersFinite
  <2>3. next' =< RowCount + 1 + Cardinality(Past')
    <3>1. CASE next =< RowCount
      BY <1>1, <1>3, <1>4, <2>2, <3>1
    <3>2. CASE next > RowCount
      <4>1. Past' = Past \cup {w}
        BY <1>2, <1>3, <1>4, <3>2 DEF Past
      <4>2. Cardinality(Past \cup {w}) = Cardinality(Past) + 1
        BY <2>1, <2>2, FS_AddElement
      <4> QED
        BY <1>1, <1>3, <1>4, <2>2, <4>1, <4>2 DEF Spent
    <3> QED
      BY <1>3, <1>4, <3>1, <3>2
  <2>4. next =< RowCount + Cardinality(Workers)
    BY <1>3, <1>4, <2>2, WorkersFinite DEF Spent
  <2>5. \A v \in Workers : slot'[v] =< RowCount + Cardinality(Workers)
    BY <1>4, <2>4 DEF Spent
  <2> QED
    BY <1>1, <1>6, <2>3, <2>5 DEF Spent
<1> QED
  BY <1>1, <1>3, <1>5, <1>7, <1>8 DEF AskTypes

LEMMA AskChecks ==
    ASSUME AskInv, NEW w \in Workers, Model!Check(w)
    PROVE  AskInv'
<1> USE DEF AskInv
<1> DEFINE over == slot[w] > RowCount \/ stop
<1>1. /\ thread[w] = "check"
      /\ UNCHANGED <<next, stop, answers, calls, stopSeen, usable>>
      /\ over => Moves(w, "check", "done") /\ slot' = [slot EXCEPT ![w] = 0]
      /\ ~over => Moves(w, "check", "send") /\ slot' = slot
  BY DEF Moves, Model!Check, Model!Setup, Model!StopRead
<1>2. w \in Busy /\ usable
  BY <1>1 DEF Busy, Staged
<1>3. RowCount \in Nat /\ next \in Nat /\ \A v \in Workers : slot[v] \in Nat
  BY LoadAssumption DEF AskTypes
<1>4. CASE over
  <2>1. Moves(w, "check", "done") /\ slot' = [slot EXCEPT ![w] = 0]
    BY <1>1, <1>4
  <2>2. /\ thread' \in [Workers -> {"idle", "client", "take", "check", "send", "asking", "done"}]
        /\ \A v \in Workers : thread'[v] = IF v = w THEN "done" ELSE thread[v]
        /\ calls' \subseteq Rows => Staged'
    BY <1>2, <2>1, MovesStage
  <2>3. /\ slot' \in [Workers -> Nat]
        /\ \A v \in Workers : slot'[v] = IF v = w THEN 0 ELSE slot[v]
    BY <2>1 DEF AskTypes
  <2>4. AskTypes'
    BY <1>1, <2>1, <2>2, <2>3 DEF Moves, AskTypes, Rows
  <2>5. Busy' = Busy \ {w} /\ Sending' = Sending
    BY <1>1, <2>2 DEF Busy, Sending
  <2>6. \A v \in Busy' : v \in Busy /\ slot'[v] = slot[v] /\ thread'[v] = thread[v]
    BY <2>2, <2>3, <2>5 DEF Busy
  <2>7. ~stop => next > RowCount
    BY <1>2, <1>3, <1>4 DEF Held
  <2>8. Held'
    <3>1. ASSUME NEW v \in Busy'
          PROVE  /\ slot'[v] \in 1 .. next - 1
                 /\ slot'[v] \in Rows => answers[slot'[v]] = "empty"
                 /\ thread'[v] # "check" => slot'[v] \in Rows
                 /\ \A u \in Busy' : slot'[u] = slot'[v] => u = v
      BY <2>6 DEF Held
    <3>2. ASSUME ~stop, NEW r \in Rows, r < next
          PROVE  answers[r] # "empty" \/ \E v \in Busy' : slot'[v] = r
      <4>1. slot[w] > RowCount
        BY <1>4, <3>2
      <4>2. \A v \in Busy : slot[v] = r => v \in Busy'
        BY <1>3, <2>5, <4>1 DEF Rows
      <4> QED
        BY <2>6, <3>2, <4>2 DEF Held
    <3>3. ASSUME NEW r \in calls
          PROVE  answers[r] # "empty" \/ \E v \in Workers : thread'[v] = "asking" /\ slot'[v] = r
      BY <1>1, <2>2, <2>3 DEF Held
    <3> QED
      BY <1>1, <2>7, <3>1, <3>2, <3>3 DEF Held, Rows
  <2>9. Spent'
    <3>1. Past \in SUBSET Workers /\ Past' \in SUBSET Workers /\ Past \subseteq Past'
      BY <1>1, <2>2, <2>3 DEF Past
    <3>2. /\ Cardinality(Past) \in Nat /\ Cardinality(Past') \in Nat /\ IsFiniteSet(Past')
      BY <3>1, WorkersFinite
    <3>3. Cardinality(Past) =< Cardinality(Past')
      BY <3>1, <3>2, FS_Subset
    <3>4. \A v \in Workers : slot'[v] =< RowCount + Cardinality(Workers)
      BY <1>3, <2>3, WorkersFinite DEF Spent
    <3> QED
      BY <1>1, <1>3, <2>5, <3>2, <3>3, <3>4 DEF Spent
  <2> QED
    BY <1>1, <2>2, <2>4, <2>8, <2>9 DEF AskTypes
<1>5. CASE ~over
  <2>1. Moves(w, "check", "send") /\ slot' = slot /\ ~stop /\ slot[w] \in Rows
    BY <1>1, <1>2, <1>3, <1>5 DEF Held, Rows
  <2>2. /\ thread' \in [Workers -> {"idle", "client", "take", "check", "send", "asking", "done"}]
        /\ \A v \in Workers : thread'[v] = IF v = w THEN "send" ELSE thread[v]
        /\ calls' \subseteq Rows => Staged'
    BY <1>2, <2>1, MovesStage
  <2>3. AskTypes'
    BY <1>1, <2>1, <2>2 DEF Moves, AskTypes, Rows
  <2>4. Busy' = Busy
    BY <1>1, <2>2 DEF Busy
  <2>5. Past' = Past
    BY <1>1, <1>3, <2>1, <2>2 DEF Past, Rows
  <2>6. Held'
    BY <1>1, <2>1, <2>2, <2>4 DEF Held, Busy, Rows
  <2>7. Spent'
    BY <1>1, <2>1, <2>5 DEF Spent
  <2> QED
    BY <1>1, <2>2, <2>3, <2>6, <2>7 DEF AskTypes
<1> QED
  BY <1>4, <1>5

LEMMA CallsFinite ==
    ASSUME NEW S \in SUBSET Rows
    PROVE  IsFiniteSet(S) /\ Cardinality(S) \in Nat
<1>1. RowCount \in Nat
  BY LoadAssumption
<1>2. IsFiniteSet(1 .. RowCount)
  BY <1>1, FS_Interval
<1>3. S \in SUBSET (1 .. RowCount)
  BY DEF Rows
<1>4. IsFiniteSet(S)
  BY <1>2, <1>3, FS_Subset
<1> QED
  BY <1>4, FS_CardinalityType

LEMMA AskSends ==
    ASSUME AskInv, NEW w \in Workers, Model!Send(w)
    PROVE  AskInv'
<1> USE DEF AskInv
<1>1. /\ Moves(w, "send", "asking") /\ calls' = calls \cup {slot[w]}
      /\ UNCHANGED <<next, stop, slot, answers, stopSeen>>
  BY DEF Moves, Model!Send, Model!Setup
<1>2. w \in Busy /\ usable /\ thread[w] = "send" /\ slot[w] \in Rows
  BY <1>1 DEF Moves, Busy, Staged, Held
<1>3. calls' \subseteq Rows
  BY <1>1, <1>2 DEF AskTypes
<1>4. /\ thread' \in [Workers -> {"idle", "client", "take", "check", "send", "asking", "done"}]
      /\ \A v \in Workers : thread'[v] = IF v = w THEN "asking" ELSE thread[v]
      /\ Staged'
  BY <1>1, <1>2, <1>3, MovesStage
<1>5. AskTypes'
  BY <1>1, <1>3, <1>4 DEF Moves, AskTypes, Rows
<1>6. Busy' = Busy /\ Past' = Past /\ Sending' = Sending \ {w} /\ w \in Sending
  BY <1>1, <1>2, <1>4 DEF Busy, Past, Sending
<1>7. Held'
  <2>1. ASSUME NEW v \in Busy
        PROVE  thread[v] # "check" => slot[v] \in Rows
    BY DEF Held
  <2>2. \A v \in Busy : thread'[v] # "check" => slot[v] \in Rows
    BY <1>2, <1>4, <2>1 DEF Busy
  <2>3. \A v \in Workers : thread'[v] = "done" => thread[v] = "done"
    BY <1>4
  <2>4. ASSUME NEW r \in calls'
        PROVE  answers[r] # "empty" \/ \E v \in Workers : thread'[v] = "asking" /\ slot[v] = r
    <3>1. CASE r = slot[w]
      BY <1>4, <3>1
    <3>2. CASE r # slot[w]
      BY <1>1, <1>4, <2>4, <3>2 DEF Held
    <3> QED
      BY <3>1, <3>2
  <2> QED
    BY <1>1, <1>6, <2>2, <2>3, <2>4 DEF Held, Moves, Rows
<1>8. Spent'
  <2> DEFINE after == calls \ stopSeen
  <2>1. after \in SUBSET Rows /\ calls' \ stopSeen' \in SUBSET (after \cup {slot[w]})
    BY <1>1 DEF AskTypes
  <2>2. IsFiniteSet(after) /\ Cardinality(after) \in Nat
    BY <2>1, CallsFinite
  <2>3. /\ IsFiniteSet(after \cup {slot[w]})
        /\ Cardinality(after \cup {slot[w]}) =
           IF slot[w] \in after THEN Cardinality(after) ELSE Cardinality(after) + 1
    BY <2>2, FS_AddElement
  <2>4. Cardinality(calls' \ stopSeen') =< Cardinality(after \cup {slot[w]})
    BY <2>1, <2>3, FS_Subset
  <2>5. calls' \ stopSeen' \in SUBSET Rows
    BY <1>3
  <2>6. Cardinality(calls' \ stopSeen') \in Nat
    BY <2>5, CallsFinite
  <2>7. Sending \in SUBSET Workers
    BY DEF Sending
  <2>8. IsFiniteSet(Sending) /\ Cardinality(Sending) \in Nat
    BY <2>7, WorkersFinite
  <2>9. Cardinality(Sending \ {w}) = Cardinality(Sending) - 1
    BY <1>6, <2>8, FS_RemoveElement
  <2>10. stop => Cardinality(after) + Cardinality(Sending) < Cardinality(Workers)
    BY DEF Spent
  <2> HIDE DEF after
  <2>11. stop => Cardinality(calls' \ stopSeen') + Cardinality(Sending') < Cardinality(Workers)
    BY <1>6, <2>2, <2>3, <2>4, <2>6, <2>8, <2>9, <2>10, WorkersFinite
  <2> QED
    BY <1>1, <1>6, <2>11 DEF Spent
<1> QED
  BY <1>4, <1>5, <1>7, <1>8

LEMMA AnswerType ==
    ASSUME AskTypes, NEW a \in {Model!Answer(c) : c \in Model!Contents} \cup {Model!Refused}
    PROVE  a \in Answers \ {"empty"}
BY DEF AskTypes, Answers, Model!Answer, Model!Classified, Model!Extracted, Model!Contents, Model!Refused

LEMMA AskAnswers ==
    ASSUME AskInv, NEW w \in Workers, Model!Asked(w)
    PROVE  AskInv'
<1> USE DEF AskInv
<1>1. PICK a \in {Model!Answer(c) : c \in Model!Contents} \cup {Model!Refused} :
        /\ answers' = [answers EXCEPT ![slot[w]] = a]
        /\ stop' = (stop \/ a = Model!Refused)
        /\ stopSeen' = IF a = Model!Refused /\ ~stop THEN calls ELSE stopSeen
  BY DEF Model!Asked
<1>2. a \in Answers /\ a # "empty" /\ Model!Refused = "refused"
  BY AnswerType DEF Model!Refused
<1>3. /\ Moves(w, "asking", "take") /\ slot' = [slot EXCEPT ![w] = 0]
      /\ UNCHANGED <<next, calls>>
  BY DEF Moves, Model!Asked, Model!Setup
<1>4. /\ w \in Busy /\ usable /\ usable' /\ thread[w] = "asking" /\ slot[w] \in Rows
      /\ answers[slot[w]] = "empty" /\ slot[w] < next
  <2>1. thread[w] = "asking" /\ w \in Busy
    BY <1>3 DEF Moves, Busy
  <2>2. usable /\ usable'
    BY <1>3, <2>1 DEF Moves, Staged
  <2>3. slot[w] \in Rows /\ answers[slot[w]] = "empty" /\ slot[w] \in 1 .. next - 1
    BY <2>1 DEF Held
  <2>4. next \in Nat
    BY DEF AskTypes
  <2> QED
    BY <2>1, <2>2, <2>3, <2>4
<1>5. /\ RowCount \in Nat /\ next \in Nat
      /\ thread' \in [Workers -> {"idle", "client", "take", "check", "send", "asking", "done"}]
      /\ \A v \in Workers : thread'[v] = IF v = w THEN "take" ELSE thread[v]
      /\ calls' \subseteq Rows => Staged'
  BY <1>3, <1>4, MovesStage DEF AskTypes
<1>6. /\ slot' \in [Workers -> Nat]
      /\ \A v \in Workers : slot'[v] = IF v = w THEN 0 ELSE slot[v]
  BY <1>3 DEF AskTypes
<1>7. /\ answers' \in [Rows -> Answers]
      /\ \A r \in Rows : answers'[r] = IF r = slot[w] THEN a ELSE answers[r]
  BY <1>1, <1>2 DEF AskTypes
<1>8. AskTypes'
  <2>1. stop' \in BOOLEAN
    BY <1>1, Zenon
  <2> QED
    BY <1>3, <1>5, <1>6, <1>7, <2>1 DEF Moves, AskTypes, Rows
<1>9. Busy' = Busy \ {w} /\ Past' = Past /\ Sending' = Sending /\ w \notin Sending
  BY <1>4, <1>5, <1>6 DEF Busy, Past, Sending
<1>10. \A v \in Busy' : /\ v \in Busy /\ slot'[v] = slot[v] /\ thread'[v] = thread[v]
                        /\ slot[v] # slot[w]
  BY <1>4, <1>5, <1>6, <1>9 DEF Busy, Held
<1>11. stop' = (stop \/ a = "refused")
  BY <1>1, <1>2
<1>12. Held'
  <2>1. ASSUME NEW v \in Busy'
        PROVE  /\ slot'[v] \in 1 .. next - 1
               /\ slot'[v] \in Rows => answers'[slot'[v]] = "empty"
               /\ thread'[v] # "check" => slot'[v] \in Rows
               /\ \A u \in Busy' : slot'[u] = slot'[v] => u = v
    BY <1>7, <1>10 DEF Held
  <2>2. \A r \in Rows : r >= next => answers'[r] = "empty"
    BY <1>4, <1>5, <1>7 DEF Held, Rows
  <2>3. ASSUME ~stop', NEW r \in Rows, r < next
        PROVE  answers'[r] # "empty" \/ \E v \in Busy' : slot'[v] = r
    <3>1. ~stop
      BY <1>11, <2>3
    <3>2. CASE r = slot[w]
      BY <1>2, <1>7, <3>2
    <3>3. CASE r # slot[w]
      <4>1. \A v \in Busy : slot[v] = r => v \in Busy'
        BY <1>9, <3>3
      <4> QED
        BY <1>7, <1>10, <2>3, <3>1, <3>3, <4>1 DEF Held
    <3> QED
      BY <3>2, <3>3
  <2>4. ~stop' => \A v \in Workers : thread'[v] = "done" => next > RowCount
    BY <1>5, <1>11 DEF Held
  <2>5. stop' <=> \E r \in Rows : answers'[r] = "refused"
    <3>1. (stop \/ a = "refused") => \E r \in Rows : answers'[r] = "refused"
      <4>1. stop => \E r \in Rows : answers[r] = "refused" /\ r # slot[w]
        BY <1>4 DEF Held
      <4> QED
        BY <1>4, <1>7, <4>1
    <3>2. ASSUME NEW r \in Rows, answers'[r] = "refused" PROVE stop \/ a = "refused"
      BY <1>7, <3>2 DEF Held
    <3> QED
      BY <1>11, <3>1, <3>2, Zenon
  <2>6. ASSUME NEW r \in calls
        PROVE  answers'[r] # "empty" \/ \E v \in Workers : thread'[v] = "asking" /\ slot'[v] = r
    <3>1. r \in Rows
      BY DEF AskTypes
    <3>2. CASE r = slot[w]
      BY <1>2, <1>7, <3>1, <3>2
    <3>3. CASE r # slot[w]
      BY <1>5, <1>6, <1>7, <3>1, <3>3 DEF Held
    <3> QED
      BY <3>2, <3>3
  <2> QED
    BY <1>3, <2>1, <2>2, <2>3, <2>4, <2>5, <2>6 DEF Held, Rows
<1>13. Spent'
  <2>1. Sending \in SUBSET Workers /\ Sending # Workers
    BY <1>9 DEF Sending
  <2>2. Cardinality(Sending) \in Nat /\ Cardinality(Sending) < Cardinality(Workers)
    BY <2>1, WorkersFinite
  <2>3. ASSUME stop'
        PROVE  Cardinality(calls' \ stopSeen') + Cardinality(Sending') < Cardinality(Workers)
    <3>1. CASE stop
      <4>1. stopSeen' = stopSeen
        BY <1>1, <3>1
      <4> QED
        BY <1>3, <1>9, <3>1, <4>1 DEF Spent
    <3>2. CASE ~stop
      <4>1. stopSeen' = calls
        BY <1>1, <1>2, <1>11, <2>3, <3>2
      <4>2. calls' \ stopSeen' = {}
        BY <1>3, <4>1
      <4>3. Cardinality(calls' \ stopSeen') = 0
        BY <4>2, FS_EmptySet
      <4> QED
        BY <1>9, <2>2, <4>3, WorkersFinite
    <3> QED
      BY <3>1, <3>2
  <2>4. \A v \in Workers : slot'[v] =< RowCount + Cardinality(Workers)
    BY <1>5, <1>6, WorkersFinite DEF Spent
  <2> QED
    BY <1>3, <1>9, <2>3, <2>4 DEF Spent
<1> QED
  BY <1>3, <1>5, <1>8, <1>12, <1>13 DEF AskTypes

(* The last thread is done: every row is answered, unless one was refused.  *)
LEMMA AskJoins == ASSUME AskInv, Model!Join PROVE AskInv'
<1> USE DEF AskInv
<1>0. RowCount \in Nat
  BY LoadAssumption
<1>1. /\ asking = "ask" /\ \A w \in Workers : thread[w] = "done"
      /\ server' = (IF local THEN "gone" ELSE server)
      /\ UNCHANGED <<question, local, usable, maxRows, asked>>
      /\ UNCHANGED <<next, stop, answers, calls, stopSeen, out>>
      /\ slot' = [w \in Workers |-> 0]
  BY DEF Model!Join, Model!Joined, Model!DropServer, Model!Setup
<1>2. thread' = thread
  <2>1. thread' = [w \in Workers |-> "done"]
    BY DEF Model!Join
  <2>2. thread = [w \in Workers |-> thread[w]]
    BY DEF AskTypes
  <2> QED
    BY <1>1, <2>1, <2>2
<1>3. Busy = {} /\ Busy' = {} /\ Past' = Past /\ Sending' = Sending
  BY <1>1, <1>2 DEF Busy, Past, Sending
<1>4. Model!Failed = {r \in Rows : answers[r] = "refused"}
  BY DEF Model!Failed, Model!Rows, Model!Refused, Rows
<1>5. \A r \in calls : answers[r] # "empty"
  BY <1>1 DEF Held
<1>6. \/ /\ asking' = "ended" /\ Model!Failed # {}
         /\ verdict' = <<"failed", Model!Min(Model!Failed)>>
      \/ asking' = "write" /\ verdict' = verdict /\ Model!Failed = {}
  BY DEF Model!Join, Model!End, Model!FirstFailed
<1>7. Model!Failed # {} => /\ Model!Min(Model!Failed) \in Rows
                          /\ answers[Model!Min(Model!Failed)] = "refused"
                          /\ \A r \in Rows : answers[r] = "refused" => Model!Min(Model!Failed) =< r
  <2>1. Model!Failed \in SUBSET Nat
    BY <1>0, <1>4 DEF Rows
  <2>2. Model!Failed # {} => /\ Model!Min(Model!Failed) \in Model!Failed
                            /\ \A r \in Model!Failed : Model!Min(Model!Failed) =< r
    BY <2>1, ModelMin
  <2> QED
    BY <1>4, <2>2
<1>8. AskTypes'
  <2>1. verdict' \in {"nothing", "ok", "overcap", "failed"} \X (0 .. RowCount)
    BY <1>0, <1>6, <1>7 DEF AskTypes, Rows
  <2>2. server' \in {"none", "loading", "up", "gone"}
    BY <1>1 DEF AskTypes
  <2>3. asking' \in {"read", "load", "ask", "write", "ended"}
    BY <1>6
  <2>4. slot' \in [Workers -> Nat]
    BY <1>1
  <2> QED
    BY <1>1, <1>2, <2>1, <2>2, <2>3, <2>4 DEF AskTypes, Rows
<1>9. Model!EveryRowAnswered' /\ Model!EarliestNamed'
  <2>1. CASE asking' = "write"
    BY <1>1, <1>6, <2>1 DEF Staged, Model!EveryRowAnswered, Model!EarliestNamed
  <2>2. CASE asking' = "ended"
    <3> DEFINE f == Model!Min(Model!Failed)
    <3>1. /\ verdict'[1] = "failed" /\ verdict'[2] = f /\ answers[f] = "refused" /\ f \in Rows
          /\ \A r \in Rows : answers[r] = "refused" => f =< r
      BY <1>6, <1>7, <2>2
    <3> HIDE DEF f
    <3>2. \A r \in calls : r < f => answers[r] \notin {"refused", "empty"}
      BY <1>0, <1>5, <3>1 DEF AskTypes, Rows
    <3> QED
      BY <1>1, <3>1, <3>2 DEF Model!EveryRowAnswered, Model!EarliestNamed, Model!Refused, Model!Empty
  <2> QED
    BY <1>6, <2>1, <2>2
<1>10. asking' = "write" => \A r \in Rows : answers'[r] \notin {"empty", "refused"}
  <2> SUFFICES ASSUME asking' = "write", NEW r \in Rows
               PROVE  answers[r] \notin {"empty", "refused"}
    BY <1>1 DEF Rows
  <2>1. \A s \in Rows : answers[s] # "refused"
    BY <1>4, <1>6
  <2>2. ~stop
    BY <2>1 DEF Held
  <2>3. PICK w \in Workers : thread[w] = "done"
    BY <1>1, WorkersAssumption
  <2>4. next > RowCount
    BY <2>2, <2>3 DEF Held
  <2>5. r < next
    BY <1>0, <2>4 DEF AskTypes, Rows
  <2>6. answers[r] # "empty"
    BY <1>3, <2>2, <2>5 DEF Held
  <2> QED
    BY <2>1, <2>6
<1>11. server' \in {"none", "gone"}
  BY <1>1 DEF Staged
<1>12. Staged'
  BY <1>0, <1>1, <1>2, <1>6, <1>9, <1>10, <1>11 DEF Staged, Rows
<1>13. Held'
  BY <1>1, <1>2, <1>3, <1>5 DEF Held, Rows
<1>14. Spent'
  <2>1. \A w \in Workers : slot'[w] =< RowCount + Cardinality(Workers)
    BY <1>0, <1>1, WorkersFinite
  <2> QED
    BY <1>1, <1>3, <2>1 DEF Spent
<1> QED
  BY <1>8, <1>12, <1>13, <1>14

LEMMA AskWrites == ASSUME AskInv, Model!Write PROVE AskInv'
<1> USE DEF AskInv
<1>0. RowCount \in Nat
  BY LoadAssumption
<1>1. /\ asking = "write" /\ asking' = "ended"
      /\ UNCHANGED <<question, local, usable, maxRows, server, asked>>
      /\ UNCHANGED <<next, stop, thread, slot, answers, calls, stopSeen>>
  BY DEF Model!Write, Model!Setup, Model!Threads, Model!End
<1>2. {r \in Model!Rows : answers[r] # Model!Empty} = Rows
  BY <1>1 DEF Staged, Model!Rows, Model!Empty, Rows
<1>3. \/ verdict' = <<"ok", 0>> /\ out' = [r \in Rows |-> r]
      \/ verdict' = <<"failed", 0>>
  BY <1>2, RowsInOrder DEF Model!Write, Model!End
<1>4. AskTypes'
  BY <1>0, <1>1, <1>3 DEF AskTypes, Rows
<1>5. Model!EveryRowAnswered' /\ Model!EarliestNamed'
  BY <1>3 DEF Model!EveryRowAnswered, Model!EarliestNamed, Model!Rows, Rows
<1>6. Staged'
  BY <1>0, <1>1, <1>5 DEF Staged, Rows
<1>7. Held' /\ Spent'
  BY <1>1, ThreadsStay
<1> QED
  BY <1>4, <1>6, <1>7

LEMMA AskStays == AskInv /\ UNCHANGED ask => AskInv'
<1> SUFFICES ASSUME AskInv, UNCHANGED ask PROVE AskInv'
  OBVIOUS
<1> USE DEF AskInv, ask
<1>1. AskTypes'
  BY DEF AskTypes, Rows
<1>2. Model!EveryRowAnswered' /\ Model!EarliestNamed'
  BY DEF Staged, Model!EveryRowAnswered, Model!EarliestNamed, Model!Rows, Model!Refused, Model!Empty
<1>3. Staged'
  BY <1>2 DEF Staged, Rows
<1>4. Held' /\ Spent'
  BY ThreadsStay
<1> QED
  BY <1>1, <1>3, <1>4

LEMMA AskSteps == AskInv /\ (Model!Next \/ UNCHANGED ask) => AskInv'
<1> SUFFICES ASSUME AskInv, Model!Next \/ UNCHANGED ask PROVE AskInv'
  OBVIOUS
<1>1. Model!Ended => UNCHANGED ask
  BY DEF Model!Ended, Model!vars, ask
<1>2. CASE Model!ReadEnd
  BY <1>2, AskOpens, AskLoads
<1>3. CASE Model!Loaded
  <2>1. asking' = "ask"
    BY <1>3 DEF Model!Loaded
  <2> QED
    BY <1>3, <2>1, AskOpens
<1>4. CASE Model!LoadFails
  <2>1. asking' # "ask"
    BY <1>4 DEF Model!LoadFails, Model!End
  <2> QED
    BY <1>4, <2>1, AskLoads
<1> QED
  BY <1>1, <1>2, <1>3, <1>4, AskStays, AskReads, AskClients, AskTakes, AskChecks, AskSends,
     AskAnswers, AskJoins, AskWrites DEF Model!Next, Model!Step

(* A model stage that succeeds has an answer for every row, in row order,   *)
(* whichever threads asked; one that names a row names the earliest that    *)
(* failed; no call is made above the cap, and after a failure none but      *)
(* those the other threads were about to make; and the local model is gone  *)
(* when the stage is over: for any number of rows and any threads.          *)
THEOREM ModelAnswersTheorem == ServicesSpec => []ModelAnswers
<1> DEFINE Inv == which = "ask" => AskInv
<1>1. ServicesInit => Inv
  BY AskStarts DEF ServicesInit
<1>2. Inv /\ [ServicesNext]_all => Inv'
  <2> SUFFICES ASSUME Inv, [ServicesNext]_all, which' = "ask" PROVE AskInv'
    OBVIOUS
  <2>1. which' = which
    BY DEF ServicesNext, all
  <2>2. Model!Next \/ UNCHANGED ask
    BY <2>1 DEF ServicesNext, all
  <2> QED
    BY <2>1, <2>2, AskSteps
<1>3. Inv => ModelAnswers
  <2> SUFFICES ASSUME AskInv PROVE
          /\ Model!TypeOK /\ Model!EveryRowAnswered /\ Model!EarliestNamed
          /\ Model!CallsBounded /\ Model!ServerGone
    BY DEF ModelAnswers
  <2> USE DEF AskInv
  <2>0. RowCount \in Nat
    BY LoadAssumption
  <2>1. Cardinality(Past) \in Nat /\ Cardinality(Past) =< Cardinality(Workers)
    <3>1. Past \in SUBSET Workers
      BY DEF Past
    <3> QED
      BY <3>1, WorkersFinite
  <2>2. Model!Cardinality(Workers) = Cardinality(Workers)
    BY AskCounts
  <2>3. Model!TypeOK
    <3>1. next \in 1 .. RowCount + Cardinality(Workers) + 1
      BY <2>0, <2>1, WorkersFinite DEF Spent, AskTypes
    <3>2. slot \in [Workers -> 0 .. RowCount + Cardinality(Workers)]
      BY <2>0, WorkersFinite DEF Spent, AskTypes
    <3> QED
      BY <2>2, <3>1, <3>2 DEF Model!TypeOK, Model!Rows, AskTypes, Rows
  <2>4. Model!CallsBounded
    <3>1. RowCount > maxRows => calls = {}
      BY <2>0 DEF Staged, AskTypes
    <3>2. stop => Cardinality(calls \ stopSeen) < Cardinality(Workers)
      <4>1. Sending \in SUBSET Workers /\ calls \ stopSeen \in SUBSET Rows
        BY DEF Sending, AskTypes
      <4>2. Cardinality(Sending) \in Nat /\ Cardinality(calls \ stopSeen) \in Nat
        BY <4>1, WorkersFinite, CallsFinite
      <4> QED
        BY <4>2, WorkersFinite DEF Spent
    <3>3. Model!Cardinality(calls \ stopSeen) = Cardinality(calls \ stopSeen)
      BY AskCounts
    <3> QED
      BY <2>2, <3>1, <3>2, <3>3 DEF Model!CallsBounded
  <2>5. Model!EveryRowAnswered /\ Model!EarliestNamed /\ Model!ServerGone
    BY DEF Staged, Model!ServerGone
  <2> QED
    BY <2>3, <2>4, <2>5
<1> QED
  BY <1>1, <1>2, <1>3, PTL DEF ServicesSpec

-----------------------------------------------------------------------------
(* A paged read. The list stays sorted, whatever comes and goes, so a page  *)
(* is what follows on the first From rows. One that counts has, while the   *)
(* list holds still, exactly the first From rows; one that follows cursors  *)
(* has every row that stayed and does not lie behind its cursor.            *)
Sorted(s) == \A i, j \in 1 .. Len(s) : i < j => s[i] < s[j]
Items(s) == {s[i] : i \in 1 .. Len(s)}
Starting(s, t) == Len(s) =< Len(t) /\ \A i \in 1 .. Len(s) : s[i] = t[i]

PageTypes ==
    /\ style \in {"none", "page", "offset", "cursor", "link", "bare", "slice", "relay"}
    /\ size \in Nat /\ sized \in BOOLEAN /\ limit \in Nat \ {0}
    /\ api \in {"good", "stuck", "cycling", "mute"}
    /\ size = 0 => ~sized
    /\ style \in {"offset", "slice"} => size # 0 /\ sized
    /\ style \in {"none", "bare"} => ~sized
    /\ api # "good" => style \in {"cursor", "link", "relay"}
    /\ api = "stuck" => style # "link"
    /\ list \in Seq(1 .. RowCount + 1) /\ Sorted(list)
    /\ stayed \subseteq Items(list)
    /\ churn \in 0 .. MaxChurn /\ pages \in 0 .. MaxPages
    /\ place \in Nat /\ current \in Nat
    /\ got \in Seq(1 .. RowCount + 1)
    /\ paging \in {"read", "ended"}
    /\ ended \in {"nothing", "ok", "failed", "capped", "looping"}
    /\ paging = "read" => ended = "nothing"

ReadOnce ==
    style \in {"none", "bare"} =>
        /\ current = 0
        /\ paging = "read" => got = <<>>
        /\ ended = "ok" /\ Len(list) =< limit => got = list

ReadByCount ==
    style \in {"page", "offset", "slice"} /\ churn = 0 /\ size =< limit =>
        /\ Starting(got, list)
        /\ paging = "read" => Page!From >= Len(got) /\ (Page!From = Len(got) \/ got = list)
        /\ ended = "ok" => got = list

ReadByCursor ==
    style \in {"cursor", "link", "relay"} /\ api = "good" =>
        /\ Sorted(got)
        /\ paging = "read" =>
            /\ \A i \in 1 .. Len(got) : got[i] =< current
            /\ \A x \in stayed : x =< current => x \in Items(got)
        /\ ended = "ok" => stayed \subseteq Items(got)

ReadInLoop ==
    api = "stuck" =>
        /\ pages =< 2
        /\ pages = 1 /\ paging = "read" => current = 2
        /\ pages = 2 => paging = "ended"

PageInv == PageTypes /\ ReadOnce /\ ReadByCount /\ ReadByCursor /\ ReadInLoop

(* What a part of a sequence is, and two joined ones.                       *)
LEMMA PartOf ==
    ASSUME NEW S, NEW s \in Seq(S), NEW m \in Nat, NEW n \in Nat, n =< Len(s)
    PROVE  /\ SubSeq(s, m + 1, n) \in Seq(S)
           /\ Len(SubSeq(s, m + 1, n)) = IF m < n THEN n - m ELSE 0
           /\ \A i \in 1 .. Len(SubSeq(s, m + 1, n)) : SubSeq(s, m + 1, n)[i] = s[m + i]
<1>1. CASE m < n
  <2>1. SubSeq(s, m + 1, n) \in Seq(S) /\ Len(SubSeq(s, m + 1, n)) = n - m
    BY <1>1
  <2>2. \A i \in 1 .. n - m : SubSeq(s, m + 1, n)[i] = s[m + i]
    BY <1>1
  <2> QED
    BY <1>1, <2>1, <2>2
<1>2. CASE ~(m < n)
  <2>1. SubSeq(s, m + 1, n) = <<>>
    BY <1>2
  <2> QED
    BY <1>2, <2>1
<1> QED
  BY <1>1, <1>2

LEMMA ElementOf == ASSUME NEW S, NEW s \in Seq(S), NEW i \in 1 .. Len(s) PROVE s[i] \in S
OBVIOUS

LEMMA SameSeq ==
    ASSUME NEW S, NEW s \in Seq(S), NEW t \in Seq(S), Len(s) = Len(t), \A i \in 1 .. Len(s) : s[i] = t[i]
    PROVE  s = t
OBVIOUS

LEMMA JoinOf ==
    ASSUME NEW S, NEW s \in Seq(S), NEW t \in Seq(S)
    PROVE  /\ s \o t \in Seq(S) /\ Len(s \o t) = Len(s) + Len(t)
           /\ Len(s) \in Nat /\ Len(t) \in Nat
           /\ \A i \in 1 .. Len(s \o t) : (s \o t)[i] = IF i =< Len(s) THEN s[i] ELSE t[i - Len(s)]
OBVIOUS

LEMMA JoinItems ==
    ASSUME NEW S, NEW s \in Seq(S), NEW t \in Seq(S)
    PROVE  Items(s \o t) = Items(s) \cup Items(t)
<1>1. s \o t \in Seq(S) /\ Len(s \o t) = Len(s) + Len(t) /\ Len(s) \in Nat /\ Len(t) \in Nat
  OBVIOUS
<1>2. \A i \in 1 .. Len(s \o t) : (s \o t)[i] = IF i =< Len(s) THEN s[i] ELSE t[i - Len(s)]
  OBVIOUS
<1>3. \A i \in 1 .. Len(s) : i \in 1 .. Len(s \o t) /\ (s \o t)[i] = s[i]
  BY <1>1, <1>2
<1>4. \A i \in 1 .. Len(t) : Len(s) + i \in 1 .. Len(s \o t) /\ (s \o t)[Len(s) + i] = t[i]
  BY <1>1, <1>2
<1>5. Items(s \o t) \subseteq Items(s) \cup Items(t)
  <2> SUFFICES ASSUME NEW i \in 1 .. Len(s \o t) PROVE (s \o t)[i] \in Items(s) \cup Items(t)
    BY DEF Items
  <2>1. CASE i =< Len(s)
    BY <1>1, <1>2, <2>1 DEF Items
  <2>2. CASE ~(i =< Len(s))
    <3>1. i - Len(s) \in 1 .. Len(t)
      BY <1>1, <2>2
    <3> QED
      BY <1>2, <2>2, <3>1 DEF Items
  <2> QED
    BY <2>1, <2>2
<1>6. Items(s) \cup Items(t) \subseteq Items(s \o t)
  BY <1>3, <1>4 DEF Items
<1> QED
  BY <1>5, <1>6

LEMMA PageCounts == ASSUME NEW S PROVE Page!Cardinality(S) = Cardinality(S)
BY DEF Page!Cardinality, Cardinality

(* The rows up to a cursor are the first ones of a sorted list.             *)
LEMMA BehindCursor ==
    ASSUME PageTypes, NEW c \in Nat
    PROVE  /\ Page!Behind(c) \in Nat
           /\ \A i \in 1 .. Len(list) : list[i] =< c <=> i =< Page!Behind(c)
<1> DEFINE S == {i \in 1 .. Len(list) : list[i] =< c}
<1>0. Len(list) \in Nat /\ RowCount \in Nat /\ \A i \in 1 .. Len(list) : list[i] \in Nat
  BY LoadAssumption DEF PageTypes
<1>1. Page!Behind(c) = Cardinality(S)
  <2>1. DOMAIN list = 1 .. Len(list)
    BY DEF PageTypes
  <2>2. Page!Behind(c) = Page!Cardinality(S)
    BY <2>1 DEF Page!Behind
  <2> QED
    BY <2>2, PageCounts
<1>2. \E k \in Nat : k =< Len(list) /\ S = 1 .. k
  <2>1. CASE S = {}
    <3>1. 1 .. 0 = {}
      OBVIOUS
    <3> QED
      BY <1>0, <2>1, <3>1
  <2>2. CASE S # {}
    <3>1. S \in SUBSET (0 .. Len(list))
      BY <1>0
    <3>2. PICK k \in S : \A j \in S : j =< k
      BY <1>0, <2>2, <3>1, MaxFacts
    <3>3. k \in 1 .. Len(list) /\ list[k] =< c
      BY <3>2
    <3>4. ASSUME NEW j \in 1 .. k PROVE j \in S
      <4>1. j \in 1 .. Len(list)
        BY <1>0, <3>3
      <4>2. j < k => list[j] < list[k]
        BY <3>3, <4>1 DEF PageTypes, Sorted
      <4> QED
        BY <1>0, <3>3, <4>1, <4>2
    <3>5. S \subseteq 1 .. k
      BY <1>0, <3>2
    <3>6. S = 1 .. k
      BY <3>4, <3>5
    <3> QED
      BY <1>0, <3>3, <3>6
  <2> QED
    BY <2>1, <2>2
<1>3. PICK k \in Nat : k =< Len(list) /\ S = 1 .. k
  BY <1>2
<1>4. \A i \in 1 .. Len(list) : list[i] =< c <=> i \in 1 .. k
  BY <1>3
<1> HIDE DEF S
<1>5. Cardinality(S) = k
  <2>1. Cardinality(1 .. k) = IF 1 > k THEN 0 ELSE k - 1 + 1
    BY <1>3, FS_Interval
  <2> QED
    BY <1>3, <2>1
<1>6. Page!Behind(c) = k
  BY <1>1, <1>5
<1>7. \A i \in 1 .. Len(list) : i \in 1 .. k <=> i =< k
  BY <1>0, <1>3
<1> QED
  BY <1>3, <1>4, <1>6, <1>7

LEMMA PerPageFacts == ASSUME PageTypes PROVE Page!PerPage \in Nat /\ Page!PerPage >= 1
<1>1. sized => size # 0
  BY DEF PageTypes
<1> QED
  BY <1>1 DEF Page!PerPage, PageTypes

LEMMA FromFacts ==
    ASSUME PageTypes
    PROVE  /\ Page!From \in Nat
           /\ style = "page" => Page!From = place * Page!PerPage
           /\ style \in {"offset", "slice"} => Page!From = place
           /\ style \notin {"page", "offset", "slice"} => Page!From = Page!Behind(current)
<1>1. current \in Nat /\ place \in Nat
  BY DEF PageTypes
<1>2. Page!Behind(current) \in Nat
  BY <1>1, BehindCursor
<1>3. place * Page!PerPage \in Nat
  BY <1>1, PerPageFacts
<1>4. CASE style \in {"none", "page", "offset", "cursor", "link"}
  BY <1>1, <1>2, <1>3, <1>4 DEF Page!From, Page!Query, Page!RestStyles
<1>5. CASE style \in {"bare", "slice", "relay"}
  BY <1>1, <1>2, <1>5 DEF Page!From, Page!Bind, Page!RestStyles
<1> QED
  BY <1>4, <1>5 DEF PageTypes

(* A page is the rows that follow on the first From.                        *)
LEMMA PageFacts ==
    ASSUME PageTypes
    PROVE  /\ Page!Page \in Seq(1 .. RowCount + 1)
           /\ Len(Page!Page) \in Nat
           /\ \A i \in 1 .. Len(Page!Page) :
                Page!From + i \in 1 .. Len(list) /\ Page!Page[i] = list[Page!From + i]
           /\ Page!More => Len(Page!Page) = Page!PerPage /\ Page!From + Page!PerPage < Len(list)
           /\ ~Page!More => Len(Page!Page) = IF Page!From < Len(list) THEN Len(list) - Page!From ELSE 0
<1> DEFINE f == Page!From
           p == Page!PerPage
           n == IF f + p < Len(list) THEN f + p ELSE Len(list)
<1>1. f \in Nat /\ p \in Nat /\ p >= 1 /\ Len(list) \in Nat /\ list \in Seq(1 .. RowCount + 1)
  BY FromFacts, PerPageFacts DEF PageTypes
<1>2. Page!Page = SubSeq(list, f + 1, n)
  BY DEF Page!Page
<1>3. Page!More <=> f + p < Len(list)
  BY DEF Page!More
<1> HIDE DEF f, p
<1>4. n \in Nat /\ n =< Len(list)
  BY <1>1
<1> HIDE DEF n
<1>5. /\ SubSeq(list, f + 1, n) \in Seq(1 .. RowCount + 1)
      /\ Len(SubSeq(list, f + 1, n)) = IF f < n THEN n - f ELSE 0
      /\ \A i \in 1 .. Len(SubSeq(list, f + 1, n)) : SubSeq(list, f + 1, n)[i] = list[f + i]
  BY <1>1, <1>4, PartOf
<1>6. n = IF f + p < Len(list) THEN f + p ELSE Len(list)
  BY DEF n
<1> DEFINE s == SubSeq(list, f + 1, n)
<1>7. /\ s \in Seq(1 .. RowCount + 1) /\ Len(s) = IF f < n THEN n - f ELSE 0
      /\ \A i \in 1 .. Len(s) : s[i] = list[f + i]
      /\ Page!Page = s
  BY <1>2, <1>5
<1> HIDE DEF s
<1>8. Len(s) \in Nat /\ \A i \in 1 .. Len(s) : f + i \in 1 .. Len(list)
  BY <1>1, <1>4, <1>7
<1>9. /\ f + p < Len(list) => Len(s) = p
      /\ ~(f + p < Len(list)) => Len(s) = IF f < Len(list) THEN Len(list) - f ELSE 0
  BY <1>1, <1>4, <1>6, <1>7
<1> QED
  BY <1>3, <1>7, <1>8, <1>9 DEF f, p

LEMMA PageStarts == Page!Init => PageInv
<1> SUFFICES ASSUME Page!Init PROVE PageInv
  OBVIOUS
<1>0. /\ RowCount \in Nat /\ PageSize \in Nat /\ PageSize # 0 /\ MaxPages \in Nat
      /\ MaxChurn \in Nat
  BY LoadAssumption, PagesAssumption
<1>1. /\ list = [i \in 1 .. RowCount |-> i + 1] /\ stayed = 2 .. RowCount + 1
      /\ churn = 0 /\ place = 0 /\ current = 0 /\ pages = 0 /\ got = <<>>
      /\ paging = "read" /\ ended = "nothing"
      /\ limit \in {1, PageSize, PageSize + 1}
  BY DEF Page!Init
<1>2. /\ list \in Seq(1 .. RowCount + 1) /\ Len(list) = RowCount
      /\ \A i \in 1 .. RowCount : list[i] = i + 1
  <2>1. \A i \in 1 .. RowCount : i + 1 \in 1 .. RowCount + 1
    BY <1>0
  <2> QED
    BY <1>0, <1>1, <2>1
<1>3. Sorted(list)
  BY <1>0, <1>2 DEF Sorted
<1>4. stayed \subseteq Items(list)
  <2> SUFFICES ASSUME NEW x \in 2 .. RowCount + 1 PROVE \E i \in 1 .. RowCount : x = list[i]
    BY <1>1, <1>2 DEF Items
  <2>1. x - 1 \in 1 .. RowCount /\ list[x - 1] = x
    BY <1>0, <1>2
  <2> QED
    BY <2>1
<1>5. /\ style \in {"none", "page", "offset", "cursor", "link", "bare", "slice", "relay"}
      /\ size \in Nat
      /\ api \in {"good", "stuck", "cycling", "mute"}
      /\ style \in {"offset", "slice"} => size # 0
      /\ api # "good" => style \in {"cursor", "link", "relay"}
      /\ api = "stuck" => style # "link"
  BY <1>0 DEF Page!Init, Page!RestSettings, Page!GraphqlSettings, Page!RestStyles, Page!GraphqlStyles
<1>6. /\ sized \in BOOLEAN
      /\ size = 0 => ~sized
      /\ style \in {"offset", "slice"} => sized
      /\ style \in {"none", "bare"} => ~sized
  <2>1. CASE Page!RestSettings
    <3>1. CASE style = "page" /\ size # 0
      BY <2>1, <3>1 DEF Page!RestSettings
    <3>2. CASE ~(style = "page" /\ size # 0)
      <4>1. sized = (style = "offset")
        BY <2>1, <3>2 DEF Page!RestSettings
      <4>2. style \notin {"bare", "slice"}
        BY <2>1 DEF Page!RestSettings, Page!RestStyles
      <4> QED
        BY <1>5, <4>1, <4>2
    <3> QED
      BY <3>1, <3>2
  <2>2. CASE Page!GraphqlSettings
    <3>1. sized = (style = "slice")
      BY <2>2 DEF Page!GraphqlSettings
    <3>2. style \notin {"none", "offset"}
      BY <2>2 DEF Page!GraphqlSettings, Page!GraphqlStyles
    <3> QED
      BY <1>5, <3>1, <3>2
  <2> QED
    BY <2>1, <2>2 DEF Page!Init
<1>7. PageTypes
  BY <1>0, <1>1, <1>2, <1>3, <1>4, <1>5, <1>6 DEF PageTypes
<1>8. ReadByCount
  BY <1>1, <1>2, <1>7, FromFacts, PerPageFacts, <1>0 DEF ReadByCount, Starting
<1>9. ReadByCursor
  <2>1. \A x \in stayed : ~(x =< 0)
    BY <1>0, <1>1
  <2> QED
    BY <1>1, <2>1 DEF ReadByCursor, Sorted
<1> QED
  BY <1>1, <1>7, <1>8, <1>9 DEF PageInv, ReadOnce, ReadInLoop

(* The list changes: none of the rows that stayed goes, and it stays sorted.*)
LEMMA PageInserts == ASSUME PageInv, Page!Insert PROVE PageInv'
<1> USE DEF PageInv
<1>0. RowCount \in Nat /\ MaxChurn \in Nat
  BY LoadAssumption, PagesAssumption
<1>1. /\ paging = "read" /\ churn < MaxChurn /\ list' = <<1>> \o list /\ churn' = churn + 1
      /\ UNCHANGED <<style, size, sized, limit, api, stayed, place, current, pages, got, paging, ended>>
  BY DEF Page!Insert, Page!Setup
<1>2. list \in Seq(1 .. RowCount + 1) /\ <<1>> \in Seq(1 .. RowCount + 1)
  BY <1>0 DEF PageTypes
<1>3. /\ list' \in Seq(1 .. RowCount + 1) /\ Len(list') = 1 + Len(list) /\ Len(list) \in Nat
      /\ \A i \in 1 .. Len(list') : list'[i] = IF i =< 1 THEN 1 ELSE list[i - 1]
      /\ Items(list) \subseteq Items(list')
  <2> DEFINE one == <<1>>
  <2>1. Len(one) = 1 /\ one[1] = 1
    OBVIOUS
  <2> HIDE DEF one
  <2>3. /\ list' \in Seq(1 .. RowCount + 1) /\ Len(list') = Len(one) + Len(list)
        /\ Len(list) \in Nat
        /\ \A i \in 1 .. Len(list') : list'[i] = IF i =< Len(one) THEN one[i] ELSE list[i - Len(one)]
        /\ Items(list') = Items(one) \cup Items(list)
    <3>1. one \in Seq(1 .. RowCount + 1) /\ list' = one \o list
      BY <1>1, <1>2 DEF one
    <3> QED
      BY <1>2, <3>1, JoinOf, JoinItems
  <2>4. \A i \in 1 .. Len(list') : i =< 1 => i = 1
    BY <2>1, <2>3
  <2> QED
    BY <2>1, <2>3, <2>4
<1>4. \A i \in 1 .. Len(list) : list[i] > 1
  <2>1. 1 \notin {list[i] : i \in 1 .. Len(list)}
    BY <1>2 DEF Page!Insert, Page!ToSet
  <2>2. \A i \in 1 .. Len(list) : list[i] \in Nat /\ list[i] >= 1
    BY <1>0, <1>2
  <2> QED
    BY <2>1, <2>2
<1>5. Sorted(list')
  <2> SUFFICES ASSUME NEW i \in 1 .. Len(list'), NEW j \in 1 .. Len(list'), i < j
               PROVE  list'[i] < list'[j]
    BY DEF Sorted
  <2>1. j - 1 \in 1 .. Len(list) /\ list'[j] = list[j - 1]
    BY <1>3
  <2>2. CASE i =< 1
    BY <1>3, <1>4, <2>1, <2>2
  <2>3. CASE ~(i =< 1)
    <3>1. i - 1 \in 1 .. Len(list) /\ list'[i] = list[i - 1] /\ i - 1 < j - 1
      BY <1>3, <2>3
    <3> QED
      BY <2>1, <3>1 DEF PageTypes, Sorted
  <2> QED
    BY <2>2, <2>3
<1>6. PageTypes'
  BY <1>0, <1>1, <1>3, <1>5 DEF PageTypes
<1>7. ReadOnce' /\ ReadInLoop'
  BY <1>1 DEF ReadOnce, ReadInLoop, PageTypes
<1>8. ReadByCount' /\ ReadByCursor'
  BY <1>1 DEF ReadByCount, ReadByCursor, PageTypes, Sorted, Items
<1> QED
  BY <1>6, <1>7, <1>8

(* A sequence without its k-th element.                                     *)
LEMMA WithoutOne ==
    ASSUME NEW S, NEW s \in Seq(S), NEW k \in 1 .. Len(s)
    PROVE  /\ Page!RemoveAt(s, k) \in Seq(S)
           /\ Len(Page!RemoveAt(s, k)) = Len(s) - 1
           /\ \A i \in 1 .. Len(s) - 1 :
                Page!RemoveAt(s, k)[i] = IF i < k THEN s[i] ELSE s[i + 1]
<1> DEFINE a == SubSeq(s, 0 + 1, k - 1)
           b == SubSeq(s, k + 1, Len(s))
<1>0. Len(s) \in Nat /\ k \in Nat /\ k >= 1 /\ k =< Len(s)
  OBVIOUS
<1>1. Page!RemoveAt(s, k) = a \o b
  BY DEF Page!RemoveAt
<1>2. /\ a \in Seq(S) /\ Len(a) = IF 0 < k - 1 THEN k - 1 - 0 ELSE 0
      /\ \A i \in 1 .. Len(a) : a[i] = s[0 + i]
  <2>1. k - 1 \in Nat /\ k - 1 =< Len(s) /\ 0 \in Nat
    BY <1>0
  <2> HIDE DEF a, b
  <2> QED
    BY <2>1, PartOf DEF a
<1>3. /\ b \in Seq(S) /\ Len(b) = IF k < Len(s) THEN Len(s) - k ELSE 0
      /\ \A i \in 1 .. Len(b) : b[i] = s[k + i]
  <2>1. Len(s) \in Nat /\ Len(s) =< Len(s)
    BY <1>0
  <2> HIDE DEF a, b
  <2> QED
    BY <1>0, <2>1, PartOf DEF b
<1> HIDE DEF a, b
<1>4. Len(a) = k - 1 /\ Len(b) = Len(s) - k
  BY <1>0, <1>2, <1>3
<1>5. /\ a \o b \in Seq(S) /\ Len(a \o b) = Len(a) + Len(b)
      /\ \A i \in 1 .. Len(a \o b) : (a \o b)[i] = IF i =< Len(a) THEN a[i] ELSE b[i - Len(a)]
  BY <1>2, <1>3, JoinOf
<1>6. ASSUME NEW i \in 1 .. Len(s) - 1
      PROVE  (a \o b)[i] = IF i < k THEN s[i] ELSE s[i + 1]
  <2>1. i \in 1 .. Len(a \o b)
    BY <1>0, <1>4, <1>5
  <2>2. CASE i < k
    <3>1. i \in 1 .. Len(a) /\ 0 + i = i
      BY <1>0, <1>4, <2>2
    <3> QED
      BY <1>0, <1>2, <1>4, <1>5, <2>1, <2>2, <3>1
  <2>3. CASE ~(i < k)
    <3>1. i - Len(a) \in 1 .. Len(b) /\ k + (i - Len(a)) = i + 1 /\ ~(i =< Len(a))
      BY <1>0, <1>4, <2>3
    <3> QED
      BY <1>3, <1>5, <2>1, <2>3, <3>1
  <2> QED
    BY <2>2, <2>3
<1> QED
  BY <1>0, <1>1, <1>4, <1>5, <1>6

LEMMA PageDeletes == ASSUME PageInv, Page!Delete PROVE PageInv'
<1> USE DEF PageInv
<1>0. RowCount \in Nat /\ MaxChurn \in Nat
  BY LoadAssumption, PagesAssumption
<1>1. /\ paging = "read" /\ churn < MaxChurn /\ churn' = churn + 1
      /\ UNCHANGED <<style, size, sized, limit, api, place, current, pages, got, paging, ended>>
  BY DEF Page!Delete, Page!Setup
<1>2. list \in Seq(1 .. RowCount + 1) /\ DOMAIN list = 1 .. Len(list) /\ Len(list) \in Nat
  BY DEF PageTypes
<1>3. PICK k \in 1 .. Len(list) : list' = Page!RemoveAt(list, k) /\ stayed' = stayed \ {list[k]}
  BY <1>2 DEF Page!Delete
<1>4. /\ list' \in Seq(1 .. RowCount + 1) /\ Len(list') = Len(list) - 1
      /\ \A i \in 1 .. Len(list) - 1 : list'[i] = IF i < k THEN list[i] ELSE list[i + 1]
  BY <1>2, <1>3, WithoutOne
<1>5. Sorted(list')
  <2> SUFFICES ASSUME NEW i \in 1 .. Len(list) - 1, NEW j \in 1 .. Len(list) - 1, i < j
               PROVE  list'[i] < list'[j]
    BY <1>4 DEF Sorted
  <2> DEFINE x == IF i < k THEN i ELSE i + 1
             y == IF j < k THEN j ELSE j + 1
  <2>1. x \in 1 .. Len(list) /\ y \in 1 .. Len(list) /\ x < y
    BY <1>2, <1>3
  <2>2. list'[i] = list[x] /\ list'[j] = list[y]
    BY <1>4
  <2> QED
    BY <2>1, <2>2 DEF PageTypes, Sorted
<1>6. stayed' \subseteq Items(list')
  <2> SUFFICES ASSUME NEW x \in stayed, x # list[k]
               PROVE  \E i \in 1 .. Len(list) - 1 : list'[i] = x
    BY <1>3, <1>4 DEF Items
  <2>1. PICK i \in 1 .. Len(list) : x = list[i]
    BY DEF PageTypes, Items
  <2>2. CASE i < k
    <3>1. i \in 1 .. Len(list) - 1
      BY <1>2, <2>2
    <3> QED
      BY <1>4, <2>1, <2>2, <3>1
  <2>3. CASE i > k
    <3>1. i - 1 \in 1 .. Len(list) - 1 /\ ~(i - 1 < k) /\ (i - 1) + 1 = i
      BY <1>2, <2>3
    <3> QED
      BY <1>4, <2>1, <3>1
  <2> QED
    BY <1>2, <2>1, <2>2, <2>3
<1>7. PageTypes'
  BY <1>0, <1>1, <1>4, <1>5, <1>6 DEF PageTypes
<1>8. ReadOnce' /\ ReadInLoop'
  BY <1>1 DEF ReadOnce, ReadInLoop, PageTypes
<1>9. ReadByCount' /\ ReadByCursor'
  BY <1>1, <1>3 DEF ReadByCount, ReadByCursor, PageTypes, Sorted, Items
<1> QED
  BY <1>7, <1>8, <1>9

(* The read ends, and not well.                                             *)
LEMMA PageEnds == ASSUME PageInv, Page!CapReached \/ Page!PageFails PROVE PageInv'
<1> USE DEF PageInv
<1>1. /\ paging' = "ended" /\ ended' \in {"capped", "failed"}
      /\ UNCHANGED <<style, size, sized, limit, api, list, stayed, churn, place, current, pages, got>>
  BY DEF Page!CapReached, Page!PageFails, Page!End, Page!Setup
<1>2. PageTypes'
  BY <1>1 DEF PageTypes, Sorted, Items
<1>3. ReadOnce' /\ ReadInLoop' /\ ReadByCount' /\ ReadByCursor'
  BY <1>1 DEF ReadOnce, ReadInLoop, ReadByCount, ReadByCursor, Starting, Sorted, Items
<1> QED
  BY <1>2, <1>3

(* A page is taken, and then?                                               *)
Reading == Page!RestRead \/ Page!GraphqlRead

LEMMA ReadingFacts ==
    ASSUME PageInv, Reading
    PROVE  /\ paging = "read" /\ pages < MaxPages /\ pages' = pages + 1
           /\ got' = got \o Page!Page
           /\ UNCHANGED <<style, size, sized, limit, api, list, stayed, churn>>
BY DEF Reading, Page!RestRead, Page!GraphqlRead, Page!TakePage, Page!Allowed, Page!Setup

LEMMA ReadingOnce ==
    ASSUME PageInv, Reading, style \in {"none", "bare"}
    PROVE  paging' = "ended" /\ ended' = "ok" /\ UNCHANGED <<place, current>>
BY DEF Reading, Page!RestRead, Page!GraphqlRead, Page!OnePage, Page!NextNumber, Page!NextOffset,
       Page!NextCursor, Page!NextLink, Page!NextSlice, Page!NextRelay, Page!End

LEMMA ReadingByCount ==
    ASSUME PageInv, Reading, style \in {"page", "offset", "slice"}
    PROVE  /\ current' = current
           /\ \/ /\ Page!ShortPage(Len(Page!Page))
                 /\ paging' = "ended" /\ ended' = "ok" /\ place' = place
              \/ /\ ~Page!ShortPage(Len(Page!Page))
                 /\ paging' = paging /\ ended' = ended
                 /\ place' = place + (IF style = "page" THEN 1 ELSE Len(Page!Page))
BY DEF Reading, Page!RestRead, Page!GraphqlRead, Page!OnePage, Page!NextNumber, Page!NextOffset,
       Page!NextCursor, Page!NextLink, Page!NextSlice, Page!NextRelay, Page!End, Page!Count,
       Page!StepOn, Page!Stay

LEMMA ReadingByCursor ==
    ASSUME PageInv, Reading, style \in {"cursor", "link", "relay"}
    PROVE  /\ place' = place
           /\ \/ Page!Cursor = 0 /\ paging' = "ended" /\ ended' = "ok" /\ current' = current
              \/ /\ Page!Cursor # 0 /\ paging' = paging /\ ended' = ended /\ current' = Page!Cursor
                 /\ style # "link" => Page!Cursor # current
              \/ paging' = "ended" /\ ended' \in {"failed", "looping"} /\ current' = current
<1>1. CASE style = "cursor"
  BY <1>1 DEF Reading, Page!RestRead, Page!GraphqlRead, Page!OnePage, Page!NextNumber, Page!NextOffset,
       Page!NextCursor, Page!NextLink, Page!GraphqlStyles, Page!Follow, Page!Loops, Page!End, Page!Stay
<1>2. CASE style = "link"
  BY <1>2 DEF Reading, Page!RestRead, Page!GraphqlRead, Page!OnePage, Page!NextNumber, Page!NextOffset,
       Page!NextCursor, Page!NextLink, Page!GraphqlStyles, Page!End, Page!Stay
<1>3. CASE style = "relay"
  BY <1>3 DEF Reading, Page!RestRead, Page!GraphqlRead, Page!OnePage, Page!NextSlice, Page!NextRelay,
       Page!RestStyles, Page!Follow, Page!Loops, Page!End, Page!Stay
<1> QED
  BY <1>1, <1>2, <1>3

(* The next cursor of a good API is the last row of a page, which lies      *)
(* behind the cursor before.                                                *)
LEMMA CursorFacts ==
    ASSUME PageTypes
    PROVE  /\ Page!Cursor \in Nat
           /\ api = "good" /\ Page!Cursor # 0 => Page!More /\ Page!Cursor = Page!Page[Len(Page!Page)]
           /\ api = "good" /\ Page!Cursor = 0 => ~Page!More
           /\ api = "stuck" => Page!Cursor = 2
<1>1. CASE api = "good" /\ Page!More
  <2>1. Page!Cursor = Page!Page[Len(Page!Page)]
    BY <1>1 DEF Page!Cursor, Page!Last
  <2>2. Len(Page!Page) \in 1 .. Len(Page!Page) /\ Page!Page \in Seq(1 .. RowCount + 1)
    BY <1>1, PageFacts, PerPageFacts
  <2>3. Page!Cursor \in 1 .. RowCount + 1
    BY <2>1, <2>2, ElementOf
  <2>4. Page!Cursor \in Nat /\ Page!Cursor # 0
    BY <2>3, LoadAssumption
  <2> QED
    BY <1>1, <2>1, <2>4
<1>2. CASE api = "good" /\ ~Page!More
  BY <1>2 DEF Page!Cursor
<1>3. CASE api # "good"
  BY <1>3 DEF Page!Cursor, PageTypes
<1> QED
  BY <1>1, <1>2, <1>3

LEMMA ReadingTypes == ASSUME PageInv, Reading PROVE PageTypes'
<1> USE DEF PageInv
<1>1. got' \in Seq(1 .. RowCount + 1)
  <2>1. got \in Seq(1 .. RowCount + 1) /\ Page!Page \in Seq(1 .. RowCount + 1)
    BY PageFacts DEF PageTypes
  <2>2. got' = got \o Page!Page
    BY ReadingFacts
  <2> QED
    BY <2>1, <2>2, JoinOf
<1>2. pages' \in 0 .. MaxPages
  BY ReadingFacts, PagesAssumption DEF PageTypes
<1>3. /\ place' \in Nat /\ current' \in Nat
      /\ \/ paging' = paging /\ ended' = ended
         \/ paging' = "ended" /\ ended' \in {"ok", "failed", "looping"}
  <2>1. CASE style \in {"none", "bare"}
    BY <2>1, ReadingOnce DEF PageTypes
  <2>2. CASE style \in {"page", "offset", "slice"}
    BY <2>2, ReadingByCount, PageFacts DEF PageTypes
  <2>3. CASE style \in {"cursor", "link", "relay"}
    BY <2>3, ReadingByCursor, CursorFacts DEF PageTypes
  <2> QED
    BY <2>1, <2>2, <2>3 DEF PageTypes
<1>4. UNCHANGED <<style, size, sized, limit, api, list, stayed, churn>> /\ paging = "read"
  BY ReadingFacts
<1>5. Sorted(list') /\ stayed' \subseteq Items(list') /\ list' \in Seq(1 .. RowCount + 1)
  BY <1>4 DEF PageTypes
<1>6. sized' \in BOOLEAN /\ (size' = 0 => ~sized')
  BY <1>4 DEF PageTypes
<1> QED
  BY <1>1, <1>2, <1>3, <1>4, <1>5, <1>6 DEF PageTypes

LEMMA ReadingOneInv == ASSUME PageInv, Reading PROVE ReadOnce'
<1> USE DEF PageInv
<1> SUFFICES ASSUME style \in {"none", "bare"} PROVE ReadOnce'
  BY ReadingFacts DEF ReadOnce
<1>1. /\ paging = "read" /\ paging' = "ended" /\ current = 0 /\ current' = 0 /\ got = <<>>
      /\ got' = got \o Page!Page /\ UNCHANGED <<list, limit>>
  BY ReadingFacts, ReadingOnce DEF ReadOnce
<1>2. ASSUME Len(list) =< limit PROVE got' = list
  <2>0. /\ Len(list) \in Nat /\ limit \in Nat /\ limit >= 1
        /\ list \in Seq(1 .. RowCount + 1) /\ RowCount \in Nat
    BY LoadAssumption DEF PageTypes
  <2>1. Page!From = 0
    <3>1. /\ Page!From \in Nat
          /\ \A i \in 1 .. Len(list) : list[i] =< 0 <=> i =< Page!From
          /\ Page!From = Page!Behind(0)
      BY <1>1, FromFacts, BehindCursor DEF PageTypes
    <3>2. Page!Behind(0) = 0
      <4>1. \A i \in 1 .. Len(list) : list[i] \in Nat /\ list[i] # 0
        BY <2>0
      <4>2. {i \in DOMAIN list : list[i] =< 0} = {}
        BY <2>0, <4>1
      <4>3. Page!Behind(0) = Cardinality({})
        BY <4>2, PageCounts DEF Page!Behind
      <4> QED
        BY <4>3, FS_EmptySet
    <3> QED
      BY <3>1, <3>2
  <2>2. Page!PerPage = limit
    BY DEF Page!PerPage, PageTypes
  <2>3. ~Page!More
    BY <2>0, <2>1, <2>2, <1>2 DEF Page!More
  <2>4. /\ Page!Page \in Seq(1 .. RowCount + 1) /\ Len(Page!Page) = Len(list)
        /\ \A i \in 1 .. Len(Page!Page) : Page!Page[i] = list[Page!From + i]
    BY <2>0, <2>1, <2>3, PageFacts
  <2>5. ASSUME NEW i \in 1 .. Len(Page!Page) PROVE Page!Page[i] = list[i]
    <3>1. Page!From + i = i
      BY <2>1
    <3> QED
      BY <2>4, <3>1
  <2>6. Page!Page = list
    BY <2>0, <2>4, <2>5, SameSeq
  <2> QED
    BY <1>1, <2>0, <2>6
<1> QED
  BY <1>1, <1>2, ReadingFacts DEF ReadOnce

LEMMA ReadingLoopInv == ASSUME PageInv, Reading PROVE ReadInLoop'
<1> USE DEF PageInv
<1> SUFFICES ASSUME api = "stuck" PROVE ReadInLoop'
  BY ReadingFacts DEF ReadInLoop
<1>1. style \in {"cursor", "relay"}
  BY DEF PageTypes
<1>2. \/ paging' = "ended"
      \/ current' = 2 /\ current # 2
  BY <1>1, ReadingByCursor, CursorFacts
<1>3. pages \in Nat /\ pages' = pages + 1 /\ paging = "read" /\ pages =< 2 /\ pages # 2
  BY ReadingFacts, PagesAssumption DEF ReadInLoop, PageTypes
<1>4. pages = 1 => current = 2
  BY <1>3 DEF ReadInLoop
<1> QED
  BY <1>2, <1>3, <1>4 DEF ReadInLoop

(* A page taken at the right place leaves exactly the first rows.           *)
LEMMA ReadingOn ==
    ASSUME PageInv, Reading, Starting(got, list),
           Page!From >= Len(got), Page!From = Len(got) \/ got = list
    PROVE  /\ Starting(got', list)
           /\ Page!More => Len(got') = Page!From + Page!PerPage
           /\ ~Page!More => got' = list
           /\ Len(Page!Page) = 0 => got' = got
           /\ Page!From = Len(got) => Len(got') = Page!From + Len(Page!Page)
           /\ got = list => Len(Page!Page) = 0
<1> USE DEF PageInv
<1> DEFINE f == Page!From
           p == Page!Page
<1>1. /\ got \in Seq(1 .. RowCount + 1) /\ list \in Seq(1 .. RowCount + 1)
      /\ Len(got) \in Nat /\ Len(list) \in Nat /\ got' = got \o p
  BY ReadingFacts DEF PageTypes
<1>2. /\ p \in Seq(1 .. RowCount + 1) /\ Len(p) \in Nat /\ f \in Nat
      /\ \A i \in 1 .. Len(p) : f + i \in 1 .. Len(list) /\ p[i] = list[f + i]
      /\ Page!More => Len(p) = Page!PerPage /\ f + Page!PerPage < Len(list)
      /\ ~Page!More => Len(p) = IF f < Len(list) THEN Len(list) - f ELSE 0
      /\ Page!PerPage \in Nat /\ Page!PerPage >= 1
  BY PageFacts, FromFacts, PerPageFacts
<1>3. f >= Len(got) /\ (f = Len(got) \/ got = list) /\ Starting(got, list)
  OBVIOUS
<1> HIDE DEF f, p
<1>4. /\ got' \in Seq(1 .. RowCount + 1) /\ Len(got') = Len(got) + Len(p)
      /\ \A i \in 1 .. Len(got') : got'[i] = IF i =< Len(got) THEN got[i] ELSE p[i - Len(got)]
  BY <1>1, <1>2, JoinOf
<1>5. got = list => Len(p) = 0
  <2> SUFFICES ASSUME got = list, Len(p) # 0 PROVE FALSE
    OBVIOUS
  <2>1. 1 \in 1 .. Len(p) /\ f >= Len(list)
    BY <1>2, <1>3
  <2>2. f + 1 \in 1 .. Len(list)
    BY <1>2, <2>1
  <2> QED
    BY <1>1, <1>2, <2>1, <2>2
<1>6. Len(p) = 0 => got' = got
  <2> SUFFICES ASSUME Len(p) = 0 PROVE got' = got
    OBVIOUS
  <2>1. Len(got') = Len(got) /\ \A i \in 1 .. Len(got) : got'[i] = got[i]
    BY <1>1, <1>4
  <2> QED
    BY <1>1, <1>4, <2>1
<1>7. Starting(got', list)
  <2>1. CASE got = list
    BY <1>1, <1>5, <1>6, <2>1 DEF Starting
  <2>2. CASE f = Len(got)
    <3>1. Len(got') =< Len(list)
      <4>1. CASE Len(p) = 0
        BY <1>3, <1>6, <4>1 DEF Starting
      <4>2. CASE Len(p) # 0
        <5>1. Len(p) \in 1 .. Len(p)
          BY <1>2, <4>2
        <5>2. f + Len(p) \in 1 .. Len(list)
          BY <1>2, <5>1
        <5> QED
          BY <1>1, <1>2, <1>4, <2>2, <5>2
      <4> QED
        BY <4>1, <4>2
    <3>2. ASSUME NEW i \in 1 .. Len(got') PROVE got'[i] = list[i]
      <4>1. CASE i =< Len(got)
        <5>1. i \in 1 .. Len(got)
          BY <1>1, <1>2, <1>4, <4>1
        <5> QED
          BY <1>3, <1>4, <4>1, <5>1 DEF Starting
      <4>2. CASE ~(i =< Len(got))
        <5>1. i - Len(got) \in 1 .. Len(p) /\ f + (i - Len(got)) = i
          BY <1>1, <1>2, <1>4, <2>2, <4>2
        <5> QED
          BY <1>2, <1>4, <4>2, <5>1
      <4> QED
        BY <4>1, <4>2
    <3> QED
      BY <3>1, <3>2 DEF Starting
  <2> QED
    BY <1>3, <2>1, <2>2
<1>8. ASSUME Page!More PROVE Len(got') = f + Page!PerPage
  <2>1. Len(p) = Page!PerPage
    BY <1>2, <1>8
  <2>2. got # list
    BY <1>2, <1>5, <2>1
  <2>3. f = Len(got)
    BY <1>3, <2>2
  <2> QED
    BY <1>4, <2>1, <2>3
<1>9. ASSUME ~Page!More PROVE got' = list
  <2>1. CASE got = list
    BY <1>5, <1>6, <2>1
  <2>2. CASE f = Len(got)
    <3>1. Len(got') = Len(list)
      BY <1>1, <1>2, <1>3, <1>4, <1>9, <2>2 DEF Starting
    <3> QED
      BY <1>1, <1>4, <1>7, <3>1 DEF Starting
  <2> QED
    BY <1>3, <2>1, <2>2
<1>10. f = Len(got) => Len(got') = f + Len(p)
  BY <1>1, <1>2, <1>4
<1> QED
  BY <1>5, <1>6, <1>7, <1>8, <1>9, <1>10 DEF f, p

LEMMA ReadingCountInv == ASSUME PageInv, Reading PROVE ReadByCount'
<1> USE DEF PageInv
<1>1. /\ paging = "read" /\ got' = got \o Page!Page
      /\ UNCHANGED <<style, size, sized, limit, api, list, stayed, churn>>
  BY ReadingFacts
<1> SUFFICES ASSUME style \in {"page", "offset", "slice"}, churn = 0, size =< limit
             PROVE  ReadByCount'
  BY <1>1 DEF ReadByCount
<1>2. Starting(got, list) /\ Page!From >= Len(got) /\ (Page!From = Len(got) \/ got = list)
  BY <1>1 DEF ReadByCount
<1>3. /\ Starting(got', list)
      /\ Page!More => Len(got') = Page!From + Page!PerPage
      /\ ~Page!More => got' = list
      /\ Len(Page!Page) = 0 => got' = got
      /\ Page!From = Len(got) => Len(got') = Page!From + Len(Page!Page)
      /\ got = list => Len(Page!Page) = 0
  BY <1>2, ReadingOn
<1>4. /\ Page!From \in Nat /\ Page!PerPage \in Nat /\ Page!PerPage >= 1 /\ Len(Page!Page) \in Nat
      /\ Len(list) \in Nat /\ Len(got) \in Nat /\ place \in Nat /\ size \in Nat /\ limit \in Nat
      /\ Page!More => Len(Page!Page) = Page!PerPage
      /\ ~Page!More => Page!From + Page!PerPage >= Len(list)
  <2>1. ~Page!More => ~(Page!From + Page!PerPage < Len(list))
    BY DEF Page!More
  <2> QED
    BY <2>1, FromFacts, PerPageFacts, PageFacts DEF PageTypes
<1>5. CASE Page!ShortPage(Len(Page!Page)) /\ paging' = "ended"
  <2>1. Page!PerPage >= size
    BY DEF Page!PerPage, PageTypes
  <2>2. ~Page!More
    BY <1>4, <1>5, <2>1 DEF Page!ShortPage
  <2> QED
    BY <1>1, <1>3, <1>5, <2>2 DEF ReadByCount
<1>6. CASE /\ paging' = paging /\ ended' = ended
           /\ place' = place + (IF style = "page" THEN 1 ELSE Len(Page!Page))
  <2>1. Page!PerPage' = Page!PerPage
    BY <1>1 DEF Page!PerPage
  <2>2. ended' # "ok"
    BY <1>1, <1>6 DEF PageTypes
  <2>3. CASE style = "page"
    <3>1. Page!From' = place' * Page!PerPage' /\ Page!From = place * Page!PerPage /\ place' = place + 1
      BY <1>1, <1>6, <2>3, FromFacts DEF Page!From, Page!Query, Page!RestStyles
    <3>2. (place + 1) * Page!PerPage = place * Page!PerPage + Page!PerPage
      BY <1>4
    <3>3. Page!From' = Page!From + Page!PerPage
      BY <2>1, <3>1, <3>2
    <3>4. CASE Page!More
      <4>1. Page!From' = Len(got')
        BY <1>3, <3>3, <3>4
      <4>2. Page!From' \in Nat
        BY <1>4, <3>3
      <4> QED
        BY <1>1, <1>3, <2>2, <4>1, <4>2 DEF ReadByCount
    <3>5. CASE ~Page!More
      <4>1. got' = list /\ Page!From' >= Len(got')
        BY <1>3, <1>4, <3>3, <3>5
      <4> QED
        BY <1>1, <1>3, <2>2, <4>1 DEF ReadByCount
    <3> QED
      BY <3>4, <3>5
  <2>4. CASE style \in {"offset", "slice"}
    <3>1. Page!From' = Page!From + Len(Page!Page)
      BY <1>1, <1>6, <2>4, FromFacts DEF Page!From, Page!Query, Page!Bind, Page!RestStyles
    <3>2. CASE Page!From = Len(got)
      <4>1. Page!From' = Len(got') /\ Page!From' \in Nat
        BY <1>3, <1>4, <3>1, <3>2
      <4> QED
        BY <1>1, <1>3, <2>2, <4>1 DEF ReadByCount
    <3>3. CASE got = list
      <4>1. got' = list /\ Page!From' >= Len(got')
        BY <1>2, <1>3, <1>4, <3>1, <3>3
      <4> QED
        BY <1>1, <1>3, <2>2, <4>1 DEF ReadByCount
    <3> QED
      BY <1>2, <3>2, <3>3
  <2> QED
    BY <2>3, <2>4
<1> QED
  BY <1>5, <1>6, ReadingByCount

LEMMA ReadingCursorInv == ASSUME PageInv, Reading PROVE ReadByCursor'
<1> USE DEF PageInv
<1> DEFINE f == Page!From
           p == Page!Page
<1>1. /\ paging = "read" /\ ended # "ok" /\ got' = got \o p
      /\ UNCHANGED <<style, size, sized, limit, api, list, stayed, churn>>
  BY ReadingFacts DEF PageTypes
<1> SUFFICES ASSUME style \in {"cursor", "link", "relay"}, api = "good"
             PROVE  ReadByCursor'
  BY <1>1 DEF ReadByCursor
<1>2. /\ Sorted(got) /\ \A i \in 1 .. Len(got) : got[i] =< current
      /\ \A x \in stayed : x =< current => x \in Items(got)
  BY <1>1 DEF ReadByCursor
<1>3. /\ f \in Nat /\ \A i \in 1 .. Len(list) : list[i] =< current <=> i =< f
  BY FromFacts, BehindCursor DEF PageTypes
<1>4. /\ p \in Seq(1 .. RowCount + 1) /\ Len(p) \in Nat
      /\ \A i \in 1 .. Len(p) : f + i \in 1 .. Len(list) /\ p[i] = list[f + i]
      /\ Page!More => Len(p) >= 1
      /\ ~Page!More => Len(p) = IF f < Len(list) THEN Len(list) - f ELSE 0
  BY PageFacts, PerPageFacts
<1>5. /\ got \in Seq(1 .. RowCount + 1) /\ Len(got) \in Nat /\ current \in Nat /\ Len(list) \in Nat
      /\ Sorted(list) /\ RowCount \in Nat
      /\ \A i \in 1 .. Len(list) : list[i] \in Nat
      /\ \A i \in 1 .. Len(got) : got[i] \in Nat
  BY LoadAssumption DEF PageTypes
<1>6. /\ Page!Cursor # 0 => Page!More /\ Page!Cursor = p[Len(p)]
      /\ Page!Cursor = 0 => ~Page!More
  BY CursorFacts
<1>7. \A x \in stayed : \E i \in 1 .. Len(list) : x = list[i]
  BY DEF PageTypes, Items
<1> HIDE DEF f, p
<1>8. /\ Len(got') = Len(got) + Len(p)
      /\ \A i \in 1 .. Len(got') : got'[i] = IF i =< Len(got) THEN got[i] ELSE p[i - Len(got)]
      /\ Items(got') = Items(got) \cup Items(p)
  BY <1>1, <1>4, <1>5, JoinOf, JoinItems
<1>9. \A i \in 1 .. Len(p) : p[i] \in Nat /\ p[i] > current
  <2> SUFFICES ASSUME NEW i \in 1 .. Len(p) PROVE p[i] \in Nat /\ p[i] > current
    OBVIOUS
  <2>1. f + i \in 1 .. Len(list) /\ p[i] = list[f + i] /\ ~(f + i =< f)
    BY <1>3, <1>4
  <2> QED
    BY <1>3, <1>5, <2>1
<1>10. \A i, j \in 1 .. Len(p) : i < j => p[i] < p[j]
  <2> SUFFICES ASSUME NEW i \in 1 .. Len(p), NEW j \in 1 .. Len(p), i < j PROVE p[i] < p[j]
    OBVIOUS
  <2>1. /\ f + i \in 1 .. Len(list) /\ p[i] = list[f + i]
        /\ f + j \in 1 .. Len(list) /\ p[j] = list[f + j] /\ f + i < f + j
    BY <1>3, <1>4
  <2> QED
    BY <1>5, <2>1 DEF Sorted
<1>11. Sorted(got')
  <2> SUFFICES ASSUME NEW i \in 1 .. Len(got'), NEW j \in 1 .. Len(got'), i < j
               PROVE  got'[i] < got'[j]
    BY DEF Sorted
  <2>1. CASE j =< Len(got)
    <3>1. i \in 1 .. Len(got) /\ j \in 1 .. Len(got) /\ got'[i] = got[i] /\ got'[j] = got[j]
      BY <1>4, <1>5, <1>8, <2>1
    <3> QED
      BY <1>2, <3>1 DEF Sorted
  <2>2. CASE i =< Len(got) /\ ~(j =< Len(got))
    <3>1. i \in 1 .. Len(got) /\ got'[i] = got[i] /\ j - Len(got) \in 1 .. Len(p) /\ got'[j] = p[j - Len(got)]
      BY <1>4, <1>5, <1>8, <2>2
    <3>2. got[i] =< current /\ got[i] \in Nat /\ p[j - Len(got)] > current /\ p[j - Len(got)] \in Nat
      BY <1>2, <1>5, <1>9, <3>1
    <3> QED
      BY <1>5, <3>1, <3>2
  <2>3. CASE ~(i =< Len(got))
    <3>1. /\ i - Len(got) \in 1 .. Len(p) /\ got'[i] = p[i - Len(got)]
          /\ j - Len(got) \in 1 .. Len(p) /\ got'[j] = p[j - Len(got)]
          /\ i - Len(got) < j - Len(got)
      BY <1>4, <1>5, <1>8, <2>3
    <3> QED
      BY <1>10, <3>1
  <2> QED
    BY <2>1, <2>2, <2>3
<1>12. \A i \in 1 .. Len(list) : i =< f + Len(p) => list[i] =< current \/ list[i] \in Items(p)
  <2> SUFFICES ASSUME NEW i \in 1 .. Len(list), i =< f + Len(p), ~(list[i] =< current)
               PROVE  list[i] \in Items(p)
    OBVIOUS
  <2>1. ~(i =< f)
    BY <1>3
  <2>2. i - f \in 1 .. Len(p) /\ f + (i - f) = i
    BY <1>3, <1>4, <2>1
  <2>3. p[i - f] = list[i]
    BY <1>4, <2>2
  <2> QED
    BY <2>2, <2>3 DEF Items
<1>13. CASE Page!Cursor = 0 /\ paging' = "ended" /\ ended' = "ok"
  <2>1. f + Len(p) >= Len(list)
    BY <1>3, <1>4, <1>5, <1>6, <1>13
  <2>2. ASSUME NEW x \in stayed PROVE x \in Items(got')
    <3>1. PICK i \in 1 .. Len(list) : x = list[i]
      BY <1>7
    <3>2. i =< f + Len(p)
      BY <1>3, <1>4, <1>5, <2>1
    <3> QED
      BY <1>2, <1>8, <1>12, <3>1, <3>2
  <2> QED
    BY <1>1, <1>11, <1>13, <2>2 DEF ReadByCursor
<1>14. CASE Page!Cursor # 0 /\ paging' = paging /\ ended' = ended /\ current' = Page!Cursor
  <2>1. /\ Len(p) >= 1 /\ current' = p[Len(p)] /\ Len(p) \in 1 .. Len(p)
    BY <1>4, <1>6, <1>14
  <2>2. current' > current /\ current' \in Nat
    BY <1>9, <2>1
  <2>3. ASSUME NEW i \in 1 .. Len(got') PROVE got'[i] =< current'
    <3>1. CASE i =< Len(got)
      <4>1. i \in 1 .. Len(got) /\ got'[i] = got[i]
        BY <1>4, <1>5, <1>8, <3>1
      <4>2. got[i] =< current /\ got[i] \in Nat
        BY <1>2, <1>5, <4>1
      <4> QED
        BY <1>5, <2>2, <4>1, <4>2
    <3>2. CASE ~(i =< Len(got))
      <4>1. i - Len(got) \in 1 .. Len(p) /\ got'[i] = p[i - Len(got)]
        BY <1>4, <1>5, <1>8, <3>2
      <4>2. CASE i - Len(got) = Len(p)
        BY <2>1, <2>2, <4>1, <4>2
      <4>3. CASE i - Len(got) < Len(p)
        BY <1>9, <1>10, <2>1, <4>1, <4>3
      <4> QED
        BY <1>4, <4>1, <4>2, <4>3
    <3> QED
      BY <3>1, <3>2
  <2>4. ASSUME NEW x \in stayed, x =< current' PROVE x \in Items(got')
    <3>1. PICK i \in 1 .. Len(list) : x = list[i]
      BY <1>7
    <3>2. f + Len(p) \in 1 .. Len(list) /\ current' = list[f + Len(p)]
      BY <1>4, <2>1
    <3>3. i =< f + Len(p)
      <4> SUFFICES ASSUME f + Len(p) < i PROVE FALSE
        BY <1>3, <1>4
      <4>1. list[f + Len(p)] < list[i]
        BY <1>5, <3>2 DEF Sorted
      <4> QED
        BY <1>5, <2>2, <2>4, <3>1, <3>2, <4>1
    <3> QED
      BY <1>2, <1>8, <1>12, <3>1, <3>3
  <2> QED
    BY <1>1, <1>11, <1>14, <2>3, <2>4 DEF ReadByCursor
<1>15. CASE paging' = "ended" /\ ended' \in {"failed", "looping"}
  BY <1>1, <1>11, <1>15 DEF ReadByCursor
<1> QED
  BY <1>13, <1>14, <1>15, ReadingByCursor

LEMMA PageStays == PageInv /\ UNCHANGED page => PageInv'
<1> SUFFICES ASSUME PageInv, UNCHANGED page PROVE PageInv'
  OBVIOUS
<1>1. Page!From' = Page!From
  BY DEF page, Page!From, Page!Query, Page!Bind, Page!PerPage, Page!Behind, Page!RestStyles
<1>2. PageTypes'
  BY DEF page, PageInv, PageTypes, Sorted, Items
<1>3. ReadOnce' /\ ReadByCount' /\ ReadByCursor' /\ ReadInLoop'
  BY <1>1 DEF page, PageInv, ReadOnce, ReadByCount, ReadByCursor, ReadInLoop, Starting, Sorted, Items
<1> QED
  BY <1>2, <1>3 DEF PageInv

LEMMA PageSteps == PageInv /\ (Page!Next \/ UNCHANGED page) => PageInv'
<1> SUFFICES ASSUME PageInv, Page!Next \/ UNCHANGED page PROVE PageInv'
  OBVIOUS
<1>1. Page!Ended => UNCHANGED page
  BY DEF Page!Ended, Page!vars, page
<1>2. CASE Reading
  BY <1>2, ReadingTypes, ReadingOneInv, ReadingCountInv, ReadingCursorInv, ReadingLoopInv DEF PageInv
<1> QED
  BY <1>1, <1>2, PageStays, PageInserts, PageDeletes, PageEnds DEF Page!Next, Page!Step, Reading

(* A paged read that ends well has delivered every row that was there all   *)
(* along, once: a read that counts where the list holds still and the API   *)
(* puts on a page what it is asked for, one that follows cursors whatever   *)
(* comes and goes; and an API that answers with one cursor for ever is      *)
(* caught on page two: for any list, page size, caps and changes.           *)
THEOREM PagesReadTheorem == ServicesSpec => []PagesRead
<1> DEFINE Inv == which = "page" => PageInv
<1>1. ServicesInit => Inv
  BY PageStarts DEF ServicesInit
<1>2. Inv /\ [ServicesNext]_all => Inv'
  <2> SUFFICES ASSUME Inv, [ServicesNext]_all, which' = "page" PROVE PageInv'
    OBVIOUS
  <2>1. which' = which
    BY DEF ServicesNext, all
  <2>2. Page!Next \/ UNCHANGED page
    BY <2>1 DEF ServicesNext, all
  <2> QED
    BY <2>1, <2>2, PageSteps
<1>3. Inv => PagesRead
  <2> SUFFICES ASSUME PageInv PROVE Page!TypeOK /\ Page!ReadsAll /\ Page!LoopCaught
    BY DEF PagesRead
  <2> USE DEF PageInv
  <2>1. Page!ToSet(got) = Items(got) /\ Page!ToSet(list) = Items(list) /\ DOMAIN got = 1 .. Len(got)
    BY DEF PageTypes, Page!ToSet, Items
  <2>2. Page!TypeOK
    <3>1. Items(got) \subseteq 1 .. RowCount + 1
      <4>1. got \in Seq(1 .. RowCount + 1)
        BY DEF PageTypes
      <4>2. \A i \in 1 .. Len(got) : got[i] \in 1 .. RowCount + 1
        BY <4>1, ElementOf
      <4> QED
        BY <4>2 DEF Items
    <3> QED
      BY <2>1, <3>1 DEF Page!TypeOK, PageTypes, Page!RestStyles, Page!GraphqlStyles
  <2>3. ASSUME ended = "ok", api = "good", Page!Countable
        PROVE  stayed \subseteq Page!ToSet(got) /\ Page!IsInjective(got)
    <3>1. stayed \subseteq Items(got) /\ Sorted(got)
      <4>1. CASE style \in {"none", "bare"}
        BY <2>3, <4>1 DEF ReadOnce, Page!Countable, PageTypes
      <4>2. CASE style \in {"page", "offset", "slice"}
        BY <2>3, <4>2 DEF ReadByCount, Page!Countable, Page!Counting, PageTypes
      <4>3. CASE style \in {"cursor", "link", "relay"}
        BY <2>3, <4>3 DEF ReadByCursor
      <4> QED
        BY <4>1, <4>2, <4>3 DEF PageTypes
    <3>2. ASSUME NEW i \in 1 .. Len(got), NEW j \in 1 .. Len(got), got[i] = got[j] PROVE i = j
      <4>1. got[i] \in Nat /\ got[j] \in Nat /\ i \in Nat /\ j \in Nat
        BY LoadAssumption DEF PageTypes
      <4> QED
        BY <3>1, <3>2, <4>1 DEF Sorted
    <3> QED
      BY <2>1, <3>1, <3>2 DEF Page!IsInjective
  <2>4. Page!LoopCaught
    BY DEF Page!LoopCaught, ReadInLoop
  <2> QED
    BY <2>2, <2>3, <2>4 DEF Page!ReadsAll
<1> QED
  BY <1>1, <1>2, <1>3, PTL DEF ServicesSpec

-----------------------------------------------------------------------------
(* The sinks that send rows to a stream or a queue.                        *)

(* Rows that were read and are not in hand any more.                       *)
SinkDone == (1 .. reached) \ (packet \cup sending \cup acks)

SinkTypes ==
    /\ target \in Sink!Sinks /\ column \in {"unset", "absent", "present"}
    /\ reached \in 0 .. Records /\ batches \in Nat
    /\ \A S \in {packet, sending, acks} : S \subseteq 1 .. reached /\ Cardinality(S) <= BatchLimit
    /\ tries \in 0 .. Retries /\ repeats \in 0 .. Retries
    /\ claimed \in 0 .. Records /\ doubt \subseteq 1 .. Records
    /\ log \subseteq [row : 1 .. Records, at : Nat, turn : Nat]
    /\ delivering \in {"read", "call", "confirm", "ended"}
    /\ report \in [how : {"nothing", "plain", "ok", "failed"}, count : Nat]
    /\ delivering # "ended" => report = [how |-> "nothing", count |-> 0]

(* What is counted has landed, and nothing that was not read.              *)
SinkCounts ==
    /\ claimed = Cardinality(SinkDone)
    /\ SinkDone \subseteq Sink!Landed
    /\ Sink!Landed \subseteq 1 .. reached

(* What is in hand has not landed, or is in doubt.                         *)
StreamingHolds ==
    target \in Sink!Streaming =>
        /\ sending \cup acks \subseteq packet /\ sending \cap acks = {}
        /\ (sending \cup acks) \cap Sink!Landed = {}
        /\ \/ /\ delivering = "read" /\ sending = {} /\ acks = {}
              /\ packet \cap Sink!Landed = {} /\ Cardinality(packet) < BatchLimit
           \/ /\ delivering = "call" /\ sending \cup acks # {}
              /\ packet \ (sending \cup acks) \subseteq Sink!Landed
        /\ target = "kafka" =>
            /\ acks = {}
            /\ delivering = "call" =>
                \A r \in sending, s \in packet \ sending : Sink!PlaceOf(r) # Sink!PlaceOf(s)
CallingHolds ==
    target \in Sink!Calling =>
        /\ acks = {} /\ packet \cap Sink!Landed = {}
        /\ \A r \in sending, s \in packet : r < s
        /\ sending \cap Sink!Landed \subseteq doubt
        /\ \/ delivering = "read" /\ sending = {}
           \/ delivering = "call" /\ sending # {}
RabbitHolds ==
    target = "rabbitmq" =>
        /\ packet = {} /\ sending = {} /\ acks \cap Sink!Landed = {}
        /\ \/ delivering = "read" /\ Cardinality(acks) < BatchLimit
           \/ delivering = "confirm" /\ acks # {}

(* Where keyed rows are.                                                   *)
KeysInPlace ==
    \A e \in log : Sink!KeyOf(e.row) # Sink!Null => e.at = Sink!PlaceOf(e.row)

SinkGoes ==
    SinkCounts /\ StreamingHolds /\ CallingHolds /\ RabbitHolds /\ KeysInPlace /\ Sink!KeyOrder

SinkInv ==
    /\ SinkTypes
    /\ \E n \in Nat : \A e \in log : e.turn <= n
    /\ Sink!OnceUnlessInDoubt /\ Sink!DeliveredAll /\ Sink!NeverOverclaims
    /\ delivering # "ended" => SinkGoes


(* What lands in a step: rows of S, in the next turn, and those in doubt   *)
(* in the one behind it too.                                               *)
SinkLands(S) ==
    /\ log \subseteq log'
    /\ \A e \in log' : e \notin log =>
         \E r \in S : \/ e = Sink!Entry(r, Sink!Turn + 1)
                      \/ e = Sink!Entry(r, Sink!Turn + 2) /\ S \subseteq doubt'
    /\ \A r \in S : r \in Sink!Landed \/ Sink!Entry(r, Sink!Turn + 1) \in log'

LEMMA SinkNumbers ==
    Records \in Nat /\ Places \in Nat \ {0} /\ BatchLimit \in Nat \ {0} /\ Retries \in Nat
BY PlacesAssumption, LoadAssumption

LEMMA SinkCard == ASSUME NEW S PROVE Sink!Cardinality(S) = Cardinality(S)
BY DEF Sink!Cardinality, Cardinality

LEMMA SinkMin ==
    ASSUME NEW S \in SUBSET Nat, S # {}
    PROVE  Sink!Min(S) \in S /\ \A y \in S : Sink!Min(S) =< y
<1>1. \E x \in S : \A y \in S : x =< y
  BY MinFacts
<1> QED
  BY <1>1 DEF Sink!Min

LEMMA RowSet ==
    ASSUME NEW n \in Nat, NEW S \in SUBSET (1 .. n)
    PROVE  IsFiniteSet(S) /\ Cardinality(S) \in Nat /\ Cardinality(S) <= n
<1>1. IsFiniteSet(1 .. n) /\ Cardinality(1 .. n) = n
  BY FS_Interval
<1> QED
  BY <1>1, FS_Subset, FS_CardinalityType

LEMMA RowPart ==
    ASSUME NEW n \in Nat, NEW S \in SUBSET (1 .. n), NEW T \in SUBSET S
    PROVE  Cardinality(T) \in Nat /\ Cardinality(S) \in Nat /\ Cardinality(T) <= Cardinality(S)
<1>1. IsFiniteSet(S) /\ Cardinality(S) \in Nat
  BY RowSet
<1>2. T \in SUBSET (1 .. n)
  OBVIOUS
<1>3. Cardinality(T) \in Nat
  BY <1>2, RowSet
<1> QED
  BY <1>1, <1>3, FS_Subset

LEMMA RowSum ==
    ASSUME NEW n \in Nat, NEW S \in SUBSET (1 .. n), NEW T \in SUBSET (1 .. n), S \cap T = {}
    PROVE  Cardinality(S \cup T) = Cardinality(S) + Cardinality(T)
<1>1. IsFiniteSet(S) /\ IsFiniteSet(T) /\ Cardinality(S) \in Nat /\ Cardinality(T) \in Nat
  BY RowSet
<1>2. Cardinality(S \cup T) = Cardinality(S) + Cardinality(T) - Cardinality(S \cap T)
  BY <1>1, FS_Union
<1>3. Cardinality(S \cap T) = 0
  BY FS_EmptySet
<1> QED
  BY <1>1, <1>2, <1>3

LEMMA RowAdd ==
    ASSUME NEW n \in Nat, NEW S \in SUBSET (1 .. n), NEW x, x \notin S
    PROVE  Cardinality(S \cup {x}) = Cardinality(S) + 1
BY RowSet, FS_AddElement

LEMMA RowOut ==
    ASSUME NEW n \in Nat, NEW S \in SUBSET (1 .. n), NEW x
    PROVE  Cardinality(S \ {x}) \in Nat /\ Cardinality(S \ {x}) <= Cardinality(S)
<1>1. S \ {x} \in SUBSET S
  OBVIOUS
<1> QED
  BY <1>1, RowPart

(* The turn is behind every turn so far.                                   *)
LEMMA TurnIs ==
    ASSUME SinkInv
    PROVE  Sink!Turn \in Nat /\ \A e \in log : e.turn \in Nat /\ e.turn <= Sink!Turn
<1> DEFINE T == {0} \cup {e.turn : e \in log}
<1>1. PICK n \in Nat : \A e \in log : e.turn <= n
  BY DEF SinkInv
<1>2. \A e \in log : e.turn \in Nat
  BY DEF SinkInv, SinkTypes
<1>3. T \in SUBSET (0 .. n) /\ T # {}
  BY <1>1, <1>2
<1>4. \E x \in T : \A y \in T : y <= x
  <2> HIDE DEF T
  <2> QED
    BY <1>3, MaxFacts
<1>5. \E x \in T : \A y \in T : x >= y
  BY <1>3, <1>4
<1>6. Sink!Max(T) \in T /\ \A y \in T : Sink!Max(T) >= y
  <2> HIDE DEF T
  <2> QED
    BY <1>5 DEF Sink!Max
<1>7. Sink!Turn = Sink!Max(T)
  BY DEF Sink!Turn
<1>8. Sink!Turn \in Nat
  BY <1>3, <1>6, <1>7
<1>9. ASSUME NEW e \in log PROVE e.turn <= Sink!Turn
  <2>1. e.turn \in T
    OBVIOUS
  <2> HIDE DEF T
  <2> QED
    BY <2>1, <1>2, <1>6, <1>7, <1>8
<1> QED
  BY <1>2, <1>8, <1>9

LEMMA PlaceIsNumber == ASSUME SinkTypes, NEW r PROVE Sink!PlaceOf(r) \in Nat
BY SinkNumbers DEF SinkTypes, Sink!PlaceOf, Sink!KafkaPlace, Sink!Keyless, Sink!PartitionFor

LEMMA LandsAfter ==
    ASSUME NEW S, log' = Sink!After(S) PROVE SinkLands(S)
<1> DEFINE N == {q \in S : ~(Sink!Deduplicates(q) /\ q \in Sink!Landed)}
<1>1. log' = log \cup {Sink!Entry(r, Sink!Turn + 1) : r \in N}
  BY DEF Sink!After
<1>2. \A r \in S : r \notin N => r \in Sink!Landed
  OBVIOUS
<1>3. N \subseteq S
  OBVIOUS
<1> HIDE DEF N
<1> QED
  BY <1>1, <1>2, <1>3 DEF SinkLands

LEMMA LandsTwice ==
    ASSUME NEW S, S \subseteq doubt',
           log' = Sink!After(S) \cup {Sink!Entry(r, Sink!Turn + 2) : r \in S}
    PROVE  SinkLands(S)
<1> DEFINE N == {q \in S : ~(Sink!Deduplicates(q) /\ q \in Sink!Landed)}
<1>1. log' = log \cup {Sink!Entry(r, Sink!Turn + 1) : r \in N}
                 \cup {Sink!Entry(r, Sink!Turn + 2) : r \in S}
  BY DEF Sink!After
<1>2. \A r \in S : r \notin N => r \in Sink!Landed
  OBVIOUS
<1>3. N \subseteq S
  OBVIOUS
<1> HIDE DEF N
<1> QED
  BY <1>1, <1>2, <1>3 DEF SinkLands

LEMMA LandsNothing == ASSUME log' = log PROVE SinkLands({})
BY DEF SinkLands

(* What is there after a landing.                                          *)
LEMMA Lands ==
    ASSUME SinkInv, NEW S \in SUBSET (1 .. Records), SinkLands(S),
           doubt \subseteq doubt', S \cap Sink!Landed \subseteq doubt'
    PROVE  /\ log' \subseteq [row : 1 .. Records, at : Nat, turn : Nat]
           /\ \E n \in Nat : \A e \in log' : e.turn <= n
           /\ Sink!Landed' = Sink!Landed \cup S
           /\ Sink!OnceUnlessInDoubt'
<1> DEFINE t == Sink!Turn
           E(r, k) == Sink!Entry(r, k)
<1>0. t \in Nat /\ \A e \in log : e.turn \in Nat /\ e.turn <= t
  BY TurnIs
<1>1. \A r \in S : \A k \in {t + 1, t + 2} :
        /\ E(r, k) \in [row : 1 .. Records, at : Nat, turn : Nat]
        /\ E(r, k).row = r /\ E(r, k).turn = k /\ E(r, k).at = Sink!PlaceOf(r)
  BY <1>0, PlaceIsNumber DEF Sink!Entry, SinkInv
<1>2. /\ \A e \in log' : e \notin log =>
           \E r \in S : e = E(r, t + 1) \/ (e = E(r, t + 2) /\ S \subseteq doubt')
      /\ log \subseteq log' /\ \A r \in S : r \in Sink!Landed \/ E(r, t + 1) \in log'
  BY DEF SinkLands
<1> HIDE DEF t, E
<1>3. log \subseteq [row : 1 .. Records, at : Nat, turn : Nat]
  BY DEF SinkInv, SinkTypes
<1>4. log' \subseteq [row : 1 .. Records, at : Nat, turn : Nat]
  BY <1>1, <1>2, <1>3
<1>5. \A e \in log' : e.turn <= t + 2
  <2> TAKE e \in log'
  <2>1. CASE e \in log
    BY <1>0, <2>1
  <2>2. CASE e \notin log
    BY <1>0, <1>1, <1>2, <2>2
  <2> QED
    BY <2>1, <2>2
<1>6. Sink!Landed' = Sink!Landed \cup S
  <2>1. ASSUME NEW r \in S PROVE r \in Sink!Landed'
    <3>1. CASE r \in Sink!Landed
      BY <1>2, <3>1 DEF Sink!Landed
    <3>2. CASE E(r, t + 1) \in log'
      BY <1>1, <3>2 DEF Sink!Landed
    <3> QED
      BY <1>2, <3>1, <3>2
  <2>2. ASSUME NEW e \in log' PROVE e.row \in Sink!Landed \cup S
    <3>1. CASE e \in log
      BY <3>1 DEF Sink!Landed
    <3>2. CASE e \notin log
      BY <1>1, <1>2, <3>2
    <3> QED
      BY <3>1, <3>2
  <2>3. \A x \in Sink!Landed : x \in Sink!Landed'
    BY <1>2 DEF Sink!Landed
  <2>4. \A x \in Sink!Landed' : \E e \in log' : x = e.row
    BY DEF Sink!Landed
  <2> QED
    BY <2>1, <2>2, <2>3, <2>4
<1>7. Sink!OnceUnlessInDoubt'
  <2> SUFFICES ASSUME NEW d \in log', NEW e \in log', d # e, d.row = e.row
               PROVE  e.row \in doubt'
    BY DEF Sink!OnceUnlessInDoubt
  <2>1. CASE d \in log /\ e \in log
    BY <2>1 DEF SinkInv, Sink!OnceUnlessInDoubt
  <2>2. CASE d \in log /\ e \notin log
    <3>1. e.row \in S
      BY <1>1, <1>2, <2>2
    <3>2. e.row \in Sink!Landed
      BY <2>2 DEF Sink!Landed
    <3> QED
      BY <3>1, <3>2
  <2>3. CASE d \notin log /\ e \in log
    <3>1. d.row \in S
      BY <1>1, <1>2, <2>3
    <3>2. e.row \in Sink!Landed
      BY <2>3 DEF Sink!Landed
    <3> QED
      BY <3>1, <3>2
  <2>4. CASE d \notin log /\ e \notin log
    <3>1. PICK r \in S : d = E(r, t + 1) \/ (d = E(r, t + 2) /\ S \subseteq doubt')
      BY <1>2, <2>4
    <3>2. PICK s \in S : e = E(s, t + 1) \/ (e = E(s, t + 2) /\ S \subseteq doubt')
      BY <1>2, <2>4
    <3>3. r = d.row /\ s = e.row
      BY <1>1, <3>1, <3>2
    <3> QED
      BY <3>1, <3>2, <3>3
  <2> QED
    BY <2>1, <2>2, <2>3, <2>4
<1> QED
  BY <1>0, <1>4, <1>5, <1>6, <1>7

(* Keyed rows stay in place, and in order if none is left behind.          *)
LEMMA KeyPlace ==
    ASSUME NEW r, NEW s, Sink!SameKey(r, s)
    PROVE  Sink!PlaceOf(r) = Sink!PlaceOf(s)
BY DEF Sink!SameKey, Sink!PlaceOf, Sink!KafkaPlace

LEMMA KeyPlaceStays ==
    ASSUME NEW r, UNCHANGED <<target, column, keyed>>, Sink!KeyOf(r) # Sink!Null
    PROVE  Sink!PlaceOf(r)' = Sink!PlaceOf(r)
BY DEF Sink!KeyOf, Sink!PlaceOf, Sink!KafkaPlace, Sink!PartitionFor, Sink!Null

LEMMA LandsInOrder ==
    ASSUME SinkInv, KeysInPlace, Sink!KeyOrder, delivering # "ended",
           NEW S \in SUBSET (1 .. Records), SinkLands(S), UNCHANGED <<target, column, keyed>>,
           target \notin {"kinesis", "sqs"} =>
             \A s \in S : \A r \in 1 .. s - 1 :
                 Sink!SameKey(r, s) => r \in Sink!Landed \cup S
    PROVE  KeysInPlace' /\ Sink!KeyOrder'
<1> DEFINE t == Sink!Turn
           E(r, k) == Sink!Entry(r, k)
<1>0. t \in Nat /\ \A e \in log : e.turn \in Nat /\ e.turn <= t
  BY TurnIs
<1>1. \A r \in S : \A k \in {t + 1, t + 2} :
        E(r, k).row = r /\ E(r, k).turn = k /\ E(r, k).at = Sink!PlaceOf(r)
  BY DEF Sink!Entry
<1>2. /\ \A e \in log' : e \notin log => \E r \in S : e = E(r, t + 1) \/ e = E(r, t + 2)
      /\ log \subseteq log' /\ \A r \in S : r \in Sink!Landed \/ E(r, t + 1) \in log'
  BY DEF SinkLands
<1> HIDE DEF t, E
<1>3. \A e \in log' : Sink!KeyOf(e.row) # Sink!Null => e.at = Sink!PlaceOf(e.row)
  <2> TAKE e \in log'
  <2>1. CASE e \in log
    BY <2>1 DEF KeysInPlace
  <2>2. CASE e \notin log
    BY <1>1, <1>2, <2>2
  <2> QED
    BY <2>1, <2>2
<1>4. \A r : Sink!KeyOf(r)' = Sink!KeyOf(r)
  BY DEF Sink!KeyOf, Sink!Null
<1>5. KeysInPlace'
  <2> SUFFICES ASSUME NEW e \in log', Sink!KeyOf(e.row)' # Sink!Null
               PROVE  e.at = Sink!PlaceOf(e.row)'
    BY DEF KeysInPlace
  <2>1. Sink!KeyOf(e.row) # Sink!Null
    BY <1>4
  <2> QED
    BY <1>3, <2>1, KeyPlaceStays
<1>6. Sink!KeyOrder'
  <2> SUFFICES ASSUME target \notin {"kinesis", "sqs"}, NEW e \in log', NEW r \in 1 .. e.row - 1,
                      Sink!SameKey(r, e.row)
               PROVE  \E d \in log' : d.row = r /\ d.at = e.at /\ d.turn <= e.turn
    BY <1>4 DEF Sink!KeyOrder, Sink!SameKey
  <2>1. CASE e \in log
    BY <1>2, <2>1 DEF Sink!KeyOrder
  <2>2. CASE e \notin log
    <3>1. PICK s \in S : e = E(s, t + 1) \/ e = E(s, t + 2)
      BY <1>2, <2>2
    <3>2. e.row = s /\ e.at = Sink!PlaceOf(s) /\ (e.turn = t + 1 \/ e.turn = t + 2)
      BY <1>1, <3>1
    <3>3. Sink!PlaceOf(r) = e.at /\ r \in Sink!Landed \cup S
      BY <3>2, KeyPlace
    <3>4. CASE r \in Sink!Landed
      <4>1. PICK d \in log : d.row = r
        BY <3>4 DEF Sink!Landed
      <4>2. d.at = Sink!PlaceOf(r)
        BY <4>1 DEF KeysInPlace, Sink!SameKey
      <4>3. d \in log' /\ d.turn <= e.turn
        BY <1>0, <1>2, <3>2
      <4> QED
        BY <3>3, <4>1, <4>2, <4>3
    <3>5. CASE r \in S /\ r \notin Sink!Landed
      <4> DEFINE d == E(r, t + 1)
      <4>1. d \in log' /\ d.row = r /\ d.turn = t + 1 /\ d.at = Sink!PlaceOf(r)
        BY <1>1, <1>2, <3>5
      <4>2. d.turn <= e.turn
        BY <1>0, <3>2, <4>1
      <4> HIDE DEF d
      <4> QED
        BY <3>3, <4>1, <4>2
    <3> QED
      BY <3>3, <3>4, <3>5
  <2> QED
    BY <2>1, <2>2
<1> QED
  BY <1>5, <1>6

(* A sink that ends badly.                                                 *)
LEMMA SinkEnds ==
    ASSUME SinkInv, delivering # "ended", delivering' = "ended",
           NEW S \in SUBSET (1 .. Records), SinkLands(S), doubt \subseteq doubt',
           doubt' \subseteq 1 .. Records, S \cap Sink!Landed \subseteq doubt',
           UNCHANGED <<target, column, batches>>, reached' \in 0 .. Records,
           \A P \in {packet', sending', acks'} :
               P \subseteq 1 .. reached' /\ Cardinality(P) <= BatchLimit,
           tries' \in 0 .. Retries, repeats' \in 0 .. Retries, claimed' \in 0 .. Records,
           report' \in [how : {"plain", "failed"}, count : Nat],
           report'.count <= Cardinality(Sink!Landed \cup S)
    PROVE  SinkInv'
<1>1. /\ log' \subseteq [row : 1 .. Records, at : Nat, turn : Nat]
      /\ \E n \in Nat : \A e \in log' : e.turn <= n
      /\ Sink!Landed' = Sink!Landed \cup S
      /\ Sink!OnceUnlessInDoubt'
  BY Lands
<1>2. SinkTypes'
  BY <1>1 DEF SinkInv, SinkTypes
<1>3. Sink!DeliveredAll'
  BY DEF Sink!DeliveredAll
<1>4. Sink!NeverOverclaims'
  <2>1. Cardinality(Sink!Landed') = Cardinality(Sink!Landed \cup S)
    BY <1>1
  <2> QED
    BY <2>1, SinkCard DEF Sink!NeverOverclaims
<1> QED
  BY <1>1, <1>2, <1>3, <1>4 DEF SinkInv

(* What was counted is there.                                              *)
LEMMA CountIsThere ==
    ASSUME SinkInv, delivering # "ended", NEW S \in SUBSET (1 .. Records)
    PROVE  claimed \in Nat /\ claimed <= Cardinality(Sink!Landed \cup S)
<1>1. Sink!Landed \cup S \in SUBSET (1 .. Records) /\ Records \in Nat
  BY SinkNumbers DEF SinkInv, SinkTypes, Sink!Landed
<1>2. SinkDone \in SUBSET (Sink!Landed \cup S) /\ claimed = Cardinality(SinkDone)
  BY DEF SinkInv, SinkGoes, SinkCounts
<1> QED
  BY <1>1, <1>2, RowPart

LEMMA SinkFails ==
    ASSUME SinkInv, delivering # "ended", delivering' = "ended",
           NEW S \in SUBSET (1 .. Records), SinkLands(S), doubt \subseteq doubt',
           doubt' \subseteq 1 .. Records, S \cap Sink!Landed \subseteq doubt',
           UNCHANGED <<target, column, packet, sending, acks, batches, tries, repeats, claimed>>,
           reached' \in {reached, reached + 1}, reached' <= Records,
           \/ report' = [how |-> "plain", count |-> 0]
           \/ report' = [how |-> "failed", count |-> claimed]
    PROVE  SinkInv'
<1>1. claimed \in Nat /\ claimed <= Cardinality(Sink!Landed \cup S)
  BY CountIsThere
<1>2. Cardinality(Sink!Landed \cup S) \in Nat
  <2>1. Sink!Landed \cup S \in SUBSET (1 .. Records) /\ Records \in Nat
    BY SinkNumbers DEF SinkInv, SinkTypes, Sink!Landed
  <2> QED
    BY <2>1, RowSet
<1>3. /\ report' \in [how : {"plain", "failed"}, count : Nat]
      /\ report'.count <= Cardinality(Sink!Landed \cup S)
  BY <1>1, <1>2
<1>4. reached \in 0 .. Records /\ reached' \in 0 .. Records
  BY SinkNumbers DEF SinkInv, SinkTypes
<1>5. \A P \in {packet', sending', acks'} : P \subseteq 1 .. reached' /\ Cardinality(P) <= BatchLimit
  BY <1>4 DEF SinkInv, SinkTypes
<1>6. tries' \in 0 .. Retries /\ repeats' \in 0 .. Retries /\ claimed' \in 0 .. Records
  BY DEF SinkInv, SinkTypes
<1> QED
  BY <1>3, <1>4, <1>5, <1>6, SinkEnds

(* A sink that goes on.                                                    *)
LEMMA SinkOn ==
    ASSUME SinkInv, delivering # "ended", delivering' # "ended",
           NEW S \in SUBSET (1 .. Records), SinkLands(S), doubt \subseteq doubt',
           doubt' \subseteq 1 .. Records, S \cap Sink!Landed \subseteq doubt',
           UNCHANGED <<target, column, keyed, report>>,
           target \notin {"kinesis", "sqs"} =>
             \A s \in S : \A r \in 1 .. s - 1 :
                 Sink!SameKey(r, s) => r \in Sink!Landed \cup S,
           reached' \in 0 .. Records, batches' \in Nat,
           \A P \in {packet', sending', acks'} :
               P \subseteq 1 .. reached' /\ Cardinality(P) <= BatchLimit,
           tries' \in 0 .. Retries, repeats' \in 0 .. Retries, claimed' \in 0 .. Records,
           delivering' \in {"read", "call", "confirm"},
           Sink!Landed' = Sink!Landed \cup S =>
             SinkCounts' /\ StreamingHolds' /\ CallingHolds' /\ RabbitHolds'
    PROVE  SinkInv'
<1>1. /\ log' \subseteq [row : 1 .. Records, at : Nat, turn : Nat]
      /\ \E n \in Nat : \A e \in log' : e.turn <= n
      /\ Sink!Landed' = Sink!Landed \cup S
      /\ Sink!OnceUnlessInDoubt'
  BY Lands
<1>2. SinkTypes'
  BY <1>1 DEF SinkInv, SinkTypes
<1>3. report' = [how |-> "nothing", count |-> 0]
  BY DEF SinkInv, SinkTypes
<1>4. Sink!DeliveredAll'
  BY <1>3 DEF Sink!DeliveredAll
<1>5. Sink!NeverOverclaims'
  <2>1. Sink!Landed' \in SUBSET (1 .. Records) /\ Records \in Nat
    BY <1>1, SinkNumbers DEF SinkInv, SinkTypes, Sink!Landed
  <2>2. Cardinality(Sink!Landed') \in Nat
    BY <2>1, RowSet
  <2> QED
    BY <1>3, <2>2, SinkCard DEF Sink!NeverOverclaims
<1>6. KeysInPlace' /\ Sink!KeyOrder'
  BY LandsInOrder DEF SinkInv, SinkGoes
<1> QED
  BY <1>1, <1>2, <1>4, <1>5, <1>6 DEF SinkInv, SinkGoes

-----------------------------------------------------------------------------
LEMMA AcksAreOut == ASSUME SinkInv, delivering # "ended" PROVE acks \cap Sink!Landed = {}
<1>1. target \in Sink!Streaming \cup Sink!Calling \cup {"rabbitmq"}
  BY DEF SinkInv, SinkTypes, Sink!Sinks
<1>2. StreamingHolds /\ CallingHolds /\ RabbitHolds
  BY DEF SinkInv, SinkGoes
<1> QED
  BY <1>1, <1>2 DEF StreamingHolds, CallingHolds, RabbitHolds

LEMMA SinkRows ==
    ASSUME SinkInv
    PROVE  /\ Records \in Nat /\ reached \in Nat /\ reached <= Records
           /\ packet \subseteq 1 .. Records /\ sending \subseteq 1 .. Records
           /\ acks \subseteq 1 .. Records /\ doubt \subseteq 1 .. Records
<1>1. reached \in 0 .. Records /\ Records \in Nat
  BY SinkNumbers DEF SinkInv, SinkTypes
<1>2. packet \subseteq 1 .. reached /\ sending \subseteq 1 .. reached /\ acks \subseteq 1 .. reached
  BY DEF SinkInv, SinkTypes
<1>3. doubt \subseteq 1 .. Records
  BY DEF SinkInv, SinkTypes
<1> QED
  BY <1>1, <1>2, <1>3

LEMMA FailsReading ==
    ASSUME SinkInv, Sink!InputFails \/ Sink!RowRefused \/ Sink!RowTooLarge PROVE SinkInv'
<1>1. /\ Records \in Nat /\ reached \in Nat /\ reached <= Records
      /\ acks \subseteq 1 .. Records /\ doubt \subseteq 1 .. Records
  BY SinkRows
<1>2. delivering = "read" /\ delivering' = "ended"
  BY DEF Sink!InputFails, Sink!RowRefused, Sink!RowTooLarge, Sink!Fail
<1>3. /\ UNCHANGED <<target, column, packet, sending, acks, batches, tries, repeats, claimed, doubt>>
      /\ reached' \in {reached, reached + 1}
      /\ \/ report' = [how |-> "plain", count |-> 0]
         \/ report' = [how |-> "failed", count |-> claimed]
  BY DEF Sink!InputFails, Sink!RowRefused, Sink!RowTooLarge, Sink!Fail, Sink!Source
<1>4. reached' <= Records
  BY <1>1 DEF Sink!InputFails, Sink!RowRefused, Sink!RowTooLarge
<1>5. \E S \in SUBSET acks : SinkLands(S)
  <2>1. CASE Sink!InputFails \/ Sink!RowRefused
    <3>1. PICK S \in SUBSET acks : log' = Sink!After(S)
      BY <2>1 DEF Sink!InputFails, Sink!RowRefused
    <3> QED
      BY <3>1, LandsAfter
  <2>2. CASE Sink!RowTooLarge
    BY <2>2, LandsNothing DEF Sink!RowTooLarge
  <2> QED
    BY <2>1, <2>2
<1>6. PICK S \in SUBSET acks : SinkLands(S)
  BY <1>5
<1>7. S \in SUBSET (1 .. Records) /\ S \cap Sink!Landed \subseteq doubt'
  BY <1>1, <1>2, AcksAreOut
<1> QED
  BY <1>1, <1>2, <1>3, <1>4, <1>6, <1>7, SinkFails

LEMMA FailsCalling ==
    ASSUME SinkInv, Sink!ProduceFails \/ Sink!NatsFails \/ Sink!CallFails \/ Sink!RabbitFails
    PROVE  SinkInv'
<1>1. /\ Records \in Nat /\ reached \in Nat /\ reached <= Records /\ sending \subseteq 1 .. Records
      /\ acks \subseteq 1 .. Records /\ doubt \subseteq 1 .. Records
  BY SinkRows
<1>2. delivering # "ended" /\ delivering' = "ended"
  BY DEF Sink!ProduceFails, Sink!NatsFails, Sink!CallFails, Sink!RabbitFails, Sink!Fail
<1>3. /\ UNCHANGED <<target, column, packet, sending, acks, batches, tries, repeats, claimed>>
      /\ reached' = reached /\ report' = [how |-> "failed", count |-> claimed]
  BY DEF Sink!ProduceFails, Sink!NatsFails, Sink!CallFails, Sink!RabbitFails, Sink!Fail, Sink!Source
<1>4. \E S \in SUBSET (1 .. Records) :
        /\ SinkLands(S) /\ doubt \subseteq doubt' /\ doubt' \subseteq 1 .. Records
        /\ S \cap Sink!Landed \subseteq doubt'
  <2>1. CASE Sink!ProduceFails
    <3>1. Sink!NextProduce \in SUBSET (1 .. Records)
      BY <1>1 DEF Sink!NextProduce
    <3>2. doubt' = doubt \cup Sink!NextProduce
      BY <2>1 DEF Sink!ProduceFails
    <3>3. CASE log' = log
      <4>1. SinkLands({})
        BY <3>3, LandsNothing
      <4> QED
        BY <1>1, <3>1, <3>2, <4>1
    <3>4. CASE log' = Sink!After(Sink!NextProduce)
      <4>1. SinkLands(Sink!NextProduce)
        BY <3>4, LandsAfter
      <4> QED
        BY <1>1, <3>1, <3>2, <4>1
    <3> QED
      BY <2>1, <3>3, <3>4 DEF Sink!ProduceFails
  <2>2. CASE Sink!NatsFails
    <3> DEFINE T == IF sending = {} \/ Sink!Refuses(Sink!Min(sending)) THEN {}
                    ELSE {Sink!Min(sending)}
    <3>1. PICK S \in SUBSET (acks \cup T) : log' = Sink!After(S)
      BY <2>2 DEF Sink!NatsFails
    <3>2. T \subseteq sending
      <4>1. sending \in SUBSET Nat
        BY <1>1
      <4> QED
        BY <4>1, SinkMin
    <3> HIDE DEF T
    <3>3. (sending \cup acks) \cap Sink!Landed = {}
      BY <1>2, <2>2 DEF Sink!NatsFails, SinkInv, SinkGoes, StreamingHolds, Sink!Streaming
    <3>4. S \in SUBSET (1 .. Records) /\ S \cap Sink!Landed \subseteq doubt' /\ doubt' = doubt \cup acks
      BY <1>1, <2>2, <3>1, <3>2, <3>3 DEF Sink!NatsFails
    <3>5. SinkLands(S)
      BY <3>1, LandsAfter
    <3> QED
      BY <1>1, <3>4, <3>5
  <2>3. CASE Sink!CallFails
    <3>1. PICK S \in Sink!MayLand : log' = Sink!After(S) /\ doubt' = doubt \cup S
      BY <2>3 DEF Sink!CallFails
    <3>2. S \in SUBSET (1 .. Records)
      BY <1>1, <3>1 DEF Sink!MayLand
    <3>3. SinkLands(S)
      BY <3>1, LandsAfter
    <3> QED
      BY <1>1, <3>1, <3>2, <3>3
  <2>4. CASE Sink!RabbitFails
    <3> DEFINE T == IF delivering = "read" THEN {reached + 1} ELSE {}
    <3>1. PICK S \in SUBSET (acks \cup T) : log' = Sink!After(S) /\ doubt' = doubt \cup S
      BY <2>4 DEF Sink!RabbitFails
    <3>2. T \subseteq 1 .. Records
      BY <1>1, <2>4 DEF Sink!RabbitFails
    <3>3. S \in SUBSET (1 .. Records)
      BY <1>1, <3>1, <3>2
    <3>4. SinkLands(S)
      BY <3>1, LandsAfter
    <3> QED
      BY <1>1, <3>1, <3>3, <3>4
  <2> QED
    BY <2>1, <2>2, <2>3, <2>4
<1> QED
  BY <1>1, <1>2, <1>3, <1>4, SinkFails

(* Everything is read, and nothing is in hand.                             *)
LEMMA SinkSucceeds == ASSUME SinkInv, Sink!Succeed PROVE SinkInv'
<1>1. /\ delivering = "read" /\ reached = Records /\ packet = {} /\ acks = {}
      /\ delivering' = "ended" /\ report' = [how |-> "ok", count |-> claimed]
      /\ UNCHANGED <<target, column, keyed, reached, packet, sending, acks, batches, tries, repeats,
                     log, claimed, doubt>>
  BY DEF Sink!Succeed, Sink!Source
<1>2. sending = {}
  <2>1. target \in Sink!Streaming \cup Sink!Calling \cup {"rabbitmq"}
    BY DEF SinkInv, SinkTypes, Sink!Sinks
  <2>2. StreamingHolds /\ CallingHolds /\ RabbitHolds
    BY <1>1 DEF SinkInv, SinkGoes
  <2> QED
    BY <1>1, <2>1, <2>2 DEF StreamingHolds, CallingHolds, RabbitHolds
<1>3. SinkDone = 1 .. Records /\ SinkCounts /\ Records \in Nat
  BY <1>1, <1>2, SinkNumbers DEF SinkDone, SinkInv, SinkGoes
<1>4. Sink!Landed = 1 .. Records /\ claimed = Cardinality(1 .. Records)
  BY <1>1, <1>3 DEF SinkCounts
<1>5. Cardinality(1 .. Records) = Records
  BY <1>3, FS_Interval
<1>6. Sink!Landed' = 1 .. Records
  BY <1>1, <1>4 DEF Sink!Landed
<1>7. Sink!DeliveredAll'
  BY <1>1, <1>4, <1>5, <1>6 DEF Sink!DeliveredAll, Sink!Rows
<1>8. Sink!NeverOverclaims'
  BY <1>1, <1>3, <1>4, <1>5, <1>6, SinkCard DEF Sink!NeverOverclaims
<1>9. SinkTypes' /\ Sink!OnceUnlessInDoubt' /\ \E n \in Nat : \A e \in log' : e.turn <= n
  BY <1>1, <1>3, <1>4, <1>5 DEF SinkInv, SinkTypes, Sink!OnceUnlessInDoubt
<1> QED
  BY <1>1, <1>7, <1>8, <1>9 DEF SinkInv

-----------------------------------------------------------------------------
LEMMA SinkKinds ==
    /\ target \in Sink!Calling => target \notin Sink!Streaming /\ target # "rabbitmq"
    /\ target \in Sink!Streaming => target \notin Sink!Calling /\ target # "rabbitmq"
    /\ target = "rabbitmq" => target \notin Sink!Calling /\ target \notin Sink!Streaming
BY DEF Sink!Calling, Sink!Streaming

LEMMA SinkNow ==
    ASSUME SinkInv, delivering # "ended"
    PROVE  /\ SinkCounts /\ StreamingHolds /\ CallingHolds /\ RabbitHolds
           /\ Records \in Nat /\ reached \in Nat /\ reached <= Records /\ reached \in 0 .. Records
           /\ packet \in SUBSET (1 .. reached) /\ sending \in SUBSET (1 .. reached)
           /\ acks \in SUBSET (1 .. reached) /\ doubt \subseteq 1 .. Records
           /\ Cardinality(packet) <= BatchLimit /\ Cardinality(sending) <= BatchLimit
           /\ Cardinality(acks) <= BatchLimit
           /\ Cardinality(packet) \in Nat /\ Cardinality(sending) \in Nat /\ Cardinality(acks) \in Nat
           /\ tries \in 0 .. Retries /\ repeats \in 0 .. Retries /\ claimed \in 0 .. Records
           /\ batches \in Nat /\ BatchLimit \in Nat \ {0} /\ Retries \in Nat
           /\ 1 .. reached \subseteq 1 .. Records
           /\ Cardinality({}) = 0 /\ Cardinality({}) <= BatchLimit
<1>1. SinkCounts /\ StreamingHolds /\ CallingHolds /\ RabbitHolds
  BY DEF SinkInv, SinkGoes
<1>2. /\ reached \in 0 .. Records /\ Records \in Nat /\ BatchLimit \in Nat \ {0} /\ Retries \in Nat
      /\ tries \in 0 .. Retries /\ repeats \in 0 .. Retries /\ claimed \in 0 .. Records
      /\ batches \in Nat /\ doubt \subseteq 1 .. Records
  BY SinkNumbers DEF SinkInv, SinkTypes
<1>3. /\ packet \in SUBSET (1 .. reached) /\ sending \in SUBSET (1 .. reached)
      /\ acks \in SUBSET (1 .. reached)
      /\ Cardinality(packet) <= BatchLimit /\ Cardinality(sending) <= BatchLimit
      /\ Cardinality(acks) <= BatchLimit
  BY DEF SinkInv, SinkTypes
<1>4. reached \in Nat /\ reached <= Records
  BY <1>2
<1>5. Cardinality(packet) \in Nat /\ Cardinality(sending) \in Nat /\ Cardinality(acks) \in Nat
  BY <1>3, <1>4, RowSet
<1>6. 1 .. reached \subseteq 1 .. Records
  BY <1>2
<1>7. Cardinality({}) = 0 /\ Cardinality({}) <= BatchLimit
  BY <1>2, FS_EmptySet
<1> QED
  BY <1>1, <1>2, <1>3, <1>4, <1>5, <1>6, <1>7

LEMMA OneRow == ASSUME NEW x PROVE Cardinality({x}) = 1
BY FS_Singleton

(* A row is read into the batch, or the batch is sent.                     *)
LEMMA SinkReads ==
    ASSUME SinkInv, target \in Sink!Calling, Sink!ReadRow \/ Sink!ReadEnd PROVE SinkInv'
<1>1. /\ delivering = "read" /\ delivering' \in {"read", "call"}
      /\ UNCHANGED <<target, column, keyed, acks, batches, tries, repeats, log, claimed, doubt, report>>
  BY DEF Sink!ReadRow, Sink!ReadEnd, Sink!Source
<1>2. /\ SinkCounts /\ CallingHolds /\ reached \in Nat /\ reached <= Records /\ Records \in Nat
      /\ packet \in SUBSET (1 .. reached) /\ acks = {} /\ sending = {}
      /\ packet \cap Sink!Landed = {} /\ BatchLimit \in Nat \ {0} /\ doubt \subseteq 1 .. Records
      /\ Cardinality(packet) \in Nat /\ Cardinality(packet) <= BatchLimit
      /\ tries \in 0 .. Retries /\ repeats \in 0 .. Retries /\ claimed \in 0 .. Records
      /\ batches \in Nat
  BY <1>1, SinkNow DEF CallingHolds
<1>3. Sink!Landed \subseteq 1 .. reached /\ SinkDone \subseteq Sink!Landed
      /\ claimed = Cardinality(SinkDone)
  BY <1>2 DEF SinkCounts
<1>4. SinkLands({}) /\ Sink!Landed' = Sink!Landed
  BY <1>1, LandsNothing DEF Sink!Landed
<1>5. /\ reached' \in {reached, reached + 1} /\ reached' <= Records
      /\ \/ /\ packet' = packet \cup {reached + 1} /\ reached' = reached + 1 /\ sending' = {}
            /\ delivering' = "read" /\ Cardinality(packet) < BatchLimit
         \/ /\ packet' = {reached + 1} /\ reached' = reached + 1 /\ sending' = packet
            /\ delivering' = "call" /\ packet # {}
         \/ /\ packet' = {} /\ reached' = reached /\ sending' = packet
            /\ delivering' = "call" /\ packet # {}
  <2>1. CASE Sink!ReadRow
    BY <1>1, <1>2, <2>1, SinkCard DEF Sink!ReadRow
  <2>2. CASE Sink!ReadEnd
    BY <1>1, <1>2, <2>2 DEF Sink!ReadEnd
  <2> QED
    BY <2>1, <2>2
<1> DEFINE n == reached + 1
           A == packet' = packet \cup {n} /\ reached' = n /\ sending' = {}
           B == packet' = {n} /\ reached' = n /\ sending' = packet
           C == packet' = {} /\ reached' = reached /\ sending' = packet
<1>a. A \/ B \/ C
  BY <1>5
<1>b. n \in Nat /\ n > reached /\ n \notin packet /\ n \notin Sink!Landed /\ n \in 1 .. n
      /\ packet \subseteq 1 .. n /\ \A r \in packet : r < n
  BY <1>2, <1>3
<1>6. /\ reached' \in Nat /\ reached' \in 0 .. Records
      /\ packet' \subseteq 1 .. reached' /\ sending' \subseteq 1 .. reached' /\ acks' = {}
  <2>1. reached' \in Nat /\ reached' \in 0 .. Records /\ acks' = {}
    BY <1>1, <1>2, <1>5
  <2> HIDE DEF n
  <2>2. CASE A
    BY <1>b, <2>1, <2>2
  <2>3. CASE B
    BY <1>b, <2>1, <2>3
  <2>4. CASE C
    BY <1>2, <2>1, <2>4
  <2> QED
    BY <1>a, <2>2, <2>3, <2>4
<1>7. Cardinality(packet') <= BatchLimit /\ Cardinality(sending') <= BatchLimit
      /\ Cardinality(acks') <= BatchLimit
  <2>1. Cardinality(packet \cup {reached + 1}) = Cardinality(packet) + 1
    <3>1. reached + 1 \notin packet
      BY <1>2
    <3> QED
      BY <1>2, <3>1, RowAdd
  <2>2. Cardinality({}) = 0 /\ Cardinality({reached + 1}) = 1
    BY OneRow, FS_EmptySet
  <2>3. CASE A
    <3>1. Cardinality(packet) < BatchLimit
      <4>1. packet' # {n} \/ sending' # packet \/ packet = {}
        BY <1>b, <2>3
      <4> QED
        BY <1>5, <1>b, <2>3
    <3> QED
      BY <1>2, <1>6, <2>1, <2>2, <2>3, <3>1
  <2>4. CASE B
    BY <1>2, <1>6, <2>2, <2>4
  <2>5. CASE C
    BY <1>2, <1>6, <2>2, <2>5
  <2> QED
    BY <1>a, <2>3, <2>4, <2>5
<1>8. SinkDone' = SinkDone
  BY <1>2, <1>5, <1>6 DEF SinkDone
<1>9. SinkCounts'
  BY <1>1, <1>2, <1>3, <1>4, <1>5, <1>8 DEF SinkCounts
<1>10. CallingHolds'
  <2>1. packet' \cap Sink!Landed = {}
    <3> HIDE DEF n
    <3> QED
      BY <1>2, <1>a, <1>b
  <2>2. sending' \cap Sink!Landed = {}
    BY <1>2, <1>5
  <2>3. \A r \in sending', q \in packet' : r < q
    <3> HIDE DEF n
    <3>1. CASE A
      BY <3>1
    <3>2. CASE B
      BY <1>b, <3>2
    <3>3. CASE C
      BY <3>3
    <3> QED
      BY <1>a, <3>1, <3>2, <3>3
  <2> QED
    BY <1>4, <1>5, <1>6, <2>1, <2>2, <2>3 DEF CallingHolds
<1>11. StreamingHolds' /\ RabbitHolds'
  BY <1>1, SinkKinds DEF StreamingHolds, RabbitHolds
<1>12. \A P \in {packet', sending', acks'} : P \subseteq 1 .. reached' /\ Cardinality(P) <= BatchLimit
  BY <1>6, <1>7
<1> DEFINE S == {}
<1>13. S \in SUBSET (1 .. Records) /\ SinkLands(S) /\ S \cap Sink!Landed \subseteq doubt'
       /\ \A q \in S : \A r \in 1 .. q - 1 : Sink!SameKey(r, q) => r \in Sink!Landed \cup S
  BY <1>4
<1> HIDE DEF S
<1> QED
  BY <1>1, <1>2, <1>6, <1>9, <1>10, <1>11, <1>12, <1>13, SinkOn

(* Kafka and NATS take a batch.                                            *)
LEMMA SinkTakes == ASSUME SinkInv, Sink!TakeBatch PROVE SinkInv'
<1> DEFINE R == packet \cup {reached + 1}
<1>1. /\ delivering = "read" /\ target \in Sink!Streaming /\ reached < Records
      /\ reached' = reached + 1 /\ packet' = R
      /\ UNCHANGED <<target, column, keyed, acks, batches, tries, repeats, log, claimed, doubt>>
  BY DEF Sink!TakeBatch, Sink!Source
<1>2. /\ SinkCounts /\ StreamingHolds /\ reached \in Nat /\ reached <= Records /\ Records \in Nat
      /\ packet \in SUBSET (1 .. reached) /\ acks = {} /\ sending = {}
      /\ packet \cap Sink!Landed = {} /\ Cardinality(packet) < BatchLimit
      /\ BatchLimit \in Nat \ {0} /\ doubt \subseteq 1 .. Records
      /\ Cardinality(packet) \in Nat
      /\ tries \in 0 .. Retries /\ repeats \in 0 .. Retries /\ claimed \in 0 .. Records
      /\ batches \in Nat
  BY <1>1, SinkNow DEF StreamingHolds
<1>3. Sink!Landed \subseteq 1 .. reached /\ SinkDone \subseteq Sink!Landed
      /\ claimed = Cardinality(SinkDone)
  BY <1>2 DEF SinkCounts
<1>4. SinkLands({}) /\ Sink!Landed' = Sink!Landed
  BY <1>1, LandsNothing DEF Sink!Landed
<1>5. /\ R \subseteq 1 .. reached' /\ R \cap Sink!Landed = {}
      /\ reached' \in 0 .. Records /\ reached' \in Nat
  BY <1>1, <1>2, <1>3
<1>6. Cardinality(R) = Cardinality(packet) + 1 /\ Cardinality({}) = 0
  <2>1. reached + 1 \notin packet
    BY <1>2
  <2> QED
    BY <1>2, <2>1, RowAdd, FS_EmptySet
<1> HIDE DEF R
<1>7. Cardinality(R) \in Nat /\ Cardinality(R) <= BatchLimit
  BY <1>2, <1>6
<1> DEFINE S == {}
<1>8. S \in SUBSET (1 .. Records) /\ SinkLands(S) /\ S \cap Sink!Landed \subseteq doubt'
      /\ \A q \in S : \A r \in 1 .. q - 1 : Sink!SameKey(r, q) => r \in Sink!Landed \cup S
  BY <1>4
<1> HIDE DEF S
<1>9. \/ Cardinality(R) < BatchLimit /\ sending' = sending /\ delivering' = "read" /\ report' = report
      \/ sending' = sending /\ delivering' = "ended" /\ report' = [how |-> "failed", count |-> claimed]
      \/ sending' = R /\ delivering' = "call" /\ report' = report
  BY <1>1, SinkCard DEF Sink!TakeBatch, Sink!Fail, R
<1>10. \A P \in {packet', sending', acks'} : P \subseteq 1 .. reached' /\ Cardinality(P) <= BatchLimit
  <2>1. packet' = R /\ acks' = {} /\ sending' \in {{}, R}
    BY <1>1, <1>2, <1>9
  <2>2. R \subseteq 1 .. reached' /\ Cardinality(R) <= BatchLimit
    BY <1>5, <1>7
  <2>3. {} \subseteq 1 .. reached' /\ Cardinality({}) <= BatchLimit
    BY <1>2, <1>6
  <2> QED
    BY <2>1, <2>2, <2>3
<1>11. CASE delivering' = "ended"
  <2>1. claimed \in Nat /\ claimed <= Cardinality(Sink!Landed \cup S)
    BY <1>1, <1>8, CountIsThere
  <2>2. /\ report' \in [how : {"plain", "failed"}, count : Nat]
        /\ report'.count <= Cardinality(Sink!Landed \cup S)
    BY <1>9, <1>11, <2>1
  <2> QED
    BY <1>1, <1>2, <1>5, <1>8, <1>10, <1>11, <2>2, SinkEnds
<1>12. CASE delivering' # "ended"
  <2>1. SinkDone' = SinkDone
    BY <1>1, <1>2, <1>9, <1>12 DEF SinkDone, R
  <2>2. SinkCounts'
    BY <1>1, <1>2, <1>3, <1>4, <2>1 DEF SinkCounts
  <2>3. StreamingHolds'
    <3>1. /\ sending' \cup acks' \subseteq packet' /\ sending' \cap acks' = {}
          /\ (sending' \cup acks') \cap Sink!Landed' = {} /\ acks' = {}
      BY <1>1, <1>2, <1>4, <1>5, <1>9, <1>12
    <3>2. CASE delivering' = "read"
      <4>1. sending' = {} /\ packet' \cap Sink!Landed' = {} /\ Cardinality(packet') < BatchLimit
        BY <1>1, <1>2, <1>4, <1>5, <1>9, <3>2
      <4> QED
        BY <3>1, <3>2, <4>1 DEF StreamingHolds
    <3>3. CASE delivering' = "call"
      <4>1. sending' = R /\ packet' = R
        BY <1>1, <1>9, <3>3
      <4>2. R # {}
        BY DEF R
      <4> QED
        BY <3>1, <3>3, <4>1, <4>2 DEF StreamingHolds
    <3> QED
      BY <1>9, <1>12, <3>2, <3>3
  <2>4. CallingHolds' /\ RabbitHolds'
    BY <1>1, SinkKinds DEF CallingHolds, RabbitHolds
  <2>5. report' = report /\ delivering' \in {"read", "call", "confirm"}
    BY <1>9, <1>12
  <2> QED
    BY <1>1, <1>2, <1>5, <1>8, <1>10, <1>12, <2>2, <2>3, <2>4, <2>5, SinkOn
<1> QED
  BY <1>11, <1>12

(* Nothing is read, and what lands is in hand.                             *)
LEMMA KeepsOrder ==
    ASSUME SinkInv, delivering # "ended", NEW S \in SUBSET (1 .. reached),
           \A s \in S : \A r \in (packet \cup sending \cup acks) \ (Sink!Landed \cup S) :
               r < s => ~Sink!SameKey(r, s)
    PROVE  \A s \in S : \A r \in 1 .. s - 1 : Sink!SameKey(r, s) => r \in Sink!Landed \cup S
<1>1. SinkDone \subseteq Sink!Landed /\ reached \in Nat
  BY SinkNow DEF SinkCounts
<1> SUFFICES ASSUME NEW s \in S, NEW r \in 1 .. s - 1, Sink!SameKey(r, s)
             PROVE  r \in Sink!Landed \cup S
  OBVIOUS
<1>2. r \in 1 .. reached /\ r < s
  BY <1>1
<1>3. r \in SinkDone \/ r \in packet \cup sending \cup acks
  BY <1>2 DEF SinkDone
<1> QED
  BY <1>1, <1>2, <1>3

(* Kafka: the next partition's rows.                                       *)
LEMMA SinkProduces == ASSUME SinkInv, Sink!Produce PROVE SinkInv'
<1> DEFINE S == Sink!NextProduce
           unsent == sending \ S
<1>1. /\ delivering = "call" /\ target = "kafka" /\ sending' = unsent
      /\ UNCHANGED <<target, column, keyed, reached, acks, tries, repeats, report>>
      /\ doubt' \in {doubt, doubt \cup S}
      /\ \/ /\ unsent = {} /\ delivering' = "read" /\ packet' = {} /\ batches' = batches + 1
            /\ claimed' = claimed + Cardinality(packet)
         \/ /\ unsent # {} /\ UNCHANGED <<delivering, packet, batches, claimed>>
  BY SinkCard DEF Sink!Produce, Sink!Source
<1>2. /\ SinkCounts /\ StreamingHolds /\ reached \in Nat /\ reached <= Records /\ Records \in Nat
      /\ packet \in SUBSET (1 .. reached) /\ sending \in SUBSET (1 .. reached)
      /\ BatchLimit \in Nat \ {0} /\ doubt \subseteq 1 .. Records
      /\ Cardinality(packet) \in Nat /\ Cardinality(packet) <= BatchLimit
      /\ Cardinality(sending) <= BatchLimit /\ Cardinality(sending) \in Nat
      /\ tries \in 0 .. Retries /\ repeats \in 0 .. Retries /\ claimed \in 0 .. Records
      /\ batches \in Nat /\ reached \in 0 .. Records /\ 1 .. reached \subseteq 1 .. Records
      /\ Cardinality({}) = 0 /\ Cardinality({}) <= BatchLimit
  BY <1>1, SinkNow
<1>3. /\ acks = {} /\ sending \subseteq packet /\ sending \cap Sink!Landed = {}
      /\ packet \ sending \subseteq Sink!Landed
      /\ \A r \in sending, q \in packet \ sending : Sink!PlaceOf(r) # Sink!PlaceOf(q)
  BY <1>1, <1>2 DEF StreamingHolds, Sink!Streaming
<1>4. Sink!Landed \subseteq 1 .. reached /\ SinkDone \subseteq Sink!Landed
      /\ claimed = Cardinality(SinkDone)
  BY <1>2 DEF SinkCounts
<1>5. /\ S \subseteq sending
      /\ \A r \in sending \ S, q \in S : Sink!PlaceOf(r) # Sink!PlaceOf(q)
  BY DEF Sink!NextProduce
<1>6. SinkLands(S)
  <2>1. CASE log' = Sink!After(S)
    BY <2>1, LandsAfter
  <2>2. CASE log' = Sink!After(S) \cup {Sink!Entry(r, Sink!Turn + 2) : r \in S}
             /\ doubt' = doubt \cup S
    BY <2>2, LandsTwice
  <2> QED
    BY <2>1, <2>2 DEF Sink!Produce
<1> HIDE DEF S
<1>7. S \in SUBSET (1 .. reached) /\ S \in SUBSET (1 .. Records) /\ S \cap Sink!Landed = {}
  BY <1>2, <1>3, <1>5
<1>8. \A s \in S : \A r \in 1 .. s - 1 : Sink!SameKey(r, s) => r \in Sink!Landed \cup S
  <2>1. \A s \in S : \A r \in (packet \cup sending \cup acks) \ (Sink!Landed \cup S) :
          r < s => ~Sink!SameKey(r, s)
    <3> TAKE s \in S
    <3> TAKE r \in (packet \cup sending \cup acks) \ (Sink!Landed \cup S)
    <3>1. r \in sending \ S
      BY <1>3
    <3>2. Sink!PlaceOf(r) # Sink!PlaceOf(s)
      BY <1>5, <3>1
    <3> QED
      BY <3>2, KeyPlace
  <2> QED
    BY <1>1, <1>7, <2>1, KeepsOrder
<1>9. unsent \in SUBSET (1 .. reached) /\ Cardinality(unsent) <= BatchLimit
  <2>1. unsent \in SUBSET sending
    OBVIOUS
  <2>2. Cardinality(unsent) \in Nat /\ Cardinality(unsent) <= Cardinality(sending)
    BY <1>2, <2>1, RowPart
  <2>3. unsent \in SUBSET (1 .. reached)
    BY <1>2, <2>1
  <2> HIDE DEF unsent
  <2>4. Cardinality(unsent) <= BatchLimit
    BY <1>2, <2>2
  <2> QED
    BY <2>3, <2>4
<1>10. doubt \subseteq doubt' /\ doubt' \subseteq 1 .. Records /\ S \cap Sink!Landed \subseteq doubt'
  BY <1>1, <1>2, <1>7
<1>11. CASE unsent = {}
  <2>1. /\ delivering' = "read" /\ packet' = {} /\ batches' = batches + 1
        /\ claimed' = claimed + Cardinality(packet) /\ sending' = {} /\ acks' = {}
    BY <1>1, <1>3, <1>11
  <2>2. SinkDone' = SinkDone \cup packet /\ SinkDone \cap packet = {}
        /\ SinkDone \in SUBSET (1 .. reached)
    BY <1>1, <1>2, <1>3, <2>1 DEF SinkDone
  <2>3. Cardinality(SinkDone') = claimed'
    <3> DEFINE B == SinkDone
    <3>1. /\ reached \in Nat /\ B \in SUBSET (1 .. reached) /\ packet \in SUBSET (1 .. reached)
          /\ B \cap packet = {} /\ claimed = Cardinality(B) /\ SinkDone' = B \cup packet
      BY <1>2, <1>4, <2>2
    <3> HIDE DEF B
    <3>2. Cardinality(B \cup packet) = Cardinality(B) + Cardinality(packet)
      BY <3>1, RowSum
    <3> QED
      BY <2>1, <3>1, <3>2
  <2>4. claimed' \in 0 .. Records
    <3>1. SinkDone' \in SUBSET (1 .. reached)
      BY <1>2, <2>2
    <3>2. Cardinality(SinkDone') \in Nat /\ Cardinality(SinkDone') <= reached
      BY <1>2, <3>1, RowSet
    <3> QED
      BY <1>2, <2>3, <3>2
  <2>5. ASSUME Sink!Landed' = Sink!Landed \cup S
        PROVE  SinkCounts' /\ StreamingHolds'
    <3>1. packet \subseteq Sink!Landed'
      BY <1>3, <1>11, <2>5
    <3>2. SinkDone' \subseteq Sink!Landed' /\ Sink!Landed' \subseteq 1 .. reached'
      BY <1>1, <1>4, <1>7, <2>2, <2>5, <3>1
    <3>3. SinkCounts'
      BY <2>3, <3>2 DEF SinkCounts
    <3>4. StreamingHolds'
      BY <1>2, <1>9, <2>1 DEF StreamingHolds
    <3> QED
      BY <3>3, <3>4
  <2>6. CallingHolds' /\ RabbitHolds'
    BY <1>1 DEF CallingHolds, RabbitHolds, Sink!Calling
  <2>7. \A P \in {packet', sending', acks'} : P \subseteq 1 .. reached' /\ Cardinality(P) <= BatchLimit
    BY <1>2, <2>1
  <2>8. batches' \in Nat
    BY <1>2, <2>1
  <2> QED
    BY <1>1, <1>2, <1>6, <1>7, <1>8, <1>10, <2>1, <2>4, <2>5, <2>6, <2>7, <2>8, SinkOn
<1>12. CASE unsent # {}
  <2>1. UNCHANGED <<delivering, packet, batches, claimed, acks>> /\ sending' = unsent
    BY <1>1, <1>12
  <2>2. SinkDone' = SinkDone
    BY <1>1, <1>3, <2>1 DEF SinkDone
  <2>3. \A r : Sink!PlaceOf(r)' = Sink!PlaceOf(r)
    BY <1>1, <2>1 DEF Sink!PlaceOf, Sink!KafkaPlace, Sink!Keyless, Sink!KeyOf, Sink!PartitionFor,
         Sink!Null
  <2>4. ASSUME Sink!Landed' = Sink!Landed \cup S
        PROVE  SinkCounts' /\ StreamingHolds'
    <3>1. SinkCounts'
      BY <1>1, <1>4, <1>7, <2>1, <2>2, <2>4 DEF SinkCounts
    <3>2. packet' \ sending' \subseteq Sink!Landed' /\ sending' \cap Sink!Landed' = {}
          /\ sending' \subseteq packet' /\ sending' # {} /\ acks' = {} /\ delivering' = "call"
      BY <1>1, <1>3, <1>12, <2>1, <2>4
    <3>3. \A r \in unsent, q \in packet \ unsent : Sink!PlaceOf(r) # Sink!PlaceOf(q)
      BY <1>3, <1>5
    <3>4. \A r \in sending', q \in packet' \ sending' : Sink!PlaceOf(r)' # Sink!PlaceOf(q)'
      BY <2>1, <2>3, <3>3
    <3>5. StreamingHolds'
      BY <3>2, <3>4 DEF StreamingHolds
    <3> QED
      BY <3>1, <3>5
  <2>5. CallingHolds' /\ RabbitHolds'
    BY <1>1 DEF CallingHolds, RabbitHolds, Sink!Calling
  <2>6. \A P \in {packet', sending', acks'} : P \subseteq 1 .. reached' /\ Cardinality(P) <= BatchLimit
    BY <1>1, <1>2, <1>3, <1>9, <2>1
  <2> QED
    BY <1>1, <1>2, <1>6, <1>7, <1>8, <1>10, <2>1, <2>4, <2>5, <2>6, SinkOn
<1> QED
  BY <1>11, <1>12

(* NATS: published ...                                                     *)
LEMMA SinkPublishes == ASSUME SinkInv, Sink!NatsPublish PROVE SinkInv'
<1> DEFINE m == Sink!Min(sending)
<1>1. /\ delivering = "call" /\ delivering' = "call" /\ target = "nats" /\ sending # {}
      /\ acks' = acks \cup {m} /\ sending' = sending \ {m}
      /\ UNCHANGED <<target, column, keyed, reached, packet, batches, tries, repeats, log, claimed,
                     doubt, report>>
  BY DEF Sink!NatsPublish, Sink!Source
<1>2. /\ SinkCounts /\ StreamingHolds /\ reached \in Nat /\ reached <= Records /\ Records \in Nat
      /\ packet \in SUBSET (1 .. reached) /\ sending \in SUBSET (1 .. reached)
      /\ BatchLimit \in Nat \ {0} /\ doubt \subseteq 1 .. Records
      /\ Cardinality(packet) \in Nat /\ Cardinality(packet) <= BatchLimit
      /\ tries \in 0 .. Retries /\ repeats \in 0 .. Retries /\ claimed \in 0 .. Records
      /\ batches \in Nat /\ reached \in 0 .. Records
  BY <1>1, SinkNow
<1>3. /\ sending \cup acks \subseteq packet /\ sending \cap acks = {}
      /\ (sending \cup acks) \cap Sink!Landed = {}
      /\ packet \ (sending \cup acks) \subseteq Sink!Landed
  BY <1>1, <1>2 DEF StreamingHolds, Sink!Streaming
<1>4. m \in sending
  <2>1. sending \in SUBSET Nat
    BY <1>2
  <2> QED
    BY <1>1, <2>1, SinkMin
<1> HIDE DEF m
<1>5. sending' \cup acks' = sending \cup acks /\ sending' \cap acks' = {}
  BY <1>1, <1>3, <1>4
<1>6. sending' \in SUBSET packet /\ acks' \in SUBSET packet
  BY <1>3, <1>5
<1>7. Cardinality(sending') <= BatchLimit /\ Cardinality(acks') <= BatchLimit
  <2> DEFINE p == sending'
             q == acks'
  <2>0. p \in SUBSET packet /\ q \in SUBSET packet
    BY <1>6
  <2> HIDE DEF p, q
  <2>1. /\ Cardinality(p) \in Nat /\ Cardinality(p) <= Cardinality(packet)
        /\ Cardinality(q) \in Nat /\ Cardinality(q) <= Cardinality(packet)
    BY <1>2, <2>0, RowPart
  <2>2. Cardinality(p) <= BatchLimit /\ Cardinality(q) <= BatchLimit
    BY <1>2, <2>1
  <2> QED
    BY <2>2 DEF p, q
<1>8. \A P \in {packet', sending', acks'} : P \subseteq 1 .. reached' /\ Cardinality(P) <= BatchLimit
  BY <1>1, <1>2, <1>6, <1>7
<1>9. Sink!Landed' = Sink!Landed
  BY <1>1 DEF Sink!Landed
<1>10. SinkDone' = SinkDone
  BY <1>1, <1>5 DEF SinkDone
<1>11. SinkCounts'
  BY <1>1, <1>2, <1>9, <1>10 DEF SinkCounts
<1>12. StreamingHolds'
  BY <1>1, <1>3, <1>4, <1>5, <1>9 DEF StreamingHolds
<1>13. CallingHolds' /\ RabbitHolds'
  BY <1>1 DEF CallingHolds, RabbitHolds, Sink!Calling
<1> DEFINE S == {}
<1>14. S \in SUBSET (1 .. Records) /\ SinkLands(S) /\ S \cap Sink!Landed \subseteq doubt'
       /\ \A q \in S : \A r \in 1 .. q - 1 : Sink!SameKey(r, q) => r \in Sink!Landed \cup S
  BY <1>1, LandsNothing
<1> HIDE DEF S
<1> QED
  BY <1>1, <1>2, <1>8, <1>11, <1>12, <1>13, <1>14, SinkOn

(* ... and acknowledged, in order.                                         *)
LEMMA SinkAcks == ASSUME SinkInv, Sink!NatsAck PROVE SinkInv'
<1> DEFINE m == Sink!Min(acks)
           S == {m}
           open == acks \ {m}
<1>1. /\ delivering = "call" /\ target = "nats" /\ sending = {} /\ acks' = open
      /\ UNCHANGED <<target, column, keyed, reached, sending, tries, repeats, doubt, report>>
      /\ log' = Sink!After(S)
      /\ \/ /\ open = {} /\ delivering' = "read" /\ packet' = {} /\ batches' = batches + 1
            /\ claimed' = claimed + Cardinality(packet)
         \/ /\ open # {} /\ UNCHANGED <<delivering, packet, batches, claimed>>
  BY SinkCard DEF Sink!NatsAck, Sink!Source
<1>2. /\ SinkCounts /\ StreamingHolds /\ reached \in Nat /\ reached <= Records /\ Records \in Nat
      /\ packet \in SUBSET (1 .. reached) /\ acks \in SUBSET (1 .. reached)
      /\ BatchLimit \in Nat \ {0} /\ doubt \subseteq 1 .. Records
      /\ Cardinality(packet) \in Nat /\ Cardinality(packet) <= BatchLimit
      /\ Cardinality(acks) <= BatchLimit /\ Cardinality(acks) \in Nat
      /\ tries \in 0 .. Retries /\ repeats \in 0 .. Retries /\ claimed \in 0 .. Records
      /\ batches \in Nat /\ reached \in 0 .. Records /\ 1 .. reached \subseteq 1 .. Records
      /\ Cardinality({}) = 0 /\ Cardinality({}) <= BatchLimit
  BY <1>1, SinkNow
<1>3. /\ acks # {} /\ acks \subseteq packet /\ acks \cap Sink!Landed = {}
      /\ packet \ acks \subseteq Sink!Landed
  BY <1>1, <1>2 DEF StreamingHolds, Sink!Streaming
<1>4. Sink!Landed \subseteq 1 .. reached /\ SinkDone \subseteq Sink!Landed
      /\ claimed = Cardinality(SinkDone)
  BY <1>2 DEF SinkCounts
<1>5. m \in acks /\ \A r \in acks : m =< r /\ m \in Nat /\ r \in Nat
  <2>1. acks \in SUBSET Nat
    BY <1>2
  <2>2. m \in acks /\ \A r \in acks : m =< r
    BY <1>3, <2>1, SinkMin
  <2> QED
    BY <2>1, <2>2
<1>6. SinkLands(S)
  BY <1>1, LandsAfter
<1> HIDE DEF m
<1>7. S \in SUBSET (1 .. reached) /\ S \in SUBSET (1 .. Records) /\ S \cap Sink!Landed = {}
  BY <1>2, <1>3, <1>5
<1>8. \A s \in S : \A r \in 1 .. s - 1 : Sink!SameKey(r, s) => r \in Sink!Landed \cup S
  <2>1. \A s \in S : \A r \in (packet \cup sending \cup acks) \ (Sink!Landed \cup S) :
          r < s => ~Sink!SameKey(r, s)
    BY <1>1, <1>3, <1>5
  <2> HIDE DEF S
  <2> QED
    BY <1>1, <1>7, <2>1, KeepsOrder
<1>9. open \in SUBSET (1 .. reached) /\ Cardinality(open) <= BatchLimit
  <2>1. open \in SUBSET acks
    OBVIOUS
  <2>2. open \in SUBSET (1 .. reached)
    BY <1>2
  <2> HIDE DEF open
  <2>3. Cardinality(open) \in Nat /\ Cardinality(open) <= Cardinality(acks)
    BY <1>2, <2>1, RowPart
  <2>4. Cardinality(open) <= BatchLimit
    BY <1>2, <2>3
  <2> QED
    BY <2>2, <2>4
<1>10. S \cap Sink!Landed \subseteq doubt'
  BY <1>7
<1>11. CASE open = {}
  <2>1. /\ delivering' = "read" /\ packet' = {} /\ batches' = batches + 1
        /\ claimed' = claimed + Cardinality(packet) /\ sending' = {} /\ acks' = {}
    BY <1>1, <1>11
  <2>2. SinkDone' = SinkDone \cup packet /\ SinkDone \cap packet = {}
        /\ SinkDone \in SUBSET (1 .. reached)
    BY <1>1, <1>2, <1>3, <2>1 DEF SinkDone
  <2>3. Cardinality(SinkDone') = claimed'
    <3> DEFINE B == SinkDone
    <3>1. /\ reached \in Nat /\ B \in SUBSET (1 .. reached) /\ packet \in SUBSET (1 .. reached)
          /\ B \cap packet = {} /\ claimed = Cardinality(B) /\ SinkDone' = B \cup packet
      BY <1>2, <1>4, <2>2
    <3> HIDE DEF B
    <3>2. Cardinality(B \cup packet) = Cardinality(B) + Cardinality(packet)
      BY <3>1, RowSum
    <3> QED
      BY <2>1, <3>1, <3>2
  <2>4. claimed' \in 0 .. Records
    <3>1. SinkDone' \in SUBSET (1 .. reached)
      BY <1>2, <2>2
    <3>2. Cardinality(SinkDone') \in Nat /\ Cardinality(SinkDone') <= reached
      BY <1>2, <3>1, RowSet
    <3> QED
      BY <1>2, <2>3, <3>2
  <2>5. ASSUME Sink!Landed' = Sink!Landed \cup S
        PROVE  SinkCounts' /\ StreamingHolds'
    <3>1. packet \subseteq Sink!Landed'
      BY <1>3, <1>11, <2>5
    <3>2. SinkDone' \subseteq Sink!Landed' /\ Sink!Landed' \subseteq 1 .. reached'
      BY <1>1, <1>4, <1>7, <2>2, <2>5, <3>1
    <3>3. SinkCounts'
      BY <2>3, <3>2 DEF SinkCounts
    <3>4. StreamingHolds'
      BY <1>2, <2>1 DEF StreamingHolds
    <3> QED
      BY <3>3, <3>4
  <2>6. CallingHolds' /\ RabbitHolds'
    BY <1>1 DEF CallingHolds, RabbitHolds, Sink!Calling
  <2>7. \A P \in {packet', sending', acks'} : P \subseteq 1 .. reached' /\ Cardinality(P) <= BatchLimit
    BY <1>2, <2>1
  <2>8. batches' \in Nat
    BY <1>2, <2>1
  <2> HIDE DEF S
  <2> QED
    BY <1>1, <1>2, <1>6, <1>7, <1>8, <1>10, <2>1, <2>4, <2>5, <2>6, <2>7, <2>8, SinkOn
<1>12. CASE open # {}
  <2>1. UNCHANGED <<delivering, packet, batches, claimed, sending>> /\ acks' = open
    BY <1>1, <1>12
  <2>2. SinkDone' = SinkDone
    BY <1>1, <1>3, <2>1 DEF SinkDone
  <2>4. ASSUME Sink!Landed' = Sink!Landed \cup S
        PROVE  SinkCounts' /\ StreamingHolds'
    <3>1. SinkCounts'
      <4> HIDE DEF S
      <4> QED
        BY <1>1, <1>4, <1>7, <2>1, <2>2, <2>4 DEF SinkCounts
    <3>2. packet' \ acks' \subseteq Sink!Landed' /\ acks' \cap Sink!Landed' = {}
          /\ acks' \subseteq packet' /\ acks' # {} /\ sending' = {} /\ delivering' = "call"
      BY <1>1, <1>3, <1>12, <2>1, <2>4
    <3>5. StreamingHolds'
      BY <1>1, <3>2 DEF StreamingHolds
    <3> QED
      BY <3>1, <3>5
  <2>5. CallingHolds' /\ RabbitHolds'
    BY <1>1 DEF CallingHolds, RabbitHolds, Sink!Calling
  <2>6. \A P \in {packet', sending', acks'} : P \subseteq 1 .. reached' /\ Cardinality(P) <= BatchLimit
    BY <1>1, <1>2, <1>9, <2>1
  <2> HIDE DEF S
  <2> QED
    BY <1>1, <1>2, <1>6, <1>7, <1>8, <1>10, <2>1, <2>4, <2>5, <2>6, SinkOn
<1> QED
  BY <1>11, <1>12

(* Kinesis, SQS and Pub/Sub: what a request may put, and in which order.   *)
LEMMA CallNow ==
    ASSUME SinkInv, delivering = "call", target \in Sink!Calling
    PROVE  /\ SinkCounts /\ reached \in Nat /\ Records \in Nat /\ reached \in 0 .. Records
           /\ packet \in SUBSET (1 .. reached) /\ sending \in SUBSET (1 .. reached)
           /\ BatchLimit \in Nat \ {0} /\ doubt \subseteq 1 .. Records /\ Retries \in Nat
           /\ Cardinality(packet) <= BatchLimit /\ Cardinality(sending) \in Nat
           /\ Cardinality(sending) <= BatchLimit
           /\ tries \in 0 .. Retries /\ repeats \in 0 .. Retries /\ claimed \in 0 .. Records
           /\ batches \in Nat /\ 1 .. reached \subseteq 1 .. Records
           /\ Cardinality({}) = 0 /\ Cardinality({}) <= BatchLimit
           /\ acks = {} /\ packet \cap Sink!Landed = {} /\ sending # {}
           /\ (\A r \in sending, q \in packet : r < q) /\ sending \cap Sink!Landed \subseteq doubt
           /\ Sink!Landed \subseteq 1 .. reached /\ SinkDone \subseteq Sink!Landed
           /\ claimed = Cardinality(SinkDone) /\ SinkDone \in SUBSET (1 .. reached)
           /\ SinkDone \cap sending = {}
<1>1. SinkCounts /\ CallingHolds
  BY SinkNow
<1>2. /\ acks = {} /\ packet \cap Sink!Landed = {} /\ sending # {}
      /\ (\A r \in sending, q \in packet : r < q) /\ sending \cap Sink!Landed \subseteq doubt
  BY <1>1 DEF CallingHolds
<1>3. /\ Sink!Landed \subseteq 1 .. reached /\ SinkDone \subseteq Sink!Landed
      /\ claimed = Cardinality(SinkDone) /\ SinkDone \in SUBSET (1 .. reached)
      /\ SinkDone \cap sending = {}
  BY <1>1 DEF SinkCounts, SinkDone
<1> QED
  BY <1>1, <1>2, <1>3, SinkNow

LEMMA CallKeepsOrder ==
    ASSUME SinkInv, delivering = "call", target \in Sink!Calling, NEW S \in Sink!MayLand
    PROVE  /\ S \in SUBSET sending
           /\ target \notin {"kinesis", "sqs"} =>
                \A s \in S : \A r \in 1 .. s - 1 : Sink!SameKey(r, s) => r \in Sink!Landed \cup S
<1>1. S \in SUBSET sending
  BY DEF Sink!MayLand
<1>2. ASSUME target \notin {"kinesis", "sqs"}
      PROVE  \A s \in S : \A r \in 1 .. s - 1 : Sink!SameKey(r, s) => r \in Sink!Landed \cup S
  <2>1. S = {} \/ S = sending
    BY <1>2 DEF Sink!MayLand, Sink!Calling
  <2>2. /\ \A r \in sending, q \in packet : r < q
        /\ acks = {} /\ sending \in SUBSET (1 .. reached) /\ packet \in SUBSET (1 .. reached)
        /\ reached \in Nat
    BY CallNow
  <2>3. \A s \in S : \A r \in (packet \cup sending \cup acks) \ (Sink!Landed \cup S) :
          r < s => ~Sink!SameKey(r, s)
    <3> TAKE s \in S
    <3> TAKE r \in (packet \cup sending \cup acks) \ (Sink!Landed \cup S)
    <3>1. r \in packet /\ s \in sending
      BY <2>1, <2>2
    <3>2. s < r /\ s \in Nat /\ r \in Nat
      BY <2>2, <3>1
    <3> QED
      BY <3>2
  <2>4. S \in SUBSET (1 .. reached)
    BY <1>1, <2>2
  <2> QED
    BY <2>3, <2>4, KeepsOrder
<1> QED
  BY <1>1, <1>2

LEMMA SinkAnswered == ASSUME SinkInv, target \in Sink!Calling, Sink!Answered PROVE SinkInv'
<1>1. /\ delivering = "call" /\ repeats' = 0
      /\ UNCHANGED <<target, column, keyed, reached, packet, acks, batches, doubt>>
  BY DEF Sink!Answered, Sink!Source
<1>2. PICK S \in Sink!MayLand : \E final \in SUBSET (sending \ S) :
        /\ log' = Sink!After(S)
        /\ claimed' = claimed + Sink!Counted(S, final)
        /\ \/ /\ sending \ S = {}
              /\ delivering' = "read" /\ sending' = {} /\ tries' = 0 /\ report' = report
           \/ /\ sending \ S # {} /\ final = {} /\ tries < Retries
              /\ sending' = sending \ S /\ tries' = tries + 1
              /\ delivering' = delivering /\ report' = report
           \/ /\ delivering' = "ended" /\ report' = [how |-> "failed", count |-> claimed']
              /\ UNCHANGED <<sending, tries>>
  BY DEF Sink!Answered, Sink!Fail, Sink!Resent
<1>3. PICK final \in SUBSET (sending \ S) :
        /\ log' = Sink!After(S)
        /\ claimed' = claimed + Sink!Counted(S, final)
        /\ \/ /\ sending \ S = {}
              /\ delivering' = "read" /\ sending' = {} /\ tries' = 0 /\ report' = report
           \/ /\ sending \ S # {} /\ final = {} /\ tries < Retries
              /\ sending' = sending \ S /\ tries' = tries + 1
              /\ delivering' = delivering /\ report' = report
           \/ /\ delivering' = "ended" /\ report' = [how |-> "failed", count |-> claimed']
              /\ UNCHANGED <<sending, tries>>
  BY <1>2
<1>4. /\ reached \in Nat /\ Records \in Nat /\ reached \in 0 .. Records
      /\ packet \in SUBSET (1 .. reached) /\ sending \in SUBSET (1 .. reached)
      /\ BatchLimit \in Nat \ {0} /\ doubt \subseteq 1 .. Records /\ Retries \in Nat
      /\ Cardinality(packet) <= BatchLimit /\ Cardinality(sending) \in Nat
      /\ Cardinality(sending) <= BatchLimit
      /\ tries \in 0 .. Retries /\ repeats \in 0 .. Retries /\ claimed \in 0 .. Records
      /\ batches \in Nat /\ 1 .. reached \subseteq 1 .. Records
      /\ Cardinality({}) = 0 /\ Cardinality({}) <= BatchLimit
      /\ acks = {} /\ packet \cap Sink!Landed = {} /\ sending # {}
      /\ (\A r \in sending, q \in packet : r < q) /\ sending \cap Sink!Landed \subseteq doubt
      /\ Sink!Landed \subseteq 1 .. reached /\ SinkDone \subseteq Sink!Landed
      /\ claimed = Cardinality(SinkDone) /\ SinkDone \in SUBSET (1 .. reached)
      /\ SinkDone \cap sending = {}
  BY <1>1, CallNow
<1>5. /\ S \in SUBSET sending
      /\ target \notin {"kinesis", "sqs"} =>
           \A s \in S : \A r \in 1 .. s - 1 : Sink!SameKey(r, s) => r \in Sink!Landed \cup S
  BY <1>1, CallKeepsOrder
<1>6. SinkLands(S)
  BY <1>3, LandsAfter
<1>7. /\ S \in SUBSET (1 .. reached) /\ S \in SUBSET (1 .. Records)
      /\ S \cap Sink!Landed \subseteq doubt' /\ doubt \subseteq doubt' /\ doubt' \subseteq 1 .. Records
  BY <1>1, <1>4, <1>5
<1> DEFINE D == SinkDone \cup S
<1>8. D \in SUBSET (1 .. reached) /\ SinkDone \cap S = {}
  BY <1>4, <1>5, <1>7
<1>9. Cardinality(D) = claimed + Cardinality(S) /\ Cardinality(S) \in Nat
  <2> DEFINE B == SinkDone
  <2>1. /\ reached \in Nat /\ B \in SUBSET (1 .. reached) /\ S \in SUBSET (1 .. reached)
        /\ B \cap S = {} /\ claimed = Cardinality(B)
    BY <1>4, <1>7, <1>8
  <2> HIDE DEF B
  <2>2. Cardinality(B \cup S) = Cardinality(B) + Cardinality(S)
    BY <2>1, RowSum
  <2>3. Cardinality(S) \in Nat
    BY <2>1, RowSet
  <2> QED
    BY <2>1, <2>2, <2>3 DEF B
<1>10. Cardinality(D) \in Nat /\ Cardinality(D) <= reached
  BY <1>4, <1>8, RowSet
<1>11. /\ Sink!Counted(S, final) \in Nat /\ Sink!Counted(S, final) <= Cardinality(S)
       /\ final = {} => Sink!Counted(S, final) = Cardinality(S)
  <2> DEFINE T == {r \in S : r < Sink!Min(final)}
  <2>1. T \in SUBSET S
    OBVIOUS
  <2>2. Sink!Counted(S, final) \in {Cardinality(T), Cardinality(S)}
        /\ (final = {} => Sink!Counted(S, final) = Cardinality(S))
    BY SinkCard DEF Sink!Counted
  <2> HIDE DEF T
  <2>3. Cardinality(T) \in Nat /\ Cardinality(T) <= Cardinality(S)
    BY <1>4, <1>7, <2>1, RowPart
  <2> QED
    BY <1>9, <2>2, <2>3
<1>12. claimed' \in 0 .. Records /\ claimed' <= Cardinality(D)
  BY <1>3, <1>4, <1>9, <1>10, <1>11
<1>13. CASE delivering' = "ended"
  <2>1. /\ tries' = tries /\ sending' = sending /\ report' = [how |-> "failed", count |-> claimed']
    BY <1>1, <1>3, <1>13
  <2>2. D \in SUBSET (Sink!Landed \cup S) /\ Sink!Landed \cup S \in SUBSET (1 .. reached)
    BY <1>4, <1>7
  <2> DEFINE L == Sink!Landed \cup S
  <2>3. Cardinality(L) \in Nat /\ Cardinality(D) <= Cardinality(L)
    <3> HIDE DEF D
    <3>1. D \in SUBSET L /\ L \in SUBSET (1 .. reached)
      BY <2>2
    <3> HIDE DEF L
    <3> QED
      BY <1>4, <3>1, RowPart
  <2>4. claimed' <= Cardinality(L) /\ claimed' \in Nat
    <3> HIDE DEF D, L
    <3> QED
      BY <1>4, <1>10, <1>12, <2>3
  <2>5. /\ report' \in [how : {"plain", "failed"}, count : Nat]
        /\ report'.count <= Cardinality(Sink!Landed \cup S)
    BY <2>1, <2>4
  <2>6. \A P \in {packet', sending', acks'} : P \subseteq 1 .. reached' /\ Cardinality(P) <= BatchLimit
    BY <1>1, <1>4, <2>1
  <2>7. repeats' \in 0 .. Retries /\ tries' \in 0 .. Retries /\ reached' \in 0 .. Records
    BY <1>1, <1>4, <2>1
  <2> QED
    BY <1>1, <1>6, <1>7, <1>12, <1>13, <2>5, <2>6, <2>7, SinkEnds
<1>14. CASE delivering' # "ended"
  <2>1. /\ sending' = sending \ S /\ report' = report /\ tries' \in 0 .. Retries
        /\ final = {}
        /\ \/ delivering' = "read" /\ sending' = {}
           \/ delivering' = "call" /\ sending' # {}
    BY <1>1, <1>3, <1>4, <1>14
  <2>2. claimed' = Cardinality(D)
    BY <1>3, <1>9, <1>11, <2>1
  <2>3. SinkDone' = D
    <3>1. packet \cap sending = {}
      BY <1>4
    <3>2. SinkDone = (1 .. reached) \ (packet \cup sending)
      BY <1>4 DEF SinkDone
    <3> QED
      BY <1>1, <1>4, <1>5, <2>1, <3>1, <3>2 DEF SinkDone
  <2>4. sending' \in SUBSET sending /\ Cardinality(sending') <= BatchLimit
    <3> DEFINE p == sending'
    <3>1. p \in SUBSET sending
      BY <2>1
    <3> HIDE DEF p
    <3>2. Cardinality(p) \in Nat /\ Cardinality(p) <= Cardinality(sending)
      BY <1>4, <3>1, RowPart
    <3>3. Cardinality(p) <= BatchLimit
      BY <1>4, <3>2
    <3> QED
      BY <3>1, <3>3 DEF p
  <2>5. \A P \in {packet', sending', acks'} : P \subseteq 1 .. reached' /\ Cardinality(P) <= BatchLimit
    BY <1>1, <1>4, <2>4
  <2>6. ASSUME Sink!Landed' = Sink!Landed \cup S
        PROVE  SinkCounts' /\ CallingHolds'
    <3>1. SinkDone' \subseteq Sink!Landed' /\ Sink!Landed' \subseteq 1 .. reached'
      BY <1>1, <1>4, <1>7, <2>3, <2>6
    <3>2. SinkCounts'
      <4> HIDE DEF D
      <4> QED
        BY <2>2, <2>3, <3>1 DEF SinkCounts
    <3>3. packet' \cap Sink!Landed' = {}
      <4>1. packet \cap sending = {}
        BY <1>4
      <4> QED
        BY <1>1, <1>4, <1>5, <2>6, <4>1
    <3>4. sending' \cap Sink!Landed' \subseteq doubt'
      BY <1>1, <1>4, <2>1, <2>6
    <3>5. (\A r \in sending', q \in packet' : r < q) /\ acks' = {}
      BY <1>1, <1>4, <2>4
    <3>6. CallingHolds'
      BY <2>1, <3>3, <3>4, <3>5 DEF CallingHolds
    <3> QED
      BY <3>2, <3>6
  <2>7. StreamingHolds' /\ RabbitHolds'
    BY <1>1, SinkKinds DEF StreamingHolds, RabbitHolds
  <2>8. /\ repeats' \in 0 .. Retries /\ reached' \in 0 .. Records /\ batches' \in Nat
        /\ delivering' \in {"read", "call", "confirm"} /\ delivering # "ended"
    BY <1>1, <1>4, <2>1
  <2> QED
    BY <1>1, <1>5, <1>6, <1>7, <1>12, <1>14, <2>1, <2>5, <2>6, <2>7, <2>8, SinkOn
<1> QED
  BY <1>13, <1>14

LEMMA SinkRepeats == ASSUME SinkInv, Sink!CallRepeats PROVE SinkInv'
<1>1. /\ delivering = "call" /\ delivering' = "call" /\ target \in Sink!Calling /\ repeats < Retries
      /\ repeats' = repeats + 1
      /\ UNCHANGED <<target, column, keyed, reached, packet, sending, acks, batches, tries, claimed,
                     report>>
  BY DEF Sink!CallRepeats, Sink!Source
<1>2. PICK S \in Sink!MayLand : log' = Sink!After(S) /\ doubt' = doubt \cup S
  BY DEF Sink!CallRepeats
<1>4. /\ SinkCounts /\ reached \in 0 .. Records /\ Retries \in Nat
      /\ packet \in SUBSET (1 .. reached) /\ sending \in SUBSET (1 .. reached)
      /\ doubt \subseteq 1 .. Records
      /\ Cardinality(packet) <= BatchLimit /\ Cardinality(sending) <= BatchLimit
      /\ tries \in 0 .. Retries /\ repeats \in 0 .. Retries /\ claimed \in 0 .. Records
      /\ batches \in Nat /\ 1 .. reached \subseteq 1 .. Records
      /\ Cardinality({}) <= BatchLimit
      /\ acks = {} /\ packet \cap Sink!Landed = {} /\ sending # {}
      /\ (\A r \in sending, q \in packet : r < q) /\ sending \cap Sink!Landed \subseteq doubt
      /\ Sink!Landed \subseteq 1 .. reached /\ SinkDone \subseteq Sink!Landed
      /\ claimed = Cardinality(SinkDone) /\ reached \in Nat
  BY <1>1, CallNow
<1>5. /\ S \in SUBSET sending
      /\ target \notin {"kinesis", "sqs"} =>
           \A s \in S : \A r \in 1 .. s - 1 : Sink!SameKey(r, s) => r \in Sink!Landed \cup S
  BY <1>1, CallKeepsOrder
<1>6. SinkLands(S)
  BY <1>2, LandsAfter
<1>7. /\ S \in SUBSET (1 .. reached) /\ S \in SUBSET (1 .. Records)
      /\ S \cap Sink!Landed \subseteq doubt' /\ doubt \subseteq doubt' /\ doubt' \subseteq 1 .. Records
  BY <1>2, <1>4, <1>5
<1>8. ASSUME Sink!Landed' = Sink!Landed \cup S
      PROVE  SinkCounts' /\ CallingHolds'
  <2>1. SinkDone' = SinkDone
    BY <1>1 DEF SinkDone
  <2>2. SinkCounts'
    BY <1>1, <1>4, <1>7, <1>8, <2>1 DEF SinkCounts
  <2>3. packet \cap sending = {}
    BY <1>4
  <2>4. packet' \cap Sink!Landed' = {} /\ sending' \cap Sink!Landed' \subseteq doubt'
    BY <1>1, <1>2, <1>4, <1>5, <1>8, <2>3
  <2>5. CallingHolds'
    BY <1>1, <1>4, <2>4 DEF CallingHolds
  <2> QED
    BY <2>2, <2>5
<1>9. StreamingHolds' /\ RabbitHolds'
  BY <1>1, SinkKinds DEF StreamingHolds, RabbitHolds
<1>10. \A P \in {packet', sending', acks'} : P \subseteq 1 .. reached' /\ Cardinality(P) <= BatchLimit
  BY <1>1, <1>4
<1>11. /\ repeats' \in 0 .. Retries /\ tries' \in 0 .. Retries /\ claimed' \in 0 .. Records
       /\ reached' \in 0 .. Records /\ batches' \in Nat
  BY <1>1, <1>4
<1> QED
  BY <1>1, <1>5, <1>6, <1>7, <1>8, <1>9, <1>10, <1>11, SinkOn
(* RabbitMQ: published as read ...                                         *)
LEMMA SinkRabbit == ASSUME SinkInv, Sink!RabbitPublish PROVE SinkInv'
<1> DEFINE m == reached + 1
           open == acks \cup {m}
<1>1. /\ delivering = "read" /\ target = "rabbitmq" /\ reached < Records
      /\ reached' = m /\ acks' = open
      /\ delivering' = IF Cardinality(open) = BatchLimit \/ m = Records THEN "confirm" ELSE "read"
      /\ UNCHANGED <<target, column, keyed, packet, sending, batches, tries, repeats, log, claimed,
                     doubt, report>>
  BY SinkCard DEF Sink!RabbitPublish, Sink!Source
<1>2. /\ SinkCounts /\ RabbitHolds /\ reached \in Nat /\ reached <= Records /\ Records \in Nat
      /\ acks \in SUBSET (1 .. reached) /\ BatchLimit \in Nat \ {0} /\ doubt \subseteq 1 .. Records
      /\ Cardinality(acks) \in Nat /\ Cardinality({}) <= BatchLimit
      /\ tries \in 0 .. Retries /\ repeats \in 0 .. Retries /\ claimed \in 0 .. Records
      /\ batches \in Nat
  BY <1>1, SinkNow
<1>3. /\ packet = {} /\ sending = {} /\ acks \cap Sink!Landed = {}
      /\ Cardinality(acks) < BatchLimit
  BY <1>1, <1>2 DEF RabbitHolds
<1>4. m \in Nat /\ m \in 0 .. Records /\ m \notin acks /\ m \notin Sink!Landed
      /\ open \in SUBSET (1 .. m) /\ 1 .. reached = (1 .. m) \ {m}
  BY <1>1, <1>2 DEF SinkCounts
<1>5. Cardinality(open) = Cardinality(acks) + 1
  <2> HIDE DEF m
  <2> QED
    BY <1>2, <1>4, RowAdd
<1> HIDE DEF open
<1>6. Cardinality(open) \in Nat /\ Cardinality(open) <= BatchLimit
  BY <1>2, <1>3, <1>5
<1>7. \A P \in {packet', sending', acks'} : P \subseteq 1 .. reached' /\ Cardinality(P) <= BatchLimit
  BY <1>1, <1>2, <1>3, <1>4, <1>6
<1>8. Sink!Landed' = Sink!Landed
  BY <1>1 DEF Sink!Landed
<1> HIDE DEF m
<1>9. SinkDone' = SinkDone
  BY <1>1, <1>3, <1>4 DEF SinkDone, open
<1>10. SinkCounts'
  BY <1>1, <1>2, <1>4, <1>8, <1>9 DEF SinkCounts
<1>11. RabbitHolds'
  <2>1. acks' \cap Sink!Landed' = {} /\ acks' # {}
    BY <1>1, <1>3, <1>4, <1>8 DEF open
  <2>2. \/ delivering' = "read" /\ Cardinality(acks') < BatchLimit
        \/ delivering' = "confirm"
    BY <1>1, <1>2, <1>6
  <2> QED
    BY <1>1, <1>3, <2>1, <2>2 DEF RabbitHolds
<1>12. StreamingHolds' /\ CallingHolds'
  BY <1>1 DEF StreamingHolds, CallingHolds, Sink!Calling, Sink!Streaming
<1> DEFINE S == {}
<1>13. S \in SUBSET (1 .. Records) /\ SinkLands(S) /\ S \cap Sink!Landed \subseteq doubt'
       /\ \A q \in S : \A r \in 1 .. q - 1 : Sink!SameKey(r, q) => r \in Sink!Landed \cup S
  BY <1>1, LandsNothing
<1>14. delivering' # "ended" /\ delivering' \in {"read", "call", "confirm"}
  BY <1>1
<1> HIDE DEF S
<1> QED
  BY <1>1, <1>2, <1>4, <1>7, <1>10, <1>11, <1>12, <1>13, <1>14, SinkOn

(* ... and confirmed, in order.                                            *)
LEMMA SinkConfirms == ASSUME SinkInv, Sink!Confirm PROVE SinkInv'
<1> DEFINE m == Sink!Min(acks)
           S == {m}
           open == acks \ {m}
<1>1. /\ delivering = "confirm" /\ acks' = open /\ claimed' = claimed + 1
      /\ UNCHANGED <<target, column, keyed, reached, packet, sending, tries, repeats, doubt, report>>
      /\ log' = Sink!After(S)
      /\ \/ open = {} /\ delivering' = "read" /\ batches' = batches + 1
         \/ open # {} /\ UNCHANGED <<delivering, batches>>
  BY DEF Sink!Confirm, Sink!Source
<1>2. /\ SinkCounts /\ StreamingHolds /\ CallingHolds /\ RabbitHolds
      /\ reached \in Nat /\ reached <= Records /\ Records \in Nat
      /\ acks \in SUBSET (1 .. reached)
      /\ BatchLimit \in Nat \ {0} /\ doubt \subseteq 1 .. Records
      /\ Cardinality(acks) <= BatchLimit /\ Cardinality(acks) \in Nat
      /\ tries \in 0 .. Retries /\ repeats \in 0 .. Retries /\ claimed \in 0 .. Records
      /\ batches \in Nat /\ reached \in 0 .. Records /\ 1 .. reached \subseteq 1 .. Records
      /\ Cardinality({}) = 0 /\ Cardinality({}) <= BatchLimit
  BY <1>1, SinkNow
<1>3. target = "rabbitmq"
  <2>1. target \in Sink!Streaming \cup Sink!Calling \cup {"rabbitmq"}
    BY DEF SinkInv, SinkTypes, Sink!Sinks
  <2> QED
    BY <1>1, <1>2, <2>1 DEF StreamingHolds, CallingHolds
<1>4. packet = {} /\ sending = {} /\ acks # {} /\ acks \cap Sink!Landed = {}
  BY <1>1, <1>2, <1>3 DEF RabbitHolds
<1>5. Sink!Landed \subseteq 1 .. reached /\ SinkDone \subseteq Sink!Landed
      /\ claimed = Cardinality(SinkDone)
  BY <1>2 DEF SinkCounts
<1>6. m \in acks /\ \A r \in acks : m =< r /\ m \in Nat /\ r \in Nat
  <2>1. acks \in SUBSET Nat
    BY <1>2
  <2>2. m \in acks /\ \A r \in acks : m =< r
    BY <1>4, <2>1, SinkMin
  <2> QED
    BY <2>1, <2>2
<1>7. SinkLands(S)
  BY <1>1, LandsAfter
<1> HIDE DEF m
<1>8. S \in SUBSET (1 .. reached) /\ S \in SUBSET (1 .. Records) /\ S \cap Sink!Landed = {}
  BY <1>2, <1>4, <1>6
<1>9. \A s \in S : \A r \in 1 .. s - 1 : Sink!SameKey(r, s) => r \in Sink!Landed \cup S
  <2>1. \A s \in S : \A r \in (packet \cup sending \cup acks) \ (Sink!Landed \cup S) :
          r < s => ~Sink!SameKey(r, s)
    BY <1>4, <1>6
  <2> HIDE DEF S
  <2> QED
    BY <1>1, <1>8, <2>1, KeepsOrder
<1>10. open \in SUBSET (1 .. reached) /\ Cardinality(open) <= BatchLimit
  <2>1. open \in SUBSET acks
    OBVIOUS
  <2>2. open \in SUBSET (1 .. reached)
    BY <1>2
  <2> HIDE DEF open
  <2>3. Cardinality(open) \in Nat /\ Cardinality(open) <= Cardinality(acks)
    BY <1>2, <2>1, RowPart
  <2>4. Cardinality(open) <= BatchLimit
    BY <1>2, <2>3
  <2> QED
    BY <2>2, <2>4
<1>11. \A P \in {packet', sending', acks'} : P \subseteq 1 .. reached' /\ Cardinality(P) <= BatchLimit
  BY <1>1, <1>2, <1>4, <1>10
<1>12. SinkDone' = SinkDone \cup {m} /\ m \notin SinkDone /\ SinkDone \in SUBSET (1 .. reached)
  BY <1>1, <1>2, <1>4, <1>6 DEF SinkDone
<1>13. claimed' = Cardinality(SinkDone')
  <2> DEFINE B == SinkDone
  <2>1. B \in SUBSET (1 .. reached) /\ m \notin B /\ claimed = Cardinality(B) /\ reached \in Nat
    BY <1>2, <1>5, <1>12
  <2> HIDE DEF B
  <2>2. Cardinality(B \cup {m}) = Cardinality(B) + 1
    BY <2>1, RowAdd
  <2> QED
    BY <1>1, <1>12, <2>1, <2>2 DEF B
<1>14. claimed' \in 0 .. Records
  <2> DEFINE B == SinkDone \cup {m}
  <2>1. B \in SUBSET (1 .. reached) /\ claimed' = Cardinality(B)
    BY <1>8, <1>12, <1>13
  <2> HIDE DEF B
  <2>2. Cardinality(B) \in Nat /\ Cardinality(B) <= reached
    BY <1>2, <2>1, RowSet
  <2> QED
    BY <1>2, <2>1, <2>2
<1>15. ASSUME Sink!Landed' = Sink!Landed \cup S
       PROVE  SinkCounts' /\ RabbitHolds'
  <2>1. SinkDone' \subseteq Sink!Landed' /\ Sink!Landed' \subseteq 1 .. reached'
    BY <1>1, <1>5, <1>8, <1>12, <1>15
  <2>2. SinkCounts'
    BY <1>13, <2>1 DEF SinkCounts
  <2>3. acks' \cap Sink!Landed' = {}
    BY <1>1, <1>4, <1>15
  <2>4. RabbitHolds'
    <3>1. CASE open = {}
      <4>1. delivering' = "read" /\ acks' = {}
        BY <1>1, <3>1
      <4>2. Cardinality(acks') < BatchLimit
        BY <1>2, <4>1
      <4> QED
        BY <1>1, <1>4, <2>3, <4>1, <4>2 DEF RabbitHolds
    <3>2. CASE open # {}
      BY <1>1, <1>4, <2>3, <3>2 DEF RabbitHolds
    <3> QED
      BY <3>1, <3>2
  <2> QED
    BY <2>2, <2>4
<1>16. StreamingHolds' /\ CallingHolds'
  BY <1>1, <1>3 DEF StreamingHolds, CallingHolds, Sink!Calling, Sink!Streaming
<1>17. S \cap Sink!Landed \subseteq doubt' /\ delivering' \in {"read", "confirm"} /\ batches' \in Nat
  BY <1>1, <1>2, <1>8
<1> HIDE DEF S
<1>18. delivering' # "ended" /\ delivering' \in {"read", "call", "confirm"}
  BY <1>17
<1> QED
  BY <1>1, <1>2, <1>7, <1>8, <1>9, <1>11, <1>14, <1>15, <1>16, <1>17, <1>18, SinkOn

-----------------------------------------------------------------------------
LEMMA SinkBegins == ASSUME Sink!Init PROVE SinkInv
<1>1. /\ target \in Sink!Sinks /\ column \in {"unset", "absent", "present"}
      /\ reached = 0 /\ packet = {} /\ sending = {} /\ acks = {} /\ batches = 0 /\ tries = 0
      /\ repeats = 0 /\ log = {} /\ claimed = 0 /\ doubt = {} /\ delivering = "read"
      /\ report = [how |-> "nothing", count |-> 0]
  BY DEF Sink!Init
<1>2. Records \in Nat /\ BatchLimit \in Nat \ {0} /\ Retries \in Nat /\ Cardinality({}) = 0
  BY SinkNumbers, FS_EmptySet
<1>3. Sink!Landed = {} /\ SinkDone = {}
  BY <1>1 DEF Sink!Landed, SinkDone
<1>4. SinkTypes
  BY <1>1, <1>2 DEF SinkTypes
<1>5. SinkCounts /\ StreamingHolds /\ CallingHolds /\ RabbitHolds
  BY <1>1, <1>2, <1>3 DEF SinkCounts, StreamingHolds, CallingHolds, RabbitHolds
<1>6. KeysInPlace /\ Sink!KeyOrder /\ Sink!OnceUnlessInDoubt /\ Sink!DeliveredAll
  BY <1>1 DEF KeysInPlace, Sink!KeyOrder, Sink!OnceUnlessInDoubt, Sink!DeliveredAll
<1>7. Sink!NeverOverclaims
  BY <1>1, <1>2, <1>3, SinkCard DEF Sink!NeverOverclaims
<1>8. \E n \in Nat : \A e \in log : e.turn <= n
  BY <1>1
<1> QED
  BY <1>4, <1>5, <1>6, <1>7, <1>8 DEF SinkInv, SinkGoes

LEMMA SinkStill == ASSUME SinkInv, UNCHANGED deliver PROVE SinkInv'
<1>1. /\ SinkDone' = SinkDone /\ Sink!Landed' = Sink!Landed
  BY DEF deliver, SinkDone, Sink!Landed
<1>2. SinkTypes' /\ \E n \in Nat : \A e \in log' : e.turn <= n
  BY DEF SinkInv, SinkTypes, deliver
<1>3. Sink!OnceUnlessInDoubt' /\ Sink!DeliveredAll'
  BY <1>1 DEF SinkInv, deliver, Sink!OnceUnlessInDoubt, Sink!DeliveredAll
<1>4. Sink!NeverOverclaims'
  BY <1>1, SinkCard DEF SinkInv, deliver, Sink!NeverOverclaims
<1>5. \A r : Sink!KeyOf(r)' = Sink!KeyOf(r) /\ Sink!PlaceOf(r)' = Sink!PlaceOf(r)
  BY DEF deliver, Sink!KeyOf, Sink!PlaceOf, Sink!KafkaPlace, Sink!Keyless
<1>6. ASSUME delivering' # "ended" PROVE SinkGoes'
  <2>1. SinkGoes
    BY <1>6 DEF SinkInv, deliver
  <2>2. SinkCounts' /\ CallingHolds' /\ RabbitHolds'
    BY <1>1, <2>1 DEF SinkGoes, SinkCounts, CallingHolds, RabbitHolds, deliver
  <2>3. StreamingHolds'
    BY <1>1, <1>5, <2>1 DEF SinkGoes, StreamingHolds, deliver
  <2>4. KeysInPlace'
    BY <1>5, <2>1 DEF SinkGoes, KeysInPlace, deliver
  <2>5. Sink!KeyOrder'
    BY <1>5, <2>1 DEF SinkGoes, Sink!KeyOrder, Sink!SameKey, deliver
  <2> QED
    BY <2>2, <2>3, <2>4, <2>5 DEF SinkGoes
<1> QED
  BY <1>2, <1>3, <1>4, <1>6 DEF SinkInv

LEMMA SinkStep == ASSUME SinkInv, Sink!Next PROVE SinkInv'
<1>1. CASE Sink!InputFails \/ Sink!RowRefused \/ Sink!RowTooLarge
  BY <1>1, FailsReading
<1>2. CASE Sink!WriteRecords \/ Sink!SendMessages \/ Sink!PublishRow \/ Sink!ReadEnd
  <2>1. target \in Sink!Calling /\ (Sink!ReadRow \/ Sink!ReadEnd)
    <3>1. CASE Sink!ReadEnd
      BY <3>1 DEF Sink!ReadEnd
    <3>2. CASE Sink!WriteRecords \/ Sink!SendMessages \/ Sink!PublishRow
      BY <3>2 DEF Sink!WriteRecords, Sink!SendMessages, Sink!PublishRow, Sink!Calling
    <3> QED
      BY <1>2, <3>1, <3>2
  <2> QED
    BY <2>1, SinkReads
<1>3. CASE Sink!TakeBatch
  BY <1>3, SinkTakes
<1>4. CASE Sink!Succeed
  BY <1>4, SinkSucceeds
<1>5. CASE Sink!Produce
  BY <1>5, SinkProduces
<1>6. CASE Sink!ProduceFails \/ Sink!NatsFails \/ Sink!CallFails \/ Sink!RabbitFails
  BY <1>6, FailsCalling
<1>7. CASE Sink!NatsPublish
  BY <1>7, SinkPublishes
<1>8. CASE Sink!NatsAck
  BY <1>8, SinkAcks
<1>9. CASE Sink!Put \/ Sink!Send \/ Sink!PubsubSend
  <2>1. target \in Sink!Calling /\ Sink!Answered
    BY <1>9 DEF Sink!Put, Sink!Send, Sink!PubsubSend, Sink!Calling
  <2> QED
    BY <2>1, SinkAnswered
<1>10. CASE Sink!CallRepeats
  BY <1>10, SinkRepeats
<1>11. CASE Sink!RabbitPublish
  BY <1>11, SinkRabbit
<1>12. CASE Sink!Confirm
  BY <1>12, SinkConfirms
<1>13. CASE Sink!Ended
  <2>1. UNCHANGED deliver
    BY <1>13 DEF Sink!Ended, Sink!vars, deliver
  <2> QED
    BY <2>1, SinkStill
<1> QED
  BY <1>1, <1>2, <1>3, <1>4, <1>5, <1>6, <1>7, <1>8, <1>9, <1>10, <1>11, <1>12, <1>13
  DEF Sink!Next, Sink!Step

LEMMA SinkTold == ASSUME SinkInv PROVE Sink!TypeOK /\ Sink!KeyOrder
<1>1. Records \in Nat /\ reached \in Nat /\ reached <= Records
  BY SinkRows
<1>2. \A P \in {packet, sending, acks} : P \subseteq 1 .. reached /\ Cardinality(P) <= BatchLimit
  BY DEF SinkInv, SinkTypes
<1>3. \A P \in {packet, sending, acks} : P \subseteq 1 .. Records /\ Sink!Cardinality(P) <= BatchLimit
  BY <1>1, <1>2, SinkCard
<1>4. Sink!TypeOK
  BY <1>3 DEF SinkInv, SinkTypes, Sink!TypeOK, Sink!Rows
<1>5. Sink!KeyOrder
  BY DEF SinkInv, SinkGoes, Sink!KeyOrder
<1> QED
  BY <1>4, <1>5

(* For any number of rows, of rows to a batch, of resends and of           *)
(* partitions: a stream or queue sink that ends well has put every row     *)
(* where it belongs, and one that fails claims no row that is not there;   *)
(* keyed rows keep their order in one place; and a row is there twice only *)
(* if an answer about it was lost (Kafka, Kinesis, SQS, Pub/Sub, NATS and  *)
(* RabbitMQ sinks).                                                        *)
THEOREM SinksTellTheorem == ServicesSpec => []SinksTell
<1> DEFINE Inv == which = "sink" => SinkInv
<1>1. ServicesInit => Inv
  <2>1. ServicesInit /\ which = "sink" => Sink!Init
    BY DEF ServicesInit
  <2> QED
    BY <2>1, SinkBegins
<1>2. Inv /\ [ServicesNext]_all => Inv'
  <2> SUFFICES ASSUME Inv, [ServicesNext]_all, which' = "sink"
               PROVE  SinkInv'
    OBVIOUS
  <2>1. which = "sink"
    BY DEF ServicesNext, all
  <2>2. Sink!Next \/ UNCHANGED deliver
    BY <2>1 DEF ServicesNext, all
  <2> QED
    BY <2>1, <2>2, SinkStep, SinkStill
<1>3. Inv => SinksTell
  BY SinkTold DEF SinksTell, SinkInv
<1> QED
  BY <1>1, <1>2, <1>3, PTL DEF ServicesSpec

=============================================================================
