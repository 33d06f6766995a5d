---------------------------- MODULE StreamProofs ----------------------------
(***************************************************************************)
(* The stream readers lose nothing, the Kafka and the NATS reader deliver  *)
(* nothing twice and the Kinesis reader keeps a child shard behind its     *)
(* parents, for any number of partitions, shards, messages and runs and    *)
(* any max_records: what has to be true of a position while a run moves it. *)
(***************************************************************************)
EXTENDS MCStreams, Sequences, FiniteSetTheorems, WellFoundedInduction, TLAPS

(* A set of naturals has a least element, and a bounded one a greatest.    *)
LEMMA LeastExists ==
    ASSUME NEW S \in SUBSET Nat, S # {}
    PROVE  \E x \in S : \A y \in S : x <= y
<1>1. IsWellFoundedOn(OpToRel(<, Nat), Nat)
  BY NatLessThanWellFounded
<1>2. PICK x \in S : \A y \in S : ~ (<<y, x>> \in OpToRel(<, Nat))
  BY <1>1, WFMin
<1>3. \A y \in S : ~ (y < x)
  BY <1>2 DEF OpToRel
<1> QED
  BY <1>3

-----------------------------------------------------------------------------
(* The NATS reader.                                                        *)

(* max_records is at least 1 (positive, http.rs).                          *)
NatsSizes == MaxRecords \in Nat \ {0} /\ MaxMessages \in Nat \ {0}

(* What the server has let go, or never had for this reader.               *)
Passed(q) == q \in stream.other \/ q \in stream.gone \/ q \in missed

NatsStream ==
    /\ stream \in [first : Nat, last : Nat, other : SUBSET Nat, gone : SUBSET Nat]
    /\ stream.last <= MaxMessages
    /\ 1 <= stream.first /\ stream.first <= stream.last + 1
    /\ stream.other \subseteq 1 .. stream.last
    /\ stream.gone \subseteq 1 .. stream.last

NatsTypes ==
    /\ saved \in [stream : {"none", "ours", "other"}, next : Nat]
    /\ 1 <= saved.next /\ saved.next <= MaxMessages + 1
    /\ landed \subseteq 1 .. MaxMessages /\ rows \subseteq 1 .. MaxMessages
    /\ pc \in {"idle", "consumer", "reading", "read"}
    /\ last \in 0 .. MaxMessages /\ next \in 0 .. MaxMessages + 1
    /\ from \in Nat /\ left \in Nat /\ base \in Nat

(* What the successful runs delivered lies behind the position.            *)
NatsBehind ==
    /\ Nats!Kept => \A q \in landed : q < saved.next
    /\ ~Nats!Kept => landed = {}

(* A run starts at the position, has read all that it could behind where   *)
(* it is, and, when it was told that nothing is pending, there is nothing  *)
(* before the end that it recorded.                                        *)
NatsRun ==
    /\ pc = "idle" => rows = {}
    /\ pc # "idle" =>
        /\ last <= stream.last
        /\ 1 <= from /\ from <= next
        /\ Nats!Kept => from = saved.next
        /\ \A q \in rows : from <= q /\ q < next
        /\ \A q \in from .. stream.first - 1 : q \in missed
        /\ \A q \in from .. next - 1 : q \in rows \/ Passed(q)
    /\ pc = "consumer" => next = from /\ rows = {}
    /\ pc = "reading" /\ rows # {} /\ left = 0 => \A q \in next .. last : Passed(q)

NatsInv == NatsStream /\ NatsTypes /\ NatsBehind /\ NatsRun /\ Nats!SkipsNothing

(* What a consumer that starts at s has to deliver.                        *)
LEMMA PendingFacts ==
    ASSUME NatsStream, NEW s \in Nat
    PROVE  /\ Nats!Pending(s) =
                {q \in Nat : /\ s <= q /\ stream.first <= q /\ q <= stream.last
                             /\ q \notin stream.other /\ q \notin stream.gone}
           /\ IsFiniteSet(Nats!Pending(s))
<1>1. stream.first \in Nat /\ stream.last \in Nat
  BY DEF NatsStream
<1>2. /\ Nats!Max({s, stream.first}) \in Nat
      /\ \A q \in Nat : q >= Nats!Max({s, stream.first}) <=> q >= s /\ q >= stream.first
  BY <1>1 DEF Nats!Max
<1>3. Nats!Pending(s) =
        {q \in Nat : /\ s <= q /\ stream.first <= q /\ q <= stream.last
                     /\ q \notin stream.other /\ q \notin stream.gone}
  BY <1>1, <1>2 DEF Nats!Pending
<1>4. IsFiniteSet(Nats!Pending(s))
  BY <1>1, <1>3, FS_BoundedSetOfNaturals
<1> QED
  BY <1>3, <1>4

LEMMA NatsStep ==
    ASSUME NatsSizes
    PROVE  NatsInv /\ [Nats!Next]_Nats!vars => NatsInv'
<1> SUFFICES ASSUME NatsInv, [Nats!Next]_Nats!vars PROVE NatsInv'
  OBVIOUS
<1>n. /\ stream.first \in Nat /\ stream.last \in Nat /\ MaxMessages \in Nat
      /\ from \in Nat /\ next \in Nat /\ last \in Nat /\ left \in Nat /\ base \in Nat
      /\ saved.next \in Nat
  BY DEF NatsInv, NatsStream, NatsTypes, NatsSizes
<1>o. ASSUME Nats!Over, UNCHANGED <<Nats!world, Nats!memory>> PROVE NatsInv'
  BY <1>o DEF NatsInv, NatsStream, NatsTypes, NatsBehind, NatsRun, Passed, Nats!Over,
     Nats!world, Nats!memory, Nats!Kept, Nats!SkipsNothing, NatsSizes
<1>1. ASSUME NEW matches \in BOOLEAN, Nats!Publish(matches) PROVE NatsInv'
  <2>1. /\ UNCHANGED <<start, anew, missed, saved, landed, base, pc, from, last, next, left,
                       rows>>
        /\ stream' \in [first : Nat, last : Nat, other : SUBSET Nat, gone : SUBSET Nat]
        /\ stream'.first = stream.first /\ stream'.last = stream.last + 1
        /\ stream.last < MaxMessages /\ stream'.gone = stream.gone
        /\ stream'.other \in {stream.other, stream.other \cup {stream.last + 1}}
    <3>0. /\ stream \in [first : Nat, last : Nat, other : SUBSET Nat, gone : SUBSET Nat]
          /\ stream.last + 1 \in Nat /\ stream.other \in SUBSET Nat
      BY <1>n DEF NatsInv, NatsStream
    <3>u. /\ UNCHANGED <<start, anew, missed, saved, landed, base, pc, from, last, next, left,
                         rows>>
          /\ stream.last < MaxMessages
      BY <1>1 DEF Nats!Publish, Nats!memory, Nats!run
    <3>1. CASE matches
      <4>1. stream' = [[stream EXCEPT !.last = stream.last + 1] EXCEPT !.other = stream.other]
        BY <1>1, <3>1 DEF Nats!Publish
      <4> QED
        BY <3>0, <3>u, <4>1
    <3>2. CASE ~matches
      <4>1. stream' = [[stream EXCEPT !.last = stream.last + 1]
                       EXCEPT !.other = stream.other \cup {stream.last + 1}]
        BY <1>1, <3>2 DEF Nats!Publish
      <4>2. stream.other \cup {stream.last + 1} \in SUBSET Nat
        BY <3>0
      <4> QED
        BY <3>0, <3>u, <4>1, <4>2
    <3> QED
      BY <3>1, <3>2
  <2>2. NatsStream'
    BY <1>n, <2>1 DEF NatsInv, NatsStream
  <2>3. \A q : Passed(q) => Passed(q)'
    BY <2>1 DEF Passed
  <2>4. NatsTypes' /\ NatsBehind'
    BY <2>1 DEF NatsInv, NatsTypes, NatsBehind, Nats!Kept
  <2>5. NatsRun'
    BY <1>n, <2>1, <2>3 DEF NatsInv, NatsRun, Nats!Kept
  <2>6. Nats!SkipsNothing'
    BY <2>1, <2>3 DEF NatsInv, Nats!SkipsNothing, Nats!Kept, Passed
  <2> QED
    BY <2>2, <2>4, <2>5, <2>6 DEF NatsInv
<1>2. CASE Nats!DeleteOne
  <2>1. /\ UNCHANGED <<start, anew, missed, saved, landed, base, pc, from, last, next, left,
                       rows>>
        /\ stream' \in [first : Nat, last : Nat, other : SUBSET Nat, gone : SUBSET Nat]
        /\ stream'.first = stream.first /\ stream'.last = stream.last
        /\ stream'.other = stream.other
        /\ \E q \in stream.first .. stream.last : stream'.gone = stream.gone \cup {q}
    BY <1>2, <1>n DEF Nats!DeleteOne, Nats!memory, Nats!run, NatsInv, NatsStream
  <2>2. NatsStream'
    BY <1>n, <2>1 DEF NatsInv, NatsStream
  <2>3. \A q : Passed(q) => Passed(q)'
    BY <2>1 DEF Passed
  <2>4. NatsTypes' /\ NatsBehind'
    BY <2>1 DEF NatsInv, NatsTypes, NatsBehind, Nats!Kept
  <2>5. NatsRun'
    BY <1>n, <2>1, <2>3 DEF NatsInv, NatsRun, Nats!Kept
  <2>6. Nats!SkipsNothing'
    BY <2>1, <2>3 DEF NatsInv, Nats!SkipsNothing, Nats!Kept, Passed
  <2> QED
    BY <2>2, <2>4, <2>5, <2>6 DEF NatsInv
<1>3. CASE Nats!Discard
  <2>1. /\ UNCHANGED <<start, anew, saved, landed, base, pc, from, last, next, left, rows>>
        /\ stream' \in [first : Nat, last : Nat, other : SUBSET Nat, gone : SUBSET Nat]
        /\ stream'.first = stream.first + 1 /\ stream'.last = stream.last
        /\ stream.first <= stream.last
        /\ stream'.other = stream.other /\ stream'.gone = stream.gone
        /\ missed' = IF pc = "idle" THEN missed ELSE missed \cup {stream.first}
    BY <1>3, <1>n DEF Nats!Discard, Nats!memory, Nats!run, NatsInv, NatsStream
  <2>2. NatsStream'
    BY <1>n, <2>1 DEF NatsInv, NatsStream
  <2>3. \A q : Passed(q) => Passed(q)'
    BY <2>1 DEF Passed
  <2>4. NatsTypes' /\ NatsBehind'
    BY <2>1 DEF NatsInv, NatsTypes, NatsBehind, Nats!Kept
  <2>5. pc # "idle" => \A q \in from .. stream'.first - 1 : q \in missed'
    BY <1>n, <2>1 DEF NatsInv, NatsRun
  <2>6. NatsRun'
    BY <1>n, <2>1, <2>3, <2>5 DEF NatsInv, NatsRun, Nats!Kept
  <2>7. Nats!SkipsNothing'
    BY <2>1, <2>3 DEF NatsInv, Nats!SkipsNothing, Nats!Kept, Passed
  <2> QED
    BY <2>2, <2>4, <2>6, <2>7 DEF NatsInv
<1>4. CASE Nats!MakeAnew \/ Nats!Forget
  <2>1. /\ pc = "idle" /\ pc' = "idle" /\ rows' = rows
        /\ UNCHANGED <<base, from, last, next, left>> /\ landed' = {}
        /\ \/ anew' = TRUE /\ stream' = Nats!Fresh /\ saved' = saved
           \/ stream' = stream /\ saved' = Nats!NoPosition
    BY <1>4 DEF Nats!MakeAnew, Nats!Forget, Nats!run
  <2>2. NatsStream'
    BY <1>n, <2>1 DEF NatsInv, NatsStream, Nats!Fresh
  <2>3. NatsTypes' /\ NatsBehind' /\ NatsRun'
    BY <1>n, <2>1 DEF NatsInv, NatsTypes, NatsBehind, NatsRun, Nats!NoPosition, Nats!Kept
  <2>4. Nats!SkipsNothing'
    BY <2>1 DEF Nats!SkipsNothing, Nats!Kept, Nats!NoPosition
  <2> QED
    BY <2>2, <2>3, <2>4 DEF NatsInv
<1>5. CASE Nats!Begin
  <2>1. /\ UNCHANGED <<start, stream, anew, missed, saved, landed, base, left, rows>>
        /\ pc = "idle" /\ pc' \in {"consumer", "read"} /\ ~Nats!Lost
        /\ from' = Nats!StartOf /\ next' = Nats!StartOf /\ last' = stream.last
    BY <1>5 DEF Nats!Begin, Nats!world, Nats!memory
  <2>2. /\ Nats!StartOf \in Nat /\ stream.first <= Nats!StartOf
        /\ Nats!StartOf <= stream.last + 1 /\ 1 <= Nats!StartOf
        /\ Nats!Kept => Nats!StartOf = saved.next
    BY <1>n, <2>1 DEF Nats!StartOf, Nats!Lost, NatsInv, NatsStream
  <2>3. NatsStream' /\ NatsBehind' /\ Nats!SkipsNothing'
    BY <2>1 DEF NatsInv, NatsStream, NatsBehind, Nats!Kept, Nats!SkipsNothing
  <2>4. NatsTypes'
    BY <1>n, <2>1, <2>2 DEF NatsInv, NatsStream, NatsTypes
  <2>5. NatsRun'
    BY <1>n, <2>1, <2>2 DEF NatsInv, NatsRun, Nats!Kept
  <2> QED
    BY <2>3, <2>4, <2>5 DEF NatsInv
<1>f. ASSUME Nats!Finish, pc # "idle",
             Nats!PastTheEnd => \A q \in next .. last : Passed(q)
      PROVE  NatsInv'
  <2>1. /\ UNCHANGED <<start, stream, anew, missed, saved, landed, base, from, last, rows>>
        /\ pc' = "read" /\ left' = 0
        /\ next' = IF Nats!PastTheEnd THEN Nats!Max({next, last + 1}) ELSE next
    BY <1>f DEF Nats!Finish, Nats!world, Nats!memory
  <2>2. \/ next' = next
        \/ next' = last + 1 /\ next <= last + 1 /\ Nats!PastTheEnd
    BY <1>n, <2>1 DEF Nats!Max
  <2>3. NatsStream' /\ NatsBehind' /\ Nats!SkipsNothing'
    BY <2>1 DEF NatsInv, NatsStream, NatsBehind, Nats!Kept, Nats!SkipsNothing
  <2>4. NatsTypes'
    BY <1>n, <2>1, <2>2 DEF NatsInv, NatsTypes
  <2>5. next <= next' /\ \A q \in from .. next' - 1 : q \in rows \/ Passed(q)
    BY <1>f, <1>n, <2>2 DEF NatsInv, NatsRun
  <2>6. \A q : Passed(q)' <=> Passed(q)
    BY <2>1 DEF Passed
  <2>7. NatsRun'
    <3>1. next' \in Nat /\ \A q \in rows : q \in Nat
      BY <1>n, <2>4 DEF NatsInv, NatsTypes, NatsSizes
    <3>2. from <= next' /\ \A q \in rows : from <= q /\ q < next'
      BY <1>f, <1>n, <2>5, <3>1 DEF NatsInv, NatsRun
    <3> QED
      BY <1>f, <2>1, <2>5, <2>6, <3>2 DEF NatsInv, NatsRun, Nats!Kept
  <2> QED
    BY <2>3, <2>4, <2>7 DEF NatsInv
<1>p. ASSUME pc # "idle", NEW q \in next .. last, q \notin Nats!Pending(next)
      PROVE  Passed(q)
  BY <1>n, <1>p, PendingFacts DEF NatsInv, NatsRun, Passed
<1>6. CASE Nats!CreateConsumer
  <2>1. /\ UNCHANGED <<start, stream, anew, missed, saved, landed, base, from, last, next,
                       left, rows>>
        /\ pc = "consumer" /\ pc' = "reading"
    BY <1>6 DEF Nats!CreateConsumer, Nats!world, Nats!memory, Nats!run
  <2> QED
    BY <2>1 DEF NatsInv, NatsStream, NatsTypes, NatsBehind, NatsRun, Nats!Kept, Passed,
       Nats!SkipsNothing
<1>7. CASE Nats!NothingPending
  <2>1. pc = "consumer" /\ Nats!Pending(from) = {} /\ next = from /\ Nats!Finish
    BY <1>7 DEF Nats!NothingPending, NatsInv, NatsRun
  <2> QED
    BY <1>f, <1>p, <2>1
<1>8. CASE Nats!Deliver
  <2> DEFINE q == Nats!Min(Nats!Pending(next))
  <2>1. /\ UNCHANGED <<start, stream, anew, missed, saved, landed, base, pc, from, last>>
        /\ pc = "reading" /\ Nats!Pending(next) # {} /\ q <= last
        /\ rows' = rows \cup {q} /\ next' = q + 1
        /\ left' = Nats!Cardinality(Nats!Pending(q + 1))
    BY <1>8 DEF Nats!Deliver, Nats!MayRead, Nats!world, Nats!memory
  <2>2. q \in Nats!Pending(next) /\ \A r \in Nats!Pending(next) : q <= r
    <3>1. Nats!Pending(next) \in SUBSET Nat
      BY <1>n, PendingFacts DEF NatsInv
    <3> QED
      BY <2>1, <3>1, LeastExists DEF Nats!Min
  <2>3. q \in Nat /\ next <= q /\ q <= stream.last
    BY <1>n, <2>2, PendingFacts DEF NatsInv
  <2> HIDE DEF q
  <2>4. \A r \in next .. q - 1 : Passed(r)
    <3> SUFFICES ASSUME NEW r \in next .. q - 1 PROVE Passed(r)
      OBVIOUS
    <3>1. r \in next .. last /\ r \in Nat /\ ~(q <= r)
      BY <1>n, <2>1, <2>3
    <3>2. r \notin Nats!Pending(next)
      BY <2>2, <3>1
    <3> QED
      BY <1>p, <2>1, <3>1, <3>2
  <2>5. left' \in Nat /\ (left' = 0 => Nats!Pending(q + 1) = {})
    <3>1. IsFiniteSet(Nats!Pending(q + 1))
      BY <2>3, PendingFacts DEF NatsInv
    <3>2. left' = Cardinality(Nats!Pending(q + 1))
      BY <2>1 DEF Nats!Cardinality, Cardinality
    <3> QED
      BY <3>1, <3>2, FS_CardinalityType, FS_EmptySet
  <2>6. NatsStream' /\ NatsBehind' /\ Nats!SkipsNothing'
    BY <2>1 DEF NatsInv, NatsStream, NatsBehind, Nats!Kept, Nats!SkipsNothing
  <2>7. NatsTypes'
    <3>1. q \in 1 .. MaxMessages
      BY <1>n, <2>1, <2>3 DEF NatsInv, NatsStream, NatsTypes, NatsRun
    <3> QED
      BY <1>n, <2>1, <2>5, <3>1 DEF NatsInv, NatsTypes
  <2>8. \A r : Passed(r)' <=> Passed(r)
    BY <2>1 DEF Passed
  <2>9. left' = 0 => \A r \in next' .. last : Passed(r)
    <3> SUFFICES ASSUME left' = 0, NEW r \in q + 1 .. last PROVE Passed(r)
      BY <2>1
    <3>1. r \notin Nats!Pending(q + 1) /\ r \in Nat /\ q + 1 <= r /\ r <= last
      BY <1>n, <2>3, <2>5
    <3>2. from <= r /\ last <= stream.last
      BY <1>n, <2>1, <2>3, <3>1 DEF NatsInv, NatsRun
    <3>3. CASE r < stream.first
      BY <1>n, <2>1, <3>1, <3>2, <3>3 DEF NatsInv, NatsRun, Passed
    <3>4. CASE stream.first <= r
      BY <1>n, <2>3, <3>1, <3>2, <3>4, PendingFacts DEF NatsInv, Passed
    <3> QED
      BY <1>n, <3>1, <3>3, <3>4
  <2>10. from <= next' /\ \A r \in rows' : from <= r /\ r < next'
    <3>1. \A r \in rows : r \in Nat /\ from <= r /\ r < next
      BY <2>1 DEF NatsInv, NatsRun, NatsTypes, NatsSizes
    <3>2. from <= next
      BY <2>1 DEF NatsInv, NatsRun
    <3> QED
      BY <1>n, <2>1, <2>3, <3>1, <3>2
  <2>11. \A r \in from .. next' - 1 : r \in rows' \/ Passed(r)
    <3> SUFFICES ASSUME NEW r \in from .. q PROVE r \in rows' \/ Passed(r)
      BY <1>n, <2>1, <2>3
    <3>1. r \in from .. next - 1 \/ r \in next .. q - 1 \/ r = q
      BY <1>n, <2>3
    <3> QED
      BY <2>1, <2>4, <3>1 DEF NatsInv, NatsRun
  <2>12. NatsRun'
    BY <2>1, <2>8, <2>9, <2>10, <2>11 DEF NatsInv, NatsRun, Nats!Kept
  <2> QED
    BY <2>6, <2>7, <2>12 DEF NatsInv
<1>9. CASE Nats!DeliverLater
  <2>1. /\ pc = "reading" /\ Nats!Finish /\ Nats!Pending(next) # {}
        /\ Nats!Min(Nats!Pending(next)) > last
    BY <1>9 DEF Nats!DeliverLater, Nats!MayRead
  <2>2. \A r \in Nats!Pending(next) : Nats!Min(Nats!Pending(next)) <= r /\ r \in Nat
    <3>1. Nats!Pending(next) \in SUBSET Nat
      BY <1>n, PendingFacts DEF NatsInv
    <3> QED
      BY <2>1, <3>1, LeastExists DEF Nats!Min
  <2>3. \A r \in next .. last : r \notin Nats!Pending(next)
    <3>1. Nats!Min(Nats!Pending(next)) \in Nat
      <4>1. Nats!Pending(next) \in SUBSET Nat
        BY <1>n, PendingFacts DEF NatsInv
      <4> QED
        BY <2>1, <4>1, LeastExists DEF Nats!Min
    <3> HIDE DEF Nats!Min
    <3> QED
      BY <1>n, <2>1, <2>2, <3>1
  <2> QED
    BY <1>f, <1>p, <2>1, <2>3
<1>10. CASE Nats!ReadStops
  <2>1. pc = "reading" /\ Nats!Finish /\ ~Nats!MayRead
    BY <1>10 DEF Nats!ReadStops
  <2>2. rows = {} => Nats!Cardinality(rows) = 0
    <3>1. Nats!Cardinality({}) = Cardinality({})
      BY DEF Nats!Cardinality, Cardinality
    <3> QED
      BY <3>1, FS_EmptySet
  <2>3. Nats!PastTheEnd => rows # {} /\ left = 0
    BY <1>n, <2>1, <2>2 DEF Nats!PastTheEnd, Nats!MayRead, NatsSizes
  <2> QED
    BY <1>f, <2>1, <2>3 DEF NatsInv, NatsRun
<1>11. CASE Nats!RunSucceeds
  <2>1. /\ UNCHANGED <<start, stream, anew, missed>>
        /\ pc = "read" /\ saved' = [stream |-> "ours", next |-> next]
        /\ landed' = landed \cup rows
        /\ base' = IF Nats!Kept THEN base ELSE from
        /\ pc' = "idle" /\ from' = 0 /\ last' = 0 /\ next' = 0 /\ left' = 0 /\ rows' = {}
    BY <1>11 DEF Nats!RunSucceeds, Nats!world, Nats!Over
  <2>2. /\ 1 <= from /\ from <= next
        /\ Nats!Kept => from = saved.next
        /\ \A q \in rows : from <= q /\ q < next
        /\ \A q \in from .. next - 1 : q \in rows \/ Passed(q)
        /\ \A q \in landed : q \in Nat
    BY <2>1 DEF NatsInv, NatsRun, NatsTypes, NatsSizes
  <2>3. NatsStream' /\ NatsRun'
    BY <2>1 DEF NatsInv, NatsStream, NatsRun
  <2>4. NatsTypes'
    BY <1>n, <2>1, <2>2 DEF NatsInv, NatsTypes, NatsSizes
  <2>5. NatsBehind'
    BY <1>n, <2>1, <2>2 DEF NatsInv, NatsBehind, Nats!Kept
  <2>6. Nats!SkipsNothing'
    <3> SUFFICES ASSUME ~anew, NEW q \in base' .. next - 1
                 PROVE  q \in landed \cup rows \/ Passed(q)
      BY <2>1 DEF Nats!SkipsNothing, Nats!Kept, Passed
    <3>1. CASE q \in from .. next - 1
      BY <2>2, <3>1
    <3>2. CASE q \notin from .. next - 1
      <4>1. Nats!Kept /\ q \in base .. saved.next - 1
        BY <1>n, <2>1, <2>2, <3>2
      <4> QED
        BY <4>1 DEF NatsInv, Nats!SkipsNothing, Passed
    <3> QED
      BY <3>1, <3>2
  <2> QED
    BY <2>3, <2>4, <2>5, <2>6 DEF NatsInv
<1>12. CASE Nats!BeginFails \/ UNCHANGED Nats!vars
  <2>1. UNCHANGED Nats!vars
    BY <1>12 DEF Nats!BeginFails
  <2>2. UNCHANGED <<start, stream, anew, missed, saved, landed, base, pc, from, last, next,
                    left, rows>>
    BY <2>1 DEF Nats!vars, Nats!world, Nats!memory, Nats!run
  <2> QED
    BY <2>2 DEF NatsInv, NatsStream, NatsTypes, NatsBehind, NatsRun, Nats!Kept, Passed,
       Nats!SkipsNothing
<1>13. CASE Nats!ReadFails \/ Nats!RowFails \/ Nats!RunFails
  BY <1>o, <1>13 DEF Nats!ReadFails, Nats!RowFails, Nats!RunFails
<1> QED
  BY <1>1, <1>2, <1>3, <1>4, <1>5, <1>6, <1>7, <1>8, <1>9, <1>10, <1>11, <1>12, <1>13
     DEF Nats!Next, Nats!Server, Nats!Run

LEMMA NatsInit == ASSUME NatsSizes PROVE Nats!Init => NatsInv
BY DEF Nats!Init, NatsInv, NatsStream, NatsTypes, NatsBehind, NatsRun, NatsSizes, Nats!Fresh,
   Nats!NoPosition, Nats!Kept, Nats!SkipsNothing

LEMMA NatsImplies ==
    ASSUME NatsSizes
    PROVE  NatsInv => Nats!TypeOK /\ Nats!SkipsNothing /\ Nats!ReadOnce
<1> SUFFICES ASSUME NatsInv PROVE Nats!TypeOK /\ Nats!ReadOnce
  BY DEF NatsInv
<1>1. Nats!TypeOK
  BY DEF NatsInv, NatsStream, NatsTypes, NatsSizes, Nats!TypeOK
<1>2. ASSUME NEW q \in rows, q \in landed PROVE FALSE
  <2>1. q \in Nat /\ saved.next \in Nat /\ from \in Nat
    BY <1>2 DEF NatsInv, NatsTypes, NatsSizes
  <2>2. pc # "idle" /\ from <= q
    BY <1>2 DEF NatsInv, NatsRun
  <2>3. Nats!Kept /\ q < saved.next
    BY <1>2 DEF NatsInv, NatsBehind
  <2>4. from = saved.next
    BY <2>2, <2>3 DEF NatsInv, NatsRun
  <2> QED
    BY <2>1, <2>2, <2>3, <2>4
<1> QED
  BY <1>1, <1>2 DEF Nats!ReadOnce

(* The NATS reader (nats.rs, read_batch), for any stream and max_records:  *)
(* its position never lies past a matching message that no successful run  *)
(* delivered, but for those the server let go where no run could see it;   *)
(* and no message is delivered twice.                                      *)
THEOREM NatsReadsTheorem == ASSUME NatsSizes PROVE Spec => []NatsReads
<1> DEFINE Inv == which = "nats" => NatsInv
<1>1. Init => Inv
  BY NatsInit DEF Init
<1>2. Inv /\ [Next]_all => Inv'
  <2> SUFFICES ASSUME Inv, [Next]_all, which' = "nats" PROVE NatsInv'
    OBVIOUS
  <2>1. which = "nats" /\ [Nats!Next]_Nats!vars
    BY DEF Next, all, ofNats, Nats!vars, Nats!world, Nats!memory, Nats!run
  <2> QED
    BY <2>1, NatsStep
<1>3. Inv => NatsReads
  BY NatsImplies DEF NatsReads
<1> QED
  BY <1>1, <1>2, <1>3, PTL DEF Spec

-----------------------------------------------------------------------------
(* The Kafka reader.                                                       *)

LEMMA GreatestExists ==
    ASSUME NEW S \in SUBSET Nat, S # {}, NEW n \in Nat, \A x \in S : x <= n
    PROVE  \E x \in S : \A y \in S : y <= x
<1> DEFINE T == {m \in Nat : \A x \in S : x <= m}
<1>1. T \in SUBSET Nat /\ T # {}
  OBVIOUS
<1>2. PICK m \in T : \A y \in T : m <= y
  <2> HIDE DEF T
  <2> QED
    BY <1>1, LeastExists
<1>3. m \in S
  <2> SUFFICES ASSUME m \notin S PROVE FALSE
    OBVIOUS
  <2>0. m \in Nat /\ \A x \in S : x \in Nat /\ x < m
    BY <1>2
  <2>1. m > 0 /\ \A x \in S : x <= m - 1
    <3>1. PICK x \in S : TRUE
      OBVIOUS
    <3>2. m > 0
      BY <2>0, <3>1
    <3>3. ASSUME NEW y \in S PROVE y <= m - 1
      BY <2>0, <3>3
    <3> QED
      BY <3>2, <3>3
  <2>2. m - 1 \in T
    BY <1>2, <2>1
  <2> QED
    BY <1>2, <2>2
<1> QED
  BY <1>2, <1>3

LEMMA MaxFacts ==
    ASSUME NEW S \in SUBSET Nat, S # {}, NEW n \in Nat, \A x \in S : x <= n
    PROVE  Kafka!Max(S) \in S /\ \A x \in S : x <= Kafka!Max(S)
BY GreatestExists DEF Kafka!Max

LEMMA KafkaCardinality == ASSUME NEW S PROVE Kafka!Cardinality(S) = Cardinality(S)
BY DEF Kafka!Cardinality, Cardinality

(* The first n of a set of offsets: with each, all that are before it; all *)
(* of none or some; and no more than n.                                    *)
LEMMA FirstFacts ==
    ASSUME NEW S \in SUBSET Nat, NEW b \in Nat, \A x \in S : x <= b, NEW n \in Nat
    PROVE  /\ Kafka!First(n, S) \subseteq S
           /\ \A o \in Kafka!First(n, S) : \A q \in S : q < o => q \in Kafka!First(n, S)
           /\ n > 0 /\ S # {} => Kafka!First(n, S) # {}
           /\ Kafka!Cardinality(Kafka!First(n, S)) \in 0 .. n
<1> DEFINE F == Kafka!First(n, S)
           Below(o) == {q \in S : q < o}
<1>0. \A o \in S : o \in F <=> Cardinality(Below(o)) < n
  BY KafkaCardinality DEF Kafka!First
<1>1. F \subseteq S
  BY DEF Kafka!First
<1>2. IsFiniteSet(S)
  BY FS_BoundedSetOfNaturals
<1>3. \A o \in S : IsFiniteSet(Below(o)) /\ Cardinality(Below(o)) \in Nat
  <2> SUFFICES ASSUME NEW o \in S
               PROVE  IsFiniteSet(Below(o)) /\ Cardinality(Below(o)) \in Nat
    OBVIOUS
  <2>1. Below(o) \in SUBSET S
    OBVIOUS
  <2> QED
    BY <1>2, <2>1, FS_Subset, FS_CardinalityType
<1>4. ASSUME NEW o \in F, NEW q \in S, q < o PROVE q \in F
  <2>0. o \in Nat /\ q \in Nat
    BY <1>1
  <2>1. Below(q) \in SUBSET Below(o)
    <3> SUFFICES ASSUME NEW r \in S, r < q PROVE r < o
      OBVIOUS
    <3>1. r \in Nat
      OBVIOUS
    <3> QED
      BY <1>4, <2>0, <3>1
  <2>2. Cardinality(Below(q)) <= Cardinality(Below(o))
    BY <1>1, <1>3, <2>1, FS_Subset
  <2>3. Cardinality(Below(o)) < n
    BY <1>0, <1>1
  <2>4. Cardinality(Below(q)) \in Nat /\ Cardinality(Below(o)) \in Nat
    BY <1>1, <1>3
  <2>5. Cardinality(Below(q)) < n
    <3> HIDE DEF Below
    <3> QED
      BY <2>2, <2>3, <2>4
  <2> QED
    BY <1>0, <2>5
<1>5. ASSUME n > 0, S # {} PROVE F # {}
  <2>1. PICK o \in S : \A y \in S : o <= y
    BY <1>5, LeastExists
  <2>2. Below(o) = {}
    <3> SUFFICES ASSUME NEW q \in S, q < o PROVE FALSE
      OBVIOUS
    <3>1. o <= q /\ o \in Nat /\ q \in Nat
      BY <2>1
    <3> QED
      BY <3>1
  <2>3. Cardinality(Below(o)) = 0
    BY <2>2, FS_EmptySet
  <2> QED
    BY <1>0, <1>5, <2>3
<1>6. IsFiniteSet(F) /\ Cardinality(F) \in Nat
  BY <1>1, <1>2, FS_Subset, FS_CardinalityType
<1>7. Cardinality(F) <= n
  <2>1. CASE F = {}
    BY <2>1, FS_EmptySet
  <2>2. CASE F # {}
    <3>1. F \in SUBSET Nat /\ \A x \in F : x <= b
      BY <1>1
    <3>2. PICK m \in F : \A y \in F : y <= m
      <4> HIDE DEF F
      <4> QED
        BY <2>2, <3>1, GreatestExists
    <3>3. F \ {m} \in SUBSET Below(m)
      <4> SUFFICES ASSUME NEW q \in F, q # m PROVE q \in S /\ q < m
        OBVIOUS
      <4>1. q <= m /\ q \in S /\ q \in Nat /\ m \in Nat
        BY <1>1, <3>2
      <4> QED
        BY <4>1
    <3>4. Cardinality(F \ {m}) <= Cardinality(Below(m))
      BY <1>1, <1>3, <3>3, FS_Subset
    <3>5. Cardinality(F \ {m}) = Cardinality(F) - 1
      BY <1>6, FS_RemoveElement
    <3>6. Cardinality(Below(m)) < n /\ Cardinality(Below(m)) \in Nat
      BY <1>0, <1>1, <1>3
    <3> HIDE DEF F, Below
    <3> QED
      BY <1>6, <3>4, <3>5, <3>6
  <2> QED
    BY <2>1, <2>2
<1>8. Kafka!Cardinality(F) \in 0 .. n
  BY <1>6, <1>7, KafkaCardinality
<1> QED
  BY <1>1, <1>4, <1>5, <1>8

KafkaSizes == PartitionCount \in Nat \ {0} /\ MaxRecords \in Nat /\ MaxOffset \in Nat

KafkaTopic ==
    /\ topic \in [DOMAIN topic -> [first : Nat, end : Nat, blank : SUBSET Nat]]
    /\ DOMAIN topic \subseteq Kafka!Partitions
    /\ \A p \in DOMAIN topic : /\ topic[p].end <= MaxOffset
                               /\ topic[p].first <= topic[p].end
                               /\ topic[p].blank \subseteq 0 .. topic[p].end - 1

Records == Kafka!Partitions \X (0 .. MaxOffset - 1)

KafkaTypes ==
    /\ start \in {"earliest", "latest"}
    /\ saved.topic \in {"none", "ours", "other"}
    /\ \A p \in DOMAIN saved.next : saved.next[p] \in Nat
    /\ base \in [Kafka!Partitions -> Nat]
    /\ landed \subseteq Records /\ rows \subseteq Records
    /\ pc \in {"idle", "asking", "reading"}
    /\ budget \in 0 .. MaxRecords

Ours(p) == saved.topic = "ours" /\ p \in DOMAIN saved.next

(* What the successful runs delivered lies behind the position, which is   *)
(* of partitions that there are unless the topic was made anew.            *)
KafkaBehind ==
    /\ saved.topic = "ours" /\ ~anew => DOMAIN saved.next \subseteq DOMAIN topic
    /\ \A p \in Kafka!Partitions : \A o \in Nat : <<p, o>> \in landed =>
          /\ Ours(p) /\ p \in DOMAIN topic /\ o < saved.next[p]
          /\ pc # "idle" => p \in listed

(* What was asked: of partitions of the topic, and not past their end.     *)
KafkaAsked ==
    /\ pc = "idle" => DOMAIN bounds = {}
    /\ pc # "idle" => listed \subseteq DOMAIN topic /\ DOMAIN bounds \subseteq listed
    /\ \A p \in DOMAIN bounds : /\ bounds[p] \in [earliest : Nat, latest : Nat]
                                /\ bounds[p].earliest <= bounds[p].latest
                                /\ bounds[p].latest <= topic[p].end

(* Where the reading of a partition is: from the position, behind the end  *)
(* that was recorded, with all that is readable up to there written.       *)
KafkaAt(p) ==
    /\ from[p] \in Nat /\ next[p] \in Nat
    /\ from[p] <= next[p] /\ next[p] <= bounds[p].latest
    /\ Ours(p) => from[p] = saved.next[p]
    /\ \A o \in from[p] .. next[p] - 1 : <<p, o>> \in rows \/ o \in topic[p].blank

KafkaRun ==
    /\ pc # "reading" => rows = {}
    /\ pc = "reading" =>
        /\ DOMAIN bounds = listed /\ DOMAIN from = listed /\ DOMAIN next = listed
        /\ next \in [listed -> Nat]
        /\ \A p \in listed : KafkaAt(p)
        /\ \A p \in Kafka!Partitions : \A o \in Nat : <<p, o>> \in rows =>
              p \in listed /\ from[p] <= o /\ o < next[p]

KafkaInv ==
    /\ anew \in BOOLEAN
    /\ KafkaTopic /\ KafkaTypes /\ KafkaBehind /\ KafkaAsked /\ KafkaRun
    /\ Kafka!SkipsNothing

(* The broker adds records, blanks and partitions under a run that goes on.*)
LEMMA KafkaGrows ==
    ASSUME KafkaSizes, KafkaInv, KafkaTopic',
           UNCHANGED <<start, anew, saved, landed, base, pc, listed, bounds, from, next,
                       budget, rows>>,
           DOMAIN topic \subseteq DOMAIN topic',
           \A p \in DOMAIN topic : /\ topic[p].end <= topic'[p].end
                                   /\ topic[p].blank \subseteq topic'[p].blank
    PROVE  KafkaInv'
<1>1. KafkaTypes' /\ anew' \in BOOLEAN
  BY DEF KafkaInv, KafkaTypes
<1>2. KafkaBehind'
  BY DEF KafkaInv, KafkaBehind, Ours
<1>3. KafkaAsked'
  <2> SUFFICES ASSUME NEW p \in DOMAIN bounds PROVE bounds[p].latest <= topic'[p].end
    BY DEF KafkaInv, KafkaAsked
  <2>1. p \in DOMAIN topic /\ bounds[p].latest <= topic[p].end /\ bounds[p].latest \in Nat
    BY DEF KafkaInv, KafkaAsked
  <2>2. topic[p].end \in Nat /\ topic'[p].end \in Nat /\ topic[p].end <= topic'[p].end
    BY <2>1 DEF KafkaInv, KafkaTopic
  <2> QED
    BY <2>1, <2>2
<1>4. KafkaRun'
  <2>1. ASSUME pc = "reading", NEW p \in listed PROVE KafkaAt(p)'
    <3>1. KafkaAt(p) /\ p \in DOMAIN topic
      BY <2>1 DEF KafkaInv, KafkaRun, KafkaAsked
    <3> QED
      BY <3>1 DEF KafkaAt, Ours
  <2> QED
    BY <2>1 DEF KafkaInv, KafkaRun
<1>5. Kafka!SkipsNothing'
  BY DEF KafkaInv, KafkaBehind, Kafka!SkipsNothing
<1> QED
  BY <1>1, <1>2, <1>3, <1>4, <1>5 DEF KafkaInv

(* A run that ends without a word leaves all as it was.                    *)
LEMMA KafkaOver ==
    ASSUME KafkaSizes, KafkaInv, Kafka!Over, UNCHANGED <<Kafka!world, Kafka!memory>>
    PROVE  KafkaInv'
<1>1. /\ UNCHANGED <<start, topic, anew, saved, landed, base>>
      /\ pc' = "idle" /\ rows' = {} /\ budget' = 0 /\ bounds' = <<>>
  BY DEF Kafka!Over, Kafka!world, Kafka!memory
<1>2. DOMAIN bounds' = {}
  BY <1>1
<1> QED
  BY <1>1, <1>2 DEF KafkaInv, KafkaTopic, KafkaTypes, KafkaBehind, KafkaAsked, KafkaRun, Ours,
     Kafka!SkipsNothing, KafkaSizes

LEMMA KafkaBroker == ASSUME KafkaSizes, KafkaInv, Kafka!Broker PROVE KafkaInv'
<1>t. /\ topic \in [DOMAIN topic -> [first : Nat, end : Nat, blank : SUBSET Nat]]
      /\ DOMAIN topic \subseteq Kafka!Partitions
      /\ \A p \in DOMAIN topic : /\ topic[p].end <= MaxOffset
                                 /\ topic[p].first <= topic[p].end
                                 /\ topic[p].blank \subseteq 0 .. topic[p].end - 1
                                 /\ topic[p].end \in Nat /\ topic[p].first \in Nat
  BY DEF KafkaInv, KafkaTopic
<1>m. MaxOffset \in Nat
  BY DEF KafkaSizes
<1>g. ASSUME NEW p \in DOMAIN topic, NEW r \in [first : Nat, end : Nat, blank : SUBSET Nat],
             topic' = [topic EXCEPT ![p] = r], r.end <= MaxOffset, r.first <= r.end,
             r.blank \subseteq 0 .. r.end - 1,
             topic[p].end <= r.end, topic[p].blank \subseteq r.blank,
             UNCHANGED <<start, anew, Kafka!memory, pc, Kafka!run>>
      PROVE  KafkaInv'
  <2>1. /\ DOMAIN topic' = DOMAIN topic
        /\ \A q \in DOMAIN topic : topic'[q] = IF q = p THEN r ELSE topic[q]
    BY <1>g
  <2>2. KafkaTopic'
    BY <1>g, <1>t, <2>1 DEF KafkaTopic
  <2>3. UNCHANGED <<start, anew, saved, landed, base, pc, listed, bounds, from, next, budget,
                    rows>>
    BY <1>g DEF Kafka!memory, Kafka!run
  <2>4. \A q \in DOMAIN topic : /\ topic[q].end <= topic'[q].end
                                /\ topic[q].blank \subseteq topic'[q].blank
    BY <1>g, <1>t, <2>1
  <2> QED
    BY <2>1, <2>2, <2>3, <2>4, KafkaGrows
<1>1. ASSUME NEW p \in DOMAIN topic, Kafka!Produce(p) PROVE KafkaInv'
  <2> DEFINE r == [topic[p] EXCEPT !.end = topic[p].end + 1]
  <2>1. topic' = [topic EXCEPT ![p] = r] /\ topic[p].end < MaxOffset
    BY <1>1 DEF Kafka!Produce
  <2>2. /\ r \in [first : Nat, end : Nat, blank : SUBSET Nat]
        /\ r.end = topic[p].end + 1 /\ r.first = topic[p].first /\ r.blank = topic[p].blank
    BY <1>t
  <2> HIDE DEF r
  <2>3. /\ r.end <= MaxOffset /\ r.first <= r.end /\ r.blank \subseteq 0 .. r.end - 1
        /\ topic[p].end <= r.end /\ topic[p].blank \subseteq r.blank
    BY <1>m, <1>t, <2>1, <2>2
  <2> QED
    BY <1>1, <1>g, <2>1, <2>2, <2>3 DEF Kafka!Produce
<1>2. ASSUME NEW p \in DOMAIN topic, Kafka!Compact(p) PROVE KafkaInv'
  <2>0. PICK o \in Kafka!Readable(p) :
           topic' = [topic EXCEPT ![p] = [topic[p] EXCEPT !.blank = topic[p].blank \cup {o}]]
    BY <1>2 DEF Kafka!Compact
  <2> DEFINE r == [topic[p] EXCEPT !.blank = topic[p].blank \cup {o}]
  <2>1. o \in 0 .. topic[p].end - 1
    BY <1>t DEF Kafka!Readable
  <2>2. /\ r \in [first : Nat, end : Nat, blank : SUBSET Nat]
        /\ r.end = topic[p].end /\ r.first = topic[p].first
        /\ r.blank = topic[p].blank \cup {o}
    BY <1>t, <2>1
  <2>4. topic' = [topic EXCEPT ![p] = r]
    BY <2>0
  <2> HIDE DEF r
  <2>3. /\ r.end <= MaxOffset /\ r.first <= r.end /\ r.blank \subseteq 0 .. r.end - 1
        /\ topic[p].end <= r.end /\ topic[p].blank \subseteq r.blank
    BY <1>m, <1>t, <2>1, <2>2
  <2> QED
    BY <1>2, <1>g, <2>2, <2>3, <2>4 DEF Kafka!Compact
<1>3. ASSUME NEW p \in DOMAIN topic, Kafka!Expire(p) PROVE KafkaInv'
  <2> DEFINE r == [topic[p] EXCEPT !.first = topic[p].first + 1]
  <2>1. topic' = [topic EXCEPT ![p] = r] /\ topic[p].first < topic[p].end
    BY <1>3 DEF Kafka!Expire
  <2>2. /\ r \in [first : Nat, end : Nat, blank : SUBSET Nat]
        /\ r.end = topic[p].end /\ r.first = topic[p].first + 1 /\ r.blank = topic[p].blank
    BY <1>t
  <2> HIDE DEF r
  <2>3. /\ r.end <= MaxOffset /\ r.first <= r.end /\ r.blank \subseteq 0 .. r.end - 1
        /\ topic[p].end <= r.end /\ topic[p].blank \subseteq r.blank
    BY <1>m, <1>t, <2>1, <2>2
  <2> QED
    BY <1>3, <1>g, <2>1, <2>2, <2>3 DEF Kafka!Expire
<1>4. CASE Kafka!AddPartition
  <2>1. PICK p \in Kafka!Partitions \ DOMAIN topic :
           topic' = [q \in DOMAIN topic \cup {p} |-> IF q = p THEN Kafka!Fresh ELSE topic[q]]
    BY <1>4 DEF Kafka!AddPartition
  <2>2. /\ DOMAIN topic' = DOMAIN topic \cup {p}
        /\ topic'[p] = Kafka!Fresh
        /\ \A q \in DOMAIN topic : topic'[q] = topic[q]
    BY <2>1
  <2>3. KafkaTopic'
    <3>1. topic' \in [DOMAIN topic' -> [first : Nat, end : Nat, blank : SUBSET Nat]]
      BY <1>t, <2>1 DEF Kafka!Fresh
    <3> QED
      BY <1>m, <1>t, <2>2, <3>1 DEF KafkaTopic, Kafka!Fresh
  <2>4. UNCHANGED <<start, anew, saved, landed, base, pc, listed, bounds, from, next, budget,
                    rows>>
    BY <1>4 DEF Kafka!AddPartition, Kafka!memory, Kafka!run
  <2>5. \A q \in DOMAIN topic : /\ topic[q].end <= topic'[q].end
                                /\ topic[q].blank \subseteq topic'[q].blank
    BY <1>t, <2>2
  <2> QED
    BY <2>2, <2>3, <2>4, <2>5, KafkaGrows
<1>5. CASE Kafka!MakeAnew
  <2>1. /\ pc = "idle" /\ anew' = TRUE /\ topic' = [p \in {1} |-> Kafka!Fresh]
        /\ landed' = {}
        /\ UNCHANGED <<start, saved, base, pc, listed, bounds, from, next, budget, rows>>
    BY <1>5 DEF Kafka!MakeAnew, Kafka!run
  <2>2. KafkaTopic'
    BY <2>1 DEF KafkaTopic, Kafka!Fresh, Kafka!Partitions, KafkaSizes
  <2>3. anew' \in BOOLEAN
    BY <2>1
  <2> QED
    BY <2>1, <2>2, <2>3 DEF KafkaInv, KafkaTypes, KafkaBehind, KafkaAsked, KafkaRun,
       Kafka!SkipsNothing
<1> QED
  BY <1>1, <1>2, <1>3, <1>4, <1>5 DEF Kafka!Broker

LEMMA KafkaPlans ==
    ASSUME KafkaSizes, KafkaInv,
           \/ Kafka!Begin
           \/ \E p \in DOMAIN topic : Kafka!Ask(p)
           \/ Kafka!PlanSpans
    PROVE  KafkaInv'
<1>0. UNCHANGED <<start, topic, anew, saved, landed, base, rows>>
  BY DEF Kafka!Begin, Kafka!Ask, Kafka!PlanSpans, Kafka!world, Kafka!memory
<1>1. KafkaTopic' /\ Kafka!SkipsNothing' /\ anew' \in BOOLEAN
  BY <1>0 DEF KafkaInv, KafkaTopic, Kafka!SkipsNothing
<1>2. CASE Kafka!Begin
  <2>1. /\ pc = "idle" /\ pc' = "asking" /\ listed' = DOMAIN topic
        /\ UNCHANGED <<bounds, budget>>
    BY <1>2 DEF Kafka!Begin
  <2> QED
    BY <1>0, <1>1, <2>1 DEF KafkaInv, KafkaTypes, KafkaBehind, KafkaAsked, KafkaRun, Ours
<1>3. ASSUME NEW p \in DOMAIN topic, Kafka!Ask(p) PROVE KafkaInv'
  <2>1. /\ pc = "asking" /\ UNCHANGED <<pc, listed, budget>> /\ p \in listed
        /\ bounds' = [q \in DOMAIN bounds \cup {p} |->
             IF q = p THEN [earliest |-> topic[p].first, latest |-> topic[p].end]
             ELSE bounds[q]]
    BY <1>3 DEF Kafka!Ask, Kafka!Unasked
  <2>2. /\ DOMAIN bounds' = DOMAIN bounds \cup {p}
        /\ bounds'[p] = [earliest |-> topic[p].first, latest |-> topic[p].end]
        /\ \A q \in DOMAIN bounds : q # p => bounds'[q] = bounds[q]
    BY <2>1
  <2>3. topic[p].first \in Nat /\ topic[p].end \in Nat /\ topic[p].first <= topic[p].end
    BY DEF KafkaInv, KafkaTopic
  <2>4. KafkaAsked'
    BY <1>0, <2>1, <2>2, <2>3 DEF KafkaInv, KafkaAsked
  <2> QED
    BY <1>0, <1>1, <2>1, <2>4 DEF KafkaInv, KafkaTypes, KafkaBehind, KafkaRun, Ours
<1>4. CASE Kafka!PlanSpans
  <2>1. /\ pc = "asking" /\ pc' = "reading" /\ UNCHANGED <<listed, bounds>>
        /\ listed \ DOMAIN bounds = {}
        /\ \A p \in DOMAIN bounds : ~Kafka!Lost(p)
        /\ from' = [p \in DOMAIN bounds |-> Kafka!StartOf(p)] /\ next' = from'
        /\ budget' = MaxRecords
    BY <1>4 DEF Kafka!PlanSpans, Kafka!Unasked
  <2>2. DOMAIN bounds = listed /\ rows = {}
    BY <2>1 DEF KafkaInv, KafkaAsked, KafkaRun
  <2>3. ASSUME NEW p \in listed
        PROVE  /\ Kafka!StartOf(p) \in Nat /\ Kafka!StartOf(p) <= bounds[p].latest
               /\ Ours(p) => Kafka!StartOf(p) = saved.next[p]
    <3>1. /\ bounds[p].earliest \in Nat /\ bounds[p].latest \in Nat
          /\ bounds[p].earliest <= bounds[p].latest
      BY <2>2 DEF KafkaInv, KafkaAsked
    <3>2. CASE Ours(p)
      <4>1. Kafka!Kept = saved.next /\ p \in DOMAIN Kafka!Kept /\ saved.next[p] \in Nat
        BY <3>2 DEF Ours, Kafka!Kept, KafkaInv, KafkaTypes
      <4>2. ~(saved.next[p] > bounds[p].latest)
        BY <2>1, <2>2, <4>1 DEF Kafka!Lost
      <4> QED
        BY <3>1, <4>1, <4>2 DEF Kafka!StartOf
    <3>3. CASE ~Ours(p)
      <4>1. DOMAIN <<>> = {}
        OBVIOUS
      <4>2. p \notin DOMAIN Kafka!Kept
        BY <3>3, <4>1 DEF Ours, Kafka!Kept
      <4> QED
        BY <3>1, <3>3, <4>2 DEF Kafka!StartOf
    <3> QED
      BY <3>2, <3>3
  <2>4. /\ DOMAIN from' = listed /\ DOMAIN next' = listed /\ next' \in [listed -> Nat]
        /\ \A p \in listed : from'[p] = Kafka!StartOf(p) /\ next'[p] = Kafka!StartOf(p)
    BY <2>1, <2>2, <2>3
  <2>5. ASSUME NEW p \in listed PROVE KafkaAt(p)'
    BY <1>0, <2>1, <2>3, <2>4 DEF KafkaAt, Ours
  <2>6. KafkaRun'
    BY <1>0, <2>1, <2>2, <2>4, <2>5 DEF KafkaRun
  <2> QED
    BY <1>0, <1>1, <2>1, <2>6 DEF KafkaInv, KafkaTypes, KafkaBehind, KafkaAsked, Ours,
       KafkaSizes
<1> QED
  BY <1>2, <1>3, <1>4

(* What a fetch writes: in order, with nothing readable left out up to     *)
(* where it leaves the partition.                                          *)
LEMMA FetchFacts ==
    ASSUME KafkaSizes, KafkaInv, NEW p \in DOMAIN next, Kafka!Fetch(p)
    PROVE  \E w \in SUBSET Nat :
             /\ next' = [next EXCEPT ![p] = Kafka!NextOf(p, w)]
             /\ rows' = rows \cup {<<p, o>> : o \in w}
             /\ budget' \in 0 .. MaxRecords
             /\ \A o \in w : next[p] <= o /\ o < Kafka!NextOf(p, w)
             /\ Kafka!NextOf(p, w) \in Nat /\ next[p] <= Kafka!NextOf(p, w)
             /\ Kafka!NextOf(p, w) <= bounds[p].latest
             /\ \A o \in next[p] .. Kafka!NextOf(p, w) - 1 : o \in w \/ o \in topic[p].blank
<1> DEFINE held == {o \in Kafka!Readable(p) : o >= next[p]}
           answer(size) == Kafka!First(size, held)
           span(size) == {o \in answer(size) : o < bounds[p].latest}
           w(size) == Kafka!Written(p, answer(size))
<1>0. /\ pc = "reading" /\ budget > 0 /\ p \in DOMAIN topic /\ next[p] >= topic[p].first
  BY DEF Kafka!Fetch
<1>n. /\ topic[p].first \in Nat /\ topic[p].end \in Nat /\ next[p] \in Nat
      /\ bounds[p].latest \in Nat /\ bounds[p].latest <= topic[p].end
      /\ next[p] <= bounds[p].latest
      /\ budget \in 0 .. MaxRecords /\ budget \in Nat /\ MaxRecords \in Nat
  <2>1. p \in listed /\ KafkaAt(p) /\ p \in DOMAIN bounds
    BY <1>0 DEF KafkaInv, KafkaRun
  <2> QED
    BY <1>0, <2>1 DEF KafkaInv, KafkaTopic, KafkaTypes, KafkaAsked, KafkaAt, KafkaSizes
<1>h. /\ held \in SUBSET Nat /\ \A o \in held : o <= topic[p].end
      /\ \A o \in held : next[p] <= o
      /\ \A o \in next[p] .. bounds[p].latest - 1 : o \in held \/ o \in topic[p].blank
  BY <1>0, <1>n DEF Kafka!Readable
<1>1. PICK size \in Nat :
        /\ held # {} => size > 0
        /\ next' = [next EXCEPT ![p] = Kafka!NextOf(p, w(size))]
        /\ rows' = rows \cup {<<p, o>> : o \in w(size)}
        /\ budget' = budget - Kafka!Cardinality(w(size))
  <2>1. PICK size \in (IF held = {} THEN {0} ELSE 1 .. Kafka!Cardinality(held)) :
        /\ next' = [next EXCEPT ![p] = Kafka!NextOf(p, w(size))]
        /\ rows' = rows \cup {<<p, o>> : o \in w(size)}
        /\ budget' = budget - Kafka!Cardinality(w(size))
    BY DEF Kafka!Fetch
  <2>2. size \in Nat /\ (held # {} => size > 0)
    <3>1. Kafka!Cardinality(held) \in Nat
      BY <1>h, <1>n, KafkaCardinality, FS_BoundedSetOfNaturals, FS_CardinalityType
    <3> HIDE DEF held
    <3> QED
      BY <2>1, <3>1
  <2> QED
    BY <2>1, <2>2
<1> DEFINE a == answer(size)
           sp == span(size)
           ww == w(size)
<1>2. /\ a \subseteq held
      /\ \A o \in a : \A q \in held : q < o => q \in a
      /\ held # {} => a # {}
  <2> HIDE DEF held
  <2> QED
    BY <1>1, <1>h, <1>n, FirstFacts
<1>3. sp \in SUBSET Nat /\ \A o \in sp : o <= topic[p].end
  <2> HIDE DEF a, held
  <2>1. sp \subseteq a
    BY DEF a
  <2> QED
    BY <1>2, <1>h, <2>1
<1>4. /\ ww \subseteq sp
      /\ \A o \in ww : \A q \in sp : q < o => q \in ww
      /\ sp # {} => ww # {}
      /\ Kafka!Cardinality(ww) \in 0 .. budget
  <2>1. ww = Kafka!First(budget, sp)
    BY DEF Kafka!Written
  <2> HIDE DEF ww, sp
  <2> QED
    BY <1>0, <1>3, <1>n, <2>1, FirstFacts
<1>5. \A o : o \in sp <=> o \in a /\ o < bounds[p].latest
  OBVIOUS
<1>6. /\ next' = [next EXCEPT ![p] = Kafka!NextOf(p, ww)]
      /\ rows' = rows \cup {<<p, o>> : o \in ww}
      /\ budget' = budget - Kafka!Cardinality(ww)
  BY <1>1
<1> HIDE DEF ww, sp, a, held
<1>7. budget' \in 0 .. MaxRecords
  BY <1>4, <1>6, <1>n
<1>8. ww \in SUBSET Nat
  BY <1>3, <1>4
<1> DEFINE Goal ==
             /\ \A o \in ww : next[p] <= o /\ o < Kafka!NextOf(p, ww)
             /\ Kafka!NextOf(p, ww) \in Nat /\ next[p] <= Kafka!NextOf(p, ww)
             /\ Kafka!NextOf(p, ww) <= bounds[p].latest
             /\ \A o \in next[p] .. Kafka!NextOf(p, ww) - 1 : o \in ww \/ o \in topic[p].blank
<1>9. ASSUME ww = {} PROVE Goal
  <2>1. Kafka!NextOf(p, ww) = bounds[p].latest
    BY <1>9 DEF Kafka!NextOf
  <2>2. ASSUME NEW o \in next[p] .. bounds[p].latest - 1 PROVE o \in topic[p].blank
    <3> SUFFICES ASSUME o \in held PROVE FALSE
      BY <1>h
    <3>1. o \in Nat /\ o < bounds[p].latest
      BY <1>n
    <3>2. PICK x \in a : TRUE
      BY <1>2
    <3>3. x \in held /\ x \in Nat
      BY <1>2, <1>h
    <3>4. CASE o < x
      BY <1>2, <1>4, <1>5, <1>9, <3>1, <3>4
    <3>5. CASE x <= o
      <4>1. x < bounds[p].latest
        BY <1>n, <3>1, <3>3, <3>5
      <4> QED
        BY <1>4, <1>5, <1>9, <3>2, <4>1
    <3> QED
      BY <3>1, <3>3, <3>4, <3>5
  <2> QED
    BY <1>9, <1>n, <2>1, <2>2
<1>10. ASSUME ww # {} PROVE Goal
  <2> DEFINE m == Kafka!Max(ww)
  <2>1. m \in ww /\ \A x \in ww : x <= m
    <3>1. \A x \in ww : x <= topic[p].end
      BY <1>3, <1>4
    <3> QED
      BY <1>8, <1>10, <1>n, <3>1, MaxFacts
  <2>2. Kafka!NextOf(p, ww) = m + 1
    BY <1>10 DEF Kafka!NextOf
  <2> HIDE DEF m
  <2>3. m \in Nat /\ m \in sp /\ m \in a /\ m \in held /\ m < bounds[p].latest /\ next[p] <= m
    BY <1>2, <1>4, <1>5, <1>8, <1>h, <2>1
  <2>4. ASSUME NEW o \in ww PROVE next[p] <= o /\ o < m + 1
    <3>1. o \in Nat /\ o <= m /\ o \in held
      BY <1>2, <1>4, <1>5, <1>8, <2>1
    <3> QED
      BY <1>h, <2>3, <3>1
  <2>5. ASSUME NEW o \in next[p] .. m PROVE o \in ww \/ o \in topic[p].blank
    <3> SUFFICES ASSUME o \in held, o # m PROVE o \in ww
      BY <1>h, <1>n, <2>1, <2>3
    <3>1. o \in Nat /\ o < m /\ o < bounds[p].latest
      BY <1>n, <2>3
    <3>2. o \in a
      BY <1>2, <2>3, <3>1
    <3>3. o \in sp
      BY <1>5, <3>1, <3>2
    <3> QED
      BY <1>4, <2>1, <3>1, <3>3
  <2>6. /\ m + 1 \in Nat /\ next[p] <= m + 1 /\ m + 1 <= bounds[p].latest
        /\ next[p] .. (m + 1) - 1 = next[p] .. m
    BY <1>n, <2>3
  <2> QED
    BY <2>2, <2>4, <2>5, <2>6
<1>11. Goal
  BY <1>9, <1>10
<1> WITNESS ww \in SUBSET Nat
<1> QED
  BY <1>6, <1>7, <1>11

LEMMA KafkaFetches ==
    ASSUME KafkaSizes, KafkaInv, NEW p \in DOMAIN next, Kafka!Fetch(p)
    PROVE  KafkaInv'
<1>0. /\ pc = "reading" /\ pc' = pc
      /\ UNCHANGED <<start, topic, anew, saved, landed, base, listed, bounds, from>>
  BY DEF Kafka!Fetch, Kafka!world, Kafka!memory
<1>1. PICK w \in SUBSET Nat :
        /\ next' = [next EXCEPT ![p] = Kafka!NextOf(p, w)]
        /\ rows' = rows \cup {<<p, o>> : o \in w}
        /\ budget' \in 0 .. MaxRecords
        /\ \A o \in w : next[p] <= o /\ o < Kafka!NextOf(p, w)
        /\ Kafka!NextOf(p, w) \in Nat /\ next[p] <= Kafka!NextOf(p, w)
        /\ Kafka!NextOf(p, w) <= bounds[p].latest
        /\ \A o \in next[p] .. Kafka!NextOf(p, w) - 1 : o \in w \/ o \in topic[p].blank
  BY FetchFacts
<1> DEFINE n == Kafka!NextOf(p, w)
<1>2. /\ p \in listed /\ DOMAIN bounds = listed /\ DOMAIN from = listed /\ DOMAIN next = listed
      /\ next \in [listed -> Nat] /\ \A q \in listed : KafkaAt(q)
      /\ \A q \in Kafka!Partitions : \A o \in Nat : <<q, o>> \in rows =>
            q \in listed /\ from[q] <= o /\ o < next[q]
  BY <1>0 DEF KafkaInv, KafkaRun
<1>3. /\ p \in DOMAIN topic /\ p \in Kafka!Partitions /\ listed \subseteq DOMAIN topic
      /\ bounds[p].latest \in Nat /\ bounds[p].latest <= topic[p].end
      /\ topic[p].end \in Nat /\ topic[p].end <= MaxOffset /\ MaxOffset \in Nat
  BY <1>0, <1>2 DEF KafkaInv, KafkaTopic, KafkaAsked, KafkaSizes
<1>4. /\ DOMAIN next' = listed /\ next' \in [listed -> Nat] /\ next'[p] = n
      /\ \A q \in listed : q # p => next'[q] = next[q]
  BY <1>1, <1>2
<1>5. \A q, o : <<q, o>> \in rows' <=> <<q, o>> \in rows \/ (q = p /\ o \in w)
  BY <1>1
<1>6. /\ \A o \in w : next[p] <= o /\ o < n
      /\ n \in Nat /\ next[p] <= n /\ n <= bounds[p].latest
      /\ \A o \in next[p] .. n - 1 : o \in w \/ o \in topic[p].blank
      /\ next[p] \in Nat /\ from[p] \in Nat /\ from[p] <= next[p]
  BY <1>1, <1>2 DEF KafkaAt
<1> HIDE DEF n
<1>7. KafkaAt(p)'
  <2>1. ASSUME NEW o \in from[p] .. n - 1 PROVE <<p, o>> \in rows' \/ o \in topic[p].blank
    <3>1. CASE o \in from[p] .. next[p] - 1
      BY <1>2, <1>5, <3>1 DEF KafkaAt
    <3>2. CASE o \in next[p] .. n - 1
      BY <1>5, <1>6, <3>2
    <3> QED
      BY <1>6, <3>1, <3>2
  <2>2. from[p] <= n
    BY <1>6
  <2>3. Ours(p)' => from'[p] = saved'.next[p]
    BY <1>0, <1>2 DEF KafkaAt, Ours
  <2> QED
    BY <1>0, <1>4, <1>6, <2>1, <2>2, <2>3 DEF KafkaAt
<1>8. ASSUME NEW q \in listed, q # p PROVE KafkaAt(q)'
  <2>1. KafkaAt(q) /\ next'[q] = next[q]
    BY <1>2, <1>4, <1>8
  <2> QED
    BY <1>0, <1>5, <2>1 DEF KafkaAt, Ours
<1>9. ASSUME NEW q \in Kafka!Partitions, NEW o \in Nat, <<q, o>> \in rows'
      PROVE  q \in listed /\ from[q] <= o /\ o < next'[q]
  <2>1. CASE q = p
    <3>1. <<p, o>> \in rows \/ o \in w
      BY <1>5, <1>9, <2>1
    <3>2. CASE <<p, o>> \in rows
      <4>1. from[p] <= o /\ o < next[p]
        BY <1>2, <1>3, <3>2
      <4> QED
        BY <1>2, <1>4, <1>6, <2>1, <4>1
    <3>3. CASE o \in w
      BY <1>2, <1>4, <1>6, <2>1, <3>3
    <3> QED
      BY <3>1, <3>2, <3>3
  <2>2. CASE q # p
    BY <1>2, <1>4, <1>5, <1>9, <2>2
  <2> QED
    BY <2>1, <2>2
<1>10. KafkaRun'
  BY <1>0, <1>2, <1>4, <1>7, <1>8, <1>9 DEF KafkaRun
<1>11. rows' \subseteq Records
  <2>1. ASSUME NEW o \in w PROVE <<p, o>> \in Records
    <3>1. o \in Nat /\ o < n
      BY <1>6
    <3>2. o \in 0 .. MaxOffset - 1
      BY <1>3, <1>6, <3>1
    <3> QED
      BY <1>3, <3>2 DEF Records
  <2>2. rows \subseteq Records
    BY DEF KafkaInv, KafkaTypes
  <2> QED
    BY <1>1, <2>1, <2>2
<1>12. KafkaTypes'
  BY <1>0, <1>1, <1>11 DEF KafkaInv, KafkaTypes
<1>13. KafkaTopic' /\ KafkaBehind' /\ KafkaAsked' /\ Kafka!SkipsNothing' /\ anew' \in BOOLEAN
  BY <1>0 DEF KafkaInv, KafkaTopic, KafkaBehind, Ours, KafkaAsked, Kafka!SkipsNothing
<1> QED
  BY <1>10, <1>12, <1>13 DEF KafkaInv

(* A run that succeeds: what was behind the old position was delivered, or *)
(* never readable, and so is what lies between it and the new one.         *)
LEMMA KafkaSucceeds == ASSUME KafkaSizes, KafkaInv, Kafka!RunSucceeds PROVE KafkaInv'
<1>0. /\ pc = "reading" /\ pc' = "idle" /\ rows' = {} /\ budget' = 0 /\ bounds' = <<>>
      /\ UNCHANGED <<start, topic, anew>>
      /\ saved' = [topic |-> "ours", next |-> next]
      /\ landed' = landed \cup rows
      /\ base' = [p \in Kafka!Partitions |->
                    IF p \in DOMAIN next \ DOMAIN Kafka!Kept THEN from[p] ELSE base[p]]
  BY DEF Kafka!RunSucceeds, Kafka!ReadEnds, Kafka!Over, Kafka!world
<1>1. /\ DOMAIN bounds = listed /\ DOMAIN from = listed /\ DOMAIN next = listed
      /\ next \in [listed -> Nat] /\ \A q \in listed : KafkaAt(q)
      /\ \A q \in Kafka!Partitions : \A o \in Nat : <<q, o>> \in rows =>
            q \in listed /\ from[q] <= o /\ o < next[q]
  BY <1>0 DEF KafkaInv, KafkaRun
<1>2. listed \subseteq DOMAIN topic /\ DOMAIN topic \subseteq Kafka!Partitions
  BY <1>0 DEF KafkaInv, KafkaAsked, KafkaTopic
<1>3. /\ saved'.topic = "ours" /\ saved'.next = next
      /\ DOMAIN bounds' = {}
  BY <1>0
<1>4. \A p : p \in DOMAIN Kafka!Kept <=> Ours(p)
  <2>1. DOMAIN <<>> = {}
    OBVIOUS
  <2> QED
    BY <2>1 DEF Kafka!Kept, Ours
<1>5. \A p \in listed : from[p] \in Nat /\ next[p] \in Nat /\ from[p] <= next[p]
  BY <1>1 DEF KafkaAt
<1>6. KafkaTypes'
  <2>1. base' \in [Kafka!Partitions -> Nat]
    BY <1>0, <1>1, <1>5 DEF KafkaInv, KafkaTypes
  <2>2. landed' \subseteq Records /\ rows' \subseteq Records
    BY <1>0 DEF KafkaInv, KafkaTypes
  <2>3. \A p \in DOMAIN saved'.next : saved'.next[p] \in Nat
    BY <1>1, <1>3
  <2> QED
    BY <1>0, <1>3, <2>1, <2>2, <2>3 DEF KafkaInv, KafkaTypes, KafkaSizes
<1>7. KafkaBehind'
  <2> SUFFICES ASSUME NEW p \in Kafka!Partitions, NEW o \in Nat, <<p, o>> \in landed'
               PROVE  p \in listed /\ o < next[p]
    BY <1>0, <1>1, <1>2, <1>3 DEF KafkaBehind, Ours
  <2>1. CASE <<p, o>> \in rows
    BY <1>1, <2>1
  <2>2. CASE <<p, o>> \in landed
    <3>1. Ours(p) /\ o < saved.next[p] /\ p \in listed
      BY <1>0, <2>2 DEF KafkaInv, KafkaBehind
    <3>2. from[p] = saved.next[p]
      BY <1>1, <3>1 DEF KafkaAt
    <3> QED
      BY <1>5, <3>1, <3>2
  <2> QED
    BY <1>0, <2>1, <2>2
<1>8. Kafka!SkipsNothing'
  <2> SUFFICES ASSUME ~anew, NEW p \in listed, NEW o \in base'[p] .. next[p] - 1
               PROVE  o \in topic[p].blank \/ <<p, o>> \in landed \cup rows
    BY <1>0, <1>1, <1>3 DEF Kafka!SkipsNothing
  <2>1. /\ p \in Kafka!Partitions /\ p \in DOMAIN topic /\ base[p] \in Nat /\ base'[p] \in Nat
        /\ base'[p] = IF Ours(p) THEN base[p] ELSE from[p]
    BY <1>0, <1>1, <1>2, <1>4, <1>6 DEF KafkaInv, KafkaTypes
  <2>2. CASE o \in from[p] .. next[p] - 1
    BY <1>1, <2>2 DEF KafkaAt
  <2>3. CASE o \notin from[p] .. next[p] - 1
    <3>1. Ours(p)
      BY <1>5, <2>1, <2>3
    <3>2. from[p] = saved.next[p]
      BY <1>1, <3>1 DEF KafkaAt
    <3>3. o \in base[p] .. saved.next[p] - 1
      BY <1>5, <2>1, <2>3, <3>1, <3>2
    <3> QED
      BY <2>1, <3>1, <3>3 DEF KafkaInv, Kafka!SkipsNothing, Ours
  <2> QED
    BY <2>2, <2>3
<1>9. KafkaTopic' /\ KafkaAsked' /\ KafkaRun' /\ anew' \in BOOLEAN
  BY <1>0, <1>3 DEF KafkaInv, KafkaTopic, KafkaAsked, KafkaRun
<1> QED
  BY <1>6, <1>7, <1>8, <1>9 DEF KafkaInv

LEMMA KafkaStep == ASSUME KafkaSizes PROVE KafkaInv /\ [Kafka!Next]_Kafka!vars => KafkaInv'
<1> SUFFICES ASSUME KafkaInv, [Kafka!Next]_Kafka!vars PROVE KafkaInv'
  OBVIOUS
<1>1. CASE Kafka!Broker
  BY <1>1, KafkaBroker
<1>2. CASE Kafka!Begin \/ (\E p \in DOMAIN topic : Kafka!Ask(p)) \/ Kafka!PlanSpans
  BY <1>2, KafkaPlans
<1>3. CASE Kafka!PlanFails \/ Kafka!Trouble
  BY <1>3, KafkaOver DEF Kafka!PlanFails, Kafka!Trouble, Kafka!ConnectFails, Kafka!CallFails,
     Kafka!RowFails, Kafka!RunFails
<1>4. CASE \E p \in DOMAIN next : Kafka!Fetch(p)
  BY <1>4, KafkaFetches
<1>5. CASE Kafka!RunSucceeds
  BY <1>5, KafkaSucceeds
<1>6. CASE Kafka!Forget
  <2>1. /\ pc = "idle" /\ saved' = Kafka!NoPosition /\ anew' = FALSE /\ landed' = {}
        /\ UNCHANGED <<start, topic, base, pc, listed, bounds, from, next, budget, rows>>
    BY <1>6 DEF Kafka!Forget, Kafka!run
  <2>2. saved'.topic = "none" /\ DOMAIN saved'.next = {}
    BY <2>1 DEF Kafka!NoPosition
  <2>3. KafkaTopic' /\ KafkaAsked' /\ KafkaRun' /\ Kafka!SkipsNothing' /\ KafkaBehind'
    BY <2>1, <2>2 DEF KafkaInv, KafkaTopic, KafkaAsked, KafkaRun, Kafka!SkipsNothing, KafkaBehind
  <2>4. KafkaTypes'
    BY <2>1, <2>2 DEF KafkaInv, KafkaTypes
  <2>5. anew' \in BOOLEAN
    BY <2>1
  <2> QED
    BY <2>3, <2>4, <2>5 DEF KafkaInv
<1>7. CASE UNCHANGED Kafka!vars
  <2>1. UNCHANGED <<start, topic, anew, saved, landed, base, pc, listed, bounds, from, next,
                    budget, rows>>
    BY <1>7 DEF Kafka!vars, Kafka!world, Kafka!memory, Kafka!run
  <2> QED
    BY <2>1 DEF KafkaInv, KafkaTopic, KafkaTypes, KafkaBehind, KafkaAsked, KafkaRun, KafkaAt, Ours,
       Kafka!SkipsNothing
<1> QED
  BY <1>1, <1>2, <1>3, <1>4, <1>5, <1>6, <1>7 DEF Kafka!Next, Kafka!Run

LEMMA KafkaInit == ASSUME KafkaSizes PROVE Kafka!Init => KafkaInv
<1> SUFFICES ASSUME Kafka!Init PROVE KafkaInv
  OBVIOUS
<1>1. /\ start \in {"earliest", "latest"} /\ topic = [p \in {1} |-> Kafka!Fresh]
      /\ anew = FALSE /\ landed = {} /\ base = [p \in Kafka!Partitions |-> 0]
      /\ pc = "idle" /\ bounds = <<>> /\ budget = 0 /\ rows = {}
  BY DEF Kafka!Init
<1>2. /\ saved.topic \in {"none", "other"}
      /\ \A p \in DOMAIN saved.next : saved.next[p] \in Nat
  BY DEF Kafka!Init, Kafka!NoPosition
<1>3. DOMAIN bounds = {}
  BY <1>1
<1>4. KafkaTopic
  BY <1>1 DEF KafkaTopic, Kafka!Fresh, Kafka!Partitions, KafkaSizes
<1>5. KafkaTypes /\ KafkaBehind /\ KafkaAsked /\ KafkaRun /\ Kafka!SkipsNothing
  BY <1>1, <1>2, <1>3 DEF KafkaTypes, KafkaBehind, KafkaAsked, KafkaRun, Kafka!SkipsNothing,
     KafkaSizes
<1>6. anew \in BOOLEAN
  BY <1>1
<1> QED
  BY <1>4, <1>5, <1>6 DEF KafkaInv

LEMMA KafkaImplies ==
    ASSUME KafkaSizes
    PROVE  KafkaInv => Kafka!TypeOK /\ Kafka!SkipsNothing /\ Kafka!ReadOnce
<1> SUFFICES ASSUME KafkaInv PROVE Kafka!TypeOK /\ Kafka!ReadOnce
  BY DEF KafkaInv
<1>1. Kafka!TypeOK
  BY DEF KafkaInv, KafkaTopic, KafkaTypes, Records, Kafka!TypeOK
<1>2. ASSUME NEW r \in rows, r \in landed PROVE FALSE
  <2>1. PICK p \in Kafka!Partitions, o \in 0 .. MaxOffset - 1 : r = <<p, o>>
    BY DEF KafkaInv, KafkaTypes, Records
  <2>2. o \in Nat
    BY DEF KafkaSizes
  <2>3. pc = "reading" /\ p \in listed /\ from[p] <= o
    BY <1>2, <2>1, <2>2 DEF KafkaInv, KafkaRun
  <2>4. Ours(p) /\ o < saved.next[p]
    BY <1>2, <2>1, <2>2 DEF KafkaInv, KafkaBehind
  <2>5. from[p] = saved.next[p] /\ from[p] \in Nat
    BY <2>3, <2>4 DEF KafkaInv, KafkaRun, KafkaAt
  <2> QED
    BY <2>2, <2>3, <2>4, <2>5
<1> QED
  BY <1>1, <1>2 DEF Kafka!ReadOnce

(* The Kafka reader (kafka.rs, read_batch), for any number of partitions   *)
(* and records and any max_records: its position never lies past a         *)
(* readable record that no successful run delivered ("gaps are errors"),   *)
(* whatever arrives, expires or is compacted under a run, however the      *)
(* brokers cut their answers and wherever a run fails; and no record is    *)
(* delivered by two runs.                                                  *)
THEOREM KafkaReadsTheorem == ASSUME KafkaSizes PROVE Spec => []KafkaReads
<1> DEFINE Inv == which = "kafka" => KafkaInv
<1>1. Init => Inv
  BY KafkaInit DEF Init
<1>2. Inv /\ [Next]_all => Inv'
  <2> SUFFICES ASSUME Inv, [Next]_all, which' = "kafka" PROVE KafkaInv'
    OBVIOUS
  <2>1. which = "kafka" /\ [Kafka!Next]_Kafka!vars
    BY DEF Next, all, ofKafka, Kafka!vars, Kafka!world, Kafka!memory, Kafka!run
  <2> QED
    BY <2>1, KafkaStep
<1>3. Inv => KafkaReads
  BY KafkaImplies DEF KafkaReads
<1> QED
  BY <1>1, <1>2, <1>3, PTL DEF Spec

-----------------------------------------------------------------------------
(* The Kinesis reader.                                                     *)

(* The stream begins with two shards.                                      *)
KinesisSizes == ShardCount \in Nat \ {0, 1} /\ MaxRecords \in Nat /\ MaxSequence \in Nat

Position ==
    {x \in [kind : {"after", "since", "start", "done"}, at : Nat] :
        x.kind \in {"start", "done"} => x.at = 0}

ShardsListed ==
    /\ DOMAIN shards \subseteq born /\ born \subseteq Kinesis!Shards
    /\ puts \in Nat /\ puts <= MaxSequence
    /\ \A s \in DOMAIN shards :
        /\ shards[s] \in [count : Nat, first : Nat, closed : BOOLEAN, parents : SUBSET born]
        /\ shards[s].count <= puts
        /\ 1 <= shards[s].first /\ shards[s].first <= shards[s].count + 1

(* Positions lie within their shards, and only a closed shard is done.     *)
Places(f) ==
    /\ DOMAIN f \subseteq born
    /\ \A s \in DOMAIN f :
        /\ f[s] \in Position
        /\ s \in DOMAIN shards =>
            /\ f[s].at <= shards[s].count
            /\ f[s] = Kinesis!Done => shards[s].closed

KinesisTypes ==
    /\ pc \in {"idle", "listing", "opening", "reading", "read"}
    /\ base \in [Kinesis!Shards -> Nat]
    /\ landed \subseteq born \X (1 .. MaxSequence) /\ rows \subseteq born \X (1 .. MaxSequence)
    /\ Places(saved) /\ Places(position)
    /\ pc # "idle" => started \in [Kinesis!Shards -> Nat]

Within == IsFiniteSet(rows) /\ Cardinality(rows) <= MaxRecords

(* SkipsNothing, and of what is still to be read: only behind a record     *)
(* that was read may something have expired unnoticed, to be found out     *)
(* when the shard is opened.                                               *)
Ahead ==
    \A s \in DOMAIN shards : \A i \in base[s] + 1 .. shards[s].count :
        \/ <<s, i>> \in landed \cup missed
        \/ /\ Kinesis!StillToRead(s, i)
           /\ i >= shards[s].first \/ (s \in DOMAIN saved /\ saved[s].kind = "after")

(* A run knows its shards and their parents; of those that it has not      *)
(* opened it knows what was saved, and what it gave up has expired.        *)
Unopened ==
    /\ pc \in {"idle", "listing"} => DOMAIN listed = {}
    /\ DOMAIN opened \subseteq DOMAIN listed /\ DOMAIN iter = DOMAIN opened
    /\ DOMAIN listed \subseteq born
    /\ \A s \in DOMAIN listed :
        /\ listed[s] \subseteq born
        /\ \A p \in listed[s] : p \in DOMAIN shards => p \in DOMAIN listed
    /\ \A s \in Kinesis!Shards, i \in Nat : <<s, i>> \in rows \cup fallen => s \in DOMAIN opened
    /\ \A s \in DOMAIN shards, i \in Nat : <<s, i>> \in fallen => i < shards[s].first
    /\ pc # "idle" => \A s \in born \ DOMAIN opened :
        /\ s \in DOMAIN position <=> s \in DOMAIN saved
        /\ s \in DOMAIN saved => position[s] = saved[s]

(* What arrived since the run began and expired was missed.                *)
SinceStarted ==
    pc # "idle" =>
        /\ \A s \in Kinesis!Shards \ born : started[s] = 0
        /\ \A s \in DOMAIN shards : started[s] <= shards[s].count
        /\ \A s \in DOMAIN shards : \A i \in started[s] + 1 .. shards[s].first - 1 :
              <<s, i>> \in missed

IsDone(s) == s \in DOMAIN position /\ position[s] = Kinesis!Done

Past(s, i) == i < iter[s] \/ IsDone(s)

(* The reading of an opened shard: where its iterator is.                  *)
IteratorAt(s) ==
    /\ opened[s] \in {"continuing", "now", "start"}
    /\ iter[s] \in Nat /\ (iter[s] > 0 \/ IsDone(s))
    /\ s \in DOMAIN position =>
        /\ position[s] # Kinesis!Done => position[s].at < iter[s]
        /\ position[s].kind \in {"since", "start"} => s \in DOMAIN saved /\ position[s] = saved[s]
    /\ s \in DOMAIN saved => s \in DOMAIN position
    /\ opened[s] = "now" =>
        /\ s \notin DOMAIN saved
        /\ \A i \in Nat : <<s, i>> \in rows => s \in DOMAIN position
        /\ s \in DOMAIN position => IsDone(s) \/ \E i \in 1 .. MaxSequence : <<s, i>> \in rows
    /\ s \in DOMAIN shards => iter[s] <= shards[s].count + 1

(* What the iterator has passed is delivered, expired or about to be       *)
(* delivered: from base on, or from its first row on if it was opened at   *)
(* the stream's end; and what expired in front of it was missed.           *)
PassedFrom(s) ==
    s \in DOMAIN shards =>
        /\ opened[s] # "now" =>
            /\ \A i \in base[s] + 1 .. shards[s].count :
                Past(s, i) => <<s, i>> \in landed \cup missed \cup rows \cup fallen
            /\ \A i \in iter[s] .. shards[s].first - 1 : ~IsDone(s) /\ i > base[s] =>
                <<s, i>> \in landed \cup missed
        /\ opened[s] = "now" =>
            /\ \A i \in 1 .. shards[s].count : \A j \in i .. shards[s].count :
                <<s, i>> \in rows /\ Past(s, j) => <<s, j>> \in rows \cup missed
            /\ \A i \in iter[s] .. shards[s].first - 1 : ~IsDone(s) => <<s, i>> \in missed

ReadingOf(s) ==
    /\ IteratorAt(s)
    /\ PassedFrom(s)
    /\ \A p \in listed[s] : Kinesis!Finished(p)

(* The two halves of a round hold opened shards that have more, each once. *)
Turns ==
    /\ turn \in Seq(DOMAIN opened) /\ still \in Seq(DOMAIN opened)
    /\ pc = "reading" => turn # <<>>
    /\ \A k \in DOMAIN turn : ~IsDone(turn[k])
    /\ \A k \in DOMAIN still : ~IsDone(still[k])
    /\ \A j, k \in DOMAIN turn : turn[j] = turn[k] => j = k
    /\ \A j, k \in DOMAIN still : still[j] = still[k] => j = k
    /\ \A j \in DOMAIN turn, k \in DOMAIN still : turn[j] # still[k]

KinesisInv ==
    /\ ShardsListed /\ KinesisTypes /\ Within /\ Ahead /\ Unopened /\ SinceStarted /\ Turns
    /\ \A s \in DOMAIN opened : ReadingOf(s)

LEMMA PositionFacts ==
    /\ \A x \in Position : x = Kinesis!Done <=> x.kind = "done"
    /\ \A x \in Position : x = Kinesis!Start <=> x.kind = "start"
    /\ \A x \in Position : x.at \in Nat
    /\ Kinesis!Done \in Position /\ Kinesis!Start \in Position
    /\ \A i \in Nat : /\ Kinesis!After(i) \in Position /\ Kinesis!After(i).at = i
                      /\ Kinesis!After(i).kind = "after"
    /\ \A i \in Nat : /\ Kinesis!Since(i) \in Position /\ Kinesis!Since(i).at = i
                      /\ Kinesis!Since(i).kind = "since"
BY DEF Position, Kinesis!Done, Kinesis!Start, Kinesis!After, Kinesis!Since

LEMMA WithFacts ==
    ASSUME NEW f, NEW x, NEW v
    PROVE  /\ DOMAIN Kinesis!With(f, x, v) = DOMAIN f \cup {x}
           /\ Kinesis!With(f, x, v)[x] = v
           /\ \A y \in DOMAIN f : y # x => Kinesis!With(f, x, v)[y] = f[y]
BY DEF Kinesis!With

LEMMA PairFacts ==
    ASSUME NEW a \in Int, NEW b \in Int
    PROVE  /\ Kinesis!Max({a, b}) = IF a >= b THEN a ELSE b
           /\ Kinesis!Min({a, b}) = IF a <= b THEN a ELSE b
<1>1. Kinesis!Max({a, b}) \in {a, b} /\ \A y \in {a, b} : Kinesis!Max({a, b}) >= y
  <2>1. \E x \in {a, b} : \A y \in {a, b} : x >= y
    BY DEF Kinesis!Max
  <2> QED
    BY <2>1 DEF Kinesis!Max
<1>2. Kinesis!Min({a, b}) \in {a, b} /\ \A y \in {a, b} : Kinesis!Min({a, b}) <= y
  <2>1. \E x \in {a, b} : \A y \in {a, b} : x <= y
    OBVIOUS
  <2> QED
    BY <2>1 DEF Kinesis!Min
<1> QED
  BY <1>1, <1>2

(* The stream moves under the reader: records arrive in open shards,       *)
(* expire, and new shards appear.                                          *)
LEMMA KinesisMoves ==
    ASSUME KinesisSizes, KinesisInv, ShardsListed',
           UNCHANGED <<pc, saved, landed, base, started, listed, position, opened, iter,
                       turn, still, rows, fallen>>,
           born \subseteq born', missed \subseteq missed',
           \A s \in DOMAIN shards' :
              \/ s \notin born /\ shards'[s].count = 0 /\ shards'[s].first = 1
              \/ /\ s \in DOMAIN shards
                 /\ shards[s].count <= shards'[s].count /\ shards[s].first <= shards'[s].first
                 /\ shards[s].closed => shards'[s].closed /\ shards'[s].count = shards[s].count
                 /\ \A i \in shards[s].first .. shards'[s].first - 1 :
                       \/ <<s, i>> \in missed'
                       \/ pc = "idle" /\ s \in DOMAIN saved /\ saved[s].kind = "after"
    PROVE  KinesisInv'
<1> DEFINE Old(s) ==
             /\ s \in DOMAIN shards
             /\ shards[s].count <= shards'[s].count /\ shards[s].first <= shards'[s].first
             /\ shards[s].closed => shards'[s].closed /\ shards'[s].count = shards[s].count
             /\ \A i \in shards[s].first .. shards'[s].first - 1 :
                   \/ <<s, i>> \in missed'
                   \/ pc = "idle" /\ s \in DOMAIN saved /\ saved[s].kind = "after"
<1>0. /\ DOMAIN shards \subseteq born /\ DOMAIN saved \subseteq born
      /\ DOMAIN position \subseteq born /\ DOMAIN opened \subseteq born /\ DOMAIN listed \subseteq born
      /\ DOMAIN opened \subseteq DOMAIN listed
      /\ DOMAIN opened # {} => pc # "idle"
  BY DEF KinesisInv, ShardsListed, KinesisTypes, Places, Unopened
<1>1. \A s \in DOMAIN shards' : s \in born => Old(s)
  OBVIOUS
<1>2. \A s \in DOMAIN shards' : s \notin born => shards'[s].count = 0 /\ shards'[s].first = 1
  BY <1>0
<1>n. /\ \A s \in DOMAIN shards : shards[s].count \in Nat /\ shards[s].first \in Nat
                                  /\ shards[s].first <= shards[s].count + 1
      /\ \A s \in DOMAIN shards' : shards'[s].count \in Nat /\ shards'[s].first \in Nat
                                   /\ shards'[s].first <= shards'[s].count + 1
  BY DEF KinesisInv, ShardsListed
<1>p. \A f : Places(f) => \A s \in DOMAIN f : f[s].at \in Nat
  BY PositionFacts DEF Places
<1> HIDE DEF Old
<1>3. ASSUME NEW f, Places(f)
      PROVE  /\ DOMAIN f \subseteq born'
             /\ \A s \in DOMAIN f :
                  /\ f[s] \in Position
                  /\ s \in DOMAIN shards' =>
                        /\ f[s].at <= shards'[s].count
                        /\ f[s] = Kinesis!Done => shards'[s].closed
  <2>1. ASSUME NEW s \in DOMAIN f, s \in DOMAIN shards'
        PROVE  f[s].at <= shards'[s].count /\ (f[s] = Kinesis!Done => shards'[s].closed)
    <3>1. s \in DOMAIN shards /\ Old(s)
      BY <1>0, <1>1, <1>3, <2>1 DEF Places, Old
    <3>2. f[s].at <= shards[s].count /\ f[s].at \in Nat /\ (f[s] = Kinesis!Done => shards[s].closed)
      BY <1>3, <1>p, <3>1 DEF Places
    <3> QED
      BY <1>n, <2>1, <3>1, <3>2 DEF Old
  <2> QED
    BY <1>3, <2>1 DEF Places
<1>4. KinesisTypes'
  <2>1. Places(saved)' /\ Places(position)'
    BY <1>3 DEF KinesisInv, KinesisTypes, Places
  <2> QED
    BY <2>1 DEF KinesisInv, KinesisTypes
<1>5. Ahead'
  <2> SUFFICES ASSUME NEW s \in DOMAIN shards', NEW i \in base[s] + 1 .. shards'[s].count,
                      <<s, i>> \notin landed \cup missed'
               PROVE  /\ Kinesis!StillToRead(s, i)
                      /\ \/ i >= shards'[s].first
                         \/ s \in DOMAIN saved /\ saved[s].kind = "after"
    BY DEF Ahead, Kinesis!StillToRead
  <2>0. base[s] \in Nat /\ i \in Nat
    BY <1>n DEF KinesisInv, KinesisTypes, ShardsListed
  <2>1. Old(s)
    BY <1>1, <1>2, <2>0
  <2>2. CASE i <= shards[s].count
    <3>1. i \in base[s] + 1 .. shards[s].count
      BY <1>n, <2>0, <2>1, <2>2 DEF Old
    <3>2. /\ Kinesis!StillToRead(s, i)
          /\ i >= shards[s].first \/ (s \in DOMAIN saved /\ saved[s].kind = "after")
      BY <2>1, <3>1 DEF KinesisInv, Ahead, Old
    <3> QED
      BY <1>n, <2>0, <2>1, <3>2 DEF Old
  <2>3. CASE i > shards[s].count
    <3>0. s \in DOMAIN shards
      BY <2>1 DEF Old
    <3>1. ~shards[s].closed
      BY <1>n, <2>0, <2>1, <2>3 DEF Old
    <3>2. s \in DOMAIN saved => saved[s] # Kinesis!Done /\ saved[s].at \in Nat
                                /\ saved[s].at <= shards[s].count
      BY <1>p, <3>0, <3>1 DEF KinesisInv, KinesisTypes, Places
    <3>3. Kinesis!StillToRead(s, i)
      BY <1>n, <2>0, <2>3, <3>0, <3>2 DEF Kinesis!StillToRead
    <3>4. i >= shards[s].first
      BY <1>n, <2>0, <2>3, <3>0
    <3> QED
      BY <1>n, <2>0, <2>1, <3>0, <3>3, <3>4 DEF Old
  <2> QED
    BY <1>n, <2>0, <2>1, <2>2, <2>3 DEF Old
<1>6. Unopened'
  <2>1. ASSUME NEW s \in DOMAIN listed, NEW p \in listed[s], p \in DOMAIN shards'
        PROVE  p \in DOMAIN listed
    BY <1>0, <1>1, <2>1 DEF KinesisInv, Unopened, Old
  <2>2. ASSUME NEW s \in DOMAIN shards', NEW i \in Nat, <<s, i>> \in fallen
        PROVE  i < shards'[s].first
    <3>1. s \in Kinesis!Shards
      BY DEF ShardsListed
    <3>2. Old(s)
      BY <1>0, <1>1, <2>2, <3>1 DEF KinesisInv, Unopened
    <3> QED
      BY <1>n, <2>2, <3>2 DEF KinesisInv, Unopened, Old
  <2>3. ASSUME pc # "idle", NEW s \in born' \ DOMAIN opened
        PROVE  /\ s \in DOMAIN position <=> s \in DOMAIN saved
               /\ s \in DOMAIN saved => position[s] = saved[s]
    BY <1>0, <2>3 DEF KinesisInv, Unopened
  <2> QED
    BY <1>0, <2>1, <2>2, <2>3 DEF KinesisInv, Unopened
<1>7. SinceStarted'
  <2> SUFFICES ASSUME pc # "idle"
               PROVE  /\ \A s \in Kinesis!Shards \ born' : started[s] = 0
                      /\ \A s \in DOMAIN shards' : started[s] <= shards'[s].count
                      /\ \A s \in DOMAIN shards' :
                            \A i \in started[s] + 1 .. shards'[s].first - 1 : <<s, i>> \in missed'
    BY DEF SinceStarted
  <2>1. \A s \in Kinesis!Shards \ born' : started[s] = 0
    BY DEF KinesisInv, SinceStarted
  <2>2. ASSUME NEW s \in DOMAIN shards'
        PROVE  /\ started[s] <= shards'[s].count
               /\ \A i \in started[s] + 1 .. shards'[s].first - 1 : <<s, i>> \in missed'
    <3>1. started[s] \in Nat /\ s \in Kinesis!Shards
      BY DEF KinesisInv, KinesisTypes, ShardsListed
    <3>2. CASE s \notin born
      <4>1. started[s] = 0 /\ shards'[s].count = 0 /\ shards'[s].first = 1
        BY <1>2, <3>1, <3>2 DEF KinesisInv, SinceStarted
      <4> QED
        BY <4>1
    <3>3. CASE s \in born
      <4>1. Old(s) /\ s \in DOMAIN shards
        BY <1>1, <3>3 DEF Old
      <4>2. started[s] <= shards[s].count
        BY <4>1 DEF KinesisInv, SinceStarted
      <4>3. ASSUME NEW i \in started[s] + 1 .. shards'[s].first - 1 PROVE <<s, i>> \in missed'
        BY <1>n, <3>1, <4>1 DEF KinesisInv, SinceStarted, Old
      <4> QED
        BY <1>n, <3>1, <4>1, <4>2, <4>3 DEF Old
    <3> QED
      BY <3>2, <3>3
  <2> QED
    BY <2>1, <2>2
<1>8. ASSUME NEW s \in DOMAIN opened PROVE ReadingOf(s)'
  <2>1. IteratorAt(s) /\ PassedFrom(s) /\ pc # "idle" /\ iter[s] \in Nat /\ base[s] \in Nat
    BY <1>0 DEF KinesisInv, ReadingOf, IteratorAt, KinesisTypes, ShardsListed
  <2>2. s \in DOMAIN shards' => s \in DOMAIN shards /\ Old(s)
    BY <1>0, <1>1 DEF Old
  <2>3. IteratorAt(s)'
    <3>1. s \in DOMAIN shards' => iter[s] <= shards'[s].count + 1
      BY <1>n, <2>1, <2>2 DEF IteratorAt, Old
    <3> QED
      BY <2>1, <3>1 DEF IteratorAt, IsDone
  <2>4. ASSUME s \in DOMAIN shards', NEW j \in Nat, j <= shards'[s].count, Past(s, j)
        PROVE  j <= shards[s].count
    <3>1. IsDone(s) => shards[s].closed
      BY <2>2, <2>4 DEF KinesisInv, KinesisTypes, Places, IsDone
    <3> QED
      BY <1>n, <2>1, <2>2, <2>4, <3>1 DEF Past, IteratorAt, Old
  <2>5. PassedFrom(s)'
    <3> SUFFICES ASSUME s \in DOMAIN shards'
                 PROVE  /\ opened[s] # "now" =>
                            /\ \A i \in base[s] + 1 .. shards'[s].count :
                                 Past(s, i) => <<s, i>> \in landed \cup missed' \cup rows \cup fallen
                            /\ \A i \in iter[s] .. shards'[s].first - 1 :
                                 ~IsDone(s) /\ i > base[s] => <<s, i>> \in landed \cup missed'
                        /\ opened[s] = "now" =>
                            /\ \A i \in 1 .. shards'[s].count : \A j \in i .. shards'[s].count :
                                 <<s, i>> \in rows /\ Past(s, j) => <<s, j>> \in rows \cup missed'
                            /\ \A i \in iter[s] .. shards'[s].first - 1 :
                                 ~IsDone(s) => <<s, i>> \in missed'
      BY DEF PassedFrom, Past, IsDone
    <3>1. ASSUME NEW i \in base[s] + 1 .. shards'[s].count, opened[s] # "now", Past(s, i)
          PROVE  <<s, i>> \in landed \cup missed' \cup rows \cup fallen
      <4>1. i \in base[s] + 1 .. shards[s].count
        BY <1>n, <2>1, <2>2, <2>4, <3>1
      <4> QED
        BY <2>1, <2>2, <3>1, <4>1 DEF PassedFrom
    <3>2. ASSUME NEW i \in iter[s] .. shards'[s].first - 1, ~IsDone(s)
          PROVE  \/ i \in iter[s] .. shards[s].first - 1
                 \/ <<s, i>> \in missed'
      BY <1>n, <2>1, <2>2 DEF Old
    <3>3. ASSUME NEW i \in 1 .. shards'[s].count, NEW j \in i .. shards'[s].count,
                 opened[s] = "now", <<s, i>> \in rows, Past(s, j)
          PROVE  <<s, j>> \in rows \cup missed'
      <4>1. i \in 1 .. shards[s].count /\ j \in i .. shards[s].count
        BY <1>n, <2>1, <2>2, <2>4, <3>3
      <4> QED
        BY <2>1, <2>2, <3>3, <4>1 DEF PassedFrom
    <3> QED
      BY <2>1, <2>2, <3>1, <3>2, <3>3 DEF PassedFrom
  <2>6. \A p \in listed[s] : Kinesis!Finished(p)'
    BY DEF KinesisInv, ReadingOf, Kinesis!Finished
  <2> QED
    BY <2>3, <2>5, <2>6 DEF ReadingOf
<1>9. Within' /\ Turns'
  BY DEF KinesisInv, Within, Turns, IsDone
<1> QED
  BY <1>4, <1>5, <1>6, <1>7, <1>8, <1>9 DEF KinesisInv

LEMMA KinesisStream == ASSUME KinesisSizes, KinesisInv, Kinesis!Stream PROVE KinesisInv'
<1>t. /\ DOMAIN shards \subseteq born /\ born \subseteq Kinesis!Shards
      /\ puts \in Nat /\ puts <= MaxSequence /\ MaxSequence \in Nat
      /\ \A s \in DOMAIN shards :
          /\ shards[s] \in [count : Nat, first : Nat, closed : BOOLEAN, parents : SUBSET born]
          /\ shards[s].count \in Nat /\ shards[s].first \in Nat
          /\ shards[s].count <= puts
          /\ 1 <= shards[s].first /\ shards[s].first <= shards[s].count + 1
  BY DEF KinesisInv, ShardsListed, KinesisSizes
<1>1. ASSUME NEW s \in DOMAIN shards, Kinesis!Put(s) PROVE KinesisInv'
  <2>1. /\ ~shards[s].closed /\ puts < MaxSequence /\ puts' = puts + 1
        /\ shards' = [shards EXCEPT ![s] = [shards[s] EXCEPT !.count = shards[s].count + 1]]
        /\ UNCHANGED <<born, missed, pc, saved, landed, base, started, listed, position, opened,
                       iter, turn, still, rows, fallen>>
    BY <1>1 DEF Kinesis!Put, Kinesis!memory, Kinesis!run
  <2>2. /\ DOMAIN shards' = DOMAIN shards
        /\ shards'[s] \in [count : Nat, first : Nat, closed : BOOLEAN, parents : SUBSET born]
        /\ shards'[s].count = shards[s].count + 1 /\ shards'[s].first = shards[s].first
        /\ \A t \in DOMAIN shards : t # s => shards'[t] = shards[t]
    BY <1>t, <2>1
  <2>3. ShardsListed'
    BY <1>t, <2>1, <2>2 DEF ShardsListed
  <2>4. \A t \in DOMAIN shards' :
          /\ t \in DOMAIN shards
          /\ shards[t].count <= shards'[t].count /\ shards'[t].first = shards[t].first
          /\ shards[t].closed => shards'[t].closed /\ shards'[t].count = shards[t].count
    BY <1>t, <2>1, <2>2
  <2>5. \A t \in DOMAIN shards' : shards[t].first .. shards'[t].first - 1 = {}
    BY <1>t, <2>4
  <2> QED
    BY <1>t, <2>1, <2>3, <2>4, <2>5, KinesisMoves
<1>2. ASSUME NEW s \in DOMAIN shards, Kinesis!Expire(s) PROVE KinesisInv'
  <2>1. /\ shards[s].first <= shards[s].count
        /\ shards' = [shards EXCEPT ![s] = [shards[s] EXCEPT !.first = shards[s].first + 1]]
        /\ missed' = IF pc = "idle" /\ s \in DOMAIN saved /\ saved[s].kind = "after"
                     THEN missed ELSE missed \cup {<<s, shards[s].first>>}
        /\ UNCHANGED <<born, puts, pc, saved, landed, base, started, listed, position, opened,
                       iter, turn, still, rows, fallen>>
    BY <1>2 DEF Kinesis!Expire, Kinesis!run
  <2>2. /\ DOMAIN shards' = DOMAIN shards
        /\ shards'[s] \in [count : Nat, first : Nat, closed : BOOLEAN, parents : SUBSET born]
        /\ shards'[s].first = shards[s].first + 1 /\ shards'[s].count = shards[s].count
        /\ shards'[s].closed = shards[s].closed
        /\ \A t \in DOMAIN shards : t # s => shards'[t] = shards[t]
    BY <1>t, <2>1
  <2>3. ShardsListed'
    BY <1>t, <2>1, <2>2 DEF ShardsListed
  <2>4. \A t \in DOMAIN shards' :
          /\ t \in DOMAIN shards
          /\ shards'[t].count = shards[t].count /\ shards[t].first <= shards'[t].first
          /\ shards'[t].closed = shards[t].closed
          /\ \A i \in shards[t].first .. shards'[t].first - 1 : t = s /\ i = shards[s].first
    BY <1>t, <2>2
  <2>5. missed \subseteq missed'
    BY <2>1
  <2>6. \A t \in DOMAIN shards' : \A i \in shards[t].first .. shards'[t].first - 1 :
          \/ <<t, i>> \in missed'
          \/ pc = "idle" /\ t \in DOMAIN saved /\ saved[t].kind = "after"
    BY <2>1, <2>4
  <2>7. \A t \in DOMAIN shards' : shards[t].count <= shards'[t].count
    BY <1>t, <2>4
  <2> QED
    BY <2>1, <2>3, <2>4, <2>5, <2>6, <2>7, KinesisMoves
<1>3. ASSUME NEW s \in DOMAIN shards, Kinesis!AgeOut(s) PROVE KinesisInv'
  <2>1. /\ shards' = [t \in DOMAIN shards \ {s} |-> shards[t]]
        /\ UNCHANGED <<born, puts, missed, pc, saved, landed, base, started, listed, position,
                       opened, iter, turn, still, rows, fallen>>
    BY <1>3 DEF Kinesis!AgeOut, Kinesis!memory, Kinesis!run
  <2>2. \A t \in DOMAIN shards' : t \in DOMAIN shards /\ shards'[t] = shards[t]
    BY <2>1
  <2>3. ShardsListed'
    BY <1>t, <2>1, <2>2 DEF ShardsListed
  <2>4. \A t \in DOMAIN shards' : shards[t].first .. shards'[t].first - 1 = {}
    BY <1>t, <2>2
  <2>5. \A t \in DOMAIN shards' : /\ shards[t].count <= shards'[t].count
                                  /\ shards[t].first <= shards'[t].first
    BY <1>t, <2>2
  <2> QED
    BY <2>1, <2>2, <2>3, <2>4, <2>5, KinesisMoves
<1>4. ASSUME NEW a \in DOMAIN shards, NEW b \in DOMAIN shards, Kinesis!Reshard({a, b})
      PROVE  KinesisInv'
  <2>1. /\ ~shards[a].closed /\ ~shards[b].closed
        /\ UNCHANGED <<puts, missed, pc, saved, landed, base, started, listed, position, opened,
                       iter, turn, still, rows, fallen>>
    BY <1>4 DEF Kinesis!Reshard, Kinesis!memory, Kinesis!run
  <2>2. PICK child \in Kinesis!Shards \ born :
          /\ born' = born \cup {child}
          /\ shards' = [s \in DOMAIN shards \cup {child} |->
                          IF s = child THEN Kinesis!New({a, b})
                          ELSE [shards[s] EXCEPT !.closed = shards[s].closed \/ s \in {a, b}]]
    BY <1>4 DEF Kinesis!Reshard
  <2>3. /\ DOMAIN shards' = DOMAIN shards \cup {child}
        /\ shards'[child] = Kinesis!New({a, b})
        /\ \A s \in DOMAIN shards :
              shards'[s] = [shards[s] EXCEPT !.closed = shards[s].closed \/ s \in {a, b}]
    BY <1>t, <2>2
  <2>4. /\ shards'[child] \in [count : Nat, first : Nat, closed : BOOLEAN, parents : SUBSET born']
        /\ shards'[child].count = 0 /\ shards'[child].first = 1
    BY <1>t, <2>2, <2>3 DEF Kinesis!New
  <2>5. ASSUME NEW s \in DOMAIN shards
        PROVE  /\ shards'[s] \in [count : Nat, first : Nat, closed : BOOLEAN,
                                  parents : SUBSET born']
               /\ shards'[s].count = shards[s].count /\ shards'[s].first = shards[s].first
               /\ shards[s].closed => shards'[s].closed
    <3> DEFINE c == shards[s].closed \/ s \in {a, b}
    <3>1. c \in BOOLEAN /\ (shards[s].closed => c)
      OBVIOUS
    <3>2. shards'[s] = [shards[s] EXCEPT !.closed = c]
      BY <2>3
    <3>3. shards[s] \in [count : Nat, first : Nat, closed : BOOLEAN, parents : SUBSET born']
      BY <1>t, <2>2
    <3> HIDE DEF c
    <3> QED
      BY <3>1, <3>2, <3>3
  <2>6. ShardsListed'
    <3>1. ASSUME NEW t \in DOMAIN shards'
          PROVE  /\ shards'[t] \in [count : Nat, first : Nat, closed : BOOLEAN,
                                    parents : SUBSET born']
                 /\ shards'[t].count <= puts
                 /\ 1 <= shards'[t].first /\ shards'[t].first <= shards'[t].count + 1
      <4>1. CASE t = child
        BY <1>t, <2>4, <4>1
      <4>2. CASE t \in DOMAIN shards
        BY <1>t, <2>5, <4>2
      <4> QED
        BY <2>3, <4>1, <4>2
    <3>2. DOMAIN shards' \subseteq born' /\ born' \subseteq Kinesis!Shards /\ puts' = puts
      BY <1>t, <2>1, <2>2, <2>3
    <3> QED
      BY <1>t, <3>1, <3>2 DEF ShardsListed
  <2>7. \A t \in DOMAIN shards : /\ shards[t].first .. shards'[t].first - 1 = {}
                                 /\ shards[t].count <= shards'[t].count
                                 /\ shards[t].first <= shards'[t].first
    BY <1>t, <2>5
  <2>8. \A t \in DOMAIN shards' :
          \/ t \notin born /\ shards'[t].count = 0 /\ shards'[t].first = 1
          \/ t \in DOMAIN shards
    BY <2>2, <2>3, <2>4
  <2>9. born \subseteq born' /\ missed \subseteq missed'
    BY <2>1, <2>2
  <2> QED
    BY <2>1, <2>5, <2>6, <2>7, <2>8, <2>9, KinesisMoves
<1> QED
  BY <1>1, <1>2, <1>3, <1>4 DEF Kinesis!Stream

(* A run that ends without a word leaves all as it was.                    *)
LEMMA KinesisOver ==
    ASSUME KinesisSizes, KinesisInv, Kinesis!Over, UNCHANGED <<Kinesis!world, Kinesis!memory>>
    PROVE  KinesisInv'
<1>1. /\ UNCHANGED <<shards, born, puts, saved, landed, base, missed>>
      /\ pc' = "idle" /\ rows' = {} /\ fallen' = {} /\ turn' = <<>> /\ still' = <<>>
      /\ listed' = <<>> /\ opened' = <<>> /\ iter' = <<>> /\ position' = <<>>
  BY DEF Kinesis!Over, Kinesis!world, Kinesis!memory
<1>2. DOMAIN listed' = {} /\ DOMAIN opened' = {} /\ DOMAIN iter' = {} /\ DOMAIN position' = {}
  BY <1>1
<1>3. Within'
  BY <1>1, FS_EmptySet DEF Within, KinesisSizes
<1>4. Turns'
  BY <1>1 DEF Turns
<1>5. KinesisTypes'
  BY <1>1, <1>2 DEF KinesisInv, KinesisTypes, Places
<1> QED
  BY <1>1, <1>2, <1>3, <1>4, <1>5 DEF KinesisInv, ShardsListed, Ahead, Kinesis!StillToRead,
     Unopened, SinceStarted

(* The steps of a run that read nothing.                                   *)
LEMMA KinesisPlans ==
    ASSUME KinesisSizes, KinesisInv,
           Kinesis!Begin \/ Kinesis!ListShards \/ Kinesis!AllOpened \/ Kinesis!Capped
    PROVE  KinesisInv'
<1>0. UNCHANGED <<shards, born, puts, saved, landed, base, missed, opened, iter, turn, still, rows,
                  fallen>>
  BY DEF Kinesis!Begin, Kinesis!ListShards, Kinesis!AllOpened, Kinesis!Capped, Kinesis!world,
     Kinesis!memory, Kinesis!run
<1>1. ShardsListed' /\ Within' /\ Ahead'
  BY <1>0 DEF KinesisInv, ShardsListed, Within, Ahead, Kinesis!StillToRead
<1>2. CASE Kinesis!Begin
  <2>1. /\ pc = "idle" /\ pc' = "listing" /\ position' = saved /\ listed' = listed
        /\ started' = [s \in Kinesis!Shards |-> IF s \in DOMAIN shards THEN shards[s].count ELSE 0]
    BY <1>2 DEF Kinesis!Begin
  <2>2. DOMAIN listed = {} /\ DOMAIN opened = {}
    BY <2>1 DEF KinesisInv, Unopened
  <2>3. started' \in [Kinesis!Shards -> Nat]
    BY <2>1 DEF KinesisInv, ShardsListed
  <2>4. KinesisTypes'
    BY <1>0, <2>1, <2>3 DEF KinesisInv, KinesisTypes, Places
  <2>5. SinceStarted'
    <3>1. ASSUME NEW s \in DOMAIN shards
          PROVE  /\ started'[s] <= shards[s].count
                 /\ started'[s] + 1 .. shards[s].first - 1 = {}
      <4>1. /\ started'[s] = shards[s].count /\ shards[s].count \in Nat
            /\ shards[s].first \in Nat /\ shards[s].first <= shards[s].count + 1
        BY <2>1 DEF KinesisInv, ShardsListed
      <4> QED
        BY <4>1
    <3>2. \A s \in Kinesis!Shards \ born : started'[s] = 0
      BY <2>1 DEF KinesisInv, ShardsListed
    <3> QED
      BY <1>0, <3>1, <3>2 DEF SinceStarted
  <2>6. Unopened' /\ Turns'
    BY <1>0, <2>1, <2>2 DEF KinesisInv, Unopened, Turns, IsDone
  <2> QED
    BY <1>0, <1>1, <2>2, <2>4, <2>5, <2>6 DEF KinesisInv
<1>3. CASE Kinesis!ListShards
  <2>1. /\ pc = "listing" /\ pc' = "opening" /\ UNCHANGED <<started, position>>
        /\ listed' = [s \in DOMAIN shards |-> shards[s].parents]
    BY <1>3 DEF Kinesis!ListShards
  <2>2. DOMAIN opened = {} /\ DOMAIN listed' = DOMAIN shards
    BY <2>1 DEF KinesisInv, Unopened
  <2>3. Unopened'
    BY <1>0, <2>1, <2>2 DEF KinesisInv, Unopened, ShardsListed
  <2>4. Turns' /\ KinesisTypes' /\ SinceStarted'
    BY <1>0, <2>1 DEF KinesisInv, Turns, IsDone, KinesisTypes, Places, SinceStarted
  <2> QED
    BY <1>0, <1>1, <2>2, <2>3, <2>4 DEF KinesisInv
<1>4. CASE Kinesis!AllOpened \/ Kinesis!Capped
  <2>1. /\ pc \notin {"idle", "listing"} /\ pc' \in {"reading", "read"}
        /\ pc' = "reading" => turn # <<>>
        /\ UNCHANGED <<started, position, listed>>
    BY <1>4 DEF Kinesis!AllOpened, Kinesis!Capped, Kinesis!run
  <2>2. Unopened' /\ Turns' /\ KinesisTypes' /\ SinceStarted'
    BY <1>0, <2>1 DEF KinesisInv, Unopened, Turns, IsDone, KinesisTypes, Places, SinceStarted
  <2>3. ASSUME NEW s \in DOMAIN opened PROVE ReadingOf(s)'
    BY <1>0, <2>1 DEF KinesisInv, ReadingOf, IteratorAt, PassedFrom, Past, IsDone,
       Kinesis!Finished
  <2> QED
    BY <1>0, <1>1, <2>2, <2>3 DEF KinesisInv
<1> QED
  BY <1>2, <1>3, <1>4

(* A shard is opened: at its position, at the stream's end or at its start. *)
LEMMA KinesisOpens ==
    ASSUME KinesisSizes, KinesisInv, NEW s \in DOMAIN listed, Kinesis!OpenIterator(s)
    PROVE  KinesisInv'
<1>0. /\ pc = "opening" /\ s \in DOMAIN shards
      /\ s \notin DOMAIN opened
      /\ iter' = Kinesis!With(iter, s, Kinesis!IteratorOf(s))
      /\ opened' = Kinesis!With(opened, s, Kinesis!How(s))
      /\ turn' = Append(turn, s)
      /\ fallen' = IF Kinesis!StillHeld(s) THEN fallen
                   ELSE fallen \cup ({s} \X (position[s].at + 1 .. shards[s].first - 1))
      /\ UNCHANGED <<shards, born, puts, saved, landed, base, missed, pc, started, listed, position,
                     still, rows>>
  BY DEF Kinesis!OpenIterator, Kinesis!ToOpen, Kinesis!world, Kinesis!memory
<1>1. /\ ~IsDone(s) /\ \A p \in listed[s] : Kinesis!Finished(p)
      /\ ~Kinesis!Finished(s)
  BY DEF Kinesis!OpenIterator, Kinesis!ToOpen, Kinesis!ReadableShards, Kinesis!Finished, IsDone
<1>2. /\ DOMAIN iter' = DOMAIN opened \cup {s} /\ DOMAIN opened' = DOMAIN opened \cup {s}
      /\ iter'[s] = Kinesis!IteratorOf(s) /\ opened'[s] = Kinesis!How(s)
      /\ \A t \in DOMAIN opened : iter'[t] = iter[t] /\ opened'[t] = opened[t]
  <2>1. DOMAIN iter = DOMAIN opened
    BY DEF KinesisInv, Unopened
  <2>2. /\ DOMAIN iter' = DOMAIN iter \cup {s} /\ iter'[s] = Kinesis!IteratorOf(s)
        /\ \A t \in DOMAIN iter : t # s => iter'[t] = iter[t]
    BY <1>0 DEF Kinesis!With
  <2>3. /\ DOMAIN opened' = DOMAIN opened \cup {s} /\ opened'[s] = Kinesis!How(s)
        /\ \A t \in DOMAIN opened : t # s => opened'[t] = opened[t]
    BY <1>0 DEF Kinesis!With
  <2> QED
    BY <1>0, <2>1, <2>2, <2>3
<1>3. /\ s \in born /\ s \in Kinesis!Shards /\ base[s] \in Nat
      /\ shards[s].count \in Nat /\ shards[s].first \in Nat
      /\ 1 <= shards[s].first /\ shards[s].first <= shards[s].count + 1
  BY <1>0 DEF KinesisInv, ShardsListed, KinesisTypes
<1>4. /\ s \in DOMAIN position <=> s \in DOMAIN saved
      /\ s \in DOMAIN saved => position[s] = saved[s]
  BY <1>0, <1>3 DEF KinesisInv, Unopened
<1>5. s \in DOMAIN position => /\ position[s] \in Position /\ position[s].at \in Nat
                               /\ position[s].at <= shards[s].count /\ position[s] # Kinesis!Done
  BY <1>0, <1>1, PositionFacts DEF KinesisInv, KinesisTypes, Places, IsDone
<1>6. \A i \in Nat : <<s, i>> \notin rows
  BY <1>0, <1>3 DEF KinesisInv, Unopened
<1>7. fallen \subseteq fallen'
  BY <1>0
<1>8. ~Kinesis!StillHeld(s) => /\ s \in DOMAIN position /\ position[s].kind = "after"
                               /\ position[s].at < shards[s].first
  BY <1>3, <1>5 DEF Kinesis!StillHeld
<1>9. \/ /\ Kinesis!How(s) = "continuing" /\ Kinesis!IteratorOf(s) = position[s].at + 1
         /\ s \in DOMAIN position /\ position[s] # Kinesis!Start
         /\ position[s].kind = "after" => position[s].at >= shards[s].first
      \/ /\ Kinesis!How(s) = "now" /\ Kinesis!IteratorOf(s) = shards[s].count + 1
         /\ s \notin DOMAIN position
      \/ /\ Kinesis!How(s) = "start" /\ Kinesis!IteratorOf(s) = shards[s].first
         /\ s \in DOMAIN position => position[s] = Kinesis!Start \/ ~Kinesis!StillHeld(s)
  BY DEF Kinesis!How, Kinesis!IteratorOf, Kinesis!Continued, Kinesis!StillHeld, Kinesis!FromNow
<1>10. IteratorAt(s)'
  <2>1. /\ iter'[s] \in Nat /\ iter'[s] > 0 /\ iter'[s] <= shards[s].count + 1
        /\ s \in DOMAIN position => position[s].at < iter'[s]
    <3>1. position[s] = Kinesis!Start => position[s].at = 0
      BY DEF Kinesis!Start
    <3> QED
      BY <1>2, <1>3, <1>5, <1>8, <1>9, <3>1
  <2>2. opened'[s] \in {"continuing", "now", "start"}
        /\ (opened'[s] = "now" => s \notin DOMAIN position)
    BY <1>2, <1>9
  <2> QED
    BY <1>0, <1>4, <1>6, <2>1, <2>2 DEF IteratorAt, IsDone
<1>11. PassedFrom(s)'
  <2>1. ASSUME NEW i \in base[s] + 1 .. shards[s].count, opened'[s] # "now", i < iter'[s]
        PROVE  <<s, i>> \in landed \cup missed \cup rows \cup fallen'
    <3>0. i \in Nat
      BY <1>3
    <3>1. SUFFICES ASSUME Kinesis!StillToRead(s, i),
                          i >= shards[s].first \/ (s \in DOMAIN saved /\ saved[s].kind = "after")
                   PROVE  <<s, i>> \in fallen'
      BY <1>0 DEF KinesisInv, Ahead
    <3>2. Kinesis!How(s) = "start"
      BY <1>2, <1>4, <1>5, <1>9, <2>1, <3>0, <3>1 DEF Kinesis!StillToRead
    <3>3. i < shards[s].first /\ s \in DOMAIN position /\ position[s].kind = "after"
      BY <1>2, <1>3, <1>4, <1>9, <2>1, <3>0, <3>1, <3>2
    <3>4. position[s] # Kinesis!Start /\ i > position[s].at
      BY <1>4, <3>1, <3>3 DEF Kinesis!Start, Kinesis!StillToRead
    <3>5. ~Kinesis!StillHeld(s)
      BY <1>9, <3>2, <3>3, <3>4
    <3>6. i \in position[s].at + 1 .. shards[s].first - 1
      BY <1>3, <1>5, <3>0, <3>3, <3>4
    <3> QED
      BY <1>0, <3>5, <3>6
  <2>2. ASSUME NEW i \in iter'[s] .. shards[s].first - 1, i > base[s], opened'[s] # "now"
        PROVE  <<s, i>> \in landed \cup missed
    <3>0. i \in Nat /\ i >= iter'[s] /\ i < shards[s].first /\ iter'[s] \in Nat
      BY <1>3, <1>10 DEF IteratorAt
    <3>1. Kinesis!How(s) = "continuing" /\ position[s].kind # "after"
      BY <1>2, <1>3, <1>5, <1>9, <2>2, <3>0
    <3>2. i \in base[s] + 1 .. shards[s].count
      BY <1>3, <2>2, <3>0
    <3> QED
      BY <1>0, <1>3, <1>4, <3>0, <3>1, <3>2 DEF KinesisInv, Ahead
  <2>3. opened'[s] = "now" => iter'[s] .. shards[s].first - 1 = {}
    BY <1>2, <1>3, <1>9
  <2>4. ~IsDone(s)' /\ (\A i \in Nat : <<s, i>> \notin rows')
    BY <1>0, <1>1, <1>6 DEF IsDone
  <2>5. \A i \in 1 .. shards[s].count : <<s, i>> \notin rows'
    BY <1>3, <2>4
  <2> QED
    BY <1>0, <2>1, <2>2, <2>3, <2>4, <2>5 DEF PassedFrom, Past
<1>12. ASSUME NEW t \in DOMAIN opened PROVE ReadingOf(t)'
  <2>1. ReadingOf(t) /\ t # s
    BY <1>0 DEF KinesisInv
  <2>2. IteratorAt(t)'
    BY <1>0, <1>2, <2>1 DEF ReadingOf, IteratorAt, IsDone
  <2>3. PassedFrom(t)'
    BY <1>0, <1>2, <1>7, <2>1 DEF ReadingOf, PassedFrom, Past, IsDone
  <2> QED
    BY <1>0, <2>1, <2>2, <2>3 DEF ReadingOf, Kinesis!Finished
<1>13. ReadingOf(s)'
  BY <1>0, <1>1, <1>10, <1>11 DEF ReadingOf, Kinesis!Finished
<1>14. Unopened'
  <2>1. \A t \in Kinesis!Shards, i \in Nat : <<t, i>> \in rows \cup fallen' => t \in DOMAIN opened'
    BY <1>0, <1>2 DEF KinesisInv, Unopened
  <2>2. ASSUME NEW t \in DOMAIN shards, NEW i \in Nat, <<t, i>> \in fallen'
        PROVE  i < shards[t].first
    <3>1. CASE <<t, i>> \in fallen
      BY <3>1 DEF KinesisInv, Unopened
    <3>2. CASE <<t, i>> \notin fallen
      <4>1. t = s /\ i \in position[s].at + 1 .. shards[s].first - 1
            /\ position[s].at \in Nat
        BY <1>0, <1>5, <1>8, <2>2, <3>2
      <4> QED
        BY <1>3, <4>1
    <3> QED
      BY <3>1, <3>2
  <2> QED
    BY <1>0, <1>2, <2>1, <2>2 DEF KinesisInv, Unopened
<1>15. Turns'
  <2>1. turn \in Seq(DOMAIN opened) /\ still \in Seq(DOMAIN opened)
    BY DEF KinesisInv, Turns
  <2>2. turn \in Seq(DOMAIN opened') /\ still \in Seq(DOMAIN opened')
    BY <1>2, <2>1
  <2>3. /\ turn' \in Seq(DOMAIN opened') /\ DOMAIN turn = 1 .. Len(turn) /\ Len(turn) \in Nat
        /\ DOMAIN turn' = 1 .. Len(turn) + 1 /\ turn'[Len(turn) + 1] = s
        /\ \A k \in DOMAIN turn : turn'[k] = turn[k] /\ turn[k] \in DOMAIN opened
        /\ \A k \in DOMAIN still : still[k] \in DOMAIN opened
    BY <1>0, <1>2, <2>1, <2>2
  <2>4. \A k \in DOMAIN turn' : k \in DOMAIN turn \/ (k = Len(turn) + 1 /\ turn'[k] = s)
    BY <2>3
  <2>5. \A t : IsDone(t)' <=> IsDone(t)
    BY <1>0 DEF IsDone
  <2>6. /\ \A k \in DOMAIN turn : ~IsDone(turn[k])
        /\ \A k \in DOMAIN still : ~IsDone(still[k])
        /\ \A j, k \in DOMAIN turn : turn[j] = turn[k] => j = k
        /\ \A j, k \in DOMAIN still : still[j] = still[k] => j = k
        /\ \A j \in DOMAIN turn, k \in DOMAIN still : turn[j] # still[k]
    BY DEF KinesisInv, Turns
  <2>7. \A k \in DOMAIN turn' : ~IsDone(turn'[k])
    BY <1>1, <2>3, <2>4, <2>6
  <2>8. \A j, k \in DOMAIN turn' : turn'[j] = turn'[k] => j = k
    BY <1>0, <2>3, <2>4, <2>6
  <2>9. \A j \in DOMAIN turn', k \in DOMAIN still : turn'[j] # still[k]
    BY <1>0, <2>3, <2>4, <2>6
  <2>10. pc' # "reading" /\ still' = still
    BY <1>0
  <2> QED
    BY <2>2, <2>3, <2>5, <2>6, <2>7, <2>8, <2>9, <2>10 DEF Turns
<1>16. ShardsListed' /\ KinesisTypes' /\ Within' /\ Ahead' /\ SinceStarted'
  BY <1>0 DEF KinesisInv, ShardsListed, KinesisTypes, Places, Within, Ahead, Kinesis!StillToRead,
     SinceStarted
<1> QED
  BY <1>2, <1>12, <1>13, <1>14, <1>15, <1>16 DEF KinesisInv

(* One answer of GetRecords moves the iterator over what is now written.   *)
LEMMA KinesisGets ==
    ASSUME KinesisSizes, KinesisInv, NEW s \in DOMAIN listed, Kinesis!GetRecords(s)
    PROVE  KinesisInv'
<1> DEFINE from1 == Kinesis!Max({iter[s], shards[s].first})
<1>0. /\ pc = "reading" /\ s = Head(turn) /\ s \in DOMAIN shards
      /\ UNCHANGED <<shards, born, puts, saved, landed, base, missed, started, listed, opened, fallen>>
  BY DEF Kinesis!GetRecords, Kinesis!world, Kinesis!memory
<1>1. /\ turn \in Seq(DOMAIN opened) /\ still \in Seq(DOMAIN opened) /\ turn # <<>>
      /\ \A k \in DOMAIN turn : ~IsDone(turn[k])
      /\ \A k \in DOMAIN still : ~IsDone(still[k])
      /\ \A j, k \in DOMAIN turn : turn[j] = turn[k] => j = k
      /\ \A j, k \in DOMAIN still : still[j] = still[k] => j = k
      /\ \A j \in DOMAIN turn, k \in DOMAIN still : turn[j] # still[k]
  BY <1>0 DEF KinesisInv, Turns
<1>2. /\ Len(turn) \in Nat /\ Len(turn) >= 1 /\ s = turn[1] /\ s \in DOMAIN opened
      /\ DOMAIN turn = 1 .. Len(turn) /\ 1 \in DOMAIN turn
      /\ \A k \in DOMAIN turn : turn[k] \in DOMAIN opened
      /\ DOMAIN still = 1 .. Len(still) /\ Len(still) \in Nat
      /\ \A k \in DOMAIN still : still[k] \in DOMAIN opened
  BY <1>0, <1>1
<1>3. ~IsDone(s) /\ ReadingOf(s) /\ IteratorAt(s) /\ PassedFrom(s)
  BY <1>1, <1>2 DEF KinesisInv, ReadingOf
<1>4. /\ s \in born /\ s \in Kinesis!Shards /\ base[s] \in Nat
      /\ shards[s].count \in Nat /\ shards[s].first \in Nat
      /\ shards[s].count <= MaxSequence /\ MaxSequence \in Nat
      /\ 1 <= shards[s].first /\ shards[s].first <= shards[s].count + 1
      /\ iter[s] \in Nat /\ iter[s] > 0 /\ iter[s] <= shards[s].count + 1
      /\ s \in DOMAIN position => position[s] # Kinesis!Done /\ position[s].at < iter[s]
                                  /\ position[s].at \in Nat
  <2>1. /\ s \in born /\ s \in Kinesis!Shards /\ base[s] \in Nat
        /\ shards[s].count \in Nat /\ shards[s].first \in Nat
        /\ shards[s].count <= puts /\ puts \in Nat /\ puts <= MaxSequence /\ MaxSequence \in Nat
        /\ 1 <= shards[s].first /\ shards[s].first <= shards[s].count + 1
    BY <1>0 DEF KinesisInv, ShardsListed, KinesisTypes, KinesisSizes
  <2>2. s \in DOMAIN position => position[s] # Kinesis!Done /\ position[s].at \in Nat
    BY <1>3, PositionFacts DEF KinesisInv, KinesisTypes, Places, IsDone
  <2> QED
    BY <1>0, <1>3, <2>1, <2>2 DEF IteratorAt
<1>5. from1 = IF iter[s] >= shards[s].first THEN iter[s] ELSE shards[s].first
  BY <1>4, PairFacts
<1>6. /\ IsFiniteSet(rows) /\ Cardinality(rows) \in Nat /\ MaxRecords \in Nat
      /\ Kinesis!Limit = MaxRecords - Cardinality(rows) /\ Kinesis!Limit \in Nat
  <2>1. IsFiniteSet(rows) /\ MaxRecords \in Nat /\ Cardinality(rows) <= MaxRecords
    BY DEF KinesisInv, Within, KinesisSizes
  <2>2. Kinesis!Cardinality(rows) = Cardinality(rows)
    BY DEF Kinesis!Cardinality, Cardinality
  <2>3. Cardinality(rows) \in Nat
    BY <2>1, FS_CardinalityType
  <2> QED
    BY <2>1, <2>2, <2>3 DEF Kinesis!Limit
<1>7. from1 \in Nat /\ from1 >= 1 /\ from1 >= iter[s] /\ from1 >= shards[s].first
      /\ from1 <= shards[s].count + 1
      /\ \A i \in Nat : i < from1 => i < iter[s] \/ i < shards[s].first
  BY <1>4, <1>5
<1> HIDE DEF from1
<1>8. PICK upTo \in from1 - 1 .. Kinesis!Min({shards[s].count, from1 + Kinesis!Limit - 1}) :
        LET ended == shards[s].closed /\ upTo >= shards[s].count
            caughtUp == upTo >= shards[s].count /\ upTo - from1 + 1 < Kinesis!Limit
        IN  /\ rows' = rows \cup ({s} \X (from1 .. upTo))
            /\ position' = IF ended THEN Kinesis!With(position, s, Kinesis!Done)
                           ELSE IF upTo >= from1
                                THEN Kinesis!With(position, s, Kinesis!After(upTo))
                           ELSE position
            /\ iter' = Kinesis!With(iter, s, IF ended THEN 0 ELSE Kinesis!Max({iter[s], upTo + 1}))
            /\ Kinesis!GoOn(~ended /\ ~caughtUp, s)
  BY DEF Kinesis!GetRecords, from1
<1> DEFINE ended == shards[s].closed /\ upTo >= shards[s].count
           stays == ~ended /\ ~(upTo >= shards[s].count /\ upTo - from1 + 1 < Kinesis!Limit)
<1>9. /\ rows' = rows \cup ({s} \X (from1 .. upTo))
      /\ position' = IF ended THEN Kinesis!With(position, s, Kinesis!Done)
                     ELSE IF upTo >= from1 THEN Kinesis!With(position, s, Kinesis!After(upTo))
                     ELSE position
      /\ iter' = Kinesis!With(iter, s, IF ended THEN 0 ELSE Kinesis!Max({iter[s], upTo + 1}))
      /\ Kinesis!GoOn(stays, s)
      /\ stays => ~ended
      /\ stays \in BOOLEAN
  BY <1>8
<1>10. /\ upTo \in Nat /\ from1 <= upTo + 1 /\ upTo <= shards[s].count
       /\ upTo + 1 <= from1 + Kinesis!Limit
  <2> DEFINE cap == from1 + Kinesis!Limit - 1
  <2>1. cap \in Int /\ shards[s].count \in Int
    BY <1>4, <1>6, <1>7
  <2>2. Kinesis!Min({shards[s].count, cap}) = IF shards[s].count <= cap THEN shards[s].count ELSE cap
    <3> HIDE DEF cap
    <3> QED
      BY <2>1, PairFacts
  <2>3. upTo \in from1 - 1 .. Kinesis!Min({shards[s].count, cap})
    BY <1>8
  <2> QED
    BY <1>4, <1>6, <1>7, <2>1, <2>2, <2>3
<1>11. /\ ended => \A i \in Nat : i <= shards[s].count => i <= upTo
       /\ ended => shards[s].closed
  BY <1>4, <1>10
<1> HIDE DEF ended, stays
<1>12. Kinesis!Max({iter[s], upTo + 1}) = upTo + 1
  BY <1>4, <1>7, <1>10, PairFacts
<1>13. /\ DOMAIN iter' = DOMAIN iter /\ DOMAIN iter = DOMAIN opened
       /\ iter'[s] = IF ended THEN 0 ELSE upTo + 1
       /\ \A t \in DOMAIN opened : t # s => iter'[t] = iter[t]
  <2>1. DOMAIN iter = DOMAIN opened
    BY DEF KinesisInv, Unopened
  <2> QED
    BY <1>2, <1>9, <1>12, <2>1 DEF Kinesis!With
<1>14. /\ \A t : t # s => (t \in DOMAIN position' <=> t \in DOMAIN position)
       /\ \A t \in DOMAIN position : t # s => position'[t] = position[t]
       /\ ended => s \in DOMAIN position' /\ position'[s] = Kinesis!Done
       /\ ~ended /\ upTo >= from1 => s \in DOMAIN position' /\ position'[s] = Kinesis!After(upTo)
       /\ ~ended /\ ~(upTo >= from1) => position' = position
       /\ DOMAIN position \subseteq DOMAIN position'
       /\ DOMAIN position' \subseteq DOMAIN position \cup {s}
  BY <1>9 DEF Kinesis!With
<1>15. IsDone(s)' <=> ended
  <2>1. Kinesis!After(upTo) # Kinesis!Done
    BY DEF Kinesis!After, Kinesis!Done
  <2> QED
    BY <1>3, <1>14, <2>1 DEF IsDone
<1>16. \A t : t # s => (IsDone(t)' <=> IsDone(t))
  BY <1>14 DEF IsDone
<1>17. \A p : Kinesis!Finished(p) => Kinesis!Finished(p)'
  BY <1>0, <1>2, <1>3, <1>14, <1>16 DEF Kinesis!Finished, IsDone
<1>18. KinesisTypes'
  <2>1. rows' \subseteq born \X (1 .. MaxSequence)
    <3>1. from1 .. upTo \subseteq 1 .. MaxSequence
      BY <1>4, <1>7, <1>10
    <3> QED
      BY <1>4, <1>9, <3>1 DEF KinesisInv, KinesisTypes
  <2>2. Places(position)'
    <3>1. Places(position)
      BY DEF KinesisInv, KinesisTypes
    <3>2. ASSUME NEW t \in DOMAIN position', t # s
          PROVE  /\ position'[t] \in Position
                 /\ t \in DOMAIN shards => /\ position'[t].at <= shards[t].count
                                           /\ position'[t] = Kinesis!Done => shards[t].closed
      BY <1>14, <3>1, <3>2 DEF Places
    <3>3. ASSUME s \in DOMAIN position'
          PROVE  /\ position'[s] \in Position
                 /\ position'[s].at <= shards[s].count
                 /\ position'[s] = Kinesis!Done => shards[s].closed
      <4>1. CASE ended
        <5>1. position'[s] = Kinesis!Done /\ shards[s].closed /\ Kinesis!Done.at = 0
          BY <1>11, <1>14, <4>1 DEF Kinesis!Done
        <5> QED
          BY <1>4, <5>1, PositionFacts
      <4>2. CASE ~ended /\ upTo >= from1
        <5>1. /\ position'[s] = Kinesis!After(upTo) /\ Kinesis!After(upTo) \in Position
              /\ Kinesis!After(upTo).at = upTo
          BY <1>10, <1>14, <4>2, PositionFacts
        <5>2. position'[s] # Kinesis!Done
          BY <1>15, <3>3, <4>2 DEF IsDone
        <5> QED
          BY <1>10, <5>1, <5>2
      <4>3. CASE ~ended /\ ~(upTo >= from1)
        BY <1>0, <1>14, <3>1, <3>3, <4>3 DEF Places
      <4> QED
        BY <4>1, <4>2, <4>3
    <3>4. DOMAIN position' \subseteq born
      BY <1>4, <1>14, <3>1 DEF Places
    <3> QED
      BY <1>0, <3>2, <3>3, <3>4 DEF Places
  <2>3. pc' \in {"idle", "listing", "opening", "reading", "read"} /\ pc' # "idle"
    BY <1>0, <1>9 DEF Kinesis!GoOn
  <2>4. Places(saved)' /\ started' \in [Kinesis!Shards -> Nat]
    BY <1>0 DEF KinesisInv, KinesisTypes, Places
  <2> QED
    BY <1>0, <2>1, <2>2, <2>3, <2>4 DEF KinesisInv, KinesisTypes
<1>19. Within'
  <2> DEFINE I == from1 .. upTo
             P == {s} \X I
  <2>1. IsFiniteSet(I) /\ Cardinality(I) = IF from1 > upTo THEN 0 ELSE upTo - from1 + 1
    BY <1>7, <1>10, FS_Interval
  <2>2. IsFiniteSet({s}) /\ Cardinality({s}) = 1
    BY FS_Singleton
  <2> HIDE DEF I
  <2>3. IsFiniteSet(P) /\ Cardinality(P) = 1 * Cardinality(I)
    BY <2>1, <2>2, FS_Product
  <2>4. Cardinality(P) \in Nat /\ Cardinality(P) <= Kinesis!Limit
    BY <1>6, <1>7, <1>10, <2>1, <2>3
  <2>5. rows' = rows \cup P
    BY <1>9 DEF I
  <2> HIDE DEF P
  <2>6. /\ IsFiniteSet(rows \cup P)
        /\ Cardinality(rows \cup P) = Cardinality(rows) + Cardinality(P) - Cardinality(rows \cap P)
    BY <1>6, <2>3, FS_Union
  <2>7. Cardinality(rows \cap P) \in Nat
    BY <1>6, FS_Intersection, FS_CardinalityType
  <2>8. Cardinality(rows \cup P) <= MaxRecords
    BY <1>6, <2>4, <2>6, <2>7
  <2> QED
    BY <2>5, <2>6, <2>8 DEF Within
<1>20. Unopened'
  <2>1. \A t \in Kinesis!Shards, i \in Nat : <<t, i>> \in rows' \cup fallen => t \in DOMAIN opened
    BY <1>2, <1>9 DEF KinesisInv, Unopened
  <2>2. pc # "idle" /\ pc' \notin {"idle", "listing"}
    BY <1>0, <1>9 DEF Kinesis!GoOn
  <2>3. ASSUME NEW t \in born \ DOMAIN opened
        PROVE  /\ t \in DOMAIN position' <=> t \in DOMAIN saved
               /\ t \in DOMAIN saved => position'[t] = saved[t]
    <3>1. /\ t # s
          /\ t \in DOMAIN position <=> t \in DOMAIN saved
          /\ t \in DOMAIN saved => position[t] = saved[t]
      BY <1>2, <2>2 DEF KinesisInv, Unopened
    <3> QED
      BY <1>14, <3>1
  <2> QED
    BY <1>0, <1>13, <2>1, <2>2, <2>3 DEF KinesisInv, Unopened
<1>21. IteratorAt(s)'
  <2>1. iter'[s] \in Nat /\ (iter'[s] > 0 \/ IsDone(s)') /\ iter'[s] <= shards[s].count + 1
    BY <1>4, <1>10, <1>13, <1>15
  <2>2. ASSUME s \in DOMAIN position'
        PROVE  /\ position'[s] # Kinesis!Done => position'[s].at < iter'[s]
               /\ position'[s].kind \in {"since", "start"} =>
                     s \in DOMAIN saved /\ position'[s] = saved[s]
    <3>1. CASE ended
      BY <1>14, <3>1 DEF Kinesis!Done
    <3>2. CASE ~ended /\ upTo >= from1
      <4>1. /\ position'[s] = Kinesis!After(upTo) /\ Kinesis!After(upTo).at = upTo
            /\ Kinesis!After(upTo).kind = "after"
        BY <1>10, <1>14, <3>2, PositionFacts
      <4> QED
        BY <1>10, <1>13, <3>2, <4>1
    <3>3. CASE ~ended /\ ~(upTo >= from1)
      <4>1. position'[s].at < iter'[s]
        BY <1>4, <1>7, <1>10, <1>13, <1>14, <2>2, <3>3
      <4> QED
        BY <1>3, <1>14, <2>2, <3>3, <4>1 DEF IteratorAt
    <3> QED
      BY <3>1, <3>2, <3>3
  <2>3. s \in DOMAIN saved => s \in DOMAIN position'
    BY <1>3, <1>14 DEF IteratorAt
  <2>4. ASSUME opened[s] = "now", NEW i \in Nat, <<s, i>> \in rows'
        PROVE  s \in DOMAIN position'
    <3>1. CASE <<s, i>> \in rows
      BY <1>3, <1>14, <2>4, <3>1 DEF IteratorAt
    <3>2. CASE <<s, i>> \notin rows
      <4>1. i \in from1 .. upTo
        BY <1>9, <2>4, <3>2
      <4> QED
        BY <1>7, <1>10, <1>14, <4>1
    <3> QED
      BY <3>1, <3>2
  <2>5. ASSUME opened[s] = "now", s \in DOMAIN position', ~IsDone(s)'
        PROVE  \E i \in 1 .. MaxSequence : <<s, i>> \in rows'
    <3>1. CASE upTo >= from1
      <4>1. upTo \in 1 .. MaxSequence /\ upTo \in from1 .. upTo
        BY <1>4, <1>7, <1>10, <3>1
      <4> QED
        BY <1>9, <4>1
    <3>2. CASE ~(upTo >= from1)
      <4>1. s \in DOMAIN position
        BY <1>14, <1>15, <2>5, <3>2
      <4>2. \E i \in 1 .. MaxSequence : <<s, i>> \in rows
        BY <1>3, <2>5, <4>1 DEF IteratorAt
      <4> QED
        BY <1>9, <4>2
    <3> QED
      BY <3>1, <3>2
  <2>6. opened[s] \in {"continuing", "now", "start"} /\ (opened[s] = "now" => s \notin DOMAIN saved)
    BY <1>3 DEF IteratorAt
  <2> QED
    BY <1>0, <2>1, <2>2, <2>3, <2>4, <2>5, <2>6 DEF IteratorAt
<1>22. \A j \in Nat : j <= shards[s].count /\ Past(s, j)' => j <= upTo
  BY <1>4, <1>10, <1>11, <1>13, <1>15 DEF Past
<1>23. ~IsDone(s)' => iter'[s] .. shards[s].first - 1 = {}
  BY <1>4, <1>7, <1>10, <1>13, <1>15
<1>24. ASSUME NEW j \in Nat, j <= upTo
       PROVE  \/ Past(s, j)
              \/ j \in iter[s] .. shards[s].first - 1
              \/ <<s, j>> \in rows' /\ j >= from1
  <2>1. CASE j >= from1
    BY <1>7, <1>9, <1>10, <1>24, <2>1
  <2>2. CASE j < from1
    BY <1>4, <1>7, <2>2 DEF Past
  <2> QED
    BY <1>7, <2>1, <2>2
<1>25. PassedFrom(s)'
  <2>1. ASSUME opened[s] # "now", NEW i \in base[s] + 1 .. shards[s].count, Past(s, i)'
        PROVE  <<s, i>> \in landed \cup missed \cup rows' \cup fallen
    <3>1. i \in Nat /\ i > base[s] /\ i <= upTo
      BY <1>4, <1>22, <2>1
    <3>2. rows \subseteq rows'
      BY <1>9
    <3> QED
      BY <1>0, <1>3, <1>24, <2>1, <3>1, <3>2 DEF PassedFrom
  <2>2. ASSUME opened[s] = "now", NEW i \in 1 .. shards[s].count, NEW j \in i .. shards[s].count,
               <<s, i>> \in rows', Past(s, j)'
        PROVE  <<s, j>> \in rows' \cup missed
    <3>1. i \in Nat /\ j \in Nat /\ i <= j /\ j <= upTo
      BY <1>4, <1>22, <2>2
    <3>2. CASE j >= from1
      BY <1>7, <1>9, <1>10, <3>1, <3>2
    <3>3. CASE j < from1
      <4>1. <<s, i>> \in rows
        <5>1. i \notin from1 .. upTo
          BY <1>7, <3>1, <3>3
        <5> QED
          BY <1>9, <2>2, <5>1
      <4>2. Past(s, j) \/ j \in iter[s] .. shards[s].first - 1
        BY <1>4, <1>7, <3>1, <3>3 DEF Past
      <4>3. rows \subseteq rows'
        BY <1>9
      <4> QED
        BY <1>0, <1>3, <2>2, <4>1, <4>2, <4>3 DEF PassedFrom
    <3> QED
      BY <1>7, <3>1, <3>2, <3>3
  <2> QED
    BY <1>0, <1>23, <2>1, <2>2 DEF PassedFrom
<1>26. ASSUME NEW t \in DOMAIN opened PROVE ReadingOf(t)'
  <2>1. ReadingOf(t)
    BY DEF KinesisInv
  <2>2. \A p \in listed[t] : Kinesis!Finished(p)'
    BY <1>17, <2>1 DEF ReadingOf
  <2>3. CASE t = s
    BY <1>0, <1>21, <1>25, <2>2, <2>3 DEF ReadingOf
  <2>4. CASE t # s
    <3>1. /\ iter'[t] = iter[t] /\ (t \in DOMAIN position' <=> t \in DOMAIN position)
          /\ t \in DOMAIN position => position'[t] = position[t]
          /\ IsDone(t)' <=> IsDone(t)
      BY <1>13, <1>14, <1>16, <2>4
    <3>2. \A i : <<t, i>> \in rows' <=> <<t, i>> \in rows
      BY <1>9, <2>4
    <3>3. IteratorAt(t)'
      BY <1>0, <2>1, <3>1, <3>2 DEF ReadingOf, IteratorAt
    <3>4. \A i : Past(t, i)' <=> Past(t, i)
      BY <3>1 DEF Past
    <3>5. PassedFrom(t)'
      BY <1>0, <2>1, <3>1, <3>2, <3>4 DEF ReadingOf, PassedFrom
    <3> QED
      BY <1>0, <2>2, <3>3, <3>5 DEF ReadingOf
  <2> QED
    BY <2>3, <2>4
<1>27. Turns'
  <2> DEFINE more == IF stays THEN Append(still, s) ELSE still
             rest == Tail(turn)
  <2>1. /\ turn' = IF Len(turn) = 1 THEN more ELSE rest
        /\ still' = IF Len(turn) = 1 THEN <<>> ELSE more
        /\ pc' = IF Len(turn) = 1 /\ more = <<>> THEN "opening" ELSE pc
    BY <1>9 DEF Kinesis!GoOn
  <2>2. /\ rest \in Seq(DOMAIN opened) /\ DOMAIN rest = 1 .. Len(turn) - 1
        /\ \A k \in DOMAIN rest : rest[k] = turn[k + 1] /\ k + 1 \in DOMAIN turn
    BY <1>1, <1>2
  <2>3. /\ more \in Seq(DOMAIN opened)
        /\ \A k \in DOMAIN more :
              \/ k \in DOMAIN still /\ more[k] = still[k]
              \/ k = Len(still) + 1 /\ more[k] = s /\ stays
    <3>1. CASE stays
      <4>1. /\ more = Append(still, s) /\ more \in Seq(DOMAIN opened)
            /\ DOMAIN more = 1 .. Len(still) + 1 /\ more[Len(still) + 1] = s
            /\ \A k \in 1 .. Len(still) : more[k] = still[k]
        BY <1>1, <1>2, <3>1
      <4> HIDE DEF more
      <4> QED
        BY <1>2, <3>1, <4>1
    <3>2. CASE ~stays
      BY <1>1, <3>2
    <3> QED
      BY <3>1, <3>2
  <2> HIDE DEF more, rest
  <2>4. \A k \in DOMAIN still : still[k] # s
    BY <1>1, <1>2
  <2>5. \A k \in DOMAIN rest : rest[k] # s
    BY <1>1, <1>2, <2>2
  <2>6. \A j, k \in DOMAIN rest : rest[j] = rest[k] => j = k
    BY <1>1, <1>2, <2>2
  <2>7. \A j, k \in DOMAIN more : more[j] = more[k] => j = k
    BY <1>1, <2>3, <2>4
  <2>8. \A j \in DOMAIN rest, k \in DOMAIN more : rest[j] # more[k]
    BY <1>1, <2>2, <2>3, <2>5
  <2> DEFINE Ends(t) == t \in DOMAIN position' /\ position'[t] = Kinesis!Done
  <2>e. /\ \A t : t # s => (Ends(t) <=> IsDone(t))
        /\ Ends(s) <=> ended
    BY <1>15, <1>16 DEF IsDone
  <2> HIDE DEF Ends
  <2>9. \A k \in DOMAIN more : ~Ends(more[k])
    BY <1>1, <1>9, <2>e, <2>3, <2>4
  <2>10. \A k \in DOMAIN rest : ~Ends(rest[k])
    BY <1>1, <2>e, <2>2, <2>5
  <2>11. CASE Len(turn) = 1
    <3>1. turn' = more /\ still' = <<>> /\ DOMAIN still' = {} /\ still' \in Seq(DOMAIN opened)
          /\ (pc' = "reading" => turn' # <<>>)
      BY <2>1, <2>11
    <3> QED
      BY <1>0, <2>3, <2>7, <2>9, <3>1 DEF Turns, IsDone, Ends
  <2>12. CASE Len(turn) # 1
    <3>1. turn' = rest /\ still' = more
      BY <2>1, <2>12
    <3>2. rest # <<>>
      <4>1. 1 \in DOMAIN rest
        BY <1>2, <2>2, <2>12
      <4> QED
        BY <4>1
    <3> QED
      BY <1>0, <2>2, <2>3, <2>6, <2>7, <2>8, <2>9, <2>10, <3>1, <3>2
         DEF Turns, IsDone, Ends
  <2> QED
    BY <2>11, <2>12
<1>28. ShardsListed' /\ Ahead' /\ SinceStarted'
  <2>1. pc # "idle"
    BY <1>0
  <2> QED
    BY <1>0, <2>1 DEF KinesisInv, ShardsListed, Ahead, Kinesis!StillToRead, SinceStarted
<1> QED
  BY <1>0, <1>18, <1>19, <1>20, <1>26, <1>27, <1>28 DEF KinesisInv

(* A run that succeeds: what it passed has landed, and its checkpoint lies *)
(* before all else.                                                        *)
LEMMA KinesisSucceeds == ASSUME KinesisSizes, KinesisInv, Kinesis!RunSucceeds PROVE KinesisInv'
<1> DEFINE Rows(s) == {i \in 1 .. MaxSequence : <<s, i>> \in rows}
           Now(s) == s \in DOMAIN opened /\ opened[s] = "now"
<1>0. /\ pc = "read" /\ UNCHANGED <<shards, born, puts>>
      /\ saved' = Kinesis!Checkpoint /\ landed' = landed \cup rows /\ missed' = missed \cup fallen
      /\ base' = [s \in Kinesis!Shards |->
                    IF ~Now(s) THEN base[s]
                    ELSE IF Rows(s) # {} THEN Kinesis!Min(Rows(s)) - 1
                    ELSE IF Kinesis!Checkpoint[s] = Kinesis!Done THEN MaxSequence
                    ELSE started[s]]
      /\ pc' = "idle" /\ rows' = {} /\ fallen' = {} /\ turn' = <<>> /\ still' = <<>>
      /\ listed' = <<>> /\ opened' = <<>> /\ iter' = <<>> /\ position' = <<>>
  <2>1. \A s : Rows(s) # {} <=> \E i \in 1 .. MaxSequence : <<s, i>> \in rows
    OBVIOUS
  <2>2. base' = [s \in Kinesis!Shards |->
                  IF s \notin DOMAIN opened \/ opened[s] # "now" THEN base[s]
                  ELSE IF \E i \in 1 .. MaxSequence : <<s, i>> \in rows
                       THEN Kinesis!Min(Rows(s)) - 1
                  ELSE IF Kinesis!Checkpoint[s] = Kinesis!Done THEN MaxSequence
                  ELSE started[s]]
    BY DEF Kinesis!RunSucceeds
  <2>3. base' = [s \in Kinesis!Shards |->
                    IF ~Now(s) THEN base[s]
                    ELSE IF Rows(s) # {} THEN Kinesis!Min(Rows(s)) - 1
                    ELSE IF Kinesis!Checkpoint[s] = Kinesis!Done THEN MaxSequence
                    ELSE started[s]]
    <3> HIDE DEF Rows
    <3> QED
      BY <2>1, <2>2
  <2> QED
    BY <2>3 DEF Kinesis!RunSucceeds, Kinesis!Over, Kinesis!world
<1>1. DOMAIN listed' = {} /\ DOMAIN opened' = {} /\ DOMAIN iter' = {} /\ DOMAIN position' = {}
  BY <1>0
<1>2. ASSUME NEW s, Rows(s) # {}
      PROVE  /\ Kinesis!Min(Rows(s)) \in Nat /\ Kinesis!Min(Rows(s)) >= 1
             /\ <<s, Kinesis!Min(Rows(s))>> \in rows
  <2>1. Rows(s) \in SUBSET Nat
    BY DEF KinesisSizes
  <2>2. Kinesis!Min(Rows(s)) \in Rows(s)
    <3> HIDE DEF Rows
    <3> QED
      BY <1>2, <2>1, LeastExists DEF Kinesis!Min
  <2> QED
    BY <2>2 DEF KinesisSizes
<1>3. /\ DOMAIN saved' = DOMAIN position \cup DOMAIN opened
      /\ \A s \in DOMAIN position : saved'[s] = position[s]
      /\ \A s \in DOMAIN opened \ DOMAIN position :
            saved'[s] = IF Now(s) THEN Kinesis!Since(started[s]) ELSE Kinesis!Start
  BY <1>0 DEF Kinesis!Checkpoint, Kinesis!LeftUnread
<1>4. /\ DOMAIN opened \subseteq born /\ born \subseteq Kinesis!Shards
      /\ \A s \in Kinesis!Shards : base[s] \in Nat /\ started[s] \in Nat
      /\ MaxSequence \in Nat /\ DOMAIN shards \subseteq Kinesis!Shards
      /\ DOMAIN shards \subseteq born
  BY <1>0 DEF KinesisInv, Unopened, ShardsListed, KinesisTypes, KinesisSizes
<1>5. /\ \A s \in DOMAIN shards : /\ shards[s].count \in Nat /\ shards[s].first \in Nat
                                  /\ shards[s].first <= shards[s].count + 1
                                  /\ shards[s].count <= MaxSequence
                                  /\ started[s] <= shards[s].count
      /\ Places(position)
  <2>1. /\ puts \in Nat /\ puts <= MaxSequence
        /\ \A s \in DOMAIN shards : /\ shards[s].count \in Nat /\ shards[s].first \in Nat
                                    /\ shards[s].first <= shards[s].count + 1
                                    /\ shards[s].count <= puts
    BY DEF KinesisInv, ShardsListed
  <2>2. \A s \in DOMAIN shards : started[s] <= shards[s].count
    BY <1>0 DEF KinesisInv, SinceStarted
  <2> QED
    BY <1>4, <2>1, <2>2 DEF KinesisInv, KinesisTypes
<1> HIDE DEF Rows, Now
<1>6. base' \in [Kinesis!Shards -> Nat]
  <2>1. ASSUME NEW s \in Kinesis!Shards PROVE base'[s] \in Nat
    <3>1. CASE Now(s) /\ Rows(s) # {}
      <4> DEFINE m == Kinesis!Min(Rows(s))
      <4>1. base'[s] = m - 1
        BY <1>0, <3>1
      <4>2. m \in Nat /\ m >= 1
        BY <1>2, <3>1
      <4> HIDE DEF m
      <4> QED
        BY <4>1, <4>2
    <3>2. CASE ~Now(s)
      <4>1. base'[s] = base[s]
        BY <1>0, <3>2
      <4> QED
        BY <1>4, <4>1
    <3>3. CASE Now(s) /\ Rows(s) = {}
      <4>1. base'[s] = MaxSequence \/ base'[s] = started[s]
        BY <1>0, <3>3
      <4> QED
        BY <1>4, <4>1
    <3> QED
      BY <3>1, <3>2, <3>3
  <2> QED
    BY <1>0, <2>1
<1>7. Places(saved)'
  <2>1. ASSUME NEW s \in DOMAIN saved'
        PROVE  /\ saved'[s] \in Position
               /\ s \in DOMAIN shards => /\ saved'[s].at <= shards[s].count
                                         /\ saved'[s] = Kinesis!Done => shards[s].closed
    <3>1. CASE s \in DOMAIN position
      BY <1>3, <1>5, <3>1 DEF Places
    <3>2. CASE s \notin DOMAIN position /\ Now(s)
      <4>1. /\ saved'[s] = Kinesis!Since(started[s]) /\ started[s] \in Nat
        BY <1>3, <1>4, <2>1, <3>2
      <4>2. saved'[s] \in Position /\ saved'[s].at = started[s] /\ saved'[s].kind = "since"
        BY <4>1, PositionFacts
      <4>3. saved'[s] # Kinesis!Done
        BY <4>2, PositionFacts
      <4> QED
        BY <1>5, <4>2, <4>3
    <3>3. CASE s \notin DOMAIN position /\ ~Now(s)
      <4>1. saved'[s] = Kinesis!Start
        BY <1>3, <2>1, <3>3
      <4>2. Kinesis!Start.at = 0 /\ Kinesis!Start # Kinesis!Done /\ Kinesis!Start \in Position
        BY PositionFacts DEF Kinesis!Start, Kinesis!Done
      <4> QED
        BY <1>5, <4>1, <4>2
    <3> QED
      BY <3>1, <3>2, <3>3
  <2>2. DOMAIN saved' \subseteq born
    BY <1>3, <1>4, <1>5 DEF Places
  <2> QED
    BY <1>0, <2>1, <2>2 DEF Places
<1>8. Places(position)'
  BY <1>1 DEF Places
<1>9. KinesisTypes'
  <2>1. landed' \subseteq born \X (1 .. MaxSequence)
    BY <1>0 DEF KinesisInv, KinesisTypes
  <2> QED
    BY <1>0, <1>6, <1>7, <1>8, <2>1 DEF KinesisTypes
<1>10. Ahead'
  <2> SUFFICES ASSUME NEW s \in DOMAIN shards, NEW i \in base'[s] + 1 .. shards[s].count,
                      <<s, i>> \notin landed \cup rows \cup missed \cup fallen
               PROVE  /\ s \in DOMAIN saved' => saved'[s] # Kinesis!Done /\ i > saved'[s].at
                      /\ \/ i >= shards[s].first
                         \/ s \in DOMAIN saved' /\ saved'[s].kind = "after"
    BY <1>0 DEF Ahead, Kinesis!StillToRead
  <2>0. /\ i \in Nat /\ base'[s] \in Nat /\ i > base'[s] /\ i <= shards[s].count
        /\ s \in Kinesis!Shards /\ s \in born /\ i \in 1 .. shards[s].count
    BY <1>4, <1>5, <1>6
  <2>1. CASE s \notin DOMAIN opened
    <3>1. base'[s] = base[s]
      BY <1>0, <2>0, <2>1 DEF Now
    <3>2. /\ s \in DOMAIN saved' <=> s \in DOMAIN saved
          /\ s \in DOMAIN saved => saved'[s] = saved[s]
      BY <1>0, <1>3, <2>0, <2>1 DEF KinesisInv, Unopened
    <3> QED
      BY <2>0, <3>1, <3>2 DEF KinesisInv, Ahead, Kinesis!StillToRead
  <2>2. ASSUME s \in DOMAIN opened
        PROVE  /\ IteratorAt(s) /\ PassedFrom(s) /\ iter[s] \in Nat
               /\ ~Past(s, i) => i >= iter[s] /\ ~IsDone(s)
               /\ ~IsDone(s) /\ s \in DOMAIN position => position[s].at < iter[s]
                                                         /\ position[s].at \in Nat
    <3>1. IteratorAt(s) /\ PassedFrom(s) /\ iter[s] \in Nat
      BY <2>2 DEF KinesisInv, ReadingOf, IteratorAt
    <3>2. s \in DOMAIN position => position[s].at \in Nat
      BY <1>5, PositionFacts DEF Places
    <3> QED
      BY <2>0, <3>1, <3>2 DEF Past, IteratorAt, IsDone
  <2>3. ASSUME s \in DOMAIN opened, ~Past(s, i), s \in DOMAIN position
        PROVE  s \in DOMAIN saved' => saved'[s] # Kinesis!Done /\ i > saved'[s].at
    BY <1>3, <2>0, <2>2, <2>3 DEF IsDone
  <2>4. CASE s \in DOMAIN opened /\ ~Now(s)
    <3>1. base'[s] = base[s] /\ opened[s] # "now"
      BY <1>0, <2>0, <2>4 DEF Now
    <3>2. ~Past(s, i)
      BY <2>0, <2>2, <2>4, <3>1 DEF PassedFrom
    <3>3. i >= shards[s].first
      <4>1. i \notin iter[s] .. shards[s].first - 1
        BY <2>0, <2>2, <2>4, <3>1, <3>2 DEF PassedFrom
      <4> QED
        BY <1>5, <2>0, <2>2, <2>4, <3>2, <4>1
    <3>4. s \notin DOMAIN position => saved'[s] # Kinesis!Done /\ i > saved'[s].at
      <4>1. Kinesis!Start.at = 0 /\ Kinesis!Start # Kinesis!Done
        BY DEF Kinesis!Start, Kinesis!Done
      <4> QED
        BY <1>3, <2>0, <2>4, <4>1
    <3> QED
      BY <2>3, <2>4, <3>2, <3>3, <3>4
  <2>5. CASE Now(s) /\ Rows(s) # {}
    <3> DEFINE m == Kinesis!Min(Rows(s))
    <3>1. base'[s] = m - 1
      BY <1>0, <2>0, <2>5
    <3>2. m \in Nat /\ m >= 1 /\ <<s, m>> \in rows
      BY <1>2, <2>5
    <3> HIDE DEF m
    <3>3. m \in 1 .. shards[s].count /\ i \in m .. shards[s].count
      BY <1>5, <2>0, <3>1, <3>2
    <3>4. s \in DOMAIN opened /\ opened[s] = "now"
      BY <2>5 DEF Now
    <3>5. ~Past(s, i) /\ s \in DOMAIN position
      BY <2>2, <3>2, <3>3, <3>4 DEF PassedFrom, IteratorAt
    <3>6. i \notin iter[s] .. shards[s].first - 1
      BY <2>2, <3>4, <3>5 DEF PassedFrom
    <3>7. i >= shards[s].first
      BY <1>5, <2>0, <2>2, <3>4, <3>5, <3>6
    <3> QED
      BY <2>3, <3>4, <3>5, <3>7
  <2>6. CASE Now(s) /\ Rows(s) = {}
    <3>1. s \in DOMAIN opened /\ opened[s] = "now" /\ s \in DOMAIN saved'
      BY <1>3, <2>6 DEF Now
    <3>2. CASE saved'[s] = Kinesis!Done
      <4>1. base'[s] = MaxSequence
        BY <1>0, <2>0, <2>6, <3>2
      <4> QED
        BY <1>4, <1>5, <2>0, <4>1
    <3>3. CASE saved'[s] # Kinesis!Done
      <4>1. base'[s] = started[s]
        BY <1>0, <2>0, <2>6, <3>3
      <4>2. s \notin DOMAIN position
        BY <1>3, <2>2, <2>6, <3>1, <3>3 DEF IteratorAt, IsDone, Rows
      <4>3. saved'[s] = Kinesis!Since(started[s]) /\ started[s] \in Nat
        BY <1>3, <1>4, <2>0, <2>6, <3>1, <4>2
      <4>4. saved'[s].at = started[s]
        BY <4>3, PositionFacts
      <4>5. i \notin started[s] + 1 .. shards[s].first - 1
        BY <1>0 DEF KinesisInv, SinceStarted
      <4> QED
        BY <1>5, <2>0, <3>3, <4>1, <4>3, <4>4, <4>5
    <3> QED
      BY <3>2, <3>3
  <2> QED
    BY <2>1, <2>4, <2>5, <2>6 DEF Now
<1>11. Within'
  BY <1>0, FS_EmptySet DEF Within, KinesisSizes
<1>12. Turns'
  BY <1>0 DEF Turns
<1>13. ShardsListed' /\ Unopened' /\ SinceStarted'
  BY <1>0, <1>1 DEF KinesisInv, ShardsListed, Unopened, SinceStarted
<1> QED
  BY <1>1, <1>9, <1>10, <1>11, <1>12, <1>13 DEF KinesisInv

(* resetting: a reader that forgets its checkpoint begins at what is held. *)
LEMMA KinesisForgets == ASSUME KinesisSizes, KinesisInv, Kinesis!Forget PROVE KinesisInv'
<1>0. /\ pc = "idle" /\ saved' = Kinesis!NoPosition /\ landed' = {} /\ missed' = {}
      /\ base' = [s \in Kinesis!Shards |-> IF s \in DOMAIN shards THEN shards[s].first - 1 ELSE 0]
      /\ UNCHANGED <<shards, born, puts, pc, started, listed, position, opened, iter, turn, still,
                     rows, fallen>>
  BY DEF Kinesis!Forget, Kinesis!world, Kinesis!run
<1>1. DOMAIN saved' = {} /\ DOMAIN opened = {} /\ DOMAIN listed = {}
  BY <1>0 DEF Kinesis!NoPosition, KinesisInv, Unopened
<1>2. /\ DOMAIN shards \subseteq Kinesis!Shards
      /\ \A s \in DOMAIN shards : shards[s].first \in Nat /\ 1 <= shards[s].first
                                  /\ shards[s].count \in Nat
  BY DEF KinesisInv, ShardsListed
<1>3. base' \in [Kinesis!Shards -> Nat]
  BY <1>0, <1>2
<1>4. Ahead'
  <2> SUFFICES ASSUME NEW s \in DOMAIN shards, NEW i \in base'[s] + 1 .. shards[s].count
               PROVE  i >= shards[s].first
    BY <1>0, <1>1 DEF Ahead, Kinesis!StillToRead
  <2>1. base'[s] = shards[s].first - 1
    BY <1>0, <1>2
  <2> QED
    BY <1>2, <2>1
<1>5. KinesisTypes'
  BY <1>0, <1>1, <1>3 DEF KinesisInv, KinesisTypes, Places
<1>6. ShardsListed' /\ Within' /\ Unopened' /\ SinceStarted' /\ Turns'
  BY <1>0, <1>1 DEF KinesisInv, ShardsListed, Within, Unopened, SinceStarted, Turns, IsDone
<1> QED
  BY <1>0, <1>1, <1>4, <1>5, <1>6 DEF KinesisInv

LEMMA KinesisStep == ASSUME KinesisSizes PROVE KinesisInv /\ [Kinesis!Next]_Kinesis!vars => KinesisInv'
<1> SUFFICES ASSUME KinesisInv, [Kinesis!Next]_Kinesis!vars PROVE KinesisInv'
  OBVIOUS
<1>1. CASE Kinesis!Stream
  BY <1>1, KinesisStream
<1>2. CASE Kinesis!Begin \/ Kinesis!ListShards \/ Kinesis!AllOpened \/ Kinesis!Capped
  BY <1>2, KinesisPlans
<1>3. ASSUME NEW s \in DOMAIN listed, Kinesis!OpenIterator(s) PROVE KinesisInv'
  BY <1>3, KinesisOpens
<1>4. ASSUME NEW s \in DOMAIN listed, Kinesis!GetRecords(s) PROVE KinesisInv'
  BY <1>4, KinesisGets
<1>5. CASE Kinesis!RunSucceeds
  BY <1>5, KinesisSucceeds
<1>6. CASE Kinesis!Forget
  BY <1>6, KinesisForgets
<1>7. CASE \/ \E s \in DOMAIN listed : Kinesis!OpenFails(s)
           \/ Kinesis!ReadFails \/ Kinesis!RowFails \/ Kinesis!RunFails
  <2>1. Kinesis!Over /\ UNCHANGED <<Kinesis!world, Kinesis!memory>>
    BY <1>7 DEF Kinesis!OpenFails, Kinesis!ReadFails, Kinesis!RowFails, Kinesis!RunFails
  <2> QED
    BY <2>1, KinesisOver
<1>8. CASE UNCHANGED Kinesis!vars
  <2>1. UNCHANGED <<shards, born, puts, saved, landed, base, missed, pc, started, listed, position,
                    opened, iter, turn, still, rows, fallen>>
    BY <1>8 DEF Kinesis!vars, Kinesis!world, Kinesis!memory, Kinesis!run
  <2>2. ASSUME NEW s \in DOMAIN opened PROVE ReadingOf(s)'
    BY <2>1 DEF KinesisInv, ReadingOf, IteratorAt, PassedFrom, Past, IsDone, Kinesis!Finished
  <2> QED
    BY <2>1, <2>2 DEF KinesisInv, ShardsListed, KinesisTypes, Places, Within, Ahead,
       Kinesis!StillToRead, Unopened, SinceStarted, Turns, IsDone
<1> QED
  BY <1>1, <1>2, <1>3, <1>4, <1>5, <1>6, <1>7, <1>8 DEF Kinesis!Next, Kinesis!Run

LEMMA KinesisInit == ASSUME KinesisSizes PROVE Kinesis!Init => KinesisInv
<1> SUFFICES ASSUME Kinesis!Init PROVE KinesisInv
  OBVIOUS
<1>1. /\ shards = [s \in {1, 2} |-> Kinesis!New({})] /\ born = {1, 2} /\ puts = 0
      /\ saved = Kinesis!NoPosition /\ landed = {} /\ missed = {}
      /\ base = [s \in Kinesis!Shards |-> 0] /\ pc = "idle"
      /\ rows = {} /\ fallen = {} /\ turn = <<>> /\ still = <<>>
      /\ listed = <<>> /\ opened = <<>> /\ iter = <<>> /\ position = <<>>
  BY DEF Kinesis!Init
<1>2. /\ DOMAIN listed = {} /\ DOMAIN opened = {} /\ DOMAIN iter = {} /\ DOMAIN position = {}
      /\ DOMAIN saved = {}
  BY <1>1 DEF Kinesis!NoPosition
<1>3. born \subseteq Kinesis!Shards
  BY <1>1 DEF Kinesis!Shards, KinesisSizes
<1>4. /\ DOMAIN shards = born
      /\ \A s \in DOMAIN shards : shards[s] = [count |-> 0, first |-> 1, closed |-> FALSE, parents |-> {}]
  BY <1>1 DEF Kinesis!New
<1>5. ShardsListed
  <2>1. ASSUME NEW s \in DOMAIN shards
        PROVE  /\ shards[s] \in [count : Nat, first : Nat, closed : BOOLEAN, parents : SUBSET born]
               /\ shards[s].count = 0 /\ shards[s].first = 1
    <3>1. FALSE \in BOOLEAN /\ {} \in SUBSET born /\ 0 \in Nat /\ 1 \in Nat
      OBVIOUS
    <3>2. [count |-> 0, first |-> 1, closed |-> FALSE, parents |-> {}]
            \in [count : Nat, first : Nat, closed : BOOLEAN, parents : SUBSET born]
      BY <3>1, Zenon
    <3>3. shards[s] = [count |-> 0, first |-> 1, closed |-> FALSE, parents |-> {}]
      BY <1>4
    <3> QED
      BY <3>2, <3>3
  <2>2. /\ puts \in Nat /\ puts <= MaxSequence
        /\ \A s \in DOMAIN shards : /\ shards[s].count <= puts /\ 1 <= shards[s].first
                                    /\ shards[s].first <= shards[s].count + 1
    BY <1>1, <2>1 DEF KinesisSizes
  <2> QED
    BY <1>3, <1>4, <2>1, <2>2 DEF ShardsListed
<1>6. Ahead
  <2> SUFFICES ASSUME NEW s \in DOMAIN shards PROVE base[s] + 1 .. shards[s].count = {}
    BY DEF Ahead
  <2>1. base[s] = 0 /\ shards[s].count = 0
    BY <1>1, <1>3, <1>4
  <2> QED
    BY <2>1
<1>7. Within
  BY <1>1, FS_EmptySet DEF Within, KinesisSizes
<1>8. Turns
  BY <1>1 DEF Turns
<1>9. KinesisTypes
  BY <1>1, <1>2 DEF KinesisTypes, Places
<1>10. Unopened /\ SinceStarted
  BY <1>1, <1>2 DEF Unopened, SinceStarted
<1> QED
  BY <1>2, <1>5, <1>6, <1>7, <1>8, <1>9, <1>10 DEF KinesisInv

LEMMA KinesisImplies ==
    ASSUME KinesisSizes
    PROVE  KinesisInv => Kinesis!TypeOK /\ Kinesis!SkipsNothing /\ Kinesis!ParentsFirst
<1> SUFFICES ASSUME KinesisInv PROVE Kinesis!TypeOK /\ Kinesis!SkipsNothing /\ Kinesis!ParentsFirst
  OBVIOUS
<1>1. Kinesis!TypeOK
  <2>1. ASSUME NEW s \in DOMAIN shards
        PROVE  /\ shards[s].count \in 0 .. MaxSequence
               /\ shards[s].first \in 1 .. shards[s].count + 1
    <3>1. /\ shards[s].count \in Nat /\ shards[s].first \in Nat /\ puts \in Nat
          /\ shards[s].count <= puts /\ puts <= MaxSequence /\ MaxSequence \in Nat
          /\ 1 <= shards[s].first /\ shards[s].first <= shards[s].count + 1
      BY DEF KinesisInv, ShardsListed, KinesisSizes
    <3> QED
      BY <3>1
  <2>2. Kinesis!Cardinality(rows) <= MaxRecords
    <3>1. Kinesis!Cardinality(rows) = Cardinality(rows)
      BY DEF Kinesis!Cardinality, Cardinality
    <3> QED
      BY <3>1 DEF KinesisInv, Within
  <2>3. Kinesis!Range(turn) \cup Kinesis!Range(still) \subseteq DOMAIN opened
    <3>1. turn \in Seq(DOMAIN opened) /\ still \in Seq(DOMAIN opened)
      BY DEF KinesisInv, Turns
    <3> QED
      BY <3>1 DEF Kinesis!Range
  <2>4. /\ DOMAIN shards \subseteq born /\ DOMAIN saved \subseteq born
        /\ DOMAIN opened \subseteq DOMAIN listed
        /\ landed \cup rows \subseteq born \X (1 .. MaxSequence)
        /\ pc \in {"idle", "listing", "opening", "reading", "read"}
    BY DEF KinesisInv, ShardsListed, KinesisTypes, Places, Unopened
  <2> QED
    BY <2>1, <2>2, <2>3, <2>4 DEF Kinesis!TypeOK
<1>2. Kinesis!SkipsNothing
  BY DEF KinesisInv, Ahead, Kinesis!SkipsNothing
<1>3. Kinesis!ParentsFirst
  <2> SUFFICES ASSUME NEW s \in DOMAIN listed, NEW k \in 1 .. MaxSequence, <<s, k>> \in rows,
                      NEW p \in listed[s] \cap DOMAIN shards,
                      NEW i \in Kinesis!Max({shards[p].first, base[p] + 1}) .. shards[p].count,
                      ~(p \in DOMAIN opened /\ opened[p] = "now")
               PROVE  <<p, i>> \in landed \cup rows \cup missed
    BY DEF Kinesis!ParentsFirst
  <2>1. /\ shards[p].first \in Nat /\ base[p] \in Nat /\ shards[p].count \in Nat
        /\ p \in born /\ s \in Kinesis!Shards /\ k \in Nat
    BY DEF KinesisInv, ShardsListed, KinesisTypes, Unopened, KinesisSizes
  <2>2. i \in Nat /\ i >= shards[p].first /\ i \in base[p] + 1 .. shards[p].count
    <3>1. Kinesis!Max({shards[p].first, base[p] + 1}) =
            IF shards[p].first >= base[p] + 1 THEN shards[p].first ELSE base[p] + 1
      BY <2>1, PairFacts
    <3> QED
      BY <2>1, <3>1
  <2>3. s \in DOMAIN opened /\ p \in DOMAIN listed /\ pc # "idle"
    BY <2>1 DEF KinesisInv, Unopened
  <2>4. IsDone(p)
    BY <2>3 DEF KinesisInv, ReadingOf, Kinesis!Finished, IsDone
  <2>5. CASE p \in DOMAIN opened
    <3>1. <<p, i>> \in landed \cup missed \cup rows \cup fallen
      BY <2>2, <2>4, <2>5 DEF KinesisInv, ReadingOf, PassedFrom, Past
    <3>2. <<p, i>> \notin fallen
      BY <2>1, <2>2 DEF KinesisInv, Unopened
    <3> QED
      BY <3>1, <3>2
  <2>6. CASE p \notin DOMAIN opened
    <3>1. p \in DOMAIN saved /\ saved[p] = Kinesis!Done
      BY <2>1, <2>3, <2>4, <2>6 DEF KinesisInv, Unopened, IsDone
    <3> QED
      BY <2>2, <3>1 DEF KinesisInv, Ahead, Kinesis!StillToRead
  <2> QED
    BY <2>5, <2>6
<1> QED
  BY <1>1, <1>2, <1>3

(* For any number of shards, records and runs and any max_records: the     *)
(* Kinesis reader (read_batch, kinesis.rs) delivers every record that it   *)
(* was to read and that was still held, through splits, merges and caps,   *)
(* and writes a child's records only after those of its parents.           *)
THEOREM KinesisReadsTheorem == ASSUME KinesisSizes PROVE Spec => []KinesisReads
<1> DEFINE Inv == which = "kinesis" => KinesisInv
<1>1. Init => Inv
  BY KinesisInit DEF Init
<1>2. Inv /\ [Next]_all => Inv'
  <2> SUFFICES ASSUME Inv, [Next]_all, which' = "kinesis" PROVE KinesisInv'
    OBVIOUS
  <2>1. which = "kinesis" /\ [Kinesis!Next]_Kinesis!vars
    BY DEF Next, all, ofKinesis, Kinesis!vars, Kinesis!world, Kinesis!memory, Kinesis!run
  <2> QED
    BY <2>1, KinesisStep
<1>3. Inv => KinesisReads
  BY KinesisImplies DEF KinesisReads
<1> QED
  BY <1>1, <1>2, <1>3, PTL DEF Spec
=============================================================================
