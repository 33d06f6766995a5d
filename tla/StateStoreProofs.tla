-------------------------- MODULE StateStoreProofs --------------------------
(***************************************************************************)
(* Proofs about StateStore for every set of racing processes, every set of *)
(* sources and any number of rows: type correctness, that no row is        *)
(* skipped, and that the racing processes implement IncrementalLoad.  Of   *)
(* commands that do not overlap (OneAtATime): that the file is never torn, *)
(* no mark is taken back and a success is remembered.                      *)
(***************************************************************************)
EXTENDS StateStore, TLAPS

(* The marks m claim only rows that have been written to the output.       *)
Covered(m) == \A n \in Sources : (1 .. m[n]) \subseteq landed[n]

(* No probe saw a row that does not exist.                                 *)
SeenBound == \A p \in Procs, n \in Sources : seen[p][n] <= high[n]

(* A run that did not fail has written everything its probe saw, from the  *)
(* moment its sinks are done; and only such a run gets past its record.    *)
SeenLanded ==
    \A p \in Procs :
        /\ pc[p] \in {"ran", "recorded"} /\ ~failed[p] => Covered(seen[p])
        /\ pc[p] = "recorded" => ~failed[p]

(* The inductive invariant: every copy of the marks that can still reach   *)
(* the state file is covered, in either file and in any process.           *)
IInv ==
    /\ TypeOK
    /\ SeenBound
    /\ SeenLanded
    /\ Covered(file.marks)
    /\ Covered(tmp.marks)
    /\ \A p \in Procs : Covered(since[p]) /\ Covered(stored[p])

-----------------------------------------------------------------------------
(* Facts about marks and files.                                            *)

(* A node with nothing remembered claims no row.                           *)
LEMMA NothingCovered ==
    /\ Nothing \in Marks
    /\ \A n \in Sources : Nothing[n] = 0 /\ (1 .. Nothing[n]) = {}
BY DEF Nothing, Marks

(* The four contents a step puts in a file are contents.                   *)
LEMMA ContentFacts ==
    /\ Absent \in Content /\ Empty \in Content /\ Torn \in Content
    /\ Absent.marks = Nothing /\ Empty.marks = Nothing /\ Torn.marks = Nothing
    /\ \A m \in Marks : Document(m) \in Content /\ Document(m).marks = m
BY NothingCovered DEF Absent, Empty, Torn, Document, Content

(* Whatever is left of a file that p's document is written over, or that   *)
(* a crash cuts short, holds p's marks, the old marks, or none.            *)
LEMMA WriteOutcomes ==
    ASSUME NEW old \in Content, NEW m \in Marks
    PROVE  /\ \A c \in Overwritten(old, Document(m)) :
                 c \in Content /\ (c.marks = m \/ c.marks = Nothing)
           /\ \A c \in {old, Torn} :
                 c \in Content /\ (c.marks = old.marks \/ c.marks = Nothing)
BY ContentFacts DEF Overwritten

(* What Finish leaves behind has the right types.                          *)
LEMMA FinishType ==
    ASSUME TypeOK, NEW p \in Procs,
           NEW code \in {"none", "ok", "failed", "refused"}, Finish(p, code)
    PROVE  /\ pc' \in [Procs -> {"idle", "loaded", "probed", "ran", "recorded",
                                 "folded", "opened", "written"}]
           /\ exit' \in [Procs -> {"none", "ok", "failed", "refused"}]
           /\ since' \in [Procs -> Marks]
           /\ stored' \in [Procs -> Marks]
           /\ failed' \in [Procs -> BOOLEAN]
BY NothingCovered DEF Finish, TypeOK

(* What a folded report holds are marks.                                   *)
LEMMA RememberType ==
    ASSUME TypeOK, NEW p \in Procs, NEW base \in Marks
    PROVE  Remember(p, base) \in Marks
BY DEF Remember, Watermark, TypeOK, Marks

(* The two files after p's write, complete or not.                         *)
LEMMA WriteTemporaryFiles ==
    ASSUME TypeOK, NEW p \in Procs, WriteTemporary(p)
    PROVE  /\ file' \in Content /\ tmp' \in Content
           /\ file'.marks \in {file.marks, stored[p], Nothing}
           /\ tmp'.marks \in {tmp.marks, stored[p], Nothing}
<1>1. stored[p] \in Marks /\ file \in Content /\ tmp \in Content
  BY DEF TypeOK
<1>2. file' = file \/ file' \in Overwritten(file, Document(stored[p]))
  BY DEF WriteTemporary, HandleHolds
<1>3. tmp' = tmp \/ tmp' \in Overwritten(tmp, Document(stored[p]))
  BY DEF WriteTemporary, HandleHolds
<1> QED
  BY <1>1, <1>2, <1>3, WriteOutcomes

LEMMA InterruptedFiles ==
    ASSUME TypeOK, NEW p \in Procs, WriteFails(p) \/ Crash(p)
    PROVE  /\ file' \in Content /\ tmp' \in Content
           /\ file'.marks \in {file.marks, Nothing}
           /\ tmp'.marks \in {tmp.marks, Nothing}
<1>1. Nothing \in Marks /\ file \in Content /\ tmp \in Content
  BY NothingCovered DEF TypeOK
<1>2. file' = file \/ file' \in {file, Torn}
  BY DEF WriteFails, Crash, HandleHolds
<1>3. tmp' = tmp \/ tmp' \in {tmp, Torn}
  BY DEF WriteFails, Crash, HandleHolds
<1> QED
  BY <1>1, <1>2, <1>3, WriteOutcomes

-----------------------------------------------------------------------------
(* Every step keeps the types.                                             *)
LEMMA TypeStep == TypeOK /\ [Next]_vars => TypeOK'
<1> SUFFICES ASSUME TypeOK, [Next]_vars PROVE TypeOK'
  OBVIOUS
<1> USE DEF world, disk
<1>1. ASSUME NEW n \in Sources, Arrive(n) PROVE TypeOK'
  BY <1>1 DEF Arrive, TypeOK, Marks
<1>2. ASSUME NEW p \in Procs, Start(p) PROVE TypeOK'
  <2>1. file.marks \in Marks
    BY DEF TypeOK, Content
  <2> QED
    BY <1>2, <2>1, NothingCovered DEF Start, TypeOK
<1>3. ASSUME NEW p \in Procs, Refused(p) PROVE TypeOK'
  BY <1>3, FinishType DEF Refused, TypeOK
<1>4. ASSUME NEW p \in Procs, ReadSources(p) PROVE TypeOK'
  BY <1>4 DEF ReadSources, Go, TypeOK
<1>5. ASSUME NEW p \in Procs, NEW views \in SUBSET Marked, WriteSinks(p, views)
      PROVE  TypeOK'
  <2>1. \A n \in Sources : Window(p, n, views) \subseteq Nat
    BY DEF Window, TypeOK, Marks
  <2>2. landed' \in [Sources -> SUBSET Nat]
    BY <1>5, <2>1 DEF WriteSinks, TypeOK
  <2> QED
    BY <1>5, <2>2 DEF WriteSinks, Go, TypeOK
<1>6. ASSUME NEW p \in Procs, NEW part, SinksFail(p, part) PROVE TypeOK'
  <2>1. \A n \in Sources : Window(p, n, Marked) \subseteq Nat
    BY DEF Window, TypeOK, Marks
  <2>2. landed' \in [Sources -> SUBSET Nat]
    BY <1>6, <2>1 DEF SinksFail, TypeOK
  <2> QED
    BY <1>6, <2>2 DEF SinksFail, Go, TypeOK
<1>7. ASSUME NEW p \in Procs, NEW appended \in BOOLEAN, Record(p, appended)
      PROVE  TypeOK'
  <2>1. history' \in [Procs -> {"none", "ok", "failed"}]
    BY <1>7 DEF Record, TypeOK
  <2>2. CASE failed[p]
    BY <1>7, <2>1, <2>2, FinishType DEF Record, TypeOK
  <2>3. CASE ~failed[p]
    BY <1>7, <2>1, <2>3 DEF Record, Go, TypeOK
  <2> QED
    BY <2>2, <2>3
<1>8. ASSUME NEW p \in Procs, Fold(p) PROVE TypeOK'
  <2> DEFINE base == IF p \in Artifacts THEN since[p] ELSE file.marks
  <2>1. base \in Marks
    BY DEF TypeOK, Content
  <2>2. CASE Finish(p, "failed") \/ Finish(p, "ok")
    BY <1>8, <2>2, FinishType DEF Fold, TypeOK
  <2>3. CASE /\ stored' = [stored EXCEPT ![p] = Remember(p, base)]
             /\ Go(p, "folded")
             /\ UNCHANGED <<since, failed>>
    <3>1. stored' \in [Procs -> Marks]
      BY <2>1, <2>3, RememberType DEF TypeOK
    <3> QED
      BY <1>8, <2>3, <3>1 DEF Fold, Go, TypeOK
  <2> QED
    BY <1>8, <2>2, <2>3 DEF Fold
<1>9. ASSUME NEW p \in Procs, NEW nodes, Forget(p, nodes) PROVE TypeOK'
  <2>1. [n \in Sources |-> IF n \in nodes THEN 0 ELSE file.marks[n]] \in Marks
    BY DEF TypeOK, Content, Marks
  <2> QED
    BY <1>9, <2>1 DEF Forget, TypeOK
<1>10. ASSUME NEW p \in Procs, OpenTemporary(p) PROVE TypeOK'
  BY <1>10, ContentFacts DEF OpenTemporary, Go, TypeOK
<1>11. ASSUME NEW p \in Procs, WriteTemporary(p) PROVE TypeOK'
  <2>1. file' \in Content /\ tmp' \in Content
    BY <1>11, WriteTemporaryFiles
  <2> QED
    BY <1>11, <2>1 DEF WriteTemporary, Go, TypeOK
<1>12. ASSUME NEW p \in Procs, Rename(p) PROVE TypeOK'
  <2>1. handle' \in [Procs -> {"none", "tmp", "file", "gone"}]
    BY <1>12 DEF Rename, Moved, TypeOK
  <2>2. Finish(p, "ok")
    BY <1>12 DEF Rename
  <2> QED
    BY <1>12, <2>1, <2>2, FinishType, ContentFacts DEF Rename, TypeOK
<1>13. ASSUME NEW p \in Procs, RenameFails(p) PROVE TypeOK'
  <2>1. handle' \in [Procs -> {"none", "tmp", "file", "gone"}]
    BY <1>13 DEF RenameFails, Moved, TypeOK
  <2> QED
    BY <1>13, <2>1, FinishType, ContentFacts DEF RenameFails, TypeOK
<1>14. ASSUME NEW p \in Procs, WriteFails(p) PROVE TypeOK'
  <2>1. file' \in Content /\ tmp' \in Content
    BY <1>14, InterruptedFiles
  <2> QED
    BY <1>14, <2>1, FinishType DEF WriteFails, TypeOK
<1>15. ASSUME NEW p \in Procs, Crash(p) PROVE TypeOK'
  <2>1. file' \in Content /\ tmp' \in Content
    BY <1>15, InterruptedFiles
  <2> QED
    BY <1>15, <2>1, FinishType DEF Crash, TypeOK
<1>16. CASE UNCHANGED vars
  BY <1>16 DEF vars, TypeOK
<1> QED
  BY <1>1, <1>2, <1>3, <1>4, <1>5, <1>6, <1>7, <1>8, <1>9, <1>10, <1>11, <1>12,
     <1>13, <1>14, <1>15, <1>16 DEF Next, Run, Save, Trouble, Procs

-----------------------------------------------------------------------------
(* A run that did not fail, and had nothing skipped below its start, has   *)
(* written every row up to the last one its probe saw.                     *)
LEMMA SinksCover ==
    ASSUME TypeOK, SeenBound, NEW p \in Procs, NEW views \in SUBSET Marked,
           Covered(since[p]),
           landed' = [n \in Sources |-> landed[n] \cup Window(p, n, views)]
    PROVE  \A n \in Sources : (1 .. seen[p][n]) \subseteq landed'[n]
<1> SUFFICES ASSUME NEW n \in Sources, NEW r \in 1 .. seen[p][n]
             PROVE  r \in landed'[n]
  OBVIOUS
<1>1. /\ since[p][n] \in Nat /\ seen[p][n] \in Nat /\ high[n] \in Nat
      /\ seen[p][n] <= high[n]
  BY DEF TypeOK, Marks, SeenBound
<1>2. CASE r <= since[p][n]
  BY <1>1, <1>2 DEF Covered
<1>3. CASE r > since[p][n]
  BY <1>1, <1>3 DEF Window
<1> QED
  BY <1>1, <1>2, <1>3

(* A folded report claims only rows that were written, when what it is     *)
(* folded into does.                                                       *)
LEMMA RememberCovered ==
    ASSUME TypeOK, NEW p \in Procs, NEW base \in Marks,
           Covered(base), Covered(seen[p])
    PROVE  Covered(Remember(p, base))
BY DEF Remember, Watermark, Covered, TypeOK, Marks

(* The end of a command leaves nothing in its process's memory to worry    *)
(* about.                                                                  *)
LEMMA FinishMemory ==
    ASSUME TypeOK, IInv, NEW p \in Procs, NEW code, Finish(p, code),
           UNCHANGED <<landed, seen>>
    PROVE  /\ SeenLanded'
           /\ \A q \in Procs : Covered(since[q])' /\ Covered(stored[q])'
BY NothingCovered DEF Finish, IInv, SeenLanded, Covered, TypeOK

-----------------------------------------------------------------------------
(* Every step keeps the inductive invariant.                               *)
LEMMA InvStep == IInv /\ [Next]_vars => IInv'
<1> SUFFICES ASSUME IInv, [Next]_vars PROVE IInv'
  OBVIOUS
<1> USE DEF world, disk
<1>0. TypeOK /\ TypeOK'
  BY TypeStep DEF IInv
<1>1. ASSUME NEW n \in Sources, Arrive(n) PROVE IInv'
  <2>1. SeenBound'
    BY <1>0, <1>1 DEF Arrive, IInv, SeenBound, TypeOK, Marks
  <2> QED
    BY <1>0, <1>1, <2>1 DEF Arrive, IInv, SeenLanded, Covered
<1>2. ASSUME NEW p \in Procs, Start(p) PROVE IInv'
  <2>1. SeenBound'
    BY <1>0, <1>2, NothingCovered DEF Start, IInv, SeenBound, TypeOK, Marks
  <2>2. SeenLanded'
    BY <1>0, <1>2 DEF Start, IInv, SeenLanded, Covered, TypeOK
  <2>3. \A q \in Procs : Covered(since[q])' /\ Covered(stored[q])'
    BY <1>0, <1>2 DEF Start, IInv, Covered, TypeOK
  <2> QED
    BY <1>0, <1>2, <2>1, <2>2, <2>3 DEF Start, IInv, Covered
<1>3. ASSUME NEW p \in Procs, Refused(p) PROVE IInv'
  <2>1. SeenLanded' /\ \A q \in Procs : Covered(since[q])' /\ Covered(stored[q])'
    BY <1>0, <1>3, FinishMemory DEF Refused
  <2> QED
    BY <1>0, <1>3, <2>1 DEF Refused, IInv, SeenBound, Covered
<1>4. ASSUME NEW p \in Procs, ReadSources(p) PROVE IInv'
  <2>1. SeenBound'
    BY <1>0, <1>4 DEF ReadSources, IInv, SeenBound, TypeOK, Marks
  <2>2. SeenLanded'
    BY <1>0, <1>4 DEF ReadSources, Go, IInv, SeenLanded, Covered, TypeOK
  <2> QED
    BY <1>0, <1>4, <2>1, <2>2 DEF ReadSources, IInv, Covered
<1>5. ASSUME NEW p \in Procs, NEW views \in SUBSET Marked, WriteSinks(p, views)
      PROVE  IInv'
  <2>1. \A n \in Sources : landed[n] \subseteq landed'[n]
    BY <1>5 DEF WriteSinks
  <2>2. \A n \in Sources : (1 .. seen[p][n]) \subseteq landed'[n]
    BY <1>0, <1>5, SinksCover DEF WriteSinks, IInv
  <2>3. SeenLanded'
    BY <1>0, <1>5, <2>1, <2>2 DEF WriteSinks, Go, IInv, SeenLanded, Covered, TypeOK
  <2> QED
    BY <1>0, <1>5, <2>1, <2>3 DEF WriteSinks, IInv, SeenBound, Covered
<1>6. ASSUME NEW p \in Procs, NEW part, SinksFail(p, part) PROVE IInv'
  <2>1. \A n \in Sources : landed[n] \subseteq landed'[n]
    BY <1>6 DEF SinksFail
  <2>2. SeenLanded'
    BY <1>0, <1>6, <2>1 DEF SinksFail, Go, IInv, SeenLanded, Covered, TypeOK
  <2> QED
    BY <1>0, <1>6, <2>1, <2>2 DEF SinksFail, IInv, SeenBound, Covered
<1>7. ASSUME NEW p \in Procs, NEW appended \in BOOLEAN, Record(p, appended)
      PROVE  IInv'
  <2>1. CASE failed[p]
    <3>1. SeenLanded' /\ \A q \in Procs : Covered(since[q])' /\ Covered(stored[q])'
      BY <1>0, <1>7, <2>1, FinishMemory DEF Record
    <3> QED
      BY <1>0, <1>7, <3>1 DEF Record, IInv, SeenBound, Covered
  <2>2. CASE ~failed[p]
    <3>1. SeenLanded'
      BY <1>0, <1>7, <2>2 DEF Record, Go, IInv, SeenLanded, Covered, TypeOK
    <3> QED
      BY <1>0, <1>7, <2>2, <3>1 DEF Record, IInv, SeenBound, Covered
  <2> QED
    BY <2>1, <2>2
<1>8. ASSUME NEW p \in Procs, Fold(p) PROVE IInv'
  <2> DEFINE base == IF p \in Artifacts THEN since[p] ELSE file.marks
  <2>1. base \in Marks /\ Covered(base)
    BY <1>0 DEF TypeOK, Content, IInv
  <2>2. Covered(seen[p])
    BY <1>8 DEF Fold, IInv, SeenLanded
  <2>3. CASE Finish(p, "failed") \/ Finish(p, "ok")
    <3>1. SeenLanded' /\ \A q \in Procs : Covered(since[q])' /\ Covered(stored[q])'
      BY <1>0, <1>8, <2>3, FinishMemory DEF Fold
    <3> QED
      BY <1>0, <1>8, <3>1 DEF Fold, IInv, SeenBound, Covered
  <2>4. CASE /\ stored' = [stored EXCEPT ![p] = Remember(p, base)]
             /\ Go(p, "folded")
             /\ UNCHANGED <<since, failed>>
    <3>1. Covered(Remember(p, base))
      BY <1>0, <2>1, <2>2, RememberCovered
    <3>2. \A q \in Procs : Covered(since[q])' /\ Covered(stored[q])'
      BY <1>0, <1>8, <2>4, <3>1 DEF Fold, IInv, Covered, TypeOK
    <3>3. SeenLanded'
      BY <1>0, <1>8, <2>4 DEF Fold, Go, IInv, SeenLanded, Covered, TypeOK
    <3> QED
      BY <1>0, <1>8, <3>2, <3>3 DEF Fold, IInv, SeenBound, Covered
  <2> QED
    BY <1>8, <2>3, <2>4 DEF Fold
<1>9. ASSUME NEW p \in Procs, NEW nodes, Forget(p, nodes) PROVE IInv'
  <2> DEFINE left == [n \in Sources |-> IF n \in nodes THEN 0 ELSE file.marks[n]]
  <2>1. Covered(left)
    BY DEF IInv, Covered
  <2>2. \A q \in Procs : Covered(since[q])' /\ Covered(stored[q])'
    BY <1>0, <1>9, <2>1 DEF Forget, IInv, Covered, TypeOK
  <2>3. SeenLanded'
    BY <1>0, <1>9 DEF Forget, IInv, SeenLanded, Covered, TypeOK
  <2> QED
    BY <1>0, <1>9, <2>2, <2>3 DEF Forget, IInv, SeenBound, Covered
<1>10. ASSUME NEW p \in Procs, OpenTemporary(p) PROVE IInv'
  <2>1. SeenLanded'
    BY <1>0, <1>10 DEF OpenTemporary, Go, IInv, SeenLanded, Covered, TypeOK
  <2>2. Covered(tmp.marks)'
    BY <1>10, NothingCovered, ContentFacts DEF OpenTemporary, Covered
  <2> QED
    BY <1>0, <1>10, <2>1, <2>2 DEF OpenTemporary, IInv, SeenBound, Covered
<1>11. ASSUME NEW p \in Procs, WriteTemporary(p) PROVE IInv'
  <2>1. SeenLanded'
    BY <1>0, <1>11 DEF WriteTemporary, Go, IInv, SeenLanded, Covered, TypeOK
  <2>2. Covered(file.marks)' /\ Covered(tmp.marks)'
    BY <1>0, <1>11, WriteTemporaryFiles, NothingCovered
       DEF WriteTemporary, IInv, Covered
  <2> QED
    BY <1>0, <1>11, <2>1, <2>2 DEF WriteTemporary, IInv, SeenBound, Covered
<1>12. ASSUME NEW p \in Procs, Rename(p) PROVE IInv'
  <2>1. SeenLanded' /\ \A q \in Procs : Covered(since[q])' /\ Covered(stored[q])'
    BY <1>0, <1>12, FinishMemory DEF Rename
  <2>2. Covered(file.marks)' /\ Covered(tmp.marks)'
    BY <1>12, NothingCovered, ContentFacts DEF Rename, IInv, Covered
  <2> QED
    BY <1>0, <1>12, <2>1, <2>2 DEF Rename, IInv, SeenBound
<1>13. ASSUME NEW p \in Procs, RenameFails(p) PROVE IInv'
  <2>1. SeenLanded' /\ \A q \in Procs : Covered(since[q])' /\ Covered(stored[q])'
    BY <1>0, <1>13, FinishMemory DEF RenameFails
  <2>2. Covered(file.marks)' /\ Covered(tmp.marks)'
    BY <1>13, NothingCovered, ContentFacts DEF RenameFails, IInv, Covered
  <2> QED
    BY <1>0, <1>13, <2>1, <2>2 DEF RenameFails, IInv, SeenBound
<1>14. ASSUME NEW p \in Procs, WriteFails(p) \/ Crash(p) PROVE IInv'
  <2>1. /\ UNCHANGED <<high, landed, seen>>
        /\ Finish(p, "failed") \/ Finish(p, "none")
    BY <1>14 DEF WriteFails, Crash
  <2>2. SeenLanded' /\ \A q \in Procs : Covered(since[q])' /\ Covered(stored[q])'
    BY <1>0, <2>1, FinishMemory
  <2>3. Covered(file.marks)' /\ Covered(tmp.marks)'
    BY <1>0, <1>14, <2>1, InterruptedFiles, NothingCovered DEF IInv, Covered
  <2> QED
    BY <1>0, <2>1, <2>2, <2>3 DEF IInv, SeenBound
<1>15. CASE UNCHANGED vars
  BY <1>15 DEF vars, IInv, TypeOK, SeenBound, SeenLanded, Covered
<1> QED
  BY <1>1, <1>2, <1>3, <1>4, <1>5, <1>6, <1>7, <1>8, <1>9, <1>10, <1>11, <1>12,
     <1>13, <1>14, <1>15 DEF Next, Run, Save, Trouble, Procs

(* The inductive invariant holds at the start.                             *)
LEMMA InvInit == Init => IInv
BY NothingCovered, ContentFacts
   DEF Init, IInv, TypeOK, SeenBound, SeenLanded, Covered, Nothing, Marks

(* The inductive invariant is an invariant.                                *)
LEMMA Invariant == Spec => []IInv
BY InvInit, InvStep, PTL DEF Spec

-----------------------------------------------------------------------------
(* The types of StateStore hold in every reachable state, whatever the     *)
(* processes and sources are.                                              *)
THEOREM TypeCorrect == Spec => []TypeOK
<1>1. IInv => TypeOK
  BY DEF IInv
<1> QED
  BY Invariant, <1>1, PTL

(* However many runs, artifacts and forgets race on one state file, and    *)
(* wherever they fail or are killed, the marks that the next run starts    *)
(* from claim only rows that have reached the output.                      *)
THEOREM NoRowLostTheorem == Spec => []NoRowLost
<1>1. IInv => NoRowLost
  BY DEF IInv, NoRowLost, Covered
<1> QED
  BY Invariant, <1>1, PTL

(* Each step of a process is a step of the abstract specification, or      *)
(* changes nothing that it can see.                                        *)
LEMMA LoadStep == IInv /\ IInv' /\ [Next]_vars => [Load!LNext]_(Load!ivars)
<1> SUFFICES ASSUME IInv, IInv', [Next]_vars
             PROVE  [Load!LNext]_(Load!ivars)
  OBVIOUS
<1> USE DEF world, disk
<1>0. TypeOK /\ TypeOK'
  BY DEF IInv
<1>1. ASSUME NEW n \in Sources, Arrive(n) PROVE Load!LNext
  BY <1>1 DEF Arrive, Load!LNext, Load!RowArrives
<1>2. ASSUME NEW p \in Procs, NEW rows, UNCHANGED <<high, disk>>,
             landed' = [n \in Sources |-> landed[n] \cup rows[n]],
             \A n \in Sources : rows[n] \subseteq 1 .. high[n]
      PROVE  Load!LNext
  <2>1. landed' \in [Sources -> SUBSET Nat]
    BY <1>0 DEF TypeOK
  <2>2. \A n \in Sources : /\ landed[n] \subseteq landed'[n]
                           /\ \A r \in landed'[n] \ landed[n] : r \in 1 .. high[n]
    BY <1>2
  <2> QED
    BY <1>2, <2>1, <2>2 DEF Load!LNext, Load!LoadRows
<1>3. ASSUME NEW p \in Procs, NEW n \in Sources, NEW views \in SUBSET Marked
      PROVE  Window(p, n, views) \subseteq 1 .. high[n]
  <2>1. /\ since[p][n] \in Nat /\ seen[p][n] \in Nat /\ high[n] \in Nat
        /\ seen[p][n] <= high[n]
    BY <1>0 DEF TypeOK, Marks, IInv, SeenBound
  <2> QED
    BY <2>1 DEF Window
<1>4. ASSUME NEW p \in Procs, NEW views \in SUBSET Marked, WriteSinks(p, views)
      PROVE  Load!LNext
  <2> DEFINE rows == [n \in Sources |-> Window(p, n, views)]
  <2>1. landed' = [n \in Sources |-> landed[n] \cup rows[n]]
    BY <1>4 DEF WriteSinks
  <2>2. \A n \in Sources : rows[n] \subseteq 1 .. high[n]
    BY <1>3
  <2>3. UNCHANGED <<high, disk>>
    BY <1>4 DEF WriteSinks
  <2> HIDE DEF rows
  <2> QED
    BY <1>2, <2>1, <2>2, <2>3
<1>5. ASSUME NEW p \in Procs, NEW part, SinksFail(p, part) PROVE Load!LNext
  <2> DEFINE rows == [n \in Sources |-> Window(p, n, Marked) \cap part]
  <2>1. landed' = [n \in Sources |-> landed[n] \cup rows[n]]
    BY <1>5 DEF SinksFail
  <2>2. \A n \in Sources : rows[n] \subseteq 1 .. high[n]
    BY <1>3
  <2>3. UNCHANGED <<high, disk>>
    BY <1>5 DEF SinksFail
  <2> HIDE DEF rows
  <2> QED
    BY <1>2, <2>1, <2>2, <2>3
<1>6. ASSUME UNCHANGED <<high, landed>> PROVE Load!LNext
  <2>1. \A n \in Sources : (1 .. file'.marks[n]) \subseteq landed[n]
    BY <1>6 DEF IInv, Covered
  <2> QED
    BY <1>6, <2>1 DEF Load!LNext, Load!RememberMarks
<1>7. ASSUME NEW p \in Procs,
             \/ Start(p) \/ Refused(p) \/ ReadSources(p) \/ Fold(p) \/ Save(p)
             \/ \E appended \in BOOLEAN : Record(p, appended)
             \/ \E nodes \in {{n} : n \in Sources} \cup {Sources} : Forget(p, nodes)
             \/ WriteFails(p) \/ RenameFails(p) \/ Crash(p)
      PROVE  UNCHANGED <<high, landed>>
  BY <1>7 DEF Start, Refused, ReadSources, Fold, Save, Record, Forget,
     OpenTemporary, WriteTemporary, Rename, WriteFails, RenameFails, Crash
<1>8. CASE UNCHANGED vars
  BY <1>8 DEF vars, Load!ivars
<1> QED
  BY <1>1, <1>4, <1>5, <1>6, <1>7, <1>8 DEF Next, Run, Trouble, Procs

(* The racing processes implement incremental loading as IncrementalLoad   *)
(* states it, for every set of processes and sources: nothing that a       *)
(* caller can observe of files, races and crashes goes beyond loading a    *)
(* row twice or refusing to start.                                         *)
THEOREM ImplementsLoadTheorem == Spec => ImplementsLoad
<1>1. Init => Load!LInit
  <2> SUFFICES ASSUME Init PROVE Load!LInit
    OBVIOUS
  <2>1. file.kind = "absent" /\ file.marks = [n \in Sources |-> 0]
    BY DEF Init, Absent, Nothing
  <2>2. Loads(file) = TRUE
    BY <2>1, Zenon DEF Loads
  <2> QED
    BY <2>1, <2>2, Zenon DEF Init, Load!LInit
<1> QED
  BY Invariant, LoadStep, <1>1, PTL DEF Spec, ImplementsLoad, Load!LSpec

-----------------------------------------------------------------------------
(* One command at a time.  Nothing in the code enforces it (the lock is    *)
(* never held on the state file), but it is what `etl run` by hand or one  *)
(* scheduler gives, and what the comments of Store::save speak of.         *)
OneAtATime ==
    \A p, q \in Procs : pc[p] # "idle" /\ pc[q] # "idle" => p = q

(* What a lone writer's steps leave on the disk: its handle is on the      *)
(* temporary from open to write and nowhere else, what it renames is the   *)
(* whole document it means to save, and the state file parses.             *)
SerialFiles ==
    /\ \A p \in Procs :
          /\ handle[p] = IF pc[p] = "opened" THEN "tmp" ELSE "none"
          /\ pc[p] = "opened" => tmp = Empty
          /\ pc[p] = "written" => tmp = Document(stored[p])
    /\ Loads(file)

(* How a lone run's marks compare with the file's: what it read at the     *)
(* start is still there, what it has seen is no less, and so is what it    *)
(* saves.                                                                  *)
SerialMarks ==
    /\ \A n \in Sources : file.marks[n] <= high[n]
    /\ \A p \in Runs :
          /\ pc[p] \in {"loaded", "probed", "ran", "recorded"} =>
                since[p] = file.marks
          /\ pc[p] \in {"probed", "ran", "recorded", "folded", "opened", "written"} =>
                \A n \in Sources : seen[p][n] >= file.marks[n]
          /\ pc[p] \in {"folded", "opened", "written"} =>
                \A n \in Sources :
                    /\ stored[p][n] >= file.marks[n]
                    /\ stored[p][n] <= high[n]
                    /\ ~NeedsSession => stored[p][n] >= seen[p][n]

(* While the open handle is on an empty temporary, a write of the whole    *)
(* document leaves the document there and the state file alone.            *)
LEMMA LoneWrite ==
    ASSUME TypeOK, SerialFiles, NEW p \in Procs, WriteTemporary(p)
    PROVE  tmp' = Document(stored[p]) /\ file' = file
BY DEF WriteTemporary, HandleHolds, Overwritten, Empty, SerialFiles

(* A lone process that fails or is killed while it writes spoils the       *)
(* temporary at most.                                                      *)
LEMMA LoneInterrupted ==
    ASSUME TypeOK, SerialFiles, NEW p \in Procs, WriteFails(p) \/ Crash(p)
    PROVE  file' = file
BY DEF WriteFails, Crash, HandleHolds, SerialFiles

(* With one command at a time, every step keeps the files in order.        *)
LEMMA SerialFilesStep ==
    TypeOK /\ OneAtATime /\ SerialFiles /\ [Next]_vars => SerialFiles'
<1> SUFFICES ASSUME TypeOK, OneAtATime, SerialFiles, [Next]_vars
             PROVE  SerialFiles'
  OBVIOUS
<1> USE DEF world, disk
<1>1. ASSUME NEW p \in Procs, pc[p] # "idle", NEW q \in Procs, q # p
      PROVE  pc[q] = "idle" /\ handle[q] = "none"
  BY <1>1 DEF OneAtATime, SerialFiles
<1>2. ASSUME NEW n \in Sources, Arrive(n) PROVE SerialFiles'
  BY <1>2 DEF Arrive, SerialFiles
<1>3. ASSUME NEW p \in Procs,
             \/ Start(p) \/ Refused(p) \/ ReadSources(p)
             \/ \E views \in SUBSET Marked : WriteSinks(p, views)
             \/ \E part \in SUBSET (1 .. MaxRow) : SinksFail(p, part)
             \/ \E appended \in BOOLEAN : Record(p, appended)
             \/ Fold(p) \/ \E nodes : Forget(p, nodes)
      PROVE  SerialFiles'
  <2>1. UNCHANGED <<file, tmp, handle>>
    BY <1>3 DEF Start, Refused, ReadSources, WriteSinks, SinksFail, Record,
       Fold, Forget
  <2>2. pc[p] \notin {"opened", "written"} /\ pc'[p] \notin {"opened", "written"}
    BY <1>3 DEF Start, Refused, ReadSources, WriteSinks, SinksFail, Record,
       Fold, Forget, Go, Finish, TypeOK
  <2>3. \A q \in Procs : q # p => pc'[q] = pc[q] /\ stored'[q] = stored[q]
    BY <1>3 DEF Start, Refused, ReadSources, WriteSinks, SinksFail, Record,
       Fold, Forget, Go, Finish, TypeOK
  <2> QED
    BY <2>1, <2>2, <2>3 DEF SerialFiles
<1>4. ASSUME NEW p \in Procs, OpenTemporary(p) PROVE SerialFiles'
  BY <1>1, <1>4 DEF OpenTemporary, Go, SerialFiles, TypeOK
<1>5. ASSUME NEW p \in Procs, WriteTemporary(p) PROVE SerialFiles'
  <2>1. tmp' = Document(stored[p]) /\ file' = file /\ stored' = stored
    BY <1>5, LoneWrite DEF WriteTemporary
  <2>2. /\ pc[p] = "opened" /\ pc' = [pc EXCEPT ![p] = "written"]
        /\ handle' = [handle EXCEPT ![p] = "none"]
    BY <1>5 DEF WriteTemporary, Go
  <2> QED
    BY <1>1, <2>1, <2>2 DEF SerialFiles, TypeOK
<1>6. ASSUME NEW p \in Procs, Rename(p) \/ RenameFails(p) PROVE SerialFiles'
  <2>1. pc[p] = "written" /\ pc' = [pc EXCEPT ![p] = "idle"]
    BY <1>6 DEF Rename, RenameFails, Finish
  <2>2. \A q \in Procs : handle[q] = "none"
    BY <1>1, <2>1 DEF SerialFiles
  <2>3. handle' = [q \in Procs |-> "none"]
    BY <1>6, <2>2 DEF Rename, RenameFails, Moved
  <2>4. \A q \in Procs : pc'[q] = "idle"
    BY <1>1, <2>1 DEF TypeOK
  <2>5. Loads(file')
    BY <1>6, <2>1 DEF Rename, RenameFails, Loads, SerialFiles, Document
  <2> QED
    BY <2>3, <2>4, <2>5 DEF SerialFiles
<1>7. ASSUME NEW p \in Procs, WriteFails(p) \/ Crash(p) PROVE SerialFiles'
  <2>1. file' = file
    BY <1>7, LoneInterrupted
  <2>2. /\ pc[p] # "idle" /\ pc' = [pc EXCEPT ![p] = "idle"]
        /\ handle' = [handle EXCEPT ![p] = "none"]
    BY <1>7 DEF WriteFails, Crash, Finish
  <2>3. \A q \in Procs : pc'[q] = "idle" /\ handle'[q] = "none"
    BY <1>1, <2>2 DEF TypeOK
  <2> QED
    BY <2>1, <2>3 DEF SerialFiles
<1>8. CASE UNCHANGED vars
  BY <1>8 DEF vars, SerialFiles
<1> QED
  BY <1>2, <1>3, <1>4, <1>5, <1>6, <1>7, <1>8
     DEF Next, Run, Save, Trouble, Procs

(* With one command at a time the files are in order at every moment.      *)
LEMMA SerialFilesInvariant == Spec /\ []OneAtATime => []SerialFiles
<1>1. Init => SerialFiles
  BY DEF Init, SerialFiles, Loads, Absent
<1>2. IInv => TypeOK
  BY DEF IInv
<1> QED
  BY <1>1, <1>2, Invariant, SerialFilesStep, PTL DEF Spec

(* Store::save keeps its promise to a lone writer: as long as commands do  *)
(* not overlap, wherever one fails or is killed, the state file parses.    *)
(* (The state_race runs show what overlapping writers do to it.)           *)
THEOREM NeverTornTheorem == Spec /\ []OneAtATime => []NeverTorn
<1>1. SerialFiles => NeverTorn
  BY DEF SerialFiles, NeverTorn
<1> QED
  BY SerialFilesInvariant, <1>1, PTL

(* What a lone run saves: no less than the file has, no more than there    *)
(* is, and, unless a session is driven, no less than the run has seen.     *)
LEMMA RememberGrows ==
    ASSUME IInv, SerialMarks, NEW p \in Runs, pc[p] = "recorded",
           NEW n \in Sources
    PROVE  /\ Remember(p, file.marks)[n] >= file.marks[n]
           /\ Remember(p, file.marks)[n] <= high[n]
           /\ ~NeedsSession => Remember(p, file.marks)[n] >= seen[p][n]
<1>1. /\ file.marks[n] \in Nat /\ seen[p][n] \in Nat /\ high[n] \in Nat
      /\ since[p] = file.marks
      /\ seen[p][n] >= file.marks[n]
      /\ seen[p][n] <= high[n]
      /\ file.marks[n] <= high[n]
  BY DEF IInv, TypeOK, Content, Marks, SerialMarks, SeenBound, Procs
<1> QED
  BY <1>1, BoundAssumption DEF Remember, Watermark

(* A run that has nothing to save has seen nothing past the file's marks.  *)
LEMMA UnchangedSeen ==
    ASSUME IInv, SerialMarks, NEW p \in Runs, pc[p] = "recorded",
           ~Changed(p), ~NeedsSession, NEW n \in Sources
    PROVE  file.marks[n] >= seen[p][n]
<1>1. /\ file.marks[n] \in Nat /\ seen[p][n] \in Nat
      /\ since[p] = file.marks
  BY DEF IInv, TypeOK, Content, Marks, SerialMarks, Procs
<1>2. n \in Marked /\ ~(Watermark(p, n) > 0)
  BY DEF Changed, Sources
<1> QED
  BY <1>1, <1>2 DEF Watermark

(* With one command at a time and no forget, every step keeps the marks    *)
(* in order, the state file's marks never go back, and what a successful   *)
(* run read stays remembered.                                              *)
LEMMA SerialMarksStep ==
    ASSUME Forgets = {}, IInv, OneAtATime, SerialFiles, SerialMarks, [Next]_vars
    PROVE  /\ SerialMarks'
           /\ \A n \in Sources : file'.marks[n] >= file.marks[n]
           /\ ~NeedsSession /\ SuccessIsRemembered => SuccessIsRemembered'
<1> DEFINE Kept == /\ SerialMarks'
                   /\ \A n \in Sources : file'.marks[n] >= file.marks[n]
                   /\ ~NeedsSession /\ SuccessIsRemembered => SuccessIsRemembered'
<1> USE DEF world, disk
<1>a. Procs = Runs
  BY DEF Procs
<1>b. TypeOK
  BY DEF IInv
<1>c. /\ \A n \in Sources : file.marks[n] \in Nat /\ high[n] \in Nat
      /\ \A p \in Runs, n \in Sources :
            seen[p][n] \in Nat /\ stored[p][n] \in Nat /\ seen[p][n] <= high[n]
  BY <1>a DEF IInv, TypeOK, Content, Marks, SeenBound
<1>d. ASSUME NEW p \in Runs, pc[p] # "idle", NEW q \in Runs, q # p
      PROVE  pc[q] = "idle"
  BY <1>a, <1>d DEF OneAtATime
<1>1. ASSUME NEW n \in Sources, Arrive(n) PROVE Kept
  <2>1. \A m \in Sources : high'[m] >= high[m] /\ high'[m] \in Nat
    BY <1>1, <1>b, <1>c DEF Arrive, TypeOK, Marks
  <2>2. UNCHANGED <<file, pc, since, seen, stored, exit>>
    BY <1>1 DEF Arrive
  <2>3. SerialMarks'
    BY <1>c, <2>1, <2>2 DEF SerialMarks
  <2> QED
    BY <1>c, <2>2, <2>3 DEF SuccessIsRemembered
<1>2. ASSUME NEW p \in Runs, Start(p) PROVE Kept
  <2>1. SerialMarks'
    BY <1>a, <1>b, <1>2 DEF Start, SerialMarks, TypeOK
  <2> QED
    BY <1>a, <1>b, <1>c, <1>2, <2>1 DEF Start, SuccessIsRemembered, TypeOK
<1>3. ASSUME NEW p \in Runs, ReadSources(p) PROVE Kept
  <2>1. SerialMarks'
    BY <1>a, <1>b, <1>c, <1>3 DEF ReadSources, Go, SerialMarks, TypeOK
  <2> QED
    BY <1>a, <1>b, <1>c, <1>3, <2>1
       DEF ReadSources, Go, SuccessIsRemembered, TypeOK
<1>4. ASSUME NEW p \in Runs,
             \/ \E views \in SUBSET Marked : WriteSinks(p, views)
             \/ \E part \in SUBSET (1 .. MaxRow) : SinksFail(p, part)
      PROVE  Kept
  <2>1. /\ UNCHANGED <<high, file, since, seen, stored, exit>>
        /\ pc[p] = "probed" /\ pc' = [pc EXCEPT ![p] = "ran"]
    BY <1>4 DEF WriteSinks, SinksFail, Go
  <2>2. SerialMarks'
    BY <1>a, <1>b, <2>1 DEF SerialMarks, TypeOK
  <2> QED
    BY <1>a, <1>b, <1>c, <2>1, <2>2 DEF SuccessIsRemembered, TypeOK
<1>5. ASSUME NEW p \in Runs, NEW code \in {"none", "failed", "refused"},
             Finish(p, code), UNCHANGED <<high, file, seen>>
      PROVE  Kept
  <2>1. SerialMarks'
    BY <1>a, <1>b, <1>5 DEF Finish, SerialMarks, TypeOK
  <2> QED
    BY <1>a, <1>b, <1>c, <1>5, <2>1 DEF Finish, SuccessIsRemembered, TypeOK
<1>6. ASSUME NEW p \in Runs, NEW appended \in BOOLEAN, Record(p, appended)
      PROVE  Kept
  <2>1. CASE failed[p]
    BY <1>5, <1>6, <2>1 DEF Record
  <2>2. CASE ~failed[p]
    <3>1. /\ UNCHANGED <<high, file, since, seen, stored, exit>>
          /\ pc[p] = "ran" /\ pc' = [pc EXCEPT ![p] = "recorded"]
      BY <1>6, <2>2 DEF Record, Go
    <3>2. SerialMarks'
      BY <1>a, <1>b, <3>1 DEF SerialMarks, TypeOK
    <3> QED
      BY <1>a, <1>b, <1>c, <3>1, <3>2 DEF SuccessIsRemembered, TypeOK
  <2> QED
    BY <2>1, <2>2
<1>7. ASSUME NEW p \in Runs, Fold(p) PROVE Kept
  <2> DEFINE base == IF p \in Artifacts THEN since[p] ELSE file.marks
  <2>1. pc[p] = "recorded" /\ base = file.marks /\ UNCHANGED <<high, file, seen>>
    BY <1>7 DEF Fold, SerialMarks
  <2>2. CASE Finish(p, "failed")
    BY <1>5, <2>1, <2>2
  <2>3. CASE ~Changed(p) /\ Finish(p, "ok")
    <3>1. ~NeedsSession => \A n \in Sources : file.marks[n] >= seen[p][n]
      BY <2>1, <2>3, UnchangedSeen
    <3>2. SerialMarks'
      BY <1>a, <1>b, <2>1, <2>3 DEF Finish, SerialMarks, TypeOK
    <3> QED
      BY <1>a, <1>b, <1>c, <2>1, <2>3, <3>1, <3>2
         DEF Finish, SuccessIsRemembered, TypeOK
  <2>4. CASE /\ stored' = [stored EXCEPT ![p] = Remember(p, base)]
             /\ Go(p, "folded")
             /\ UNCHANGED <<since, failed>>
    <3>1. \A n \in Sources :
            /\ stored'[p][n] >= file.marks[n]
            /\ stored'[p][n] <= high[n]
            /\ ~NeedsSession => stored'[p][n] >= seen[p][n]
      BY <1>a, <1>b, <2>1, <2>4, RememberGrows DEF TypeOK
    <3>2. \A q \in Runs : q # p => stored'[q] = stored[q] /\ pc'[q] = pc[q]
      BY <2>4, <1>a, <1>b DEF Go, TypeOK
    <3>3. pc'[p] = "folded"
      BY <2>4, <1>a, <1>b DEF Go, TypeOK
    <3>4. SerialMarks'
      BY <2>1, <2>4, <3>1, <3>2, <3>3 DEF SerialMarks
    <3> QED
      BY <1>c, <2>1, <2>4, <3>2, <3>3, <3>4 DEF Go, SuccessIsRemembered
  <2> QED
    BY <1>7, <2>2, <2>3, <2>4 DEF Fold
<1>8. ASSUME NEW p \in Runs, OpenTemporary(p) \/ WriteTemporary(p) PROVE Kept
  <2>1. /\ UNCHANGED <<high, file, since, seen, stored, exit>>
        /\ pc[p] \in {"folded", "opened"}
        /\ \E to \in {"opened", "written"} : pc' = [pc EXCEPT ![p] = to]
    BY <1>a, <1>b, <1>8, LoneWrite DEF OpenTemporary, WriteTemporary, Go
  <2>2. SerialMarks'
    BY <1>a, <1>b, <2>1 DEF SerialMarks, TypeOK
  <2> QED
    BY <1>a, <1>b, <1>c, <2>1, <2>2 DEF SuccessIsRemembered, TypeOK
<1>9. ASSUME NEW p \in Runs, Rename(p) PROVE Kept
  <2>1. /\ pc[p] = "written" /\ file' = tmp /\ Finish(p, "ok")
        /\ UNCHANGED <<high, seen>>
    BY <1>9 DEF Rename
  <2>2. file'.marks = stored[p]
    BY <1>a, <2>1 DEF SerialFiles, Document
  <2>3. \A n \in Sources :
            /\ file'.marks[n] >= file.marks[n]
            /\ file'.marks[n] <= high[n]
            /\ ~NeedsSession => file'.marks[n] >= seen[p][n]
    BY <2>1, <2>2 DEF SerialMarks
  <2>4. \A q \in Runs : pc'[q] = "idle"
    BY <1>a, <1>b, <1>d, <2>1 DEF Finish, TypeOK
  <2>5. SerialMarks'
    BY <2>1, <2>3, <2>4 DEF SerialMarks
  <2>6. ASSUME ~NeedsSession, SuccessIsRemembered,
               NEW q \in Runs, exit'[q] = "ok", NEW n \in Sources
        PROVE  file'.marks[n] >= seen'[q][n]
    <3>1. CASE q = p
      BY <2>1, <2>3, <2>6, <3>1
    <3>2. CASE q # p
      <4>1. pc[q] = "idle" /\ exit[q] = "ok"
        BY <1>a, <1>b, <1>d, <2>1, <2>6, <3>2 DEF Finish, TypeOK
      <4>2. file.marks[n] >= seen[q][n]
        BY <2>6, <4>1 DEF SuccessIsRemembered
      <4>3. file'.marks[n] \in Nat
        BY <1>c, <2>2
      <4> QED
        BY <1>c, <2>1, <2>3, <4>2, <4>3
    <3> QED
      BY <3>1, <3>2
  <2> QED
    BY <2>3, <2>5, <2>6 DEF SuccessIsRemembered
<1>10. ASSUME NEW p \in Runs, Refused(p) PROVE Kept
  BY <1>5, <1>10 DEF Refused
<1>11. ASSUME NEW p \in Runs, RenameFails(p) PROVE Kept
  BY <1>5, <1>11 DEF RenameFails
<1>12. ASSUME NEW p \in Runs, WriteFails(p) \/ Crash(p) PROVE Kept
  <2>1. file' = file
    BY <1>a, <1>b, <1>12, LoneInterrupted
  <2> QED
    BY <1>5, <1>12, <2>1 DEF WriteFails, Crash
<1>13. CASE UNCHANGED vars
  BY <1>c, <1>13 DEF vars, SerialMarks, SuccessIsRemembered
<1> QED
  BY <1>1, <1>2, <1>3, <1>4, <1>6, <1>7, <1>8, <1>9, <1>10, <1>11, <1>12, <1>13
     DEF Next, Run, Save, Trouble

(* The marks are in order at every moment of such a behaviour.             *)
LEMMA SerialMarksInvariant ==
    ASSUME Forgets = {}
    PROVE  Spec /\ []OneAtATime => [](IInv /\ SerialFiles /\ SerialMarks)
<1>1. Init => SerialMarks
  BY NothingCovered, ContentFacts DEF Init, SerialMarks, Procs
<1>2. IInv /\ OneAtATime /\ SerialFiles /\ SerialMarks /\ [Next]_vars => SerialMarks'
  BY SerialMarksStep
<1> QED
  BY <1>1, <1>2, Invariant, SerialFilesInvariant, PTL DEF Spec

(* As long as commands do not overlap and nobody forgets, no step of a     *)
(* run, a crash or a failed save takes a mark back.                        *)
THEOREM MarksOnlyGrowTheorem ==
    ASSUME Forgets = {}
    PROVE  Spec /\ []OneAtATime => MarksOnlyGrow
<1>1. IInv /\ OneAtATime /\ SerialFiles /\ SerialMarks /\ [Next]_vars =>
        [\A n \in Sources : file'.marks[n] >= file.marks[n]]_file
  BY SerialMarksStep
<1> QED
  BY <1>1, SerialMarksInvariant, PTL DEF Spec, MarksOnlyGrow

(* As long as commands do not overlap and nobody forgets, a run that ended *)
(* with exit code 0 has its reading remembered, then and for good.  A plan *)
(* driven through a session is excepted: there the watermark is lost.      *)
THEOREM SuccessIsRememberedTheorem ==
    ASSUME Forgets = {}, ~NeedsSession
    PROVE  Spec /\ []OneAtATime => []SuccessIsRemembered
<1>1. Init => SuccessIsRemembered
  BY DEF Init, SuccessIsRemembered, Procs
<1>2. IInv /\ OneAtATime /\ SerialFiles /\ SerialMarks /\ SuccessIsRemembered
        /\ [Next]_vars => SuccessIsRemembered'
  BY SerialMarksStep
<1> QED
  BY <1>1, <1>2, SerialMarksInvariant, PTL DEF Spec

=============================================================================
