---------------------------- MODULE LocalProofs ----------------------------
(***************************************************************************)
(* The parts of MCLocal.  Mutual exclusion of the workspace lock for any   *)
(* number of processes, on Windows however --force is used, and elsewhere  *)
(* as long as it is used the way a refused start advises; and what a       *)
(* refused start is told.  The theorems of SessionProofs and               *)
(* DesktopAssistantProofs, as they hold where the parts share variables.   *)
(***************************************************************************)
EXTENDS MCLocal, TLAPS

(* Where the lock can be trusted.                                          *)
Sound == \A s \in Sites : s.system = "windows" \/ s.force # "any"

(* The lock file at its name is this process's.                            *)
Owns(p) == Holds(p) \/ pc[p] \in {"closed", "unlisted"}

(* On Windows the handle of a holder is the open one, and a file that is   *)
(* open is not removed.                                                    *)
HandleIsLock ==
    Windows => /\ \A p \in Starts : Holds(p) => open = p
               /\ open # Nobody => exists

(* Elsewhere a file that somebody owns exists, has one owner, and nobody   *)
(* is about to remove it by force: a forced start is the only process      *)
(* running until it has removed the file.                                  *)
FileIsLock ==
    ~Windows /\ ForcePolicy # "any" =>
        /\ \A p \in Starts : Owns(p) => exists
        /\ \A p, q \in Starts : Owns(p) /\ Owns(q) => p = q
        /\ \A p, q \in Starts : pc[p] = "forcing" /\ p # q => Gone(q)
        /\ ForcePolicy = "never" => \A p \in Starts : pc[p] # "forcing"

LInv == TypeOK /\ HandleIsLock /\ FileIsLock

-----------------------------------------------------------------------------
(* The invariant holds at the start.                                       *)
LEMMA LInvInit == Init => LInv
BY DEF Init, LInv, TypeOK, HandleIsLock, FileIsLock, Holds, Owns,
   Points

(* No step changes the site.                                               *)
LEMMA SiteStays == [Next]_vars => site' = site
BY DEF Next, vars, Acquire, Drop, Begin, RemoveLeftover, OpenExclusive, Refused,
   WriteStatus, CloseHandle, RemoveStatus, RemoveLock, Crash, Go

(* Every step keeps the types.                                             *)
LEMMA LockTypeStep == TypeOK /\ [Next]_vars => TypeOK'
<1> SUFFICES ASSUME TypeOK, [Next]_vars PROVE TypeOK'
  OBVIOUS
<1>1. ASSUME NEW p \in Starts,
             \/ \E force \in BOOLEAN : Begin(p, force)
             \/ Refused(p)
             \/ \E written \in BOOLEAN : WriteStatus(p, written)
             \/ CloseHandle(p) \/ RemoveStatus(p) \/ Crash(p)
      PROVE  TypeOK'
  BY <1>1 DEF TypeOK, Points, Begin, Refused, WriteStatus, CloseHandle,
     RemoveStatus, Crash, Go
<1>2. ASSUME NEW p \in Starts, RemoveLeftover(p) \/ RemoveLock(p) PROVE TypeOK'
  <2>1. exists' \in BOOLEAN
    BY <1>2, Zenon DEF RemoveLeftover, RemoveLock
  <2> QED
    BY <1>2, <2>1 DEF TypeOK, Points, RemoveLeftover, RemoveLock, Go
<1>3. ASSUME NEW p \in Starts, OpenExclusive(p) PROVE TypeOK'
  BY <1>3 DEF TypeOK, Points, OpenExclusive, Go
<1>4. CASE UNCHANGED vars
  BY <1>4 DEF vars, TypeOK
<1> QED
  BY <1>1, <1>2, <1>3, <1>4 DEF Next, Acquire, Drop

(* On Windows every step keeps the handle in the holder's hands.           *)
LEMMA HandleStep == LInv /\ [Next]_vars => HandleIsLock'
<1> SUFFICES ASSUME LInv, [Next]_vars, Windows PROVE HandleIsLock'
  BY SiteStays DEF HandleIsLock, Windows
<1> USE DEF LInv, TypeOK, HandleIsLock, Holds, Go, Windows
<1>1. ASSUME NEW p \in Starts, NEW force \in BOOLEAN, Begin(p, force)
      PROVE  HandleIsLock'
  BY <1>1 DEF Begin
<1>2. ASSUME NEW p \in Starts, RemoveLeftover(p) \/ Refused(p) \/ RemoveLock(p)
      PROVE  HandleIsLock'
  BY <1>2 DEF RemoveLeftover, Refused, RemoveLock
<1>3. ASSUME NEW p \in Starts, OpenExclusive(p) PROVE HandleIsLock'
  BY <1>3, NobodyAssumption DEF OpenExclusive, Taken
<1>4. ASSUME NEW p \in Starts, NEW written \in BOOLEAN, WriteStatus(p, written)
      PROVE  HandleIsLock'
  BY <1>4 DEF WriteStatus
<1>5. ASSUME NEW p \in Starts, CloseHandle(p) \/ Crash(p) PROVE HandleIsLock'
  BY <1>5 DEF CloseHandle, Crash
<1>6. ASSUME NEW p \in Starts, RemoveStatus(p) PROVE HandleIsLock'
  BY <1>6 DEF RemoveStatus
<1>7. CASE UNCHANGED vars
  BY <1>7 DEF vars
<1> QED
  BY <1>1, <1>2, <1>3, <1>4, <1>5, <1>6, <1>7 DEF Next, Acquire, Drop

(* Elsewhere every step keeps the file with its one owner.                 *)
LEMMA FileStep == LInv /\ [Next]_vars => FileIsLock'
<1> SUFFICES ASSUME LInv, [Next]_vars, ~Windows, ForcePolicy # "any"
             PROVE  FileIsLock'
  BY SiteStays DEF FileIsLock, Windows, ForcePolicy
<1> USE DEF LInv, TypeOK, FileIsLock, Holds, Owns, Gone, Go, Windows, ForcePolicy
<1>1. ASSUME NEW p \in Starts, NEW force \in BOOLEAN, Begin(p, force)
      PROVE  FileIsLock'
  <2>1. pc' = [pc EXCEPT ![p] = IF force THEN "forcing" ELSE "opening"]
    BY <1>1 DEF Begin
  <2>2. ForcePolicy = "never" \/ ForcePolicy = "alone"
    BY SitesAssumption
  <2>3. force => \A q \in Starts : q # p => Gone(q)
    BY <1>1, <2>2 DEF Begin, MayBegin
  <2>4. \A q \in Starts : pc[q] # "forcing"
    BY <1>1, <2>2 DEF Begin, MayBegin
  <2>5. ForcePolicy = "never" => ~force
    BY <1>1 DEF Begin, MayBegin
  <2> QED
    BY <1>1, <2>1, <2>3, <2>4, <2>5 DEF Begin
<1>2. ASSUME NEW p \in Starts, RemoveLeftover(p) PROVE FileIsLock'
  BY <1>2 DEF RemoveLeftover
<1>3. ASSUME NEW p \in Starts, Refused(p) PROVE FileIsLock'
  BY <1>3 DEF Refused
<1>4. ASSUME NEW p \in Starts, OpenExclusive(p) PROVE FileIsLock'
  BY <1>4 DEF OpenExclusive, Taken
<1>5. ASSUME NEW p \in Starts, NEW written \in BOOLEAN, WriteStatus(p, written)
      PROVE  FileIsLock'
  BY <1>5 DEF WriteStatus
<1>6. ASSUME NEW p \in Starts, CloseHandle(p) PROVE FileIsLock'
  BY <1>6 DEF CloseHandle
<1>7. ASSUME NEW p \in Starts, RemoveStatus(p) PROVE FileIsLock'
  BY <1>7 DEF RemoveStatus
<1>8. ASSUME NEW p \in Starts, RemoveLock(p) PROVE FileIsLock'
  BY <1>8 DEF RemoveLock
<1>9. ASSUME NEW p \in Starts, Crash(p) PROVE FileIsLock'
  BY <1>9 DEF Crash
<1>10. CASE UNCHANGED vars
  BY <1>10 DEF vars
<1> QED
  BY <1>1, <1>2, <1>3, <1>4, <1>5, <1>6, <1>7, <1>8, <1>9, <1>10
     DEF Next, Acquire, Drop

(* The lock's inductive invariant is an invariant.                         *)
LEMMA LockInvariant == Spec => []LInv
<1>1. LInv /\ [Next]_vars => LInv'
  BY LockTypeStep, HandleStep, FileStep DEF LInv
<1> QED
  BY LInvInit, <1>1, PTL DEF Spec

(* Where the lock can be trusted, the invariant excludes two holders.      *)
LEMMA LockExcludes == ASSUME Sound PROVE LInv => MutualExclusion
BY DEF Sound, LInv, TypeOK, HandleIsLock, FileIsLock, Owns, MutualExclusion, Windows,
   ForcePolicy

-----------------------------------------------------------------------------
(* Any number of processes may start, be forced, be killed and be started  *)
(* again: on Windows, and elsewhere with --force used as advised, no two   *)
(* of them hold the workspace.                                             *)
THEOREM MutualExclusionTheorem == ASSUME Sound PROVE Spec => []MutualExclusion
BY LockInvariant, LockExcludes, PTL

(* At the same sites a holder's lock file is there as long as it holds: a  *)
(* crash, a forced or a refused start, or a late Drop of another process   *)
(* never takes it away.                                                    *)
THEOREM LockFileStaysTheorem == ASSUME Sound PROVE Spec => LockFileStays
<1>1. LInv /\ LInv' /\ [Next]_vars
        => [\A p \in Starts : Holds(p) /\ Holds(p)' => exists']_vars
  BY NobodyAssumption DEF Sound, LInv, TypeOK, HandleIsLock, FileIsLock, Owns, Windows,
     ForcePolicy
<1> QED
  BY LockInvariant, <1>1, PTL DEF Spec, LockFileStays

(* At the same sites a refused start is never told of a process other than *)
(* the holder whose status is written: whoever writes the status file has  *)
(* the lock, so nobody writes over it, and a late Drop or a crash of a     *)
(* former holder leaves its own name there at most until then.             *)
THEOREM NobodyElseIsNamedTheorem == ASSUME Sound PROVE Spec => []NobodyElseIsNamed
<1>1. Init => NobodyElseIsNamed
  BY DEF Init, NobodyElseIsNamed
<1>2. LInv /\ NobodyElseIsNamed /\ [Next]_vars => NobodyElseIsNamed'
  <2> SUFFICES ASSUME LInv, NobodyElseIsNamed, [Next]_vars,
                      NEW p \in Starts, pc'[p] = "holding"
               PROVE  status' \in {p, Nobody}
    BY DEF NobodyElseIsNamed
  <2>1. TypeOK /\ MutualExclusion
    BY LockExcludes DEF LInv
  <2>2. ASSUME NEW q \in Starts, NEW written \in BOOLEAN, WriteStatus(q, written)
        PROVE  status' \in {p, Nobody}
    <3>1. CASE p = q
      BY <2>1, <2>2, <3>1 DEF WriteStatus, Go, TypeOK
    <3>2. CASE p # q
      <4>1. pc[p] = "holding" /\ pc[q] = "opened"
        BY <2>1, <2>2, <3>2 DEF WriteStatus, Go, TypeOK
      <4> QED
        BY <2>1, <3>2, <4>1 DEF MutualExclusion, Holds
    <3> QED
      BY <3>1, <3>2
  <2>3. ASSUME NEW q \in Starts, RemoveStatus(q) PROVE status' \in {p, Nobody}
    BY <2>3 DEF RemoveStatus
  <2>4. ASSUME NEW q \in Starts,
               \/ \E force \in BOOLEAN : Begin(q, force)
               \/ RemoveLeftover(q) \/ OpenExclusive(q) \/ Refused(q)
               \/ CloseHandle(q) \/ RemoveLock(q) \/ Crash(q)
        PROVE  status' \in {p, Nobody}
    <3>1. status' = status /\ \E to \in Points \ {"holding"} : pc' = [pc EXCEPT ![q] = to]
      BY <2>4 DEF Begin, RemoveLeftover, OpenExclusive, Refused, CloseHandle,
         RemoveLock, Crash, Go, Points
    <3>2. pc[p] = "holding"
      BY <2>1, <3>1 DEF TypeOK
    <3> QED
      BY <3>1, <3>2 DEF NobodyElseIsNamed
  <2>5. CASE UNCHANGED vars
    BY <2>5 DEF vars, NobodyElseIsNamed
  <2> QED
    BY <2>2, <2>3, <2>4, <2>5 DEF Next, Acquire, Drop
<1> QED
  BY <1>1, <1>2, LockInvariant, PTL DEF Spec

-----------------------------------------------------------------------------
(* The session and the assistant, on the variables they share here.        *)

DuckProofs ==
    INSTANCE SessionProofs WITH
        prompt <- x1, child <- x2, doing <- x3, left <- x4, marked <- x5, said <- x6,
        pumped <- x7, read <- x8, mode <- x9, sequence <- x10, sent <- x11, from <- x12,
        verdict <- x13, opened <- x14, lost <- x15

ChatProofs ==
    INSTANCE DesktopAssistantProofs WITH
        busy <- x1, cancelled <- x2, slot <- x3, server <- x4, stopped <- x5, at <- x6,
        mine <- x7, told <- x8, ui <- x9, taken <- x10, doomed <- x11, inFlight <- x12

(* The session that was proved about is the session of MCLocal.            *)
LEMMA SameSession ==
    /\ Duck!Init <=> DuckProofs!Init
    /\ Duck!Next <=> DuckProofs!Next
    /\ UNCHANGED Duck!vars <=> UNCHANGED DuckProofs!vars
    /\ Duck!SessionHears <=> DuckProofs!SessionHears
BY DEF Duck!Streams, DuckProofs!Streams, Duck!Statements, DuckProofs!Statements,
      Duck!Line, DuckProofs!Line, Duck!childVars, DuckProofs!childVars, Duck!driverVars,
      DuckProofs!driverVars, Duck!vars, DuckProofs!vars, Duck!Zero, DuckProofs!Zero,
      Duck!Outputs, DuckProofs!Outputs, Duck!RawOutputs, DuckProofs!RawOutputs, Duck!Room,
      DuckProofs!Room, Duck!Writes, DuckProofs!Writes, Duck!Running, DuckProofs!Running,
      Duck!Say, DuckProofs!Say, Duck!Mark, DuckProofs!Mark, Duck!NextStatement,
      DuckProofs!NextStatement, Duck!ErrorMark, DuckProofs!ErrorMark, Duck!EndRaw,
      DuckProofs!EndRaw, Duck!Die, DuckProofs!Die, Duck!Exit, DuckProofs!Exit, Duck!Pump,
      DuckProofs!Pump, Duck!Disconnected, DuckProofs!Disconnected, Duck!Errors,
      DuckProofs!Errors, Duck!PreludeLanded, DuckProofs!PreludeLanded, Duck!Returns,
      DuckProofs!Returns, Duck!Execute, DuckProofs!Execute, Duck!SkipStale,
      DuckProofs!SkipStale, Duck!Boundary, DuckProofs!Boundary, Duck!Recv,
      DuckProofs!Recv, Duck!TimedOut, DuckProofs!TimedOut, Duck!Hangup, DuckProofs!Hangup,
      Duck!Close, DuckProofs!Close, Duck!Shutdown, DuckProofs!Shutdown, Duck!Finished,
      DuckProofs!Finished, Duck!Child, DuckProofs!Child, Duck!Pumps, DuckProofs!Pumps,
      Duck!Driver, DuckProofs!Driver, Duck!Caller, DuckProofs!Caller, Duck!Next,
      DuckProofs!Next, Duck!Init, DuckProofs!Init, Duck!TypeOK, DuckProofs!TypeOK,
      Duck!Owner, DuckProofs!Owner, Duck!Attribution, DuckProofs!Attribution,
      Duck!LostForGood, DuckProofs!LostForGood, Duck!PreludeHeard,
      DuckProofs!PreludeHeard, Duck!SessionHears, DuckProofs!SessionHears

LEMMA SameAssistant ==
    /\ Chat!Init <=> ChatProofs!Init
    /\ Chat!Next <=> ChatProofs!Next
    /\ UNCHANGED Chat!assistVars <=> UNCHANGED ChatProofs!assistVars
    /\ Chat!AssistantHolds <=> ChatProofs!AssistantHolds
BY DEF Chat!assistVars, ChatProofs!assistVars, Chat!NoServer, ChatProofs!NoServer,
      Chat!Alive, ChatProofs!Alive, Chat!UnderWay, ChatProofs!UnderWay, Chat!Flags,
      ChatProofs!Flags, Chat!Ui, ChatProofs!Ui, Chat!Init, ChatProofs!Init, Chat!Running,
      ChatProofs!Running, Chat!Goto, ChatProofs!Goto, Chat!Leave, ChatProofs!Leave,
      Chat!Kill, ChatProofs!Kill, Chat!Ask, ChatProofs!Ask, Chat!Reset, ChatProofs!Reset,
      Chat!IsAlive, ChatProofs!IsAlive, Chat!UseRunning, ChatProofs!UseRunning,
      Chat!KeepNow, ChatProofs!KeepNow, Chat!Spawn, ChatProofs!Spawn, Chat!SpawnFails,
      ChatProofs!SpawnFails, Chat!Failure, ChatProofs!Failure, Chat!WaitUntilLoaded,
      ChatProofs!WaitUntilLoaded, Chat!MayGoOn, ChatProofs!MayGoOn, Chat!Loaded,
      ChatProofs!Loaded, Chat!Completes, ChatProofs!Completes, Chat!Draft,
      ChatProofs!Draft, Chat!Idle, ChatProofs!Idle, Chat!Return, ChatProofs!Return,
      Chat!Dies, ChatProofs!Dies, Chat!Requested, ChatProofs!Requested, Chat!Cancel,
      ChatProofs!Cancel, Chat!MarkCancelled, ChatProofs!MarkCancelled, Chat!Exit,
      ChatProofs!Exit, Chat!Take, ChatProofs!Take, Chat!StopTaken, ChatProofs!StopTaken,
      Chat!Stop, ChatProofs!Stop, Chat!Over, ChatProofs!Over, Chat!AskStep,
      ChatProofs!AskStep, Chat!Next, ChatProofs!Next, Chat!TypeOK, ChatProofs!TypeOK,
      Chat!ServerHeld, ChatProofs!ServerHeld, Chat!CancelHolds, ChatProofs!CancelHolds,
      Chat!BusyIsTrue, ChatProofs!BusyIsTrue, Chat!NothingOutlives,
      ChatProofs!NothingOutlives, Chat!AssistantHolds, ChatProofs!AssistantHolds,
      Chat!Cardinality, ChatProofs!Cardinality

(* What a session tells is so (session.rs, execute and open): an answer    *)
(* holds all that its statement printed on both streams and nothing of a   *)
(* neighbour, a lost session never answers again, and a LOAD that failed   *)
(* fails open; for any number of statements and lines and any pipes.       *)
THEOREM SessionHearsTheorem == ASSUME DuckProofs!Sizes PROVE LocalSpec => []SessionHears
<1> DEFINE Inv == which = "session" => DuckProofs!AInv
<1>1. LocalInit => Inv
  BY SameSession, DuckProofs!AInit DEF LocalInit
<1>2. Inv /\ [LocalNext]_all => Inv'
  <2> SUFFICES ASSUME Inv, [LocalNext]_all, which' = "session" PROVE DuckProofs!AInv'
    OBVIOUS
  <2>1. which = "session" /\ [Duck!Next]_Duck!vars
    BY DEF LocalNext, all, part, Duck!vars, Duck!childVars, Duck!driverVars
  <2> QED
    BY <2>1, SameSession, DuckProofs!AStep
<1>3. Inv => SessionHears
  BY SameSession, DuckProofs!AImplies DEF SessionHears
<1> QED
  BY <1>1, <1>2, <1>3, PTL DEF LocalSpec

(* The desktop assistant, for any number of requests (apps/desktop/src/    *)
(* main.rs, Assistant): the server that runs is in the slot or in the      *)
(* hands of who stops it, a request that a finished cancel found under way *)
(* delivers nothing, busy is set exactly while a request is under way, and *)
(* no server outlives an application that ends with none.                  *)
THEOREM AssistantHoldsTheorem == ASSUME ChatProofs!Named PROVE LocalSpec => []AssistantHolds
<1> DEFINE Inv == which = "chat" => ChatProofs!DInv
<1>1. LocalInit => Inv
  BY SameAssistant, ChatProofs!DInit DEF LocalInit
<1>2. Inv /\ [LocalNext]_all => Inv'
  <2> SUFFICES ASSUME Inv, [LocalNext]_all, which' = "chat" PROVE ChatProofs!DInv'
    OBVIOUS
  <2>1. which = "chat" /\ [Chat!Next]_Chat!assistVars
    BY DEF LocalNext, all, part, Chat!assistVars
  <2> QED
    BY <2>1, SameAssistant, ChatProofs!DStep
<1>3. Inv => AssistantHolds
  BY SameAssistant, ChatProofs!DImplies DEF AssistantHolds
<1> QED
  BY <1>1, <1>2, <1>3, PTL DEF LocalSpec
=============================================================================
