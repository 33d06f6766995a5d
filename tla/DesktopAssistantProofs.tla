----------------------- MODULE DesktopAssistantProofs -----------------------
(***************************************************************************)
(* The desktop assistant keeps its promises for any number of requests:    *)
(* the model server that runs is always within reach of who must stop it,  *)
(* a cancel that has finished holds, wherever it met the request, and busy *)
(* is true.                                                                *)
(***************************************************************************)
EXTENDS DesktopAssistant, FiniteSetTheorems, TLAPS

(* The main thread's mark for an empty slot names no request.              *)
Named == NoServer \notin Requests

Places == {"start", "reset", "slot", "load", "loaded", "draft", "leave", "ended"}

Types ==
    /\ slot \in Requests \cup {NoServer} /\ taken \in Requests \cup {NoServer}
    /\ server \in [Requests -> {"none", "loading", "up", "gone"}]
    /\ stopped \subseteq Requests
    /\ at \in [Requests -> Places]
    /\ mine \in [Requests -> Requests \cup {NoServer}]
    /\ told \in [Requests -> {"nothing", "busy", "ok", "failed", "cancelled"}]
    /\ ui \in {"idle", "mark", "take", "stop", "exit", "stopAll", "over"}
    /\ doomed \subseteq Requests

Flagged == busy \in BOOLEAN /\ cancelled \in BOOLEAN /\ inFlight \in BOOLEAN

(* One request is under way at a time, and busy says so.                   *)
OneAtATime ==
    /\ busy <=> \E r \in Requests : r \in UnderWay
    /\ \A r, q \in UnderWay : r = q

(* A request's own server: none before it comes to start one; there, from  *)
(* then until it has answered; and gone for good once stopped.             *)
OwnServer ==
    /\ \A r \in Requests : at[r] \in {"start", "reset", "slot"} => server[r] = "none"
    /\ \A r \in Requests : at[r] \in {"load", "loaded"} => mine[r] = r /\ server[r] # "none"
    /\ \A r \in Requests : at[r] = "draft" => mine[r] \in Requests
    /\ \A s \in Requests : s = slot \/ s = taken => server[s] # "none"
    /\ \A s \in stopped : server[s] = "gone"

(* The main thread holds a server between Take and Stop only.              *)
EmptyHanded == ui \notin {"stop", "stopAll"} => taken = NoServer

(* With nothing under way at the end, nothing fills the slot again.        *)
Ending ==
    ui \in {"exit", "stopAll", "over"} /\ ~inFlight =>
        /\ UnderWay = {}
        /\ ui # "exit" => slot = NoServer

(* A request that a cancel found finds no server to draft with once that   *)
(* cancel has emptied the slot, and what it had dies with Stop; the flag   *)
(* stays up for as long as it may look at it.                              *)
Cancelled(r) ==
    /\ at[r] \notin {"start", "reset"}
    /\ at[r] \in {"slot", "load", "loaded", "draft"} => cancelled
    /\ at[r] = "slot" /\ ui \in {"stop", "idle", "mark"} => slot = NoServer
    /\ at[r] = "draft" /\ ui = "stop" => mine[r] = taken \/ mine[r] \notin Alive
    /\ at[r] = "draft" /\ ui \in {"idle", "mark"} => mine[r] \notin Alive
    /\ ui \in {"idle", "mark"} => told[r] # "ok"

CancelledStay == \A r \in doomed : Cancelled(r)

DInv ==
    /\ Types /\ Flagged /\ OneAtATime /\ OwnServer /\ ServerHeld /\ EmptyHanded /\ Ending
    /\ CancelledStay

-----------------------------------------------------------------------------
LEMMA TypesStep == Types /\ OwnServer /\ [Next]_assistVars => Types'
<1> SUFFICES ASSUME Types, OwnServer, [Next]_assistVars PROVE Types'
  OBVIOUS
<1> USE DEF Types, Goto, Leave, Ui, Flags, Requested
<1>1. ASSUME NEW r \in Requests, Ask(r) \/ Reset(r) PROVE Types'
  BY <1>1 DEF Ask, Reset, Places
<1>2. ASSUME NEW r \in Requests, UseRunning(r) \/ Spawn(r) \/ SpawnFails(r) PROVE Types'
  BY <1>2 DEF UseRunning, Spawn, SpawnFails, KeepNow, Places
<1>3. ASSUME NEW r \in Requests, WaitUntilLoaded(r) PROVE Types'
  BY <1>3 DEF WaitUntilLoaded, Failure, Places
<1>4. ASSUME NEW r \in Requests, Loaded(r) PROVE Types'
  <2>1. mine[r] = r
    BY <1>4 DEF Loaded, OwnServer
  <2> QED
    BY <1>4, <2>1 DEF Loaded, Kill, Places
<1>5. ASSUME NEW r \in Requests, Draft(r) \/ Return(r) PROVE Types'
  BY <1>5 DEF Draft, Return, Failure, Places
<1>6. ASSUME NEW r \in Requests, Dies(r) PROVE Types'
  BY <1>6 DEF Dies
<1>7. CASE Cancel \/ MarkCancelled \/ Exit \/ Take \/ Over \/ UNCHANGED assistVars
  BY <1>7 DEF Cancel, MarkCancelled, Exit, Take, Over, UnderWay, assistVars
<1>8. CASE Stop
  BY <1>8 DEF Stop, StopTaken, Kill
<1> QED
  BY <1>1, <1>2, <1>3, <1>4, <1>5, <1>6, <1>7, <1>8 DEF Next, AskStep

LEMMA FlaggedStep == Flagged /\ [Next]_assistVars => Flagged'
<1> SUFFICES ASSUME Flagged, [Next]_assistVars PROVE Flagged'
  OBVIOUS
<1>1. /\ busy' = busy \/ busy' = TRUE \/ busy' = FALSE
      /\ cancelled' = cancelled \/ cancelled' = TRUE \/ cancelled' = FALSE
      /\ inFlight' = inFlight \/ inFlight' = (UnderWay # {})
  BY DEF Next, AskStep, Ask, Reset, UseRunning, Spawn, SpawnFails, WaitUntilLoaded, Loaded,
     Draft, Return, Idle, Dies, Cancel, MarkCancelled, Exit, Take, Stop, Over, assistVars,
     Ui, Flags
<1> QED
  BY <1>1, Zenon DEF Flagged

(* A step moves one request at most, and only by Ask into being under way. *)
LEMMA Moves ==
    ASSUME Types, [Next]_assistVars
    PROVE  \/ /\ UNCHANGED <<at, told, mine>> /\ UNCHANGED <<busy>>
           \/ \E r \in Requests :
                /\ \A q \in Requests : q # r => at'[q] = at[q] /\ told'[q] = told[q]
                                                /\ mine'[q] = mine[q]
                /\ \/ /\ at[r] = "start" /\ ~busy /\ busy' = TRUE /\ at'[r] = "reset"
                   \/ /\ at[r] = "start" /\ busy /\ busy' = TRUE /\ at'[r] = "ended"
                   \/ /\ at[r] \notin {"start", "leave", "ended"}
                      /\ at'[r] \notin {"start", "reset", "ended"} /\ busy' = busy
                   \/ /\ at[r] = "leave" /\ at'[r] = "ended" /\ busy' = FALSE
<1> USE DEF Types, Goto, Leave, Ui, Flags, Requested
<1>1. ASSUME NEW r \in Requests, Ask(r)
      PROVE  /\ \A q \in Requests : q # r => at'[q] = at[q] /\ told'[q] = told[q]
             /\ mine' = mine /\ at[r] = "start" /\ busy' = TRUE
             /\ at'[r] = IF busy THEN "ended" ELSE "reset"
  BY <1>1 DEF Ask
<1>2. ASSUME NEW r \in Requests, AskStep(r), ~Return(r)
      PROVE  /\ \A q \in Requests : q # r => at'[q] = at[q] /\ told'[q] = told[q]
                                             /\ mine'[q] = mine[q]
             /\ at[r] \notin {"start", "leave", "ended"}
             /\ at'[r] \notin {"start", "reset", "ended"} /\ busy' = busy
  BY <1>2 DEF AskStep, Reset, UseRunning, Spawn, SpawnFails, WaitUntilLoaded, Loaded, Draft
<1>3. ASSUME NEW r \in Requests, Return(r)
      PROVE  /\ \A q \in Requests : q # r => at'[q] = at[q] /\ told'[q] = told[q]
                                             /\ mine'[q] = mine[q]
             /\ at[r] = "leave" /\ at'[r] = "ended" /\ busy' = FALSE
  BY <1>3 DEF Return, Idle
<1>4. CASE \/ \E r \in Requests : Dies(r)
           \/ Cancel \/ MarkCancelled \/ Exit \/ Take \/ Stop \/ Over
           \/ UNCHANGED assistVars
  BY <1>4 DEF Dies, Cancel, MarkCancelled, Exit, Take, Stop, Over, assistVars
<1> QED
  BY <1>1, <1>2, <1>3, <1>4 DEF Next

LEMMA OneAtATimeStep ==
    Types /\ OneAtATime /\ [Next]_assistVars => OneAtATime'
<1> SUFFICES ASSUME Types, OneAtATime, [Next]_assistVars PROVE OneAtATime'
  OBVIOUS
<1>1. CASE UNCHANGED <<at, busy>>
  BY <1>1 DEF OneAtATime, UnderWay
<1>2. ASSUME NEW r \in Requests, \A q \in Requests : q # r => at'[q] = at[q],
             \/ at[r] = "start" /\ ~busy /\ busy' = TRUE /\ at'[r] = "reset"
             \/ at[r] = "start" /\ busy /\ busy' = TRUE /\ at'[r] = "ended"
             \/ /\ at[r] \notin {"start", "leave", "ended"}
                /\ at'[r] \notin {"start", "reset", "ended"} /\ busy' = busy
             \/ at[r] = "leave" /\ at'[r] = "ended" /\ busy' = FALSE
      PROVE  OneAtATime'
  BY <1>2 DEF OneAtATime, UnderWay
<1> QED
  BY <1>1, <1>2, Moves

LEMMA OwnServerStep ==
    ASSUME Named
    PROVE  Types /\ OwnServer /\ [Next]_assistVars => OwnServer'
<1> SUFFICES ASSUME Types, OwnServer, [Next]_assistVars PROVE OwnServer'
  OBVIOUS
<1> USE DEF Types, OwnServer, Goto, Leave, Ui, Flags, Requested
<1>1. ASSUME NEW r \in Requests, Ask(r) \/ Reset(r) PROVE OwnServer'
  BY <1>1 DEF Ask, Reset
<1>2. ASSUME NEW r \in Requests, UseRunning(r) PROVE OwnServer'
  BY <1>2 DEF UseRunning, IsAlive, Alive
<1>3. ASSUME NEW r \in Requests, Spawn(r) PROVE OwnServer'
  BY <1>3 DEF Spawn, KeepNow
<1>4. ASSUME NEW r \in Requests, SpawnFails(r) \/ Draft(r) \/ Return(r) PROVE OwnServer'
  BY <1>4 DEF SpawnFails, Draft, Return
<1>5. ASSUME NEW r \in Requests, WaitUntilLoaded(r) PROVE OwnServer'
  BY <1>5 DEF WaitUntilLoaded
<1>6. ASSUME NEW r \in Requests, Loaded(r) PROVE OwnServer'
  BY <1>6 DEF Loaded, Kill
<1>7. ASSUME NEW r \in Requests, Dies(r) PROVE OwnServer'
  BY <1>7 DEF Dies, Alive
<1>8. CASE Stop
  BY <1>8 DEF Stop, StopTaken, Kill, Named
<1>9. CASE Cancel \/ MarkCancelled \/ Exit \/ Take \/ Over \/ UNCHANGED assistVars
  BY <1>9 DEF Cancel, MarkCancelled, Exit, Take, Over, assistVars, Named
<1> QED
  BY <1>1, <1>2, <1>3, <1>4, <1>5, <1>6, <1>7, <1>8, <1>9 DEF Next, AskStep

LEMMA ServerHeldStep ==
    ASSUME Named
    PROVE  Types /\ OwnServer /\ EmptyHanded /\ ServerHeld /\ [Next]_assistVars => ServerHeld'
<1> SUFFICES ASSUME Types, OwnServer, EmptyHanded, ServerHeld, [Next]_assistVars
             PROVE  ServerHeld'
  OBVIOUS
<1> USE DEF Types, ServerHeld, Alive, Goto, Leave, Ui, Flags, Requested
<1>1. ASSUME NEW r \in Requests, \/ Ask(r) \/ Reset(r) \/ UseRunning(r) \/ SpawnFails(r)
                                 \/ Draft(r) \/ Return(r)
      PROVE  ServerHeld'
  BY <1>1 DEF Ask, Reset, UseRunning, SpawnFails, Draft, Return
<1>2. ASSUME NEW r \in Requests, Spawn(r) PROVE ServerHeld'
  <2>1. slot \notin Alive
    BY <1>2 DEF Named, OwnServer, Spawn, IsAlive
  <2> QED
    BY <1>2, <2>1 DEF Spawn, KeepNow
<1>3. ASSUME NEW r \in Requests, WaitUntilLoaded(r) PROVE ServerHeld'
  BY <1>3 DEF WaitUntilLoaded, OwnServer
<1>4. ASSUME NEW r \in Requests, Loaded(r) PROVE ServerHeld'
  BY <1>4 DEF Loaded, Kill
<1>5. ASSUME NEW r \in Requests, Dies(r) PROVE ServerHeld'
  BY <1>5 DEF Dies
<1>6. CASE Cancel \/ MarkCancelled \/ Exit \/ Over \/ UNCHANGED assistVars
  BY <1>6 DEF Cancel, MarkCancelled, Exit, Over, assistVars
<1>7. CASE Take
  BY <1>7 DEF Take, EmptyHanded, Named
<1>8. CASE Stop
  BY <1>8 DEF Stop, StopTaken, Kill, Named
<1> QED
  BY <1>1, <1>2, <1>3, <1>4, <1>5, <1>6, <1>7, <1>8 DEF Next, AskStep

LEMMA EmptyHandedStep == EmptyHanded /\ [Next]_assistVars => EmptyHanded'
BY DEF EmptyHanded, Next, AskStep, Ask, Reset, UseRunning, Spawn, SpawnFails,
   WaitUntilLoaded, Loaded, Draft, Return, Dies, Cancel, MarkCancelled, Exit, Take, Stop,
   Over, assistVars, Ui

LEMMA EndingStep == Types /\ Ending /\ [Next]_assistVars => Ending'
<1> SUFFICES ASSUME Types, Ending, [Next]_assistVars PROVE Ending'
  OBVIOUS
<1>1. ASSUME NEW r \in Requests, Ask(r) PROVE Ending'
  BY <1>1 DEF Ending, Ask, Ui
<1>2. ASSUME NEW r \in Requests, AskStep(r) PROVE Ending'
  <2>1. r \in UnderWay /\ UNCHANGED Ui
    BY <1>2 DEF AskStep, Reset, UseRunning, Spawn, SpawnFails, WaitUntilLoaded, Loaded,
       Draft, Return, UnderWay
  <2> QED
    BY <2>1 DEF Ending, Ui
<1>3. CASE \/ \E r \in Requests : Dies(r)
           \/ Cancel \/ MarkCancelled \/ Over \/ UNCHANGED assistVars
  BY <1>3 DEF Ending, UnderWay, Dies, Cancel, MarkCancelled, Over, assistVars, Ui, Requested
<1>4. CASE Exit
  <2>1. UnderWay' = UnderWay /\ ui' = "exit" /\ inFlight' = (UnderWay # {})
    BY <1>4 DEF Exit, Requested, UnderWay
  <2>2. ~inFlight' => UnderWay' = {}
    BY <2>1, Zenon
  <2> QED
    BY <2>1, <2>2 DEF Ending
<1>5. CASE Take \/ Stop
  <2>1. /\ UnderWay' = UnderWay /\ inFlight' = inFlight
        /\ \/ ui \in {"take", "stop"} /\ ui' \in {"stop", "idle"}
           \/ ui = "exit" /\ ui' = "stopAll" /\ slot' = NoServer
           \/ ui = "stopAll" /\ ui' = "over" /\ slot' = slot
    BY <1>5 DEF Take, Stop, Requested, UnderWay
  <2> QED
    BY <2>1 DEF Ending
<1> QED
  BY <1>1, <1>2, <1>3, <1>4, <1>5 DEF Next

(* Nothing that the request, another or the main thread does undoes it.    *)
LEMMA CancelledStayStep ==
    ASSUME Named
    PROVE  /\ Types /\ OneAtATime /\ OwnServer /\ ServerHeld /\ EmptyHanded /\ CancelledStay
           /\ [Next]_assistVars
           => CancelledStay'
<1> SUFFICES ASSUME Types, OneAtATime, OwnServer, ServerHeld, EmptyHanded, CancelledStay,
                    [Next]_assistVars, NEW r \in doomed'
             PROVE  Cancelled(r)'
  BY DEF CancelledStay
<1>d. doomed' \subseteq Requests
  BY TypesStep DEF Types
<1>u. \A q \in Requests : /\ at[r] \in {"slot", "load", "loaded", "draft"}
                          /\ at[q] \notin {"start", "ended"}
                          => q = r
  BY <1>d DEF OneAtATime, UnderWay
<1>1. ASSUME NEW q \in Requests, Ask(q) PROVE Cancelled(r)'
  <2>1. r \in doomed /\ r # q
    BY <1>1 DEF Ask, Ui, CancelledStay, Cancelled
  <2> QED
    BY <1>1, <1>d, <2>1 DEF Types, Ask, Goto, Ui, CancelledStay, Cancelled, Alive
<1>2. ASSUME NEW q \in Requests, AskStep(q), q # r PROVE Cancelled(r)'
  <2>1. r \in doomed /\ UNCHANGED Ui
    BY <1>2 DEF AskStep, Reset, UseRunning, Spawn, SpawnFails, WaitUntilLoaded, Loaded,
       Draft, Return, Ui
  <2>2. at[q] \notin {"start", "ended"}
    BY <1>2 DEF AskStep, Reset, UseRunning, Spawn, SpawnFails, WaitUntilLoaded, Loaded,
       Draft, Return
  <2>3. at[r] \notin {"start", "reset", "slot", "load", "loaded", "draft"}
    BY <1>2, <1>u, <2>1, <2>2 DEF CancelledStay, Cancelled
  <2>4. at'[r] = at[r] /\ told'[r] = told[r]
    BY <1>2, <1>d DEF Types, AskStep, Reset, UseRunning, Spawn, SpawnFails, WaitUntilLoaded,
       Loaded, Draft, Return, Goto, Leave
  <2> QED
    BY <2>1, <2>3, <2>4 DEF CancelledStay, Cancelled, Ui
<1>3. ASSUME AskStep(r) PROVE Cancelled(r)'
  <2> USE DEF Types, Goto, Leave, Ui, Flags
  <2>1. r \in doomed /\ r \in Requests /\ UNCHANGED Ui
    BY <1>3, <1>d DEF AskStep, Reset, UseRunning, Spawn, SpawnFails, WaitUntilLoaded, Loaded,
       Draft, Return
  <2>2. Cancelled(r)
    BY <2>1 DEF CancelledStay
  <2>3. CASE Reset(r)
    BY <2>2, <2>3 DEF Reset, Cancelled
  <2>4. CASE UseRunning(r)
    <3>1. ui \notin {"stop", "idle", "mark"}
      BY <2>2, <2>4 DEF UseRunning, IsAlive, Cancelled
    <3> QED
      BY <2>1, <2>2, <2>4, <3>1 DEF UseRunning, Cancelled
  <2>5. CASE Spawn(r) \/ SpawnFails(r) \/ WaitUntilLoaded(r) \/ Return(r)
    BY <2>1, <2>2, <2>5 DEF Spawn, SpawnFails, WaitUntilLoaded, Return, Failure, Cancelled
  <2>6. CASE Loaded(r)
    BY <2>1, <2>2, <2>6 DEF Loaded, MayGoOn, Cancelled
  <2>7. CASE Draft(r)
    BY <2>1, <2>2, <2>7 DEF Draft, Completes, Failure, Cancelled, Alive, OwnServer
  <2> QED
    BY <1>3, <2>3, <2>4, <2>5, <2>6, <2>7 DEF AskStep
<1>4. ASSUME NEW q \in Requests, Dies(q) PROVE Cancelled(r)'
  BY <1>4, <1>d DEF Types, Dies, Flags, Ui, Alive, CancelledStay, Cancelled
<1>5. CASE Cancel \/ Exit \/ Over \/ UNCHANGED assistVars
  BY <1>5 DEF Cancel, Exit, Over, assistVars, Flags, Requested, Ui, Alive, CancelledStay,
     Cancelled
<1>6. CASE MarkCancelled
  BY <1>6, <1>d DEF MarkCancelled, Requested, UnderWay, CancelledStay, Cancelled
<1>7. CASE Take
  <2>1. r \in doomed /\ Cancelled(r) /\ UNCHANGED <<at, mine, told, server, cancelled>>
    BY <1>7 DEF Take, CancelledStay, Requested, Flags
  <2>2. /\ ui' \in {"stop", "stopAll"} /\ slot' = NoServer /\ taken' = slot
        /\ taken = NoServer
    BY <1>7 DEF Take, EmptyHanded
  <2>3. at[r] = "draft" => mine[r] = slot \/ mine[r] \notin Alive
    BY <1>d, <2>2 DEF ServerHeld, Alive, Named
  <2> QED
    BY <2>1, <2>2, <2>3 DEF Cancelled, Alive
<1>8. CASE Stop
  <2>1. /\ r \in doomed /\ told[r] # "ok" /\ Cancelled(r)
        /\ UNCHANGED <<at, mine, told, cancelled, slot>>
        /\ (ui = "stop" /\ ui' = "idle") \/ ui' = "over"
    BY <1>8 DEF Stop, CancelledStay, Requested, Flags
  <2>2. \A s \in Requests : s \in Alive' => s \in Alive /\ s # taken
    BY <1>8 DEF Types, Stop, StopTaken, Kill, Alive, Named
  <2>3. Alive' \subseteq Requests
    BY DEF Alive
  <2> QED
    BY <2>1, <2>2, <2>3 DEF Cancelled
<1> QED
  BY <1>1, <1>2, <1>3, <1>4, <1>5, <1>6, <1>7, <1>8 DEF Next

-----------------------------------------------------------------------------
LEMMA DInit == ASSUME Named PROVE Init => DInv
<1> SUFFICES ASSUME Init PROVE DInv
  OBVIOUS
<1>1. Flagged
  BY Zenon DEF Init, Flagged
<1>2. Types /\ OneAtATime /\ OwnServer
  BY DEF Init, Types, Places, OneAtATime, UnderWay, OwnServer, Named
<1>3. ServerHeld /\ EmptyHanded /\ Ending /\ CancelledStay
  BY DEF Init, ServerHeld, Alive, EmptyHanded, Ending, CancelledStay
<1> QED
  BY <1>1, <1>2, <1>3 DEF DInv

LEMMA DStep == ASSUME Named PROVE DInv /\ [Next]_assistVars => DInv'
BY TypesStep, FlaggedStep, OneAtATimeStep, OwnServerStep, ServerHeldStep, EmptyHandedStep,
   EndingStep, CancelledStayStep DEF DInv

LEMMA DImplies == ASSUME Named PROVE DInv => AssistantHolds
<1> SUFFICES ASSUME DInv PROVE AssistantHolds
  OBVIOUS
<1>1. TypeOK
  BY DEF DInv, Types, Flagged, TypeOK
<1>2. CancelHolds
  BY DEF DInv, CancelledStay, Cancelled, CancelHolds
<1>3. BusyIsTrue
  <2>1. busy <=> UnderWay # {}
    BY DEF DInv, OneAtATime, UnderWay
  <2>2. UnderWay = {} \/ \E r : UnderWay = {r}
    BY DEF DInv, OneAtATime
  <2>3. Cardinality(UnderWay) <= 1
    <3>1. CASE UnderWay = {}
      BY <3>1, FS_EmptySet
    <3>2. ASSUME NEW r, UnderWay = {r} PROVE Cardinality(UnderWay) <= 1
      BY <3>2, FS_Singleton
    <3> QED
      BY <2>2, <3>1, <3>2
  <2> QED
    BY <2>1, <2>3 DEF BusyIsTrue
<1>4. NothingOutlives
  BY DEF DInv, Ending, EmptyHanded, ServerHeld, Alive, NothingOutlives, Named
<1> QED
  BY <1>1, <1>2, <1>3, <1>4 DEF DInv, AssistantHolds

(* The desktop assistant, for any number of requests (apps/desktop/src/    *)
(* main.rs, Assistant): the server that runs is in the slot or in the      *)
(* hands of who stops it, a request that a finished cancel found under way *)
(* delivers nothing, busy is set exactly while a request is under way, and *)
(* no server outlives an application that ends with none.                  *)
THEOREM AssistantHoldsTheorem == ASSUME Named PROVE Spec => []AssistantHolds
<1>1. Init => DInv
  BY DInit
<1>2. DInv /\ [Next]_assistVars => DInv'
  BY DStep
<1>3. DInv => AssistantHolds
  BY DImplies
<1> QED
  BY <1>1, <1>2, <1>3, PTL DEF Spec
=============================================================================
