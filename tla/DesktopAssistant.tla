-------------------------- MODULE DesktopAssistant --------------------------
(* The desktop application's assistant (apps/desktop/src/main.rs): requests  *)
(* on threads of their own share one local model server                      *)
(* (assistant/src/server.rs), which is started for the first and kept for    *)
(* the next, and which Cancel and the end of the application stop from the    *)
(* main thread.                                                              *)
EXTENDS Integers, FiniteSets

CONSTANTS Requests    \* requests; the server that one starts has its name

VARIABLES
    busy, cancelled,   \* the two flags
    slot,              \* the server kept for the next request, or NoServer
    server,            \* each server: "none", "loading", "up", "gone"
    stopped,           \* servers that stop was called on
    at, mine, told,    \* each request: where it is, its server, what it ended with
    ui, taken,         \* the main thread, and the server it took to stop
    doomed,            \* requests that Cancel found under way
    inFlight           \* a request was under way when the application began to end

assistVars == <<busy, cancelled, slot, server, stopped, at, mine, told, ui, taken, doomed, inFlight>>

NoServer == "no server"
Alive == {s \in Requests : server[s] \in {"loading", "up"}}
UnderWay == {r \in Requests : at[r] \notin {"start", "ended"}}
Flags == <<busy, cancelled>>
Ui == <<ui, taken, doomed, inFlight>>

Init ==
    /\ busy = FALSE /\ cancelled = FALSE
    /\ slot = NoServer /\ stopped = {}
    /\ server = [r \in Requests |-> "none"]
    /\ at = [r \in Requests |-> "start"]
    /\ mine = [r \in Requests |-> NoServer]
    /\ told = [r \in Requests |-> "nothing"]
    /\ ui = "idle" /\ taken = NoServer /\ doomed = {} /\ inFlight = FALSE

Running == ui # "over"
Goto(r, where) == at' = [at EXCEPT ![r] = where] /\ UNCHANGED told
Leave(r, how) == at' = [at EXCEPT ![r] = "leave"] /\ told' = [told EXCEPT ![r] = how]

(* Server::stop: the flag, and the process with it.                         *)
Kill(s) ==
    /\ server' = [server EXCEPT ![s] = "gone"]
    /\ stopped' = stopped \cup {s}

-----------------------------------------------------------------------------
(* A request: Assistant::ask                                                *)

(* busy.swap: one request at a time. The window that asks is closed before  *)
(* the application ends.                                                    *)
Ask(r) ==
    /\ at[r] = "start" /\ ui \notin {"exit", "stopAll", "over"}
    /\ busy' = TRUE
    /\ IF busy THEN at' = [at EXCEPT ![r] = "ended"] /\ told' = [told EXCEPT ![r] = "busy"]
       ELSE Goto(r, "reset")
    /\ UNCHANGED <<cancelled, slot, server, stopped, mine, Ui>>

Reset(r) ==
    /\ at[r] = "reset" /\ Running
    /\ cancelled' = FALSE
    /\ Goto(r, "slot")
    /\ UNCHANGED <<busy, slot, server, stopped, mine, Ui>>

(* Assistant::server, while it holds the slot's lock: the server that runs. *)
IsAlive == slot # NoServer /\ slot \in Alive \ stopped
UseRunning(r) ==
    /\ at[r] = "slot" /\ Running /\ IsAlive
    /\ mine' = [mine EXCEPT ![r] = slot]
    /\ Goto(r, "draft")
    /\ UNCHANGED <<Flags, slot, server, stopped, Ui>>

\* Mutant: the server is kept once it has loaded, not before.
KeepLater(r) == slot
KeepNow(r) == r

(* ... or a new one, kept before it has loaded.                             *)
Spawn(r) ==
    /\ at[r] = "slot" /\ Running /\ ~IsAlive
    /\ server' = [server EXCEPT ![r] = "loading"]
    /\ slot' = KeepNow(r)
    /\ mine' = [mine EXCEPT ![r] = r]
    /\ Goto(r, "load")
    /\ UNCHANGED <<Flags, stopped, Ui>>

(* No port, no log file, no such program.                                   *)
SpawnFails(r) ==
    /\ at[r] = "slot" /\ Running /\ ~IsAlive
    /\ Leave(r, "failed")
    /\ UNCHANGED <<Flags, slot, server, stopped, mine, Ui>>

(* wait_until_loaded: it was stopped, it has exited, it answers 200, or it  *)
(* takes too long and runs on.                                              *)
Failure(r) == IF cancelled \/ mine[r] \in stopped THEN "cancelled" ELSE "failed"
WaitUntilLoaded(r) ==
    /\ at[r] = "load" /\ Running
    /\ IF server[mine[r]] = "gone"
       THEN Leave(r, Failure(r)) /\ UNCHANGED server
       ELSE \/ server' = [server EXCEPT ![mine[r]] = "up"] /\ Goto(r, "loaded")
            \/ Leave(r, Failure(r)) /\ UNCHANGED server
    /\ UNCHANGED <<Flags, slot, stopped, mine, Ui>>

\* Mutant: a cancel that came before there was a server is not looked at.
GoOn == TRUE
MayGoOn == ~cancelled
Loaded(r) ==
    /\ at[r] = "loaded" /\ Running
    /\ IF MayGoOn THEN Goto(r, "draft") /\ UNCHANGED <<server, stopped>>
       ELSE Kill(mine[r]) /\ Leave(r, "cancelled")
    /\ UNCHANGED <<Flags, slot, mine, Ui>>

(* Server::complete: what is up answers.                                    *)
Completes(r) == server[mine[r]] = "up"

\* Mutant: a completion has no timeout.
DraftUntimed(r) ==
    /\ at[r] = "draft" /\ Running
    /\ \/ Completes(r) /\ Leave(r, "ok")
       \/ server[mine[r]] = "gone" /\ Leave(r, Failure(r))
    /\ UNCHANGED <<Flags, slot, server, stopped, mine, Ui>>

(* draft: the answer, or none: it was stopped, has died, is loading still,  *)
(* or wrote what is no pipeline.                                            *)
Draft(r) ==
    /\ at[r] = "draft" /\ Running
    /\ \/ Completes(r) /\ Leave(r, "ok")
       \/ Leave(r, Failure(r))
    /\ UNCHANGED <<Flags, slot, server, stopped, mine, Ui>>

\* Mutant: only a request that succeeds clears the flag.
IdleOnSuccess(r) == told[r] # "ok"
Idle(r) == FALSE

(* Idle is dropped: the flag is cleared however the request ended.          *)
Return(r) ==
    /\ at[r] = "leave" /\ Running
    /\ busy' = Idle(r)
    /\ at' = [at EXCEPT ![r] = "ended"]
    /\ mine' = [mine EXCEPT ![r] = NoServer]
    /\ UNCHANGED <<cancelled, slot, server, stopped, told, Ui>>

(* The server dies on its own.                                              *)
Dies(s) ==
    /\ s \in Alive
    /\ server' = [server EXCEPT ![s] = "gone"]
    /\ UNCHANGED <<Flags, slot, stopped, at, mine, told, Ui>>

-----------------------------------------------------------------------------
(* The main thread                                                          *)

Requested == <<at, mine, told>>

(* Assistant::cancel: nothing to do where nothing is under way.             *)
Cancel ==
    /\ ui = "idle" /\ busy
    /\ ui' = "mark"
    /\ UNCHANGED <<Flags, slot, server, stopped, Requested, taken, doomed, inFlight>>

MarkCancelled ==
    /\ ui = "mark"
    /\ cancelled' = TRUE /\ ui' = "take"
    /\ doomed' = doomed \cup {r \in UnderWay : at[r] \notin {"reset", "leave"}}
    /\ UNCHANGED <<busy, slot, server, stopped, Requested, taken, inFlight>>

(* RunEvent::Exit.                                                          *)
Exit ==
    /\ ui = "idle"
    /\ ui' = "exit" /\ inFlight' = (UnderWay # {})
    /\ UNCHANGED <<Flags, slot, server, stopped, Requested, taken, doomed>>

(* shut_down: the server is taken out of the slot, under its lock ...       *)
Take ==
    /\ ui \in {"take", "exit"}
    /\ taken' = slot /\ slot' = NoServer
    /\ ui' = IF ui = "take" THEN "stop" ELSE "stopAll"
    /\ UNCHANGED <<Flags, server, stopped, Requested, doomed, inFlight>>

\* Mutant: the server is dropped from the slot and its process is left.
LeaveRunning == UNCHANGED <<server, stopped>>
StopTaken == IF taken = NoServer THEN UNCHANGED <<server, stopped>> ELSE Kill(taken)

(* ... and stopped. The application ends with its threads.                  *)
Stop ==
    /\ ui \in {"stop", "stopAll"}
    /\ StopTaken
    /\ taken' = NoServer
    /\ doomed' = {r \in doomed : told[r] # "ok"}
    /\ ui' = IF ui = "stop" THEN "idle" ELSE "over"
    /\ UNCHANGED <<Flags, slot, Requested, inFlight>>

Over == ui = "over" /\ UNCHANGED assistVars

AskStep(r) ==
    \/ Reset(r) \/ UseRunning(r) \/ Spawn(r) \/ SpawnFails(r) \/ WaitUntilLoaded(r)
    \/ Loaded(r) \/ Draft(r) \/ Return(r)

Next ==
    \/ \E r \in Requests : Ask(r) \/ AskStep(r) \/ Dies(r)
    \/ Cancel \/ MarkCancelled \/ Exit \/ Take \/ Stop \/ Over

(* Loading and answering have timeouts, so a request that has begun goes on.*)
Spec == Init /\ [][Next]_assistVars /\ \A r \in Requests : WF_assistVars(AskStep(r))

-----------------------------------------------------------------------------
TypeOK ==
    /\ busy \in BOOLEAN /\ cancelled \in BOOLEAN
    /\ slot \in Requests \cup {NoServer} /\ taken \in Requests \cup {NoServer}
    /\ told \in [Requests -> {"nothing", "busy", "ok", "failed", "cancelled"}]

(* A model server that runs is in the slot, where Cancel and the end of the *)
(* application find it, or in the hands of who is stopping it: no request   *)
(* leaves one behind, and there are never two for longer than a stop takes. *)
ServerHeld == Alive \subseteq {slot, taken}

(* Once a cancel has finished, the request it found under way delivers no   *)
(* pipeline any more, wherever it was: before it had a server, while that   *)
(* loaded, or waiting for its answer. Excepted is a request that clears the *)
(* flag after Cancel set it.                                                *)
CancelHolds == ui = "idle" => \A r \in doomed : told[r] # "ok"

(* The flag is set exactly while a request is under way, so that a failed   *)
(* or a cancelled one never locks the next one out, and two never share the *)
(* server.                                                                  *)
BusyIsTrue == Running => (busy <=> UnderWay # {}) /\ Cardinality(UnderWay) <= 1

(* The model server does not outlive the application, unless a request was  *)
(* under way when it ended.                                                 *)
NothingOutlives == ui = "over" /\ ~inFlight => Alive = {}

(* The desktop assistant: a model server that runs is where Cancel and the  *)
(* end of the application find it; a request that a cancel found under way  *)
(* delivers no pipeline any more; busy is set exactly while a request is    *)
(* under way; and the server does not outlive the application.              *)
AssistantHolds ==
    /\ TypeOK
    /\ ServerHeld
    /\ CancelHolds
    /\ BusyIsTrue
    /\ NothingOutlives

(* A request ends, cancelled or not, unless the application does first.     *)
Begun(r) == at[r] = "reset"
Settled(r) == at[r] = "ended" \/ ui = "over"
RequestEnds == \A r \in Requests : Begun(r) ~> Settled(r)
=============================================================================
