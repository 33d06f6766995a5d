------------------------------ MODULE MCLocal ------------------------------
(* Small instances of what a workspace's own processes share: the lock of    *)
(* its scheduler, the DuckDB session of a run, and the local model that the  *)
(* desktop application's requests keep. A behaviour is one of one part;      *)
(* `which` says of which. The session and the assistant share the variables  *)
(* x1 to x15, which stand for their own in the order in which they declare   *)
(* them.                                                                     *)
EXTENDS WorkspaceLock

CONSTANTS PipeSize, MaxStatements, MaxLines, Requests

VARIABLES which, x1, x2, x3, x4, x5, x6, x7, x8, x9, x10, x11, x12, x13, x14, x15

part == <<x1, x2, x3, x4, x5, x6, x7, x8, x9, x10, x11, x12, x13, x14, x15>>
all == <<which, vars, part>>

(* Windows with --force used freely, elsewhere as a refused start advises.  *)
Advised == {[system |-> "windows", force |-> "any"],
            [system |-> "other", force |-> "alone"]}

Duck ==
    INSTANCE Session WITH
        prompt <- x1, child <- x2, doing <- x3, left <- x4, marked <- x5, said <- x6, pumped <- x7, read <- x8,
        mode <- x9, sequence <- x10, sent <- x11, from <- x12, verdict <- x13,
        opened <- x14, lost <- x15

Chat ==
    INSTANCE DesktopAssistant WITH
        busy <- x1, cancelled <- x2, slot <- x3, server <- x4,
        stopped <- x5, at <- x6, mine <- x7, told <- x8, ui <- x9, taken <- x10,
        doomed <- x11, inFlight <- x12

LocalInit ==
    \/ /\ which = "lock" /\ Init
       /\ x1 = 0 /\ x2 = 0 /\ x3 = 0 /\ x4 = 0 /\ x5 = 0 /\ x6 = 0 /\ x7 = 0 /\ x8 = 0
       /\ x9 = 0 /\ x10 = 0 /\ x11 = 0 /\ x12 = 0 /\ x13 = 0 /\ x14 = 0 /\ x15 = 0
    \/ /\ Init /\ site.system = "other"
       /\ \/ which = "session" /\ Duck!Init
          \/ /\ which = "chat" /\ Chat!Init
             /\ x13 = 0 /\ x14 = 0 /\ x15 = 0

LocalNext ==
    \/ which = "lock" /\ Next /\ UNCHANGED <<which, part>>
    \/ which = "session" /\ Duck!Next /\ UNCHANGED <<which, vars>>
    \/ which = "chat" /\ Chat!Next /\ UNCHANGED <<which, vars, x13, x14, x15>>

(* The fairness of each part, as its module justifies it.                   *)
LocalSpec ==
    /\ LocalInit /\ [][LocalNext]_all
    /\ \A p \in Starts :
            /\ WF_vars(which = "lock" /\ Acquire(p))
            /\ WF_vars(which = "lock" /\ (RemoveStatus(p) \/ RemoveLock(p)))
            /\ WF_vars(which = "lock" /\ \E force \in BOOLEAN : Begin(p, force))
    /\ <>[][\A p \in Starts : ~Crash(p)]_vars
    /\ WF_part(which = "session" /\ Duck!Driver)
    /\ \A s \in {"out", "err"} : WF_part(which = "session" /\ Duck!Pump(s))
    /\ WF_part(which = "session" /\ x2 = "doomed" /\ Duck!Die)
    /\ WF_part(which = "session" /\ x1 /\ Duck!Child)
    /\ \A r \in Requests :
            WF_part(which = "chat" /\ Chat!AskStep(r) /\ UNCHANGED <<x13, x14, x15>>)

-----------------------------------------------------------------------------
(* The DuckDB session: everything a statement printed is in its own answer, *)
(* and nothing else, whatever order the two pipes delivered in; a session   *)
(* that was lost never answers again; and a LOAD that failed fails          *)
(* Session::open.                                                           *)
SessionHears == which = "session" => Duck!SessionHears

(* The desktop assistant: a model server that runs is where Cancel and the  *)
(* end of the application find it; a request that a cancel found under way  *)
(* delivers no pipeline any more; busy is set exactly while a request is    *)
(* under way; and the server does not outlive the application.              *)
AssistantHolds == which = "chat" => Chat!AssistantHolds

(* Nobody waits for ever: on Windows the workspace is held again and again, *)
(* whoever crashed with the lock; every call of execute returns, and so     *)
(* does closing, of a session whose child is prompt or that was lost; and a *)
(* request to the assistant ends unless the application does first.         *)
LocalEnds ==
    /\ NeverWedged
    /\ [](which = "session" /\ Duck!Waits => <>(which = "session" /\ ~Duck!Waits))
    /\ [](which = "session" /\ Duck!MustEnd => <>(which = "session" /\ Duck!Ended))
    /\ \A r \in Requests :
        (which = "chat" /\ Chat!Begun(r)) ~> (which = "chat" /\ Chat!Settled(r))
=============================================================================
