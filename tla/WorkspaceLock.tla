--------------------------- MODULE WorkspaceLock ---------------------------
(***************************************************************************)
(* One scheduler per workspace: crates/scheduler/src/lock.rs, as           *)
(* `etl schedule start [--force]` uses it.  Each process goes through      *)
(* acquire and, at the end, Drop, one action per system call; it can be    *)
(* killed at any of them.  On Windows the lock is a file held open with no *)
(* sharing; elsewhere it is a file that exists.                            *)
(***************************************************************************)
EXTENDS Integers, FiniteSets

CONSTANTS
    Starts,     \* processes: invocations of `etl schedule start`
    Nobody,     \* not a process
    Sites       \* where the lock is used: the system, and when people force it

ASSUME NobodyAssumption == Nobody \notin Starts
ASSUME SitesAssumption ==
    Sites \subseteq [system : {"windows", "other"}, force : {"never", "alone", "any"}]

VARIABLES
    site,    \* the site, chosen at the start
    pc,      \* where each process is in acquire, its run, or Drop
    exists,  \* .etl/scheduler.lock is in its directory
    open,    \* the process that has the lock file open with no sharing
    status   \* the process that .etl/scheduler.status names

vars == <<site, pc, exists, open, status>>

Windows == site.system = "windows"
ForcePolicy == site.force  \* see MayBegin

(* forcing: about to remove the file; opening: about to open it; opened:   *)
(* it is ours, the status is not written yet; holding: it is; anonymous:   *)
(* the status could not be written; closed, unlisted: the steps of Drop.   *)
Points == {"out", "killed", "forcing", "opening", "opened", "holding",
           "anonymous", "closed", "unlisted"}

(* The process is not running.                                             *)
Gone(p) == pc[p] \in {"out", "killed"}

(* The process believes that it has the workspace to itself.               *)
Holds(p) == pc[p] \in {"opened", "holding", "anonymous"}

TypeOK ==
    /\ site \in Sites
    /\ pc \in [Starts -> Points]
    /\ exists \in BOOLEAN
    /\ open \in Starts \cup {Nobody}
    /\ status \in Starts \cup {Nobody}

Init ==
    /\ site \in Sites
    /\ pc = [p \in Starts |-> "out"]
    /\ exists = FALSE
    /\ open = Nobody
    /\ status = Nobody

Go(p, to) == pc' = [pc EXCEPT ![p] = to] /\ UNCHANGED site

(* Who starts a scheduler, and when with --force.  "alone" is the advice   *)
(* that a refused start prints: only once the holder is gone, and with     *)
(* nobody else starting one until the left-over file has been removed.     *)
MayBegin(p, force) ==
    /\ ForcePolicy = "never" => ~force
    /\ ForcePolicy = "alone" =>
            /\ force => \A q \in Starts \ {p} : Gone(q)
            /\ \A q \in Starts : pc[q] # "forcing"

\* Mutant: the status is written before the lock is taken.
BeginListed(p, force) ==
    /\ Gone(p)
    /\ MayBegin(p, force)
    /\ Go(p, IF force THEN "forcing" ELSE "opening")
    /\ status' = p
    /\ UNCHANGED <<exists, open>>

Begin(p, force) ==
    /\ Gone(p)
    /\ MayBegin(p, force)
    /\ Go(p, IF force THEN "forcing" ELSE "opening")
    /\ UNCHANGED <<exists, open, status>>

(* acquire with force: remove whatever lock file there is.  A file held    *)
(* with no sharing refuses to be deleted; the error is ignored.            *)
RemoveLeftover(p) ==
    /\ pc[p] = "forcing"
    /\ exists' = (exists /\ Windows /\ open # Nobody)
    /\ Go(p, "opening")
    /\ UNCHANGED <<open, status>>

\* Mutant: an existing file is opened rather than refused.
TakenNever == FALSE

(* open_exclusive: a share mode of zero on Windows, create_new elsewhere.  *)
Taken == IF Windows THEN open # Nobody ELSE exists

OpenExclusive(p) ==
    /\ pc[p] = "opening"
    /\ ~Taken
    /\ exists' = TRUE
    /\ open' = IF Windows THEN p ELSE open
    /\ Go(p, "opened")
    /\ UNCHANGED status

(* LockError::Held: the caller prints who has it, and gives up.            *)
\* Mutant: a refused start drops a lock it never had.
RefusedCleansUp(p) ==
    /\ pc[p] = "opening"
    /\ Taken
    /\ exists' = FALSE
    /\ Go(p, "out")
    /\ UNCHANGED <<open, status>>

Refused(p) ==
    /\ pc[p] = "opening"
    /\ Taken
    /\ Go(p, "out")
    /\ UNCHANGED <<exists, open, status>>

(* The status file, best effort.                                           *)
WriteStatus(p, written) ==
    /\ pc[p] = "opened"
    /\ status' = IF written THEN p ELSE status
    /\ Go(p, IF written THEN "holding" ELSE "anonymous")
    /\ UNCHANGED <<exists, open>>

(* Drop: close the handle, remove the status file, remove the lock file.   *)
\* Mutant: the handle outlives the lock, as a leaked File would.
CloseNothing(p) ==
    /\ pc[p] \in {"holding", "anonymous"}
    /\ Go(p, "closed")
    /\ UNCHANGED <<exists, open, status>>

CloseHandle(p) ==
    /\ pc[p] \in {"holding", "anonymous"}
    /\ open' = IF open = p THEN Nobody ELSE open
    /\ Go(p, "closed")
    /\ UNCHANGED <<exists, status>>

RemoveStatus(p) ==
    /\ pc[p] = "closed"
    /\ status' = Nobody
    /\ Go(p, "unlisted")
    /\ UNCHANGED <<exists, open>>

RemoveLock(p) ==
    /\ pc[p] = "unlisted"
    /\ exists' = (exists /\ Windows /\ open # Nobody)
    /\ Go(p, "out")
    /\ UNCHANGED <<open, status>>

(* Killed at any point: the operating system closes the handle and nobody  *)
(* removes a file.                                                         *)
Crash(p) ==
    /\ ~Gone(p)
    /\ open' = IF open = p THEN Nobody ELSE open
    /\ Go(p, "killed")
    /\ UNCHANGED <<exists, status>>

Acquire(p) ==
    \/ RemoveLeftover(p)
    \/ OpenExclusive(p)
    \/ Refused(p)
    \/ \E written \in BOOLEAN : WriteStatus(p, written)

Drop(p) ==
    \/ CloseHandle(p)
    \/ RemoveStatus(p)
    \/ RemoveLock(p)

Next ==
    \E p \in Starts :
        \/ \E force \in BOOLEAN : Begin(p, force)
        \/ Acquire(p)
        \/ Drop(p)
        \/ Crash(p)

Spec == Init /\ [][Next]_vars

(* Once started, a process gets through acquire, and once it stops it gets *)
(* through Drop: neither waits for anybody.  A holder may hold for ever.   *)
(* People keep starting schedulers, and do not kill every one of them.     *)
FairSpec ==
    /\ Spec
    /\ \A p \in Starts :
            /\ WF_vars(Acquire(p))
            /\ WF_vars(RemoveStatus(p) \/ RemoveLock(p))
            /\ WF_vars(\E force \in BOOLEAN : Begin(p, force))
    /\ <>[][\A p \in Starts : ~Crash(p)]_vars

-----------------------------------------------------------------------------
(* At most one process at a time believes it has the workspace: the        *)
(* single-writer assumption of crates/state rests on it.                   *)
MutualExclusion ==
    \A p, q \in Starts : Holds(p) /\ Holds(q) => p = q

(* A start that is refused is told of the holder, or of nobody, and never  *)
(* of a process that has gone, once the holder has written its status.     *)
NobodyElseIsNamed ==
    \A p \in Starts : pc[p] = "holding" => status \in {p, Nobody}

(* The lock file of a holder stays where it is until that holder removes   *)
(* it: no other process takes it away, by force, by a refused start or in  *)
(* a Drop that is still going on.                                          *)
LockFileStays ==
    [][\A p \in Starts : Holds(p) /\ Holds(p)' => exists']_vars

(* On Windows a crash does not wedge the workspace: somebody gets to hold  *)
(* it again and again, without --force.  Elsewhere it takes --force.       *)
NeverWedged == Windows => []<>(\E p \in Starts : Holds(p))
=============================================================================
