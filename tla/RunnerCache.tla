----------------------------- MODULE RunnerCache -----------------------------
(* How a built artifact unpacks its engine (crates/runner/src/extract.rs):  *)
(* into a private directory named for the process, which a marker completes *)
(* and a rename puts into place. Processes of the same build share the      *)
(* place and take no lock. A directory in that place without a marker is    *)
(* cleared before the rename.                                               *)
EXTENDS Integers, FiniteSets

CONSTANTS Starts      \* processes that start the artifact

VARIABLES
    root,       \* the place: "none", "unmarked", or the process whose files it holds
    stale,      \* the place began with an unmarked directory
    private,    \* each process's own directory: "none", "part" or "whole"
    at,         \* where each process is
    told        \* what extract returned

cacheVars == <<root, stale, private, at, told>>

Marked == root \notin {"none", "unmarked"}

Init ==
    /\ stale \in BOOLEAN
    /\ root = IF stale THEN "unmarked" ELSE "none"
    /\ private \in [Starts -> {"none", "part"}]   \* an earlier process of that ID died
    /\ at = [p \in Starts |-> "start"]
    /\ told = [p \in Starts |-> "nothing"]

Go(p, where) == at' = [at EXCEPT ![p] = where]
Uses(p, fresh) == Go(p, "using") /\ told' = [told EXCEPT ![p] = fresh]

(* extract_into: a complete directory is used as it is.                     *)
Look(p) ==
    /\ at[p] = "start"
    /\ IF Marked THEN Uses(p, "found") ELSE Go(p, "unpack") /\ UNCHANGED told
    /\ UNCHANGED <<root, stale, private>>

(* unpack_into_place: what is left of the name is removed, then the files   *)
(* and, last, the marker.                                                   *)
Unpack(p) ==
    /\ at[p] = "unpack"
    /\ private' = [private EXCEPT ![p] = "part"]
    /\ Go(p, "mark")
    /\ UNCHANGED <<root, stale, told>>

\* Mutant: the directory is renamed into place before it is complete.
MarkNothing(p) == UNCHANGED private
MarkWhole(p) == private' = [private EXCEPT ![p] = "whole"]
Mark(p) ==
    /\ at[p] = "mark"
    /\ MarkWhole(p)
    /\ Go(p, "check")
    /\ UNCHANGED <<root, stale, told>>

(* The disk is full, or a file cannot be written: the part stays there.     *)
UnpackFails(p) ==
    /\ at[p] = "mark"
    /\ Go(p, "ended") /\ told' = [told EXCEPT ![p] = "failed"]
    /\ UNCHANGED <<root, stale, private>>

(* Is there a directory without a marker?                                   *)
CheckPlace(p) ==
    /\ at[p] = "check"
    /\ Go(p, IF root = "unmarked" THEN "clear" ELSE "rename")
    /\ UNCHANGED <<root, stale, private, told>>

(* remove_dir_all, of whatever is there by now.                             *)
Clear(p) ==
    /\ at[p] = "clear"
    /\ root' = "none"
    /\ Go(p, "rename")
    /\ UNCHANGED <<stale, private, told>>

(* The rename lands where nothing is; what is complete is used instead.     *)
\* Mutant: the rename replaces what is there.
LandsOver == TRUE
Lands == root = "none"

\* Mutant: a process that lost the race leaves its own directory behind.
Dropped(p) == UNCHANGED private
Discard(p) == private' = [private EXCEPT ![p] = "none"]

Publish(p) ==
    /\ at[p] = "rename" /\ Lands
    /\ root' = IF private[p] = "whole" THEN p ELSE "unmarked"
    /\ private' = [private EXCEPT ![p] = "none"]
    /\ Uses(p, "fresh")
    /\ UNCHANGED stale

Lose(p) ==
    /\ at[p] = "rename" /\ ~Lands
    /\ Discard(p)
    /\ IF Marked THEN Uses(p, "fresh")
       ELSE Go(p, "ended") /\ told' = [told EXCEPT ![p] = "failed"]
    /\ UNCHANGED <<root, stale>>

(* The pipeline has run.                                                    *)
Finish(p) ==
    /\ at[p] = "using"
    /\ Go(p, "ended")
    /\ UNCHANGED <<root, stale, private, told>>

(* The process dies.                                                        *)
Die(p) ==
    /\ at[p] \notin {"start", "ended", "dead"}
    /\ Go(p, "dead")
    /\ UNCHANGED <<root, stale, private, told>>

Next ==
    \E p \in Starts :
        \/ Look(p) \/ Unpack(p) \/ Mark(p) \/ UnpackFails(p)
        \/ CheckPlace(p) \/ Clear(p) \/ Publish(p) \/ Lose(p) \/ Finish(p) \/ Die(p)

Spec == Init /\ [][Next]_cacheVars

-----------------------------------------------------------------------------
TypeOK ==
    /\ root \in {"none", "unmarked"} \cup Starts
    /\ private \in [Starts -> {"none", "part", "whole"}]
    /\ told \in [Starts -> {"nothing", "found", "fresh", "failed"}]

(* A process that runs the engine runs a complete one, that stays where it  *)
(* is as long as it is used, whatever other processes do and wherever they  *)
(* die. Excepted is a place that held an unmarked directory.                *)
EngineStays == ~stale => \A p \in Starts : at[p] = "using" => Marked

(* What is in place is never replaced under the processes that use it.      *)
StaysInPlace == ~stale /\ Marked => root' = root
PublishedOnce == [][StaysInPlace]_cacheVars

(* A process that ends on its own and in order leaves no directory behind.  *)
CleansUp ==
    \A p \in Starts : at[p] = "using" \/ (at[p] = "ended" /\ told[p] = "fresh") =>
        private[p] # "whole"
=============================================================================
