-------------------------- MODULE IncrementalLoad --------------------------
(***************************************************************************)
(* What incremental loading promises to the person who schedules it, with  *)
(* no files, processes or steps: rows arrive, rows are loaded, and what is *)
(* remembered never claims a row that has not been loaded.  It may claim   *)
(* less than it did (somebody forgot it, or the loser of a race saved      *)
(* last): then rows are loaded again.  It may become unreadable, and then  *)
(* no run starts from it.                                                  *)
(***************************************************************************)
EXTENDS Integers

CONSTANT Nodes

VARIABLES
    arrived,     \* arrived[n]: rows that exist
    loaded,      \* loaded[n]: rows that reached the output
    remembered   \* [readable, marks]: what the next run starts from

ivars == <<arrived, loaded, remembered>>

LInit ==
    /\ arrived = [n \in Nodes |-> 0]
    /\ loaded = [n \in Nodes |-> {}]
    /\ remembered = [readable |-> TRUE, marks |-> [n \in Nodes |-> 0]]

RowArrives(n) ==
    /\ arrived' = [arrived EXCEPT ![n] = @ + 1]
    /\ UNCHANGED <<loaded, remembered>>

(* Rows that exist are loaded, never unloaded.                             *)
LoadRows ==
    /\ loaded' \in [Nodes -> SUBSET Nat]
    /\ \A n \in Nodes : /\ loaded[n] \subseteq loaded'[n]
                        /\ \A r \in loaded'[n] \ loaded[n] : r \in 1 .. arrived[n]
    /\ UNCHANGED <<arrived, remembered>>

(* What is remembered changes to marks that only cover loaded rows, or to  *)
(* something nobody can read.                                              *)
RememberMarks ==
    /\ \/ ~remembered'.readable
       \/ \A n \in Nodes : (1 .. remembered'.marks[n]) \subseteq loaded[n]
    /\ UNCHANGED <<arrived, loaded>>

LNext ==
    \/ \E n \in Nodes : RowArrives(n)
    \/ LoadRows
    \/ RememberMarks

LSpec == LInit /\ [][LNext]_ivars
=============================================================================
