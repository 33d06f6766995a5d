----------------------------- MODULE RunHistory -----------------------------
(* The history of a pipeline's runs (crates/state/src/runs.rs): one line of *)
(* JSON per run, appended by every command that runs the pipeline, read by  *)
(* `etl runs`, the console and the MCP server, and cut by `etl runs prune`, *)
(* which reads the file, writes what is kept to a temporary file and        *)
(* renames it into place. Nothing locks the file.                           *)
EXTENDS Integers, FiniteSets, FiniteSetsExt

CONSTANTS
    MaxRuns,    \* runs ever recorded
    Keep,       \* --keep
    Pruners     \* commands that prune

VARIABLES
    file,      \* the lines by their places, in order: the runs written on each
    torn,      \* the last line has no end: its writer died in write_all
    temp,      \* the temporary file, which every pruner names alike
    runs,      \* runs that were recorded, or died trying
    whole,     \* runs whose append returned
    prune,     \* each pruner: where it is, what it read
    glued,     \* runs written behind a torn line
    dropped,   \* runs a prune left out because they were old
    raced,     \* runs appended between a prune's read and its rename
    halved,    \* a half-written temporary file was renamed into place
    crossed    \* two prunes were under way at one time

ghosts == <<glued, dropped, raced, halved, crossed>>
histVars == <<file, torn, temp, runs, whole, prune, ghosts>>

(* What a prune keeps, and for the properties what it drops as old and what *)
(* was appended since it read.                                              *)
NoLines == [i \in {} |-> {}]
NoCut == [kept |-> NoLines, old |-> {}, since |-> {}, half |-> FALSE]
NoTemp == NoCut
Idle == [at |-> "idle", cut |-> NoCut]

Init ==
    /\ file = NoLines /\ torn = FALSE /\ temp = NoTemp
    /\ runs = 0 /\ whole = {} /\ glued = {} /\ dropped = {} /\ raced = {}
    /\ halved = FALSE /\ crossed = FALSE
    /\ prune = [p \in Pruners |-> Idle]

-----------------------------------------------------------------------------
(* read: a line that is not one whole record is passed over.                *)
Place == IF DOMAIN file = {} THEN 0 ELSE Max(DOMAIN file)
Parses(i) == /\ \E r \in file[i] : file[i] = {r}
             /\ ~(torn /\ i = Place)
Readable == {i \in DOMAIN file : Parses(i)}
RunsOn(lines) == UNION {lines[i] : i \in DOMAIN lines}
Lines(places) == [i \in places |-> file[i]]
Recorded == RunsOn(Lines(Readable))

\* Mutant: the file is opened without append, and begins anew.
WrittenAnew(r) == [i \in {1} |-> {r}]

(* append: one write at the end of the file, behind whatever is there.      *)
Written(r) ==
    IF torn THEN [file EXCEPT ![Place] = @ \cup {r}]
    ELSE [i \in DOMAIN file \cup {Place + 1} |-> IF i \in DOMAIN file THEN file[i] ELSE {r}]

Since(cut, r) == [cut EXCEPT !.since = @ \cup {r}]
NowRaced(r) ==
    /\ prune' = [p \in Pruners |-> IF prune[p].at = "write"
                                   THEN [prune[p] EXCEPT !.cut = Since(@, r)] ELSE prune[p]]
    /\ temp' = IF temp = NoTemp THEN temp ELSE Since(temp, r)

Appends ==
    /\ runs < MaxRuns
    /\ runs' = runs + 1
    /\ file' = Written(runs + 1) /\ torn' = FALSE
    /\ whole' = whole \cup {runs + 1}
    /\ glued' = IF torn THEN glued \cup {runs + 1} ELSE glued
    /\ NowRaced(runs + 1)
    /\ UNCHANGED <<dropped, raced, halved, crossed>>

(* The process dies part-way through the line.                              *)
AppendTorn ==
    /\ runs < MaxRuns
    /\ runs' = runs + 1
    /\ file' = Written(runs + 1) /\ torn' = TRUE
    /\ NowRaced(runs + 1)
    /\ UNCHANGED <<whole, ghosts>>

-----------------------------------------------------------------------------
Behind(i) == {j \in Readable : j > i}
LastOnes == {i \in Readable : Cardinality(Behind(i)) < Keep}

\* Mutant: what is kept is written newest first, as it is listed.
NewestFirst == [i \in LastOnes |->
                  file[CHOOSE j \in LastOnes : Cardinality({k \in LastOnes : k < i}) = Cardinality(LastOnes \cap Behind(j))]]

\* Mutant: the oldest runs are kept.
KeepOldest == Lines({i \in Readable : Cardinality(Readable \ Behind(i)) <= Keep})
Newest == Lines(LastOnes)

(* prune: nothing to do, or what is kept is decided on what is read now.    *)
PruneRead(p) ==
    /\ prune[p].at = "idle" /\ Cardinality(Readable) > Keep
    /\ prune' = [prune EXCEPT ![p] =
         [at |-> "write",
          cut |-> [kept |-> Newest, old |-> Recorded \ RunsOn(Newest), since |-> {},
                   half |-> FALSE]]]
    /\ crossed' = (crossed \/ \E q \in Pruners : prune[q].at # "idle")
    /\ UNCHANGED <<file, torn, temp, runs, whole, glued, dropped, raced, halved>>

(* std::fs::write of the temporary file.                                    *)
PruneWrite(p) ==
    /\ prune[p].at = "write"
    /\ temp' = prune[p].cut
    /\ prune' = [prune EXCEPT ![p] = [at |-> "rename", cut |-> NoCut]]
    /\ UNCHANGED <<file, torn, runs, whole, ghosts>>

\* Mutant: an error of the write does not end the prune.
TornGoesOn(p) == [at |-> "rename", cut |-> NoCut]
TornEnds(p) == Idle

(* The process dies, or its disk fills, part-way: the temporary file stays. *)
PruneTorn(p) ==
    /\ prune[p].at = "write"
    /\ temp' = [prune[p].cut EXCEPT !.kept = NoLines, !.half = TRUE]
    /\ prune' = [prune EXCEPT ![p] = TornEnds(p)]
    /\ UNCHANGED <<file, torn, runs, whole, ghosts>>

(* The rename: another pruner's may have taken the temporary file away,     *)
(* which is an error, or have written its own lines there.                  *)
PruneRename(p) ==
    /\ prune[p].at = "rename"
    /\ IF temp = NoTemp THEN UNCHANGED <<file, torn, dropped, raced, halved>>
       ELSE /\ file' = temp.kept /\ torn' = FALSE
            /\ dropped' = dropped \cup temp.old
            /\ raced' = raced \cup temp.since
            /\ halved' = (halved \/ temp.half)
    /\ temp' = NoTemp
    /\ prune' = [prune EXCEPT ![p] = Idle]
    /\ UNCHANGED <<runs, whole, glued, crossed>>

(* The rename fails and the temporary file is removed, or the process dies. *)
PruneFails(p) ==
    /\ prune[p].at \in {"write", "rename"}
    /\ temp' \in IF prune[p].at = "rename" THEN {temp, NoTemp} ELSE {temp}
    /\ prune' = [prune EXCEPT ![p] = Idle]
    /\ UNCHANGED <<file, torn, runs, whole, ghosts>>

Next ==
    \/ Appends \/ AppendTorn
    \/ \E p \in Pruners : 
           PruneRead(p) \/ PruneWrite(p) \/ PruneTorn(p) \/ PruneRename(p) \/ PruneFails(p)

-----------------------------------------------------------------------------
TypeOK ==
    /\ runs \in 0 .. MaxRuns /\ whole \subseteq 1 .. runs
    /\ DOMAIN file \subseteq 1 .. runs /\ RunsOn(file) \subseteq 1 .. runs
    /\ torn \in BOOLEAN

(* A recorded run that cannot be read any more was dropped by a prune as an *)
(* old one, was appended while a prune ran, or stands behind a torn line:   *)
(* nothing else loses history.                                              *)
HistoryAccounted == halved \/ whole \ Recorded \subseteq dropped \cup raced \cup glued

(* "a crash partway must not leave a half-file" (prune): one that dies does *)
(* not, and it takes a second prune, which shares its temporary file's      *)
(* name, for a half-written file to become the history.                     *)
HalfFileTakesTwo == halved => crossed

(* What a prune drops is older than everything it keeps, so the newest run  *)
(* stays, whichever pruner's file is renamed last, if any are to be kept.   *)
NewestStays ==
    Keep > 0 /\ ~halved /\ whole \ (glued \cup raced) # {} =>
        \E r \in Recorded : \A s \in whole \ (glued \cup raced) : s <= r

(* The lines are in the order of the runs, so "the most recent" is a tail.  *)
OldestFirst ==
    \A i, j \in Readable : i < j => \A r \in file[i], s \in file[j] : r < s
=============================================================================
