------------------------------ MODULE Artifact ------------------------------
(* `etl build` and the file it makes: build_artifact and gather_embedded of  *)
(* the command line, write_built and read_from of crates/runner. A copy of   *)
(* the runner is followed by the embedded files, a header that says where    *)
(* each lies, and a trailer of two lengths and a magic number. Builds may    *)
(* run at one time, into one file or two, may die in the middle, and what    *)
(* they made is carried elsewhere, whole or cut short, and started there.    *)
EXTENDS Integers, Sequences, FiniteSets, SequencesExt

CONSTANTS Builds      \* runs of `etl build`

VARIABLES
    engines,    \* the version of the DuckDB that is vendored for each platform
    vendored,   \* what is vendored: a set of <<"runner", "engine" or "extension", platform>>
    setup,      \* what each build was asked for
    at,         \* where each build is
    payload,    \* what each build has gathered
    files,      \* the two destinations
    writers,    \* builds that have written to each destination and not finished
    crossed     \* destinations that two builds wrote to at one time

artifactVars == <<engines, vendored, setup, at, payload, files, writers, crossed>>

Platforms == {"here", "there"}
Destinations == {"one", "two"}

(* A file is a sequence of units; a length and the magic number are one.    *)
Unit(is, what, n) == [is |-> is, what |-> what, n |-> n]
RunnerOf(p) == <<Unit("runner", p, 0)>>
EngineOf(p, v) == <<Unit("engine", p, v), Unit("engine", p, v)>>
ExtensionOf(p) == <<Unit("extension", p, 0)>>
Trailer == 3
Huge == 1000    \* the magic number read as a length

NoPayload == [blobs |-> <<>>, entries |-> <<>>, digest |-> <<>>, platform |-> ""]

Setups ==
    [target : Platforms, runner : {"found", "baked"}, embed : BOOLEAN, extension : BOOLEAN,
     to : Destinations]

Init ==
    /\ engines = [p \in Platforms |-> 1]
    /\ vendored \in {({"runner", "engine", "extension"} \X Platforms) \ {<<missing, "there">>} :
                        missing \in {"nothing", "runner", "engine", "extension"}}
    /\ setup \in [Builds -> {s \in Setups : /\ s.extension => s.embed
                                            /\ s.runner = "baked" => ~s.embed}]
    /\ \E b \in Builds : setup[b].to = "one"
    /\ at = [b \in Builds |-> "compile"]
    /\ payload = [b \in Builds |-> NoPayload]
    /\ files = [d \in Destinations |-> <<>>]
    /\ writers = [d \in Destinations |-> {}] /\ crossed = {}

Vendored == <<engines, vendored>>
World == <<files, writers, crossed>>
Goto(b, where) == at' = [at EXCEPT ![b] = where]

(* The fetch script puts another version in place.                          *)
Fetch(p) ==
    /\ engines[p] = 1 /\ <<"engine", p>> \in vendored
    /\ engines' = [engines EXCEPT ![p] = 2]
    /\ UNCHANGED <<vendored, setup, at, payload, World>>

-----------------------------------------------------------------------------
(* build_artifact                                                           *)

(* A document that does not compile, a stage that needs this machine, or a  *)
(* secret that was not allowed: refused before anything is read or written. *)
Compile(b) ==
    /\ at[b] = "compile"
    /\ Goto(b, "refused") \/ Goto(b, "runner")
    /\ UNCHANGED <<Vendored, setup, payload, World>>

(* locate_runner, or the one that --runner names.                           *)
LocateRunner(b) ==
    /\ at[b] = "runner"
    /\ IF setup[b].runner = "found" /\ <<"runner", setup[b].target>> \notin vendored
       THEN Goto(b, "refused")
       ELSE Goto(b, IF setup[b].embed THEN "gather" ELSE "check")
    /\ UNCHANGED <<Vendored, setup, payload, World>>

\* Mutant: another platform's artifact takes this machine's engine where it has none.
EngineAny(p) == IF <<"engine", p>> \in vendored THEN EngineOf(p, engines[p]) ELSE EngineOf("here", engines["here"])

(* The engine of the target, or nothing: nothing here stands in for it.     *)
EngineFor(p) == IF <<"engine", p>> \in vendored THEN EngineOf(p, engines[p]) ELSE <<>>

\* Mutant: an embedded file is said to begin where it ends.
EntryBehind(blobs, bytes) == [offset |-> Len(blobs) + Len(bytes), length |-> Len(bytes)]
EntryAt(blobs, bytes) == [offset |-> Len(blobs), length |-> Len(bytes)]

Embed(b, bytes) ==
    payload' = [payload EXCEPT ![b].blobs = @ \o bytes,
                               ![b].entries = Append(@, EntryAt(payload[b].blobs, bytes)),
                               ![b].platform = setup[b].target]

(* gather_embedded: the engine first ...                                    *)
GatherEngine(b) ==
    /\ at[b] = "gather"
    /\ IF EngineFor(setup[b].target) = <<>> THEN Goto(b, "refused") /\ UNCHANGED payload
       ELSE /\ Embed(b, EngineFor(setup[b].target))
            /\ Goto(b, IF setup[b].extension THEN "extend" ELSE "check")
    /\ UNCHANGED <<Vendored, setup, World>>

(* ... and then the extensions the plan needs, of the same platform.        *)
GatherExtension(b) ==
    /\ at[b] = "extend"
    /\ IF <<"extension", setup[b].target>> \in vendored
       THEN Embed(b, ExtensionOf(setup[b].target)) /\ Goto(b, "check")
       ELSE Goto(b, "refused") /\ UNCHANGED payload
    /\ UNCHANGED <<Vendored, setup, World>>

-----------------------------------------------------------------------------
(* write_built                                                              *)

\* Mutant: the digest is left at zero.
NoDigest(blobs) == <<>>
(* fnv1a, taken to tell different bytes apart.                              *)
Digest(blobs) == blobs

(* A runner that has a payload is refused; the digest is set here.          *)
CheckRunner(b) ==
    /\ at[b] = "check"
    /\ IF setup[b].runner = "baked" THEN Goto(b, "refused") /\ UNCHANGED payload
       ELSE Goto(b, "copy") /\ payload' = [payload EXCEPT ![b].digest = Digest(payload[b].blobs)]
    /\ UNCHANGED <<Vendored, setup, World>>

(* std::fs::copy over whatever is there: a file nobody writes to any more   *)
(* starts anew.                                                             *)
Copy(b) ==
    LET d == setup[b].to IN
    /\ at[b] = "copy"
    /\ files' = [files EXCEPT ![d] = RunnerOf(setup[b].target)]
    /\ writers' = [writers EXCEPT ![d] = @ \cup {b}]
    /\ crossed' = IF writers[d] # {} THEN crossed \cup {d} ELSE crossed \ {d}
    /\ Goto(b, "blobs")
    /\ UNCHANGED <<Vendored, setup, payload>>

(* write_all, piece after piece, at the end of the file.                    *)
Pieces == <<"blobs", "header", "hlen", "blen", "magic", "done">>
NextPiece(p) == Pieces[(CHOOSE i \in DOMAIN Pieces : Pieces[i] = p) + 1]

PieceOf(b) ==
    IF at[b] = "blobs" THEN payload[b].blobs
    ELSE IF at[b] = "header" THEN <<Unit("header", b, 0)>>
    ELSE IF at[b] = "hlen" THEN <<Unit("number", "", 1)>>
    ELSE IF at[b] = "blen" THEN <<Unit("number", "", Len(payload[b].blobs))>>
    ELSE <<Unit("magic", "", Huge)>>

WritePiece(b) ==
    LET d == setup[b].to IN
    /\ at[b] \in {"blobs", "header", "hlen", "blen", "magic"}
    /\ files' = [files EXCEPT ![d] = @ \o PieceOf(b)]
    /\ writers' = [writers EXCEPT ![d] = IF at[b] = "magic" THEN @ \ {b} ELSE @]
    /\ Goto(b, NextPiece(at[b]))
    /\ UNCHANGED <<Vendored, setup, payload, crossed>>

(* The disk is full, or the process dies: what was written stays.           *)
BuildDies(b) ==
    /\ at[b] \in {"copy", "blobs", "header", "hlen", "blen", "magic"}
    /\ Goto(b, "dead")
    /\ writers' = [writers EXCEPT ![setup[b].to] = @ \ {b}]
    /\ UNCHANGED <<Vendored, setup, payload, files, crossed>>

-----------------------------------------------------------------------------
(* read_from: what a file is, read from its end                             *)

Back(f, n) == f[Len(f) - n]
Claimed(f) == Trailer + Back(f, 2).n + Back(f, 1).n

StartOf(f) == Len(f) - Claimed(f)

Reads(f) ==
    IF Len(f) < Trailer \/ Last(f).is # "magic" THEN "plain"
    ELSE IF {Back(f, 1).is, Back(f, 2).is} # {"number"} \/ Claimed(f) > Len(f) THEN "truncated"
    ELSE IF Back(f, 3).is # "header" THEN "corrupt"
    ELSE "baked"

HeaderOf(f) == payload[Back(f, 3).what]

(* Blobs::read: the bytes of one embedded file, or nothing past the region. *)
ReadFile(f, entry) ==
    IF entry.offset + entry.length > Back(f, 1).n THEN <<>>
    ELSE SubSeq(f, StartOf(f) + entry.offset + 1, StartOf(f) + entry.offset + entry.length)

(* dispatch and describe: what starting the file does.                      *)
Starts(f) == CASE Reads(f) = "baked" -> "run"
               [] Reads(f) = "plain" -> "no pipeline is baked into this runner"
               [] OTHER -> "error"

Next ==
    \/ \E p \in Platforms : Fetch(p)
    \/ \E b \in Builds :
        \/ Compile(b) \/ LocateRunner(b) \/ GatherEngine(b) \/ GatherExtension(b)
        \/ CheckRunner(b) \/ Copy(b) \/ WritePiece(b) \/ BuildDies(b)

-----------------------------------------------------------------------------
TypeOK ==
    /\ at \in [Builds -> {"compile", "runner", "gather", "extend", "check", "copy", "refused", "dead"}
                         \cup ToSet(Pieces)]
    /\ \A d \in Destinations : writers[d] \subseteq Builds
    /\ crossed \subseteq Destinations

Runs(f) == Starts(f) = "run"
Whole(d) == d \notin crossed /\ Runs(files[d])

(* What arrives elsewhere: the file, whole or cut short.                    *)
Copies == UNION {{SubSeq(files[d], 1, n) : n \in 0 .. Len(files[d])} : d \in Destinations \ crossed}

(* However a build died, was built over or was cut short on its way, a file *)
(* that runs runs one build's pipeline with the files of that build, each   *)
(* read back as it was gathered. Excepted are two builds that write to one  *)
(* file at one time, which nothing prevents.                                *)
ReadsBack ==
    \A f \in {c \in Copies : Runs(c)} :
        LET h == HeaderOf(f) IN
        \A i \in DOMAIN h.entries :
            ReadFile(f, h.entries[i]) =
                IF i = 1 THEN EngineOf(h.platform, h.blobs[1].n) ELSE ExtensionOf(h.platform)

(* An artifact that embeds an engine is of one platform: its runner, its    *)
(* engine and its extensions.                                               *)
OnePlatform ==
    \A d \in Destinations : Whole(d) /\ HeaderOf(files[d]).entries # <<>> =>
        \A i \in 1 .. Len(files[d]) - Trailer - 1 : files[d][i].what = HeaderOf(files[d]).platform

(* Two artifacts share a cache directory, which is named for the header,    *)
(* only if they carry the same files: a new engine of the same size is not  *)
(* taken for the old one.                                                   *)
Key(f) == [HeaderOf(f) EXCEPT !.blobs = <<>>]
Carried(f) == SubSeq(f, StartOf(f) + 1, Len(f) - Trailer - 1)
KeyMeansEngine ==
    \A d, e \in Destinations :
        Whole(d) /\ Whole(e) /\ Key(files[d]) = Key(files[e]) => Carried(files[d]) = Carried(files[e])
=============================================================================
