------------------------------ MODULE MCTools ------------------------------
(* Small instances of what the command line's tools do on their own: the     *)
(* scheduler's loop, and the cron expressions it asks, the run history, the  *)
(* secrets, parameters, and an artifact's build and unpacking. A behaviour   *)
(* is one of one part; `which` says of which. The others' variables rest.    *)
EXTENDS Scheduler, Sequences

CONSTANTS
    Commands, Names, MaxEdits,   \* of SecretStore
    Processes,                   \* Starts of RunnerCache
    MaxRuns, Keep, Pruners,      \* of RunHistory
    Builders,                    \* Builds of Artifact
    Expressions, Instants, SearchYears,  \* of Cron
    Words, Texts, Resolvers, Specs  \* of Params

(* The processes are told apart from what else a field may say.             *)
ASSUME ProcessAssumption ==
    /\ Commands \cap {"none", "empty", "other", "old", "-", "absent", "error", "died", "done"} = {}
    /\ Processes \cap {"none", "unmarked"} = {}
    /\ MaxEdits \in Nat

(* --keep is a number of which nothing more is asked: 0 empties a history.  *)
ASSUME HistoryAssumption == MaxRuns \in Nat /\ Keep \in Nat

VARIABLES which, key, store, cmd, edits, settled, clashed,
          root, stale, private, at, told,
          file, torn, temp, runs, whole, prune, glued, dropped, raced, halved, crossed,
          engines, vendored, setup, stage, payload, built, writers, mixed,
          expression, asked, cron, probe, search,
          document, spec, given, pass, walk, rest, out, used, secrets

vault == <<key, store, cmd, edits, settled, clashed>>
cache == <<root, stale, private, at, told>>
logged == <<file, torn, temp, runs, whole, prune, glued, dropped, raced, halved, crossed>>
builds == <<engines, vendored, setup, stage, payload, built, writers, mixed>>
searched == <<expression, asked, cron, probe, search>>
resolved == <<document, spec, given, pass, walk, rest, out, used, secrets>>
all == <<which, vars, vault, cache, logged, builds, searched, resolved>>

(* An interval, a cron that matches two instants, and a watch.              *)
MixedTriggers == <<"every", "cron", "watch">>
MixedPeriods == <<3, 1, 1>>
TwoInstants == {1, 3}

Clock == INSTANCE Cron WITH text <- expression, after <- asked, phase <- search

Log == INSTANCE RunHistory

Cache == INSTANCE RunnerCache WITH Starts <- Processes

Vault == INSTANCE SecretStore

Build ==
    INSTANCE Artifact WITH
        Builds <- Builders, at <- stage, files <- built, crossed <- mixed

(* Cron expressions: lists, ranges, steps and stars, with days of the month *)
(* that few months have, and three that are refused; asked on the last      *)
(* minute of 2023, on 29 February 2024, and before a year of no leap day.   *)
Part(form, low, high, step) == [form |-> form, low |-> low, high |-> high, step |-> step]
Any == <<Part("star", 0, 0, 1)>>
One(n) == <<Part("one", n, 0, 1)>>
OnlyMinute(minute) ==
    [minute |-> <<minute>>, hour |-> Any, dom |-> Any, month |-> Any, dow |-> Any]
CronTexts ==
    [minute : {One(0), <<Part("one", 50, 0, 1), Part("range", 10, 20, 5)>>,
               <<Part("one", 5, 0, 15)>>},
     hour : {Any, <<Part("range", 9, 17, 4)>>},
     dom : {Any, One(29), One(30), One(31)},
     month : {Any, One(2), <<Part("range", 11, 12, 1)>>},
     dow : {Any, <<Part("range", 5, 7, 1)>>, <<Part("star", 0, 0, 4)>>}]
    \cup {OnlyMinute(p) : p \in {Part("one", 60, 0, 1), Part("range", 9, 3, 1),
                                 Part("star", 0, 0, 0)}}
CronInstants ==
    {19722 * 1440 + 1439, 19782 * 1440 + 750, 46111 * 1440 + 1439, 47541 * 1440 + 616}

Refs == INSTANCE Params WITH text <- document, phase <- walk

(* The samples are the same whatever a property may say.                    *)
Samples ==
    INSTANCE Params WITH
        text <- document, phase <- walk, Texts <- {}, Resolvers <- {}, Specs <- {}
ParamTexts == Samples!SampleTexts
ParamResolvers == Samples!SampleResolvers
ParamSpecs == Samples!SampleSpecs

ASSUME ParamAssumption == Refs!WellGiven

NoVault == key = 0 /\ store = 0 /\ cmd = 0 /\ edits = 0 /\ settled = 0 /\ clashed = 0
NoCache == root = 0 /\ stale = 0 /\ private = 0 /\ at = 0 /\ told = 0
NoHistory ==
    /\ file = 0 /\ torn = 0 /\ temp = 0 /\ runs = 0 /\ whole = 0 /\ prune = 0
    /\ glued = 0 /\ dropped = 0 /\ raced = 0 /\ halved = 0 /\ crossed = 0
NoBuild ==
    /\ engines = 0 /\ vendored = 0 /\ setup = 0 /\ stage = 0 /\ payload = 0
    /\ built = 0 /\ writers = 0 /\ mixed = 0
NoSearch == expression = 0 /\ asked = 0 /\ cron = 0 /\ probe = 0 /\ search = 0
NoRefs ==
    /\ document = 0 /\ spec = 0 /\ given = 0 /\ pass = 0 /\ walk = 0
    /\ rest = 0 /\ out = 0 /\ used = 0 /\ secrets = 0

ToolsInit ==
    /\ Init
    /\ which \in {"schedule", "secrets", "cache", "history", "build", "cron", "params"}
    /\ \/ which = "secrets" /\ Vault!Init
       \/ which # "secrets" /\ NoVault
    /\ \/ which = "cache" /\ Cache!Init
       \/ which # "cache" /\ NoCache
    /\ \/ which = "history" /\ Log!Init
       \/ which # "history" /\ NoHistory
    /\ \/ which = "build" /\ Build!Init
       \/ which # "build" /\ NoBuild
    /\ \/ which = "cron" /\ Clock!Init
       \/ which # "cron" /\ NoSearch
    /\ \/ which = "params" /\ Refs!Init
       \/ which # "params" /\ NoRefs

(* Commands end.                                                            *)
CommandsEnd == which \in {"history", "cache", "secrets", "build"} /\ UNCHANGED all

ToolsNext ==
    \/ which = "schedule" /\ Next /\ UNCHANGED <<which, vault, cache, logged, builds, searched, resolved>>
    \/ which = "secrets" /\ Vault!Next /\ UNCHANGED <<which, vars, cache, logged, builds, searched, resolved>>
    \/ which = "cache" /\ Cache!Next /\ UNCHANGED <<which, vars, vault, logged, builds, searched, resolved>>
    \/ which = "history" /\ Log!Next /\ UNCHANGED <<which, vars, vault, cache, builds, searched, resolved>>
    \/ which = "build" /\ Build!Next /\ UNCHANGED <<which, vars, vault, cache, logged, searched, resolved>>
    \/ which = "cron" /\ Clock!Next /\ UNCHANGED <<which, vars, vault, cache, logged, builds, resolved>>
    \/ which = "params" /\ Refs!Next /\ UNCHANGED <<which, vars, vault, cache, logged, builds, searched>>
    \/ CommandsEnd

ToolsSpec == ToolsInit /\ [][ToolsNext]_all

-----------------------------------------------------------------------------
(* A cron search: every step goes forward, what it finds is a minute that   *)
(* the expression means, and no such minute is stepped over.                *)
CronSearch ==
    /\ [](which = "cron" =>
            /\ Clock!TypeOK
            /\ Clock!SearchAdvances)
    /\ [][which = "cron" => Clock!OverNothing]_all

(* The run history: a recorded run is lost to a prune that found it old, to *)
(* one that it was appended during, or to a torn line before it, and to     *)
(* nothing else; one prune that dies leaves no half-file, it takes two at a *)
(* time; the newest run survives every prune; and the order stays.          *)
HistoryKept ==
    which = "history" =>
        /\ Log!TypeOK
        /\ Log!HistoryAccounted
        /\ Log!HalfFileTakesTwo
        /\ Log!NewestStays
        /\ Log!OldestFirst

(* The engine cache: a process that runs the unpacked engine runs a         *)
(* complete one, none that ends in order leaves a private directory behind, *)
(* and the unpacked engine is never replaced under those who use it.        *)
CacheShared ==
    /\ [](which = "cache" =>
            /\ Cache!TypeOK
            /\ Cache!EngineStays
            /\ Cache!CleansUp)
    /\ [][which = "cache" => Cache!StaysInPlace]_all

(* Secrets: a key that was once read stays the workspace's; a run is given  *)
(* a secret only under its own name and key; and a secret that was saved    *)
(* stays, but for overlapping saves and edits.                              *)
SecretsStay ==
    which = "secrets" =>
        /\ Vault!TypeOK
        /\ Vault!KeyStays
        /\ Vault!ValueIsIts
        /\ Vault!SavedStays

(* Artifacts: one that runs reads back what was put into it, cut short or   *)
(* not; what it embeds is of its runner's platform; and those that share a  *)
(* cache directory carry the same files.                                    *)
ArtifactsRead ==
    which = "build" =>
        /\ Build!TypeOK
        /\ Build!ReadsBack
        /\ Build!OnePlatform
        /\ Build!KeyMeansEngine

(* Parameters: a resolved document says what it means, read once; so does   *)
(* an artifact with no dollar left over from its build; and a resolution    *)
(* that used a secret says so and does not record its value.                *)
ParamsMean ==
    which = "params" =>
        /\ Refs!TypeOK
        /\ Refs!SaysWhatItMeans
        /\ Refs!ArtifactAgrees
        /\ Refs!SecretsKept
=============================================================================
