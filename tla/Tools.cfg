\* The scheduler's loop, cron, the run history, secrets, parameters and artifacts.
SPECIFICATION ToolsSpec
CONSTANTS
    K = 3
    Trigger <- MixedTriggers
    Period <- MixedPeriods
    Matches <- TwoInstants
    MaxSleep = 2
    MaxTime = 7
    MaxRunTime = 2
    MaxTrouble = 2
    Commands = {"c1", "c2"}
    Names = {"n1", "n2"}
    MaxEdits = 1
    Processes = {"a", "b", "c"}
    MaxRuns = 5
    Keep = 2
    Pruners = {"p1", "p2"}
    Builders = {"b1", "b2"}
    Expressions <- CronTexts
    Instants <- CronInstants
    SearchYears = 5
    Words = {"p", "v", "x", "e", "7", ""}
    Texts <- ParamTexts
    Resolvers <- ParamResolvers
    Specs <- ParamSpecs
INVARIANTS
    Punctual Watched HistoryKept SecretsStay ArtifactsRead ParamsMean
PROPERTIES
    CronSearch CacheShared
