\* An incremental pipeline whose plan is driven through a session.
SPECIFICATION Spec
CONSTANTS
    Runs = {r1}
    Artifacts = {}
    Forgets = {}
    Marked = {m}
    Positioned = {}
    NeedsSession = TRUE
    MaxRow = 2
INVARIANT SuccessIsRemembered
