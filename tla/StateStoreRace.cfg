\* A hand-started run, a built artifact and `etl state forget` racing on one
\* state file.
SPECIFICATION Spec
CONSTANTS
    Runs = {r1, a1}
    Artifacts = {a1}
    Forgets = {f1}
    Marked = {m}
    Positioned = {}
    NeedsSession = FALSE
    MaxRow = 2
PROPERTY ImplementsLoad
