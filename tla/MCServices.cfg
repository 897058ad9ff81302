\* Two lines, two ticks, or a probe of two contributors; a line and a tick with each.
SPECIFICATION Spec
CONSTANTS
    None = None
    x1 = x1
    x2 = x2
    Scenarios <- MCScenarios
    Json <- MCJson
    DeepMerge <- DeepMergeJson
    Settings <- MCSettings
    Lines = {x1, x2}
    ContributorCount = 2
INVARIANTS
    OverridesWin
    AcceptedAreWritten
    HealthIsWorst
    NothingOutlivesMain
    TelemetryFlushedLast
PROPERTIES
    EveryTickRuns
    StopsDespiteHangs
CHECK_DEADLOCK FALSE
