\* One invocation slot, six runs in a row, no crash: the sequential use.
CONSTANTS
    Procs = {p1}
    Durations <- MCDurations
    ConfigureDurations = {1}
    CoreCounts = {2}
    MaxRuns = 6
    CrashOnSave = FALSE
    Absent = Absent
    Corrupt = Corrupt
SPECIFICATION Spec
INVARIANT TypeOK HistoryDurable JobsWithinCores
PROPERTY JobsStepBounded AttemptLogRefined
