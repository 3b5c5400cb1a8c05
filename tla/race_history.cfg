\* Two slots running at once, no crash: does every saved attempt stay saved?
CONSTANTS
    Procs = {p1, p2}
    Durations <- MCDurations
    ConfigureDurations = {1}
    CoreCounts = {2}
    MaxRuns = 3
    CrashOnSave = FALSE
    Absent = Absent
    Corrupt = Corrupt
SPECIFICATION Spec
INVARIANT HistoryDurable
