\* One slot, a crash inside _save_json: does the history survive it?
CONSTANTS
    Procs = {p1}
    Durations <- MCDurations
    ConfigureDurations = {1}
    CoreCounts = {2}
    MaxRuns = 3
    CrashOnSave = TRUE
    Absent = Absent
    Corrupt = Corrupt
SPECIFICATION Spec
INVARIANT HistoryDurable
