\* One slot, crashes inside _save_json allowed and a clock that may step back
\* during a build: the parallelism bounds survive a lost file and a negative duration.
CONSTANTS
    Procs = {p1}
    Durations <- MCDurationsWithClockStep
    ConfigureDurations = {1}
    CoreCounts = {2}
    MaxRuns = 5
    CrashOnSave = TRUE
    Absent = Absent
    Corrupt = Corrupt
SPECIFICATION Spec
INVARIANT JobsWithinCores
