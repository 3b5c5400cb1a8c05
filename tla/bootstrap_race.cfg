\* Two invocations at once on a fresh checkout: does every invocation run a complete manager?
CONSTANTS
    Procs = {p1, p2}
    InitialManagers = {"absent"}
    CrashOnWrite = FALSE
    MaxRuns = 2
SPECIFICATION Spec
INVARIANT RunsCompleteManager
