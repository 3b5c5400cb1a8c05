\* Two invocations at once on Windows, cmake on PATH: only the shared batch
\* file can make an invocation end without its attempt.
CONSTANTS
    Procs = {p1, p2}
    System = "windows"
    Configs <- MCConfigs
    DeleteMayFail = FALSE
    CMakeMayBeMissing = FALSE
    MaxRuns = 2
SPECIFICATION Spec
INVARIANT AttemptPerExecution
