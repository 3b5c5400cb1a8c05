\* One invocation at a time, on a fresh checkout (where an invocation may die
\* while creating the file) or with the complete manager installed.
CONSTANTS
    Procs = {p1}
    InitialManagers = {"absent", "full"}
    CrashOnWrite = TRUE
    MaxRuns = 5
SPECIFICATION Spec
INVARIANT TypeOK ExitReflectsBuild
