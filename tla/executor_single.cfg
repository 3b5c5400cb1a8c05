\* One invocation at a time on Windows; removing the batch file may fail and
\* cmake may be missing from PATH.
CONSTANTS
    Procs = {p1}
    System = "windows"
    Configs <- MCConfigs
    DeleteMayFail = TRUE
    CMakeMayBeMissing = TRUE
    MaxRuns = 3
SPECIFICATION Spec
INVARIANT TypeOK ReleaseBuilt
