\* Windows, Visual Studio installed or removed between invocations: is the recorded vcvarsall.bat current?
CONSTANTS
    Systems = {"windows"}
    VSRoots <- MCRoots
    Editions <- MCEditions
    EnvMayChange = TRUE
    MaxRuns = 3
    None = None
SPECIFICATION Spec
INVARIANT ActivationIsFirstFound
