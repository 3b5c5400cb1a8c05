\* Linux or Windows, the same tools and Visual Studio installations on every invocation.
CONSTANTS
    Systems = {"linux", "windows"}
    VSRoots <- MCRoots
    Editions <- MCEditions
    EnvMayChange = FALSE
    MaxRuns = 3
    None = None
SPECIFICATION Spec
INVARIANT TypeOK UsesAvailableGenerator ActivationIsFirstFound
