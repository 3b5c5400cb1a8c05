CONSTANTS
    System = "linux"
    ToolChoices <- MCToolChoices
    DirChoices <- MCDirChoices
    LibChoices <- MCLibChoices
    InitialLibPaths <- MCInitialLibPaths
    PackageResults <- MCPackageResults
    VSCmdValues = {FALSE}
SPECIFICATION Spec
INVARIANTS TypeOK ToolVerdictMatchesSpec LibraryIsFirstMatch
