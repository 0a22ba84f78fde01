SPECIFICATION Spec
CONSTANTS
    None = None
    FileNames = {f1, f2, f3}
    FileBodies <- MCBodies
    Policies <- MCPolicies
    Catalogs <- MCCatalogs
    RawNames <- MCNames
    Artifacts = {"c"}
    RawCases <- MCCases
    RawSystems <- MCSystems
    MaxEdits = 1
    MaxCalls = 2
    Trim <- MCTrim
    NamePattern <- MCNamePattern
    Normal <- MCNormal
SYMMETRY FilesAlike
CHECK_DEADLOCK FALSE
INVARIANTS CuratedOnly  CompareExact
