CONSTANTS
    Unset = Unset
    R = r
    W = w
    Configs <- SomeConfigs
    ApiPaths = {r, w}
    ApiFiles <- SomeApiFiles
    Windows = FALSE
    CommandLines <- AllLines
    DirStates = {"none", "good"}
    StoreStates = {"absent", "ok", "loose"}
    MaxEdits = 1
    MaxStarts = 2
SPECIFICATION Spec
CHECK_DEADLOCK FALSE
INVARIANT DepsFollowConfig
PROPERTY SoundStarts
