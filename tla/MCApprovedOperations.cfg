SPECIFICATION Spec
CONSTANTS
    None = None
    Args <- MCArgs
    Contents <- MCContents
    HashKind <- MCHashKind
    AllowedArtifacts <- MCAllowedArtifacts
    HashHunter = "HashHunter"
    AllowedProfiles = {"p"}
    Refs = {r1}
    Calls = {c1}
    Profiles = {"p"}
    TargetAll = TRUE
    MaxHuntClients = 3
    Real = TRUE
    MaxEdits = 1
CHECK_DEADLOCK FALSE
INVARIANTS ExecutesWhatWasApproved SameArgumentsMatch HuntsBounded
           ProgressReported
