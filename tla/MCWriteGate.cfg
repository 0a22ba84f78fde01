\* Two calls on one approval, two runs of the approve command, an approval that
\* expires, every setting of the server.
SPECIFICATION FairSpec
CONSTANTS
    None = None
    c1 = c1
    c2 = c2
    r1 = r1
    a1 = a1
    a2 = a2
    a3 = a3
    prof = prof
    bad = bad
    gone = gone
    flow = flow
    lab = lab
    Refs = {r1}
    Calls = {c1, c2}
    Clis = {k1, k2}
    TTL = 0
    MaxNow = 1
    ClientIDs <- MCClientIDs
    Registry <- MCRegistry
    AllowedArtifacts = {a1, a2}
    AllowedProfiles = {prof, bad, gone}
    Settings <- MCSettings
    Payloads <- MCPayloads
    Inputs <- MCInputs
INVARIANTS OneExecutionPerApproval ExecutionAuthorised BurnedOnlyWhenReady
           HonestOutcome AuditedUnlessMalformed
PROPERTY CallsFinish
