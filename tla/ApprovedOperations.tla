------------------------- MODULE ApprovedOperations -------------------------
(***************************************************************************)
(* What a human approves and what the eight write tools then do, field by  *)
(* field: the request the approve command stores (main.go, runApprove),    *)
(* the candidate each handler builds and compares with it (verifyApproval, *)
(* approval.RequestFingerprint), the RPCs the gRPC client sends for it,    *)
(* and what the answer and the audit event name afterwards.                *)
(*                                                                         *)
(* WriteGate has the same handlers with an opaque target and every gate a  *)
(* step of its own; here the gates of one call are one step (Refuse or     *)
(* Admit), each RPC is a step, and the fields are what the model is about. *)
(* Between two steps an operator may edit a profile file and restart the   *)
(* server.                                                                 *)
(***************************************************************************)
EXTENDS Integers, Sequences, FiniteSets

CONSTANTS
    Refs,               \* approval references
    Calls,              \* tool calls
    Args,               \* arguments: the flags of the approve command, and the
                        \* inputs of a tool; max is max_clients (0: not given)
    Profiles,           \* names of the profiles of the registry
    Contents,           \* artifact lists a profile file may hold
    HashKind,           \* value -> "md5", "sha1", "sha256", None if no hash
    HashHunter,         \* the artifact of the hash template
    AllowedArtifacts, AllowedProfiles, TargetAll,   \* policy
    MaxHuntClients,     \* policy.max_hunt_clients
    Real,               \* a write API config is present
    MaxEdits,           \* bound on edits of the profile directory
    None                \* an empty string, a nil pointer

VARIABLES
    approvals,  \* the store: the flags it came from, the request, the verdict
    files,      \* the profiles directory
    loaded,     \* deps.Profiles: read once, at start-up
    calls,      \* the handlers
    edits       \* number of edits so far

vars == <<approvals, files, loaded, calls, edits>>

Ops == {"collect_artifact", "collect_dfir_profile", "cancel_flow",
        "download_flow_upload", "start_hunt", "start_dfir_hunt",
        "cancel_hunt", "hunt_ioc"}
HuntStarts == {"start_hunt", "start_dfir_hunt", "hunt_ioc"}
ProfileOps == {"collect_dfir_profile", "start_dfir_hunt"}

NoParams == <<>>

ASSUME ApprovedAssumption ==
    /\ \A a \in Args :
          /\ a = [op |-> a.op, case |-> a.case, client |-> a.client,
                  artifact |-> a.artifact, params |-> a.params,
                  profile |-> a.profile, hunt |-> a.hunt, flow |-> a.flow,
                  upload |-> a.upload, kind |-> a.kind, value |-> a.value,
                  ids |-> a.ids, label |-> a.label, all |-> a.all,
                  max |-> a.max]
          /\ a.op \in Ops
          /\ a.ids \in Seq({a.ids[n] : n \in DOMAIN a.ids})
          /\ a.all \in BOOLEAN
          /\ a.value \in DOMAIN HashKind \cup {None}
          /\ a.max \in Nat
    /\ Contents # {} /\ \A s \in Contents : s \in Seq({s[n] : n \in DOMAIN s})
    /\ MaxHuntClients \in Nat /\ MaxEdits \in Nat
    /\ Real \in BOOLEAN /\ TargetAll \in BOOLEAN

----------------------------------------------------------------------------
(* The request, the CLI and the candidates.                                *)

\* approval.Request with only the operation and the case set
Blank(a) ==
    [op |-> a.op, case |-> a.case, client |-> None, artifact |-> None,
     params |-> NoParams, profile |-> None, hunt |-> None, flow |-> None,
     upload |-> None, ids |-> <<>>, label |-> None, all |-> FALSE]

\* ValidateHuntScope: exactly one targeting mode
ValidScope(a) ==
    \E mode \in {"ids", "label", "all"} :
        /\ a.ids # <<>> <=> mode = "ids"
        /\ a.label # None <=> mode = "label"
        /\ a.all <=> mode = "all"

\* hashListParam
HashListParam(v) ==
    CASE HashKind[v] = "md5" -> "MD5List"
      [] HashKind[v] = "sha1" -> "SHA1List"
      [] HashKind[v] = "sha256" -> "SHA256List"

\* ValidateIOC, iocTemplateForKind and Bind: only hashes have an artifact
Bindable(a) ==
    a.kind = "hash" /\ a.value # None /\ HashKind[a.value] # None

BuildHuntIOCApprovalRequest(a) ==
    [Blank(a) EXCEPT
        !.artifact = HashHunter,
        !.params = [k \in {HashListParam(a.value)} |-> a.value],
        !.ids = a.ids, !.label = a.label, !.all = a.all]

\* The switch of runApprove.
CliRequest(f) ==
    CASE f.op = "collect_artifact" ->
           [Blank(f) EXCEPT !.client = f.client, !.artifact = f.artifact,
                            !.params = f.params]
      [] f.op = "collect_dfir_profile" ->
           [Blank(f) EXCEPT !.client = f.client, !.profile = f.profile]
      [] f.op = "cancel_flow" ->
           [Blank(f) EXCEPT !.client = f.client, !.flow = f.flow]
      [] f.op = "download_flow_upload" ->
           [Blank(f) EXCEPT !.client = f.client, !.flow = f.flow,
                            !.upload = f.upload]
      [] f.op = "start_hunt" ->
           [Blank(f) EXCEPT !.artifact = f.artifact, !.params = f.params,
                            !.ids = f.ids, !.label = f.label, !.all = f.all]
      [] f.op = "start_dfir_hunt" ->
           [Blank(f) EXCEPT !.profile = f.profile, !.ids = f.ids,
                            !.label = f.label, !.all = f.all]
      [] f.op = "cancel_hunt" -> [Blank(f) EXCEPT !.hunt = f.hunt]
      [] f.op = "hunt_ioc" -> BuildHuntIOCApprovalRequest(f)

\* The candidate of each handler.
CollectArtifactCandidate(a) ==
    [Blank(a) EXCEPT !.client = a.client, !.artifact = a.artifact,
                     !.params = a.params]

CollectDFIRProfileCandidate(a) ==
    [Blank(a) EXCEPT !.client = a.client, !.profile = a.profile]

CancelFlowCandidate(a) ==
    [Blank(a) EXCEPT !.client = a.client, !.flow = a.flow]

DownloadFlowUploadCandidate(a) ==
    [Blank(a) EXCEPT !.client = a.client, !.flow = a.flow,
                     !.upload = a.upload]

StartHuntCandidate(a) ==
    [Blank(a) EXCEPT !.artifact = a.artifact, !.params = a.params,
                     !.ids = a.ids, !.label = a.label, !.all = a.all]

StartDFIRHuntCandidateNoScope(a) == [Blank(a) EXCEPT !.profile = a.profile]

StartDFIRHuntCandidate(a) ==
    [Blank(a) EXCEPT !.profile = a.profile, !.ids = a.ids,
                     !.label = a.label, !.all = a.all]

CancelHuntCandidate(a) == [Blank(a) EXCEPT !.hunt = a.hunt]

Candidate(a) ==
    CASE a.op = "collect_artifact" -> CollectArtifactCandidate(a)
      [] a.op = "collect_dfir_profile" -> CollectDFIRProfileCandidate(a)
      [] a.op = "cancel_flow" -> CancelFlowCandidate(a)
      [] a.op = "download_flow_upload" -> DownloadFlowUploadCandidate(a)
      [] a.op = "start_hunt" -> StartHuntCandidate(a)
      [] a.op = "start_dfir_hunt" -> StartDFIRHuntCandidate(a)
      [] a.op = "cancel_hunt" -> CancelHuntCandidate(a)
      [] a.op = "hunt_ioc" -> BuildHuntIOCApprovalRequest(a)

\* envFromParams, and the pairs the fingerprint hashes
Pairs(p) == {<<k, p[k]>> : k \in DOMAIN p}

\* sort.Strings(clientIDs): how often each identifier occurs
Occurrences(s) ==
    [id \in {s[n] : n \in DOMAIN s} |->
        Cardinality({n \in DOMAIN s : s[n] = id})]

RequestFingerprintNoLabel(q) ==
    <<q.op, q.case, q.client, q.artifact, q.profile, q.hunt, q.flow,
      q.upload, q.all, Pairs(q.params), Len(q.ids), Occurrences(q.ids)>>

\* The length-prefixed encoding is injective and SHA-256 is taken to be: the
\* fingerprint is the tuple of what it hashes.
RequestFingerprint(q) ==
    <<q.op, q.case, q.client, q.artifact, q.profile, q.hunt, q.flow,
      q.upload, q.label, q.all, Pairs(q.params), Len(q.ids),
      Occurrences(q.ids)>>

----------------------------------------------------------------------------
(* The RPCs.                                                               *)

\* grpcClient.CollectArtifact and artifactCollectorArgsFor
CollectRpc(client, artifact, params) ==
    [rpc |-> "CollectArtifact", client |-> client, artifact |-> artifact,
     env |-> Pairs(params)]

\* huntConditionFromScope: the label, or no condition for every client; a
\* list of clients was refused before (BackendReady)
HuntCondition(a) == a.label

\* grpcClient.StartHunt
CreateHuntRpc(a, artifact, params, limit) ==
    [rpc |-> "CreateHunt", artifact |-> artifact, env |-> Pairs(params),
     condition |-> HuntCondition(a), limit |-> limit]

CancelFlowRpc(a) == [rpc |-> "CancelFlow", client |-> a.client, flow |-> a.flow]

\* grpcClient.DownloadFlowUpload: the reads of one upload
DownloadRpc(a) ==
    [rpc |-> "VFSGetBuffer", client |-> a.client, flow |-> a.flow,
     upload |-> a.upload]

\* grpcClient.CancelHunt: state STOPPED and nothing else
ModifyHuntRpc(a) == [rpc |-> "ModifyHunt", hunt |-> a.hunt]

\* configuredMaxHuntClients: the fallback is 100
ConfiguredMaxHuntClients == IF MaxHuntClients > 0 THEN MaxHuntClients ELSE 100

ClientLimitAsked(max) == IF max > 0 THEN max ELSE ConfiguredMaxHuntClients

\* the lowering of maxClients in the three hunt handlers
ClientLimit(max) ==
    IF max > 0 /\ max < ConfiguredMaxHuntClients
    THEN max ELSE ConfiguredMaxHuntClients

\* What the call sends, in order, once it is admitted: one RPC, or one for
\* each artifact of the profile.
Units(a) ==
    CASE a.op = "collect_artifact" ->
           <<CollectRpc(a.client, a.artifact, a.params)>>
      [] a.op = "collect_dfir_profile" ->
           [n \in DOMAIN loaded[a.profile] |->
               CollectRpc(a.client, loaded[a.profile][n].name,
                          loaded[a.profile][n].params)]
      [] a.op = "cancel_flow" -> <<CancelFlowRpc(a)>>
      [] a.op = "download_flow_upload" -> <<DownloadRpc(a)>>
      [] a.op = "start_hunt" ->
           <<CreateHuntRpc(a, a.artifact, a.params, ClientLimit(a.max))>>
      [] a.op = "start_dfir_hunt" ->
           [n \in DOMAIN loaded[a.profile] |->
               CreateHuntRpc(a, loaded[a.profile][n].name,
                             loaded[a.profile][n].params, ClientLimit(a.max))]
      [] a.op = "cancel_hunt" -> <<ModifyHuntRpc(a)>>
      [] a.op = "hunt_ioc" ->
           <<CreateHuntRpc(a, Candidate(a).artifact, Candidate(a).params,
                           ClientLimit(a.max))>>

----------------------------------------------------------------------------
(* The gates of a call.                                                    *)

\* dfir.ValidateProfile on the profile the registry has loaded
ProfileUsable(p) ==
    /\ loaded[p] # <<>>
    /\ \A n \in DOMAIN loaded[p] : loaded[p][n].name \in AllowedArtifacts

\* writePilotEnabled and the validators are in WriteGate; these are the
\* checks of the arguments against the policy and the registry.
PolicyAllows(a) ==
    /\ a.op \in {"collect_artifact", "start_hunt"} =>
           a.artifact \in AllowedArtifacts
    /\ a.op \in ProfileOps =>
           /\ a.profile \in AllowedProfiles
           /\ a.profile \in Profiles /\ ProfileUsable(a.profile)
    /\ a.op = "hunt_ioc" => Bindable(a) /\ HashHunter \in AllowedArtifacts
    /\ a.op \in HuntStarts => ValidScope(a) /\ (a.all => TargetAll)

\* verifyApproval: why the store does not let the call through
Unverified(i) ==
    LET ap == approvals[i.ref] IN
    CASE ap = None -> "not_found"
      [] ap # None /\ ap.verdict = "denied" -> "denied"
      [] ap # None /\ ap.verdict # "denied" /\ ap.used -> "consumed"
      [] ap # None /\ ap.verdict # "denied" /\ ~ap.used
           /\ RequestFingerprint(Candidate(i.args)) #
              RequestFingerprint(ap.request) -> "mismatch"
      [] OTHER -> None

\* backendOperationReady and huntScopeBackendReady
BackendReady(a) == Real /\ (a.op \in HuntStarts => a.ids = <<>>)

\* The reasons to refuse, in the order of the handlers.
Refusal(i) ==
    IF ~PolicyAllows(i.args) THEN "policy"
    ELSE IF Unverified(i) # None THEN Unverified(i)
    ELSE IF ~BackendReady(i.args) THEN "backend"
    ELSE None

----------------------------------------------------------------------------
(* The state machine.                                                      *)

Input == [ref: Refs, args: Args]

Verdicts == {"approved", "denied"}

\* A record of the store; seen is the profiles directory when it was written
\* (history).
Approval ==
    [flags: Args,
     request: {CliRequest(f) :
                 f \in {g \in Args : g.op = "hunt_ioc" => Bindable(g)}},
     seen: [Profiles -> Contents], verdict: Verdicts, used: BOOLEAN]

ASSUME NoneAssumption ==
    None \notin Approval \cup {"not_found", "denied", "consumed", "mismatch",
                               "policy", "backend", "audit"}

\* sent: the RPCs so far, whether the server acted on each and whether it
\* said so; named: the RPCs whose flow or hunt the answer names; logged: the
\* ones whose flow or hunt an audit event names.
Idle == [stage |-> "idle", in |-> None, why |-> None, sent |-> <<>>,
         named |-> {}, logged |-> {}]

Init ==
    /\ approvals = [r \in Refs |-> None]
    /\ files \in [Profiles -> Contents] /\ loaded = files
    /\ calls = [c \in Calls |-> Idle]
    /\ edits = 0

\* The approve command: a request that cannot be built is an exit code.
Approve(r, f, v) ==
    /\ approvals[r] = None
    /\ f.op = "hunt_ioc" => ValidScope(f) /\ Bindable(f)
    /\ approvals' = [approvals EXCEPT ![r] =
           [flags |-> f, request |-> CliRequest(f), seen |-> files,
            verdict |-> v, used |-> FALSE]]
    /\ UNCHANGED <<files, loaded, calls, edits>>

Refuse(c, i) ==
    /\ calls[c].stage = "idle" /\ Refusal(i) # None
    /\ calls' = [calls EXCEPT ![c].stage = "answered", ![c].in = i,
                              ![c].why = Refusal(i)]
    /\ UNCHANGED <<approvals, files, loaded, edits>>

\* gateAuditForWrite fails: refused with the approval untouched
RefuseUnaudited(c, i) ==
    /\ calls[c].stage = "idle" /\ Refusal(i) = None
    /\ calls' = [calls EXCEPT ![c].stage = "answered", ![c].in = i,
                              ![c].why = "audit"]
    /\ UNCHANGED <<approvals, files, loaded, edits>>

\* gateAuditForWrite, then consumeApproval
Admit(c, i) ==
    /\ calls[c].stage = "idle" /\ Refusal(i) = None
    /\ approvals' = [approvals EXCEPT ![i.ref].used = TRUE]
    /\ calls' = [calls EXCEPT ![c].stage = "running", ![c].in = i]
    /\ UNCHANGED <<files, loaded, edits>>

Sent(c) == calls[c].sent

Failed(c) == \E n \in DOMAIN Sent(c) : ~Sent(c)[n].ok

Remaining(c) ==
    /\ calls[c].stage = "running" /\ ~Failed(c)
    /\ Len(Sent(c)) < Len(Units(calls[c].in.args))

\* One RPC.  The server may act on it and the answer still be an error: a
\* deadline, a connection lost after the request went out.
SendUnit(c) ==
    /\ Remaining(c)
    /\ LET unit == Units(calls[c].in.args)[Len(Sent(c)) + 1]
       IN  \E acted \in BOOLEAN, ok \in BOOLEAN :
             /\ ok => acted
             /\ calls' = [calls EXCEPT ![c].sent =
                    Append(@, [rpc |-> unit, acted |-> acted, ok |-> ok])]
    /\ UNCHANGED <<approvals, files, loaded, edits>>

Acknowledged(c) == {n \in DOMAIN Sent(c) : Sent(c)[n].ok}

NamedNothingOnError(c) == IF Failed(c) THEN {} ELSE Acknowledged(c)

\* The flows or hunts of the answer: every flow of a profile collection, also
\* when it stopped partway; the last hunt of a profile hunt; otherwise
\* success stands for the one RPC.
Named(c) ==
    CASE calls[c].in.args.op = "collect_dfir_profile" -> Acknowledged(c)
      [] calls[c].in.args.op = "start_dfir_hunt" ->
           IF Failed(c) THEN {} ELSE {Len(Sent(c))}
      [] OTHER -> Acknowledged(c)

\* FlowID and HuntID of the terminal event: a profile collection records how
\* many flows, not which; the others what the answer names.
Logged(c) ==
    IF calls[c].in.args.op = "collect_dfir_profile" THEN {} ELSE Named(c)

Answer(c) ==
    /\ calls[c].stage = "running" /\ ~Remaining(c)
    /\ calls' = [calls EXCEPT ![c].stage = "answered",
                              ![c].named = Named(c), ![c].logged = Logged(c)]
    /\ UNCHANGED <<approvals, files, loaded, edits>>

EditProfile(p, s) ==
    /\ edits < MaxEdits /\ s # files[p]
    /\ files' = [files EXCEPT ![p] = s]
    /\ edits' = edits + 1
    /\ UNCHANGED <<approvals, loaded, calls>>

\* The server stops, with the calls it was running, and starts again.
Restart ==
    /\ \/ loaded # files
       \/ \E c \in Calls : calls[c].stage = "running"
    /\ loaded' = files
    /\ calls' = [c \in Calls |->
           IF calls[c].stage = "running"
           THEN [calls[c] EXCEPT !.stage = "killed"] ELSE calls[c]]
    /\ UNCHANGED <<approvals, files, edits>>

Next ==
    \/ \E r \in Refs, f \in Args, v \in Verdicts : Approve(r, f, v)
    \/ \E c \in Calls, i \in Input :
          Refuse(c, i) \/ RefuseUnaudited(c, i) \/ Admit(c, i)
    \/ \E c \in Calls : SendUnit(c) \/ Answer(c)
    \/ \E p \in Profiles, s \in Contents : EditProfile(p, s)
    \/ Restart

Spec == Init /\ [][Next]_vars

----------------------------------------------------------------------------
(* Properties.                                                             *)

\* What a person who gives the flags f and reads the profile files reg agrees
\* to: the RPCs, a hunt's limit aside.  A hunt over an explicit list of
\* clients has no RPC.
CollectOf(f, artifact, env) ==
    [rpc |-> "CollectArtifact", client |-> f.client, artifact |-> artifact,
     env |-> env]

HuntOf(f, artifact, env, limit) ==
    [rpc |-> "CreateHunt", artifact |-> artifact, env |-> env,
     condition |-> f.label, limit |-> limit]

Agreed(f, reg, m) ==
    CASE f.op = "collect_artifact" ->
           m = CollectOf(f, f.artifact, Pairs(f.params))
      [] f.op = "collect_dfir_profile" ->
           \E n \in DOMAIN reg[f.profile] :
              m = CollectOf(f, reg[f.profile][n].name,
                            Pairs(reg[f.profile][n].params))
      [] f.op = "cancel_flow" ->
           m = [rpc |-> "CancelFlow", client |-> f.client, flow |-> f.flow]
      [] f.op = "download_flow_upload" ->
           m = [rpc |-> "VFSGetBuffer", client |-> f.client,
                flow |-> f.flow, upload |-> f.upload]
      [] f.op = "start_hunt" ->
           /\ f.ids = <<>> /\ (f.label # None \/ f.all)
           /\ m = HuntOf(f, f.artifact, Pairs(f.params), m.limit)
      [] f.op = "start_dfir_hunt" ->
           /\ f.ids = <<>> /\ (f.label # None \/ f.all)
           /\ \E n \in DOMAIN reg[f.profile] :
                 m = HuntOf(f, reg[f.profile][n].name,
                            Pairs(reg[f.profile][n].params), m.limit)
      [] f.op = "cancel_hunt" -> m = [rpc |-> "ModifyHunt", hunt |-> f.hunt]
      [] f.op = "hunt_ioc" ->
           /\ f.ids = <<>> /\ (f.label # None \/ f.all)
           /\ m = HuntOf(f, HashHunter, {<<HashListParam(f.value), f.value>>},
                         m.limit)

\* Every RPC a write tool sends is one the approval's flags stand for, for the
\* same case, and with the profiles as they were when the approval was given,
\* unless a profile file was edited since: the fingerprint has the profile's
\* name, not its artifacts, so that only the rest is as approved then.
ExecutesWhatWasApproved ==
    \A c \in Calls : Sent(c) # <<>> =>
        LET ap == approvals[calls[c].in.ref]
            read == IF edits = 0 THEN {ap.seen} ELSE [Profiles -> Contents]
        IN
        /\ ap # None /\ ap.verdict = "approved"
        /\ ap.flags.case = calls[c].in.args.case
        /\ \A n \in DOMAIN Sent(c) :
              \E reg \in read : Agreed(ap.flags, reg, Sent(c)[n].rpc)

\* A call with the very arguments the approve command was given, max_clients
\* aside, is never turned away for being another request: the candidate of
\* each handler and the request of the command have the same fields set.
SameArgumentsMatch ==
    \A c \in Calls :
        /\ calls[c].stage # "idle" /\ approvals[calls[c].in.ref] # None
        /\ [approvals[calls[c].in.ref].flags EXCEPT !.max = 0] =
           [calls[c].in.args EXCEPT !.max = 0]
        => calls[c].why # "mismatch"

\* No hunt is created without a limit on the clients that may join it, nor
\* with one above the policy's or above the one the caller gave.
HuntsBounded ==
    \A c \in Calls : \A n \in DOMAIN Sent(c) :
        Sent(c)[n].rpc.rpc = "CreateHunt" =>
            /\ Sent(c)[n].rpc.limit \in 1..ConfiguredMaxHuntClients
            /\ calls[c].in.args.max > 0 =>
                   Sent(c)[n].rpc.limit <= calls[c].in.args.max

\* An answer names every flow or hunt the server acknowledged, so that work
\* that stopped partway can be found again.  A profile hunt names the last of
\* its hunts only, and none when it stopped partway.
ProgressReported ==
    \A c \in Calls :
        /\ calls[c].stage = "answered" /\ calls[c].why = None
        => \A n \in DOMAIN Sent(c) : Sent(c)[n].ok =>
              \/ n \in calls[c].named
              \/ /\ calls[c].in.args.op = "start_dfir_hunt"
                 /\ n < Len(Sent(c))
=============================================================================
