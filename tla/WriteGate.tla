------------------------------ MODULE WriteGate ------------------------------
(***************************************************************************)
(* The approval-gated write tools of internal/mcpserver, the approve       *)
(* command and the approval store they share.                              *)
(*                                                                         *)
(* The eight handlers (tools_collection.go, tools_hunts.go, tools_ioc.go,  *)
(* tools_flows.go) go through the same stages: local gates, verifyApproval,*)
(* the backend gates, gateAuditForWrite, consumeApproval, one or more      *)
(* calls to Velociraptor, and a terminal audit event.  Calls run           *)
(* concurrently in one server, which may stop at any step.  The operations *)
(* of the store are atomic here, as FileStore is shown to make them.       *)
(***************************************************************************)
EXTENDS Approvals, FiniteSets, Sequences

CONSTANTS
    Calls,              \* tool calls
    Clis,               \* runs of the approve command
    Inputs,             \* Inputs[c]: the arguments call c may be made with
    ClientIDs,          \* Velociraptor clients
    Registry,           \* Registry[p]: the artifacts of DFIR profile p
    AllowedArtifacts,   \* policy.artifact_allowlist
    AllowedProfiles,    \* policy.dfir_profile_allowlist
    Settings,           \* configurations the server may run with
    MaxNow              \* bound on the clock

ProfileOps == {"collect_dfir_profile", "start_dfir_hunt"}
ArtifactOps == {"collect_artifact", "start_hunt", "hunt_ioc"}
ScopedOps == {"start_hunt", "start_dfir_hunt", "hunt_ioc"}
HuntOps == ScopedOps \cup {"cancel_hunt"}
Ops == ProfileOps \cup ArtifactOps \cup HuntOps \cup
       {"cancel_flow", "download_flow_upload"}

\* approval.Request.  The field target stands for the case, client,
\* artifact, parameters, profile, hunt, flow and upload it names.
IsRequest(q) ==
    /\ DOMAIN q = {"op", "target", "ids", "label", "all"}
    /\ q.op \in Ops
    /\ q.ids \in Seq(ClientIDs)
    /\ q.all \in BOOLEAN

\* The arguments of a tool: the request, the approval reference, and whether
\* the case, reason, requester and reference (fields) and the identifiers of
\* the target (target) are well formed.
IsInput(i) ==
    /\ DOMAIN i = {"ref", "req", "fields", "target"}
    /\ i.ref \in Refs
    /\ IsRequest(i.req)
    /\ i.fields \in BOOLEAN /\ i.target \in BOOLEAN

\* Deps, as buildDeps makes them of the configuration: pilot says that
\* policy.mode is controlled and a store is configured, targetAll that hunts
\* may target all clients, real that the write client is a grpcClient and not
\* the placeholder, audit that the sink is a JSONLWriter and not a NopSink.
Deployment == [pilot: BOOLEAN, targetAll: BOOLEAN, real: BOOLEAN,
               audit: BOOLEAN]

\* What may be found at velociraptor.download_dir.
Dirs == {"unset", "missing", "unmakable", "readonly", "writable"}

ASSUME WriteGateAssumption ==
    /\ \A q \in Payloads : IsRequest(q)
    /\ DOMAIN Inputs = Calls /\ \A c \in Calls : \A i \in Inputs[c] : IsInput(i)
    /\ \A p \in DOMAIN Registry : Len(Registry[p]) \in Nat \ {0}
    /\ Settings \subseteq [deps: Deployment, dir: Dirs]
    /\ MaxNow \in Nat
    /\ {"new", "gone"} \cap Refs = {}

VARIABLES
    now,        \* wall-clock time
    records,    \* the approval store
    cli,        \* cli[k]: "new", the reference k has created, or "gone"
    pc,         \* pc[c]: how far call c has got
    input,      \* input[c]: its arguments
    issued,     \* issued[c]: the Velociraptor calls it has made
    log,        \* log[c]: its events in the audit log
    missed,     \* missed[c]: an audit write of c has failed
    deps,       \* the server's configuration
    dir,        \* the state of the download directory
    verifiedAt, \* verifiedAt[c]: when c's approval was verified (history)
    usedBy      \* usedBy[r]: the calls whose Consume(r) succeeded (history)

vars == <<now, records, cli, pc, input, issued, log, missed, deps,
          dir, verifiedAt, usedBy>>

sharedVars == <<now, records, cli, deps>>
history == <<verifiedAt, usedBy>>

Working == {"verify", "gate", "prepare", "consume", "execute",
            "save", "succeeded", "failed"}

Init ==
    /\ now = 0
    /\ records = EmptyRecords
    /\ cli = [k \in Clis |-> "new"]
    /\ pc = [c \in Calls |-> "new"]
    /\ input = [c \in Calls |-> None]
    /\ issued = [c \in Calls |-> <<>>]
    /\ log = [c \in Calls |-> <<>>]
    /\ missed = [c \in Calls |-> FALSE]
    /\ \E s \in Settings : deps = s.deps /\ dir = s.dir
    /\ verifiedAt = [c \in Calls |-> 0]
    /\ usedBy = [r \in Refs |-> {}]

Tick ==
    /\ now < MaxNow
    /\ now' = now + 1
    /\ UNCHANGED <<records, cli, deps, pc, input, issued, log, missed, dir,
                   history>>

-----------------------------------------------------------------------------
(* The approve command: Create, then Decide, two separate calls *)

CliCreate(k, r, q) ==
    /\ cli[k] = "new"
    /\ IF records[r] = None
       THEN /\ records' = [records EXCEPT ![r] = NewRecord(q, now)]
            /\ cli' = [cli EXCEPT ![k] = r]
       ELSE /\ cli' = [cli EXCEPT ![k] = "gone"]
            /\ UNCHANGED records
    /\ UNCHANGED <<now, deps, pc, input, issued, log, missed, dir, history>>

CliDecide(k, v) ==
    LET r == cli[k] IN
    /\ r \in Refs
    /\ records' = [records EXCEPT ![r] =
                    IF @.decision = None THEN [@ EXCEPT !.decision = v] ELSE @]
    /\ cli' = [cli EXCEPT ![k] = "gone"]
    /\ UNCHANGED <<now, deps, pc, input, issued, log, missed, dir, history>>

\* Killed, no --approved-by, or an error of the store: what has been created
\* stays undecided.
CliStops(k) ==
    /\ cli[k] # "gone"
    /\ cli' = [cli EXCEPT ![k] = "gone"]
    /\ UNCHANGED <<now, records, deps, pc, input, issued, log, missed, dir,
                   history>>

-----------------------------------------------------------------------------
(* The local gates of the handlers *)

\* ValidateHuntScope: exactly one targeting mode.
ValidScope(q) ==
    Cardinality({m \in {"ids", "label", "all"} :
        \/ m = "ids" /\ q.ids # <<>>
        \/ m = "label" /\ q.label # None
        \/ m = "all" /\ q.all}) = 1

\* dfir.ValidateProfile: every artifact of a registered profile is allowlisted.
ValidProfile(p) ==
    /\ p \in DOMAIN Registry
    /\ \A n \in DOMAIN Registry[p] : Registry[p][n] \in AllowedArtifacts

\* A gate of a handler: the condition under which it lets a call pass, and
\* the outcome it records otherwise ("silent": it records none).
Gate(passes, outcome) == [passes |-> passes, outcome |-> outcome]

CollectArtifactGates(i) ==
    <<Gate(i.fields /\ i.target, "blocked"),
      Gate(i.req.target \in AllowedArtifacts, "blocked")>>

CollectDFIRProfileGates(i) ==
    <<Gate(i.fields /\ i.target, "blocked"),
      Gate(i.req.target \in AllowedProfiles, "blocked"),
      Gate(ValidProfile(i.req.target), "blocked")>>

CancelFlowGates(i) == <<Gate(i.fields /\ i.target, "blocked")>>

\* validateHuntWriteInput: its callers return the error without recordAudit.
HuntWriteInput(i) == Gate(i.fields, "silent")

TargetAll(q) == Gate(q.all => deps.targetAll, "blocked")

StartHuntGates(i) ==
    <<HuntWriteInput(i),
      Gate(ValidScope(i.req), "blocked"),
      Gate(i.target /\ i.req.target \in AllowedArtifacts, "blocked"),
      TargetAll(i.req)>>

\* A profile that is allowed but not registered is an error here.
StartDFIRHuntGates(i) ==
    <<HuntWriteInput(i),
      Gate(ValidScope(i.req), "blocked"),
      Gate(i.target /\ i.req.target \in AllowedProfiles, "blocked"),
      Gate(i.req.target \in DOMAIN Registry, "error"),
      Gate(ValidProfile(i.req.target), "blocked"),
      TargetAll(i.req)>>

CancelHuntGates(i) == <<HuntWriteInput(i), Gate(i.target, "blocked")>>

\* The target of the request is the artifact BuildHuntIOCApprovalRequest
\* resolves the indicator to; i.target says that it could be resolved.
HuntIOCGates(i) ==
    <<HuntWriteInput(i),
      Gate(ValidScope(i.req) /\ i.target, "blocked"),
      Gate(i.req.target \in AllowedArtifacts, "blocked"),
      TargetAll(i.req)>>

DownloadGates(i) ==
    <<Gate(dir # "unset", "blocked"),
      Gate(i.fields /\ i.target, "blocked")>>

\* writePilotEnabled, and then the gates of the handler.
Gates(i) ==
    <<Gate(deps.pilot, "blocked")>> \o
    CASE i.req.op = "collect_artifact" -> CollectArtifactGates(i)
      [] i.req.op = "collect_dfir_profile" -> CollectDFIRProfileGates(i)
      [] i.req.op = "cancel_flow" -> CancelFlowGates(i)
      [] i.req.op = "start_hunt" -> StartHuntGates(i)
      [] i.req.op = "start_dfir_hunt" -> StartDFIRHuntGates(i)
      [] i.req.op = "cancel_hunt" -> CancelHuntGates(i)
      [] i.req.op = "hunt_ioc" -> HuntIOCGates(i)
      [] i.req.op = "download_flow_upload" -> DownloadGates(i)

Accepted(i) == \A n \in DOMAIN Gates(i) : Gates(i)[n].passes

\* The outcome of the first gate that does not let i pass.
Refusal(i) ==
    LET shut == {n \in DOMAIN Gates(i) : ~Gates(i)[n].passes}
    IN  Gates(i)[CHOOSE n \in shut : \A m \in shut : n <= m].outcome

Unaudited(i) == ~Accepted(i) /\ Refusal(i) = "silent"

-----------------------------------------------------------------------------
(* Steps of call c *)

Go(c, to) == pc' = [pc EXCEPT ![c] = to]

\* recordAudit: a write that fails is only noted on stderr.  A NopSink
\* accepts every event and keeps none.
RecordAudit(c, outcome) ==
    \/ /\ deps.audit
       /\ log' = [log EXCEPT ![c] = Append(@, outcome)]
       /\ UNCHANGED missed
    \/ /\ deps.audit
       /\ missed' = [missed EXCEPT ![c] = TRUE]
       /\ UNCHANGED log
    \/ /\ ~deps.audit
       /\ UNCHANGED <<log, missed>>

\* Mutant of Finish: the answer waits until the event is in the log.
FinishWhenRecorded(c, outcome) ==
    /\ deps.audit
    /\ log' = [log EXCEPT ![c] = Append(@, outcome)]
    /\ Go(c, "done")
    /\ UNCHANGED missed

\* The call ends with a terminal event.
Finish(c, outcome) ==
    /\ RecordAudit(c, outcome)
    /\ Go(c, "done")

Receive(c, i) ==
    /\ pc[c] = "new"
    /\ input' = [input EXCEPT ![c] = i]
    /\ \/ /\ Accepted(i)
          /\ Go(c, "verify")
          /\ UNCHANGED <<log, missed>>
       \/ /\ Unaudited(i)
          /\ Go(c, "done")
          /\ UNCHANGED <<log, missed>>
       \/ /\ ~Accepted(i) /\ ~Unaudited(i)
          /\ Finish(c, Refusal(i))
    /\ UNCHANGED <<sharedVars, issued, dir, history>>

\* Mutant of Fingerprint: it leaves out the scope of a hunt.
FingerprintNoScope(q) == [op |-> q.op, target |-> q.target]

\* approval.RequestFingerprint: all the targeting fields, the client IDs in
\* sorted order, so with their multiplicities and without their order.
Fingerprint(q) ==
    [op |-> q.op, target |-> q.target, label |-> q.label, all |-> q.all,
     ids |-> [x \in ClientIDs |->
                Cardinality({n \in DOMAIN q.ids : q.ids[n] = x})]]

\* verifyApproval on the status that Get returned.
Verified(st, q) ==
    /\ Fingerprint(st.req) = Fingerprint(q)
    /\ st.decision = "approved"
    /\ ~st.consumed
    /\ ~st.expired

\* backendOperationReady and huntScopeBackendReady: the placeholder client
\* supports no operation, and the real one no hunt on explicit clients.
BackendReady(q) ==
    /\ deps.real
    /\ q.op \in ScopedOps => q.ids = <<>>

\* verifyApproval and the backend gates, which only look at configuration.
VerifyApproval(c) ==
    LET i == input[c]
        rec == records[i.ref]
        ok == rec # None /\ Verified(StatusOf(rec, now), i.req)
    IN
    /\ pc[c] = "verify"
    /\ \/ /\ ok /\ BackendReady(i.req)
          /\ Go(c, "gate")
          /\ verifiedAt' = [verifiedAt EXCEPT ![c] = now]
          /\ UNCHANGED <<log, missed>>
       \/ /\ ~ok
          /\ Finish(c, "blocked")
          /\ UNCHANGED verifiedAt
       \/ /\ ok /\ ~BackendReady(i.req)
          /\ Finish(c, IF deps.real THEN "blocked" ELSE "error")
          /\ UNCHANGED verifiedAt
    /\ UNCHANGED <<sharedVars, input, issued, dir, usedBy>>

\* Mutant of StoreFails: the error path does not record an event.
StoreFailsUnaudited(c) ==
    /\ pc[c] \in {"verify", "consume"}
    /\ Go(c, "done")
    /\ UNCHANGED <<sharedVars, input, issued, log, missed, dir, history>>

\* Get or Consume fails: a lock timeout or an I/O error of the store.
StoreFails(c) ==
    /\ pc[c] \in {"verify", "consume"}
    /\ Finish(c, "error")
    /\ UNCHANGED <<sharedVars, input, issued, dir, history>>

\* Mutant of GateAudit: a failed write is only noted, as in recordAudit.
GateAuditBestEffort(c) ==
    /\ pc[c] = "gate"
    /\ RecordAudit(c, "attempt")
    /\ Go(c, "prepare")
    /\ UNCHANGED <<sharedVars, input, issued, dir, history>>

\* gateAuditForWrite: the attempt is recorded, or the call is refused; the
\* refusal has no event of its own.
GateAudit(c) ==
    /\ pc[c] = "gate"
    /\ \/ /\ deps.audit
          /\ log' = [log EXCEPT ![c] = Append(@, "attempt")]
          /\ Go(c, "prepare")
          /\ UNCHANGED missed
       \/ /\ deps.audit
          /\ missed' = [missed EXCEPT ![c] = TRUE]
          /\ Go(c, "done")
          /\ UNCHANGED log
       \/ /\ ~deps.audit
          /\ Go(c, "prepare")
          /\ UNCHANGED <<log, missed>>
    /\ UNCHANGED <<sharedVars, input, issued, dir, history>>

\* The download handler calls MkdirAll, which succeeds on a directory that
\* exists, writable or not; the other handlers have nothing to prepare.
Prepare(c) ==
    LET download == input[c].req.op = "download_flow_upload" IN
    /\ pc[c] = "prepare"
    /\ \/ /\ download /\ dir = "unmakable"
          /\ Finish(c, "error")
          /\ UNCHANGED dir
       \/ /\ download => dir # "unmakable"
          /\ Go(c, "consume")
          /\ dir' = IF download /\ dir = "missing" THEN "writable" ELSE dir
          /\ UNCHANGED <<log, missed>>
    /\ UNCHANGED <<sharedVars, input, issued, history>>

\* Mutant of ConsumeApproval: Consume does not look at the flag.
ConsumeApprovalAgain(c) ==
    LET r == input[c].ref IN
    /\ pc[c] = "consume"
    /\ records' = [records EXCEPT ![r].consumed = TRUE]
    /\ usedBy' = [usedBy EXCEPT ![r] = @ \cup {c}]
    /\ Go(c, "execute")
    /\ UNCHANGED <<now, cli, deps, input, issued, log, missed, dir, verifiedAt>>

\* consumeApproval.  Consume looks at nothing but the Consumed flag.
ConsumeApproval(c) ==
    LET r == input[c].ref
        ok == records[r] # None /\ ~records[r].consumed
    IN
    /\ pc[c] = "consume"
    /\ \/ /\ ok
          /\ records' = [records EXCEPT ![r].consumed = TRUE]
          /\ usedBy' = [usedBy EXCEPT ![r] = @ \cup {c}]
          /\ Go(c, "execute")
          /\ UNCHANGED <<log, missed>>
       \/ /\ ~ok
          /\ Finish(c, "error")
          /\ UNCHANGED <<records, usedBy>>
    /\ UNCHANGED <<now, cli, deps, input, issued, dir, verifiedAt>>

\* The number of Velociraptor calls the handler's loop makes.
Units(q) == IF q.op \in ProfileOps THEN Len(Registry[q.target]) ELSE 1

\* One call to Velociraptor.  A call that fails may have taken effect all
\* the same ("lost": a timeout, a broken connection); the loop stops there.
Execute(c) ==
    LET q == input[c].req
        n == Len(issued[c]) + 1
    IN
    /\ pc[c] = "execute"
    /\ \E reply \in {"ok", "failed", "lost"} :
        /\ issued' = [issued EXCEPT ![c] =
                        Append(@, [unit |-> n, reply |-> reply])]
        /\ Go(c, IF reply # "ok" THEN "failed"
                 ELSE IF n < Units(q) THEN "execute"
                 ELSE IF q.op = "download_flow_upload" THEN "save"
                 ELSE "succeeded")
    /\ UNCHANGED <<sharedVars, input, log, missed, dir, history>>

\* The downloaded bytes are written to a new file in the download directory.
SaveDownload(c) ==
    /\ pc[c] = "save"
    /\ \/ dir = "writable" /\ Go(c, "succeeded")
       \/ Go(c, "failed")
    /\ UNCHANGED <<sharedVars, input, issued, log, missed, dir, history>>

\* Mutant of Report: the error of the last call is dropped.
ReportSuccess(c) ==
    /\ pc[c] \in {"succeeded", "failed"}
    /\ Finish(c, "success")
    /\ UNCHANGED <<sharedVars, input, issued, dir, history>>

Report(c) ==
    /\ pc[c] \in {"succeeded", "failed"}
    /\ Finish(c, IF pc[c] = "succeeded" THEN "success" ELSE "error")
    /\ UNCHANGED <<sharedVars, input, issued, dir, history>>

\* The server process stops: calls in flight are lost, whatever they have
\* done to the store, to the audit log and to Velociraptor stays.  Calls
\* that come later find a restarted server.
ServerStops ==
    /\ \E c \in Calls : pc[c] \in Working
    /\ pc' = [c \in Calls |-> IF pc[c] \in Working THEN "dead" ELSE pc[c]]
    /\ UNCHANGED <<sharedVars, input, issued, log, missed, dir, history>>

-----------------------------------------------------------------------------

Step(c) ==
    \/ VerifyApproval(c) \/ StoreFails(c) \/ GateAudit(c) \/ Prepare(c)
    \/ ConsumeApproval(c) \/ Execute(c) \/ SaveDownload(c) \/ Report(c)

\* Every call has been answered or lost, and nothing is left to approve.
Quiescent ==
    /\ \A c \in Calls : pc[c] \in {"done", "dead"}
    /\ \A k \in Clis : cli[k] = "gone"
    /\ now = MaxNow
    /\ UNCHANGED vars

Next ==
    \/ Tick
    \/ \E k \in Clis :
        \/ \E r \in Refs, q \in Payloads : CliCreate(k, r, q)
        \/ \E v \in Verdicts : CliDecide(k, v)
        \/ CliStops(k)
    \/ \E c \in Calls :
        \/ \E i \in Inputs[c] : Receive(c, i)
        \/ Step(c)
    \/ ServerStops
    \/ Quiescent

Spec == Init /\ [][Next]_vars

\* A handler that runs keeps running: the store's locks and Velociraptor's
\* calls have timeouts.
FairSpec == Spec /\ \A c \in Calls : WF_vars(Step(c))

-----------------------------------------------------------------------------
(* Properties *)

Ref(c) == input[c].ref

\* One approval authorises at most one execution attempt: of all the calls
\* that name it, concurrent, later, or after a restart of the server, only
\* one ever reaches Velociraptor.
OneExecutionPerApproval ==
    \A c, d \in Calls :
        issued[c] # <<>> /\ issued[d] # <<>> /\ Ref(c) = Ref(d) => c = d

\* What selects the endpoints and the work of an operation.
Targeting(q) == <<q.op, q.target, q.label, q.all,
                  {q.ids[n] : n \in DOMAIN q.ids}>>

\* Velociraptor is only ever called under an approval that a human has
\* granted for this operation on this target and this scope, and that has
\* been consumed.  It still holds when the call is made, several steps after
\* verifyApproval has looked; only the TTL, which Consume does not look at
\* again, is that of the verification.
ExecutionAuthorised ==
    \A c \in Calls :
        issued[c] # <<>> =>
            LET rec == records[Ref(c)] IN
            /\ rec # None /\ rec.decision = "approved" /\ rec.consumed
            /\ Targeting(rec.req) = Targeting(input[c].req)
            /\ verifiedAt[c] - rec.created <= TTL

\* An approval is burned only by a call that nothing but Velociraptor could
\* still refuse: every gate on input, policy, scope and backend has let it
\* through, the attempt is in the audit log, the directory of a download
\* exists, and no call that was refused has consumed it.  (A directory that
\* exists and cannot be written to is the exception: MkdirAll does not notice.)
BurnedOnlyWhenReady ==
    \A r \in Refs :
        /\ usedBy[r] # {} <=> records[r] # None /\ records[r].consumed
        /\ \A c \in usedBy[r] :
            /\ Ref(c) = r
            /\ Accepted(input[c]) /\ BackendReady(input[c].req)
            /\ \A n \in DOMAIN log[c] : log[c][n] # "blocked"
            /\ deps.audit => log[c] # <<>> /\ log[c][1] = "attempt"
            /\ input[c].req.op = "download_flow_upload" =>
                dir \in {"writable", "readonly"}

Terminal == {"blocked", "error", "success"}

Terminals(c) == {n \in DOMAIN log[c] : log[c][n] \in Terminal}

\* The audit log does not misreport: success is recorded only when every call
\* to Velociraptor has succeeded, blocked only when none was made and the
\* approval is left for another call, and no call has two terminal events.
HonestOutcome ==
    \A c \in Calls :
        /\ Cardinality(Terminals(c)) <= 1
        /\ \A n \in Terminals(c) :
            /\ n = Len(log[c])
            /\ log[c][n] = "success" =>
                /\ Len(issued[c]) = Units(input[c].req)
                /\ \A m \in DOMAIN issued[c] : issued[c][m].reply = "ok"
            /\ log[c][n] = "blocked" =>
                issued[c] = <<>> /\ c \notin usedBy[Ref(c)]

\* Every call that has returned has left exactly one terminal event, unless a
\* write to the audit log failed.  The calls that validateHuntWriteInput turns
\* away, which leave none, are the only exception.
AuditedUnlessMalformed ==
    deps.audit =>
        \A c \in Calls :
            pc[c] = "done" /\ ~missed[c] /\ ~Unaudited(input[c]) =>
                Cardinality(Terminals(c)) = 1

\* Every call is answered, unless the server stops first.
CallsFinish == \A c \in Calls : pc[c] \in Working ~> pc[c] \in {"done", "dead"}
=============================================================================
