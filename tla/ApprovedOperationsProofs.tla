----------------------- MODULE ApprovedOperationsProofs -----------------------
(***************************************************************************)
(* Proofs about ApprovedOperations, for any approvals, calls, arguments,   *)
(* profiles and policy: what the write tools send is what was approved.    *)
(***************************************************************************)
EXTENDS ApprovedOperations, TLAPS

\* The arguments of a call that passed the gates, as far as they do not
\* depend on the profiles loaded.
Usable(a) ==
    /\ a.op \in ProfileOps => a.profile \in Profiles
    /\ a.op \in HuntStarts => ValidScope(a) /\ a.ids = <<>>
    /\ a.op = "hunt_ioc" => Bindable(a)

-----------------------------------------------------------------------------
(* Requests and what they stand for *)

\* Two requests with the same fingerprint agree on every field it hashes.
LEMMA FingerprintInjective ==
    ASSUME NEW q, NEW p, RequestFingerprint(q) = RequestFingerprint(p)
    PROVE  /\ q.op = p.op /\ q.case = p.case /\ q.client = p.client
           /\ q.artifact = p.artifact /\ q.profile = p.profile
           /\ q.hunt = p.hunt /\ q.flow = p.flow /\ q.upload = p.upload
           /\ q.label = p.label /\ q.all = p.all
           /\ Pairs(q.params) = Pairs(p.params) /\ Len(q.ids) = Len(p.ids)
  BY DEF RequestFingerprint

\* The fields of the request that the approve command stores.
LEMMA CliFields ==
    ASSUME NEW f \in Args
    PROVE  /\ CliRequest(f).op = f.op /\ CliRequest(f).case = f.case
           /\ f.op \in {"collect_artifact", "collect_dfir_profile",
                        "cancel_flow", "download_flow_upload"} =>
                CliRequest(f).client = f.client
           /\ f.op \in {"collect_artifact", "start_hunt"} =>
                /\ CliRequest(f).artifact = f.artifact
                /\ CliRequest(f).params = f.params
           /\ f.op \in ProfileOps => CliRequest(f).profile = f.profile
           /\ f.op \in {"cancel_flow", "download_flow_upload"} =>
                CliRequest(f).flow = f.flow
           /\ f.op = "download_flow_upload" =>
                CliRequest(f).upload = f.upload
           /\ f.op = "cancel_hunt" => CliRequest(f).hunt = f.hunt
           /\ f.op = "hunt_ioc" =>
                /\ CliRequest(f).artifact = HashHunter
                /\ CliRequest(f).params =
                       [k \in {HashListParam(f.value)} |-> f.value]
           /\ f.op \in HuntStarts =>
                /\ CliRequest(f).ids = f.ids
                /\ CliRequest(f).label = f.label
                /\ CliRequest(f).all = f.all
<1>1. f.op \in Ops
  BY ApprovedAssumption
<1> QED
  BY ZenonT(60), <1>1 DEF Ops, ProfileOps, HuntStarts, CliRequest, Blank,
              BuildHuntIOCApprovalRequest

\* Each handler's candidate has the same fields as the command's request.
LEMMA CandidateIsRequest ==
    ASSUME NEW a \in Args
    PROVE  Candidate(a) = CliRequest(a)
<1>1. a.op \in Ops
  BY ApprovedAssumption
<1> QED
  BY <1>1 DEF Ops, Candidate, CliRequest, CollectArtifactCandidate,
       CollectDFIRProfileCandidate, CancelFlowCandidate,
       DownloadFlowUploadCandidate, StartHuntCandidate,
       StartDFIRHuntCandidate, CancelHuntCandidate

\* The one parameter of a hunt for a hash.
LEMMA OnePair ==
    ASSUME NEW k, NEW v
    PROVE  Pairs([x \in {k} |-> v]) = {<<k, v>>}
  BY DEF Pairs

\* A valid scope without client ids is a label or every client.
LEMMA ScopeWithoutIds ==
    ASSUME NEW a, ValidScope(a), a.ids = <<>>
    PROVE  a.label # None \/ a.all
  BY DEF ValidScope

\* A profile has as many RPCs as entries, any other call has one.
LEMMA UnitsCounted ==
    ASSUME NEW a \in Args, Usable(a), loaded \in [Profiles -> Contents]
    PROVE  /\ Len(Units(a)) \in Nat
           /\ a.op \in ProfileOps => DOMAIN loaded[a.profile] = 1..Len(Units(a))
           /\ a.op \notin ProfileOps => Len(Units(a)) = 1
<1>1. a.op \in Ops
  BY ApprovedAssumption
<1>2. CASE a.op \notin ProfileOps
  BY <1>1, <1>2 DEF Units, Ops, ProfileOps
<1>3. CASE a.op \in ProfileOps
  <2> DEFINE s == loaded[a.profile]
  <2>1. s \in Contents
    BY <1>3 DEF Usable
  <2>2. s \in Seq({s[n] : n \in DOMAIN s})
    BY <2>1, ApprovedAssumption
  <2>3. Len(s) \in Nat /\ DOMAIN s = 1..Len(s)
    BY <2>2
  <2>4. DOMAIN Units(a) = 1..Len(s)
    BY ZenonT(60), <1>3, <2>3 DEF Units, ProfileOps
  <2>5. Units(a) = [n \in 1..Len(s) |-> Units(a)[n]]
    BY <1>3, <2>3, <2>4 DEF Units, ProfileOps
  <2>6. Units(a) \in Seq({Units(a)[n] : n \in 1..Len(s)})
    BY <2>3, <2>5
  <2>7. Len(Units(a)) = Len(s)
    BY <2>3, <2>4, <2>6
  <2> QED BY <1>3, <2>3, <2>7
<1> QED BY <1>2, <1>3

\* What a call sends for each entry of the profile it names.
LEMMA ProfileUnits ==
    ASSUME NEW a \in Args, a.op \in ProfileOps, Usable(a),
           loaded \in [Profiles -> Contents],
           NEW k \in Nat \ {0}, k <= Len(Units(a))
    PROVE  /\ k \in DOMAIN loaded[a.profile]
           /\ a.op = "collect_dfir_profile" =>
                Units(a)[k] = CollectRpc(a.client, loaded[a.profile][k].name,
                                         loaded[a.profile][k].params)
           /\ a.op = "start_dfir_hunt" =>
                Units(a)[k] = CreateHuntRpc(a, loaded[a.profile][k].name,
                                  loaded[a.profile][k].params,
                                  ClientLimit(a.max))
<1>1. k \in DOMAIN loaded[a.profile]
  BY UnitsCounted
<1> QED BY <1>1 DEF Units, ProfileOps

\* The limit of every hunt is the policy's or a lower one.
LEMMA LimitBounded ==
    ASSUME NEW max \in Nat
    PROVE  /\ ClientLimit(max) \in 1..ConfiguredMaxHuntClients
           /\ max > 0 => ClientLimit(max) <= max
  BY ApprovedAssumption DEF ClientLimit, ConfiguredMaxHuntClients
\* Every RPC of a call whose candidate has the fingerprint of the request
\* stored for the flags f is one that f stands for, with the profiles loaded.
LEMMA UnitAgreed ==
    ASSUME NEW f \in Args, NEW a \in Args, Usable(a),
           RequestFingerprint(Candidate(a)) = RequestFingerprint(CliRequest(f)),
           loaded \in [Profiles -> Contents],
           NEW k \in Nat \ {0}, k <= Len(Units(a))
    PROVE  f.case = a.case /\ Agreed(f, loaded, Units(a)[k])
<1> DEFINE q == CliRequest(a)
           p == CliRequest(f)
<1>1. RequestFingerprint(q) = RequestFingerprint(p)
  BY CandidateIsRequest
<1>2. /\ q.op = p.op /\ q.case = p.case /\ q.client = p.client
      /\ q.artifact = p.artifact /\ q.profile = p.profile
      /\ q.hunt = p.hunt /\ q.flow = p.flow /\ q.upload = p.upload
      /\ q.label = p.label /\ q.all = p.all
      /\ Pairs(q.params) = Pairs(p.params) /\ Len(q.ids) = Len(p.ids)
  BY <1>1, FingerprintInjective
<1> HIDE DEF q, p
<1>3. f.op = a.op /\ f.case = a.case
  BY <1>2, CliFields DEF q, p
<1>4. a.op \in Ops
  BY ApprovedAssumption
<1>5. ASSUME a.op \in HuntStarts
      PROVE  /\ f.ids = <<>> /\ (f.label # None \/ f.all)
             /\ f.label = a.label
  <2>1. f.label = a.label /\ f.all = a.all /\ Len(f.ids) = Len(a.ids)
    BY <1>2, <1>3, <1>5, CliFields DEF q, p
  <2>2. a.ids = <<>> /\ (a.label # None \/ a.all)
    BY <1>5, ScopeWithoutIds DEF Usable
  <2>3. Len(f.ids) = 0
    BY <2>1, <2>2
  <2>4. f.ids \in Seq({f.ids[n] : n \in DOMAIN f.ids})
    BY ApprovedAssumption
  <2>5. f.ids = <<>>
    BY <2>3, <2>4
  <2> QED BY <2>1, <2>2, <2>5
<1>6. CASE a.op \in ProfileOps
  <2>1. f.profile = a.profile /\ a.profile \in Profiles
    BY <1>2, <1>3, <1>6, CliFields DEF q, p, Usable
  <2>2. CASE a.op = "collect_dfir_profile"
    <3>1. f.client = a.client
      BY ZenonT(60), <1>2, <1>3, <2>2, CliFields DEF q, p
    <3> QED BY <1>3, <1>6, <2>1, <2>2, <3>1, ProfileUnits
            DEF Agreed, CollectRpc, CollectOf
  <2>3. CASE a.op = "start_dfir_hunt"
    <3>1. f.ids = <<>> /\ (f.label # None \/ f.all) /\ f.label = a.label
      BY <1>5, <2>3 DEF HuntStarts
    <3> DEFINE e == loaded[a.profile][k]
    <3>2. /\ k \in DOMAIN loaded[a.profile]
          /\ Units(a)[k] =
               CreateHuntRpc(a, e.name, e.params, ClientLimit(a.max))
      BY <1>6, <2>1, <2>3, ProfileUnits
    <3>3. Units(a)[k] = HuntOf(f, e.name, Pairs(e.params), Units(a)[k].limit)
      BY <3>1, <3>2 DEF CreateHuntRpc, HuntOf, HuntCondition
    <3> QED BY <1>3, <2>1, <2>3, <3>1, <3>2, <3>3 DEF Agreed
  <2> QED BY <1>6, <2>2, <2>3 DEF ProfileOps
<1>7. CASE a.op \notin ProfileOps
  <2> DEFINE m == Units(a)[1]
  <2>0. Len(Units(a)) = 1
    BY <1>7, UnitsCounted
  <2>1. k = 1
    BY <2>0
  <2>2. CASE a.op = "collect_artifact"
    BY ZenonT(60), <1>2, <1>3, <2>1, <2>2, CliFields
       DEF Agreed, Units, CollectRpc, CollectOf, q, p
  <2>3. CASE a.op = "cancel_flow"
    BY ZenonT(60), <1>2, <1>3, <2>1, <2>3, CliFields
       DEF Agreed, Units, CancelFlowRpc, q, p
  <2>4. CASE a.op = "download_flow_upload"
    BY ZenonT(60), <1>2, <1>3, <2>1, <2>4, CliFields
       DEF Agreed, Units, DownloadRpc, q, p
  <2>5. CASE a.op = "cancel_hunt"
    BY <1>2, <1>3, <2>1, <2>5, CliFields DEF Agreed, Units, ModifyHuntRpc, q, p
  <2>6. CASE a.op = "start_hunt"
    <3>1. f.ids = <<>> /\ (f.label # None \/ f.all) /\ f.label = a.label
      BY <1>5, <2>6 DEF HuntStarts
    <3>2. f.artifact = a.artifact /\ Pairs(f.params) = Pairs(a.params)
      BY ZenonT(60), <1>2, <1>3, <2>6, CliFields DEF q, p
    <3>3. m = CreateHuntRpc(a, a.artifact, a.params, ClientLimit(a.max))
      BY <2>6 DEF Units
    <3> QED BY <1>3, <2>1, <2>6, <3>1, <3>2, <3>3
            DEF Agreed, CreateHuntRpc, HuntOf, HuntCondition
  <2>7. CASE a.op = "hunt_ioc"
    <3>1. f.ids = <<>> /\ (f.label # None \/ f.all) /\ f.label = a.label
      BY <1>5, <2>7 DEF HuntStarts
    <3>2. q.artifact = HashHunter
      BY <2>7, CliFields DEF q
    <3>3. Pairs(q.params) = {<<HashListParam(f.value), f.value>>}
      <4>1. p.params = [x \in {HashListParam(f.value)} |-> f.value]
        BY ZenonT(60), <1>3, <2>7, CliFields DEF p
      <4>2. Pairs(p.params) = {<<HashListParam(f.value), f.value>>}
        BY <4>1, OnePair
      <4> QED BY <1>2, <4>2
    <3>4. m = CreateHuntRpc(a, q.artifact, q.params, ClientLimit(a.max))
      BY <2>7, CandidateIsRequest DEF Units, q
    <3> QED BY <1>3, <2>1, <2>7, <3>1, <3>2, <3>3, <3>4
            DEF Agreed, CreateHuntRpc, HuntOf, HuntCondition
  <2> QED BY <1>4, <1>7, <2>2, <2>3, <2>4, <2>5, <2>6, <2>7
          DEF Ops, ProfileOps
<1> QED BY <1>3, <1>6, <1>7

\* The limit of every hunt is the policy's or a lower one.
LEMMA UnitBounded ==
    ASSUME NEW a \in Args, Usable(a), loaded \in [Profiles -> Contents],
           NEW k \in Nat \ {0}, k <= Len(Units(a)),
           Units(a)[k].rpc = "CreateHunt"
    PROVE  Units(a)[k].limit = ClientLimit(a.max)
<1>1. a.op \in Ops
  BY ZenonT(60), ApprovedAssumption
<1>2. CASE a.op \in ProfileOps
  <2> DEFINE e == loaded[a.profile][k]
  <2>1. \/ Units(a)[k] = CollectRpc(a.client, e.name, e.params)
        \/ Units(a)[k] = CreateHuntRpc(a, e.name, e.params, ClientLimit(a.max))
    BY <1>2, ProfileUnits DEF Usable, ProfileOps
  <2> QED BY <2>1 DEF CollectRpc, CreateHuntRpc
<1>3. CASE a.op \notin ProfileOps
  <2>1. k = 1
    BY <1>3, UnitsCounted
  <2> QED
    BY <1>1, <1>3, <2>1 DEF Units, Ops, ProfileOps, CollectRpc, CreateHuntRpc,
         CancelFlowRpc, DownloadRpc, ModifyHuntRpc
<1> QED BY <1>2, <1>3
-----------------------------------------------------------------------------
(* The inductive invariant *)

IsSeq(s) == s \in Seq({s[n] : n \in DOMAIN s})

Fields == {"stage", "in", "why", "sent", "named", "logged"}
Stages == {"idle", "running", "answered", "killed"}

TypeOK ==
    /\ approvals \in [Refs -> Approval \cup {None}]
    /\ files \in [Profiles -> Contents] /\ loaded \in [Profiles -> Contents]
    /\ edits \in Nat
    /\ DOMAIN calls = Calls
    /\ \A c \in Calls :
          /\ DOMAIN calls[c] = Fields
          /\ calls[c].stage \in Stages
          /\ calls[c].stage # "idle" => calls[c].in \in Input
          /\ IsSeq(Sent(c))

\* A stored request is the one its flags stand for, and as long as nobody has
\* edited a profile it was approved with the profiles the server has loaded.
StoreInv ==
    /\ \A r \in Refs : approvals[r] # None =>
          /\ approvals[r].request = CliRequest(approvals[r].flags)
          /\ edits = 0 => approvals[r].seen = files
    /\ edits = 0 => loaded = files

\* The store has an approval for what the input i asks for.
Admitted(i) ==
    /\ approvals[i.ref] # None /\ approvals[i.ref].verdict = "approved"
    /\ RequestFingerprint(Candidate(i.args)) =
         RequestFingerprint(approvals[i.ref].request)
    /\ Usable(i.args)

\* A call that sends, or has sent, was admitted; one that was turned away for
\* another request asked for another one; and a failed RPC is the last.
CallInv ==
    \A c \in Calls :
        /\ calls[c].stage = "idle" => calls[c].why = None /\ Sent(c) = <<>>
        /\ calls[c].stage = "running" \/ Sent(c) # <<>> =>
              Admitted(calls[c].in)
        /\ calls[c].why = "mismatch" =>
              /\ approvals[calls[c].in.ref] # None
              /\ RequestFingerprint(Candidate(calls[c].in.args)) #
                   RequestFingerprint(approvals[calls[c].in.ref].request)
        /\ \A n \in DOMAIN Sent(c) : ~Sent(c)[n].ok => n = Len(Sent(c))

IInv ==
    /\ TypeOK /\ StoreInv /\ CallInv
    /\ ExecutesWhatWasApproved /\ HuntsBounded /\ ProgressReported

-----------------------------------------------------------------------------
(* What a step does to an approval and to a call *)

\* Consuming an approval changes nothing else in its record.
LEMMA Consumed ==
    ASSUME NEW ap \in Approval
    PROVE  LET after == [ap EXCEPT !.used = TRUE] IN
           /\ after \in Approval /\ after # None
           /\ after.flags = ap.flags /\ after.request = ap.request
           /\ after.seen = ap.seen /\ after.verdict = ap.verdict
<1> DEFINE after == [ap EXCEPT !.used = TRUE]
<1>1. after \in Approval
  BY ZenonT(30) DEF Approval
<1>2. after # None
  BY <1>1, NoneAssumption
<1>3. /\ after.flags = ap.flags /\ after.request = ap.request
      /\ after.seen = ap.seen /\ after.verdict = ap.verdict
  BY DEF Approval
<1> QED BY <1>1, <1>2, <1>3

\* A call that no gate refuses is admitted.
LEMMA GatesAdmit ==
    ASSUME TypeOK, NEW i \in Input, Refusal(i) = None
    PROVE  Admitted(i) /\ approvals[i.ref] \in Approval
<1> DEFINE ap == approvals[i.ref]
<1>1. i.ref \in Refs /\ i.args \in Args
  BY DEF Input
<1>2. PolicyAllows(i.args) /\ Unverified(i) = None /\ BackendReady(i.args)
  BY NoneAssumption DEF Refusal
<1>3. ap # None /\ ap.verdict # "denied"
  BY <1>2, NoneAssumption DEF Unverified
<1>4. RequestFingerprint(Candidate(i.args)) = RequestFingerprint(ap.request)
  BY <1>2, NoneAssumption DEF Unverified
<1>5. ap \in Approval
  BY <1>1, <1>3 DEF TypeOK
<1>6. ap.verdict = "approved"
  BY <1>3, <1>5 DEF Approval, Verdicts
<1>7. Usable(i.args)
  BY <1>2 DEF PolicyAllows, BackendReady, Usable
<1> QED BY <1>3, <1>4, <1>5, <1>6, <1>7 DEF Admitted

\* An approval, once stored, keeps its flags, its request and its verdict.
LEMMA ApprovalKept ==
    ASSUME TypeOK, Next, NEW r \in Refs, approvals[r] # None
    PROVE  /\ approvals'[r] # None
           /\ approvals'[r].flags = approvals[r].flags
           /\ approvals'[r].request = approvals[r].request
           /\ approvals'[r].seen = approvals[r].seen
           /\ approvals'[r].verdict = approvals[r].verdict
<1>1. ASSUME NEW q \in Refs, NEW f \in Args, NEW v \in Verdicts,
             Approve(q, f, v)
      PROVE  approvals'[r] = approvals[r]
  BY <1>1 DEF Approve, TypeOK
<1>2. ASSUME NEW c \in Calls, NEW i \in Input, Admit(c, i)
      PROVE  approvals'[r] \in {approvals[r],
                                [approvals[r] EXCEPT !.used = TRUE]}
  BY <1>2 DEF Admit, TypeOK
<1>3. approvals[r] \in Approval
  BY DEF TypeOK
<1>4. \/ approvals'[r] = approvals[r]
      \/ approvals'[r] = [approvals[r] EXCEPT !.used = TRUE]
  <2>1. \/ approvals' = approvals
        \/ \E q \in Refs, f \in Args, v \in Verdicts : Approve(q, f, v)
        \/ \E c \in Calls, i \in Input : Admit(c, i)
    BY ZenonT(60) DEF Next, Refuse, RefuseUnaudited, SendUnit, Answer,
           EditProfile, Restart
  <2> QED BY <1>1, <1>2, <2>1
<1> QED BY <1>3, <1>4, Consumed
\* What the actions do to one call.
Turned(d) ==
    \E i \in Input :
        /\ calls[d].stage = "idle" /\ calls'[d].stage = "answered"
        /\ calls'[d].in = i /\ calls'[d].sent = calls[d].sent
        /\ calls'[d].why \in {Refusal(i), "audit"} /\ calls'[d].why # None
        /\ approvals' = approvals

Started(d) ==
    \E i \in Input :
        /\ calls[d].stage = "idle" /\ calls'[d].stage = "running"
        /\ calls'[d].in = i /\ Refusal(i) = None
        /\ calls'[d].why = calls[d].why /\ calls'[d].sent = calls[d].sent

Sends(d) ==
    /\ Remaining(d)
    /\ calls'[d].stage = "running" /\ calls'[d].in = calls[d].in
    /\ calls'[d].why = calls[d].why
    /\ \E acted, ok \in BOOLEAN :
          calls'[d].sent = Append(calls[d].sent,
              [rpc |-> Units(calls[d].in.args)[Len(calls[d].sent) + 1],
               acted |-> acted, ok |-> ok])
    /\ UNCHANGED <<approvals, loaded, edits>>

Answers(d) ==
    /\ calls[d].stage = "running" /\ calls'[d].stage = "answered"
    /\ calls'[d].in = calls[d].in /\ calls'[d].why = calls[d].why
    /\ calls'[d].sent = calls[d].sent /\ calls'[d].named = Named(d)

Killed(d) ==
    /\ calls[d].stage = "running" /\ calls'[d].stage = "killed"
    /\ calls'[d].in = calls[d].in /\ calls'[d].why = calls[d].why
    /\ calls'[d].sent = calls[d].sent

\* Every step does one of these to a call, or leaves it alone.
LEMMA CallMoves ==
    ASSUME TypeOK, Next, NEW d \in Calls
    PROVE  /\ DOMAIN calls' = Calls /\ DOMAIN calls'[d] = Fields
           /\ \/ calls'[d] = calls[d]
              \/ Turned(d) \/ Started(d) \/ Sends(d) \/ Answers(d) \/ Killed(d)
<1> DEFINE Goal == /\ DOMAIN calls' = Calls /\ DOMAIN calls'[d] = Fields
                   /\ \/ calls'[d] = calls[d]
                      \/ Turned(d) \/ Started(d) \/ Sends(d)
                      \/ Answers(d) \/ Killed(d)
<1>0. /\ DOMAIN calls = Calls
      /\ \A c \in Calls : DOMAIN calls[c] = Fields
  BY DEF TypeOK
<1>1. ASSUME calls' = calls
      PROVE  Goal
  BY <1>0, <1>1
<1>2. ASSUME NEW c \in Calls, NEW i \in Input, Refuse(c, i)
      PROVE  Goal
  <2>1. CASE c = d
    <3>1. Turned(d)
      BY <1>0, <1>2, <2>1 DEF Refuse, Turned, Fields
    <3> QED BY <1>0, <1>2, <3>1 DEF Refuse
  <2>2. CASE c # d
    BY <1>0, <1>2, <2>2 DEF Refuse
  <2> QED BY <2>1, <2>2
<1>3. ASSUME NEW c \in Calls, NEW i \in Input, RefuseUnaudited(c, i)
      PROVE  Goal
  <2>1. CASE c = d
    <3>1. Turned(d)
      BY <1>0, <1>3, <2>1, NoneAssumption DEF RefuseUnaudited, Turned, Fields
    <3> QED BY <1>0, <1>3, <3>1 DEF RefuseUnaudited
  <2>2. CASE c # d
    BY <1>0, <1>3, <2>2 DEF RefuseUnaudited
  <2> QED BY <2>1, <2>2
<1>4. ASSUME NEW c \in Calls, NEW i \in Input, Admit(c, i)
      PROVE  Goal
  <2>1. CASE c = d
    <3>1. Started(d)
      BY <1>0, <1>4, <2>1 DEF Admit, Started, Fields
    <3> QED BY <1>0, <1>4, <3>1 DEF Admit
  <2>2. CASE c # d
    BY <1>0, <1>4, <2>2 DEF Admit
  <2> QED BY <2>1, <2>2
<1>5. ASSUME NEW c \in Calls, SendUnit(c)
      PROVE  Goal
  <2>1. PICK acted \in BOOLEAN, ok \in BOOLEAN :
          calls' = [calls EXCEPT ![c].sent = Append(@,
              [rpc |-> Units(calls[c].in.args)[Len(Sent(c)) + 1],
               acted |-> acted, ok |-> ok])]
    BY <1>5 DEF SendUnit
  <2>2. CASE c = d
    <3>1. calls'[d].sent = Append(calls[d].sent,
              [rpc |-> Units(calls[d].in.args)[Len(calls[d].sent) + 1],
               acted |-> acted, ok |-> ok])
      BY <1>0, <2>1, <2>2 DEF Fields, Sent
    <3>2. /\ calls'[d].stage = calls[d].stage /\ calls'[d].in = calls[d].in
          /\ calls'[d].why = calls[d].why
      BY <1>0, <2>1, <2>2 DEF Fields
    <3>3. /\ Remaining(d) /\ calls[d].stage = "running"
          /\ UNCHANGED <<approvals, loaded, edits>>
      BY <1>5, <2>2 DEF SendUnit, Remaining
    <3>4. Sends(d)
      BY <3>1, <3>2, <3>3 DEF Sends
    <3> QED BY <1>0, <2>1, <3>4
  <2>3. CASE c # d
    BY <1>0, <2>1, <2>3
  <2> QED BY <2>2, <2>3
<1>6. ASSUME NEW c \in Calls, Answer(c)
      PROVE  Goal
  <2>1. CASE c = d
    <3>1. Answers(d)
      BY <1>0, <1>6, <2>1 DEF Answer, Answers, Fields
    <3> QED BY <1>0, <1>6, <3>1 DEF Answer
  <2>2. CASE c # d
    BY <1>0, <1>6, <2>2 DEF Answer
  <2> QED BY <2>1, <2>2
<1>7. ASSUME Restart
      PROVE  Goal
  <2>1. CASE calls[d].stage = "running"
    <3>1. Killed(d)
      BY <1>0, <1>7, <2>1 DEF Restart, Killed, Fields
    <3> QED BY <1>0, <1>7, <2>1, <3>1 DEF Restart
  <2>2. CASE calls[d].stage # "running"
    BY <1>0, <1>7, <2>2 DEF Restart
  <2> QED BY <2>1, <2>2
<1>8. \/ calls' = calls
      \/ \E c \in Calls, i \in Input :
            Refuse(c, i) \/ RefuseUnaudited(c, i) \/ Admit(c, i)
      \/ \E c \in Calls : SendUnit(c) \/ Answer(c)
      \/ Restart
  BY DEF Next, Approve, EditProfile
<1> HIDE DEF Goal
<1>9. Goal
  BY <1>1, <1>2, <1>3, <1>4, <1>5, <1>6, <1>7, <1>8
<1> QED BY <1>9 DEF Goal

\* Appending to a sequence.
LEMMA Appended ==
    ASSUME NEW s, IsSeq(s), NEW e
    PROVE  LET t == Append(s, e) IN
           /\ Len(s) \in Nat /\ DOMAIN s = 1..Len(s)
           /\ Len(t) = Len(s) + 1 /\ DOMAIN t = 1..Len(s) + 1
           /\ \A n \in DOMAIN s : t[n] = s[n]
           /\ t[Len(s) + 1] = e
           /\ IsSeq(t)
<1> DEFINE S == {s[n] : n \in DOMAIN s} \cup {e}
           t == Append(s, e)
<1>1. s \in Seq(S) /\ e \in S
  BY DEF IsSeq
<1>2. Len(s) \in Nat /\ DOMAIN s = 1..Len(s)
  BY <1>1
<1>3. /\ t \in Seq(S) /\ Len(t) = Len(s) + 1
      /\ \A n \in 1..Len(s) : t[n] = s[n]
      /\ t[Len(s) + 1] = e
  BY <1>1
<1>4. DOMAIN t = 1..Len(s) + 1
  BY <1>3
<1>5. IsSeq(t)
  BY <1>3 DEF IsSeq
<1> QED BY <1>2, <1>3, <1>4, <1>5

\* One more RPC has been sent.
LEMMA SentOneMore ==
    ASSUME NEW s, IsSeq(s), NEW rpc, NEW acted, NEW ok, NEW t,
           t = Append(s, [rpc |-> rpc, acted |-> acted, ok |-> ok])
    PROVE  /\ Len(s) + 1 \in Nat \ {0} /\ DOMAIN s = 1..(Len(s) + 1) - 1
           /\ DOMAIN t = 1..Len(s) + 1
           /\ \A m \in DOMAIN s : t[m] = s[m]
           /\ t[Len(s) + 1].rpc = rpc
<1>1. /\ Len(s) \in Nat /\ DOMAIN s = 1..Len(s)
      /\ DOMAIN t = 1..Len(s) + 1
      /\ \A m \in DOMAIN s : t[m] = s[m]
      /\ t[Len(s) + 1] = [rpc |-> rpc, acted |-> acted, ok |-> ok]
  BY Appended
<1> QED BY <1>1

-----------------------------------------------------------------------------
(* Every step preserves the invariant *)

\* Only an edit changes the profile files, and only a restart loads them.
LEMMA ProfilesMove ==
    ASSUME Next
    PROVE  \/ UNCHANGED <<files, loaded, edits>>
           \/ \E p \in Profiles, t \in Contents : EditProfile(p, t)
           \/ loaded' = files /\ UNCHANGED <<files, edits>>
  BY ZenonT(30) DEF Next, Approve, Refuse, RefuseUnaudited, Admit, SendUnit,
         Answer, Restart

\* Every step keeps the variables in their types.
LEMMA TypeStep ==
    ASSUME TypeOK, Next
    PROVE  TypeOK'
<1>1. approvals' \in [Refs -> Approval \cup {None}]
  <2>1. ASSUME NEW r \in Refs, NEW f \in Args, NEW v \in Verdicts,
               Approve(r, f, v)
        PROVE  approvals' \in [Refs -> Approval \cup {None}]
    <3> DEFINE ap == [flags |-> f, request |-> CliRequest(f), seen |-> files,
                      verdict |-> v, used |-> FALSE]
    <3>1. f \in {g \in Args : g.op = "hunt_ioc" => Bindable(g)}
      BY <2>1 DEF Approve
    <3>2. files \in [Profiles -> Contents]
      BY DEF TypeOK
    <3>3. ap \in Approval
      BY <3>1, <3>2 DEF Approval
    <3>4. approvals' = [approvals EXCEPT ![r] = ap]
      BY <2>1 DEF Approve
    <3> HIDE DEF ap
    <3> QED BY <3>3, <3>4 DEF TypeOK
  <2>2. ASSUME NEW c \in Calls, NEW i \in Input, Admit(c, i)
        PROVE  approvals' \in [Refs -> Approval \cup {None}]
    <3>1. approvals[i.ref] \in Approval /\ i.ref \in Refs
      BY <2>2, GatesAdmit DEF Admit, Input
    <3>2. [approvals[i.ref] EXCEPT !.used = TRUE] \in Approval
      BY <3>1, Consumed
    <3>3. approvals' = [approvals EXCEPT ![i.ref] =
                            [approvals[i.ref] EXCEPT !.used = TRUE]]
      BY SMTT(60), <2>2 DEF Admit
    <3> QED BY <3>1, <3>2, <3>3 DEF TypeOK
  <2>3. \/ approvals' = approvals
        \/ \E q \in Refs, f \in Args, v \in Verdicts : Approve(q, f, v)
        \/ \E c \in Calls, i \in Input : Admit(c, i)
    BY ZenonT(60) DEF Next, Refuse, RefuseUnaudited, SendUnit, Answer,
           EditProfile, Restart
  <2> QED BY <2>1, <2>2, <2>3 DEF TypeOK
<1>2. /\ files' \in [Profiles -> Contents] /\ loaded' \in [Profiles -> Contents]
      /\ edits' \in Nat
  BY ProfilesMove DEF TypeOK, EditProfile
<1>3. ASSUME NEW d \in Calls
      PROVE  /\ DOMAIN calls'[d] = Fields /\ calls'[d].stage \in Stages
             /\ calls'[d].stage # "idle" => calls'[d].in \in Input
             /\ IsSeq(calls'[d].sent)
  <2>1. /\ calls[d].stage \in Stages
        /\ calls[d].stage # "idle" => calls[d].in \in Input
        /\ IsSeq(calls[d].sent)
    BY DEF TypeOK, Sent
  <2>2. DOMAIN calls'[d] = Fields
    BY CallMoves
  <2>3. CASE Sends(d)
    <3>1. /\ calls[d].stage = "running"
          /\ calls'[d].stage = "running" /\ calls'[d].in = calls[d].in
      BY <2>3 DEF Sends, Remaining
    <3>2. PICK e : calls'[d].sent = Append(calls[d].sent, e)
      BY <2>3 DEF Sends
    <3>3. IsSeq(calls'[d].sent)
      BY <2>1, <3>2, Appended
    <3> QED BY <2>1, <2>2, <3>1, <3>3 DEF Stages
  <2>4. CASE ~Sends(d)
    <3>1. calls'[d].sent = calls[d].sent
      BY <2>4, CallMoves DEF Turned, Started, Answers, Killed
    <3>2. /\ calls'[d].stage \in Stages
          /\ calls'[d].stage # "idle" => calls'[d].in \in Input
      BY <2>1, <2>4, CallMoves DEF Turned, Started, Answers, Killed, Stages
    <3> QED BY <2>1, <2>2, <3>1, <3>2
  <2> QED BY <2>3, <2>4
<1>4. DOMAIN calls' = Calls
  <2>1. CASE Calls = {}
    BY <2>1 DEF TypeOK, Next, Approve, EditProfile, Restart
  <2>2. CASE Calls # {}
    BY <2>2, CallMoves
  <2> QED BY <2>1, <2>2
<1> QED BY <1>1, <1>2, <1>3, <1>4 DEF TypeOK, Sent

\* What is stored stays what its flags stand for.
LEMMA StoreStep ==
    ASSUME TypeOK, StoreInv, Next
    PROVE  StoreInv'
<1>1. edits' = 0 => edits = 0 /\ files' = files /\ loaded' = loaded
  BY ProfilesMove DEF TypeOK, StoreInv, EditProfile
<1>2. ASSUME NEW r \in Refs, approvals[r] # None
      PROVE  /\ approvals'[r].request = CliRequest(approvals'[r].flags)
             /\ edits' = 0 => approvals'[r].seen = files'
  BY <1>1, <1>2, ApprovalKept DEF StoreInv
<1>3. ASSUME NEW r \in Refs, approvals[r] = None, approvals'[r] # None
      PROVE  /\ approvals'[r].request = CliRequest(approvals'[r].flags)
             /\ edits' = 0 => approvals'[r].seen = files'
  <2>1. \A c \in Calls, i \in Input : ~Admit(c, i)
    <3> SUFFICES ASSUME NEW c \in Calls, NEW i \in Input, Admit(c, i)
                 PROVE  FALSE
      OBVIOUS
    <3>1. approvals[i.ref] # None
      BY SMTT(60), GatesAdmit DEF Admit, Admitted
    <3> QED BY <1>3, <3>1 DEF Admit, TypeOK
  <2>2. PICK q \in Refs, f \in Args, v \in Verdicts : Approve(q, f, v)
    BY ZenonT(60), <1>3, <2>1
       DEF Next, Refuse, RefuseUnaudited, SendUnit, Answer, EditProfile, Restart
  <2>3. approvals'[r] = [flags |-> f, request |-> CliRequest(f),
                         seen |-> files, verdict |-> v, used |-> FALSE]
    BY <1>3, <2>2 DEF Approve, TypeOK
  <2> QED BY <2>2, <2>3 DEF Approve
<1> QED BY <1>1, <1>2, <1>3 DEF StoreInv
\* An approval that lets a request through keeps doing so.
LEMMA AdmittedKept ==
    ASSUME TypeOK, Next, NEW i \in Input, Admitted(i)
    PROVE  Admitted(i)'
<1>1. i.ref \in Refs
  BY SMTT(60) DEF Input
<1> QED BY <1>1, ApprovalKept DEF Admitted

\* Every step keeps the calls consistent with the store.
LEMMA CallStep ==
    ASSUME TypeOK, CallInv, Next
    PROVE  CallInv'
<1> SUFFICES ASSUME NEW d \in Calls
    PROVE  /\ calls'[d].stage = "idle" =>
                calls'[d].why = None /\ calls'[d].sent = <<>>
           /\ calls'[d].stage = "running" \/ calls'[d].sent # <<>> =>
                \A i : i = calls'[d].in => Admitted(i)'
           /\ calls'[d].why = "mismatch" =>
                /\ approvals'[calls'[d].in.ref] # None
                /\ RequestFingerprint(Candidate(calls'[d].in.args)) #
                     RequestFingerprint(approvals'[calls'[d].in.ref].request)
           /\ \A n \in DOMAIN calls'[d].sent :
                ~calls'[d].sent[n].ok => n = Len(calls'[d].sent)
  BY ZenonT(60) DEF CallInv, Sent, Admitted
<1>1. /\ calls[d].stage = "idle" => calls[d].why = None /\ calls[d].sent = <<>>
      /\ calls[d].stage = "running" \/ calls[d].sent # <<>> =>
            Admitted(calls[d].in)
      /\ calls[d].why = "mismatch" =>
            /\ approvals[calls[d].in.ref] # None
            /\ RequestFingerprint(Candidate(calls[d].in.args)) #
                 RequestFingerprint(approvals[calls[d].in.ref].request)
      /\ \A n \in DOMAIN calls[d].sent :
            ~calls[d].sent[n].ok => n = Len(calls[d].sent)
  BY DEF CallInv, Sent
<1>2. /\ calls[d].stage # "idle" => calls[d].in \in Input
      /\ IsSeq(calls[d].sent)
  BY DEF TypeOK, Sent
<1>3. ASSUME calls[d].stage # "idle", calls'[d].in = calls[d].in,
             calls'[d].why = calls[d].why, calls'[d].why = "mismatch"
      PROVE  /\ approvals'[calls'[d].in.ref] # None
             /\ RequestFingerprint(Candidate(calls'[d].in.args)) #
                  RequestFingerprint(approvals'[calls'[d].in.ref].request)
  <2>1. calls[d].in.ref \in Refs
    BY <1>2, <1>3 DEF Input
  <2> QED BY <1>1, <1>3, <2>1, ApprovalKept
<1>4. ASSUME calls[d].stage # "idle", calls'[d].in = calls[d].in,
             Admitted(calls[d].in)
      PROVE  \A i : i = calls'[d].in => Admitted(i)'
  BY ZenonT(60), <1>2, <1>4, AdmittedKept
<1>5. CASE calls'[d] = calls[d]
  <2>1. CASE calls[d].stage = "idle"
    BY ZenonT(60), <1>1, <1>5, <2>1, NoneAssumption
  <2>2. CASE calls[d].stage # "idle"
    BY ZenonT(60), <1>1, <1>3, <1>4, <1>5, <2>2
  <2> QED BY <2>1, <2>2
<1>6. CASE Answers(d) \/ Killed(d)
  <2>1. /\ calls[d].stage = "running" /\ calls'[d].stage \notin {"idle", "running"}
        /\ calls'[d].in = calls[d].in /\ calls'[d].why = calls[d].why
        /\ calls'[d].sent = calls[d].sent
    BY <1>6 DEF Answers, Killed
  <2> QED BY <1>1, <1>3, <1>4, <2>1
<1>7. CASE Turned(d)
  <2>1. PICK i \in Input :
          /\ calls[d].stage = "idle" /\ calls'[d].stage = "answered"
          /\ calls'[d].in = i /\ calls'[d].sent = calls[d].sent
          /\ calls'[d].why \in {Refusal(i), "audit"}
          /\ approvals' = approvals
    BY <1>7 DEF Turned
  <2>2. calls'[d].sent = <<>>
    BY <1>1, <2>1
  <2>3. ASSUME calls'[d].why = "mismatch"
        PROVE  /\ approvals[i.ref] # None
               /\ RequestFingerprint(Candidate(i.args)) #
                    RequestFingerprint(approvals[i.ref].request)
    <3>1. Unverified(i) = "mismatch"
      BY <2>1, <2>3, NoneAssumption DEF Refusal
    <3> QED BY <3>1, NoneAssumption DEF Unverified
  <2> QED BY <2>1, <2>2, <2>3
<1>8. CASE Started(d)
  <2>1. PICK i \in Input :
          /\ calls[d].stage = "idle" /\ calls'[d].stage = "running"
          /\ calls'[d].in = i /\ Refusal(i) = None
          /\ calls'[d].why = calls[d].why /\ calls'[d].sent = calls[d].sent
    BY <1>8 DEF Started
  <2>2. calls'[d].sent = <<>> /\ calls'[d].why = None
    BY <1>1, <2>1
  <2>3. Admitted(i)'
    BY ZenonT(60), <2>1, GatesAdmit, AdmittedKept
  <2> QED BY <2>1, <2>2, <2>3, NoneAssumption
<1>9. CASE Sends(d)
  <2>1. /\ calls[d].stage = "running" /\ calls'[d].stage = "running"
        /\ calls'[d].in = calls[d].in /\ calls'[d].why = calls[d].why
        /\ \A n \in DOMAIN calls[d].sent : calls[d].sent[n].ok
    BY ZenonT(60), <1>9 DEF Sends, Remaining, Failed, Sent
  <2>2. PICK e : calls'[d].sent = Append(calls[d].sent, e)
    BY <1>9 DEF Sends
  <2>3. ASSUME NEW n \in DOMAIN calls'[d].sent, ~calls'[d].sent[n].ok
        PROVE  n = Len(calls'[d].sent)
    <3>1. /\ Len(calls[d].sent) \in Nat
          /\ DOMAIN calls[d].sent = 1..Len(calls[d].sent)
          /\ Len(calls'[d].sent) = Len(calls[d].sent) + 1
          /\ DOMAIN calls'[d].sent = 1..Len(calls[d].sent) + 1
          /\ \A m \in DOMAIN calls[d].sent :
                calls'[d].sent[m] = calls[d].sent[m]
      BY <1>2, <2>2, Appended
    <3> QED BY SMTT(60), <2>1, <2>3, <3>1
  <2> QED BY ZenonT(60), <1>1, <1>3, <1>4, <2>1, <2>3
<1> QED BY ZenonT(60), <1>5, <1>6, <1>7, <1>8, <1>9, CallMoves
\* What a step does to the RPCs of a call: it keeps them and the input, or
\* adds the next one of the call's.
LEMMA SentMoves ==
    ASSUME TypeOK, CallInv, Next, NEW d \in Calls, calls'[d].sent # <<>>
    PROVE  /\ calls'[d].in = calls[d].in
           /\ calls[d].in.args \in Args
           /\ \A n \in DOMAIN calls'[d].sent :
                \/ /\ n \in DOMAIN calls[d].sent
                   /\ calls'[d].sent[n] = calls[d].sent[n]
                \/ /\ Usable(calls[d].in.args)
                   /\ n \in Nat \ {0} /\ n <= Len(Units(calls[d].in.args))
                   /\ calls'[d].sent[n].rpc = Units(calls[d].in.args)[n]
<1> DEFINE i == calls[d].in
<1>1. /\ calls[d].stage # "idle" => i \in Input
      /\ IsSeq(calls[d].sent)
      /\ calls[d].stage = "idle" => calls[d].sent = <<>>
      /\ calls[d].stage = "running" \/ calls[d].sent # <<>> => Admitted(i)
  BY DEF TypeOK, CallInv, Sent
<1>2. calls[d].stage # "idle" /\ calls'[d].in = i
  <2>1. ~Turned(d) /\ ~Started(d)
    BY <1>1 DEF Turned, Started
  <2>2. CASE calls'[d] = calls[d]
    BY ZenonT(60), <1>1, <2>2
  <2>3. CASE Sends(d) \/ Answers(d) \/ Killed(d)
    BY <2>3 DEF Sends, Remaining, Answers, Killed
  <2> QED BY <2>1, <2>2, <2>3, CallMoves
<1>3. i.args \in Args
  BY <1>1, <1>2 DEF Input
<1>4. CASE ~Sends(d)
  <2>1. calls'[d].sent = calls[d].sent
    BY <1>4, CallMoves DEF Turned, Started, Answers, Killed
  <2> QED BY <1>2, <1>3, <2>1
<1>5. CASE Sends(d)
  <2> DEFINE k == Len(calls[d].sent) + 1
  <2>1. PICK acted \in BOOLEAN, ok \in BOOLEAN :
          calls'[d].sent = Append(calls[d].sent,
              [rpc |-> Units(i.args)[k], acted |-> acted, ok |-> ok])
    BY ZenonT(60), <1>5 DEF Sends
  <2>2. /\ k \in Nat \ {0} /\ DOMAIN calls[d].sent = 1..k - 1
        /\ DOMAIN calls'[d].sent = 1..k
        /\ \A m \in DOMAIN calls[d].sent :
              calls'[d].sent[m] = calls[d].sent[m]
        /\ calls'[d].sent[k].rpc = Units(i.args)[k]
    <3>1. IsSeq(calls[d].sent)
      BY <1>1
    <3> QED BY SMTT(60), Z3T(60), <3>1, <2>1, SentOneMore
  <2>3. loaded \in [Profiles -> Contents] /\ Usable(i.args)
    BY <1>1, <1>5 DEF TypeOK, Admitted, Sends, Remaining
  <2>4. k <= Len(Units(i.args))
    <3>1. Len(calls[d].sent) < Len(Units(i.args))
      BY <1>5 DEF Sends, Remaining, Sent
    <3>2. Len(Units(i.args)) \in Nat
      BY <1>3, <2>3, UnitsCounted
    <3>3. Len(calls[d].sent) \in Nat
      BY <1>1, Appended
    <3> QED BY SMTT(60), Z3T(60), <3>1, <3>2, <3>3
  <2> HIDE DEF k
  <2> SUFFICES ASSUME NEW n \in DOMAIN calls'[d].sent, n # k
      PROVE  n \in DOMAIN calls[d].sent
    BY SMTT(60), <1>2, <1>3, <2>2, <2>3, <2>4
  <2> QED BY SMTT(60), Z3T(60), <2>2
<1> QED BY <1>4, <1>5

\* Every step sends only what was approved.
LEMMA ExecStep ==
    ASSUME TypeOK, StoreInv, CallInv, ExecutesWhatWasApproved, Next
    PROVE  ExecutesWhatWasApproved'
<1> DEFINE Read(ap) == IF edits = 0 THEN {ap.seen} ELSE [Profiles -> Contents]
           ReadP(ap) == IF edits' = 0 THEN {ap.seen} ELSE [Profiles -> Contents]
<1> SUFFICES ASSUME NEW d \in Calls, calls'[d].sent # <<>>
    PROVE  LET ap == approvals'[calls'[d].in.ref] IN
           /\ ap # None /\ ap.verdict = "approved"
           /\ ap.flags.case = calls'[d].in.args.case
           /\ \A n \in DOMAIN calls'[d].sent :
                \E reg \in ReadP(ap) :
                    Agreed(ap.flags, reg, calls'[d].sent[n].rpc)
  BY ZenonT(60) DEF ExecutesWhatWasApproved, Sent
<1> DEFINE i == calls[d].in
           ap == approvals[i.ref]
           apP == approvals'[i.ref]
<1>1. calls'[d].in = i /\ i.args \in Args
  BY SentMoves
<1>2. Admitted(i) /\ i \in Input
  <2>1. calls[d].stage = "running" \/ calls[d].sent # <<>>
    BY CallMoves DEF Turned, Started, Sends, Remaining, Answers, Killed
  <2> QED BY ZenonT(60), <2>1 DEF TypeOK, CallInv, Sent
<1>3. i.ref \in Refs
  BY ZenonT(60), <1>2 DEF Input
<1>4. /\ ap # None /\ ap \in Approval
      /\ ap.flags \in Args /\ ap.seen \in [Profiles -> Contents]
      /\ ap.verdict = "approved"
  BY ZenonT(60), <1>2, <1>3 DEF Admitted, TypeOK, Approval
<1>5. /\ apP # None /\ apP.flags = ap.flags /\ apP.seen = ap.seen
      /\ apP.verdict = ap.verdict
  BY <1>3, <1>4, ApprovalKept
<1>6. /\ ap.request = CliRequest(ap.flags)
      /\ edits = 0 => loaded = ap.seen
  BY ZenonT(60), <1>3, <1>4 DEF StoreInv
<1>7. ASSUME NEW reg, reg \in Read(ap)
      PROVE  reg \in ReadP(apP)
  <2>1. edits' = 0 => edits = 0
    BY SMTT(60), Z3T(60), ProfilesMove DEF TypeOK, EditProfile
  <2> QED BY <1>4, <1>5, <1>7, <2>1
<1>8. ASSUME NEW n \in DOMAIN calls'[d].sent
      PROVE  /\ ap.flags.case = i.args.case
             /\ \E reg \in ReadP(apP) :
                    Agreed(apP.flags, reg, calls'[d].sent[n].rpc)
  <2>1. CASE /\ n \in DOMAIN calls[d].sent
             /\ calls'[d].sent[n] = calls[d].sent[n]
    <3>1. calls[d].sent # <<>>
      BY SMTT(60), Z3T(60), <2>1
    <3>2. /\ ap.flags.case = i.args.case
          /\ \E reg \in Read(ap) :
                Agreed(ap.flags, reg, calls[d].sent[n].rpc)
      BY <2>1, <3>1 DEF ExecutesWhatWasApproved, Sent
    <3> QED BY ZenonT(60), <1>5, <1>7, <2>1, <3>2
  <2>2. CASE /\ Usable(i.args)
             /\ n \in Nat \ {0} /\ n <= Len(Units(i.args))
             /\ calls'[d].sent[n].rpc = Units(i.args)[n]
    <3>1. /\ loaded \in [Profiles -> Contents]
          /\ RequestFingerprint(Candidate(i.args)) =
               RequestFingerprint(CliRequest(ap.flags))
      BY ZenonT(60), <1>2, <1>6 DEF TypeOK, Admitted
    <3> HIDE DEF i, ap
    <3>2. /\ ap.flags.case = i.args.case
          /\ Agreed(ap.flags, loaded, Units(i.args)[n])
      BY <1>1, <1>4, <2>2, <3>1, UnitAgreed
    <3>3. loaded \in ReadP(apP)
      BY <1>6, <1>7, <3>1
    <3> QED BY <1>5, <2>2, <3>2, <3>3
  <2> QED BY ZenonT(60), <2>1, <2>2, <1>8, SentMoves
<1>9. \E n \in DOMAIN calls'[d].sent : TRUE
  <2>1. IsSeq(calls'[d].sent)
    BY TypeStep DEF TypeOK, Sent
  <2> HIDE DEF i, ap, apP
  <2>2. Len(calls'[d].sent) \in Nat \ {0}
    BY SMTT(60), Z3T(60), <2>1 DEF IsSeq
  <2> QED BY <2>1, <2>2 DEF IsSeq
<1> QED BY ZenonT(60), <1>1, <1>4, <1>5, <1>8, <1>9

\* Every step creates hunts within the limits only.
LEMMA BoundStep ==
    ASSUME TypeOK, CallInv, HuntsBounded, Next
    PROVE  HuntsBounded'
<1> SUFFICES ASSUME NEW d \in Calls, NEW n \in DOMAIN calls'[d].sent,
                    calls'[d].sent[n].rpc.rpc = "CreateHunt"
    PROVE  /\ calls'[d].sent[n].rpc.limit \in 1..ConfiguredMaxHuntClients
           /\ calls'[d].in.args.max > 0 =>
                 calls'[d].sent[n].rpc.limit <= calls'[d].in.args.max
  BY DEF HuntsBounded, Sent, ConfiguredMaxHuntClients
<1> DEFINE a == calls[d].in.args
<1>1. calls'[d].sent # <<>>
  OBVIOUS
<1>2. calls'[d].in.args = a /\ a \in Args
  BY <1>1, SentMoves
<1>3. CASE /\ n \in DOMAIN calls[d].sent
           /\ calls'[d].sent[n] = calls[d].sent[n]
  BY <1>2, <1>3 DEF HuntsBounded, Sent
<1>4. CASE /\ Usable(a) /\ n \in Nat \ {0} /\ n <= Len(Units(a))
           /\ calls'[d].sent[n].rpc = Units(a)[n]
  <2>1. loaded \in [Profiles -> Contents] /\ a.max \in Nat
    BY ZenonT(60), <1>2, ApprovedAssumption DEF TypeOK
  <2> HIDE DEF a
  <2>2. Units(a)[n].limit = ClientLimit(a.max)
    BY <1>2, <1>4, <2>1, UnitBounded
  <2>3. /\ ClientLimit(a.max) \in 1..ConfiguredMaxHuntClients
        /\ a.max > 0 => ClientLimit(a.max) <= a.max
    BY ZenonT(60), <2>1, LimitBounded
  <2> QED BY <1>2, <1>4, <2>2, <2>3
<1> QED BY ZenonT(60), <1>1, <1>3, <1>4, SentMoves

\* Every answer names what the server acknowledged.
LEMMA ProgressStep ==
    ASSUME TypeOK, CallInv, ProgressReported, Next
    PROVE  ProgressReported'
<1> SUFFICES ASSUME NEW d \in Calls, calls'[d].stage = "answered",
                    calls'[d].why = None,
                    NEW n \in DOMAIN calls'[d].sent, calls'[d].sent[n].ok
    PROVE  \/ n \in calls'[d].named
           \/ /\ calls'[d].in.args.op = "start_dfir_hunt"
              /\ n < Len(calls'[d].sent)
  BY DEF ProgressReported, Sent
<1>1. CASE calls'[d] = calls[d]
  BY <1>1 DEF ProgressReported, Sent
<1>2. CASE Answers(d)
  <2>1. /\ calls'[d].in = calls[d].in /\ calls'[d].sent = calls[d].sent
        /\ calls'[d].named = Named(d)
    BY <1>2 DEF Answers
  <2>2. n \in Acknowledged(d)
    BY <2>1 DEF Acknowledged, Sent
  <2>3. CASE calls[d].in.args.op # "start_dfir_hunt"
    BY <2>1, <2>2, <2>3 DEF Named
  <2>4. CASE calls[d].in.args.op = "start_dfir_hunt"
    <3>1. IsSeq(calls[d].sent)
      BY DEF TypeOK, Sent
    <3>2. Len(calls[d].sent) \in Nat /\ n \in 1..Len(calls[d].sent)
      BY SMTT(60), Z3T(60), <2>1, <3>1 DEF IsSeq
    <3>3. CASE Failed(d)
      <4>1. n # Len(calls[d].sent)
        BY <2>1, <3>2, <3>3 DEF Failed, CallInv, Sent
      <4> QED BY <2>1, <2>4, <3>2, <4>1
    <3>4. CASE ~Failed(d)
      <4>1. calls'[d].named = {Len(calls[d].sent)}
        BY <2>1, <2>4, <3>4 DEF Named, Sent
      <4> QED BY <2>1, <2>4, <3>2, <4>1
    <3> QED BY <3>3, <3>4
  <2> QED BY <2>3, <2>4
<1>3. ~Turned(d)
  BY NoneAssumption DEF Turned
<1> QED BY <1>1, <1>2, <1>3, CallMoves DEF Started, Sends, Killed
-----------------------------------------------------------------------------
(* The theorems *)

\* max_clients is in no request.
LEMMA RequestWithoutMax ==
    ASSUME NEW f \in Args, NEW a \in Args,
           [f EXCEPT !.max = 0] = [a EXCEPT !.max = 0]
    PROVE  CliRequest(f) = CliRequest(a)
<1>1. /\ f.op = a.op /\ f.case = a.case /\ f.client = a.client
      /\ f.artifact = a.artifact /\ f.params = a.params
      /\ f.profile = a.profile /\ f.hunt = a.hunt /\ f.flow = a.flow
      /\ f.upload = a.upload /\ f.kind = a.kind /\ f.value = a.value
      /\ f.ids = a.ids /\ f.label = a.label /\ f.all = a.all
  BY ZenonT(60), ApprovedAssumption
<1> QED BY <1>1 DEF CliRequest, Blank, BuildHuntIOCApprovalRequest

\* A call turned away for another request did ask for another one.
LEMMA MismatchIsReal ==
    ASSUME TypeOK, StoreInv, CallInv
    PROVE  SameArgumentsMatch
<1> SUFFICES ASSUME NEW c \in Calls, calls[c].stage # "idle",
                    approvals[calls[c].in.ref] # None,
                    [approvals[calls[c].in.ref].flags EXCEPT !.max = 0] =
                      [calls[c].in.args EXCEPT !.max = 0],
                    calls[c].why = "mismatch"
    PROVE  FALSE
  BY DEF SameArgumentsMatch
<1> DEFINE f == approvals[calls[c].in.ref].flags
           a == calls[c].in.args
<1>1. calls[c].in \in Input
  BY SMTT(60), Z3T(60) DEF TypeOK
<1>2. calls[c].in.ref \in Refs /\ a \in Args
  BY <1>1 DEF Input
<1>3. f \in Args /\ approvals[calls[c].in.ref].request = CliRequest(f)
  BY SMTT(60), <1>2 DEF TypeOK, Approval, StoreInv
<1>4. RequestFingerprint(Candidate(a)) # RequestFingerprint(CliRequest(f))
  BY ZenonT(60), <1>3 DEF CallInv
<1> HIDE DEF f, a
<1>5. CliRequest(f) = CliRequest(a)
  BY <1>2, <1>3, RequestWithoutMax DEF f, a
<1> QED BY ZenonT(60), <1>2, <1>4, <1>5, CandidateIsRequest

LEMMA InitInv == Init => IInv
<1> SUFFICES ASSUME Init PROVE IInv
  OBVIOUS
<1>1. \A c \in Calls : calls[c] = Idle /\ Sent(c) = <<>>
  BY DEF Init, Idle, Sent
<1>2. IsSeq(<<>>)
  BY DEF IsSeq
<1>3. TypeOK
  BY <1>1, <1>2 DEF Init, TypeOK, Idle, Fields, Stages, Sent
<1>4. StoreInv
  BY DEF Init, StoreInv
<1>5. CallInv
  BY SMTT(60), Z3T(60), <1>1, NoneAssumption DEF CallInv, Idle
<1>6. ExecutesWhatWasApproved /\ HuntsBounded /\ ProgressReported
  BY <1>1 DEF ExecutesWhatWasApproved, HuntsBounded, ProgressReported, Idle
<1> QED BY <1>3, <1>4, <1>5, <1>6 DEF IInv

LEMMA StepInv == IInv /\ [Next]_vars => IInv'
<1> SUFFICES ASSUME IInv, [Next]_vars PROVE IInv'
  OBVIOUS
<1>1. CASE Next
  BY <1>1, TypeStep, StoreStep, CallStep, ExecStep, BoundStep, ProgressStep
     DEF IInv
<1>2. CASE UNCHANGED vars
  <2>1. /\ approvals' = approvals /\ files' = files /\ loaded' = loaded
        /\ calls' = calls /\ edits' = edits
    BY ZenonT(60), <1>2 DEF vars
  <2>2. TypeOK' /\ StoreInv'
    BY ZenonT(60), <2>1 DEF IInv, TypeOK, StoreInv, Sent
  <2>3. CallInv'
    <3>1. \A c \in Calls : \A i : i = calls'[c].in =>
            (Admitted(i)' <=> Admitted(i))
      BY ZenonT(60), <2>1 DEF Admitted, Usable
    <3> QED BY ZenonT(60), <2>1, <3>1 DEF IInv, CallInv, Sent
  <2>4. ExecutesWhatWasApproved'
    BY ZenonT(60), <2>1 DEF IInv, ExecutesWhatWasApproved, Sent
  <2>5. HuntsBounded' /\ ProgressReported'
    BY <2>1 DEF IInv, HuntsBounded, ProgressReported, Sent
  <2> QED BY <2>2, <2>3, <2>4, <2>5 DEF IInv
<1> QED BY <1>1, <1>2

LEMMA Invariance == Spec => []IInv
  BY InitInv, StepInv, PTL DEF Spec

\* Whatever requests are approved, whatever calls name them and however the
\* profile files are edited in between, every RPC a handler sends is one that
\* the flags of the approve command stand for: with the profile the approver
\* read as long as nobody has edited one, and with some content of the
\* profile after that.
THEOREM SentAsApproved == Spec => []ExecutesWhatWasApproved
<1>1. IInv => ExecutesWhatWasApproved
  BY DEF IInv
<1> QED BY <1>1, Invariance, PTL

\* The request fingerprint never turns away the call the approval was given
\* for: command and handler fill in the same fields.
THEOREM NoFalseMismatch == Spec => []SameArgumentsMatch
<1>1. IInv => SameArgumentsMatch
  BY MismatchIsReal DEF IInv
<1> QED BY <1>1, Invariance, PTL

\* Every hunt is created with a limit of at least one client and at most the
\* policy's and the caller's, for any limits they give.
THEOREM HuntLimits == Spec => []HuntsBounded
<1>1. IInv => HuntsBounded
  BY DEF IInv
<1> QED BY <1>1, Invariance, PTL

\* The answer of a call that was admitted names every flow or hunt the server
\* acknowledged, also when a later RPC failed; a profile hunt names its last.
THEOREM AnswersNameProgress == Spec => []ProgressReported
<1>1. IInv => ProgressReported
  BY DEF IInv
<1> QED BY <1>1, Invariance, PTL
=============================================================================
