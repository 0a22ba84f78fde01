----------------------------- MODULE ReadTools ------------------------------
(***************************************************************************)
(* The read-only tools of internal/mcpserver that list objects of the      *)
(* Velociraptor server or look one up: health, clients, artifacts, flows,  *)
(* hunts, uploads and the preview of a hunt's scope.                       *)
(*                                                                         *)
(* Calls run concurrently.  A call is received, checked and, in real mode, *)
(* sent to the server as one RPC of the client of internal/velociraptor;   *)
(* the handler turns what comes back into an answer and records one audit  *)
(* event.  Meanwhile objects appear, change and vanish on the server.      *)
(*                                                                         *)
(* Tools that show different kinds of object share nothing but the audit   *)
(* log, so a behaviour follows the calls about one kind.                   *)
(***************************************************************************)
EXTENDS Paging

CONSTANTS
    Tools,          \* the tools in use
    Kinds,          \* the kinds of object they show
    ItemCount,      \* names of objects are 1..ItemCount
    Counts,         \* how many of them the server may start with
    Calls,          \* calls are 1..Calls
    MaxHuntClients, \* policy.max_hunt_clients
    Limits,         \* limits a caller may ask for
    Cursors,        \* cursors a caller may pass
    Modes,          \* modes of the read client: a subset of {"real", "mock"}
    Policies,       \* policies: allowed artifacts, list all, target all
    Malformed,      \* an identifier that fails validation
    Unset,          \* an identifier that is left empty
    MaxChanges      \* bound on the changes of the server's objects

Items == 1..ItemCount

ASSUME ReadToolsAssumption ==
    /\ ItemCount \in Nat /\ Calls \in Nat /\ MaxChanges \in Nat
    /\ MaxRows \in Nat \ {0} /\ MaxHuntClients \in Nat \ {0}
    /\ Counts \subseteq 0..ItemCount
    /\ Limits \subseteq Int /\ Cursors \subseteq Int \cup {None}
    /\ Modes \subseteq {"real", "mock"}
    /\ Policies \subseteq [allowed: SUBSET Items, listAll: BOOLEAN,
                            targetAll: BOOLEAN]
    /\ Malformed \notin Items /\ Unset \notin Items /\ Malformed # Unset

VARIABLES
    mode,       \* Deps.VelociraptorReadMode
    policy,     \* Deps.Policy
    kind,       \* the kind of object the calls are about
    order,      \* the names of the server's objects of that kind, in its order
    phase,      \* the state of each of them: "absent" before, "gone" after
    calls,      \* the calls
    log,        \* the audit log
    changes     \* changes of the server so far

vars == <<mode, policy, kind, order, phase, calls, log, changes>>

\* What a client method returns: the outcome of its RPC, the objects, and, for
\* the scope of a hunt, how many clients match.
Raw(result, rows, matched) ==
    [result |-> result, rows |-> rows, matched |-> matched]
Failed == Raw("failed", <<>>, 0)

\* An answer: the rows it shows, as a set (no property is about their order),
\* and the row count the audit event reports.
Told(status) ==
    [status |-> status, rows |-> {}, count |-> 0, truncated |-> FALSE,
     next |-> None, exceeds |-> FALSE, connected |-> FALSE]

NoRequest == [tool |-> "none", name |-> Unset, limit |-> 0, cursor |-> None]

Idle == [stage |-> "idle", request |-> NoRequest, raw |-> Failed,
         answer |-> Told("none"), known |-> {}]

\* In mock mode there is no server to have objects.
HasObjects == mode = "real" /\ kind # "server"

Init ==
    /\ mode \in Modes
    /\ policy \in Policies
    /\ kind \in Kinds
    /\ \E n \in IF HasObjects THEN Counts ELSE {0} :
        /\ order = [i \in 1..n |-> i]
        /\ phase = [i \in Items |-> IF i <= n THEN "RUNNING" ELSE "absent"]
    /\ calls = [c \in 1..Calls |-> Idle]
    /\ log = <<>>
    /\ changes = 0

-----------------------------------------------------------------------------
(* The Velociraptor server *)

Names(objects) == {objects[i].name : i \in DOMAIN objects}

\* The objects the server shows.
Live == [i \in DOMAIN order |-> [name |-> order[i], state |-> phase[order[i]]]]

\* A client enrols, a flow or hunt starts, an upload arrives.  The server
\* lists the newest flow first.
Appear(i) ==
    /\ phase[i] = "absent"
    /\ phase' = [phase EXCEPT ![i] = "RUNNING"]
    /\ order' = IF kind = "flow" THEN <<i>> \o order ELSE Append(order, i)

\* The states an object may go to.  A flow ends once; CancelFlow leaves it in
\* state ERROR with a status that says so; a client may carry the label.
Successors(from) ==
    IF from # "RUNNING" THEN {}
    ELSE CASE kind = "flow" -> {"FINISHED", "ERROR", "CANCELLED"}
           [] kind = "hunt" -> {"PAUSED", "STOPPED"}
           [] kind = "client" -> {"labelled"}
           [] OTHER -> {}

Progress(i) ==
    /\ \E s \in Successors(phase[i]) : phase' = [phase EXCEPT ![i] = s]
    /\ UNCHANGED order

\* Names are not used again.
Vanish(i) ==
    \E n \in DOMAIN order :
        /\ order[n] = i
        /\ order' = SubSeq(order, 1, n - 1) \o SubSeq(order, n + 1, Len(order))
        /\ phase' = [phase EXCEPT ![i] = "gone"]

Change ==
    /\ HasObjects
    /\ changes < MaxChanges
    /\ changes' = changes + 1
    /\ \E i \in Items : Appear(i) \/ Progress(i) \/ Vanish(i)
    /\ UNCHANGED <<mode, policy, kind, calls, log>>

-----------------------------------------------------------------------------
(* The client methods *)

First(seq, n) == SubSeq(seq, 1, IF n <= Len(seq) THEN n ELSE Len(seq))

Found(rows) == Raw("ok", rows, 0)

\* The positions of the objects called name, and the summary of the first.
Hits(objects, name) == {i \in DOMAIN objects : objects[i].name = name}

FirstOf(S) == CHOOSE i \in S : \A j \in S : i <= j

Lookup(objects, name, Summary(_)) ==
    IF Hits(objects, name) = {} THEN Raw("missing", <<>>, 0)
    ELSE Found(<<Summary(objects[FirstOf(Hits(objects, name))])>>)

Summaries(objects, Summary(_)) ==
    [i \in DOMAIN objects |-> Summary(objects[i])]

ToClientSummary(o) == [name |-> o.name, state |-> "none"]

\* Mutant of MapFlowState: a failed flow is taken for one still running.
MapFlowStateLoose(state, cancelled) ==
    CASE state = "FINISHED" -> "finished"
      [] state = "ERROR" /\ cancelled -> "cancelled"
      [] OTHER -> "running"

MapFlowState(state, cancelled) ==
    CASE state = "FINISHED" -> "finished"
      [] state = "ERROR" -> IF cancelled THEN "cancelled" ELSE "error"
      [] OTHER -> "running"

\* The state on the wire: a cancelled flow is an ERROR with a status text.
WireState(o) == IF o.state = "CANCELLED" THEN "ERROR" ELSE o.state

ToFlowSummaryFromContext(o) ==
    [name |-> o.name,
     state |-> MapFlowState(WireState(o), o.state = "CANCELLED")]

\* The table of flows has no status text.
ToFlowSummaryFromRow(o) ==
    [name |-> o.name, state |-> MapFlowState(WireState(o), FALSE)]

MapHuntState(state) ==
    CASE state = "RUNNING" -> "running"
      [] state = "PAUSED" -> "paused"
      [] OTHER -> "stopped"

ToHuntSummary(o) == [name |-> o.name, state |-> MapHuntState(o.state)]

SearchClients(q) ==
    Found(Summaries(First(Live, BoundLimit(q.limit, MaxRows)),
                    ToClientSummary))

GetClientInfo(q) == Lookup(Live, q.name, ToClientSummary)

ListArtifactNames == Found(Summaries(First(Live, MaxRows),
                                     ToClientSummary))

GetArtifactDetails(q) == Lookup(Live, q.name, ToClientSummary)

\* Mutant of ListFlows: the cursor names the last row seen, not the next.
ListFlowsOverlap(q) ==
    LET start == ParseOffset(q.cursor)
        bounded == BoundLimit(q.limit, MaxRows)
        flows == Live
    IN  Found(Summaries(First(SubSeq(flows, start + 2, Len(flows)), bounded),
                        ToFlowSummaryFromRow))

ListFlows(q) ==
    LET start == ParseOffset(q.cursor)
        bounded == BoundLimit(q.limit, MaxRows)
        flows == Live
    IN  Found(Summaries(First(SubSeq(flows, start + 1, Len(flows)), bounded),
                        ToFlowSummaryFromRow))

GetFlowStatus(q) == Lookup(Live, q.name, ToFlowSummaryFromContext)

ListHunts(q) ==
    Found(Summaries(First(Live, BoundLimit(q.limit, MaxRows)),
                    ToHuntSummary))

\* Mutant of GetHuntStatus: only the hunts of the first page are searched.
GetHuntStatusFirstPage(q) ==
    Lookup(First(Live, MaxRows), q.name, ToHuntSummary)

GetHuntStatus(q) == Lookup(Live, q.name, ToHuntSummary)

\* The table of uploads is read up to max_rows, whoever asks for it.
ListFlowUploadRows == First(Live, MaxRows)

ListFlowUploads == Found(Summaries(ListFlowUploadRows, ToClientSummary))

GetFlowUploadMetadata(q) == Lookup(ListFlowUploadRows, q.name, ToClientSummary)

\* The scope of a hunt is q.name: "ids", "label" or "all".  The condition of
\* a hunt cannot express explicit client ids.
HuntConditionFromScope(scope) == scope # "ids"

PreviewHuntScope(q) ==
    LET matched == {i \in DOMAIN Live :
                        q.name = "all" \/ Live[i].state = "labelled"}
    IN  IF HuntConditionFromScope(q.name)
        THEN Raw("ok", <<>>, Cardinality(matched)) ELSE Failed

-----------------------------------------------------------------------------
(* The handlers *)

\* The handler answers call c and records its one audit event.
Finish(c, answer, outcome) ==
    /\ calls' = [calls EXCEPT ![c].stage = "answered", ![c].answer = answer]
    /\ log' = Append(log, [call |-> c, outcome |-> outcome,
                           rows |-> answer.count])

\* What every handler does: refuse, answer in mock mode, or call the client
\* method and turn what it returns into an answer.
Handler(c, tool, refused, raw, answer, mock) ==
    LET call == calls[c] IN
    /\ call.request.tool = tool
    /\ \/ /\ call.stage = "called" /\ refused
          /\ Finish(c, Told("blocked"), "blocked")
       \/ /\ call.stage = "called" /\ ~refused /\ mode = "mock"
          /\ Finish(c, mock, "success")
       \/ /\ call.stage = "called" /\ ~refused /\ mode = "real"
          /\ \E r \in {raw, Failed} :
                calls' = [calls EXCEPT ![c].stage = "fetched", ![c].raw = r]
          /\ UNCHANGED log
       \/ /\ call.stage = "fetched" /\ call.raw.result = "ok"
          /\ Finish(c, answer, "success")
       \/ /\ call.stage = "fetched" /\ call.raw.result # "ok"
          /\ Finish(c, Told(IF call.raw.result = "missing"
                            THEN "not_found" ELSE "error"), "error")
    /\ UNCHANGED <<mode, policy, kind, order, phase, changes>>

StatusForCount(n) == IF n = 0 THEN "empty" ELSE "success"

\* An answer that shows the rows at these positions.
Listed(rows, shown) ==
    [Told(StatusForCount(Cardinality(shown))) EXCEPT
        !.rows = {rows[i] : i \in shown}, !.count = Cardinality(shown)]

\* velo_list_flows and velo_list_hunts cut the rows again, and report it.
ListedPage(q, rows) ==
    LET limit == BoundLimit(q.limit, MaxRows)
        cut == Len(rows) > limit
        shown == {i \in DOMAIN rows : i <= limit}
    IN  [Listed(rows, shown) EXCEPT !.truncated = cut,
            !.next = NextOffsetCursor(q.cursor, Cardinality(shown), cut)]

Detail(rows) ==
    [Told("success") EXCEPT !.rows = {rows[i] : i \in DOMAIN rows}]

Mock == Told("success")

\* Mutant of HealthCheckHandler: mock mode claims to be connected.
HealthCheckHandlerBoasting(c) ==
    Handler(c, "health_check", FALSE, Found(<<>>),
            [Told("ok") EXCEPT !.connected = TRUE],
            [Told("ok") EXCEPT !.connected = TRUE])

HealthCheckHandler(c) ==
    Handler(c, "health_check", FALSE, Found(<<>>),
            [Told("ok") EXCEPT !.connected = TRUE], Told("ok"))

\* An empty query is valid and matches every client.
SearchClientsHandler(c) ==
    LET q == calls[c].request IN
    Handler(c, "search_clients", q.name = Malformed, SearchClients(q),
            Listed(calls[c].raw.rows, DOMAIN calls[c].raw.rows), Mock)

GetClientInfoHandler(c) ==
    LET q == calls[c].request IN
    Handler(c, "get_client_info", q.name \notin Items, GetClientInfo(q),
            Detail(calls[c].raw.rows), Mock)

\* The positions of the rows that are kept.
FilterAllowedArtifacts(rows) ==
    {i \in DOMAIN rows : policy.listAll \/ rows[i].name \in policy.allowed}

ListArtifactNamesHandler(c) ==
    LET rows == calls[c].raw.rows IN
    Handler(c, "list_artifact_names", FALSE, ListArtifactNames,
            Listed(rows, FilterAllowedArtifacts(rows)), Mock)

\* Mutant of GetArtifactDetailsHandler: list_all is not consulted.
GetArtifactDetailsHandlerStrict(c) ==
    LET q == calls[c].request IN
    Handler(c, "get_artifact_details",
            q.name \notin Items \/ q.name \notin policy.allowed,
            GetArtifactDetails(q), Detail(calls[c].raw.rows), Mock)

GetArtifactDetailsHandler(c) ==
    LET q == calls[c].request IN
    Handler(c, "get_artifact_details",
            \/ q.name \notin Items
            \/ ~policy.listAll /\ q.name \notin policy.allowed,
            GetArtifactDetails(q), Detail(calls[c].raw.rows), Mock)

\* An empty flow id passes validateFlowReadInput.
ValidateFlowReadInput(q) == q.name # Malformed

ListFlowsHandler(c) ==
    LET q == calls[c].request IN
    Handler(c, "list_flows", ~ValidateFlowReadInput(q), ListFlows(q),
            ListedPage(q, calls[c].raw.rows), Mock)

GetFlowStatusHandler(c) ==
    LET q == calls[c].request IN
    Handler(c, "get_flow_status", ~ValidateFlowReadInput(q),
            GetFlowStatus(q), Detail(calls[c].raw.rows), Mock)

ListHuntsHandler(c) ==
    LET q == calls[c].request IN
    Handler(c, "list_hunts", FALSE, ListHunts(q),
            ListedPage(q, calls[c].raw.rows), Mock)

GetHuntStatusHandler(c) ==
    LET q == calls[c].request IN
    Handler(c, "get_hunt_status", q.name \notin Items, GetHuntStatus(q),
            Detail(calls[c].raw.rows), Mock)

ListFlowUploadsHandler(c) ==
    LET q == calls[c].request IN
    Handler(c, "list_flow_uploads", q.name \notin Items, ListFlowUploads,
            Listed(calls[c].raw.rows, DOMAIN calls[c].raw.rows), Mock)

GetFlowUploadMetadataHandler(c) ==
    LET q == calls[c].request IN
    Handler(c, "get_flow_upload_metadata", q.name \notin Items,
            GetFlowUploadMetadata(q), Detail(calls[c].raw.rows), Mock)

\* validateHuntScopeInput and the policy on hunts of every client.
ScopeRefused(scope) ==
    scope \notin {"ids", "label", "all"} \/ (scope = "all" /\ ~policy.targetAll)

\* In mock mode a preview repeats the client ids it was given (here one).
MockPreview(q) ==
    IF q.name # "ids" THEN Told("success")
    ELSE [Told("success") EXCEPT
            !.rows = {[name |-> 1, state |-> "none"]},
            !.exceeds = 1 > BoundLimit(q.limit, MaxHuntClients)]

\* In real mode a preview shows only how many clients match.
PreviewHuntScopeHandler(c) ==
    LET q == calls[c].request
        matched == calls[c].raw.matched
        max == BoundLimit(q.limit, MaxHuntClients)
    IN
    Handler(c, "preview_hunt_scope", ScopeRefused(q.name),
            PreviewHuntScope(q),
            [Told(StatusForCount(matched)) EXCEPT !.count = matched,
                !.exceeds = matched > max], MockPreview(q))

-----------------------------------------------------------------------------
(* Callers *)

KindOf(tool) ==
    CASE tool \in {"search_clients", "get_client_info", "preview_hunt_scope"} ->
            "client"
      [] tool \in {"list_artifact_names", "get_artifact_details"} -> "artifact"
      [] tool \in {"list_flows", "get_flow_status"} -> "flow"
      [] tool \in {"list_hunts", "get_hunt_status"} -> "hunt"
      [] tool \in {"list_flow_uploads", "get_flow_upload_metadata"} -> "upload"
      [] OTHER -> "server"

\* The requests a caller may make of a tool.  A query, and the client whose
\* flows are listed, only need to be well formed: Unset stands for one that is.
\* ListHunts does not read the cursor.
Arguments(tool) ==
    CASE tool = "preview_hunt_scope" -> {"ids", "label", "all", "none"}
      [] tool \in {"health_check", "list_artifact_names", "list_hunts"} -> {Unset}
      [] tool \in {"search_clients", "list_flows"} -> {Malformed, Unset}
      [] tool = "list_flow_uploads" -> {Malformed, 1}
      [] tool = "get_flow_status" -> Items \cup {Malformed, Unset}
      [] OTHER -> Items \cup {Malformed}

Requests(tool) ==
    [tool: {tool}, name: Arguments(tool),
     limit: IF tool \in {"search_clients", "list_flows", "list_hunts",
                         "preview_hunt_scope"} THEN Limits ELSE {0},
     cursor: IF tool = "list_flows" THEN Cursors ELSE {None}]

Ended == {"finished", "error", "cancelled"}

\* The flows some answer has reported as ended (history).
KnownEnded ==
    {r.name : r \in {x \in UNION {calls[c].answer.rows : c \in DOMAIN calls} :
                        x.state \in Ended}}

Receive(c) ==
    /\ calls[c].stage = "idle"
    /\ \A d \in 1..(c - 1) : calls[d].stage # "idle"
    /\ \E tool \in {t \in Tools : KindOf(t) = kind} :
       \E request \in Requests(tool) :
        calls' = [calls EXCEPT ![c].stage = "called", ![c].known = KnownEnded,
                               ![c].request = request]
    /\ UNCHANGED <<mode, policy, kind, order, phase, log, changes>>

HandleCall(c) ==
    \/ HealthCheckHandler(c)
    \/ SearchClientsHandler(c) \/ GetClientInfoHandler(c)
    \/ ListArtifactNamesHandler(c) \/ GetArtifactDetailsHandler(c)
    \/ ListFlowsHandler(c) \/ GetFlowStatusHandler(c)
    \/ ListHuntsHandler(c) \/ GetHuntStatusHandler(c)
    \/ ListFlowUploadsHandler(c) \/ GetFlowUploadMetadataHandler(c)
    \/ PreviewHuntScopeHandler(c)

AllAnswered ==
    /\ \A c \in DOMAIN calls : calls[c].stage = "answered"
    /\ UNCHANGED vars

Next ==
    \/ Change
    \/ \E c \in DOMAIN calls : Receive(c) \/ HandleCall(c)
    \/ AllAnswered

Spec == Init /\ [][Next]_vars

-----------------------------------------------------------------------------
(* Properties *)

\* In mock mode, and when the RPC failed, an answer shows nothing of the
\* server: no object, no count, and no claim to be connected.  (A preview in
\* mock mode repeats the caller's own client ids.)
EvidenceIsReal ==
    \A c \in 1..Calls :
        LET a == calls[c].answer IN
        calls[c].raw.result # "ok" =>
            /\ a.count = 0 /\ ~a.connected
            /\ calls[c].request.tool # "preview_hunt_scope" => a.rows = {}

\* Without list_all, no answer shows an artifact outside the allowlist, and
\* with or without it an artifact that a list shows can also be looked up: the
\* look-up is never refused.
ListedCanBeOpened ==
    \A c, d \in 1..Calls :
        LET q == calls[d].request
            shown == {r.name : r \in calls[c].answer.rows}
        IN  kind = "artifact" =>
                /\ ~policy.listAll => shown \subseteq policy.allowed
                /\ q.tool = "get_artifact_details" /\ q.name \in shown =>
                        calls[d].answer.status # "blocked"

MissingIsAbsent(c) ==
    calls[c].stage = "called" /\ calls'[c].raw.result = "missing" =>
        calls[c].request.name \notin
            Names(IF kind = "upload" THEN First(Live, MaxRows) ELSE Live)

\* A call that finds nothing is right: when its RPC was answered, the server
\* had no object of that name.  The one exception is an upload that comes after
\* the first max_rows of its flow, which GetFlowUploadMetadata never reads.
NotFoundIsAbsent == [][\A c \in 1..Calls : MissingIsAbsent(c)]_vars

\* Once an answer has reported that a flow ended, no call made after it
\* reports the flow as running again, whichever of the two tools is asked.
EndedStaysEnded ==
    \A c \in 1..Calls :
        kind = "flow" =>
            \A r \in calls[c].answer.rows :
                r.name \in calls[c].known => r.state \in Ended

Listings == {"search_clients", "list_artifact_names", "list_flows",
             "list_hunts", "list_flow_uploads"}

\* The objects of its kind a call may see: from its cursor on, and only the
\* allowed artifacts.
Visible(q) ==
    LET from == IF q.tool = "list_flows" THEN ParseOffset(q.cursor) ELSE 0
        names == Names(SubSeq(Live, from + 1, Len(Live)))
    IN  IF q.tool = "list_artifact_names" /\ ~policy.listAll
        THEN names \cap policy.allowed ELSE names

\* The names of the rows of a listing that its handler shows.
ShownBy(q, rows) ==
    {rows[i].name : i \in IF q.tool = "list_artifact_names"
                          THEN FilterAllowedArtifacts(rows) ELSE DOMAIN rows}

\* The most rows the listing that q asks for may have.
RowBound(q) ==
    IF q.tool \in {"list_artifact_names", "list_flow_uploads"} THEN MaxRows
    ELSE BoundLimit(q.limit, MaxRows)

ShortIsComplete(c) ==
    LET q == calls[c].request
        raw == calls'[c].raw
    IN  /\ q.tool \in Listings
        /\ calls[c].stage = "called" /\ calls'[c].stage = "fetched"
        /\ raw.result = "ok" /\ Len(raw.rows) < RowBound(q)
        => ShownBy(q, raw.rows) = Visible(q)

\* A listing with fewer rows than the bound on them is complete: it shows all
\* the caller may see of what the server had when the RPC was answered.  The
\* one exception is the list of artifact names, which is cut to max_rows before
\* the allowlist filters it: there the rows before the filter must be fewer.
ShortListIsComplete == [][\A c \in 1..Calls : ShortIsComplete(c)]_vars

=============================================================================
