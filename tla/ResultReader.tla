---------------------------- MODULE ResultReader ----------------------------
(***************************************************************************)
(* An analyst's client reads the results of one flow or one hunt page by   *)
(* page with velo_get_flow_results or velo_get_hunt_results, following     *)
(* next_cursor, while the flow may still be producing rows.                *)
(*                                                                         *)
(* One call is the handler of internal/mcpserver and the client method     *)
(* behind it: an RPC that finds the artifact of the flow, one that looks   *)
(* up the artifact's named sources (best effort), one that fetches rows,   *)
(* then the bounds of the handler.  Rows of a named source are in a table  *)
(* of its own; the table None is that of the bare artifact.                *)
(***************************************************************************)
EXTENDS Paging

CONSTANTS
    Tools,          \* which tools: a subset of {"flow", "hunt"}
    Sources,        \* named result sources an artifact may declare
    MaxBytes,       \* velociraptor.max_result_bytes
    Limits,         \* limits a client may ask for
    Starts,         \* cursors a client may start with
    Sizes,          \* encoded sizes of a row
    Modes,          \* modes of the read client: a subset of {"real", "mock"}
    ServerCap,      \* rows the server returns at most, whatever is asked
    ReportsTotal,   \* does the server report the size of the table? (a set)
    CatalogFails,   \* may the look-up of the sources fail?
    MaxTable,       \* bound on the rows of a table, and of two together
    MaxCursor,      \* bound on the cursors a reader follows
    MaxFailures     \* bound on the RPCs that fail

ASSUME ReaderAssumption ==
    /\ Tools \subseteq {"flow", "hunt"}
    /\ None \notin Sources
    /\ MaxRows \in Nat \ {0} /\ MaxBytes \in Nat \ {0}
    /\ Limits \subseteq Int /\ Starts \subseteq Int \cup {None}
    /\ Sizes \subseteq Nat \ {0}
    /\ Modes \subseteq {"real", "mock"}
    /\ ServerCap \in Nat \ {0}
    /\ ReportsTotal \subseteq BOOLEAN /\ CatalogFails \in BOOLEAN
    /\ MaxTable \in Nat /\ MaxCursor \in Nat /\ MaxFailures \in Nat

VARIABLES
    tool,       \* the tool in use
    mode,       \* Deps.VelociraptorReadMode
    named,      \* the named sources the artifact declares
    known,      \* does the flow or hunt tell which artifact it collects?
    totals,     \* does the server report table sizes?
    tables,     \* tables[s]: the sizes of the rows of source s
    request,    \* the arguments of the current call
    stage,      \* how far it has got
    target,     \* the table it reads
    fetched,    \* the page the client method has
    answer,     \* the answer to the last call
    got,        \* the rows the reader has received
    end,        \* rows there were when the last page was fetched (history)
    passed,     \* has a cursor led past rows that were cut? (history)
    failures    \* RPCs that have failed

world == <<tool, mode, named, known, totals>>
vars == <<world, tables, request, stage, target, fetched, answer,
          got, end, passed, failures>>

\* The tables that receive rows.
Written == IF named = {} THEN {None} ELSE named

Page(from, count, truncated, next) ==
    [from |-> from, count |-> count, truncated |-> truncated, next |-> next]

NoPage == Page(0, 0, FALSE, None)

Pages == [from: Nat, count: Nat, truncated: BOOLEAN, next: Nat \cup {None}]

\* What the client is told, and the outcome of the audit event of the call.
Answer(status, page, outcome) ==
    [status |-> status, page |-> page, outcome |-> outcome]

\* response.Status; unknown_source is the error that lists the sources.
Statuses == {"none", "success", "empty", "source_required", "unknown_source",
             "not_found", "error"}

\* audit.Outcome of a call that passed validation.
Outcomes == {"none", "success", "error"}

TypeOK ==
    /\ tool \in Tools /\ mode \in Modes
    /\ named \subseteq Sources
    /\ known \in BOOLEAN /\ totals \in ReportsTotal
    /\ tables \in [Sources \cup {None} -> Seq(Sizes)]
    /\ request \in [source: Sources \cup {None}, limit: Limits,
                    cursor: Int \cup {None}]
    /\ stage \in {"called", "sources", "table", "bound", "answered", "done"}
    /\ target \in Sources \cup {None}
    /\ fetched \in Pages
    /\ answer \in [status: Statuses, page: Pages, outcome: Outcomes]
    /\ got \subseteq Nat
    /\ end \in Nat /\ passed \in BOOLEAN /\ failures \in Nat

Init ==
    /\ tool \in Tools /\ mode \in Modes
    /\ named \in SUBSET Sources
    /\ known \in BOOLEAN /\ totals \in ReportsTotal
    /\ tables = [s \in Sources \cup {None} |-> <<>>]
    /\ request \in [source: Sources \cup {None}, limit: Limits,
                    cursor: Starts]
    /\ stage = "called"
    /\ target = None
    /\ fetched = NoPage
    /\ answer = Answer("none", NoPage, "none")
    /\ got = {}
    /\ end = 0
    /\ passed = FALSE
    /\ failures = 0

-----------------------------------------------------------------------------
(* The Velociraptor server *)

\* The flow, or an endpoint of the hunt, uploads another row.
AddRow(s, size) ==
    /\ s \in Written
    /\ \A t \in Written \ {s} : Len(tables[s]) + Len(tables[t]) < MaxTable
    /\ Len(tables[s]) < MaxTable
    /\ tables' = [tables EXCEPT ![s] = Append(@, size)]
    /\ UNCHANGED <<world, request, stage, target, fetched, answer,
                   got, end, passed, failures>>

-----------------------------------------------------------------------------
(* One call *)

\* The call returns a, which holds no rows.
Return(a) ==
    /\ answer' = a
    /\ stage' = "answered"

\* In mock mode a handler makes no RPC at all.
MockAnswer ==
    /\ stage = "called" /\ mode = "mock"
    /\ Return(Answer("success", NoPage, "success"))
    /\ UNCHANGED <<world, tables, request, target, fetched, got, end,
                   passed, failures>>

\* GetFlowDetails or GetHunt: a flow or hunt that does not name its artifact
\* has no rows to show.
FindArtifact ==
    /\ stage = "called" /\ mode = "real"
    /\ \/ /\ ~known
          /\ Return(Answer("empty", NoPage, "success"))
       \/ /\ known
          /\ stage' = "sources"
          /\ UNCHANGED answer
    /\ UNCHANGED <<world, tables, request, target, fetched, got, end,
                   passed, failures>>

Single(S) == \E x \in S : S = {x}

\* resolveResultArtifact on the sources found: the table to read, if any.
Resolved(source, found) ==
    IF source # None THEN
        IF found # {} /\ source \notin found THEN {} ELSE {source}
    ELSE IF found = {} THEN {None}
    ELSE IF Single(found) THEN found ELSE {}

\* resolveArtifactSourceNames, whose failure counts as "no named sources",
\* and resolveResultArtifact.
ResolveSource ==
    LET s == request.source IN
    /\ stage = "sources"
    /\ \E found \in {named} \cup (IF CatalogFails THEN {{}} ELSE {}) :
        \/ \E t \in Resolved(s, found) :
            /\ target' = t
            /\ stage' = "table"
            /\ UNCHANGED answer
        \/ /\ Resolved(s, found) = {}
           /\ Return(IF s = None
                     THEN Answer("source_required", NoPage, "success")
                     ELSE Answer("unknown_source", NoPage, "error"))
           /\ UNCHANGED target
    /\ UNCHANGED <<world, tables, request, fetched, got, end,
                   passed, failures>>

\* The table whose rows the caller means: the source it names, or the only one.
Meant ==
    IF request.source # None THEN request.source
    ELSE IF Single(Written) THEN CHOOSE t \in Written : TRUE
    ELSE None

Smaller(a, b) == IF a <= b THEN a ELSE b

\* The rows the server returns of table t from row from on.
Served(t, from, bounded) ==
    LET left == Len(tables[t]) - from
    IN  IF left <= 0 THEN 0 ELSE Smaller(left, Smaller(bounded, ServerCap))

\* Where the client starts to read: GetHuntResults has no cursor.
StartRow == IF tool = "flow" THEN ParseOffset(request.cursor) ELSE 0

\* Mutant of FetchTable: the next page starts a row too late.
FetchTableOffByOne ==
    LET bounded == BoundLimit(BoundLimit(request.limit, MaxRows), MaxRows)
        count == Served(target, StartRow, bounded)
        total == IF totals THEN Len(tables[target]) ELSE 0
        cut == PageTruncated(StartRow, count, bounded, total)
    IN
    /\ stage = "table"
    /\ fetched' = Page(StartRow, count, cut,
                       IF cut THEN StartRow + count + 1 ELSE None)
    /\ end' = Len(tables[Meant])
    /\ stage' = "bound"
    /\ UNCHANGED <<world, tables, request, target, answer, got,
                   passed, failures>>

\* Mutant of FetchTable: the cursor is taken to name a row already read.
FetchTableAfterCursor ==
    LET bounded == BoundLimit(BoundLimit(request.limit, MaxRows), MaxRows)
        from == IF StartRow > 0 THEN StartRow + 1 ELSE 0
        count == Served(target, from, bounded)
        total == IF totals THEN Len(tables[target]) ELSE 0
        cut == PageTruncated(from, count, bounded, total)
    IN
    /\ stage = "table"
    /\ fetched' = Page(from, count, cut, IF cut THEN from + count ELSE None)
    /\ end' = Len(tables[Meant])
    /\ stage' = "bound"
    /\ UNCHANGED <<world, tables, request, target, answer, got,
                   passed, failures>>

\* GetTable or GetHuntResults, and the page made of its rows.
FetchTable ==
    LET bounded == BoundLimit(BoundLimit(request.limit, MaxRows), MaxRows)
        count == Served(target, StartRow, bounded)
        total == IF totals THEN Len(tables[target]) ELSE 0
        cut == PageTruncated(StartRow, count, bounded, total)
    IN
    /\ stage = "table"
    /\ fetched' = Page(StartRow, count, cut,
                       IF cut THEN StartRow + count ELSE None)
    /\ end' = Len(tables[Meant])
    /\ stage' = "bound"
    /\ UNCHANGED <<world, tables, request, target, answer, got,
                   passed, failures>>

\* An RPC fails (a timeout, a broken connection), does not know the flow, or
\* returns a row that is not JSON.
RpcFails ==
    /\ stage \in {"called", "table"} /\ mode = "real"
    /\ failures < MaxFailures
    /\ failures' = failures + 1
    /\ \E status \in {"error", "not_found"} :
        /\ stage = "table" => status = "error"
        /\ Return(Answer(status, NoPage, "error"))
    /\ UNCHANGED <<world, tables, request, target, fetched, got, end,
                   passed>>

\* The handler bounds the rows.  The cursor of the client's page wins over
\* one counted from the rows that are left (flows); hunts always count.
BoundRows ==
    LET f == fetched
        sizes == SubSeq(tables[target], f.from + 1, f.from + f.count)
        kept == KeptRows(sizes, BoundLimit(request.limit, MaxRows), MaxBytes)
        cut == f.truncated \/ kept < f.count
        next == IF tool = "flow" /\ f.next # None THEN f.next
                ELSE NextOffsetCursor(request.cursor, kept, cut)
        status == IF kept > 0 THEN "success"
                  ELSE IF f.count > 0 THEN "error" ELSE "empty"
    IN
    /\ stage = "bound"
    /\ answer' = Answer(status, Page(f.from, kept, cut, next), "success")
    /\ got' = got \cup Rows(f.from, kept)
    /\ passed' = (passed \/ (tool = "flow" /\ kept < f.count /\ f.next # None))
    /\ stage' = "answered"
    /\ UNCHANGED <<world, tables, request, target, fetched, end,
                   failures>>

\* The client methods: GetFlowResults reads the table from the cursor on,
\* GetHuntResults from the start.
GetFlowResults ==
    tool = "flow" /\ (FindArtifact \/ ResolveSource \/ FetchTable)

GetHuntResults ==
    tool = "hunt" /\ (FindArtifact \/ ResolveSource \/ FetchTable)

\* The handlers around them.
GetFlowResultsHandler ==
    tool = "flow" /\ (MockAnswer \/ RpcFails \/ BoundRows)

GetHuntResultsHandler ==
    tool = "hunt" /\ (MockAnswer \/ RpcFails \/ BoundRows)

-----------------------------------------------------------------------------
(* The reader *)

Call(r) ==
    /\ request' = r
    /\ stage' = "called"
    /\ UNCHANGED <<world, tables, target, fetched, answer, got, end,
                   passed, failures>>

MorePages == answer.page.next # None /\ answer.page.next <= MaxCursor

\* The reader asks for the page that next_cursor names.
Follow ==
    /\ stage = "answered" /\ MorePages
    /\ Call([request EXCEPT !.cursor = answer.page.next])

\* It names a source when it is told to, and tries again after an error.
PickSource ==
    /\ stage = "answered" /\ answer.status = "source_required"
    /\ \E s \in named : Call([request EXCEPT !.source = s])

Retry ==
    /\ stage = "answered" /\ answer.status \in {"error", "not_found"}
    /\ answer.page = NoPage
    /\ Call(request)

Stop ==
    /\ stage = "answered" /\ ~MorePages
    /\ answer.status # "source_required"
    /\ stage' = "done"
    /\ UNCHANGED <<world, tables, request, target, fetched, answer,
                   got, end, passed, failures>>

Finished == stage = "done" /\ UNCHANGED vars

CallStep ==
    \/ GetFlowResults \/ GetHuntResults
    \/ GetFlowResultsHandler \/ GetHuntResultsHandler

ReaderStep == Follow \/ PickSource \/ Retry \/ Stop

Next ==
    \/ \E s \in Sources \cup {None}, size \in Sizes : AddRow(s, size)
    \/ CallStep
    \/ ReaderStep
    \/ Finished

Spec == Init /\ [][Next]_vars

\* A call runs to its end (every RPC has a timeout) and the reader goes on.
FairSpec == Spec /\ WF_vars(CallStep) /\ WF_vars(ReaderStep)

-----------------------------------------------------------------------------
(* Properties *)

\* A reader of a flow never receives a row twice, however often it retries
\* and however the table grows between the pages.  (A hunt is read from the
\* start whatever the cursor, so its reader does.)
NoRowTwice ==
    [][tool = "flow" /\ stage = "bound" /\ stage' = "answered" =>
        Rows(answer'.page.from, answer'.page.count) \cap got = {}]_vars

\* Every row before the page a cursor names has been received: following
\* next_cursor leaves nothing out.  The one exception is a page that was full
\* and then cut by max_result_bytes: its cursor is the one of the full page.
NothingSkipped ==
    stage \in {"called", "sources", "table"} /\ ~passed =>
        1 .. StartRow \subseteq got

\* A successful or empty answer that does not say it is truncated is the end:
\* with the pages before it, it has every row there was when it was read,
\* unless a failed look-up of the sources made the call read another table.
CompleteWhenDone ==
    /\ mode = "real" /\ known /\ stage = "done" /\ ~passed /\ target = Meant
    /\ answer.status \in {"success", "empty"} /\ ~answer.page.truncated
    => 1 .. end \subseteq got

\* A reader of a flow that follows next_cursor gets to the end.
PagingEnds == (tool = "flow") ~> (stage = "done")
=============================================================================
