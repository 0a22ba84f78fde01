-------------------------- MODULE ReadToolsProofs ---------------------------
(***************************************************************************)
(* Proofs about the listing and look-up tools (ReadTools), for any number  *)
(* of calls, of objects and of changes to them, and for all limits,        *)
(* cursors and policies.                                                   *)
(*                                                                         *)
(* Every handler is shown to take one of five steps (Step), which say of a *)
(* tool only what its client method may return (GoodRaw) and what the      *)
(* answer may be made of (GoodAnswer).  The invariants follow from these.  *)
(***************************************************************************)
EXTENDS ReadTools, TLAPS

Phases == {"absent", "RUNNING", "FINISHED", "ERROR", "CANCELLED", "PAUSED",
           "STOPPED", "labelled", "gone"}
Object == [name: Items, state: Phases]

\* A flow in one of these phases will never be seen running again.
Settled == {"FINISHED", "ERROR", "CANCELLED", "gone"}

\* The server lists what is there, and each object once.
WorldInv ==
    /\ order \in Seq(Items)
    /\ phase \in [Items -> Phases]
    /\ \A m, n \in DOMAIN order : order[m] = order[n] => m = n
    /\ \A n \in DOMAIN order : phase[order[n]] \notin {"absent", "gone"}

\* What policy lets a caller open.
Openable(name) ==
    name \in Items /\ (policy.listAll \/ name \in policy.allowed)

\* The shape of a call, and what its stage says of it.
StageInv(k) ==
    /\ k = [stage |-> k.stage, request |-> k.request, raw |-> k.raw,
            answer |-> k.answer, known |-> k.known]
    /\ k.stage \in {"idle", "called", "fetched", "answered"}
    /\ k.request.limit \in Int /\ k.request.cursor \in Int \cup {None}
    /\ k.stage # "answered" => k.answer = Told("none")
    /\ k.stage \in {"idle", "called"} => k.raw = Failed
    /\ IF k.stage = "idle" THEN k.request = NoRequest
                           ELSE KindOf(k.request.tool) = kind

EvidenceInv(k) ==
    k.raw.result # "ok" =>
        /\ k.answer.count = 0 /\ ~k.answer.connected
        /\ k.request.tool # "preview_hunt_scope" => k.answer.rows = {}

\* Calls about artifacts: nothing is fetched that may not be opened, and
\* nothing is refused that may be.
ArtifactInv(k) ==
    kind = "artifact" =>
        /\ \A i \in DOMAIN k.raw.rows : k.raw.rows[i].name \in Items
        /\ \A r \in k.answer.rows : Openable(r.name)
        /\ k.request.tool = "get_artifact_details" =>
            /\ k.stage = "fetched" => Openable(k.request.name)
            /\ \A i \in DOMAIN k.raw.rows : k.raw.rows[i].name = k.request.name
            /\ k.answer.status = "blocked" => ~Openable(k.request.name)

\* A row about a flow: it says ended only of one that is, and says so if this
\* was known when the call was made.
FlowRow(r, known) ==
    /\ r.name \in Items
    /\ r.state \in Ended => phase[r.name] \in Settled
    /\ r.name \in known => r.state \in Ended

FlowInv(k) ==
    kind = "flow" =>
        /\ \A n \in k.known : n \in Items /\ phase[n] \in Settled
        /\ \A i \in DOMAIN k.raw.rows : FlowRow(k.raw.rows[i], k.known)
        /\ \A r \in k.answer.rows : FlowRow(r, k.known)

CallInv(k) == StageInv(k) /\ EvidenceInv(k) /\ ArtifactInv(k) /\ FlowInv(k)

IInv ==
    /\ policy \in Policies
    /\ WorldInv
    /\ calls = [c \in 1..Calls |-> calls[c]]
    /\ \A c \in 1..Calls : CallInv(calls[c])

-----------------------------------------------------------------------------
(* The steps of a call *)

\* Where the look-up of an object of this kind searches for it.
Searched == IF kind = "upload" THEN First(Live, MaxRows) ELSE Live

\* What the client method behind request q returns, as the server now is.
GoodRaw(q, raw) ==
    /\ \A i \in DOMAIN raw.rows : raw.rows[i].name \in Items
    /\ q.tool = "get_artifact_details" =>
        \A i \in DOMAIN raw.rows : raw.rows[i].name = q.name
    /\ kind = "flow" => \A i \in DOMAIN raw.rows :
        raw.rows[i].state \in Ended <=> phase[raw.rows[i].name] \in Settled
    /\ raw.result = "missing" => q.name \notin Names(Searched)
    /\ q.tool \in Listings /\ raw.result = "ok" /\ Len(raw.rows) < RowBound(q)
        => ShownBy(q, raw.rows) = Visible(q)

\* What it says of a look-up that found nothing.
LEMMA GoodMissing ==
    ASSUME NEW q, NEW raw, GoodRaw(q, raw), raw.result = "missing"
    PROVE  q.name \notin Names(Searched)
BY DEF GoodRaw

\* What it says of a listing with room for more.
LEMMA GoodShort ==
    ASSUME NEW q, NEW raw, GoodRaw(q, raw), q.tool \in Listings,
           raw.result = "ok", Len(raw.rows) < RowBound(q)
    PROVE  ShownBy(q, raw.rows) = Visible(q)
BY DEF GoodRaw

\* What the handler makes of it.
GoodAnswer(q, rows, told) ==
    /\ \A r \in told.rows : \E i \in DOMAIN rows : r = rows[i]
    /\ q.tool = "list_artifact_names" =>
        \A r \in told.rows : policy.listAll \/ r.name \in policy.allowed
    /\ told.status # "blocked"

\* An answer that shows nothing of the server.
Blank(q, told) ==
    /\ told.count = 0 /\ ~told.connected
    /\ q.tool # "preview_hunt_scope" => told.rows = {}

GoodMock(q, told) == Blank(q, told) /\ told.status # "blocked"

GoodRefusal(q, refused) ==
    q.tool = "get_artifact_details" => (refused <=> ~Openable(q.name))

\* The parameters of Handler are right for call c.
GoodHandler(c, refused, raw, told, mock) ==
    LET q == calls[c].request IN
    /\ GoodRefusal(q, refused)
    /\ GoodRaw(q, raw)
    /\ GoodAnswer(q, calls[c].raw.rows, told)
    /\ GoodMock(q, mock)

\* Nothing but call c changes, and of that call not what was asked.
OnlyCall(c) ==
    /\ calls' = [d \in 1..Calls |-> calls'[d]]
    /\ \A d \in 1..Calls : d # c => calls'[d] = calls[d]
    /\ calls'[c] = [stage |-> calls'[c].stage, request |-> calls[c].request,
                    raw |-> calls'[c].raw, answer |-> calls'[c].answer,
                    known |-> calls[c].known]
    /\ UNCHANGED <<mode, policy, kind, order, phase, changes>>

Refuses(k, l) ==
    /\ k.stage = "called" /\ l.stage = "answered" /\ l.raw = k.raw
    /\ l.answer = Told("blocked")
    /\ GoodRefusal(k.request, TRUE)

Mocks(k, l) ==
    /\ k.stage = "called" /\ l.stage = "answered" /\ l.raw = k.raw
    /\ GoodMock(k.request, l.answer)

Fetches(k, l) ==
    /\ k.stage = "called" /\ l.stage = "fetched" /\ l.answer = k.answer
    /\ GoodRaw(k.request, l.raw)
    /\ GoodRefusal(k.request, FALSE)

Answers(k, l) ==
    /\ k.stage = "fetched" /\ l.stage = "answered" /\ l.raw = k.raw
    /\ k.raw.result = "ok"
    /\ GoodAnswer(k.request, k.raw.rows, l.answer)

Fails(k, l) ==
    /\ k.stage = "fetched" /\ l.stage = "answered" /\ l.raw = k.raw
    /\ k.raw.result # "ok"
    /\ l.answer \in {Told("not_found"), Told("error")}

OneStep(k, l) ==
    \/ Refuses(k, l) \/ Mocks(k, l) \/ Fetches(k, l) \/ Answers(k, l)
    \/ Fails(k, l)

Step(c) == OnlyCall(c) /\ OneStep(calls[c], calls'[c])

-----------------------------------------------------------------------------
(* What a step does to its call *)

\* An answer that only tells a status.
LEMMA ToldFields ==
    ASSUME NEW status
    PROVE  /\ Told(status).status = status /\ Told(status).rows = {}
           /\ Told(status).count = 0 /\ ~Told(status).connected
BY DEF Told

\* What the objects and the other calls do leaves a call's invariant true.
LEMMA SameCall ==
    ASSUME NEW k, CallInv(k), UNCHANGED <<policy, kind>>,
           NEW d, k = calls'[d],
           \A n \in Items : phase[n] \in Settled => phase'[n] \in Settled
    PROVE  CallInv(calls[d])'
<1>1. StageInv(calls[d])' /\ EvidenceInv(calls[d])'
    BY SMTT(60) DEF CallInv, StageInv, EvidenceInv
<1>2. ArtifactInv(calls[d])'
    BY ZenonT(60) DEF CallInv, ArtifactInv, Openable
<1>3. FlowInv(calls[d])'
    BY ZenonT(60) DEF CallInv, FlowInv, FlowRow
<1>4. QED
    BY SMTT(60), <1>1, <1>2, <1>3 DEF CallInv

LEMMA OtherCall ==
    ASSUME NEW d \in 1..Calls, CallInv(calls[d]), calls'[d] = calls[d],
           UNCHANGED <<policy, kind>>,
           \A n \in Items : phase[n] \in Settled => phase'[n] \in Settled
    PROVE  CallInv(calls[d])'
BY SameCall

\* The shape of the call.
LEMMA StepStage ==
    ASSUME NEW k, NEW l, StageInv(k), OneStep(k, l),
           l = [stage |-> l.stage, request |-> k.request, raw |-> l.raw,
                answer |-> l.answer, known |-> k.known]
    PROVE  StageInv(l)
<1>1. l.request = k.request /\ l.known = k.known
    OBVIOUS
<1>2. QED
    BY ZenonT(60), <1>1
       DEF StageInv, OneStep, Refuses, Mocks, Fetches, Answers, Fails

LEMMA StepEvidence ==
    ASSUME NEW k, NEW l, StageInv(k), EvidenceInv(k), OneStep(k, l),
           l.request = k.request
    PROVE  EvidenceInv(l)
<1>1. CASE Refuses(k, l)
    BY <1>1, ToldFields DEF Refuses, EvidenceInv
<1>2. CASE Mocks(k, l)
    BY <1>2 DEF Mocks, GoodMock, Blank, EvidenceInv
<1>3. CASE Fetches(k, l)
    <2>1. l.answer = Told("none")
        BY ZenonT(60), <1>3 DEF Fetches, StageInv
    <2>2. QED
        BY <2>1, ToldFields DEF EvidenceInv
<1>4. CASE Answers(k, l)
    BY <1>4 DEF Answers, EvidenceInv
<1>5. CASE Fails(k, l)
    BY <1>5, ToldFields DEF Fails, EvidenceInv
<1>6. QED
    BY <1>1, <1>2, <1>3, <1>4, <1>5 DEF OneStep

LEMMA StepArtifact ==
    ASSUME NEW k, NEW l, StageInv(k), ArtifactInv(k), OneStep(k, l),
           l.request = k.request
    PROVE  ArtifactInv(l)
<1> SUFFICES ASSUME kind = "artifact"
             PROVE  ArtifactInv(l)
    BY DEF ArtifactInv
<1>1. k.stage # "idle" => k.request.tool \in {"list_artifact_names",
                                              "get_artifact_details"}
    BY SMTT(60) DEF StageInv, KindOf
<1>2. CASE Refuses(k, l)
    <2>1. l.raw = Failed /\ l.answer.rows = {}
        BY SMTT(60), <1>2, ToldFields DEF Refuses, StageInv
    <2>2. QED
        BY SMTT(60), <1>2, <2>1
           DEF ArtifactInv, Refuses, GoodRefusal, Openable, Failed, Raw
<1>3. CASE Mocks(k, l)
    <2>1. /\ l.raw = Failed
          /\ l.answer.rows = {} /\ l.answer.status # "blocked"
        BY SMTT(60), <1>1, <1>3 DEF Mocks, GoodMock, Blank, StageInv
    <2>2. QED
        BY SMTT(60), <1>3, <2>1 DEF ArtifactInv, Mocks, Failed, Raw
<1>4. CASE Fetches(k, l)
    <2>1. l.answer = Told("none")
        BY ZenonT(60), <1>4 DEF Fetches, StageInv
    <2>2. l.answer.rows = {} /\ l.answer.status # "blocked"
        BY SMTT(60), <2>1, ToldFields
    <2>3. QED
        BY SMTT(60), <1>4, <2>2
           DEF ArtifactInv, Fetches, GoodRaw, GoodRefusal, Openable
<1>5. CASE Answers(k, l)
    <2>1. l.raw = k.raw /\ l.stage = "answered" /\ k.stage = "fetched"
          /\ GoodAnswer(k.request, k.raw.rows, l.answer)
        BY <1>5 DEF Answers
    <2>2. \A r \in l.answer.rows :
            \E i \in DOMAIN k.raw.rows : r = k.raw.rows[i]
        BY <2>1 DEF GoodAnswer
    <2>3. \A r \in l.answer.rows : Openable(r.name)
        <3>1. CASE k.request.tool = "list_artifact_names"
            BY SMTT(60), <2>1, <2>2, <3>1 DEF ArtifactInv, GoodAnswer, Openable
        <3>2. CASE k.request.tool = "get_artifact_details"
            BY SMTT(60), <2>1, <2>2, <3>2 DEF ArtifactInv
        <3>3. QED
            BY SMTT(60), <1>1, <2>1, <3>1, <3>2
    <2>4. l.answer.status # "blocked"
        BY SMTT(60), <2>1 DEF GoodAnswer
    <2>5. QED
        BY SMTT(60), <2>1, <2>3, <2>4 DEF ArtifactInv, Openable
<1>6. CASE Fails(k, l)
    <2>1. l.answer.rows = {} /\ l.answer.status # "blocked"
        BY SMTT(60), <1>6, ToldFields DEF Fails
    <2>2. QED
        BY SMTT(60), <1>6, <2>1 DEF ArtifactInv, Fails
<1>7. QED
    BY <1>2, <1>3, <1>4, <1>5, <1>6 DEF OneStep

LEMMA StepFlow ==
    ASSUME NEW k, NEW l, StageInv(k), FlowInv(k), OneStep(k, l),
           l.request = k.request, l.known = k.known
    PROVE  FlowInv(l)
<1> SUFFICES ASSUME kind = "flow"
             PROVE  FlowInv(l)
    BY DEF FlowInv
<1>1. k.stage # "idle" => k.request.tool # "preview_hunt_scope"
    BY SMTT(60) DEF StageInv, KindOf
<1>2. \A n \in l.known : n \in Items /\ phase[n] \in Settled
    BY SMTT(60) DEF FlowInv
<1>3. \A i \in DOMAIN l.raw.rows : FlowRow(l.raw.rows[i], l.known)
    <2>1. CASE Fetches(k, l)
        BY ZenonT(60), <1>2, <2>1 DEF Fetches, GoodRaw, FlowRow
    <2>2. CASE l.raw = k.raw
        BY SMTT(60), <2>2 DEF FlowInv
    <2>3. QED
        BY ZenonT(60), <2>1, <2>2 DEF OneStep, Refuses, Mocks, Answers, Fails
<1>4. \A r \in l.answer.rows : FlowRow(r, l.known)
    <2>1. CASE Answers(k, l)
        BY SMTT(60), <1>3, <2>1 DEF Answers, GoodAnswer
    <2>2. CASE Fetches(k, l)
        <3>1. l.answer = Told("none")
            BY ZenonT(60), <2>2 DEF Fetches, StageInv
        <3>2. QED
            BY SMTT(60), <3>1, ToldFields
    <2>3. Refuses(k, l) \/ Mocks(k, l) \/ Fails(k, l) => l.answer.rows = {}
        BY ZenonT(60), <1>1, ToldFields
           DEF Refuses, Mocks, Fails, GoodMock, Blank
    <2>4. QED
        BY SMTT(60), <2>1, <2>2, <2>3 DEF OneStep
<1>5. QED
    BY SMTT(60), <1>2, <1>3, <1>4 DEF FlowInv

-----------------------------------------------------------------------------
(* Operators *)

\* The names in the server's order.
LEMMA OrderType ==
    ASSUME WorldInv
    PROVE  /\ Len(order) \in Nat
           /\ \A i \in 1..Len(order) :
                /\ order[i] \in Items
                /\ phase[order[i]] \in Phases \ {"absent", "gone"}
           /\ \A m, n \in 1..Len(order) : order[m] = order[n] => m = n
<1>1. DOMAIN order = 1..Len(order) /\ Len(order) \in Nat
    BY DEF WorldInv
<1>2. QED
    BY <1>1 DEF WorldInv

\* The objects listed are objects, in that order.
LEMMA LiveType ==
    ASSUME WorldInv
    PROVE  /\ Live \in Seq(Object)
           /\ Len(Live) = Len(order)
           /\ \A i \in 1..Len(Live) :
                Live[i].name = order[i] /\ Live[i].state = phase[order[i]]
<1>1. \A i \in 1..Len(order) :
        [name |-> order[i], state |-> phase[order[i]]] \in Object
    BY DEF WorldInv, Object
<1>2. DOMAIN order = 1..Len(order) /\ Len(order) \in Nat
    BY DEF WorldInv
<1>3. Live = [i \in 1..Len(order) |->
                [name |-> order[i], state |-> phase[order[i]]]]
    BY <1>2 DEF Live
<1>4. QED
    BY <1>1, <1>2, <1>3

\* A prefix of a sequence; one that is shorter than it may be is all of it.
LEMMA FirstType ==
    ASSUME NEW S, NEW s \in Seq(S), NEW n \in Nat
    PROVE  /\ First(s, n) \in Seq(S)
           /\ Len(First(s, n)) <= Len(s)
           /\ \A i \in 1..Len(First(s, n)) : First(s, n)[i] = s[i]
           /\ Len(First(s, n)) < n => First(s, n) = s
<1>1. CASE n <= Len(s)
    <2>1. First(s, n) = SubSeq(s, 1, n)
        BY <1>1 DEF First
    <2>2. QED
        BY <1>1, <2>1
<1>2. CASE ~(n <= Len(s))
    <2>1. First(s, n) = SubSeq(s, 1, Len(s))
        BY <1>2 DEF First
    <2>2. First(s, n) = s
        BY <2>1
    <2>3. QED
        BY <1>2, <2>2
<1>3. QED
    BY <1>1, <1>2

\* What is left of a sequence after n of its elements.
LEMMA RestType ==
    ASSUME NEW S, NEW s \in Seq(S), NEW n \in Nat
    PROVE  /\ SubSeq(s, n + 1, Len(s)) \in Seq(S)
           /\ \A i \in 1..Len(SubSeq(s, n + 1, Len(s))) :
                /\ n + i \in 1..Len(s)
                /\ SubSeq(s, n + 1, Len(s))[i] = s[n + i]
OBVIOUS

\* One sequence after the other.
LEMMA ConcatType ==
    ASSUME NEW S, NEW a \in Seq(S), NEW b \in Seq(S)
    PROVE  /\ a \o b \in Seq(S) /\ Len(a \o b) = Len(a) + Len(b)
           /\ \A n \in 1..Len(a) : (a \o b)[n] = a[n]
           /\ \A n \in (Len(a) + 1)..(Len(a) + Len(b)) :
                (a \o b)[n] = b[n - Len(a)]
OBVIOUS

\* A sequence without its element number p.
LEMMA RemoveType ==
    ASSUME NEW S, NEW s \in Seq(S), NEW p \in 1..Len(s)
    PROVE  LET t == SubSeq(s, 1, p - 1) \o SubSeq(s, p + 1, Len(s)) IN
           /\ t \in Seq(S) /\ Len(t) = Len(s) - 1
           /\ \A n \in 1..Len(t) : t[n] = IF n < p THEN s[n] ELSE s[n + 1]
<1> DEFINE a == SubSeq(s, 1, p - 1)
           b == SubSeq(s, p + 1, Len(s))
           t == a \o b
<1>1. /\ a \in Seq(S) /\ Len(a) = p - 1
      /\ \A n \in 1..(p - 1) : a[n] = s[n]
    OBVIOUS
<1>2. /\ b \in Seq(S) /\ Len(b) = Len(s) - p
      /\ \A n \in 1..(Len(s) - p) : b[n] = s[p + n]
    OBVIOUS
<1>3. Len(s) \in Nat /\ p \in Nat /\ 1 <= p /\ p <= Len(s)
    OBVIOUS
<1> HIDE DEF a, b
<1>4. /\ t \in Seq(S) /\ Len(t) = Len(a) + Len(b)
      /\ \A n \in 1..Len(a) : t[n] = a[n]
      /\ \A n \in (Len(a) + 1)..(Len(a) + Len(b)) : t[n] = b[n - Len(a)]
    BY ZenonT(60), <1>1, <1>2, ConcatType
<1> HIDE DEF t
<1>5. Len(t) = Len(s) - 1
    BY <1>1, <1>2, <1>3, <1>4
<1>6. ASSUME NEW n \in 1..Len(t)
      PROVE  t[n] = IF n < p THEN s[n] ELSE s[n + 1]
    <2>1. CASE n < p
        BY <1>1, <1>3, <1>4, <2>1
    <2>2. CASE ~(n < p)
        <3>1. n \in (Len(a) + 1)..(Len(a) + Len(b))
            BY <1>1, <1>2, <1>3, <1>5, <2>2
        <3>2. t[n] = b[n - (p - 1)] /\ n - (p - 1) \in 1..(Len(s) - p)
            BY <1>1, <1>2, <1>3, <1>4, <3>1
        <3>3. b[n - (p - 1)] = s[p + (n - (p - 1))]
            BY <1>2, <3>2
        <3>4. p + (n - (p - 1)) = n + 1
            BY <1>3
        <3>5. QED
            BY <2>2, <3>2, <3>3, <3>4
    <2>3. QED
        BY <2>1, <2>2
<1>7. QED
    BY ZenonT(60), <1>4, <1>5, <1>6 DEF t, a, b

\* The bounds of a page are numbers.
LEMMA BoundType ==
    ASSUME NEW limit \in Int, NEW cursor \in Int \cup {None}
    PROVE  BoundLimit(limit, MaxRows) \in Nat /\ ParseOffset(cursor) \in Nat
BY ReadToolsAssumption, NoneAssumption DEF BoundLimit, ParseOffset

\* A look-up by name finds the one object of that name.
LEMMA HitsOne ==
    ASSUME NEW objects \in Seq(Object), NEW name,
           \A m, n \in 1..Len(objects) :
               objects[m].name = objects[n].name => m = n,
           Hits(objects, name) # {}
    PROVE  /\ FirstOf(Hits(objects, name)) \in 1..Len(objects)
           /\ objects[FirstOf(Hits(objects, name))].name = name
           /\ objects[FirstOf(Hits(objects, name))] \in Object
<1>1. PICK h \in 1..Len(objects) : objects[h].name = name
    BY DEF Hits
<1>2. Hits(objects, name) = {h}
    BY <1>1 DEF Hits
<1>3. FirstOf(Hits(objects, name)) = h
    BY <1>2 DEF FirstOf
<1>4. QED
    BY <1>1, <1>3

-----------------------------------------------------------------------------
(* The client methods *)

\* A call of tool, as Receive admits it.
Asks(q, tool) ==
    /\ q.tool = tool /\ KindOf(tool) = kind
    /\ q.limit \in Int /\ q.cursor \in Int \cup {None}

From(q) == IF q.tool = "list_flows" THEN ParseOffset(q.cursor) ELSE 0

\* A listing that summarises a page of the objects.
LEMMA PageGood ==
    ASSUME WorldInv, NEW q, NEW rows,
           q.limit \in Int, q.cursor \in Int \cup {None},
           NEW page,
           page = First(SubSeq(Live, From(q) + 1, Len(Live)), RowBound(q)),
           DOMAIN rows = DOMAIN page,
           \A i \in DOMAIN page : rows[i].name = page[i].name,
           kind = "flow" => \A i \in DOMAIN page :
                rows[i].state \in Ended <=> page[i].state \in Settled,
           q.tool \in Listings
    PROVE  GoodRaw(q, Found(rows))
<1> DEFINE rest == SubSeq(Live, From(q) + 1, Len(Live))
<1>1. From(q) \in Nat /\ RowBound(q) \in Nat
    BY ZenonT(60), BoundType, ReadToolsAssumption DEF From, RowBound
<1>2. Live \in Seq(Object) /\ Len(Live) \in Nat
    BY LiveType
<1>3. /\ rest \in Seq(Object)
      /\ \A i \in 1..Len(rest) : /\ From(q) + i \in 1..Len(Live)
                                 /\ rest[i] = Live[From(q) + i]
    BY ZenonT(60), <1>1, <1>2, RestType
<1> HIDE DEF rest
<1>4. page = First(rest, RowBound(q))
    BY DEF rest
<1>5. /\ page \in Seq(Object)
      /\ Len(page) <= Len(rest)
      /\ \A i \in 1..Len(page) : page[i] = rest[i]
      /\ Len(page) < RowBound(q) => page = rest
    BY SMTT(60), Z3T(60), <1>1, <1>3, <1>4, FirstType
<1>6. DOMAIN rows = 1..Len(page) /\ Len(page) \in Nat /\ Len(rest) \in Nat
    BY <1>3, <1>5
<1>7. \A i \in 1..Len(page) :
        \E n \in 1..Len(Live) :
            rows[i].name = order[n] /\ page[i].state = phase[order[n]]
    <2> SUFFICES ASSUME NEW i \in 1..Len(page)
                 PROVE  \E n \in 1..Len(Live) :
                            /\ rows[i].name = order[n]
                            /\ page[i].state = phase[order[n]]
        OBVIOUS
    <2>1. page[i] = Live[From(q) + i] /\ From(q) + i \in 1..Len(Live)
        BY <1>3, <1>5, <1>6
    <2>2. rows[i].name = page[i].name
        BY <1>6
    <2>3. QED
        BY SMTT(60), Z3T(60), <2>1, <2>2, LiveType
<1>8. \A i \in DOMAIN rows : rows[i].name \in Items
    BY <1>6, <1>7, LiveType, OrderType
<1>9. ASSUME kind = "flow"
      PROVE  \A i \in DOMAIN rows :
                rows[i].state \in Ended <=> phase[rows[i].name] \in Settled
    BY <1>6, <1>7, <1>9
<1>10. ASSUME Len(rows) < RowBound(q)
       PROVE  ShownBy(q, rows) = Visible(q)
    <2>1. page = rest /\ DOMAIN rows = DOMAIN rest
        BY <1>5, <1>6, <1>10
    <2>2. Visible(q) = IF q.tool = "list_artifact_names" /\ ~policy.listAll
                       THEN Names(rest) \cap policy.allowed ELSE Names(rest)
        BY DEF Visible, rest, From
    <2>3. \A i \in DOMAIN rows : rows[i].name = rest[i].name
        BY <2>1
    <2>4. QED
        BY <2>1, <2>2, <2>3 DEF ShownBy, FilterAllowedArtifacts, Names
<1>11. /\ Found(rows).rows = rows
       /\ Found(rows).result = "ok"
    BY DEF Found, Raw
<1>12. q.tool # "get_artifact_details"
    BY DEF Listings
<1>13. QED
    BY <1>8, <1>9, <1>10, <1>11, <1>12 DEF GoodRaw

\* A look-up that summarises the object of the name asked for.
LEMMA LookupGood ==
    ASSUME WorldInv, NEW q, q.tool \notin Listings, NEW raw,
           NEW row, NEW h,
           \/ raw = Raw("missing", <<>>, 0) /\ Hits(Searched, q.name) = {}
           \/ /\ raw = Found(<<row>>) /\ Hits(Searched, q.name) # {}
              /\ h = FirstOf(Hits(Searched, q.name))
              /\ row.name = Searched[h].name
              /\ kind = "flow" => (row.state \in Ended <=>
                                     Searched[h].state \in Settled)
    PROVE  GoodRaw(q, raw)
<1>1. /\ Live \in Seq(Object) /\ Len(Live) = Len(order)
      /\ \A i \in 1..Len(Live) :
            Live[i].name = order[i] /\ Live[i].state = phase[order[i]]
    BY LiveType
<1>2. /\ Searched \in Seq(Object)
      /\ Len(Searched) <= Len(order)
      /\ \A i \in 1..Len(Searched) :
            Searched[i].name = order[i] /\ Searched[i].state = phase[order[i]]
    BY <1>1, OrderType, FirstType, ReadToolsAssumption DEF Searched
<1>3. /\ \A i \in 1..Len(Searched) : i \in 1..Len(order) /\ order[i] \in Items
      /\ \A m, n \in 1..Len(Searched) :
            Searched[m].name = Searched[n].name => m = n
    BY SMTT(60), Z3T(60), <1>2, OrderType
<1>4. CASE raw = Raw("missing", <<>>, 0) /\ Hits(Searched, q.name) = {}
    <2>1. q.name \notin Names(Searched)
        BY <1>4 DEF Names, Hits
    <2>2. raw.rows = <<>> /\ raw.result = "missing"
        BY <1>4 DEF Raw
    <2>3. QED
        BY <2>1, <2>2 DEF GoodRaw
<1>5. CASE /\ raw = Found(<<row>>) /\ Hits(Searched, q.name) # {}
           /\ h = FirstOf(Hits(Searched, q.name))
           /\ row.name = Searched[h].name
           /\ kind = "flow" => (row.state \in Ended <=>
                                  Searched[h].state \in Settled)
    <2>1. h \in 1..Len(Searched) /\ Searched[h].name = q.name
        BY <1>2, <1>3, <1>5, HitsOne
    <2>2. /\ row.name = q.name /\ q.name = order[h] /\ order[h] \in Items
          /\ kind = "flow" =>
                (row.state \in Ended <=> phase[q.name] \in Settled)
        BY <1>2, <1>3, <1>5, <2>1
    <2>3. raw.rows = <<row>> /\ raw.result = "ok"
        BY <1>5 DEF Found, Raw
    <2>4. \A i \in DOMAIN raw.rows : raw.rows[i] = row
        BY <2>3
    <2>5. QED
        BY <2>2, <2>3, <2>4 DEF GoodRaw
<1>6. QED
    BY <1>4, <1>5

\* An RPC that failed, and the health check, return no rows.
LEMMA EmptyGood ==
    ASSUME NEW q
    PROVE  /\ GoodRaw(q, Failed)
           /\ q.tool \notin Listings => GoodRaw(q, Found(<<>>))
           /\ \A n : q.tool \notin Listings => GoodRaw(q, Raw("ok", <<>>, n))
<1>1. Failed.rows = <<>> /\ Failed.result = "failed"
    BY DEF Failed, Raw
<1>2. Found(<<>>).rows = <<>> /\ Found(<<>>).result = "ok"
    BY DEF Found, Raw
<1>3. \A n : Raw("ok", <<>>, n).rows = <<>> /\ Raw("ok", <<>>, n).result = "ok"
    BY DEF Raw
<1>4. QED
    BY <1>1, <1>2, <1>3 DEF GoodRaw

\* MapFlowState reports as ended exactly the flows that have ended.
LEMMA FlowSummaries ==
    ASSUME NEW o \in Object, o.state # "gone"
    PROVE  /\ ToFlowSummaryFromRow(o).name = o.name
           /\ ToFlowSummaryFromRow(o).state \in Ended <=> o.state \in Settled
           /\ ToFlowSummaryFromContext(o).name = o.name
           /\ ToFlowSummaryFromContext(o).state \in Ended
                <=> o.state \in Settled
<1>1. /\ MapFlowState(WireState(o), FALSE) \in Ended <=> o.state \in Settled
      /\ MapFlowState(WireState(o), o.state = "CANCELLED") \in Ended
            <=> o.state \in Settled
    BY DEF MapFlowState, WireState, Ended, Settled, Object, Phases
<1>2. QED
    BY ZenonT(60), <1>1 DEF ToFlowSummaryFromRow, ToFlowSummaryFromContext

\* But for list_flows, a listing starts with the first object.
LEMMA FirstPage ==
    ASSUME WorldInv, NEW q, q.tool # "list_flows"
    PROVE  First(SubSeq(Live, From(q) + 1, Len(Live)), RowBound(q))
              = First(Live, RowBound(q))
<1>1. From(q) + 1 = 1
    BY DEF From
<1>2. SubSeq(Live, 1, Len(Live)) = Live
    BY LiveType
<1>3. QED
    BY ZenonT(60), <1>1, <1>2

\* Each client method returns what GoodRaw says.
LEMMA SearchClientsGood ==
    ASSUME WorldInv, NEW q, Asks(q, "search_clients")
    PROVE  GoodRaw(q, SearchClients(q))
<1> DEFINE page == First(Live, RowBound(q))
           rows == [i \in DOMAIN page |-> ToClientSummary(page[i])]
<1>1. kind # "flow" /\ q.tool \in Listings
    BY DEF Asks, KindOf, Listings
<1>2. SearchClients(q) = Found(rows)
    BY DEF SearchClients, Summaries, RowBound, Asks
<1>3. DOMAIN rows = DOMAIN page
      /\ \A i \in DOMAIN page : rows[i].name = page[i].name
    BY DEF ToClientSummary
<1>4. page = First(SubSeq(Live, From(q) + 1, Len(Live)), RowBound(q))
    BY FirstPage DEF Asks
<1> HIDE DEF page, rows
<1>5. GoodRaw(q, Found(rows))
    BY <1>1, <1>3, <1>4, PageGood DEF Asks
<1>6. QED
    BY <1>2, <1>5

\* GetClientInfo: a look-up by name among all the clients.
LEMMA GetClientInfoGood ==
    ASSUME WorldInv, NEW q, Asks(q, "get_client_info")
    PROVE  GoodRaw(q, GetClientInfo(q))
<1>1. kind # "flow" /\ q.tool \notin Listings /\ Searched = Live
    BY DEF Asks, KindOf, Listings, Searched
<1> DEFINE h == FirstOf(Hits(Searched, q.name))
           row == ToClientSummary(Searched[h])
<1>2. GetClientInfo(q) = IF Hits(Searched, q.name) = {}
                          THEN Raw("missing", <<>>, 0) ELSE Found(<<row>>)
    BY <1>1 DEF GetClientInfo, Lookup
<1>3. row.name = Searched[h].name
    BY DEF ToClientSummary
<1> HIDE DEF row
<1>4. QED
    BY ZenonT(60), <1>1, <1>2, <1>3, LookupGood

\* ListArtifactNames: the first max_rows of the artifacts.
LEMMA ListArtifactNamesGood ==
    ASSUME WorldInv, NEW q, Asks(q, "list_artifact_names")
    PROVE  GoodRaw(q, ListArtifactNames)
<1> DEFINE page == First(Live, RowBound(q))
           rows == [i \in DOMAIN page |-> ToClientSummary(page[i])]
<1>1. kind # "flow" /\ q.tool \in Listings
    BY DEF Asks, KindOf, Listings
<1>2. ListArtifactNames = Found(rows)
    BY DEF ListArtifactNames, Summaries, RowBound, Asks
<1>3. DOMAIN rows = DOMAIN page
      /\ \A i \in DOMAIN page : rows[i].name = page[i].name
    BY DEF ToClientSummary
<1>4. page = First(SubSeq(Live, From(q) + 1, Len(Live)), RowBound(q))
    BY FirstPage DEF Asks
<1> HIDE DEF page, rows
<1>5. GoodRaw(q, Found(rows))
    BY <1>1, <1>3, <1>4, PageGood DEF Asks
<1>6. QED
    BY <1>2, <1>5

\* GetArtifactDetails: a look-up by name among all the artifacts.
LEMMA GetArtifactDetailsGood ==
    ASSUME WorldInv, NEW q, Asks(q, "get_artifact_details")
    PROVE  GoodRaw(q, GetArtifactDetails(q))
<1>1. kind # "flow" /\ q.tool \notin Listings /\ Searched = Live
    BY DEF Asks, KindOf, Listings, Searched
<1> DEFINE h == FirstOf(Hits(Searched, q.name))
           row == ToClientSummary(Searched[h])
<1>2. GetArtifactDetails(q) = IF Hits(Searched, q.name) = {}
                               THEN Raw("missing", <<>>, 0) ELSE Found(<<row>>)
    BY <1>1 DEF GetArtifactDetails, Lookup
<1>3. row.name = Searched[h].name
    BY DEF ToClientSummary
<1> HIDE DEF row
<1>4. QED
    BY ZenonT(60), <1>1, <1>2, <1>3, LookupGood

\* ListHunts: as many of the hunts as the limit allows.
LEMMA ListHuntsGood ==
    ASSUME WorldInv, NEW q, Asks(q, "list_hunts")
    PROVE  GoodRaw(q, ListHunts(q))
<1> DEFINE page == First(Live, RowBound(q))
           rows == [i \in DOMAIN page |-> ToHuntSummary(page[i])]
<1>1. kind # "flow" /\ q.tool \in Listings
    BY DEF Asks, KindOf, Listings
<1>2. ListHunts(q) = Found(rows)
    BY DEF ListHunts, Summaries, RowBound, Asks
<1>3. DOMAIN rows = DOMAIN page
      /\ \A i \in DOMAIN page : rows[i].name = page[i].name
    BY DEF ToHuntSummary
<1>4. page = First(SubSeq(Live, From(q) + 1, Len(Live)), RowBound(q))
    BY FirstPage DEF Asks
<1> HIDE DEF page, rows
<1>5. GoodRaw(q, Found(rows))
    BY <1>1, <1>3, <1>4, PageGood DEF Asks
<1>6. QED
    BY <1>2, <1>5

\* GetHuntStatus: a look-up by name among all the hunts.
LEMMA GetHuntStatusGood ==
    ASSUME WorldInv, NEW q, Asks(q, "get_hunt_status")
    PROVE  GoodRaw(q, GetHuntStatus(q))
<1>1. kind # "flow" /\ q.tool \notin Listings /\ Searched = Live
    BY DEF Asks, KindOf, Listings, Searched
<1> DEFINE h == FirstOf(Hits(Searched, q.name))
           row == ToHuntSummary(Searched[h])
<1>2. GetHuntStatus(q) = IF Hits(Searched, q.name) = {}
                          THEN Raw("missing", <<>>, 0) ELSE Found(<<row>>)
    BY <1>1 DEF GetHuntStatus, Lookup
<1>3. row.name = Searched[h].name
    BY DEF ToHuntSummary
<1> HIDE DEF row
<1>4. QED
    BY ZenonT(60), <1>1, <1>2, <1>3, LookupGood

\* ListFlowUploads: the first max_rows of the uploads.
LEMMA ListFlowUploadsGood ==
    ASSUME WorldInv, NEW q, Asks(q, "list_flow_uploads")
    PROVE  GoodRaw(q, ListFlowUploads)
<1> DEFINE page == First(Live, RowBound(q))
           rows == [i \in DOMAIN page |-> ToClientSummary(page[i])]
<1>1. kind # "flow" /\ q.tool \in Listings
    BY DEF Asks, KindOf, Listings
<1>2. ListFlowUploads = Found(rows)
    BY DEF ListFlowUploads, ListFlowUploadRows, Summaries, RowBound, Asks
<1>3. DOMAIN rows = DOMAIN page
      /\ \A i \in DOMAIN page : rows[i].name = page[i].name
    BY DEF ToClientSummary
<1>4. page = First(SubSeq(Live, From(q) + 1, Len(Live)), RowBound(q))
    BY FirstPage DEF Asks
<1> HIDE DEF page, rows
<1>5. GoodRaw(q, Found(rows))
    BY <1>1, <1>3, <1>4, PageGood DEF Asks
<1>6. QED
    BY <1>2, <1>5

\* GetFlowUploadMetadata: a look-up among the first max_rows uploads.
LEMMA GetFlowUploadMetadataGood ==
    ASSUME WorldInv, NEW q, Asks(q, "get_flow_upload_metadata")
    PROVE  GoodRaw(q, GetFlowUploadMetadata(q))
<1>1. /\ kind # "flow" /\ q.tool \notin Listings
      /\ Searched = First(Live, MaxRows)
    BY DEF Asks, KindOf, Listings, Searched
<1> DEFINE h == FirstOf(Hits(Searched, q.name))
           row == ToClientSummary(Searched[h])
<1>2. GetFlowUploadMetadata(q) = IF Hits(Searched, q.name) = {}
                                  THEN Raw("missing", <<>>, 0)
                                  ELSE Found(<<row>>)
    BY <1>1 DEF GetFlowUploadMetadata, ListFlowUploadRows, Lookup
<1>3. row.name = Searched[h].name
    BY DEF ToClientSummary
<1> HIDE DEF row
<1>4. QED
    BY ZenonT(60), <1>1, <1>2, <1>3, LookupGood

\* What is listed is there, so its summary says how it is.
LEMMA LiveFlow ==
    ASSUME WorldInv, NEW i \in 1..Len(Live)
    PROVE  Live[i] \in Object /\ Live[i].state # "gone"
BY LiveType, OrderType

\* ListFlows: the page that starts at the cursor.
LEMMA ListFlowsGood ==
    ASSUME WorldInv, NEW q, Asks(q, "list_flows")
    PROVE  GoodRaw(q, ListFlows(q))
<1> DEFINE rest == SubSeq(Live, From(q) + 1, Len(Live))
           page == First(rest, RowBound(q))
           rows == [i \in DOMAIN page |-> ToFlowSummaryFromRow(page[i])]
<1>1. q.tool \in Listings
    BY DEF Asks, Listings
<1>2. ListFlows(q) = Found(rows)
    BY DEF ListFlows, Summaries, RowBound, From, Asks
<1>3. From(q) \in Nat /\ RowBound(q) \in Nat
    BY ZenonT(60), BoundType, ReadToolsAssumption DEF From, RowBound, Asks
<1>4. /\ rest \in Seq(Object)
      /\ \A i \in 1..Len(rest) : /\ From(q) + i \in 1..Len(Live)
                                 /\ rest[i] = Live[From(q) + i]
    <2>1. Live \in Seq(Object)
        BY LiveType
    <2>2. QED
        BY ZenonT(60), <1>3, <2>1, RestType
<1>5. \A i \in 1..Len(rest) : rest[i] \in Object /\ rest[i].state # "gone"
    BY <1>4, LiveFlow
<1> HIDE DEF rest
<1>6. /\ page \in Seq(Object) /\ Len(page) <= Len(rest)
      /\ \A i \in 1..Len(page) : page[i] = rest[i]
    BY <1>3, <1>4, FirstType
<1>7. \A i \in DOMAIN page : page[i] \in Object /\ page[i].state # "gone"
    <2>1. DOMAIN page = 1..Len(page) /\ Len(page) \in Nat /\ Len(rest) \in Nat
        BY <1>4, <1>6
    <2>2. QED
        BY <1>5, <1>6, <2>1
<1>8. DOMAIN rows = DOMAIN page
      /\ \A i \in DOMAIN page :
            /\ rows[i].name = page[i].name
            /\ rows[i].state \in Ended <=> page[i].state \in Settled
    BY <1>7, FlowSummaries
<1> HIDE DEF page, rows
<1>9. page = First(SubSeq(Live, From(q) + 1, Len(Live)), RowBound(q))
    BY DEF page, rest
<1>10. GoodRaw(q, Found(rows))
    BY <1>1, <1>8, <1>9, PageGood DEF Asks
<1>11. QED
    BY <1>2, <1>10

\* GetFlowStatus: a look-up by name among all the flows.
LEMMA GetFlowStatusGood ==
    ASSUME WorldInv, NEW q, Asks(q, "get_flow_status")
    PROVE  GoodRaw(q, GetFlowStatus(q))
<1>1. q.tool \notin Listings /\ Searched = Live
    BY DEF Asks, KindOf, Listings, Searched
<1> DEFINE h == FirstOf(Hits(Searched, q.name))
           row == ToFlowSummaryFromContext(Searched[h])
<1>2. GetFlowStatus(q) = IF Hits(Searched, q.name) = {}
                         THEN Raw("missing", <<>>, 0) ELSE Found(<<row>>)
    BY <1>1 DEF GetFlowStatus, Lookup
<1>3. \A m, n \in 1..Len(Live) : Live[m].name = Live[n].name => m = n
    BY LiveType, OrderType
<1>4. ASSUME Hits(Searched, q.name) # {}
      PROVE  /\ row.name = Searched[h].name
             /\ row.state \in Ended <=> Searched[h].state \in Settled
    <2>1. h \in 1..Len(Live)
        BY <1>1, <1>3, <1>4, HitsOne, LiveType
    <2>2. Live[h] \in Object /\ Live[h].state # "gone"
        BY <2>1, LiveFlow
    <2> HIDE DEF h
    <2>3. QED
        BY <1>1, <2>2, FlowSummaries
<1> HIDE DEF row
<1>5. QED
    BY ZenonT(60), <1>1, <1>2, <1>4, LookupGood

\* PreviewHuntScope: a number, or the failure to get one.
LEMMA PreviewHuntScopeGood ==
    ASSUME NEW q, Asks(q, "preview_hunt_scope")
    PROVE  GoodRaw(q, PreviewHuntScope(q))
<1>1. q.tool \notin Listings
    BY DEF Asks, Listings
<1>2. \/ PreviewHuntScope(q) = Failed
      \/ \E n : PreviewHuntScope(q) = Raw("ok", <<>>, n)
    BY ZenonT(60) DEF PreviewHuntScope
<1>3. QED
    BY <1>1, <1>2, EmptyGood

-----------------------------------------------------------------------------
(* The answers *)

\* An answer that shows some of the rows, those of the allowlist for artifacts.
LEMMA ListedGood ==
    ASSUME NEW q, NEW rows, NEW shown \in SUBSET (DOMAIN rows),
           q.tool = "list_artifact_names" => \A i \in shown :
                policy.listAll \/ rows[i].name \in policy.allowed
    PROVE  GoodAnswer(q, rows, Listed(rows, shown))
<1>1. StatusForCount(Cardinality(shown)) # "blocked"
    BY DEF StatusForCount
<1>2. /\ Listed(rows, shown).rows = {rows[i] : i \in shown}
      /\ Listed(rows, shown).status = StatusForCount(Cardinality(shown))
    BY DEF Listed, Told
<1>3. QED
    BY <1>1, <1>2 DEF GoodAnswer

\* An answer that shows a page.
LEMMA ListedPageGood ==
    ASSUME NEW q, NEW rows, q.tool # "list_artifact_names"
    PROVE  GoodAnswer(q, rows, ListedPage(q, rows))
<1> DEFINE shown == {i \in DOMAIN rows : i <= BoundLimit(q.limit, MaxRows)}
<1>1. GoodAnswer(q, rows, Listed(rows, shown))
    BY ListedGood
<1>2. /\ ListedPage(q, rows).rows = Listed(rows, shown).rows
      /\ ListedPage(q, rows).status = Listed(rows, shown).status
    BY DEF ListedPage, Listed, Told
<1>3. QED
    BY <1>1, <1>2 DEF GoodAnswer

\* An answer that shows one object.
LEMMA DetailGood ==
    ASSUME NEW q, NEW rows, q.tool # "list_artifact_names"
    PROVE  GoodAnswer(q, rows, Detail(rows))
<1>1. /\ Detail(rows).rows = {rows[i] : i \in DOMAIN rows}
      /\ Detail(rows).status = "success"
    BY DEF Detail, Told
<1>2. QED
    BY <1>1 DEF GoodAnswer

\* The answers of mock mode.
LEMMA MockGood ==
    ASSUME NEW q
    PROVE  /\ GoodMock(q, Mock)
           /\ q.tool = "preview_hunt_scope" => GoodMock(q, MockPreview(q))
<1>1. /\ Mock.count = 0 /\ ~Mock.connected /\ Mock.rows = {}
      /\ Mock.status # "blocked"
    BY DEF Mock, Told
<1>2. /\ MockPreview(q).count = 0 /\ ~MockPreview(q).connected
      /\ MockPreview(q).status # "blocked"
    BY DEF MockPreview, Told
<1>3. QED
    BY <1>1, <1>2 DEF GoodMock, Blank

-----------------------------------------------------------------------------
(* Every handler takes one of the five steps. *)

\* A handler with the right parameters takes one of the five steps.
LEMMA HandlerStep ==
    ASSUME IInv, NEW c \in 1..Calls,
           NEW tool, NEW refused \in BOOLEAN, NEW raw, NEW told, NEW mock,
           Handler(c, tool, refused, raw, told, mock),
           GoodHandler(c, refused, raw, told, mock)
    PROVE  Step(c)
<1> DEFINE k == calls[c]
           l == calls'[c]
<1>1. /\ calls = [d \in 1..Calls |-> calls[d]]
      /\ k = [stage |-> k.stage, request |-> k.request, raw |-> k.raw,
              answer |-> k.answer, known |-> k.known]
    BY DEF IInv, CallInv, StageInv
<1>2. /\ GoodRefusal(k.request, refused) /\ GoodRaw(k.request, raw)
      /\ GoodAnswer(k.request, k.raw.rows, told) /\ GoodMock(k.request, mock)
    BY DEF GoodHandler
<1>3. UNCHANGED <<mode, policy, kind, order, phase, changes>>
    BY DEF Handler
<1>4. ASSUME NEW a, NEW outcome, Finish(c, a, outcome)
      PROVE  /\ OnlyCall(c)
             /\ l.stage = "answered" /\ l.answer = a /\ l.raw = k.raw
    BY ZenonT(60), <1>1, <1>3, <1>4 DEF Finish, OnlyCall
<1>5. CASE /\ k.stage = "called" /\ refused
           /\ Finish(c, Told("blocked"), "blocked")
    BY ZenonT(60), <1>2, <1>4, <1>5 DEF Step, OneStep, Refuses
<1>6. CASE k.stage = "called" /\ ~refused /\ Finish(c, mock, "success")
    BY <1>2, <1>4, <1>6 DEF Step, OneStep, Mocks
<1>7. CASE /\ k.stage = "called" /\ ~refused
           /\ \E r \in {raw, Failed} :
                calls' = [calls EXCEPT ![c].stage = "fetched", ![c].raw = r]
    <2>1. PICK r \in {raw, Failed} :
            calls' = [calls EXCEPT ![c].stage = "fetched", ![c].raw = r]
        BY ZenonT(60), <1>7
    <2>2. /\ OnlyCall(c)
          /\ l.stage = "fetched" /\ l.answer = k.answer /\ l.raw = r
        BY ZenonT(60), <1>1, <1>3, <2>1 DEF OnlyCall
    <2>3. GoodRaw(k.request, r)
        BY ZenonT(60), <1>2, <2>1, EmptyGood
    <2>4. QED
        BY ZenonT(60), <1>2, <1>7, <2>2, <2>3 DEF Step, OneStep, Fetches
<1>8. CASE /\ k.stage = "fetched" /\ k.raw.result = "ok"
           /\ Finish(c, told, "success")
    BY ZenonT(60), <1>2, <1>4, <1>8 DEF Step, OneStep, Answers
<1>9. CASE /\ k.stage = "fetched" /\ k.raw.result # "ok"
           /\ Finish(c, Told(IF k.raw.result = "missing"
                             THEN "not_found" ELSE "error"), "error")
    BY ZenonT(60), <1>4, <1>9 DEF Step, OneStep, Fails
<1>10. QED
    BY <1>5, <1>6, <1>7, <1>8, <1>9 DEF Handler

\* A handler works on a call of its tool.
LEMMA HandlerAsks ==
    ASSUME IInv, NEW c \in 1..Calls,
           NEW tool, NEW refused, NEW raw, NEW told, NEW mock,
           Handler(c, tool, refused, raw, told, mock)
    PROVE  Asks(calls[c].request, tool)
<1>1. calls[c].stage \in {"called", "fetched"} /\ calls[c].request.tool = tool
    BY DEF Handler
<1>2. StageInv(calls[c])
    BY DEF IInv, CallInv
<1>3. QED
    BY <1>1, <1>2 DEF StageInv, Asks

\* Only get_artifact_details is refused for what it names.
LEMMA OtherRefusal ==
    ASSUME NEW q, q.tool # "get_artifact_details", NEW refused
    PROVE  GoodRefusal(q, refused)
BY DEF GoodRefusal

\* Each handler passes the right parameters.
LEMMA HandlersStep ==
    ASSUME IInv, NEW c \in 1..Calls, HandleCall(c)
    PROVE  Step(c)
<1> DEFINE q == calls[c].request
           rows == calls[c].raw.rows
<1>0. WorldInv /\ policy \in Policies
    BY DEF IInv
<1>1. CASE HealthCheckHandler(c)
    <2> DEFINE refused == FALSE
               told == [Told("ok") EXCEPT !.connected = TRUE]
    <2>1. Handler(c, "health_check", refused, Found(<<>>), told, Told("ok"))
        BY ZenonT(60), <1>1 DEF HealthCheckHandler
    <2>2. Asks(q, "health_check")
        BY ZenonT(60), <2>1, HandlerAsks
    <2>3. refused \in BOOLEAN /\ GoodRefusal(q, refused)
        BY ZenonT(60), <2>2, OtherRefusal DEF Asks
    <2>4. GoodRaw(q, Found(<<>>))
        BY <1>0, <2>2, EmptyGood DEF Asks, Listings
    <2>5. GoodAnswer(q, rows, told)
        BY <2>2 DEF Asks, GoodAnswer, Told, StatusForCount
    <2>6. GoodMock(q, Told("ok"))
        BY <2>2, MockGood DEF Asks, GoodMock, Blank, Told
    <2> HIDE DEF refused, told
    <2>7. GoodHandler(c, refused, Found(<<>>), told, Told("ok"))
        BY <2>3, <2>4, <2>5, <2>6 DEF GoodHandler
    <2>8. QED
        BY <2>1, <2>3, <2>7, HandlerStep
<1>2. CASE SearchClientsHandler(c)
    <2> DEFINE refused == q.name = Malformed
               told == Listed(rows, DOMAIN rows)
    <2>1. Handler(c, "search_clients", refused, SearchClients(q), told, Mock)
        BY <1>2 DEF SearchClientsHandler
    <2>2. Asks(q, "search_clients")
        BY <2>1, HandlerAsks
    <2>3. refused \in BOOLEAN /\ GoodRefusal(q, refused)
        BY <2>2, OtherRefusal DEF Asks
    <2>4. GoodRaw(q, SearchClients(q))
        BY <1>0, <2>2, SearchClientsGood
    <2>5. GoodAnswer(q, rows, told)
        BY <2>2, ListedGood DEF Asks
    <2>6. GoodMock(q, Mock)
        BY <2>2, MockGood DEF Asks
    <2> HIDE DEF refused, told
    <2>7. GoodHandler(c, refused, SearchClients(q), told, Mock)
        BY <2>3, <2>4, <2>5, <2>6 DEF GoodHandler
    <2>8. QED
        BY <2>1, <2>3, <2>7, HandlerStep
<1>3. CASE GetClientInfoHandler(c)
    <2> DEFINE refused == q.name \notin Items
               told == Detail(rows)
    <2>1. Handler(c, "get_client_info", refused, GetClientInfo(q), told, Mock)
        BY <1>3 DEF GetClientInfoHandler
    <2>2. Asks(q, "get_client_info")
        BY <2>1, HandlerAsks
    <2>3. refused \in BOOLEAN /\ GoodRefusal(q, refused)
        BY <2>2, OtherRefusal DEF Asks
    <2>4. GoodRaw(q, GetClientInfo(q))
        BY <1>0, <2>2, GetClientInfoGood
    <2>5. GoodAnswer(q, rows, told)
        BY <2>2, DetailGood DEF Asks
    <2>6. GoodMock(q, Mock)
        BY <2>2, MockGood DEF Asks
    <2> HIDE DEF refused, told
    <2>7. GoodHandler(c, refused, GetClientInfo(q), told, Mock)
        BY <2>3, <2>4, <2>5, <2>6 DEF GoodHandler
    <2>8. QED
        BY <2>1, <2>3, <2>7, HandlerStep
<1>4. CASE ListArtifactNamesHandler(c)
    <2> DEFINE refused == FALSE
               told == Listed(rows, FilterAllowedArtifacts(rows))
    <2>1. Handler(c, "list_artifact_names", refused, ListArtifactNames,
                  told, Mock)
        BY ZenonT(60), <1>4 DEF ListArtifactNamesHandler
    <2>2. Asks(q, "list_artifact_names")
        BY ZenonT(60), <2>1, HandlerAsks
    <2>3. refused \in BOOLEAN /\ GoodRefusal(q, refused)
        BY ZenonT(60), <2>2, OtherRefusal DEF Asks
    <2>4. GoodRaw(q, ListArtifactNames)
        BY <1>0, <2>2, ListArtifactNamesGood
    <2>5. GoodAnswer(q, rows, told)
        BY <2>2, ListedGood DEF Asks, FilterAllowedArtifacts
    <2>6. GoodMock(q, Mock)
        BY <2>2, MockGood DEF Asks
    <2> HIDE DEF refused, told
    <2>7. GoodHandler(c, refused, ListArtifactNames, told, Mock)
        BY <2>3, <2>4, <2>5, <2>6 DEF GoodHandler
    <2>8. QED
        BY <2>1, <2>3, <2>7, HandlerStep
<1>5. CASE GetArtifactDetailsHandler(c)
    <2> DEFINE refused == \/ q.name \notin Items
                          \/ ~policy.listAll /\ q.name \notin policy.allowed
               told == Detail(rows)
    <2>1. Handler(c, "get_artifact_details", refused, GetArtifactDetails(q),
                  told, Mock)
        BY ZenonT(60), <1>5 DEF GetArtifactDetailsHandler
    <2>2. Asks(q, "get_artifact_details")
        BY ZenonT(60), <2>1, HandlerAsks
    <2>3. refused \in BOOLEAN /\ GoodRefusal(q, refused)
        BY <2>2 DEF Asks, GoodRefusal, Openable
    <2>4. GoodRaw(q, GetArtifactDetails(q))
        BY <1>0, <2>2, GetArtifactDetailsGood
    <2>5. GoodAnswer(q, rows, told)
        BY <2>2, DetailGood DEF Asks
    <2>6. GoodMock(q, Mock)
        BY <2>2, MockGood DEF Asks
    <2> HIDE DEF refused, told
    <2>7. GoodHandler(c, refused, GetArtifactDetails(q), told, Mock)
        BY <2>3, <2>4, <2>5, <2>6 DEF GoodHandler
    <2>8. QED
        BY <2>1, <2>3, <2>7, HandlerStep
<1>6. CASE ListFlowsHandler(c)
    <2> DEFINE refused == ~ValidateFlowReadInput(q)
               told == ListedPage(q, rows)
    <2>1. Handler(c, "list_flows", refused, ListFlows(q), told, Mock)
        BY <1>6 DEF ListFlowsHandler
    <2>2. Asks(q, "list_flows")
        BY <2>1, HandlerAsks
    <2>3. refused \in BOOLEAN /\ GoodRefusal(q, refused)
        BY <2>2, OtherRefusal DEF Asks
    <2>4. GoodRaw(q, ListFlows(q))
        BY <1>0, <2>2, ListFlowsGood
    <2>5. GoodAnswer(q, rows, told)
        BY <2>2, ListedPageGood DEF Asks
    <2>6. GoodMock(q, Mock)
        BY <2>2, MockGood DEF Asks
    <2> HIDE DEF refused, told
    <2>7. GoodHandler(c, refused, ListFlows(q), told, Mock)
        BY <2>3, <2>4, <2>5, <2>6 DEF GoodHandler
    <2>8. QED
        BY <2>1, <2>3, <2>7, HandlerStep
<1>7. CASE GetFlowStatusHandler(c)
    <2> DEFINE refused == ~ValidateFlowReadInput(q)
               told == Detail(rows)
    <2>1. Handler(c, "get_flow_status", refused, GetFlowStatus(q), told, Mock)
        BY <1>7 DEF GetFlowStatusHandler
    <2>2. Asks(q, "get_flow_status")
        BY <2>1, HandlerAsks
    <2>3. refused \in BOOLEAN /\ GoodRefusal(q, refused)
        BY <2>2, OtherRefusal DEF Asks
    <2>4. GoodRaw(q, GetFlowStatus(q))
        BY <1>0, <2>2, GetFlowStatusGood
    <2>5. GoodAnswer(q, rows, told)
        BY <2>2, DetailGood DEF Asks
    <2>6. GoodMock(q, Mock)
        BY <2>2, MockGood DEF Asks
    <2> HIDE DEF refused, told
    <2>7. GoodHandler(c, refused, GetFlowStatus(q), told, Mock)
        BY <2>3, <2>4, <2>5, <2>6 DEF GoodHandler
    <2>8. QED
        BY <2>1, <2>3, <2>7, HandlerStep
<1>8. CASE ListHuntsHandler(c)
    <2> DEFINE refused == FALSE
               told == ListedPage(q, rows)
    <2>1. Handler(c, "list_hunts", refused, ListHunts(q), told, Mock)
        BY ZenonT(60), <1>8 DEF ListHuntsHandler
    <2>2. Asks(q, "list_hunts")
        BY ZenonT(60), <2>1, HandlerAsks
    <2>3. refused \in BOOLEAN /\ GoodRefusal(q, refused)
        BY ZenonT(60), <2>2, OtherRefusal DEF Asks
    <2>4. GoodRaw(q, ListHunts(q))
        BY <1>0, <2>2, ListHuntsGood
    <2>5. GoodAnswer(q, rows, told)
        BY <2>2, ListedPageGood DEF Asks
    <2>6. GoodMock(q, Mock)
        BY <2>2, MockGood DEF Asks
    <2> HIDE DEF refused, told
    <2>7. GoodHandler(c, refused, ListHunts(q), told, Mock)
        BY <2>3, <2>4, <2>5, <2>6 DEF GoodHandler
    <2>8. QED
        BY <2>1, <2>3, <2>7, HandlerStep
<1>9. CASE GetHuntStatusHandler(c)
    <2> DEFINE refused == q.name \notin Items
               told == Detail(rows)
    <2>1. Handler(c, "get_hunt_status", refused, GetHuntStatus(q), told, Mock)
        BY <1>9 DEF GetHuntStatusHandler
    <2>2. Asks(q, "get_hunt_status")
        BY <2>1, HandlerAsks
    <2>3. refused \in BOOLEAN /\ GoodRefusal(q, refused)
        BY <2>2, OtherRefusal DEF Asks
    <2>4. GoodRaw(q, GetHuntStatus(q))
        BY <1>0, <2>2, GetHuntStatusGood
    <2>5. GoodAnswer(q, rows, told)
        BY <2>2, DetailGood DEF Asks
    <2>6. GoodMock(q, Mock)
        BY <2>2, MockGood DEF Asks
    <2> HIDE DEF refused, told
    <2>7. GoodHandler(c, refused, GetHuntStatus(q), told, Mock)
        BY <2>3, <2>4, <2>5, <2>6 DEF GoodHandler
    <2>8. QED
        BY <2>1, <2>3, <2>7, HandlerStep
<1>10. CASE ListFlowUploadsHandler(c)
    <2> DEFINE refused == q.name \notin Items
               told == Listed(rows, DOMAIN rows)
    <2>1. Handler(c, "list_flow_uploads", refused, ListFlowUploads, told, Mock)
        BY <1>10 DEF ListFlowUploadsHandler
    <2>2. Asks(q, "list_flow_uploads")
        BY <2>1, HandlerAsks
    <2>3. refused \in BOOLEAN /\ GoodRefusal(q, refused)
        BY <2>2, OtherRefusal DEF Asks
    <2>4. GoodRaw(q, ListFlowUploads)
        BY <1>0, <2>2, ListFlowUploadsGood
    <2>5. GoodAnswer(q, rows, told)
        BY <2>2, ListedGood DEF Asks
    <2>6. GoodMock(q, Mock)
        BY <2>2, MockGood DEF Asks
    <2> HIDE DEF refused, told
    <2>7. GoodHandler(c, refused, ListFlowUploads, told, Mock)
        BY <2>3, <2>4, <2>5, <2>6 DEF GoodHandler
    <2>8. QED
        BY <2>1, <2>3, <2>7, HandlerStep
<1>11. CASE GetFlowUploadMetadataHandler(c)
    <2> DEFINE refused == q.name \notin Items
               told == Detail(rows)
    <2>1. Handler(c, "get_flow_upload_metadata", refused,
                  GetFlowUploadMetadata(q), told, Mock)
        BY <1>11 DEF GetFlowUploadMetadataHandler
    <2>2. Asks(q, "get_flow_upload_metadata")
        BY <2>1, HandlerAsks
    <2>3. refused \in BOOLEAN /\ GoodRefusal(q, refused)
        BY <2>2, OtherRefusal DEF Asks
    <2>4. GoodRaw(q, GetFlowUploadMetadata(q))
        BY <1>0, <2>2, GetFlowUploadMetadataGood
    <2>5. GoodAnswer(q, rows, told)
        BY <2>2, DetailGood DEF Asks
    <2>6. GoodMock(q, Mock)
        BY <2>2, MockGood DEF Asks
    <2> HIDE DEF refused, told
    <2>7. GoodHandler(c, refused, GetFlowUploadMetadata(q), told, Mock)
        BY <2>3, <2>4, <2>5, <2>6 DEF GoodHandler
    <2>8. QED
        BY <2>1, <2>3, <2>7, HandlerStep
<1>12. CASE PreviewHuntScopeHandler(c)
    <2> DEFINE refused == ScopeRefused(q.name)
               told == [Told(StatusForCount(calls[c].raw.matched)) EXCEPT
                          !.count = calls[c].raw.matched,
                          !.exceeds = calls[c].raw.matched
                                         > BoundLimit(q.limit, MaxHuntClients)]
    <2>1. Handler(c, "preview_hunt_scope", refused, PreviewHuntScope(q),
                  told, MockPreview(q))
        BY <1>12 DEF PreviewHuntScopeHandler
    <2>2. Asks(q, "preview_hunt_scope")
        BY <2>1, HandlerAsks
    <2>3. refused \in BOOLEAN /\ GoodRefusal(q, refused)
        BY <2>2, OtherRefusal DEF Asks, ScopeRefused
    <2>4. GoodRaw(q, PreviewHuntScope(q))
        BY <1>0, <2>2, PreviewHuntScopeGood
    <2>5. GoodAnswer(q, rows, told)
        BY <2>2 DEF Asks, GoodAnswer, Told, StatusForCount
    <2>6. GoodMock(q, MockPreview(q))
        BY <2>2, MockGood DEF Asks
    <2> HIDE DEF refused, told
    <2>7. GoodHandler(c, refused, PreviewHuntScope(q), told, MockPreview(q))
        BY <2>3, <2>4, <2>5, <2>6 DEF GoodHandler
    <2>8. QED
        BY <2>1, <2>3, <2>7, HandlerStep
<1>13. QED
    BY <1>1, <1>2, <1>3, <1>4, <1>5, <1>6, <1>7, <1>8, <1>9, <1>10, <1>11,
       <1>12 DEF HandleCall

-----------------------------------------------------------------------------
(* The server *)

\* What a change of the server's objects leaves true.
WorldMoves ==
    /\ WorldInv'
    /\ \A n \in Items : phase[n] \in Settled => phase'[n] \in Settled

\* An object appears.
LEMMA AppearMoves ==
    ASSUME WorldInv, NEW i \in Items, Appear(i)
    PROVE  WorldMoves
<1>1. /\ order \in Seq(Items) /\ phase \in [Items -> Phases]
      /\ Len(order) \in Nat
    BY DEF WorldInv
<1>2. \A n \in 1..Len(order) : order[n] # i
    BY OrderType DEF Appear
<1>3. /\ phase' = [phase EXCEPT ![i] = "RUNNING"]
      /\ phase' \in [Items -> Phases]
    BY <1>1 DEF Appear, Phases
<1>4. \A n \in 1..Len(order) : phase'[order[n]] \notin {"absent", "gone"}
    BY SMTT(60), <1>1, <1>2, <1>3, OrderType
<1>5. CASE order' = Append(order, i)
    <2>1. /\ order' \in Seq(Items) /\ Len(order') = Len(order) + 1
          /\ \A n \in 1..Len(order) : order'[n] = order[n]
          /\ order'[Len(order) + 1] = i
        BY <1>1, <1>5
    <2>2. \A m, n \in 1..Len(order') : order'[m] = order'[n] => m = n
        BY <1>1, <1>2, <2>1, OrderType
    <2>3. \A n \in 1..Len(order') : phase'[order'[n]] \notin {"absent", "gone"}
        BY SMTT(60), Z3T(60), <1>1, <1>3, <1>4, <2>1
    <2>4. DOMAIN order' = 1..Len(order')
        BY <2>1
    <2>5. QED
        BY <1>1, <1>3, <2>1, <2>2, <2>3, <2>4
           DEF WorldMoves, WorldInv, Settled, Appear
<1>6. CASE order' = <<i>> \o order
    <2>1. /\ order' \in Seq(Items) /\ Len(order') = Len(order) + 1
          /\ \A n \in 1..Len(order) : order'[n + 1] = order[n]
          /\ order'[1] = i
        BY <1>1, <1>6
    <2>2. \A n \in 1..Len(order') :
            n = 1 \/ (n - 1 \in 1..Len(order) /\ order'[n] = order[n - 1])
        BY SMTT(60), <1>1, <2>1
    <2>3. \A m, n \in 1..Len(order') : order'[m] = order'[n] => m = n
        <3> SUFFICES ASSUME NEW m \in 1..Len(order'), NEW n \in 1..Len(order'),
                            order'[m] = order'[n]
                     PROVE  m = n
            OBVIOUS
        <3>1. CASE m = 1 \/ n = 1
            BY <1>2, <2>1, <2>2, <3>1
        <3>2. CASE m # 1 /\ n # 1
            <4>1. m - 1 = n - 1
                BY SMTT(60), Z3T(60), <2>2, <3>2, OrderType
            <4>2. QED
                BY <2>1, <4>1
        <3>3. QED
            BY <3>1, <3>2
    <2>4. \A n \in 1..Len(order') : phase'[order'[n]] \notin {"absent", "gone"}
        BY ZenonT(60), <1>1, <1>3, <1>4, <2>1, <2>2
    <2>5. DOMAIN order' = 1..Len(order')
        BY <2>1
    <2>6. QED
        BY ZenonT(60), <1>1, <1>3, <2>1, <2>3, <2>4, <2>5
           DEF WorldMoves, WorldInv, Settled, Appear
<1>7. QED
    BY <1>5, <1>6 DEF Appear

\* An object changes its state.
LEMMA ProgressMoves ==
    ASSUME WorldInv, NEW i \in Items, Progress(i)
    PROVE  WorldMoves
<1>1. /\ order \in Seq(Items) /\ phase \in [Items -> Phases]
      /\ DOMAIN order = 1..Len(order)
    BY DEF WorldInv
<1>2. PICK s \in Successors(phase[i]) : phase' = [phase EXCEPT ![i] = s]
    BY ZenonT(60) DEF Progress
<1>3. /\ phase[i] = "RUNNING" /\ order' = order
      /\ s \in {"FINISHED", "ERROR", "CANCELLED", "PAUSED", "STOPPED",
               "labelled"}
    BY <1>2 DEF Successors, Progress
<1>4. phase' \in [Items -> Phases]
    BY <1>1, <1>2, <1>3 DEF Phases
<1>5. \A n \in DOMAIN order : phase'[order[n]] \notin {"absent", "gone"}
    BY <1>1, <1>2, <1>3, OrderType
<1>6. \A n \in Items : phase[n] \in Settled => phase'[n] \in Settled
    BY <1>1, <1>2, <1>3 DEF Settled
<1>7. QED
    BY <1>3, <1>4, <1>5, <1>6 DEF WorldMoves, WorldInv

\* An object vanishes.
LEMMA VanishMoves ==
    ASSUME WorldInv, NEW i \in Items, Vanish(i)
    PROVE  WorldMoves
<1>1. /\ order \in Seq(Items) /\ phase \in [Items -> Phases]
      /\ DOMAIN order = 1..Len(order) /\ Len(order) \in Nat
    BY DEF WorldInv
<1>2. PICK p \in 1..Len(order) :
        /\ order[p] = i
        /\ order' = SubSeq(order, 1, p - 1) \o SubSeq(order, p + 1, Len(order))
    BY ZenonT(60), <1>1 DEF Vanish
<1>3. /\ phase' = [phase EXCEPT ![i] = "gone"]
      /\ phase' \in [Items -> Phases]
    BY <1>1 DEF Vanish, Phases
<1>4. /\ order' \in Seq(Items) /\ Len(order') = Len(order) - 1
      /\ \A n \in 1..Len(order') :
            order'[n] = IF n < p THEN order[n] ELSE order[n + 1]
    BY ZenonT(60), <1>1, <1>2, RemoveType
<1>5. ASSUME NEW n \in 1..Len(order')
      PROVE  \E m \in 1..Len(order) : /\ m # p /\ order'[n] = order[m]
                                      /\ m = IF n < p THEN n ELSE n + 1
    <2>1. CASE n < p
        BY <1>1, <1>4, <2>1
    <2>2. CASE ~(n < p)
        <3>1. n + 1 \in 1..Len(order) /\ n + 1 # p
            BY <1>1, <1>4, <2>2
        <3>2. QED
            BY <1>4, <2>2, <3>1
    <2>3. QED
        BY <2>1, <2>2
<1>6. ASSUME NEW m \in 1..Len(order'), NEW n \in 1..Len(order'),
             order'[m] = order'[n]
      PROVE  m = n
    <2>1. PICK x \in 1..Len(order) : order'[m] = order[x]
                                   /\ x = IF m < p THEN m ELSE m + 1
        BY <1>5
    <2>2. PICK y \in 1..Len(order) : order'[n] = order[y]
                                   /\ y = IF n < p THEN n ELSE n + 1
        BY SMTT(60), <1>5
    <2>3. x = y
        BY ZenonT(60), <1>6, <2>1, <2>2, OrderType
    <2>4. QED
        BY <1>4, <2>1, <2>2, <2>3
<1>7. ASSUME NEW n \in 1..Len(order')
      PROVE  phase'[order'[n]] \notin {"absent", "gone"}
    <2>1. PICK m \in 1..Len(order) : m # p /\ order'[n] = order[m]
        BY <1>5
    <2>2. order[m] # i /\ order[m] \in Items
        BY <1>2, <2>1, OrderType
    <2>3. phase'[order[m]] = phase[order[m]]
        BY <1>1, <1>3, <2>2
    <2>4. QED
        BY <2>1, <2>3, OrderType
<1>8. DOMAIN order' = 1..Len(order')
    BY <1>4
<1>9. \A n \in Items : phase[n] \in Settled => phase'[n] \in Settled
    BY <1>1, <1>3 DEF Settled
<1>10. QED
    BY <1>3, <1>4, <1>6, <1>7, <1>8, <1>9 DEF WorldMoves, WorldInv

-----------------------------------------------------------------------------
(* The invariant *)

\* Before the first call.
LEMMA InitInv == Init => IInv
<1> SUFFICES ASSUME Init PROVE IInv
    OBVIOUS
<1>1. PICK n \in 0..ItemCount :
        /\ order = [i \in 1..n |-> i]
        /\ phase = [i \in Items |-> IF i <= n THEN "RUNNING" ELSE "absent"]
    BY ReadToolsAssumption DEF Init
<1>2. WorldInv
    <2>1. n \in Nat /\ n <= ItemCount /\ ItemCount \in Nat
        BY ReadToolsAssumption
    <2>2. \A i \in 1..n : i \in Items
        BY <2>1 DEF Items
    <2>3. order \in Seq(Items) /\ DOMAIN order = 1..n
        BY <1>1, <2>1, <2>2
    <2>4. \A i \in 1..n : order[i] = i /\ phase[order[i]] = "RUNNING"
        BY <1>1, <2>1, <2>2
    <2>5. phase \in [Items -> Phases]
        BY <1>1 DEF Phases
    <2>6. QED
        BY <2>3, <2>4, <2>5 DEF WorldInv
<1>3. calls = [c \in 1..Calls |-> Idle]
    BY DEF Init
<1>4. StageInv(Idle) /\ EvidenceInv(Idle) /\ ArtifactInv(Idle) /\ FlowInv(Idle)
    <2>1. /\ Idle.stage = "idle" /\ Idle.request = NoRequest
          /\ Idle.raw = Failed /\ Idle.answer = Told("none") /\ Idle.known = {}
        BY DEF Idle
    <2>2. NoRequest.limit \in Int /\ NoRequest.cursor = None
          /\ NoRequest.tool # "get_artifact_details"
        BY DEF NoRequest
    <2>3. Failed.rows = <<>>
        BY SMTT(60) DEF Failed, Raw
    <2>4. Idle = [stage |-> Idle.stage, request |-> Idle.request,
                  raw |-> Idle.raw, answer |-> Idle.answer,
                  known |-> Idle.known]
        BY DEF Idle
    <2>5. StageInv(Idle)
        BY <2>1, <2>2, <2>4 DEF StageInv
    <2>6. QED
        BY <2>1, <2>2, <2>3, <2>5, ToldFields
           DEF EvidenceInv, ArtifactInv, FlowInv
<1>5. policy \in Policies
    BY DEF Init
<1>6. QED
    BY <1>2, <1>3, <1>4, <1>5 DEF IInv, CallInv

\* The server changes: what has been fetched and answered stays right.
LEMMA ChangeInv ==
    ASSUME IInv, Change
    PROVE  IInv'
<1>1. WorldMoves
    BY AppearMoves, ProgressMoves, VanishMoves DEF IInv, Change
<1>2. UNCHANGED <<mode, policy, kind, calls>>
    BY DEF Change
<1>3. \A d \in 1..Calls : CallInv(calls[d])'
    BY <1>1, <1>2, OtherCall DEF IInv, WorldMoves
<1>4. QED
    BY <1>1, <1>2, <1>3 DEF IInv, WorldMoves

\* What a call knows when it is made has settled.
LEMMA KnownSettled ==
    ASSUME IInv, kind = "flow"
    PROVE  \A n \in KnownEnded : n \in Items /\ phase[n] \in Settled
<1>1. DOMAIN calls = 1..Calls
    BY DEF IInv
<1>2. \A c \in 1..Calls : \A r \in calls[c].answer.rows :
        r.name \in Items /\ (r.state \in Ended => phase[r.name] \in Settled)
    BY DEF IInv, CallInv, FlowInv, FlowRow
<1>3. QED
    BY <1>1, <1>2 DEF KnownEnded

\* A call arrives, and remembers what has been reported as ended.
LEMMA ReceiveInv ==
    ASSUME IInv, NEW c \in 1..Calls, Receive(c)
    PROVE  IInv'
<1> DEFINE k == calls[c]
           l == calls'[c]
<1>1. /\ calls = [d \in 1..Calls |-> calls[d]] /\ StageInv(k)
      /\ k = [stage |-> k.stage, request |-> k.request, raw |-> k.raw,
              answer |-> k.answer, known |-> k.known]
    BY DEF IInv, CallInv, StageInv
<1>2. PICK tool \in {t \in Tools : KindOf(t) = kind} :
      \E q \in Requests(tool) :
        calls' = [calls EXCEPT ![c].stage = "called", ![c].known = KnownEnded,
                               ![c].request = q]
    BY ZenonT(60) DEF Receive
<1>3. PICK q \in Requests(tool) :
        calls' = [calls EXCEPT ![c].stage = "called", ![c].known = KnownEnded,
                               ![c].request = q]
    BY ZenonT(60), <1>2
<1>4. /\ k.stage = "idle"
      /\ UNCHANGED <<mode, policy, kind, order, phase>>
    BY DEF Receive
<1>5. /\ q.tool = tool /\ q.limit \in Int /\ q.cursor \in Int \cup {None}
      /\ KindOf(q.tool) = kind
    BY <1>2, <1>3, ReadToolsAssumption DEF Requests
<1>6. /\ calls' = [d \in 1..Calls |-> calls'[d]]
      /\ \A d \in 1..Calls : d # c => calls'[d] = calls[d]
      /\ l = [stage |-> "called", request |-> q, raw |-> k.raw,
              answer |-> k.answer, known |-> KnownEnded]
    BY ZenonT(60), <1>1, <1>3
<1>7. k.raw = Failed /\ k.answer = Told("none")
    BY <1>1, <1>4 DEF StageInv
<1>8. StageInv(calls[c])'
    BY SMTT(60), Z3T(60), <1>4, <1>5, <1>6, <1>7 DEF StageInv
<1>9. EvidenceInv(calls[c])' /\ ArtifactInv(calls[c])'
    BY SMTT(60), Z3T(60), <1>6, <1>7
       DEF EvidenceInv, ArtifactInv, Told, Failed, Raw
<1>10. FlowInv(calls[c])'
    <2>1. kind = "flow" =>
            \A n \in KnownEnded : n \in Items /\ phase[n] \in Settled
        BY KnownSettled
    <2>2. l.known = KnownEnded /\ l.raw.rows = <<>> /\ l.answer.rows = {}
        BY <1>6, <1>7 DEF Told, Failed, Raw
    <2>3. QED
        BY <1>4, <2>1, <2>2 DEF FlowInv
<1>11. \A d \in 1..Calls : CallInv(calls[d])'
    <2> SUFFICES ASSUME NEW d \in 1..Calls PROVE CallInv(calls[d])'
        OBVIOUS
    <2>1. CASE d = c
        BY <1>8, <1>9, <1>10, <2>1 DEF CallInv
    <2>2. CASE d # c
        BY <1>4, <1>6, <2>2, OtherCall DEF IInv
    <2>3. QED
        BY <2>1, <2>2
<1>12. QED
    BY ZenonT(60), <1>4, <1>6, <1>11 DEF IInv, WorldInv

\* A step of a handler, whichever of the five.
LEMMA StepInv ==
    ASSUME IInv, NEW c \in 1..Calls, Step(c)
    PROVE  IInv'
<1> DEFINE k == calls[c]
           l == calls'[c]
<1>1. StageInv(k) /\ EvidenceInv(k) /\ ArtifactInv(k) /\ FlowInv(k)
    BY DEF IInv, CallInv
<1>2. /\ l = [stage |-> l.stage, request |-> k.request, raw |-> l.raw,
              answer |-> l.answer, known |-> k.known]
      /\ UNCHANGED <<mode, policy, kind, order, phase>>
      /\ calls' = [d \in 1..Calls |-> calls'[d]]
      /\ \A d \in 1..Calls : d # c => calls'[d] = calls[d]
    BY DEF Step, OnlyCall
<1>3. l.request = k.request /\ l.known = k.known
    BY <1>2
<1>4. OneStep(k, l)
    BY DEF Step
<1> HIDE DEF k, l
<1>5. StageInv(l)
    BY <1>1, <1>2, <1>4, StepStage
<1>6. EvidenceInv(l) /\ ArtifactInv(l) /\ FlowInv(l)
    BY <1>1, <1>3, <1>4, StepEvidence, StepArtifact, StepFlow
<1>7. CallInv(l)
    BY <1>5, <1>6 DEF CallInv
<1>8. CallInv(calls[c])'
    BY <1>2, <1>7, SameCall DEF l
<1>9. \A d \in 1..Calls : CallInv(calls[d])'
    <2> SUFFICES ASSUME NEW d \in 1..Calls PROVE CallInv(calls[d])'
        OBVIOUS
    <2>1. CASE d = c
        BY <1>8, <2>1
    <2>2. CASE d # c
        BY <1>2, <2>2, OtherCall DEF IInv
    <2>3. QED
        BY <2>1, <2>2
<1>10. QED
    BY <1>2, <1>9 DEF IInv, WorldInv

\* Every step keeps the invariant.
LEMMA NextInv ==
    ASSUME IInv, [Next]_vars
    PROVE  IInv'
<1>1. DOMAIN calls = 1..Calls
    BY DEF IInv
<1>2. CASE Change
    BY <1>2, ChangeInv
<1>3. ASSUME NEW c \in 1..Calls, Receive(c)
      PROVE  IInv'
    BY <1>3, ReceiveInv
<1>4. ASSUME NEW c \in 1..Calls, HandleCall(c)
      PROVE  IInv'
    BY <1>4, HandlersStep, StepInv
<1>5. CASE UNCHANGED vars
    <2>1. UNCHANGED <<policy, kind, order, phase, calls>>
        BY <1>5 DEF vars
    <2>2. ASSUME NEW c \in 1..Calls
          PROVE  CallInv(calls[c])'
        BY <2>1, OtherCall DEF IInv
    <2>3. QED
        BY <2>1, <2>2 DEF IInv, WorldInv
<1>6. QED
    BY <1>1, <1>2, <1>3, <1>4, <1>5 DEF Next, AllAnswered

\* The invariant the properties of the read tools rest on.
THEOREM ReadInvariant == Spec => []IInv
<1>1. Init => IInv
    BY InitInv
<1>2. IInv /\ [Next]_vars => IInv'
    BY NextInv
<1>3. QED
    BY <1>1, <1>2, PTL DEF Spec

\* In mock mode, and when its RPC failed, no call shows an object of the
\* server, a count or a connection (recordAudit and the outputs of the
\* handlers), whatever the tool.
THEOREM AnswersAreEvidence == Spec => []EvidenceIsReal
<1>1. IInv => EvidenceIsReal
    BY DEF IInv, CallInv, EvidenceInv, EvidenceIsReal
<1>2. QED
    BY <1>1, ReadInvariant, PTL

\* filterAllowedArtifacts and the check of newGetArtifactDetailsHandler agree:
\* what a list shows can be opened, by any call, and no artifact outside the
\* allowlist is shown.
THEOREM ListsAgreeWithLookups == Spec => []ListedCanBeOpened
<1>1. IInv => ListedCanBeOpened
    BY ZenonT(60)
       DEF IInv, CallInv, ArtifactInv, Openable, ListedCanBeOpened
<1>2. QED
    BY <1>1, ReadInvariant, PTL

\* mapFlowState, in a list and in a status: a flow that some answer reported
\* as ended is never reported as running by a later call.
THEOREM EndsAreFinal == Spec => []EndedStaysEnded
<1>1. IInv => EndedStaysEnded
    BY SMTT(60) DEF IInv, CallInv, FlowInv, FlowRow, EndedStaysEnded
<1>2. QED
    BY <1>1, ReadInvariant, PTL

\* A step changes what was fetched only by fetching it.
LEMMA FetchedBy ==
    ASSUME IInv, [Next]_vars, NEW c \in 1..Calls, calls[c].stage = "called"
    PROVE  \/ calls'[c].raw = Failed /\ calls'[c].stage # "fetched"
           \/ GoodRaw(calls[c].request, calls'[c].raw)
<1>1. calls[c].raw = Failed /\ DOMAIN calls = 1..Calls
    BY DEF IInv, CallInv, StageInv
<1>2. CASE calls'[c] = calls[c]
    BY <1>1, <1>2
<1>3. ASSUME NEW d \in 1..Calls, Receive(d)
      PROVE  calls'[c] = calls[c]
    BY <1>3 DEF Receive, IInv
<1>4. ASSUME NEW d \in 1..Calls, HandleCall(d), d # c
      PROVE  calls'[c] = calls[c]
    <2>1. Step(d)
        BY <1>4, HandlersStep
    <2>2. QED
        BY <1>4, <2>1 DEF Step, OnlyCall
<1>5. CASE HandleCall(c)
    <2>1. Step(c)
        BY <1>5, HandlersStep
    <2>2. QED
        BY ZenonT(60), <1>1, <2>1
           DEF Step, OneStep, Refuses, Mocks, Fetches, Answers, Fails
<1>6. QED
    BY ZenonT(60), <1>1, <1>2, <1>3, <1>4, <1>5
       DEF Next, Change, AllAnswered, vars

\* The look-ups of the client: a call that reports an object as not found is
\* right, except for the uploads after the first max_rows.
THEOREM AbsenceIsReal == Spec => NotFoundIsAbsent
<1>1. ASSUME IInv, [Next]_vars
      PROVE  \A c \in 1..Calls : MissingIsAbsent(c)
    <2> SUFFICES ASSUME NEW c \in 1..Calls, calls[c].stage = "called",
                        calls'[c].raw.result = "missing"
                 PROVE  calls[c].request.name \notin Names(Searched)
        BY DEF MissingIsAbsent, Searched
    <2>1. Failed.result # "missing"
        BY DEF Failed, Raw
    <2>2. GoodRaw(calls[c].request, calls'[c].raw)
        BY <1>1, <2>1, FetchedBy
    <2>3. QED
        BY <2>2, GoodMissing
<1>2. IInv /\ [Next]_vars => [\A c \in 1..Calls : MissingIsAbsent(c)]_vars
    BY ZenonT(60), <1>1
<1>3. QED
    BY <1>2, ReadInvariant, PTL DEF Spec, NotFoundIsAbsent

\* The listings of the client, with their bounds, cursors and filter: one that
\* has fewer rows than it might shows everything the caller may see.
THEOREM ShortListsComplete == Spec => ShortListIsComplete
<1>1. ASSUME IInv, [Next]_vars
      PROVE  \A c \in 1..Calls : ShortIsComplete(c)
    <2> SUFFICES ASSUME NEW c \in 1..Calls,
                        calls[c].request.tool \in Listings,
                        calls[c].stage = "called", calls'[c].stage = "fetched",
                        calls'[c].raw.result = "ok",
                        Len(calls'[c].raw.rows) < RowBound(calls[c].request)
                 PROVE  ShownBy(calls[c].request, calls'[c].raw.rows)
                            = Visible(calls[c].request)
        BY DEF ShortIsComplete
    <2>1. GoodRaw(calls[c].request, calls'[c].raw)
        BY <1>1, FetchedBy
    <2>2. QED
        BY ZenonT(60), <2>1, GoodShort
<1>2. IInv /\ [Next]_vars => [\A c \in 1..Calls : ShortIsComplete(c)]_vars
    BY <1>1
<1>3. QED
    BY <1>2, ReadInvariant, PTL DEF Spec, ShortListIsComplete
=============================================================================
