------------------------- MODULE ResultReaderProofs -------------------------
(***************************************************************************)
(* Proofs about ResultReader, for tables of any size and any limits: a     *)
(* reader of a flow that follows next_cursor never receives a row twice,   *)
(* and misses none as long as no full page is cut by max_result_bytes; an  *)
(* answer that is not truncated is complete, for flows and for hunts.      *)
(***************************************************************************)
EXTENDS ResultReader, FiniteSetTheorems, SequenceTheorems, TLAPS

USE NoneAssumption, ReaderAssumption

\* Whatever the sizes, boundRowsByLimitAndBytes keeps some of the rows.
LEMMA KeptRowsBound ==
    ASSUME NEW S, NEW sizes \in Seq(S), NEW limit, NEW bytes
    PROVE  KeptRows(sizes, limit, bytes) \in 0..Len(sizes)
<1> DEFINE fit == {n \in 1..Len(sizes) :
                    n <= limit /\ PrefixBytes(sizes)[n] <= bytes}
<1>1. Len(sizes) \in Nat
  OBVIOUS
<1>2. IsFiniteSet(1..Len(sizes)) /\ Cardinality(1..Len(sizes)) = Len(sizes)
  <2>1. 1 \in Int /\ Len(sizes) \in Int
    BY <1>1
  <2>2. /\ IsFiniteSet(1..Len(sizes))
        /\ Cardinality(1..Len(sizes)) =
            IF 1 > Len(sizes) THEN 0 ELSE Len(sizes) - 1 + 1
    BY <2>1, FS_Interval, ZenonT(60)
  <2> QED
    BY <1>1, <2>2
<1>3. fit \subseteq 1..Len(sizes)
  OBVIOUS
<1>4. IsFiniteSet(fit) /\ Cardinality(fit) <= Cardinality(1..Len(sizes))
  BY <1>2, <1>3, FS_Subset
<1>5. Cardinality(fit) \in Nat
  BY <1>4, FS_CardinalityType
<1>6. KeptRows(sizes, limit, bytes) = Cardinality(fit)
  BY DEF KeptRows
<1> QED
  BY <1>1, <1>2, <1>4, <1>5, <1>6

\* boundLimit always returns a limit between 1 and max_rows.
LEMMA BoundedLimit ==
    ASSUME NEW limit \in Int
    PROVE  BoundLimit(limit, MaxRows) \in 1..MaxRows
BY DEF BoundLimit

\* A cursor always names an offset.
LEMMA OffsetType ==
    ASSUME NEW cursor \in Int \cup {None}
    PROVE  ParseOffset(cursor) \in Nat
BY DEF ParseOffset

LEMMA ServedBound ==
    ASSUME NEW t \in Sources \cup {None}, NEW from \in Nat,
           NEW bounded \in Nat, TypeOK
    PROVE  /\ Served(t, from, bounded) \in Nat
           /\ Served(t, from, bounded) <= bounded
           /\ Served(t, from, bounded) # 0 =>
                from + Served(t, from, bounded) <= Len(tables[t])
<1>1. tables[t] \in Seq(Sizes) /\ Len(tables[t]) \in Nat
  BY DEF TypeOK
<1> QED
  BY <1>1 DEF Served, Smaller

\* The rows of the fetched page, which BoundRows measures.
Measured == SubSeq(tables[target], fetched.from + 1,
                   fetched.from + fetched.count)

-----------------------------------------------------------------------------
(* Where the reader stands *)

\* The fetched page starts where the call asked for, lies within the table,
\* and its cursor points to its end.
FetchedPage ==
    stage = "bound" =>
        /\ fetched.from = StartRow
        /\ fetched.count # 0 =>
            fetched.from + fetched.count <= Len(tables[target])
        /\ fetched.count <= BoundLimit(request.limit, MaxRows)
        /\ fetched.next \in {None, fetched.from + fetched.count}
        /\ fetched.truncated <=> fetched.next # None

\* Rows received of a flow lie before the offset the next call will ask for.
Behind ==
    tool = "flow" =>
        /\ stage \in {"called", "sources", "table", "bound"} =>
            got \subseteq 1..StartRow
        /\ stage = "answered" =>
            /\ answer.page.next # None => got \subseteq 1..answer.page.next
            /\ answer.page = NoPage => got \subseteq 1..StartRow
            /\ answer.status = "source_required" => answer.page = NoPage

IInv == TypeOK /\ FetchedPage /\ Behind

LEMMA RowsOfPage ==
    ASSUME NEW S, NEW rows \in Seq(S), NEW from \in Nat, NEW count \in Nat,
           count # 0 => from + count <= Len(rows)
    PROVE  /\ SubSeq(rows, from + 1, from + count) \in Seq(S)
           /\ Len(SubSeq(rows, from + 1, from + count)) = count
<1> DEFINE m == from + 1
           n == from + count
<1>1. m \in Int /\ n \in Int /\ (m <= n => n - m + 1 = count)
      /\ (~(m <= n) => count = 0)
  OBVIOUS
<1>2. \A i \in m .. n : rows[i] \in S
  OBVIOUS
<1> HIDE DEF m, n
<1>3. /\ SubSeq(rows, m, n) \in Seq(S)
      /\ Len(SubSeq(rows, m, n)) = IF m <= n THEN n - m + 1 ELSE 0
  BY <1>1, <1>2, SubSeqProperties
<1>4. SubSeq(rows, m, n) \in Seq(S) /\ Len(SubSeq(rows, m, n)) = count
  BY <1>1, <1>3, ZenonT(60)
<1> QED
  BY <1>4 DEF m, n

LEMMA MeasuredType ==
    ASSUME IInv, stage = "bound"
    PROVE  Measured \in Seq(Sizes) /\ Len(Measured) = fetched.count
<1>1. /\ fetched.from \in Nat /\ fetched.count \in Nat
      /\ tables[target] \in Seq(Sizes)
      /\ fetched.count # 0 =>
            fetched.from + fetched.count <= Len(tables[target])
  BY DEF IInv, TypeOK, FetchedPage, Pages
<1>2. /\ SubSeq(tables[target], fetched.from + 1,
                fetched.from + fetched.count) \in Seq(Sizes)
      /\ Len(SubSeq(tables[target], fetched.from + 1,
                    fetched.from + fetched.count)) = fetched.count
  <2> DEFINE Whole(rows, from, count) ==
                /\ SubSeq(rows, from + 1, from + count) \in Seq(Sizes)
                /\ Len(SubSeq(rows, from + 1, from + count)) = count
  <2>1. ASSUME NEW rows \in Seq(Sizes), NEW from \in Nat, NEW count \in Nat,
               count # 0 => from + count <= Len(rows)
        PROVE  Whole(rows, from, count)
    BY <2>1, RowsOfPage
  <2> HIDE DEF Whole
  <2>2. Whole(tables[target], fetched.from, fetched.count)
    BY <1>1, <2>1
  <2> QED
    BY <2>2 DEF Whole
<1> QED
  BY <1>2, Zenon DEF Measured

LEMMA StartRowType ==
    ASSUME TypeOK
    PROVE  /\ tool = "flow" => StartRow = ParseOffset(request.cursor)
           /\ StartRow \in Nat
<1>1. request.cursor \in Int \cup {None}
  BY DEF TypeOK
<1> QED
  BY ZenonT(60), <1>1, OffsetType DEF StartRow

LEMMA ReaderInit ==
    ASSUME Init
    PROVE  IInv
<1>1. TypeOK
  <2>1. NoPage \in Pages
    BY DEF NoPage, Page, Pages
  <2>2. answer \in [status: Statuses, page: Pages, outcome: Outcomes]
    BY <2>1 DEF Init, Answer, Statuses, Outcomes
  <2>3. tables \in [Sources \cup {None} -> Seq(Sizes)]
    BY DEF Init
  <2>4. request \in [source: Sources \cup {None}, limit: Limits,
                    cursor: Int \cup {None}]
    BY ZenonT(60) DEF Init
  <2>5. /\ tool \in Tools /\ mode \in Modes /\ named \subseteq Sources
        /\ known \in BOOLEAN /\ totals \in ReportsTotal
        /\ target \in Sources \cup {None} /\ fetched \in Pages
    BY <2>1 DEF Init
  <2>6. /\ stage \in {"called", "sources", "table", "bound", "answered",
                      "done"}
        /\ got \subseteq Nat
        /\ end \in Nat /\ passed \in BOOLEAN /\ failures \in Nat
    BY DEF Init
  <2> QED
    BY <2>2, <2>3, <2>4, <2>5, <2>6 DEF TypeOK
<1>2. FetchedPage /\ Behind
  BY DEF Init, FetchedPage, Behind
<1> QED
  BY <1>1, <1>2 DEF IInv

\* Return leaves what has been received where it was.
LEMMA ReturnStep ==
    ASSUME IInv,
           stage \in {"called", "sources", "table"},
           NEW status \in Statuses,
           NEW outcome \in Outcomes, Return(Answer(status, NoPage, outcome)),
           UNCHANGED <<world, tables, request, got, end, passed, fetched>>,
           failures' \in Nat, target' \in Sources \cup {None}
    PROVE  IInv'
<1>1. TypeOK'
  BY ZenonT(60)
     DEF IInv, TypeOK, Return, Answer, Pages, NoPage, Page, world
<1>2. StartRow' = StartRow
  BY DEF StartRow, world
<1>3. FetchedPage'
  BY DEF FetchedPage, Return
<1>4. Behind'
  BY <1>2 DEF IInv, Behind, Return, Answer, NoPage, Page, world
<1> QED
  BY <1>1, <1>3, <1>4 DEF IInv

\* The reader calls again from an offset behind which it has all it received.
LEMMA CallStepAgain ==
    ASSUME IInv,
           NEW r \in [source: Sources \cup {None}, limit: Limits,
                      cursor: Int \cup {None}],
           Call(r), tool = "flow" => got \subseteq 1..ParseOffset(r.cursor)
    PROVE  IInv'
<1>1. TypeOK'
  BY DEF IInv, TypeOK, Call, world
<1>2. tool' = tool /\ (tool = "flow" => StartRow' = ParseOffset(r.cursor))
  <2>1. tool' = tool /\ request' = r
    BY DEF Call, world
  <2> QED
    BY <2>1 DEF StartRow
<1>3. FetchedPage' /\ Behind'
  BY <1>2 DEF FetchedPage, Behind, Call
<1> QED
  BY <1>1, <1>3 DEF IInv

LEMMA FetchTablePreserves ==
    ASSUME IInv, FetchTable
    PROVE  IInv'
<1> DEFINE bounded == BoundLimit(BoundLimit(request.limit, MaxRows), MaxRows)
           count == Served(target, StartRow, bounded)
           total == IF totals THEN Len(tables[target]) ELSE 0
           cut == PageTruncated(StartRow, count, bounded, total)
<1>1. request.limit \in Int /\ target \in Sources \cup {None}
  BY ZenonT(60) DEF IInv, TypeOK
<1>2. /\ BoundLimit(request.limit, MaxRows) \in 1..MaxRows
      /\ bounded = BoundLimit(request.limit, MaxRows)
  <2>1. BoundLimit(request.limit, MaxRows) \in 1..MaxRows
    BY <1>1, BoundedLimit
  <2> QED
    BY <2>1 DEF BoundLimit
<1>3. StartRow \in Nat
  BY StartRowType DEF IInv
<1> HIDE DEF bounded
<1>4. /\ count \in Nat /\ count <= bounded
      /\ count # 0 => StartRow + count <= Len(tables[target])
  <2>1. TypeOK /\ bounded \in Nat
    BY <1>2 DEF IInv
  <2> QED
    BY ZenonT(60), <1>1, <1>3, <2>1, ServedBound
<1>5. cut \in BOOLEAN
  BY DEF PageTruncated
<1> HIDE DEF count, cut
<1>6. /\ stage = "table" /\ stage' = "bound"
      /\ fetched' = Page(StartRow, count, cut,
                         IF cut THEN StartRow + count ELSE None)
      /\ end' = Len(tables[Meant])
      /\ UNCHANGED <<world, tables, request, target, answer, got, passed,
                     failures>>
  BY DEF FetchTable, bounded, count, cut
<1>7. Len(tables[Meant]) \in Nat
  <2>1. Meant \in Sources \cup {None}
    <3>1. CASE request.source # None
      BY <3>1 DEF IInv, TypeOK, Meant
    <3>2. CASE request.source = None /\ ~Single(Written)
      BY <3>2 DEF Meant
    <3>3. CASE request.source = None /\ Single(Written)
      <4>1. \E t \in Written : TRUE
        BY <3>3 DEF Single
      <4>2. Meant \in Written
        BY <3>3, <4>1 DEF Meant
      <4> QED
        BY <4>2 DEF IInv, TypeOK, Written
    <3> QED
      BY <3>1, <3>2, <3>3
  <2> QED
    BY <2>1 DEF IInv, TypeOK
<1>8. TypeOK'
  BY SMTT(60), Z3T(60), <1>3, <1>4, <1>5, <1>6, <1>7
     DEF IInv, TypeOK, Pages, Page, world
<1>9. StartRow' = StartRow
  BY <1>6 DEF StartRow, world
<1>10. FetchedPage'
  BY SMTT(60), Z3T(60), <1>2, <1>3, <1>4, <1>5, <1>6, <1>9
     DEF FetchedPage, Page
<1>11. Behind'
  BY ZenonT(60), <1>6, <1>9 DEF IInv, Behind, world
<1> QED
  BY <1>8, <1>10, <1>11 DEF IInv

\* BoundRows, seen through the number of rows it keeps.
BoundAs(kept) ==
    LET f == fetched
        cut == f.truncated \/ kept < f.count
        next == IF tool = "flow" /\ f.next # None THEN f.next
                ELSE NextOffsetCursor(request.cursor, kept, cut)
        status == IF kept > 0 THEN "success"
                  ELSE IF f.count > 0 THEN "error" ELSE "empty"
    IN
    /\ stage = "bound" /\ stage' = "answered"
    /\ answer' = Answer(status, Page(f.from, kept, cut, next), "success")
    /\ got' = got \cup Rows(f.from, kept)
    /\ passed' = (passed \/ (tool = "flow" /\ kept < f.count /\ f.next # None))
    /\ UNCHANGED <<world, tables, request, target, fetched, end, failures>>

LEMMA BoundRowsAs ==
    ASSUME IInv, BoundRows
    PROVE  /\ BoundAs(KeptRows(Measured, BoundLimit(request.limit, MaxRows),
                               MaxBytes))
           /\ KeptRows(Measured, BoundLimit(request.limit, MaxRows), MaxBytes)
                \in 0..fetched.count
<1>1. stage = "bound"
  BY DEF BoundRows
<1>2. Measured \in Seq(Sizes) /\ Len(Measured) = fetched.count
  BY <1>1, MeasuredType
<1>3. KeptRows(Measured, BoundLimit(request.limit, MaxRows), MaxBytes)
        \in 0..fetched.count
  BY <1>2, KeptRowsBound
<1> QED
  BY <1>1, <1>3 DEF BoundRows, BoundAs, Measured

\* The facts about a bounded page that the invariants need.
LEMMA BoundFacts ==
    ASSUME IInv, NEW kept \in 0..fetched.count,
           BoundAs(kept)
    PROVE  /\ fetched.from = StartRow /\ StartRow \in Nat
           /\ StartRow' = StartRow
           /\ answer'.page.from = StartRow /\ answer'.page.count = kept
           /\ answer'.page.truncated =
                (fetched.truncated \/ kept < fetched.count)
           /\ tool = "flow" =>
                answer'.page.next \in
                    {None, StartRow + kept, StartRow + fetched.count}
           /\ tool = "flow" /\ kept < fetched.count /\ fetched.next = None =>
                answer'.page.next \in {None, StartRow + kept}
           /\ TypeOK'
<1>1. /\ fetched.from \in Nat /\ fetched.count \in Nat
      /\ fetched.truncated \in BOOLEAN
      /\ fetched.next \in {None, fetched.from + fetched.count}
      /\ fetched.from = StartRow
  BY DEF IInv, TypeOK, FetchedPage, Pages, BoundAs
<1>2. /\ tool = "flow" => StartRow = ParseOffset(request.cursor)
      /\ StartRow \in Nat /\ ParseOffset(request.cursor) \in Nat
  BY ZenonT(60), StartRowType, OffsetType DEF IInv, TypeOK
<1>3. StartRow' = StartRow
  BY DEF BoundAs, StartRow, world
<1> DEFINE cut == fetched.truncated \/ kept < fetched.count
           next == IF tool = "flow" /\ fetched.next # None THEN fetched.next
                   ELSE NextOffsetCursor(request.cursor, kept, cut)
<1>4. /\ tool = "flow" =>
            next \in {None, StartRow + kept, StartRow + fetched.count}
      /\ next \in Nat \cup {None}
  BY <1>1, <1>2 DEF NextOffsetCursor
<1>5. tool = "flow" /\ fetched.next = None => next \in {None, StartRow + kept}
  BY ZenonT(60), <1>2 DEF NextOffsetCursor
<1> HIDE DEF next
<1>6. \E status \in Statuses :
        answer' = [status |-> status,
                   page |-> [from |-> fetched.from, count |-> kept,
                             truncated |-> cut, next |-> next],
                   outcome |-> "success"]
  BY DEF BoundAs, Answer, Page, Statuses, next
<1>7. TypeOK'
  <2>1. got' \subseteq Nat
    <3>1. got' = got \cup Rows(fetched.from, kept) /\ got \subseteq Nat
      BY DEF BoundAs, IInv, TypeOK
    <3>2. Rows(fetched.from, kept) \subseteq Nat
      BY <1>1 DEF Rows
    <3> QED
      BY ZenonT(60), <3>1, <3>2
  <2>2. answer' \in [status: Statuses, page: Pages, outcome: Outcomes]
    BY <1>1, <1>2, <1>4, <1>6 DEF Pages, Outcomes
  <2> QED
    BY <2>1, <2>2 DEF BoundAs, IInv, TypeOK, world
<1> QED
  BY SMTT(60), Z3T(60), <1>1, <1>2, <1>3, <1>4, <1>5, <1>6, <1>7

LEMMA RowsBehind ==
    ASSUME NEW a \in Nat, NEW k \in Nat, NEW n \in Nat, NEW S,
           S \subseteq 1..a, a + k <= n
    PROVE  S \cup Rows(a, k) \subseteq 1..n
<1>1. \A r \in S : r \in 1..n
  OBVIOUS
<1>2. \A r \in Rows(a, k) : r \in 1..n
  BY DEF Rows
<1> QED
  BY ZenonT(60), <1>1, <1>2

LEMMA BoundRowsPreserves ==
    ASSUME IInv, BoundRows
    PROVE  IInv'
<1> DEFINE kept == KeptRows(Measured, BoundLimit(request.limit, MaxRows),
                            MaxBytes)
<1>1. BoundAs(kept) /\ kept \in 0..fetched.count
  BY BoundRowsAs
<1> HIDE DEF kept
<1>2. /\ fetched.from = StartRow /\ StartRow \in Nat /\ StartRow' = StartRow
      /\ answer'.page.from = StartRow /\ answer'.page.count = kept
      /\ tool = "flow" =>
            answer'.page.next \in
                {None, StartRow + kept, StartRow + fetched.count}
      /\ TypeOK' /\ stage' = "answered" /\ tool' = tool
  BY ZenonT(60), <1>1, BoundFacts DEF BoundAs, world
<1>0. CASE tool # "flow"
  BY <1>0, <1>2 DEF IInv, FetchedPage, Behind
<1> SUFFICES ASSUME tool = "flow" PROVE IInv'
  BY <1>0
<1>3. /\ stage' = "answered" /\ fetched.count \in Nat /\ kept \in Nat
      /\ kept <= fetched.count
      /\ got' = got \cup Rows(StartRow, kept) /\ got \subseteq 1..StartRow
      /\ answer'.status # "source_required"
  <2>1. fetched.count \in Nat /\ got \subseteq 1..StartRow
    BY ZenonT(60), <1>1 DEF BoundAs, IInv, TypeOK, Pages, Behind
  <2>2. stage' = "answered" /\ got' = got \cup Rows(StartRow, kept)
    BY <1>1, <1>2 DEF BoundAs
  <2>3. answer'.status \in {"success", "error", "empty"}
    BY <1>1 DEF BoundAs, Answer
  <2> QED
    BY SMTT(60), Z3T(60), <1>1, <2>1, <2>2, <2>3
<1>7. \A n \in Nat : StartRow + kept <= n => got' \subseteq 1..n
  <2> TAKE n \in Nat
  <2> HAVE StartRow + kept <= n
  <2>0. StartRow \in Nat /\ kept \in Nat /\ got \subseteq 1..StartRow
    BY <1>2, <1>3
  <2>1. got \cup Rows(StartRow, kept) \subseteq 1..n
    BY <2>0, RowsBehind, ZenonT(60)
  <2> QED
    BY <1>3, <2>1
<1>4. answer'.page.next # None => got' \subseteq 1..answer'.page.next
  <2>2. answer'.page.next # None =>
            /\ answer'.page.next \in Nat
            /\ StartRow + kept <= answer'.page.next
    BY <1>2, <1>3
  <2> QED
    BY <1>7, <2>2
<1>5. answer'.page = NoPage => got' \subseteq 1..StartRow
  <2>1. answer'.page = NoPage => kept = 0
    BY <1>2 DEF NoPage, Page
  <2> QED
    BY <1>2, <1>7, <2>1
<1>6. FetchedPage' /\ Behind'
  BY <1>2, <1>3, <1>4, <1>5 DEF FetchedPage, Behind
<1> QED
  BY <1>2, <1>6 DEF IInv

\* The steps of a call, whichever the tool.
LEMMA CallSteps ==
    ASSUME CallStep
    PROVE  \/ MockAnswer \/ FindArtifact \/ ResolveSource
           \/ FetchTable \/ RpcFails \/ BoundRows
BY DEF CallStep, GetFlowResults, GetHuntResults, GetFlowResultsHandler,
       GetHuntResultsHandler

Requests == [source: Sources \cup {None}, limit: Limits,
             cursor: Int \cup {None}]

LEMMA NewCursor ==
    ASSUME NEW q \in Requests, NEW n \in Int
    PROVE  /\ [q EXCEPT !.cursor = n] \in Requests
           /\ [q EXCEPT !.cursor = n].cursor = n
BY DEF Requests

\* One step of the server, the call or the reader keeps the invariant.
LEMMA ReaderNext ==
    ASSUME IInv, [Next]_vars
    PROVE  IInv'
<1>0. /\ tool = "flow" => StartRow = ParseOffset(request.cursor)
      /\ StartRow \in Nat
  BY StartRowType DEF IInv
<1>1. ASSUME NEW s \in Sources \cup {None}, NEW size \in Sizes,
             AddRow(s, size)
      PROVE  IInv'
  <2>1. tables' = [tables EXCEPT ![s] = Append(@, size)]
        /\ tables \in [Sources \cup {None} -> Seq(Sizes)]
    BY <1>1 DEF AddRow, IInv, TypeOK
  <2>2. tables' \in [Sources \cup {None} -> Seq(Sizes)]
        /\ \A t \in Sources \cup {None} : Len(tables'[t]) >= Len(tables[t])
    BY <2>1
  <2>3. TypeOK'
    BY <1>1, <2>2 DEF AddRow, IInv, TypeOK, world
  <2>4. StartRow' = StartRow
    BY <1>1 DEF AddRow, StartRow, world
  <2>5. FetchedPage'
    <3>1. target \in Sources \cup {None} /\ fetched.from \in Nat
          /\ fetched.count \in Nat /\ Len(tables[target]) \in Nat
          /\ Len(tables'[target]) \in Nat
          /\ Len(tables'[target]) >= Len(tables[target])
      BY SMTT(60), Z3T(60), <2>2 DEF IInv, TypeOK, Pages
    <3> QED
      BY SMTT(60), Z3T(60), <1>1, <2>4, <3>1 DEF AddRow, IInv, FetchedPage
  <2>6. Behind'
    BY <1>1, <2>4 DEF AddRow, IInv, Behind, world
  <2> QED
    BY <2>3, <2>5, <2>6 DEF IInv
<1>2. ASSUME FindArtifact PROVE IInv'
  <2>1. CASE stage' = "sources"
    <3>1. TypeOK' /\ StartRow' = StartRow
      BY ZenonT(60), <1>2, <2>1
         DEF FindArtifact, Return, IInv, TypeOK, StartRow, world
    <3> QED
      BY ZenonT(60), <1>2, <2>1, <3>1
      DEF FindArtifact, Return, IInv, FetchedPage, Behind, world
  <2>2. CASE stage' # "sources"
    <3>1. Return(Answer("empty", NoPage, "success"))
          /\ "empty" \in Statuses /\ "success" \in Outcomes
      BY <1>2, <2>2 DEF FindArtifact, Statuses, Outcomes
    <3> QED
      BY <1>2, <3>1, ReturnStep DEF FindArtifact, IInv, TypeOK
  <2> QED
    BY ZenonT(60), <2>1, <2>2
<1>3. ASSUME ResolveSource PROVE IInv'
  <2>1. PICK found \in {named} \cup (IF CatalogFails THEN {{}} ELSE {}) :
        \/ \E t \in Resolved(request.source, found) :
            target' = t /\ stage' = "table" /\ UNCHANGED answer
        \/ /\ \/ Return(Answer("source_required", NoPage, "success"))
              \/ Return(Answer("unknown_source", NoPage, "error"))
           /\ UNCHANGED target
    BY ZenonT(60), <1>3 DEF ResolveSource
  <2>2. CASE \E t \in Resolved(request.source, found) :
            target' = t /\ stage' = "table" /\ UNCHANGED answer
    <3>1. target' \in Sources \cup {None}
      BY ZenonT(60), <2>1, <2>2 DEF Resolved, IInv, TypeOK
    <3>2. TypeOK' /\ StartRow' = StartRow
      BY ZenonT(60), <1>3, <2>2, <3>1
         DEF ResolveSource, IInv, TypeOK, StartRow, world
    <3> QED
      BY ZenonT(60), <1>3, <2>2, <3>2
         DEF ResolveSource, IInv, FetchedPage, Behind, world
  <2>3. CASE /\ \/ Return(Answer("source_required", NoPage, "success"))
                \/ Return(Answer("unknown_source", NoPage, "error"))
             /\ UNCHANGED target
    <3>1. \E status \in Statuses, outcome \in Outcomes :
            Return(Answer(status, NoPage, outcome))
      BY <2>3 DEF Statuses, Outcomes
    <3> QED
      BY <1>3, <2>3, <3>1, ReturnStep DEF ResolveSource, IInv, TypeOK
  <2> QED
    BY <2>1, <2>2, <2>3
<1>4. ASSUME RpcFails PROVE IInv'
  <2>1. PICK status \in Statuses : Return(Answer(status, NoPage, "error"))
    BY <1>4 DEF RpcFails, Statuses
  <2>0. "error" \in Outcomes
    BY DEF Outcomes
  <2>2. stage \in {"called", "sources", "table"} /\ failures' \in Nat
        /\ target' \in Sources \cup {None}
    BY <1>4 DEF RpcFails, IInv, TypeOK
  <2>3. UNCHANGED <<world, tables, request, got, end, passed, fetched>>
    BY ZenonT(60), <1>4 DEF RpcFails
  <2> QED
    BY ZenonT(60), <2>0, <2>1, <2>2, <2>3, ReturnStep
<1>10. ASSUME MockAnswer PROVE IInv'
  <2>1. Return(Answer("success", NoPage, "success"))
        /\ "success" \in Statuses /\ "success" \in Outcomes
    BY <1>10 DEF MockAnswer, Statuses, Outcomes
  <2> QED
    BY <1>10, <2>1, ReturnStep DEF MockAnswer, IInv, TypeOK
<1>5. ASSUME Follow PROVE IInv'
  <2>1. /\ answer.page.next \in Nat
        /\ tool = "flow" => got \subseteq 1..answer.page.next
    <3>1. stage = "answered" /\ answer.page.next # None
      BY <1>5 DEF Follow, MorePages
    <3>2. answer.page.next \in Nat \cup {None}
      BY DEF IInv, TypeOK, Pages
    <3> QED
      BY <3>1, <3>2 DEF IInv, Behind
  <2>2. ParseOffset(answer.page.next) = answer.page.next
    BY <2>1 DEF ParseOffset
  <2>3. [request EXCEPT !.cursor = answer.page.next] \in
            [source: Sources \cup {None}, limit: Limits,
             cursor: Int \cup {None}]
        /\ [request EXCEPT !.cursor = answer.page.next].cursor =
            answer.page.next
    <3>1. request \in Requests /\ answer.page.next \in Int
      BY <2>1 DEF IInv, TypeOK, Requests
    <3> QED
      BY <3>1, NewCursor DEF Requests
  <2> QED
    BY <1>5, <2>1, <2>2, <2>3, CallStepAgain DEF Follow
<1>6. ASSUME PickSource PROVE IInv'
  <2>1. PICK s \in named : Call([request EXCEPT !.source = s])
    BY <1>6 DEF PickSource
  <2>2. tool = "flow" => got \subseteq 1..ParseOffset(request.cursor)
    BY <1>0, <1>6 DEF PickSource, IInv, Behind
  <2>3. [request EXCEPT !.source = s] \in
            [source: Sources \cup {None}, limit: Limits,
             cursor: Int \cup {None}]
        /\ [request EXCEPT !.source = s].cursor = request.cursor
    BY ZenonT(60) DEF IInv, TypeOK
  <2> QED
    BY <2>1, <2>2, <2>3, CallStepAgain
<1>7. ASSUME Retry PROVE IInv'
  <2>1. tool = "flow" => got \subseteq 1..ParseOffset(request.cursor)
    BY ZenonT(60), <1>0, <1>7 DEF Retry, IInv, Behind
  <2> QED
    BY ZenonT(60), <1>7, <2>1, CallStepAgain DEF Retry, IInv, TypeOK
<1>8. ASSUME Stop PROVE IInv'
  <2>1. TypeOK' /\ StartRow' = StartRow
    BY ZenonT(60), <1>8 DEF Stop, IInv, TypeOK, StartRow, world
  <2> QED
    BY <1>8, <2>1 DEF Stop, IInv, FetchedPage, Behind, world
<1>9. ASSUME UNCHANGED vars PROVE IInv'
  <2>1. TypeOK' /\ StartRow' = StartRow
    BY SMTT(60), <1>9 DEF vars, world, IInv, TypeOK, StartRow
  <2> QED
    BY <1>9, <2>1 DEF vars, IInv, FetchedPage, Behind, world
<1> QED
  BY ZenonT(60), <1>1, <1>2, <1>3, <1>4, <1>5, <1>6, <1>7, <1>8, <1>9,
     <1>10, FetchTablePreserves, BoundRowsPreserves, CallSteps
  DEF Next, ReaderStep, Finished

\* No step changes the tool.
LEMMA ToolFixed ==
    ASSUME [Next]_vars
    PROVE  tool' = tool
BY ZenonT(60), CallSteps
DEF Next, AddRow, ReaderStep, MockAnswer, FindArtifact, ResolveSource,
    FetchTable, RpcFails, BoundRows, Follow, PickSource, Retry, Stop, Call,
    Finished, vars, world

\* velo_get_flow_results never delivers a row twice to a reader that follows
\* next_cursor, whatever the limits and sizes, however the flow grows and
\* whichever RPCs fail.
THEOREM FlowRowsOnce == Spec => NoRowTwice
<1>1. Init => IInv
  BY ReaderInit
<1>2. IInv /\ [Next]_vars => IInv'
  BY ZenonT(60), ReaderNext
<1>3. IInv /\ [Next]_vars =>
        [tool = "flow" /\ stage = "bound" /\ stage' = "answered" =>
            Rows(answer'.page.from, answer'.page.count) \cap got = {}]_vars
  <2> SUFFICES ASSUME IInv, tool = "flow", Next,
                      stage = "bound", stage' = "answered"
               PROVE  Rows(answer'.page.from, answer'.page.count) \cap got = {}
    OBVIOUS
  <2>1. BoundRows
    BY CallSteps
    DEF Next, AddRow, ReaderStep, MockAnswer, FindArtifact, ResolveSource,
        FetchTable, RpcFails, Follow, PickSource, Retry, Stop, Finished, vars
  <2>2. PICK kept \in 0..fetched.count : BoundAs(kept)
    BY ZenonT(60), <2>1, BoundRowsAs
  <2>3. /\ StartRow \in Nat /\ answer'.page.from = StartRow
        /\ got \subseteq 1..StartRow
        /\ fetched.count \in Nat /\ answer'.page.count = kept
    BY ZenonT(60), <2>2, BoundFacts DEF IInv, Behind, TypeOK, Pages
  <2> QED
    BY <2>3 DEF Rows
<1> QED
  BY <1>1, <1>2, <1>3, PTL DEF Spec, NoRowTwice

-----------------------------------------------------------------------------
(* Nothing is left out *)

\* Readers start at the first row.
FromTheTop == \A cursor \in Starts : ParseOffset(cursor) = 0

\* Every row before the offset of the next call has been received, as long
\* as no cursor has led past rows that were cut.
Caught ==
    ~passed =>
        /\ stage \in {"called", "sources", "table", "bound"} =>
            1..StartRow \subseteq got
        /\ stage = "answered" =>
            /\ answer.page.next # None => 1..answer.page.next \subseteq got
            /\ answer.page = NoPage => 1..StartRow \subseteq got

\* A page of the table the caller means that is not truncated reaches the end
\* of it.
AtEnd ==
    /\ stage = "bound" /\ target = Meant /\ ~fetched.truncated =>
        fetched.from + fetched.count >= end
    /\ /\ stage \in {"answered", "done"} /\ mode = "real" /\ known
       /\ ~passed /\ target = Meant
       /\ answer.status \in {"success", "empty"} /\ ~answer.page.truncated
       => 1..end \subseteq got

LEMMA RowsReach ==
    ASSUME NEW a \in Nat, NEW k \in Nat, NEW n \in Nat, NEW S,
           1..a \subseteq S, n <= a + k
    PROVE  1..n \subseteq S \cup Rows(a, k)
<1> SUFFICES ASSUME NEW r \in 1..n, r \notin S PROVE r \in Rows(a, k)
  OBVIOUS
<1>1. ~(r <= a)
  BY SMTT(60)
<1> QED
  BY <1>1 DEF Rows

LEMMA BoundRowsReach ==
    ASSUME IInv, Caught, tool = "flow", BoundRows, ~passed'
    PROVE  /\ stage = "bound" /\ stage' = "answered"
           /\ StartRow' = StartRow
           /\ UNCHANGED <<world, end, target, request>>
           /\ fetched.from = StartRow /\ StartRow \in Nat
           /\ fetched.count \in Nat
           /\ answer'.page.next # None => 1..answer'.page.next \subseteq got'
           /\ 1..StartRow \subseteq got'
           /\ ~answer'.page.truncated =>
                /\ ~fetched.truncated
                /\ \A n \in Nat : n <= StartRow + fetched.count =>
                                    1..n \subseteq got'
<1>1. PICK kept \in 0..fetched.count : BoundAs(kept)
  BY BoundRowsAs
<1>2. /\ fetched.count \in Nat /\ fetched.truncated \in BOOLEAN
      /\ kept \in Nat /\ kept <= fetched.count
      /\ 1..StartRow \subseteq got
      /\ kept = fetched.count \/ fetched.next = None
  <2>1. fetched.count \in Nat /\ fetched.truncated \in BOOLEAN
    BY DEF IInv, TypeOK, Pages
  <2>2. stage = "bound" /\ ~passed
        /\ ~(kept < fetched.count /\ fetched.next # None)
    BY ZenonT(60), <1>1 DEF BoundAs
  <2>3. 1..StartRow \subseteq got
    BY <2>2 DEF Caught
  <2> QED
    BY <2>1, <2>2, <2>3
<1>3. /\ fetched.from = StartRow /\ StartRow \in Nat
      /\ StartRow' = StartRow
      /\ answer'.page.truncated =
            (fetched.truncated \/ kept < fetched.count)
      /\ answer'.page.next \in {None, StartRow + kept}
  <2>1. /\ fetched.from = StartRow /\ StartRow \in Nat
        /\ StartRow' = StartRow
        /\ answer'.page.truncated =
            (fetched.truncated \/ kept < fetched.count)
        /\ answer'.page.next \in
            {None, StartRow + kept, StartRow + fetched.count}
        /\ kept < fetched.count /\ fetched.next = None =>
            answer'.page.next \in {None, StartRow + kept}
    BY SMTT(60), Z3T(60), <1>1, BoundFacts
  <2> QED
    BY <1>2, <2>1
<1>4. got' = got \cup Rows(StartRow, kept)
  BY <1>1, <1>3 DEF BoundAs
<1>5. ASSUME NEW n \in Nat, n <= StartRow + kept
      PROVE  1..n \subseteq got'
  <2>1. 1..n \subseteq got \cup Rows(StartRow, kept)
    BY <1>2, <1>3, <1>5, RowsReach, ZenonT(60)
  <2> QED
    BY <1>4, <2>1
<1>6. answer'.page.next # None => 1..answer'.page.next \subseteq got'
  BY <1>2, <1>3, <1>5
<1>7. 1..StartRow \subseteq got'
  BY <1>2, <1>4
<1>8. ~answer'.page.truncated =>
        ~fetched.truncated /\ kept = fetched.count
  <2>1. kept < fetched.count \/ kept = fetched.count
    BY <1>2
  <2> QED
    BY <1>3, <2>1, ZenonT(60)
<1>9. UNCHANGED <<world, end, target, request>>
      /\ stage = "bound" /\ stage' = "answered"
  BY <1>1 DEF BoundAs
<1> QED
  BY ZenonT(60), <1>2, <1>3, <1>5, <1>6, <1>7, <1>8, <1>9

LEMMA CaughtNext ==
    ASSUME IInv, Caught, tool = "flow", [Next]_vars
    PROVE  Caught'
<1>0. StartRow = ParseOffset(request.cursor) /\ StartRow \in Nat
  BY ZenonT(60), StartRowType DEF IInv
<1>1. CASE BoundRows
  <2> SUFFICES ASSUME ~passed' PROVE Caught'
    BY SMTT(60) DEF Caught
  <2>1. /\ stage' = "answered" /\ StartRow' = StartRow
        /\ answer'.page.next # None => 1..answer'.page.next \subseteq got'
        /\ 1..StartRow \subseteq got'
    BY SMTT(60), <1>1, BoundRowsReach
  <2> QED
    BY ZenonT(60), <2>1 DEF Caught
<1>2. CASE Follow
  <2>1. /\ stage = "answered" /\ stage' = "called" /\ got' = got
        /\ passed' = passed /\ tool' = "flow"
        /\ request'.cursor = answer.page.next
        /\ answer.page.next # None
    BY <1>2 DEF Follow, MorePages, Call, IInv, TypeOK, world
  <2>2. answer.page.next \in Nat
    BY <2>1 DEF IInv, TypeOK, Pages
  <2>3. StartRow' = answer.page.next
    BY <2>1, <2>2 DEF StartRow, ParseOffset
  <2> QED
    BY <2>1, <2>3 DEF Caught
<1>3. CASE PickSource \/ Retry
  <2>1. /\ stage = "answered" /\ stage' = "called" /\ got' = got
        /\ passed' = passed /\ answer.page = NoPage
    BY <1>3 DEF PickSource, Retry, Call, IInv, Behind
  <2>2. request'.cursor = request.cursor /\ tool' = tool
    BY <1>3 DEF PickSource, Retry, Call, IInv, TypeOK, world
  <2>3. StartRow' = StartRow
    BY ZenonT(60), <2>2 DEF StartRow
  <2> QED
    BY <2>1, <2>3 DEF Caught
<1>4. CASE \/ MockAnswer \/ FindArtifact \/ ResolveSource \/ RpcFails
           \/ FetchTable
  <2>1. /\ got' = got /\ StartRow' = StartRow /\ passed' = passed
        /\ stage \in {"called", "sources", "table"}
        /\ stage' = "answered" => answer'.page = NoPage
    <3>1. CASE MockAnswer
      BY <3>1 DEF MockAnswer, Return, Answer, StartRow, world
    <3>2. CASE FindArtifact
      BY <3>2 DEF FindArtifact, Return, Answer, StartRow, world
    <3>3. CASE ResolveSource
      BY <3>3 DEF ResolveSource, Return, Answer, StartRow, world
    <3>4. CASE RpcFails
      BY SMTT(60), Z3T(60), <3>4 DEF RpcFails, Return, Answer, StartRow, world
    <3>5. CASE FetchTable
      BY ZenonT(60), <3>5 DEF FetchTable, StartRow, world
    <3> QED
      BY ZenonT(60), <1>4, <3>1, <3>2, <3>3, <3>4, <3>5
  <2> QED
    BY SMTT(60), <2>1 DEF Caught, NoPage, Page
<1>5. CASE \/ \E s \in Sources \cup {None}, size \in Sizes : AddRow(s, size)
           \/ Stop \/ UNCHANGED vars
  <2>1. got' = got /\ StartRow' = StartRow /\ answer' = answer
        /\ passed' = passed /\ stage' \in {stage, "done"}
    BY ZenonT(60), <1>5 DEF AddRow, Stop, vars, StartRow, world
  <2> QED
    BY <2>1 DEF Caught
<1> QED
  BY ZenonT(60), <1>1, <1>2, <1>3, <1>4, <1>5, CallSteps
     DEF Next, ReaderStep, Finished

\* A reader that starts at the top and follows next_cursor is never led past
\* a row, as long as no full page is cut by max_result_bytes.
THEOREM FlowRowsAll ==
    ASSUME FromTheTop
    PROVE  Spec => []NothingSkipped
<1> DEFINE FlowInv == IInv /\ (tool = "flow" => Caught)
<1>1. Init => FlowInv
  <2> SUFFICES ASSUME Init PROVE IInv /\ Caught
    OBVIOUS
  <2>1. IInv
    BY ReaderInit
  <2>2. StartRow = 0
    BY ZenonT(60) DEF Init, StartRow, FromTheTop
  <2> QED
    BY <2>1, <2>2 DEF Init, Caught
<1>2. FlowInv /\ [Next]_vars => FlowInv'
  BY ReaderNext, CaughtNext, ToolFixed
<1>3. FlowInv => NothingSkipped
  <2>1. CASE tool = "flow"
    BY <2>1 DEF Caught, NothingSkipped
  <2>2. CASE tool # "flow"
    BY <2>2 DEF NothingSkipped, StartRow
  <2> QED
    BY <2>1, <2>2
<1> QED
  BY <1>1, <1>2, <1>3, PTL DEF Spec

-----------------------------------------------------------------------------
(* The end is the end *)

LEMMA FetchReachesEnd ==
    ASSUME IInv, target = Meant, ServerCap >= MaxRows,
           FetchTable, ~fetched'.truncated
    PROVE  fetched'.from + fetched'.count >= end'
<1> DEFINE bounded == BoundLimit(BoundLimit(request.limit, MaxRows), MaxRows)
           count == Served(target, StartRow, bounded)
           total == IF totals THEN Len(tables[target]) ELSE 0
<1>1. /\ fetched'.from = StartRow /\ fetched'.count = count
      /\ ~PageTruncated(StartRow, count, bounded, total)
      /\ end' = Len(tables[target])
  BY DEF FetchTable, Page
<1>2. StartRow \in Nat
  BY StartRowType DEF IInv
<1>3. bounded \in 1..MaxRows
  <2>1. request.limit \in Int
    BY ZenonT(60) DEF IInv, TypeOK
  <2>2. BoundLimit(request.limit, MaxRows) \in 1..MaxRows
    BY <2>1, BoundedLimit
  <2>3. BoundLimit(request.limit, MaxRows) \in Int
    BY <2>2
  <2> QED
    BY <2>3, BoundedLimit
<1>4. Len(tables[target]) \in Nat
  BY DEF IInv, TypeOK
<1> HIDE DEF bounded
<1>5. count \in Nat
      /\ (count < bounded => StartRow + count >= Len(tables[target]))
  BY <1>2, <1>3, <1>4 DEF Served, Smaller
<1>6. total \in {0, Len(tables[target])}
  OBVIOUS
<1> HIDE DEF count, total
<1>7. count < bounded \/ (total # 0 /\ StartRow + count >= total)
  BY SMTT(60), Z3T(60), <1>1, <1>2, <1>3, <1>4, <1>5, <1>6 DEF PageTruncated
<1> QED
  BY ZenonT(60), <1>1, <1>2, <1>4, <1>5, <1>6, <1>7

\* A hunt is read from the first row, so one page that is not cut is all.
LEMMA HuntRowsReach ==
    ASSUME IInv, tool # "flow", BoundRows
    PROVE  /\ stage = "bound" /\ stage' = "answered"
           /\ UNCHANGED <<world, end, target, request>>
           /\ fetched.from = StartRow /\ StartRow \in Nat
           /\ fetched.count \in Nat
           /\ ~answer'.page.truncated =>
                /\ ~fetched.truncated
                /\ \A n \in Nat : n <= StartRow + fetched.count =>
                                    1..n \subseteq got'
<1>1. PICK kept \in 0..fetched.count : BoundAs(kept)
  BY BoundRowsAs
<1>2. /\ fetched.from = StartRow /\ StartRow \in Nat
      /\ answer'.page.truncated =
            (fetched.truncated \/ kept < fetched.count)
  BY SMTT(60), <1>1, BoundFacts
<1>3. /\ stage = "bound" /\ stage' = "answered"
      /\ UNCHANGED <<world, end, target, request>>
      /\ got' = got \cup Rows(StartRow, kept)
  BY <1>1, <1>2 DEF BoundAs
<1>4. fetched.count \in Nat /\ kept \in Nat /\ kept <= fetched.count
  BY DEF IInv, TypeOK, Pages
<1>5. StartRow = 0
  BY DEF StartRow
<1>6. ASSUME ~answer'.page.truncated
      PROVE  ~fetched.truncated /\ kept = fetched.count
  <2>1. kept < fetched.count \/ kept = fetched.count
    BY <1>4
  <2> QED
    BY <1>2, <1>6, <2>1, ZenonT(60)
<1>7. \A n \in Nat : n <= StartRow + kept => 1..n \subseteq got'
  <2> TAKE n \in Nat
  <2> HAVE n <= StartRow + kept
  <2>1. \A r \in 1..n : r \in Rows(StartRow, kept)
    BY <1>4, <1>5 DEF Rows
  <2> QED
    BY <1>3, <2>1
<1> QED
  BY <1>2, <1>3, <1>4, <1>6, <1>7

LEMMA AtEndNext ==
    ASSUME IInv, tool = "flow" => Caught, AtEnd, ServerCap >= MaxRows,
           [Next]_vars
    PROVE  AtEnd'
<1>1. CASE BoundRows
  <2>0. stage' = "answered" /\ answer'.status # "none"
    BY SMTT(60), <1>1 DEF BoundRows, Answer
  <2>1. CASE passed' \/ answer'.page.truncated
    BY ZenonT(60), <2>0, <2>1 DEF AtEnd
  <2>2. CASE ~passed' /\ ~answer'.page.truncated
    <3>1. /\ stage = "bound" /\ end' = end
          /\ UNCHANGED <<world, target, request>>
          /\ fetched.from = StartRow /\ ~fetched.truncated
          /\ \A n \in Nat : n <= StartRow + fetched.count =>
                                1..n \subseteq got'
          /\ StartRow \in Nat /\ fetched.count \in Nat
      BY ZenonT(60), <1>1, <2>2, BoundRowsReach, HuntRowsReach
    <3>2. end \in Nat
      BY DEF IInv, TypeOK
    <3>3. Meant' = Meant
      BY <3>1 DEF Meant, Written, world
    <3>4. target = Meant => 1..end \subseteq got'
      BY <3>1, <3>2 DEF AtEnd
    <3> QED
      BY ZenonT(60), <2>0, <3>1, <3>3, <3>4 DEF AtEnd
  <2> QED
    BY ZenonT(60), <2>1, <2>2
<1>2. CASE FetchTable
  <2>1. /\ stage' = "bound" /\ UNCHANGED <<world, target, request>>
    BY <1>2 DEF FetchTable
  <2>2. Meant' = Meant
    BY <2>1 DEF Meant, Written, world
  <2>3. target = Meant /\ ~fetched'.truncated =>
            fetched'.from + fetched'.count >= end'
    BY ZenonT(60), <1>2, FetchReachesEnd
  <2> QED
    BY ZenonT(60), <2>1, <2>2, <2>3 DEF AtEnd
<1>3. CASE ResolveSource
  <2>1. \/ stage' = "table"
        \/ stage' = "answered"
           /\ answer'.status \in {"source_required", "unknown_source"}
    BY <1>3 DEF ResolveSource, Return, Answer
  <2> QED
    BY ZenonT(60), <2>1 DEF AtEnd
<1>4. CASE MockAnswer \/ FindArtifact \/ RpcFails
  <2>1. \/ stage' = "sources"
        \/ /\ stage' = "answered"
           /\ \/ ~(mode' = "real" /\ known')
              \/ answer'.status \in {"error", "not_found"}
    BY SMTT(60), Z3T(60), <1>4
       DEF MockAnswer, FindArtifact, RpcFails, Return, Answer, world
  <2> QED
    BY ZenonT(60), <2>1 DEF AtEnd
<1>5. CASE Follow \/ PickSource \/ Retry
  <2>1. stage' = "called"
    BY ZenonT(60), <1>5 DEF Follow, PickSource, Retry, Call
  <2> QED
    BY <2>1 DEF AtEnd
<1>6. CASE \/ \E s \in Sources \cup {None}, size \in Sizes : AddRow(s, size)
           \/ Stop \/ UNCHANGED vars
  <2>1. /\ UNCHANGED <<world, request, target, fetched, answer, got, end,
                       passed>>
        /\ stage' = stage \/ (stage = "answered" /\ stage' = "done")
    BY ZenonT(60), <1>6 DEF AddRow, Stop, vars
  <2>2. Meant' = Meant
    BY <2>1 DEF Meant, Written, world
  <2> QED
    BY SMTT(60), <2>1, <2>2 DEF AtEnd, world
<1> QED
  BY ZenonT(60), <1>1, <1>2, <1>3, <1>4, <1>5, <1>6, CallSteps
  DEF Next, ReaderStep, Finished

\* An answer that does not say it is truncated is the end, for a flow and for
\* a hunt: the reader has every row there was when the last page was read, as
\* long as the server returns as many rows as max_rows allows.
THEOREM ResultsComplete ==
    ASSUME FromTheTop, ServerCap >= MaxRows
    PROVE  Spec => []CompleteWhenDone
<1> DEFINE Inv == IInv /\ (tool = "flow" => Caught) /\ AtEnd
<1>1. Init => Inv
  <2> SUFFICES ASSUME Init PROVE Inv
    OBVIOUS
  <2>1. IInv /\ StartRow = 0
    BY ZenonT(60), ReaderInit DEF Init, StartRow, FromTheTop
  <2> QED
    BY <2>1 DEF Init, Caught, AtEnd
<1>2. Inv /\ [Next]_vars => Inv'
  BY ZenonT(60), ReaderNext, CaughtNext, AtEndNext, ToolFixed
<1>3. Inv => CompleteWhenDone
  BY DEF AtEnd, CompleteWhenDone
<1> QED
  BY <1>1, <1>2, <1>3, PTL DEF Spec
=============================================================================
