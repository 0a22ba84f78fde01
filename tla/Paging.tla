------------------------------- MODULE Paging -------------------------------
(***************************************************************************)
(* The bounds and cursors of the read tools: internal/velociraptor         *)
(* (boundLimit, parseOffsetCursor, the pages of GetFlowResults and         *)
(* GetHuntResults) and internal/mcpserver/tools_flows.go (boundToolLimit,  *)
(* boundRowsByLimitAndBytes, nextOffsetCursor).                            *)
(*                                                                         *)
(* The cursor "offset:n" is the integer n; None is the empty string, and   *)
(* any other text, which the code reads as offset 0 just the same.  A page *)
(* of rows is the interval from+1 .. from+count of row numbers.            *)
(***************************************************************************)
EXTENDS Integers, Sequences, FiniteSets

CONSTANTS
    None,       \* an empty string or nothing: no cursor, no source, no answer
    MaxRows     \* velociraptor.max_rows: how many rows one answer may have

ASSUME NoneAssumption == None \notin Int

\* parseOffsetCursor: an empty, malformed or negative cursor is the start.
ParseOffset(cursor) == IF cursor # None /\ cursor > 0 THEN cursor ELSE 0

\* boundLimit and boundToolLimit; configuration makes the ceiling positive.
BoundLimit(requested, ceiling) ==
    IF requested <= 0 \/ requested > ceiling THEN ceiling ELSE requested

Rows(from, count) == from + 1 .. from + count

\* Mutant of PageTruncated: a page that is not full counts as truncated too.
PageTruncatedShort(from, count, bounded, total) ==
    total = 0 \/ from + count < total

\* What the client says of count rows from row from on, when it has asked for
\* bounded rows and the server has reported total (0: not reported).
PageTruncated(from, count, bounded, total) ==
    count >= bounded /\ (total = 0 \/ from + count < total)

\* The encoded size of the first n of rows of these sizes.
PrefixBytes(sizes) ==
    LET bytes[n \in 0..Len(sizes)] ==
            IF n = 0 THEN 0 ELSE bytes[n - 1] + sizes[n]
    IN  bytes

\* boundRowsByLimitAndBytes: how many leading rows are within both bounds
\* (the sums grow, so the rows that fit are the leading ones).
KeptRows(sizes, limit, maxBytes) ==
    Cardinality({n \in 1..Len(sizes) :
        n <= limit /\ PrefixBytes(sizes)[n] <= maxBytes})

\* Mutant of NextOffsetCursor: counts from the start of the page.
NextOffsetCursorLocal(cursor, returned, truncated) ==
    IF ~truncated \/ returned = 0 THEN None ELSE returned

\* nextOffsetCursor
NextOffsetCursor(cursor, returned, truncated) ==
    IF ~truncated \/ returned = 0 THEN None
    ELSE ParseOffset(cursor) + returned
=============================================================================
