-------------------------- MODULE AuditLogProofs --------------------------
(***************************************************************************)
(* Proofs about the audit log: the file (AuditLog), then what is taken out *)
(* of a text before it is written there (Redaction).                       *)
(*                                                                         *)
(* The file is treated for any size and number of files, any number of     *)
(* events and any faults and kills: the log is in order, what Write        *)
(* acknowledges is in it, and rotation drops the oldest events only.  All  *)
(* that the properties need to know of a step is what it does to the lines *)
(* of the files: nothing, one line more in the live file, or one file      *)
(* renamed over the next (Same, Adds, Moves).                              *)
(*                                                                         *)
(* A text may have any length and any number of blocks.  A round of the    *)
(* loop that takes them out keeps a well-formed text well formed, and when *)
(* no BEGIN is left there can be no key material (TextInv).                *)
(***************************************************************************)
EXTENDS AuditLog, Redaction, SequenceTheorems, WellFoundedInduction, TLAPS

Values == Nat \cup {Torn}

Ops == {"write", "stat", "close", "rename", "open", "kill"}

TypeOK ==
    /\ DOMAIN files = Slots
    /\ \A s \in Slots : files[s] = None \/ files[s] \in Seq(Values)
    /\ up \in BOOLEAN /\ file \in {"open", "closed"}
    /\ pc \in {"idle", "close", "shift", "open"}
    /\ shift \in 0..MaxFiles - 1
    /\ last \in Nat /\ acked \subseteq 1..last
    /\ pc # "idle" => last > 0
    /\ bad \in Seq(Ops)

\* Slot s has event e.
Has(s, e) == \E i \in Events(s) : Lines(s)[i] = e

\* The file that is open is there, and the rotation has closed it.
FileInv ==
    /\ file = "open" => files[0] # None
    /\ pc \in {"shift", "open"} => file = "closed"

\* The log has no event that was not written.
KnownInv == \A s \in Slots : \A i \in Events(s) : Lines(s)[i] \in 1..last

\* Until it returns, Write has its event in the log: in the live file until
\* that is renamed.
LiveInv ==
    /\ pc \in {"close", "shift"} => Has(0, last)
    /\ pc = "open" => \E s \in Slots : Has(s, last)

\* If no rename failed, a file is renamed to where there is none.
HoleInv ==
    "rename" \notin Range(bad) /\ pc = "shift" /\ shift < MaxFiles - 1 =>
        Lines(shift + 1) = <<>>

\* If no rename failed, what rotation has dropped is older than the log.
KeptInv ==
    "rename" \notin Range(bad) =>
        \A e \in acked : (\E f \in OnDisk : f < e) => e \in OnDisk

\* The events of k full files.
Span(k) == k * (MaxSize + 1)

\* The last event that is not one of the file being filled or rotated, and
\* how far back from there the slots 0..k reach.
Base == last - (IF pc = "open" THEN MaxSize + 1 ELSE Len(Lines(0)))

Reach(k) ==
    IF pc = "open" \/ (pc = "shift" /\ k > shift) THEN Span(k - 1) ELSE Span(k)

Cover ==
    \A k \in Slots : \A e \in 1..last :
        e > Base - Reach(k) => \E s \in 0..k : Has(s, e)

\* As long as nothing has gone wrong.
CleanInv ==
    bad = <<>> =>
        /\ up /\ enc = "ok" /\ (pc \in {"idle", "close"} => file = "open")
        /\ pc = "idle" => Len(Lines(0)) <= MaxSize
        /\ pc \in {"close", "shift"} => Len(Lines(0)) = MaxSize + 1
        /\ pc = "open" => Lines(0) = <<>>
        /\ Cover
-----------------------------------------------------------------------------
(* What a step does to the lines of the files *)

Same == \A s \in Slots : Lines(s)' = Lines(s)

Adds(e) ==
    /\ Lines(0)' = Append(Lines(0), e)
    /\ \A s \in Slots \ {0} : Lines(s)' = Lines(s)

Moves(k) ==
    /\ Lines(k + 1)' = Lines(k) /\ Lines(k)' = <<>>
    /\ \A s \in Slots \ {k, k + 1} : Lines(s)' = Lines(s)

LEMMA LinesType ==
    ASSUME TypeOK, NEW s \in Slots
    PROVE  Lines(s) \in Seq(Values)
  BY DEF TypeOK, Lines

LEMMA Keeps == ASSUME UNCHANGED files PROVE Same
  BY DEF Same, Lines

LEMMA Appends ==
    ASSUME TypeOK, files[0] # None, NEW e \in Values,
           files' = [files EXCEPT ![0] = Append(@, e)]
    PROVE  Adds(e)
<1>1. 0 \in Slots /\ files[0] \in Seq(Values)
  BY AuditLogAssumption DEF TypeOK, Slots
<1>2. files'[0] = Append(files[0], e) /\ files'[0] # None
  <2>1. files'[0] = Append(files[0], e)
    BY <1>1 DEF TypeOK
  <2>2. Append(files[0], e) \in Seq(Values)
    BY <1>1, AppendProperties
  <2> QED BY ZenonT(60), <2>1, <2>2, AuditLogAssumption DEF Values
<1>3. \A s \in Slots \ {0} : files'[s] = files[s]
  BY DEF TypeOK
<1> QED BY <1>2, <1>3 DEF Adds, Lines

LEMMA Renames ==
    ASSUME TypeOK, NEW k \in 0..MaxFiles - 1, files' = Renamed(k, k + 1)
    PROVE  (Lines(k) = <<>> /\ Same) \/ Moves(k)
<1>1. k \in Slots /\ k + 1 \in Slots /\ k + 1 # k
  BY AuditLogAssumption DEF Slots
<1>2. CASE files[k] = None
  BY <1>2, Keeps DEF Renamed, Lines
<1>3. CASE files[k] # None
  <2>1. files' = [files EXCEPT ![k + 1] = files[k], ![k] = None]
    BY <1>3 DEF Renamed
  <2>2. /\ files'[k + 1] = files[k] /\ files'[k] = None
        /\ \A s \in Slots \ {k, k + 1} : files'[s] = files[s]
    BY <1>1, <2>1 DEF TypeOK
  <2> QED BY <1>3, <2>2 DEF Moves, Lines
<1> QED BY <1>2, <1>3

LEMMA Opens == ASSUME TypeOK, files' = Opened PROVE Same
<1>1. 0 \in Slots
  BY AuditLogAssumption DEF Slots
<1>2. <<>> # None
  <2>1. <<>> \in Seq(Values)
    OBVIOUS
  <2> QED BY ZenonT(60), <2>1, AuditLogAssumption DEF Values
<1>3. /\ files'[0] = IF files[0] = None THEN <<>> ELSE files[0]
      /\ \A s \in Slots \ {0} : files'[s] = files[s]
  BY <1>1 DEF Opened, TypeOK
<1> QED BY <1>1, <1>2, <1>3 DEF Same, Lines

\* The faults and kills so far.
LEMMA BadSteps ==
    ASSUME TypeOK, NEW op \in Ops, Goes(op)
    PROVE  /\ bad' \in Seq(Ops) /\ bad' # <<>>
           /\ Range(bad') = Range(bad) \cup {op}
<1>1. bad' = Append(bad, op) /\ bad \in Seq(Ops)
  BY DEF Goes, TypeOK
<1>2. /\ bad' \in Seq(Ops) /\ Len(bad') = Len(bad) + 1
      /\ \A i \in 1..Len(bad) : bad'[i] = bad[i]
      /\ bad'[Len(bad) + 1] = op
  BY <1>1, AppendProperties
<1>3. /\ Len(bad) \in Nat /\ DOMAIN bad = 1..Len(bad)
      /\ DOMAIN bad' = 1..Len(bad) + 1
  BY <1>1, <1>2, LenProperties
<1>4. ASSUME NEW x PROVE x \in Range(bad') <=> x \in Range(bad) \/ x = op
  <2>1. ASSUME x \in Range(bad') PROVE x \in Range(bad) \/ x = op
    BY <1>2, <1>3, <2>1 DEF Range
  <2>2. ASSUME x \in Range(bad) PROVE x \in Range(bad')
    BY <1>2, <1>3, <2>2 DEF Range
  <2>3. op \in Range(bad')
    BY <1>2, <1>3 DEF Range
  <2> QED BY <2>1, <2>2, <2>3
<1> QED BY <1>2, <1>3, <1>4, EmptySeq

-----------------------------------------------------------------------------
(* Types *)

LEMMA TypeStep == ASSUME TypeOK, FileInv, [Next]_vars PROVE TypeOK'
<1> DEFINE FilesOK(f) ==
        /\ DOMAIN f = Slots
        /\ \A s \in Slots : f[s] = None \/ f[s] \in Seq(Values)
<1>0. 0 \in Slots /\ FilesOK(files)
  BY AuditLogAssumption DEF Slots, TypeOK
<1>1. ASSUME NEW e \in Values, files[0] # None,
             files' = [files EXCEPT ![0] = Append(@, e)]
      PROVE  FilesOK(files')
  BY <1>0, <1>1
<1>2. ASSUME NEW k \in 0..MaxFiles - 1, files' = Renamed(k, k + 1)
      PROVE  FilesOK(files')
  <2>1. k \in Slots /\ k + 1 \in Slots
    BY AuditLogAssumption DEF Slots
  <2> QED BY <1>0, <1>2, <2>1 DEF Renamed
<1>3. ASSUME files' = Opened PROVE FilesOK(files')
  BY <1>0, <1>3 DEF Opened
<1>4. \A op \in Ops : Goes(op) => bad' \in Seq(Ops)
  BY BadSteps
<1>5. /\ up \in BOOLEAN /\ file \in {"open", "closed"}
      /\ pc \in {"idle", "close", "shift", "open"}
      /\ shift \in 0..MaxFiles - 1
      /\ last \in Nat /\ acked \subseteq 1..last
      /\ pc # "idle" => last > 0
      /\ bad \in Seq(Ops)
  BY DEF TypeOK
<1>6. /\ last + 1 \in Values /\ Torn \in Values
      /\ last + 1 \in Nat /\ last + 1 > 0
      /\ acked \cup {last + 1} \subseteq 1..last + 1
      /\ acked \subseteq 1..last + 1
      /\ pc # "idle" => acked \cup {last} \subseteq 1..last
      /\ 0 \in 0..MaxFiles - 1 /\ MaxFiles - 1 \in 0..MaxFiles - 1
  BY <1>5, AuditLogAssumption DEF Values
<1> SUFFICES /\ FilesOK(files')
             /\ up' \in BOOLEAN /\ file' \in {"open", "closed"}
             /\ pc' \in {"idle", "close", "shift", "open"}
             /\ shift' \in 0..MaxFiles - 1
             /\ last' \in Nat /\ acked' \subseteq 1..last'
             /\ pc' # "idle" => last' > 0
             /\ bad' \in Seq(Ops)
  BY DEF TypeOK
<1> HIDE DEF FilesOK
<1>7. CASE Encode
  BY ZenonT(60), <1>1, <1>5, <1>6, <1>7 DEF Encode, Acknowledge, FileInv
<1>8. CASE StatFails
  BY ZenonT(60), <1>1, <1>4, <1>5, <1>6, <1>8
     DEF StatFails, Acknowledge, FileInv, Breaks,
     Ops
<1>9. CASE EncodeFails
  BY ZenonT(60), <1>0, <1>1, <1>4, <1>5, <1>6, <1>9
     DEF EncodeFails, FileInv, Breaks, Ops
<1>10. CASE EncodeRefused
  BY <1>0, <1>5, <1>6, <1>10 DEF EncodeRefused
<1>11. CASE CloseOld
  BY ZenonT(60), <1>0, <1>4, <1>5, <1>6, <1>11 DEF CloseOld, Done, Breaks, Ops
<1>12. CASE ShiftCopy
  <2>1. shift \in 0..MaxFiles - 1 /\ shift - 1 \in 0..MaxFiles - 1
    BY <1>5, <1>12, AuditLogAssumption DEF ShiftCopy
  <2> QED
    BY <1>0, <1>2, <1>4, <1>5, <1>12, <2>1 DEF ShiftCopy, Breaks, Ops
<1>13. CASE MoveLive
  <2>1. 0 + 1 = 1
    OBVIOUS
  <2> QED
    BY <1>0, <1>2, <1>4, <1>5, <1>6, <1>13, <2>1 DEF MoveLive, Breaks, Ops
<1>14. CASE Reopen
  BY <1>0, <1>3, <1>4, <1>5, <1>6, <1>14 DEF Reopen, Done, Breaks, Ops
<1>15. CASE Kill
  <2>1. pc = "idle" /\ file = "open" => files[0] # None
    BY DEF FileInv
  <2> QED
    BY ZenonT(60), <1>0, <1>1, <1>4, <1>5, <1>6, <1>15, <2>1 DEF Kill, Ops
<1>16. CASE NewJSONLWriter
  BY <1>3, <1>5, <1>6, <1>16 DEF NewJSONLWriter
<1>17. CASE UNCHANGED vars
  BY <1>0, <1>5, <1>17 DEF vars
<1> QED
  BY <1>7, <1>8, <1>9, <1>10, <1>11, <1>12, <1>13, <1>14, <1>15, <1>16, <1>17
     DEF Next, Write, Rotate, Finished
-----------------------------------------------------------------------------
(* The steps, seen from the log *)

LEMMA LineSteps ==
    ASSUME TypeOK, FileInv, [Next]_vars
    PROVE  \/ Same /\ last' \in {last, last + 1}
           \/ last' = last + 1 /\ (Adds(last') \/ Adds(Torn))
           \/ /\ last' = last /\ pc = "shift"
              /\ \E k \in 0..MaxFiles - 1 : k = shift /\ Moves(k)
<1>1. /\ last + 1 \in Values /\ Torn \in Values
      /\ shift \in 0..MaxFiles - 1
      /\ file = "open" => files[0] # None
  BY DEF TypeOK, Values, FileInv
<1>2. CASE Encode \/ StatFails \/ EncodeFails
  BY <1>1, <1>2, Appends, Keeps DEF Encode, StatFails, EncodeFails
<1>3. CASE EncodeRefused \/ CloseOld
  BY <1>3, Keeps DEF EncodeRefused, CloseOld
<1>4. CASE ShiftCopy
  <2>1. PICK k \in 0..MaxFiles - 1 : k = shift
    BY <1>1
  <2>2. Same \/ Moves(k)
    BY <1>4, <2>1, Renames, Keeps DEF ShiftCopy
  <2> QED BY <1>4, <2>1, <2>2 DEF ShiftCopy
<1>5. CASE MoveLive
  <2>1. 0 \in 0..MaxFiles - 1 /\ 0 + 1 = 1
    BY AuditLogAssumption
  <2>2. files' = Renamed(0, 0 + 1) \/ UNCHANGED files
    BY <1>5, <2>1 DEF MoveLive
  <2>3. Same \/ Moves(0)
    BY <2>1, <2>2, Renames, Keeps
  <2> QED BY <1>5, <2>1, <2>3 DEF MoveLive
<1>6. CASE Reopen \/ NewJSONLWriter
  BY <1>6, Opens, Keeps DEF Reopen, NewJSONLWriter
<1>7. CASE Kill
  BY <1>1, <1>7, Appends, Keeps DEF Kill
<1>8. CASE UNCHANGED vars
  BY <1>8, Keeps DEF vars
<1> QED
  BY <1>2, <1>3, <1>4, <1>5, <1>6, <1>7, <1>8
     DEF Next, Write, Rotate, Finished

LEMMA FileStep == ASSUME TypeOK, FileInv, [Next]_vars PROVE FileInv'
<1>1. 0 \in Slots /\ DOMAIN files = Slots
  BY AuditLogAssumption DEF Slots, TypeOK
<1>2. \A s : s \in Seq(Values) => s # None
  BY AuditLogAssumption DEF Values
<1>3. /\ last + 1 \in Values /\ Torn \in Values
      /\ files[0] # None => files[0] \in Seq(Values)
  BY <1>1 DEF TypeOK, Values
<1>4. ASSUME NEW e \in Values, files[0] # None,
             files' = [files EXCEPT ![0] = Append(@, e)]
      PROVE  files'[0] # None
  BY SMTT(60), Z3T(60), <1>1, <1>2, <1>3, <1>4
<1>5. ASSUME files' = Opened PROVE files'[0] # None
  BY <1>1, <1>2, <1>5 DEF Opened
<1>6. CASE Encode \/ StatFails \/ EncodeFails
  BY <1>3, <1>4, <1>6 DEF Encode, StatFails, EncodeFails, Acknowledge, FileInv
<1>7. CASE EncodeRefused \/ CloseOld
  BY <1>7 DEF EncodeRefused, CloseOld, Done, FileInv
<1>8. CASE ShiftCopy \/ MoveLive
  BY <1>8 DEF ShiftCopy, MoveLive, FileInv
<1>9. CASE Reopen \/ NewJSONLWriter
  BY <1>5, <1>9 DEF Reopen, Done, NewJSONLWriter, FileInv
<1>10. CASE Kill
  BY <1>3, <1>4, <1>10 DEF Kill, FileInv
<1>11. CASE UNCHANGED vars
  BY <1>11 DEF vars, FileInv
<1> QED
  BY <1>6, <1>7, <1>8, <1>9, <1>10, <1>11 DEF Next, Write, Rotate, Finished

-----------------------------------------------------------------------------
(* The order of the log *)

Numbered(l) == {i \in DOMAIN l : l[i] # Torn}

LEMMA EventsAre == \A s : Events(s) = Numbered(Lines(s))
                        /\ Events(s)' = Numbered(Lines(s)')
  BY DEF Events, Numbered

LEMMA AppendLines ==
    ASSUME NEW l \in Seq(Values), NEW e \in Values
    PROVE  /\ Len(l) \in Nat
           /\ Len(Append(l, e)) = Len(l) + 1
           /\ \A i \in Numbered(Append(l, e)) :
                \/ i \in Numbered(l) /\ i <= Len(l) /\ Append(l, e)[i] = l[i]
                \/ i = Len(l) + 1 /\ Append(l, e)[i] = e /\ e # Torn
           /\ \A i \in Numbered(l) :
                i \in Numbered(Append(l, e)) /\ Append(l, e)[i] = l[i]
           /\ e # Torn => /\ Len(l) + 1 \in Numbered(Append(l, e))
                          /\ Append(l, e)[Len(l) + 1] = e
<1>1. /\ Len(l) \in Nat /\ DOMAIN l = 1..Len(l)
      /\ Append(l, e) \in Seq(Values) /\ Len(Append(l, e)) = Len(l) + 1
      /\ DOMAIN Append(l, e) = 1..Len(l) + 1
      /\ \A i \in 1..Len(l) : Append(l, e)[i] = l[i]
      /\ Append(l, e)[Len(l) + 1] = e
  BY AppendProperties, LenProperties
<1> QED BY <1>1 DEF Numbered
LEMMA SlotsAre ==
    /\ 0 \in Slots /\ 1 \in Slots /\ MaxFiles \in Slots
    /\ \A k \in 0..MaxFiles - 1 : k \in Slots /\ k + 1 \in Slots
    /\ \A s \in Slots : s \in Nat
  BY AuditLogAssumption DEF Slots

\* Where a line of the log comes from.
LEMMA FromSame ==
    ASSUME Same, NEW s \in Slots
    PROVE  Events(s)' = Events(s) /\ Lines(s)' = Lines(s)
  BY EventsAre DEF Same

LEMMA FromAdds ==
    ASSUME TypeOK, NEW e \in Values, Adds(e), NEW s \in Slots
    PROVE  /\ s # 0 => Events(s)' = Events(s) /\ Lines(s)' = Lines(s)
           /\ \A i \in Events(s)' :
                \/ i \in Events(s) /\ Lines(s)'[i] = Lines(s)[i]
                \/ /\ s = 0 /\ Lines(s)'[i] = e /\ e # Torn
                   /\ i = Len(Lines(0)) + 1
           /\ \A i \in Events(s) :
                i \in Events(s)' /\ Lines(s)'[i] = Lines(s)[i]
           /\ s = 0 /\ e # Torn => \E i \in Events(s)' : Lines(s)'[i] = e
<1>1. CASE s # 0
  BY <1>1, EventsAre DEF Adds
<1>2. CASE s = 0
  <2> DEFINE l == Lines(0)
  <2>1. Lines(s)' = Append(l, e) /\ l \in Seq(Values)
    BY <1>2, LinesType DEF Adds
  <2>2. Events(s)' = Numbered(Append(l, e)) /\ Events(s) = Numbered(l)
    BY ZenonT(60), <1>2, <2>1, EventsAre
  <2>3. /\ \A i \in Events(s)' :
              \/ i \in Events(s) /\ Lines(s)'[i] = l[i]
              \/ i = Len(l) + 1 /\ Lines(s)'[i] = e /\ e # Torn
        /\ \A i \in Events(s) : i \in Events(s)' /\ Lines(s)'[i] = l[i]
        /\ e # Torn => /\ Len(l) + 1 \in Events(s)'
                       /\ Lines(s)'[Len(l) + 1] = e
    <3> HIDE DEF l
    <3>1. /\ \A i \in Numbered(Append(l, e)) :
                \/ i \in Numbered(l) /\ Append(l, e)[i] = l[i]
                \/ i = Len(l) + 1 /\ Append(l, e)[i] = e /\ e # Torn
          /\ \A i \in Numbered(l) :
                i \in Numbered(Append(l, e)) /\ Append(l, e)[i] = l[i]
          /\ e # Torn => /\ Len(l) + 1 \in Numbered(Append(l, e))
                         /\ Append(l, e)[Len(l) + 1] = e
      BY ZenonT(60), <2>1, AppendLines
    <3> QED BY ZenonT(60), <2>1, <2>2, <3>1
  <2> QED BY <1>2, <2>3
<1> QED BY <1>1, <1>2

LEMMA FromMoves ==
    ASSUME NEW k \in 0..MaxFiles - 1, Moves(k), NEW s \in Slots
    PROVE  /\ s = k => Events(s)' = {}
           /\ s = k + 1 => Events(s)' = Events(k) /\ Lines(s)' = Lines(k)
           /\ s \notin {k, k + 1} =>
                Events(s)' = Events(s) /\ Lines(s)' = Lines(s)
<1>1. CASE s = k
  BY <1>1, EventsAre DEF Moves, Numbered
<1>2. CASE s = k + 1
  BY <1>2, EventsAre DEF Moves
<1>3. CASE s \notin {k, k + 1}
  BY <1>3, EventsAre DEF Moves
<1> QED BY <1>1, <1>2, <1>3, SlotsAre

\* The three things a step can do.
LEMMA StepCases ==
    ASSUME TypeOK, FileInv, [Next]_vars
    PROVE  /\ last \in Nat /\ last' \in Nat /\ last <= last'
           /\ \/ Same
              \/ \E e \in Values : /\ Adds(e)
                                   /\ last' = last + 1 /\ e \in {last', Torn}
              \/ last' = last /\ \E k \in 0..MaxFiles - 1 : Moves(k)
<1>1. /\ last \in Nat /\ shift \in 0..MaxFiles - 1 /\ 0 \in 0..MaxFiles - 1
      /\ last + 1 \in Values /\ Torn \in Values
  BY AuditLogAssumption DEF TypeOK, Values
<1> QED BY <1>1, LineSteps

LEMMA KnownStep ==
    ASSUME TypeOK, FileInv, KnownInv, [Next]_vars PROVE KnownInv'
<1> SUFFICES ASSUME NEW s \in Slots, NEW i \in Events(s)'
    PROVE  Lines(s)'[i] \in 1..last'
  BY DEF KnownInv
<1>1. last \in Nat /\ last' \in Nat /\ last <= last'
  BY StepCases
<1>2. \A t \in Slots : \A n \in Events(t) : Lines(t)[n] \in 1..last'
  BY <1>1 DEF KnownInv
<1>3. CASE Same
  BY <1>2, <1>3, FromSame
<1>4. ASSUME NEW e \in Values, Adds(e), last' = last + 1, e \in {last', Torn}
      PROVE  Lines(s)'[i] \in 1..last'
  BY <1>1, <1>2, <1>4, FromAdds
<1>5. ASSUME NEW k \in 0..MaxFiles - 1, Moves(k)
      PROVE  Lines(s)'[i] \in 1..last'
  BY <1>2, <1>5, FromMoves, SlotsAre
<1> QED BY <1>3, <1>4, <1>5, StepCases

LEMMA OrderStep ==
    ASSUME TypeOK, FileInv, KnownInv, InOrder, [Next]_vars PROVE InOrder'
<1> SUFFICES ASSUME NEW s \in Slots, NEW t \in Slots,
                    NEW i \in Events(s)', NEW j \in Events(t)'
    PROVE  /\ s = t /\ i < j => Lines(s)'[i] < Lines(s)'[j]
           /\ s < t => Lines(t)'[j] < Lines(s)'[i]
  BY DEF InOrder
<1>1. last \in Nat /\ s \in Nat /\ t \in Nat
  BY SlotsAre DEF TypeOK
<1>2. CASE Same
  BY <1>2, FromSame DEF InOrder
<1>3. ASSUME NEW e \in Values, Adds(e), last' = last + 1, e \in {last', Torn}
      PROVE  /\ s = t /\ i < j => Lines(s)'[i] < Lines(s)'[j]
             /\ s < t => Lines(t)'[j] < Lines(s)'[i]
  <2>1. \A u \in Slots : \A n \in Events(u) :
            /\ n \in Nat /\ n <= Len(Lines(u)) /\ Len(Lines(u)) \in Nat
            /\ Lines(u)[n] \in Nat /\ Lines(u)[n] < last + 1
    <3> SUFFICES ASSUME NEW u \in Slots, NEW n \in Events(u)
        PROVE  /\ n \in Nat /\ n <= Len(Lines(u)) /\ Len(Lines(u)) \in Nat
               /\ Lines(u)[n] \in Nat /\ Lines(u)[n] < last + 1
      OBVIOUS
    <3>1. Lines(u) \in Seq(Values) /\ n \in Numbered(Lines(u))
      BY LinesType, EventsAre
    <3>2. Lines(u)[n] \in 1..last
      BY DEF KnownInv
    <3> QED BY <1>1, <3>1, <3>2, LenProperties DEF Numbered
  <2>2. \/ i \in Events(s) /\ Lines(s)'[i] = Lines(s)[i]
        \/ s = 0 /\ Lines(s)'[i] = last + 1 /\ i = Len(Lines(0)) + 1
    BY <1>3, FromAdds
  <2>3. \/ j \in Events(t) /\ Lines(t)'[j] = Lines(t)[j]
        \/ t = 0 /\ Lines(t)'[j] = last + 1 /\ j = Len(Lines(0)) + 1
    BY <1>3, FromAdds
  <2>4. ASSUME s = t, i < j PROVE Lines(s)'[i] < Lines(s)'[j]
    BY <2>1, <2>2, <2>3, <2>4 DEF InOrder
  <2>5. ASSUME s < t PROVE Lines(t)'[j] < Lines(s)'[i]
    BY <1>1, <2>1, <2>2, <2>3, <2>5 DEF InOrder
  <2> QED BY <2>4, <2>5
<1>4. ASSUME NEW k \in 0..MaxFiles - 1, Moves(k)
      PROVE  /\ s = t /\ i < j => Lines(s)'[i] < Lines(s)'[j]
             /\ s < t => Lines(t)'[j] < Lines(s)'[i]
  <2> DEFINE From(u) == IF u = k + 1 THEN k ELSE u
  <2>1. /\ From(s) \in Slots /\ i \in Events(From(s))
        /\ Lines(s)' = Lines(From(s)) /\ s # k
    BY <1>4, FromMoves, SlotsAre
  <2>2. /\ From(t) \in Slots /\ j \in Events(From(t))
        /\ Lines(t)' = Lines(From(t)) /\ t # k
    BY <1>4, FromMoves, SlotsAre
  <2>3. s < t => From(s) < From(t)
    BY <1>1, <2>1, <2>2
  <2> HIDE DEF From
  <2>4. s = t => From(s) = From(t)
    OBVIOUS
  <2> QED BY <2>1, <2>2, <2>3, <2>4 DEF InOrder
<1> QED BY <1>2, <1>3, <1>4, StepCases
-----------------------------------------------------------------------------
(* The events of the log *)

LEMMA DiskIs ==
    \A e : /\ e \in OnDisk <=> \E s \in Slots : Has(s, e)
           /\ e \in OnDisk' <=> \E s \in Slots : Has(s, e)'
  BY DEF OnDisk, Has

LEMMA HasSame ==
    ASSUME Same, NEW s \in Slots, NEW e
    PROVE  Has(s, e)' <=> Has(s, e)
  BY FromSame DEF Has

LEMMA HasAdds ==
    ASSUME TypeOK, NEW x \in Values, Adds(x), NEW s \in Slots, NEW e
    PROVE  Has(s, e)' <=> Has(s, e) \/ (s = 0 /\ e = x /\ x # Torn)
  BY FromAdds DEF Has

LEMMA HasMoves ==
    ASSUME NEW k \in 0..MaxFiles - 1, Moves(k), NEW s \in Slots, NEW e
    PROVE  /\ s = k => ~Has(s, e)'
           /\ s = k + 1 => (Has(s, e)' <=> Has(k, e))
           /\ s \notin {k, k + 1} => (Has(s, e)' <=> Has(s, e))
  BY FromMoves DEF Has

\* Only a write, or a rotation that ends, acknowledges an event.
LEMMA AckSteps ==
    ASSUME TypeOK, [Next]_vars
    PROVE  \/ acked' = acked
           \/ acked' = acked \cup {last'} /\ (Encode \/ StatFails)
           \/ /\ acked' = acked \cup {last} /\ last' = last
              /\ pc # "idle" /\ Same
<1>1. CASE Encode \/ StatFails
  BY <1>1 DEF Encode, StatFails, Acknowledge
<1>2. CASE CloseOld \/ Reopen
  BY <1>2, Keeps, Opens DEF CloseOld, Reopen, Done
<1>3. CASE EncodeFails \/ EncodeRefused \/ ShiftCopy \/ MoveLive \/ Kill
           \/ NewJSONLWriter
  BY <1>3 DEF EncodeFails, EncodeRefused, ShiftCopy, MoveLive, Kill,
     NewJSONLWriter
<1>4. CASE UNCHANGED vars
  BY <1>4 DEF vars
<1> QED BY <1>1, <1>2, <1>3, <1>4 DEF Next, Write, Rotate, Finished

LEMMA WriteAdds ==
    ASSUME TypeOK, FileInv, Encode \/ StatFails
    PROVE  last' = last + 1 /\ last' \in Values /\ last' # Torn /\ Adds(last')
<1>1. last' = last + 1 /\ last' \in Values /\ last' # Torn
  BY AuditLogAssumption DEF Encode, StatFails, TypeOK, Values
<1> QED BY <1>1, Appends DEF Encode, StatFails, FileInv

LEMMA LiveStep ==
    ASSUME TypeOK, FileInv, LiveInv, [Next]_vars PROVE LiveInv'
<1> SUFFICES ASSUME pc' # "idle"
    PROVE  /\ pc' \in {"close", "shift"} => \A e : e = last' => Has(0, e)'
           /\ pc' = "open" => \A e : e = last' => \E s \in Slots : Has(s, e)'
  BY DEF LiveInv, Has
<1>1. CASE Encode \/ StatFails
  <2>1. \A e : e = last' => Has(0, e)'
    BY <1>1, WriteAdds, HasAdds, SlotsAre
  <2> QED BY <2>1, SlotsAre
<1>2. CASE Same /\ last' = last /\ (pc' = pc \/ (pc = "close" /\ pc' = "shift"))
  BY <1>2, HasSame, SlotsAre DEF LiveInv
<1>3. CASE ShiftCopy
  <2>1. pc = "shift" /\ pc' = "shift" /\ last' = last /\ shift > 0
    BY <1>3 DEF ShiftCopy, TypeOK
  <2>2. Has(0, last)
    BY <2>1 DEF LiveInv
  <2>3. PICK k \in 0..MaxFiles - 1 : k = shift
    BY DEF TypeOK
  <2>4. 0 \notin {k, k + 1}
    BY <2>1, <2>3
  <2>5. Same \/ Moves(k)
    BY <1>3, <2>3, Renames, Keeps DEF ShiftCopy
  <2> QED BY ZenonT(60), <2>1, <2>2, <2>4, <2>5, HasSame, HasMoves,
             SlotsAre
<1>4. CASE MoveLive
  <2>1. pc = "shift" /\ pc' = "open" /\ last' = last
    BY <1>4 DEF MoveLive
  <2>2. Has(0, last)
    BY <2>1 DEF LiveInv
  <2>3. 0 \in 0..MaxFiles - 1 /\ 0 + 1 = 1
    BY AuditLogAssumption
  <2>4. files' = Renamed(0, 0 + 1) \/ UNCHANGED files
    BY <1>4, <2>3 DEF MoveLive
  <2>5. Same \/ Moves(0)
    BY <2>3, <2>4, Renames, Keeps
  <2> QED BY <2>1, <2>2, <2>3, <2>5, HasSame, HasMoves, SlotsAre
<1>5. CASE Kill
  <2>1. pc' = pc /\ Same /\ last' = last
    BY <1>5, Keeps DEF Kill
  <2> QED BY <1>2, <2>1
<1>6. CASE EncodeFails \/ EncodeRefused \/ Reopen \/ NewJSONLWriter
  BY <1>6 DEF EncodeFails, EncodeRefused, Reopen, Done, NewJSONLWriter
<1>7. CASE CloseOld
  BY <1>2, <1>7, Keeps DEF CloseOld, Done
<1>8. CASE UNCHANGED vars
  BY <1>2, <1>8, Keeps DEF vars
<1> QED
  BY ZenonT(60), <1>1, <1>3, <1>4, <1>5, <1>6, <1>7, <1>8
     DEF Next, Write, Rotate, Finished

\* What Write acknowledges is in the log.
LEMMA AckStep ==
    ASSUME TypeOK, FileInv, LiveInv, [Next]_vars, NEW e \in acked' \ acked
    PROVE  e = last' /\ e \in OnDisk'
<1>1. CASE Encode \/ StatFails
  <2>1. e = last'
    BY <1>1, AckSteps, WriteAdds
  <2> QED BY <1>1, <2>1, WriteAdds, HasAdds, SlotsAre, DiskIs
<1>2. CASE /\ acked' = acked \cup {last} /\ last' = last
           /\ pc # "idle" /\ Same
  <2>1. e = last' /\ e = last
    BY <1>2
  <2>2. \E s \in Slots : Has(s, e)
    BY <1>2, <2>1, SlotsAre DEF LiveInv, TypeOK
  <2> QED BY <1>2, <2>1, <2>2, HasSame, DiskIs
<1> QED BY <1>1, <1>2, AckSteps
-----------------------------------------------------------------------------
(* What rotation drops *)

LEMMA HoleStep ==
    ASSUME TypeOK, FileInv, HoleInv, [Next]_vars PROVE HoleInv'
<1> SUFFICES ASSUME "rename" \notin Range(bad'), pc' = "shift",
                    shift' < MaxFiles - 1
    PROVE  Lines(shift + 1)' = <<>>
  BY DEF HoleInv
<1>0. PICK k \in Slots : k = shift' + 1 /\ k < MaxFiles
  BY TypeStep, AuditLogAssumption DEF TypeOK, Slots
<1> SUFFICES Lines(k)' = <<>>
  BY <1>0 DEF Lines
<1>1. ASSUME NEW op \in Ops, Goes(op)
      PROVE  op # "rename" /\ "rename" \notin Range(bad)
  BY <1>1, BadSteps
<1>2. CASE /\ Same /\ (bad' = bad \/ \E op \in Ops : Goes(op))
           /\ pc' = pc /\ shift' = shift
  <2>1. "rename" \notin Range(bad)
    BY <1>1, <1>2
  <2>2. Lines(k) = <<>>
    BY <1>0, <1>2, <2>1 DEF HoleInv, TypeOK
  <2> QED BY <1>2, <2>2 DEF Same
<1>3. CASE ShiftCopy
  <2>1. /\ k \in 0..MaxFiles - 1 /\ k = shift
        /\ files' = Renamed(k, k + 1)
    BY <1>0, <1>1, <1>3 DEF ShiftCopy, Breaks, TypeOK, Ops
  <2> QED BY <2>1, Renames DEF Moves, Same
<1>4. CASE CloseOld
  BY <1>0, <1>4, AuditLogAssumption DEF CloseOld, Done
<1>5. CASE Kill
  BY ZenonT(60), <1>2, <1>5, Keeps DEF Kill, Ops
<1>6. CASE Write \/ MoveLive \/ Reopen \/ NewJSONLWriter
  BY <1>6 DEF Write, Encode, StatFails, EncodeFails, EncodeRefused,
     Acknowledge, MoveLive, Reopen, Done, NewJSONLWriter
<1>7. CASE UNCHANGED vars
  BY <1>2, <1>7, Keeps DEF vars
<1> QED
  BY <1>3, <1>4, <1>5, <1>6, <1>7 DEF Next, Rotate, Finished

\* A rename drops nothing, or the oldest file.
LEMMA Drops ==
    ASSUME TypeOK, FileInv, InOrder, HoleInv, [Next]_vars,
           "rename" \notin Range(bad),
           NEW e, e \in OnDisk, e \notin OnDisk', NEW f, f \in OnDisk'
    PROVE  e < f \/ f \notin OnDisk
<1>1. PICK s \in Slots : Has(s, e)
  BY DiskIs
<1>2. PICK t \in Slots : Has(t, f)'
  BY DiskIs
<1>3. \A u \in Slots : ~Has(u, e)'
  BY DiskIs
<1>4. ~Same /\ \A x \in Values : ~Adds(x)
  BY <1>1, <1>3, HasSame, HasAdds
<1>5. PICK k \in 0..MaxFiles - 1 : pc = "shift" /\ k = shift /\ Moves(k)
  <2>1. last + 1 \in Values /\ Torn \in Values
    BY DEF TypeOK, Values
  <2>2. ~(last' = last + 1 /\ (Adds(last') \/ Adds(Torn)))
    BY <1>4, <2>1
  <2> QED BY <1>4, <2>2, LineSteps
<1>6. s = k + 1
  <2>1. s # k
    BY <1>1, <1>3, <1>5, HasMoves, SlotsAre
  <2> QED BY <1>1, <1>3, <1>5, <2>1, HasMoves
<1>7. s = MaxFiles
  <2>1. Lines(s) # <<>>
    BY <1>1 DEF Has, Events
  <2>2. ~(shift < MaxFiles - 1)
    BY <1>5, <1>6, <2>1 DEF HoleInv
  <2> QED BY <1>5, <1>6, <2>2, AuditLogAssumption
<1>8. PICK u \in Slots : u < s /\ Has(u, f)
  <2>1. t # k
    BY <1>2, <1>5, HasMoves
  <2>2. CASE t = s
    BY <1>2, <1>5, <1>6, <2>2, HasMoves, SlotsAre
  <2>3. CASE t # s
    BY <1>2, <1>5, <1>6, <1>7, <2>1, <2>3, HasMoves, AuditLogAssumption
       DEF Slots
  <2> QED BY <2>2, <2>3
<1> QED BY <1>1, <1>8 DEF InOrder, Has
LEMMA BadGrows ==
    ASSUME TypeOK, [Next]_vars
    PROVE  \/ bad' = bad
           \/ bad' # <<>> /\ Range(bad) \subseteq Range(bad')
<1>1. bad' = bad \/ \E op \in Ops : Goes(op)
  BY DEF Next, Write, Rotate, Encode, StatFails, EncodeFails, EncodeRefused,
     CloseOld, ShiftCopy, MoveLive, Reopen, Kill, NewJSONLWriter, Finished,
     vars, Breaks, Ops
<1> QED BY ZenonT(60), <1>1, BadSteps

LEMMA DiskGrows ==
    ASSUME TypeOK, FileInv, [Next]_vars, NEW f, f \in OnDisk', f \notin OnDisk
    PROVE  f = last + 1
<1>1. PICK s \in Slots : Has(s, f)'
  BY DiskIs
<1>2. \A t \in Slots : ~Has(t, f)
  BY DiskIs
<1>3. ~Same
  BY <1>1, <1>2, HasSame
<1>4. ASSUME NEW k \in 0..MaxFiles - 1, Moves(k) PROVE FALSE
  BY <1>1, <1>2, <1>4, HasMoves, SlotsAre
<1>5. PICK e \in Values : Adds(e) /\ last' = last + 1 /\ e \in {last', Torn}
  BY <1>3, <1>4, StepCases
<1> QED BY <1>1, <1>2, <1>5, HasAdds

LEMMA KeptStep ==
    ASSUME TypeOK, FileInv, KnownInv, LiveInv, InOrder, HoleInv, KeptInv,
           [Next]_vars
    PROVE  KeptInv'
<1> SUFFICES ASSUME "rename" \notin Range(bad'), NEW e, e \in acked',
                    NEW f, f \in OnDisk', f < e, e \notin OnDisk'
    PROVE  FALSE
  BY DEF KeptInv
<1>1. "rename" \notin Range(bad)
  BY BadGrows
<1>2. e \in acked
  BY AckStep
<1>3. e \in Nat /\ e <= last /\ last \in Nat
  BY <1>2 DEF TypeOK
<1>4. f \in OnDisk
  <2>1. f # last + 1
    BY <1>3
  <2> QED BY <2>1, DiskGrows
<1>5. e \in OnDisk
  BY <1>1, <1>2, <1>4 DEF KeptInv
<1>6. e < f
  BY <1>1, <1>4, <1>5, Drops
<1>7. f \in Nat
  BY <1>4, DiskIs DEF KnownInv, Has
<1> QED BY <1>3, <1>6, <1>7

-----------------------------------------------------------------------------
(* What rotation keeps *)

LEMMA SpanIs ==
    /\ Span(0) = 0
    /\ \A k \in Int : Span(k) \in Int /\ Span(k) = Span(k - 1) + MaxSize + 1
<1>1. MaxSize \in Int
  BY AuditLogAssumption
<1> SUFFICES ASSUME NEW k \in Int
    PROVE  /\ 0 * (MaxSize + 1) = 0 /\ k * (MaxSize + 1) \in Int
           /\ k * (MaxSize + 1) = (k - 1) * (MaxSize + 1) + MaxSize + 1
  BY DEF Span
<1> QED BY <1>1

Reached(k, e) == \E s \in 0..k : Has(s, e)

LEMMA CoverIs ==
    /\ Cover <=> \A k \in Slots : \A e \in 1..last :
                   e > Base - Reach(k) => Reached(k, e)
    /\ Cover' <=> \A k \in Slots : \A e \in 1..last' :
                    e > Base' - Reach(k)' => Reached(k, e)'
  BY DEF Cover, Reached

LEMMA ReachedSame ==
    ASSUME Same, NEW k \in Slots, NEW e, Reached(k, e)
    PROVE  Reached(k, e)'
<1>1. \A s \in 0..k : s \in Slots
  BY AuditLogAssumption DEF Slots
<1> QED BY <1>1, HasSame DEF Reached

\* A rename keeps what the slots reach, if it drops nothing but the oldest.
LEMMA CoverMoves ==
    ASSUME TypeOK, HoleInv, bad = <<>>, pc = "shift", Cover,
           NEW j \in 0..MaxFiles - 1, j = shift, Moves(j),
           Len(Lines(0)) = MaxSize + 1, Base' = Base, last' = last,
           \A k \in Slots : Reach(k)' = IF k >= j THEN Span(k - 1) ELSE Span(k)
    PROVE  Cover'
<1> SUFFICES ASSUME NEW k \in Slots, NEW e \in 1..last,
                    e > Base - Reach(k)'
    PROVE  Reached(k, e)'
  BY CoverIs
<1>1. k \in Nat /\ k <= MaxFiles /\ MaxFiles \in Nat /\ last \in Nat
  BY AuditLogAssumption DEF Slots, TypeOK
<1>2. Base \in Int /\ Base = last - (MaxSize + 1)
  BY <1>1, AuditLogAssumption DEF Base
<1>3. \A m \in Slots : Reach(m) = IF m > j THEN Span(m - 1) ELSE Span(m)
  BY DEF Reach
<1>4. ASSUME NEW m \in Slots, e > Base - Reach(m) PROVE Reached(m, e)
  BY <1>4, CoverIs
<1>5. ASSUME NEW s \in Slots, Has(s, e), s < j PROVE Has(s, e)'
  <2>1. s \notin {j, j + 1}
    BY SMTT(60), Z3T(60), <1>5, SlotsAre
  <2> QED BY <1>5, <2>1, HasMoves
<1>6. ASSUME Has(j, e) PROVE Has(j + 1, e)'
  BY <1>6, HasMoves, SlotsAre
<1>7. ASSUME NEW s \in Slots, Has(s, e), s > j + 1 PROVE Has(s, e)'
  <2>1. s \notin {j, j + 1}
    BY SMTT(60), Z3T(60), <1>7, SlotsAre
  <2> QED BY <1>7, <2>1, HasMoves
<1>8. CASE k < j
  <2>1. Reached(k, e)
    BY <1>1, <1>3, <1>4, <1>8
  <2> QED BY <1>1, <1>5, <1>8, <2>1 DEF Reached, Slots
<1>9. CASE k = j
  <2>1. j # 0
    <3>1. Span(0) = Span(0 - 1) + MaxSize + 1 /\ Span(0) = 0
          /\ Span(0 - 1) \in Int
      BY SpanIs
    <3> QED BY <1>1, <1>2, <1>9, <3>1, AuditLogAssumption
  <2>2. j - 1 \in Slots /\ Reach(j - 1) = Reach(k)'
    BY <1>1, <1>3, <1>9, <2>1 DEF Slots
  <2>3. Reached(j - 1, e)
    BY <1>4, <2>2
  <2> QED BY <1>1, <1>5, <1>9, <2>3 DEF Reached, Slots
<1>10. CASE k = j + 1
  <2>1. Reach(j) = Reach(k)'
    BY <1>1, <1>3, <1>10, SlotsAre
  <2>2. Reached(j, e)
    BY <1>4, <2>1, SlotsAre
  <2> QED BY <1>1, <1>5, <1>6, <1>10, <2>2 DEF Reached, Slots
<1>11. CASE k > j + 1
  <2>1. Reach(k)' = Reach(k)
    BY <1>1, <1>3, <1>11
  <2>2. Reached(k, e)
    BY <1>4, <2>1
  <2>3. ~Has(j + 1, e)
    <3>1. Range(bad) = {}
      BY DEF Range
    <3>2. shift < MaxFiles - 1
      BY <1>1, <1>11
    <3>3. Lines(j + 1) = <<>>
      BY <3>1, <3>2 DEF HoleInv
    <3> QED BY <3>3 DEF Has, Events
  <2> QED BY <1>1, <1>5, <1>6, <1>7, <1>11, <2>2, <2>3 DEF Reached, Slots
<1> QED BY <1>1, <1>8, <1>9, <1>10, <1>11
\* Nothing has gone wrong yet: what the step is.
LEMMA CleanSteps ==
    ASSUME TypeOK, CleanInv, [Next]_vars, bad' = <<>>
    PROVE  /\ bad = <<>> /\ up /\ enc = "ok"
           /\ \A op \in Ops : ~Goes(op)
           /\ \/ Encode \/ CloseOld \/ ShiftCopy \/ MoveLive \/ Reopen
              \/ UNCHANGED vars
<1>1. bad = <<>> /\ \A op \in Ops : ~Goes(op)
  BY BadGrows, BadSteps
<1>2. up /\ enc = "ok" /\ (pc \in {"idle", "close"} => file = "open")
  BY <1>1 DEF CleanInv
<1>3. ~StatFails /\ ~EncodeFails /\ ~Kill
  BY <1>1 DEF StatFails, EncodeFails, Kill, Breaks, Ops
<1>4. ~EncodeRefused /\ ~NewJSONLWriter
  BY ZenonT(60), <1>2 DEF EncodeRefused, NewJSONLWriter
<1> QED BY <1>1, <1>2, <1>3, <1>4 DEF Next, Write, Rotate, Finished

LEMMA CleanStep ==
    ASSUME TypeOK, FileInv, HoleInv, LiveInv, CleanInv, [Next]_vars
    PROVE  CleanInv'
<1> DEFINE n == Len(Lines(0))
           CleanP ==
             /\ up' /\ enc' = "ok" /\ (pc' \in {"idle", "close"} => file' = "open")
             /\ pc' = "idle" => Len(Lines(0)') <= MaxSize
             /\ pc' \in {"close", "shift"} => Len(Lines(0)') = MaxSize + 1
             /\ pc' = "open" => Lines(0)' = <<>>
             /\ Cover'
<1> SUFFICES ASSUME bad' = <<>> PROVE CleanP
  BY DEF CleanInv
<1>1. /\ bad = <<>> /\ up /\ enc = "ok"
      /\ (pc \in {"idle", "close"} => file = "open")
      /\ pc = "idle" => n <= MaxSize
      /\ pc \in {"close", "shift"} => n = MaxSize + 1
      /\ pc = "open" => Lines(0) = <<>>
      /\ Cover
  BY CleanSteps DEF CleanInv
<1>2. /\ n \in Nat /\ Lines(0) \in Seq(Values) /\ last \in Nat
      /\ MaxSize \in Nat /\ MaxFiles \in Nat \ {0}
      /\ shift \in 0..MaxFiles - 1
  BY LinesType, SlotsAre, LenProperties, AuditLogAssumption DEF TypeOK
<1>3. \A op \in Ops : ~Goes(op)
  BY CleanSteps
<1>4. \A k \in Slots : k \in Int /\ k - 1 \in Int /\ k <= MaxFiles
  BY <1>2 DEF Slots
<1>5. ASSUME NEW k \in Slots
      PROVE  /\ Span(k) \in Int /\ Span(k - 1) \in Int
             /\ Span(k) = Span(k - 1) + MaxSize + 1 /\ Span(k - 1) <= Span(k)
  <2>1. /\ Span(k) \in Int /\ Span(k - 1) \in Int
        /\ Span(k) = Span(k - 1) + MaxSize + 1
    BY <1>4, SpanIs
  <2> QED BY <1>2, <2>1
<1>6. CASE Encode
  <2>1. /\ pc = "idle" /\ last' = last + 1 /\ file = "open" /\ file' = file
        /\ up' = up /\ enc' = enc /\ pc' \in {"idle", "close"}
        /\ files' = [files EXCEPT ![0] = Append(@, last')]
        /\ pc' = "close" <=> Len(files'[0]) > MaxSize
    BY <1>6 DEF Encode, Acknowledge
  <2>2. /\ Adds(last') /\ last' \in Values /\ last' # Torn
    BY <1>6, WriteAdds
  <2>3. Lines(0)' = Append(Lines(0), last') /\ Len(Lines(0)') = n + 1
    BY <1>2, <2>2, AppendProperties DEF Adds
  <2>4. Lines(0)' = files'[0]
    <3>1. files'[0] # None
      BY <2>1, FileStep DEF FileInv
    <3> QED BY <3>1 DEF Lines
  <2>5. Base' = Base /\ Base \in Int
    <3>1. Base' = last' - Len(Lines(0)') /\ Base = last - n
      BY <2>1 DEF Base
    <3>2. Len(Lines(0)') = n + 1
      BY <2>3
    <3> HIDE DEF n
    <3> QED BY <1>2, <2>1, <3>1, <3>2
  <2>6. \A k \in Slots : Reach(k)' = Reach(k)
    BY <2>1 DEF Reach
  <2>7. Cover'
    <3> SUFFICES ASSUME NEW k \in Slots, NEW e \in 1..last',
                        e > Base' - Reach(k)'
        PROVE  Reached(k, e)'
      BY CoverIs
    <3>1. 0 \in 0..k /\ \A s \in 0..k : s \in Slots
      BY <1>2 DEF Slots
    <3>2. CASE e = last + 1
      <4>1. Has(0, e)'
        BY <2>1, <2>2, <3>1, <3>2, HasAdds
      <4> QED BY <3>1, <4>1 DEF Reached
    <3>3. CASE e \in 1..last
      <4>1. Reached(k, e)
        BY <1>1, <2>5, <2>6, <3>3, CoverIs
      <4>2. PICK s \in 0..k : Has(s, e)
        BY <4>1 DEF Reached
      <4>3. Has(s, e)'
        BY <2>2, <3>1, <4>2, HasAdds
      <4> QED BY <4>3 DEF Reached
    <3> QED BY <1>2, <2>1, <3>2, <3>3
  <2> QED BY SMTT(60), Z3T(60), <1>1, <1>2, <2>1, <2>3, <2>4, <2>7
<1>7. CASE CloseOld
  <2>1. /\ pc = "close" /\ pc' = "shift" /\ shift' = MaxFiles - 1
        /\ last' = last /\ up' = up /\ enc' = enc /\ Same
    BY <1>3, <1>7, Keeps DEF CloseOld, Breaks, Ops
  <2>2. Lines(0)' = Lines(0) /\ Base' = Base /\ Base \in Int
    BY <1>2, <2>1, SlotsAre DEF Base, Same
  <2>3. ASSUME NEW k \in Slots
        PROVE  Reach(k) \in Int /\ Reach(k)' \in Int /\ Reach(k)' <= Reach(k)
    <3>1. Reach(k) = Span(k) /\ Reach(k)' \in {Span(k), Span(k - 1)}
      BY <2>1 DEF Reach
    <3> QED BY <1>5, <3>1
  <2>4. Cover'
    <3> SUFFICES ASSUME NEW k \in Slots, NEW e \in 1..last',
                        e > Base' - Reach(k)'
        PROVE  Reached(k, e)'
      BY CoverIs
    <3>1. e > Base - Reach(k)
      BY <2>2, <2>3
    <3> QED BY <1>1, <2>1, <3>1, CoverIs, ReachedSame
  <2> QED BY <1>1, <2>1, <2>2, <2>4
<1>8. ASSUME pc = "shift", files' = Renamed(shift, shift + 1),
             last' = last, up' = up, enc' = enc,
             \/ shift > 0 /\ pc' = "shift" /\ shift' = shift - 1
             \/ shift = 0 /\ pc' = "open"
      PROVE  CleanP
  <2>1. PICK j \in 0..MaxFiles - 1 : j = shift
    BY <1>2
  <2>2. (Lines(j) = <<>> /\ Same) \/ Moves(j)
    BY <1>8, <2>1, Renames
  <2>3. j = 0 => Moves(j)
    BY <1>1, <1>2, <1>8, <2>2
  <2>4. /\ j > 0 => Lines(0)' = Lines(0)
        /\ j = 0 => Lines(0)' = <<>>
    BY <2>2, <2>3, SlotsAre DEF Same, Moves
  <2>5. Base' = Base /\ Base \in Int
    BY <1>1, <1>2, <1>8, <2>1, <2>4 DEF Base
  <2>6. \A k \in Slots :
          /\ Reach(k)' = IF k >= j THEN Span(k - 1) ELSE Span(k)
          /\ Reach(k) = IF k > j THEN Span(k - 1) ELSE Span(k)
    <3> SUFFICES ASSUME NEW k \in Slots
        PROVE  /\ Reach(k)' = IF k >= j THEN Span(k - 1) ELSE Span(k)
               /\ Reach(k) = IF k > j THEN Span(k - 1) ELSE Span(k)
      OBVIOUS
    <3>1. k \in Nat
      BY SlotsAre
    <3>2. Reach(k) = IF k > j THEN Span(k - 1) ELSE Span(k)
      BY <1>8, <2>1 DEF Reach
    <3>3. CASE j > 0
      BY <1>8, <2>1, <3>1, <3>2, <3>3 DEF Reach
    <3>4. CASE j = 0
      BY <1>8, <2>1, <3>1, <3>2, <3>4 DEF Reach
    <3> QED BY <3>3, <3>4
  <2>7. Cover'
    <3>1. CASE Moves(j)
      BY ZenonT(60), <1>1, <1>8, <2>1, <2>5, <2>6, <3>1, CoverMoves
    <3>2. CASE Same
      <4> SUFFICES ASSUME NEW k \in Slots, NEW e \in 1..last',
                          e > Base' - Reach(k)'
          PROVE  Reached(k, e)'
        BY CoverIs
      <4>1. Reach(k) \in Int /\ Reach(k)' \in Int /\ Reach(k)' <= Reach(k)
        <5>1. /\ Reach(k) = IF k > j THEN Span(k - 1) ELSE Span(k)
              /\ Reach(k)' = IF k >= j THEN Span(k - 1) ELSE Span(k)
          BY <2>6
        <5>2. k \in Nat
          BY SlotsAre
        <5> QED BY <1>5, <5>1, <5>2
      <4>2. e > Base - Reach(k)
        BY <2>5, <4>1
      <4> QED BY ZenonT(60), <1>1, <1>8, <3>2, <4>2, CoverIs,
                 ReachedSame
    <3> QED BY ZenonT(60), <2>2, <3>1, <3>2
  <2> QED BY <1>1, <1>8, <2>1, <2>4, <2>7
<1>9. CASE ShiftCopy
  BY SMTT(60), Z3T(60), <1>2, <1>3, <1>8, <1>9 DEF ShiftCopy, Breaks, Ops
<1>10. CASE MoveLive
  <2>1. files' = Renamed(shift, shift + 1)
    BY <1>3, <1>10 DEF MoveLive, Breaks, Ops
  <2> QED BY <1>8, <1>10, <2>1 DEF MoveLive
<1>11. CASE Reopen
  <2>1. /\ pc = "open" /\ pc' = "idle" /\ files' = Opened /\ file' = "open"
        /\ enc' = "ok" /\ up' = up /\ last' = last
    BY <1>3, <1>11 DEF Reopen, Done, Breaks, Ops
  <2>2. Same /\ Lines(0)' = <<>>
    BY <1>1, <2>1, Opens, SlotsAre DEF Same
  <2>3. Base' = last /\ Base = last - (MaxSize + 1)
    BY <1>2, <2>1, <2>2 DEF Base
  <2>4. Cover'
    <3> SUFFICES ASSUME NEW k \in Slots, NEW e \in 1..last',
                        e > Base' - Reach(k)'
        PROVE  Reached(k, e)'
      BY CoverIs
    <3>1. Reach(k)' = Span(k) /\ Reach(k) = Span(k - 1)
      BY <2>1 DEF Reach
    <3>2. e > Base - Reach(k)
      BY SMTT(60), Z3T(60), <1>2, <1>5, <2>1, <2>3, <3>1
    <3> QED BY <1>1, <2>1, <2>2, <3>2, CoverIs, ReachedSame
  <2> QED BY <1>1, <1>2, <2>1, <2>2, <2>4
<1>12. CASE UNCHANGED vars
  <2>1. Cover' /\ Lines(0)' = Lines(0)
    BY <1>1, <1>12 DEF vars, Cover, Base, Reach, Has, Events, Lines
  <2> QED BY ZenonT(60), <1>1, <1>12, <2>1 DEF vars
<1> QED BY <1>6, <1>7, <1>9, <1>10, <1>11, <1>12, CleanSteps
-----------------------------------------------------------------------------
(* The theorems *)

IInv ==
    /\ TypeOK /\ FileInv /\ KnownInv /\ LiveInv /\ InOrder
    /\ HoleInv /\ KeptInv /\ CleanInv

LEMMA InitInv == Init => IInv
<1> SUFFICES ASSUME Init PROVE IInv
  OBVIOUS
<1>1. /\ files = [s \in Slots |-> IF s = 0 THEN <<>> ELSE None]
      /\ up = TRUE /\ file = "open" /\ enc = "ok" /\ pc = "idle" /\ shift = 0
      /\ last = 0 /\ acked = {} /\ bad = <<>>
  BY DEF Init
<1>2. <<>> \in Seq(Values) /\ <<>> # None
  <2>1. <<>> \in Seq(Values)
    OBVIOUS
  <2> QED BY ZenonT(60), <2>1, AuditLogAssumption DEF Values
<1>3. \A s \in Slots : Lines(s) = <<>> /\ Events(s) = {}
  BY <1>1 DEF Lines, Events
<1>4. TypeOK
  BY <1>1, <1>2, AuditLogAssumption DEF TypeOK
<1>5. FileInv
  BY <1>1, <1>2, SlotsAre DEF FileInv
<1>6. KnownInv /\ InOrder
  BY <1>3 DEF KnownInv, InOrder
<1>7. LiveInv /\ HoleInv /\ KeptInv
  BY <1>1 DEF LiveInv, HoleInv, KeptInv
<1>8. Lines(0) = <<>> /\ Len(Lines(0)) = 0
  BY <1>3, SlotsAre
<1>9. CleanInv
  BY <1>1, <1>8, AuditLogAssumption DEF CleanInv, Cover
<1> QED BY <1>4, <1>5, <1>6, <1>7, <1>9 DEF IInv

LEMMA StepInv == ASSUME IInv, [Next]_vars PROVE IInv'
  BY TypeStep, FileStep, KnownStep, LiveStep, OrderStep, HoleStep, KeptStep,
     CleanStep DEF IInv

LEMMA Invariance == Spec => []IInv
  BY InitInv, StepInv, PTL DEF Spec

\* However the rotation fails and wherever the process is killed, the files
\* read from the oldest to the live one have the events in the order they
\* were written, and none twice.
THEOREM LogInOrder == Spec => []InOrder
<1>1. IInv => InOrder
  BY DEF IInv
<1> QED BY <1>1, Invariance, PTL

\* Write never returns nil for an event that is not in the log, though the
\* rotation drops its errors.
THEOREM AcknowledgedIsWritten == Spec => AckedOnDisk
<1>1. IInv /\ [Next]_vars => [\A e \in acked' \ acked : e \in OnDisk']_vars
  <2> SUFFICES ASSUME IInv, [Next]_vars, NEW e \in acked' \ acked
      PROVE  e \in OnDisk'
    OBVIOUS
  <2> QED BY AckStep DEF IInv
<1> QED BY <1>1, Invariance, PTL DEF Spec, AckedOnDisk

\* In a state where nothing has gone wrong, the events of the last MaxFiles
\* full files are in the log, also in the middle of a rotation.
LEMMA FullFilesKept ==
    ASSUME IInv, bad = <<>>, NEW e \in acked,
           last - e < MaxFiles * (MaxSize + 1)
    PROVE  e \in OnDisk
<1>1. /\ last \in Nat /\ e \in 1..last /\ MaxSize \in Nat
      /\ MaxFiles \in Nat \ {0} /\ shift < MaxFiles
      /\ shift \in Nat /\ MaxFiles \in Slots
      /\ pc \in {"idle", "close", "shift", "open"}
  BY AuditLogAssumption, SlotsAre DEF IInv, TypeOK
<1>2. /\ Cover
      /\ pc \in {"close", "shift"} => Len(Lines(0)) = MaxSize + 1
  BY DEF IInv, CleanInv
<1>3. Len(Lines(0)) \in Nat
  <2>1. Lines(0) \in Seq(Values)
    BY LinesType, SlotsAre DEF IInv
  <2> QED BY <2>1, LenProperties
<1>4. /\ Span(MaxFiles) \in Int /\ Span(MaxFiles - 1) \in Int
      /\ Span(MaxFiles) = Span(MaxFiles - 1) + MaxSize + 1
      /\ last - e < Span(MaxFiles)
  <2>1. MaxFiles \in Int /\ MaxFiles - 1 \in Int
    BY <1>1
  <2> QED BY <2>1, SpanIs DEF Span
<1>5. e > Base - Reach(MaxFiles)
  BY SMTT(60), Z3T(60), <1>1, <1>2, <1>3, <1>4 DEF Base, Reach
<1>6. Reached(MaxFiles, e)
  BY <1>1, <1>2, <1>5, CoverIs
<1> QED BY <1>6, DiskIs DEF Reached, Slots

\* Rotation drops the oldest events only, and none too soon, for any size and
\* number of the files.
THEOREM RotationDropsOldest == Spec => []OnlyOldestDropped
<1>1. IInv => OnlyOldestDropped
  BY FullFilesKept DEF IInv, KeptInv, OnlyOldestDropped
<1> QED BY <1>1, Invariance, PTL

-----------------------------------------------------------------------------
(* What is taken out of a text *)

Marks == Tokens \cup {"mask"}

NoBegin(s) == \A i \in DOMAIN s : s[i] # "begin"
NoKey(s) == \A i \in DOMAIN s : s[i] # "key"

\* Is the text in the loop that finds it as it arose?
Stripping == at = "tls" \/ (at = "audit" /\ ~rpc)

\* While that loop takes blocks out of it a well-formed text stays well
\* formed; after it the text has no block left, and no key material.
TextInv ==
    /\ v \in Seq(Marks)
    /\ rpc \in BOOLEAN
    /\ at \in {"tls", "wrap", "audit", "written"}
    /\ at \in {"tls", "wrap"} => rpc
    /\ Stripping => (WellFormed(text) => WellFormed(v))
    /\ ~Stripping => NoBegin(v) /\ (WellFormed(text) => NoKey(v))

\* Every non-empty set of natural numbers has a least one.
LEMMA LeastNumber ==
    ASSUME NEW S \in SUBSET Nat, S # {}
    PROVE  \E n \in S : \A m \in S : n <= m
<1>1. OpToRel(<, Nat) = {p \in Nat \X Nat : p[1] < p[2]}
    BY DEF OpToRel
<1> DEFINE R == {p \in Nat \X Nat : p[1] < p[2]}
<1>2. IsWellFoundedOn(R, Nat)
    BY <1>1, NatLessThanWellFounded, ZenonT(60)
<1> HIDE DEF R
<1>3. PICK n \in S : \A m \in S : ~(<<m, n>> \in R)
    BY ZenonT(60), <1>2, WFMin
<1>4. ASSUME NEW m \in S
      PROVE  n <= m
    <2>1. m \in Nat /\ n \in Nat
        OBVIOUS
    <2>2. m < n => <<m, n>> \in R
        BY <2>1 DEF R
    <2>3. QED
        BY <1>3, <2>1, <2>2
<1>5. QED
    BY <1>4

\* What concatenation does to the elements.
LEMMA Joined ==
    ASSUME NEW T, NEW a \in Seq(T), NEW b \in Seq(T)
    PROVE  /\ a \o b \in Seq(T) /\ Len(a \o b) = Len(a) + Len(b)
           /\ Len(a) \in Nat /\ Len(b) \in Nat
           /\ \A i \in 1..Len(a) : (a \o b)[i] = a[i]
           /\ \A i \in (Len(a) + 1)..(Len(a) + Len(b)) :
                (a \o b)[i] = b[i - Len(a)]
OBVIOUS

\* Index finds the first one.
LEMMA IndexFirst ==
    ASSUME NEW T, NEW s \in Seq(T), NEW t, NEW i \in Nat \ {0}
    PROVE  /\ Index(s, t, i) \in Nat
           /\ Index(s, t, i) = 0 => \A n \in i..Len(s) : s[n] # t
           /\ Index(s, t, i) # 0 =>
                /\ Index(s, t, i) \in i..Len(s)
                /\ s[Index(s, t, i)] = t
                /\ \A n \in i..(Index(s, t, i) - 1) : s[n] # t
<1> DEFINE found == {n \in i..Len(s) : s[n] = t}
<1>1. Len(s) \in Nat /\ found \in SUBSET Nat
    OBVIOUS
<1>2. CASE found = {}
    BY <1>2 DEF Index
<1>3. CASE found # {}
    <2> DEFINE n == CHOOSE n \in found : \A m \in found : n <= m
    <2>1. Index(s, t, i) = n
        BY <1>3 DEF Index
    <2>2. \E k \in found : \A m \in found : k <= m
        BY ZenonT(60), <1>1, <1>3, LeastNumber
    <2>3. n \in found /\ \A m \in found : n <= m
        BY ZenonT(60), <2>2
    <2> HIDE DEF n
    <2>4. n \in i..Len(s) /\ s[n] = t
        BY <2>3
    <2>5. ASSUME NEW m \in i..(n - 1)
          PROVE  s[m] # t
        <3>1. m \in i..Len(s) /\ ~(n <= m)
            BY SMTT(60), Z3T(60), <1>1, <2>4
        <3>2. QED
            BY <2>3, <3>1
    <2>6. QED
        BY <2>1, <2>4, <2>5
<1>4. QED
    BY <1>2, <1>3

\* A sequence in which the part from b to m is replaced by x.
Splice(s, b, m, x) == SubSeq(s, 1, b - 1) \o <<x>> \o SubSeq(s, m + 1, Len(s))

LEMMA Spliced ==
    ASSUME NEW T, NEW s \in Seq(T), NEW x \in T,
           NEW b \in 1..Len(s), NEW m \in b..Len(s)
    PROVE  LET r == Splice(s, b, m, x) IN
           /\ r \in Seq(T) /\ Len(r) = Len(s) - (m - b)
           /\ \A i \in 1..Len(r) :
                r[i] = IF i < b THEN s[i]
                       ELSE IF i = b THEN x ELSE s[i + (m - b)]
<1> DEFINE p == SubSeq(s, 1, b - 1)
           q == SubSeq(s, m + 1, Len(s))
<1>1. /\ Len(s) \in Nat /\ b \in Nat /\ m \in Nat
      /\ 1 <= b /\ b <= m /\ m <= Len(s)
    OBVIOUS
<1>2. /\ p \in Seq(T) /\ Len(p) = b - 1
      /\ \A i \in 1..(b - 1) : p[i] = s[i]
    BY <1>1
<1>3. /\ q \in Seq(T) /\ Len(q) = Len(s) - m
      /\ \A i \in 1..(Len(s) - m) : q[i] = s[m + i]
    BY <1>1
<1> HIDE DEF p, q
<1> DEFINE one == <<x>>
           px == p \o one
           r == Splice(s, b, m, x)
<1>4. one \in Seq(T) /\ Len(one) = 1 /\ one[1] = x
    OBVIOUS
<1> HIDE DEF one, r
<1>5. /\ px \in Seq(T) /\ Len(px) = b
      /\ \A i \in 1..(b - 1) : px[i] = p[i]
      /\ px[b] = x
    <2>1. /\ px \in Seq(T) /\ Len(px) = Len(p) + Len(one)
          /\ \A i \in 1..Len(p) : px[i] = p[i]
          /\ \A i \in (Len(p) + 1)..(Len(p) + Len(one)) :
                px[i] = one[i - Len(p)]
        BY <1>2, <1>4, Joined, ZenonT(60)
    <2> HIDE DEF px
    <2>2. Len(p) = b - 1 /\ Len(one) = 1
        BY <1>2, <1>4
    <2>3. Len(px) = b
        BY <1>1, <2>1, <2>2
    <2>4. \A i \in 1..(b - 1) : px[i] = p[i]
        BY ZenonT(60), <2>1, <2>2
    <2>5. px[b] = x
        <3>1. /\ b \in (Len(p) + 1)..(Len(p) + Len(one))
              /\ b - Len(p) = 1
            BY <1>1, <2>2
        <3>2. QED
            BY <1>4, <2>1, <3>1
    <2>6. QED
        BY <2>1, <2>3, <2>4, <2>5
<1>6. r = px \o q
    BY DEF p, q, one, px, r, Splice
<1> HIDE DEF px
<1>7. /\ r \in Seq(T) /\ Len(r) = Len(px) + Len(q)
      /\ \A i \in 1..Len(px) : r[i] = px[i]
      /\ \A i \in (Len(px) + 1)..(Len(px) + Len(q)) : r[i] = q[i - Len(px)]
    BY <1>3, <1>5, <1>6, Joined, ZenonT(60)
<1>8. ASSUME NEW i \in 1..Len(r)
      PROVE  r[i] = IF i < b THEN s[i] ELSE IF i = b THEN x ELSE s[i + (m - b)]
    <2>0. i \in Nat /\ 1 <= i /\ i <= b + (Len(s) - m)
        BY SMTT(60), Z3T(60), <1>1, <1>3, <1>5, <1>7
    <2>1. CASE i < b
        BY SMTT(60), Z3T(60), <1>1, <1>2, <1>5, <1>7, <2>0, <2>1
    <2>2. CASE i = b
        BY SMTT(60), Z3T(60), <1>1, <1>5, <1>7, <2>0, <2>2
    <2>3. CASE i > b
        <3>1. r[i] = q[i - b] /\ i - b \in 1..(Len(s) - m)
            BY SMTT(60), Z3T(60), <1>1, <1>3, <1>5, <1>7, <2>0, <2>3
        <3>2. q[i - b] = s[m + (i - b)] /\ m + (i - b) = i + (m - b)
            BY SMTT(60), Z3T(60), <1>1, <1>3, <2>0, <3>1
        <3>3. QED
            BY SMTT(60), Z3T(60), <1>1, <2>0, <2>3, <3>1, <3>2
    <2>4. QED
        BY <1>1, <2>0, <2>1, <2>2, <2>3
<1>9. Len(r) = Len(s) - (m - b)
    BY <1>1, <1>3, <1>5, <1>7
<1>10. QED
    BY ZenonT(60), <1>7, <1>8, <1>9 DEF r

\* Where a block ends: with the newline of its END line, or with the text.
LEMMA BlockBounds ==
    ASSUME NEW s \in Seq(Marks), NEW b \in 1..Len(s)
    PROVE  /\ BlockEnd(s, b) \in b..Len(s)
           /\ EndLine(s, b) = 0 => BlockEnd(s, b) = Len(s)
           /\ EndLine(s, b) # 0 =>
                \E e \in b..BlockEnd(s, b) :
                    /\ s[e] = "end"
                    /\ \A n \in e..(BlockEnd(s, b) - 1) : s[n] # "nl"
<1>1. Len(s) \in Nat /\ b \in Nat \ {0} /\ b <= Len(s)
    OBVIOUS
<1>2. CASE EndLine(s, b) = 0
    BY <1>1, <1>2 DEF BlockEnd
<1>3. CASE EndLine(s, b) # 0
    <2> DEFINE e == Index(s, "end", b)
               n == Index(s, "nl", e)
    <2>1. e # 0 /\ EndLine(s, b) = n /\ n # 0 /\ BlockEnd(s, b) = n
        BY ZenonT(60), <1>3 DEF EndLine, BlockEnd
    <2>2. e \in b..Len(s) /\ s[e] = "end"
        BY <1>1, <2>1, IndexFirst
    <2> HIDE DEF e
    <2>3. e \in Nat \ {0}
        BY <1>1, <2>2
    <2>4. n \in e..Len(s) /\ \A i \in e..(n - 1) : s[i] # "nl"
        BY <2>1, <2>3, IndexFirst
    <2> HIDE DEF n
    <2>5. e \in b..n /\ n \in b..Len(s)
        BY <1>1, <2>2, <2>4
    <2>6. QED
        BY ZenonT(60), <1>3, <2>1, <2>2, <2>4, <2>5
<1>4. QED
    BY <1>2, <1>3

\* In a well-formed text without a block there is no key material.
LEMMA KeysInBlocks ==
    ASSUME NEW s \in Seq(Marks), NoBegin(s), WellFormed(s)
    PROVE  NoKey(s)
<1> SUFFICES ASSUME NEW k \in DOMAIN s, s[k] = "key"
             PROVE  FALSE
    BY DEF NoKey
<1>1. PICK b \in 1..(k - 1) : s[b] = "begin"
    BY DEF WellFormed
<1>2. b \in DOMAIN s
    OBVIOUS
<1>3. QED
    BY <1>1, <1>2 DEF NoBegin

\* Between the first BEGIN and what follows its END line there is nothing that
\* the rest of a well-formed text depends on.
LEMMA RoundKeepsForm ==
    ASSUME NEW s \in Seq(Marks), WellFormed(s),
           NEW b \in 1..Len(s), s[b] = "begin",
           \A i \in 1..(b - 1) : s[i] # "begin",
           EndLine(s, b) # 0
    PROVE  WellFormed(Splice(s, b, BlockEnd(s, b), "mask"))
<1> DEFINE m == BlockEnd(s, b)
           d == m - b
           r == Splice(s, b, m, "mask")
<1>1. m \in b..Len(s)
    BY BlockBounds
<1>2. PICK e \in b..m : s[e] = "end" /\ \A n \in e..(m - 1) : s[n] # "nl"
    BY BlockBounds
<1>3. "mask" \in Marks
    BY DEF Marks
<1> HIDE DEF m
<1>4. /\ r \in Seq(Marks) /\ Len(r) = Len(s) - d
      /\ \A i \in 1..Len(r) :
            r[i] = IF i < b THEN s[i] ELSE IF i = b THEN "mask" ELSE s[i + d]
    BY <1>1, <1>3, Spliced
<1> HIDE DEF r
<1>5. /\ Len(s) \in Nat /\ b \in Nat /\ m \in Nat /\ e \in Nat /\ d \in Nat
      /\ 1 <= b /\ b <= e /\ e <= m /\ m <= Len(s) /\ b + d = m
    BY <1>1
<1> HIDE DEF d
<1>6. DOMAIN r = 1..Len(r) /\ DOMAIN s = 1..Len(s)
    BY <1>4
<1>7. ASSUME NEW i \in DOMAIN r, NEW j \in DOMAIN r,
             i < j, r[i] = "end", r[j] = "begin"
      PROVE  \E n \in i..j : r[n] = "nl"
    <2>1. j > b
        BY <1>4, <1>5, <1>6, <1>7
    <2>2. CASE i < b
        <3>1. s[i] = "end" /\ i \in DOMAIN s /\ b \in DOMAIN s
            BY SMTT(60), Z3T(60), <1>4, <1>5, <1>6, <1>7, <2>2
        <3>2. PICK n \in i..b : s[n] = "nl"
            BY <2>2, <3>1 DEF WellFormed
        <3>3. n # b
            BY <3>2
        <3>4. n \in 1..Len(r) /\ n < b /\ n \in i..j
            BY SMTT(60), Z3T(60), <1>4, <1>5, <1>6, <2>1, <3>2, <3>3
        <3>5. r[n] = "nl"
            BY <1>4, <3>2, <3>4
        <3>6. QED
            BY <3>4, <3>5
    <2>3. CASE i >= b
        <3>1. i # b
            BY <1>4, <1>5, <1>6, <1>7
        <3>2. s[i + d] = "end" /\ s[j + d] = "begin"
            BY SMTT(60), Z3T(60), <1>4, <1>5, <1>6, <1>7, <2>1, <2>3, <3>1
        <3>3. i + d \in DOMAIN s /\ j + d \in DOMAIN s /\ i + d < j + d
            BY <1>4, <1>5, <1>6, <1>7
        <3>4. PICK n \in (i + d)..(j + d) : s[n] = "nl"
            BY <3>2, <3>3 DEF WellFormed
        <3>5. n - d \in i..j /\ n - d > b /\ n - d \in 1..Len(r)
            BY SMTT(60), Z3T(60), <1>4, <1>5, <1>6, <2>3, <3>1, <3>4
        <3>6. r[n - d] = s[(n - d) + d] /\ (n - d) + d = n
            BY SMTT(60), Z3T(60), <1>4, <1>5, <3>4, <3>5
        <3>7. QED
            BY <3>4, <3>5, <3>6
    <2>4. QED
        BY SMTT(60), Z3T(60), <1>5, <1>6, <2>2, <2>3
<1>8. ASSUME NEW k \in DOMAIN r, r[k] = "key"
      PROVE  \E a \in 1..(k - 1) :
                r[a] = "begin" /\ \A i \in a..k : r[i] # "end"
    <2>1. k \in Nat /\ 1 <= k /\ k <= Len(s) - d /\ k # b
        BY <1>4, <1>5, <1>6, <1>8
    <2>2. CASE k < b
        <3>1. k \in DOMAIN s /\ s[k] = "key"
            BY SMTT(60), Z3T(60), <1>4, <1>5, <1>6, <1>8, <2>1, <2>2
        <3>2. PICK a \in 1..(k - 1) : s[a] = "begin"
            BY <3>1 DEF WellFormed
        <3>3. a \in 1..(b - 1)
            BY <1>5, <2>1, <2>2, <3>2
        <3>4. QED
            BY <3>2, <3>3
    <2>3. CASE k > b
        <3>1. k + d \in DOMAIN s /\ s[k + d] = "key"
            BY SMTT(60), Z3T(60), <1>4, <1>5, <1>6, <1>8, <2>1, <2>3
        <3> DEFINE h == k + d
        <3> HIDE DEF h
        <3>0. h \in DOMAIN s /\ s[h] = "key"
            BY <3>1 DEF h
        <3>2. PICK a \in 1..(h - 1) :
                    s[a] = "begin" /\ \A i \in a..h : s[i] # "end"
            BY <3>0 DEF WellFormed
        <3> USE DEF h
        <3>3. a \in Nat /\ a \in DOMAIN s /\ e \in DOMAIN s
            BY <1>5, <1>6, <2>1, <3>2
        <3>4. e < a
            <4>1. e <= k + d
                BY <1>5, <2>1, <2>3
            <4>2. a <= e => e \in a..(k + d)
                BY SMTT(60), Z3T(60), <1>5, <2>1, <3>3, <4>1
            <4>3. QED
                BY <1>2, <1>5, <3>2, <3>3, <4>2
        <3>5. PICK n \in e..a : s[n] = "nl"
            BY ZenonT(60), <1>2, <3>2, <3>3, <3>4 DEF WellFormed
        <3>6. n # a /\ ~(n \in e..(m - 1))
            BY ZenonT(60), <1>2, <3>2, <3>5
        <3>7. m < a
            BY SMTT(60), Z3T(60), <1>5, <3>3, <3>5, <3>6
        <3>8. a - d \in 1..(k - 1) /\ a - d > b
            BY SMTT(60), Z3T(60), <1>5, <2>1, <3>2, <3>3, <3>7
        <3>9. ASSUME NEW i \in (a - d)..k
              PROVE  r[i] = s[i + d] /\ i + d \in a..(k + d)
            <4>1. i \in Nat /\ a - d <= i /\ i <= k
                BY SMTT(60), Z3T(60), <1>5, <2>1, <3>3, <3>8
            <4>2. i \in 1..Len(r) /\ i > b
                BY SMTT(60), Z3T(60), <1>4, <1>5, <2>1, <3>3, <3>8, <4>1
            <4>3. r[i] = s[i + d]
                BY SMTT(60), Z3T(60), <1>4, <1>5, <4>1, <4>2
            <4>4. QED
                BY SMTT(60), Z3T(60), <1>5, <2>1, <3>3, <4>1, <4>3
        <3>10. r[a - d] = "begin"
            <4>1. a - d \in (a - d)..k /\ (a - d) + d = a
                BY SMTT(60), Z3T(60), <1>5, <2>1, <3>3, <3>8
            <4>2. QED
                BY ZenonT(60), <3>2, <3>9, <4>1
        <3>11. \A i \in (a - d)..k : r[i] # "end"
            BY ZenonT(60), <3>2, <3>9
        <3>12. QED
            BY ZenonT(60), <3>8, <3>10, <3>11
    <2>4. QED
        BY SMTT(60), Z3T(60), <1>5, <2>1, <2>2, <2>3
<1>9. WellFormed(r)
    BY <1>7, <1>8 DEF WellFormed
<1>10. QED
    BY <1>9 DEF r, m

\* A block that has no end is taken out with all that follows it, and before
\* the first BEGIN of a well-formed text there is no key material.
LEMMA LastRound ==
    ASSUME NEW s \in Seq(Marks), NEW b \in 1..Len(s),
           \A i \in 1..(b - 1) : s[i] # "begin",
           EndLine(s, b) = 0
    PROVE  LET r == Splice(s, b, BlockEnd(s, b), "mask") IN
           NoBegin(r) /\ (WellFormed(s) => NoKey(r))
<1> DEFINE r == Splice(s, b, BlockEnd(s, b), "mask")
<1>1. BlockEnd(s, b) = Len(s) /\ Len(s) \in b..Len(s)
    BY BlockBounds
<1>2. "mask" \in Marks
    BY DEF Marks
<1>3. /\ r \in Seq(Marks) /\ Len(r) = Len(s) - (Len(s) - b)
      /\ \A i \in 1..Len(r) :
            r[i] = IF i < b THEN s[i]
                   ELSE IF i = b THEN "mask" ELSE s[i + (Len(s) - b)]
    BY <1>1, <1>2, Spliced
<1> HIDE DEF r
<1>4. Len(s) \in Nat /\ b \in Nat /\ DOMAIN r = 1..b /\ DOMAIN s = 1..Len(s)
    BY <1>3
<1>5. ASSUME NEW i \in DOMAIN r
      PROVE  r[i] = "mask" \/ (i \in 1..(b - 1) /\ r[i] = s[i])
    BY <1>3, <1>4
<1>6. NoBegin(r)
    BY <1>5 DEF NoBegin
<1>7. ASSUME WellFormed(s), NEW i \in DOMAIN r, r[i] = "key"
      PROVE  FALSE
    <2>1. i \in 1..(b - 1) /\ s[i] = "key" /\ i \in DOMAIN s
        BY <1>4, <1>5, <1>7
    <2>2. PICK a \in 1..(i - 1) : s[a] = "begin"
        BY <1>7, <2>1 DEF WellFormed
    <2>3. a \in 1..(b - 1)
        BY <1>4, <2>1, <2>2
    <2>4. QED
        BY <2>2, <2>3
<1>8. QED
    BY <1>6, <1>7 DEF NoKey, r

\* A round of either loop on a text that may still have blocks.
LEMMA StripKeeps ==
    ASSUME TextInv, Stripping, NEW next \in {"wrap", "written"},
           next = "wrap" <=> at = "tls", Strip(next)
    PROVE  TextInv'
<1> DEFINE b == Index(v, "begin", 1)
<1>1. v \in Seq(Marks) /\ (WellFormed(text) => WellFormed(v))
    BY DEF TextInv
<1>2. /\ b = 0 => \A n \in 1..Len(v) : v[n] # "begin"
      /\ b # 0 => /\ b \in 1..Len(v) /\ v[b] = "begin"
                  /\ \A n \in 1..(b - 1) : v[n] # "begin"
    BY <1>1, IndexFirst
<1>3. /\ v' = IF b = 0 THEN v ELSE Replaced(b, Mask)
      /\ at' = IF b = 0 \/ EndLine(v, b) = 0 THEN next ELSE at
      /\ text' = text /\ rpc' = rpc
    BY DEF Strip
<1> HIDE DEF b
<1>4. /\ rpc' \in BOOLEAN
      /\ at' \in {"tls", "wrap", "audit", "written"}
      /\ at' \in {"tls", "wrap"} => rpc'
    BY <1>3 DEF TextInv, Stripping
<1>5. CASE b = 0
    <2>1. NoBegin(v) /\ v' = v /\ at' = next
        BY <1>1, <1>2, <1>3, <1>5 DEF NoBegin
    <2>2. WellFormed(text) => NoKey(v)
        BY <1>1, <2>1, KeysInBlocks
    <2>3. QED
        BY ZenonT(60), <1>1, <1>3, <1>4, <2>1, <2>2
           DEF TextInv, Stripping
<1>6. CASE b # 0
    <2>1. Replaced(b, Mask) = Splice(v, b, BlockEnd(v, b), "mask")
        BY DEF Replaced, Mask, Splice
    <2>2. v' = Splice(v, b, BlockEnd(v, b), "mask")
        BY ZenonT(60), <1>3, <1>6, <2>1
    <2>3. v' \in Seq(Marks)
        <3>1. BlockEnd(v, b) \in b..Len(v) /\ "mask" \in Marks
            BY ZenonT(60), <1>1, <1>2, <1>6, BlockBounds DEF Marks
        <3>2. QED
            BY ZenonT(60), <1>1, <1>2, <1>6, <2>2, <3>1, Spliced
    <2>4. CASE EndLine(v, b) = 0
        <3>1. NoBegin(v') /\ (WellFormed(v) => NoKey(v'))
            BY <1>1, <1>2, <1>6, <2>2, <2>4, LastRound
        <3>2. at' = next
            BY <1>3, <2>4
        <3>3. QED
            BY ZenonT(60), <1>1, <1>3, <1>4, <2>3, <3>1, <3>2
               DEF TextInv, Stripping
    <2>5. CASE EndLine(v, b) # 0
        <3>1. WellFormed(v) => WellFormed(v')
            BY <1>1, <1>2, <1>6, <2>2, <2>5, RoundKeepsForm
        <3>2. at' = at
            BY SMTT(60), Z3T(60), <1>3, <1>6, <2>5
        <3>3. QED
            BY ZenonT(60), <1>1, <1>3, <1>4, <2>3, <3>1, <3>2
               DEF TextInv, Stripping
    <2>6. QED
        BY <2>4, <2>5
<1>7. QED
    BY <1>5, <1>6

\* Every step keeps the invariant.
LEMMA TextNextInv ==
    ASSUME TextInv, [TextNext]_textVars
    PROVE  TextInv'
<1>1. CASE SanitizeTLSError
    BY ZenonT(60), <1>1, StripKeeps DEF SanitizeTLSError, Stripping
<1>2. CASE Wrap
    <2>1. /\ v \in Seq(Marks) /\ NoBegin(v) /\ (WellFormed(text) => NoKey(v))
          /\ at = "wrap" /\ rpc
        BY <1>2 DEF Wrap, TextInv, Stripping
    <2>2. /\ v' = Wrapping \o v /\ at' = "audit" /\ rpc' = rpc /\ text' = text
        BY <1>2 DEF Wrap
    <2>3. Wrapping \in Seq(Marks) /\ Len(Wrapping) = 1 /\ Wrapping[1] = "text"
        BY DEF Wrapping, Marks, Tokens
    <2>4. /\ v' \in Seq(Marks) /\ Len(v') = 1 + Len(v) /\ Len(v) \in Nat
          /\ v'[1] = "text"
          /\ \A i \in 2..(1 + Len(v)) : v'[i] = v[i - 1]
        <3> DEFINE w == Wrapping \o v
        <3>1. /\ w \in Seq(Marks) /\ Len(w) = Len(Wrapping) + Len(v)
              /\ Len(v) \in Nat
              /\ \A i \in 1..Len(Wrapping) : w[i] = Wrapping[i]
              /\ \A i \in (Len(Wrapping) + 1)..(Len(Wrapping) + Len(v)) :
                    w[i] = v[i - Len(Wrapping)]
            BY ZenonT(60), <2>1, <2>3, Joined
        <3>2. v' = w
            BY <2>2
        <3> HIDE DEF w
        <3>3. QED
            BY SMTT(60), <2>3, <3>1, <3>2
    <2>5. ASSUME NEW i \in DOMAIN v'
          PROVE  v'[i] = "text" \/ \E j \in DOMAIN v : v'[i] = v[j]
        BY <2>1, <2>4
    <2>6. NoBegin(v') /\ (WellFormed(text) => NoKey(v'))
        BY <2>1, <2>5 DEF NoBegin, NoKey
    <2>7. QED
        BY <2>1, <2>2, <2>4, <2>6 DEF TextInv, Stripping
<1>3. CASE SanitizeString /\ ~rpc
    BY <1>3, StripKeeps DEF SanitizeString, Stripping
<1>4. CASE SanitizeString /\ rpc
    <2>1. v \in Seq(Marks) /\ NoBegin(v)
        BY <1>4 DEF SanitizeString, TextInv, Stripping
    <2>2. Index(v, "begin", 1) = 0
        BY <2>1, IndexFirst DEF NoBegin
    <2>3. v' = v /\ at' = "written" /\ text' = text /\ rpc' = rpc
        BY <1>4, <2>2 DEF SanitizeString, Strip
    <2>4. QED
        BY <1>4, <2>3 DEF SanitizeString, TextInv, Stripping
<1>5. CASE UNCHANGED textVars
    BY <1>5 DEF textVars, TextInv, Stripping
<1>6. QED
    BY <1>1, <1>2, <1>3, <1>4, <1>5 DEF TextNext, TextInv

\* The invariant of the two loops.
THEOREM TextInvariant == TextSpec => []TextInv
<1>1. TextInit => TextInv
    <2> SUFFICES ASSUME TextInit
                 PROVE  TextInv
        OBVIOUS
    <2>1. text \in Seq(Marks) /\ v = text
        BY RedactionAssumption DEF TextInit, Texts, Marks
    <2>2. QED
        BY <2>1 DEF TextInit, TextInv, Stripping
<1>2. TextInv /\ [TextNext]_textVars => TextInv'
    BY TextNextInv
<1>3. QED
    BY <1>1, <1>2, PTL DEF TextSpec

\* SanitizeString, alone and after sanitizeTLSError: whatever the length of
\* the text and the number of blocks in it, no BEGIN marker is written to the
\* audit log, nor key material of a well-formed text.
THEOREM LogHoldsNoSecret == TextSpec => []NothingLeaks
<1>1. TextInv => NothingLeaks
    BY DEF TextInv, Stripping, NothingLeaks, NoBegin, NoKey
<1>2. QED
    BY <1>1, TextInvariant, PTL

\* sanitizeTLSError is as thorough as SanitizeString: it leaves no block in
\* the error of an RPC that SanitizeString would have to take out.
THEOREM CopiesAgree == TextSpec => []InSync
<1>1. ASSUME TextInv, rpc, at \in {"wrap", "audit"}
      PROVE  Index(v, "begin", 1) = 0
    <2>1. v \in Seq(Marks) /\ NoBegin(v)
        BY <1>1 DEF TextInv, Stripping
    <2>2. QED
        BY <2>1, IndexFirst DEF NoBegin
<1>2. TextInv => InSync
    BY <1>1 DEF InSync
<1>3. QED
    BY <1>2, TextInvariant, PTL
=============================================================================
