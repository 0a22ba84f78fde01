--------------------------- MODULE WriteGateProofs ---------------------------
(***************************************************************************)
(* Theorems about WriteGate, for any number of calls, approvals and runs   *)
(* of the approve command: an approval is executed at most once, only for  *)
(* what was approved, and is used up only by a call that nothing stood in  *)
(* the way of; and the audit log accounts for every call, truthfully.      *)
(*                                                                         *)
(* The argument goes through what a step may do to one call (Moves,        *)
(* Audits, Runs) and to the store (StoreMoves), each shown once, action by *)
(* action; the invariants IInv and AInv follow from those alone.           *)
(***************************************************************************)
EXTENDS WriteGate, FiniteSetTheorems, SequenceTheorems, TLAPS

Early == {"verify", "gate", "prepare", "consume"}
Past == {"gate", "prepare", "consume"}

TypeOK ==
    /\ now \in Nat
    /\ records \in Records
    /\ cli \in [Clis -> Refs \cup {"new", "gone"}]
    /\ pc \in [Calls -> Working \cup {"new", "done", "dead"}]
    /\ input \in [Calls -> (UNION {Inputs[c] : c \in Calls}) \cup {None}]
    /\ \A c \in Calls : pc[c] # "new" => input[c] \in Inputs[c]
    /\ issued \in [Calls -> Seq([unit: Nat, reply: {"ok", "failed", "lost"}])]
    /\ deps \in Deployment /\ dir \in Dirs
    /\ DOMAIN log = Calls /\ DOMAIN missed = Calls
    /\ verifiedAt \in [Calls -> Nat]
    /\ usedBy \in [Refs -> SUBSET Calls]

\* A run of approve that has yet to decide has created its record.
CliInv == \A k \in Clis : cli[k] \in Refs => records[cli[k]] # None

\* Only one call has ever consumed an approval, and it is past Consume.
UseInv ==
    \A r \in Refs :
        /\ usedBy[r] # {} <=> records[r] # None /\ records[r].consumed
        /\ \A c \in usedBy[r] :
            Ref(c) = r /\ pc[c] \notin Early \cup {"new"}
        /\ \A c, d \in usedBy[r] : c = d

\* Velociraptor is called by calls that have consumed their approval.
ExecInv ==
    \A c \in Calls :
        pc[c] = "execute" \/ issued[c] # <<>> =>
            pc[c] # "new" /\ c \in usedBy[Ref(c)]

\* rec authorises the request q verified at time t.
Authorises(rec, q, t) ==
    /\ rec # None /\ rec.decision = "approved"
    /\ Targeting(rec.req) = Targeting(q)
    /\ t - rec.created <= TTL

\* An approval still authorises the calls that have verified it.
AuthInv ==
    \A c \in Calls :
        pc[c] \in Past \/ (pc[c] # "new" /\ c \in usedBy[Ref(c)]) =>
            Authorises(records[Ref(c)], input[c].req, verifiedAt[c])

-----------------------------------------------------------------------------
(* The fingerprint *)

\* Requests with the same fingerprint have the same targets: the sorted client
\* IDs that are hashed determine the set of clients.
LEMMA FingerprintTargets ==
    ASSUME NEW p, NEW q, IsRequest(p), IsRequest(q),
           Fingerprint(p) = Fingerprint(q)
    PROVE  Targeting(p) = Targeting(q)
<1> DEFINE At(s, x) == {n \in DOMAIN s : s[n] = x}
<1>1. ASSUME NEW s \in Seq(ClientIDs), NEW x \in ClientIDs
      PROVE  Cardinality(At(s, x)) = 0 <=> At(s, x) = {}
  <2>1. IsFiniteSet(1 .. Len(s))
    BY FS_Interval, 0 \in Int
  <2>2. IsFiniteSet(At(s, x))
    BY <2>1, FS_Subset, At(s, x) \subseteq 1 .. Len(s)
  <2> QED
    BY ZenonT(60), <2>2, FS_EmptySet
<1>2. /\ p.op = q.op /\ p.target = q.target /\ p.label = q.label
      /\ p.all = q.all
      /\ \A x \in ClientIDs :
            Cardinality(At(p.ids, x)) = Cardinality(At(q.ids, x))
  BY DEF Fingerprint
<1>3. p.ids \in Seq(ClientIDs) /\ q.ids \in Seq(ClientIDs)
  BY DEF IsRequest
<1>4. \A x \in ClientIDs : At(p.ids, x) = {} <=> At(q.ids, x) = {}
  BY ZenonT(60), <1>1, <1>2, <1>3
<1>5. {p.ids[n] : n \in DOMAIN p.ids} = {q.ids[n] : n \in DOMAIN q.ids}
  BY SMTT(60), Z3T(60), <1>3, <1>4
<1> QED
  BY <1>2, <1>5 DEF Targeting

-----------------------------------------------------------------------------
(* Types *)

\* What Create stores is a record.
LEMMA NewRecordType ==
    ASSUME NEW q \in Payloads, NEW t \in Nat
    PROVE  NewRecord(q, t) \in Record
BY DEF NewRecord, Record

\* What a step makes of the records is made of records.
LEMMA RecordsType ==
    ASSUME TypeOK, CliInv, Next
    PROVE  records' \in Records
<1>1. ASSUME NEW k \in Clis, NEW r \in Refs, NEW q \in Payloads,
             CliCreate(k, r, q)
      PROVE  records' \in Records
  <2>1. NewRecord(q, now) \in Record
    BY NewRecordType DEF TypeOK
  <2>2. \/ records' = records
        \/ records' = [records EXCEPT ![r] = NewRecord(q, now)]
    BY <1>1 DEF CliCreate
  <2> QED
    BY ZenonT(60), <2>1, <2>2 DEF TypeOK, Records
<1>2. ASSUME NEW k \in Clis, NEW v \in Verdicts, CliDecide(k, v)
      PROVE  records' \in Records
  <2> DEFINE r == cli[k]
  <2>1. records[r] \in Record /\ r \in Refs
    BY <1>2 DEF CliDecide, TypeOK, Records, CliInv
  <2>2. [records[r] EXCEPT !.decision = v] \in Record
    BY <2>1 DEF Record
  <2> QED
    BY <1>2, <2>1, <2>2 DEF CliDecide, TypeOK, Records
<1>3. ASSUME NEW c \in Calls, ConsumeApproval(c)
      PROVE  records' \in Records
  <2> DEFINE r == input[c].ref
  <2>1. r \in Refs
    BY <1>3, WriteGateAssumption DEF ConsumeApproval, TypeOK, IsInput
  <2>2. CASE records[r] # None
    <3>1. records[r] \in Record
      BY <2>1, <2>2 DEF TypeOK, Records
    <3>2. [records[r] EXCEPT !.consumed = TRUE] \in Record
      BY ZenonT(60), <3>1 DEF Record
    <3> QED
      BY ZenonT(60), <1>3, <2>1, <3>2 DEF ConsumeApproval, TypeOK, Records
  <2>3. CASE records[r] = None
    BY <1>3, <2>3 DEF ConsumeApproval, TypeOK
  <2> QED
    BY <2>2, <2>3
<1>4. CASE UNCHANGED records
  BY <1>4 DEF TypeOK
<1> QED
  BY ZenonT(60), <1>1, <1>2, <1>3, <1>4 DEF Next, Step, Tick, CliStops, Receive,
    VerifyApproval, StoreFails, GateAudit, Prepare, Execute, SaveDownload,
    Report, ServerStops, Quiescent, sharedVars, vars

\* Types are kept by every step.
LEMMA TypeStep ==
    ASSUME TypeOK, CliInv, [Next]_vars
    PROVE  TypeOK'
<1> USE DEF TypeOK
<1>1. CASE UNCHANGED vars
  BY <1>1 DEF vars, history
<1>2. CASE Next
  <2>1. records' \in Records
    BY <1>2, RecordsType
  <2>2. ASSUME Tick PROVE TypeOK'
    BY <2>2 DEF Tick, history
  <2>3. ASSUME NEW k \in Clis, NEW r \in Refs, NEW q \in Payloads,
               CliCreate(k, r, q)
        PROVE  TypeOK'
    BY ZenonT(60), <2>1, <2>3 DEF CliCreate, history
  <2>4. ASSUME NEW k \in Clis, NEW v \in Verdicts, CliDecide(k, v)
        PROVE  TypeOK'
    BY <2>1, <2>4 DEF CliDecide, history
  <2>5. ASSUME NEW k \in Clis, CliStops(k) PROVE TypeOK'
    BY <2>5 DEF CliStops, history
  <2>6. ASSUME NEW c \in Calls, NEW i \in Inputs[c], Receive(c, i)
        PROVE  TypeOK'
    <3>1. input' \in [Calls -> (UNION {Inputs[d] : d \in Calls}) \cup {None}]
      BY <2>6 DEF Receive
    <3>2. /\ pc' \in [Calls -> Working \cup {"new", "done", "dead"}]
          /\ \A d \in Calls : pc'[d] # "new" => input'[d] \in Inputs[d]
      BY ZenonT(60), <2>6 DEF Receive, Finish, Go, Working
    <3>3. DOMAIN log' = Calls /\ DOMAIN missed' = Calls
      BY <2>6 DEF Receive, Finish, RecordAudit
    <3> QED
      BY <2>6, <3>1, <3>2, <3>3 DEF Receive, sharedVars, history
  <2>7. ASSUME NEW c \in Calls, VerifyApproval(c) PROVE TypeOK'
    <3>1. /\ pc[c] = "verify"
          /\ \E p \in {"gate", "done"} : pc' = [pc EXCEPT ![c] = p]
          /\ \/ verifiedAt' = verifiedAt
             \/ verifiedAt' = [verifiedAt EXCEPT ![c] = now]
          /\ UNCHANGED <<now, records, cli, deps, input, issued, dir, usedBy>>
      BY <2>7 DEF VerifyApproval, Finish, Go, sharedVars
    <3>2. /\ pc' \in [Calls -> Working \cup {"new", "done", "dead"}]
          /\ \A d \in Calls : pc'[d] # "new" => pc[d] # "new"
      BY SMTT(60), Z3T(60), <3>1 DEF Working
    <3>3. DOMAIN log' = Calls /\ DOMAIN missed' = Calls
      BY <2>7 DEF VerifyApproval, Finish, RecordAudit
    <3>4. verifiedAt' \in [Calls -> Nat]
      BY <3>1
    <3> QED
      BY ZenonT(60), <3>1, <3>2, <3>3, <3>4
  <2>8. ASSUME NEW c \in Calls, StoreFails(c) PROVE TypeOK'
    BY <2>8 DEF StoreFails, Finish, RecordAudit, Go, Working, sharedVars,
      history
  <2>9. ASSUME NEW c \in Calls, GateAudit(c) PROVE TypeOK'
    BY ZenonT(60), <2>9 DEF GateAudit, Go, Working, sharedVars, history
  <2>10. ASSUME NEW c \in Calls, Prepare(c) PROVE TypeOK'
    BY ZenonT(60), <2>10 DEF Prepare, Finish, RecordAudit, Go, Working,
       sharedVars,
      history, Dirs
  <2>11. ASSUME NEW c \in Calls, ConsumeApproval(c) PROVE TypeOK'
    <3>0. /\ pc[c] = "consume" /\ UNCHANGED input
          /\ \E p \in {"execute", "done"} : pc' = [pc EXCEPT ![c] = p]
      BY <2>11 DEF ConsumeApproval, Finish, Go
    <3>1. /\ pc' \in [Calls -> Working \cup {"new", "done", "dead"}]
          /\ \A d \in Calls : pc'[d] # "new" => pc[d] # "new"
      BY <3>0 DEF Working
    <3>2. DOMAIN log' = Calls /\ DOMAIN missed' = Calls
      BY <2>11 DEF ConsumeApproval, Finish, RecordAudit
    <3>3. usedBy' \in [Refs -> SUBSET Calls]
      <4> DEFINE r == input[c].ref
      <4>1. \/ usedBy' = usedBy
            \/ usedBy' = [usedBy EXCEPT ![r] = @ \cup {c}]
        BY <2>11 DEF ConsumeApproval
      <4>2. usedBy \in [Refs -> SUBSET Calls]
        OBVIOUS
      <4>3. r \in Refs => usedBy[r] \cup {c} \in SUBSET Calls
        BY <4>2
      <4> HIDE DEF r, TypeOK
      <4> QED
        BY <4>1, <4>2, <4>3
    <3>4. UNCHANGED <<now, cli, issued, deps, dir, verifiedAt>>
      BY <2>11 DEF ConsumeApproval
    <3> QED
      BY <2>1, <3>0, <3>1, <3>2, <3>3, <3>4
  <2>12. ASSUME NEW c \in Calls, Execute(c) PROVE TypeOK'
    BY <2>12 DEF Execute, Go, Working, sharedVars, history
  <2>13. ASSUME NEW c \in Calls, SaveDownload(c) PROVE TypeOK'
    BY ZenonT(60), <2>13 DEF SaveDownload, Go, Working, sharedVars, history
  <2>14. ASSUME NEW c \in Calls, Report(c) PROVE TypeOK'
    BY <2>14 DEF Report, Finish, RecordAudit, Go, Working, sharedVars, history
  <2>15. ASSUME ServerStops PROVE TypeOK'
    BY <2>15 DEF ServerStops, Working, sharedVars, history
  <2>16. ASSUME Quiescent PROVE TypeOK'
    BY <2>16, <1>1 DEF Quiescent
  <2> QED
    BY ZenonT(60), <1>2, <2>2, <2>3, <2>4, <2>5, <2>6, <2>7, <2>8, <2>9, <2>10,
       <2>11,
       <2>12, <2>13, <2>14, <2>15, <2>16 DEF Next, Step
<1> QED
  BY <1>1, <1>2
-----------------------------------------------------------------------------
(* What a step may do to the store, and to a call *)

Consumed(r) == records[r] # None /\ records[r].consumed

\* The call c consumes its approval.
Consumes(c) ==
    /\ c \in Calls /\ Ref(c) \in Refs
    /\ pc[c] = "consume" /\ pc'[c] = "execute"
    /\ records[Ref(c)] # None /\ ~records[Ref(c)].consumed
    /\ records' = [records EXCEPT ![Ref(c)].consumed = TRUE]
    /\ usedBy' = [usedBy EXCEPT ![Ref(c)] = @ \cup {c}]
    /\ UNCHANGED cli

\* Records only grow, and only a call that consumes its approval, which
\* nothing has consumed before, changes who has used what.
LEMMA StoreMoves ==
    ASSUME TypeOK, CliInv, [Next]_vars
    PROVE  /\ \A r \in Refs : Grows(records[r], records'[r])
           /\ \/ \E c \in Calls : Consumes(c)
              \/ /\ UNCHANGED usedBy
                 /\ \A r \in Refs : Consumed(r)' <=> Consumed(r)
<1> USE DEF TypeOK, Consumed, Grows
<1>1. CASE UNCHANGED <<records, usedBy>>
  BY <1>1
<1>2. ASSUME NEW k \in Clis, NEW r \in Refs, NEW q \in Payloads,
             CliCreate(k, r, q)
      PROVE  /\ \A s \in Refs : Grows(records[s], records'[s])
             /\ UNCHANGED usedBy
             /\ \A s \in Refs : Consumed(s)' <=> Consumed(s)
  <2>1. ~NewRecord(q, now).consumed
    BY DEF NewRecord
  <2> QED
    BY ZenonT(60), <1>2, <2>1 DEF CliCreate, Records, history
<1>3. ASSUME NEW k \in Clis, NEW v \in Verdicts, CliDecide(k, v)
      PROVE  /\ \A s \in Refs : Grows(records[s], records'[s])
             /\ UNCHANGED usedBy
             /\ \A s \in Refs : Consumed(s)' <=> Consumed(s)
  <2> DEFINE r == cli[k]
             rec == IF records[r].decision = None
                    THEN [records[r] EXCEPT !.decision = v] ELSE records[r]
  <2>1. r \in Refs /\ records[r] \in Record /\ records[r] # None
    BY <1>3 DEF CliDecide, CliInv, Records
  <2>2. rec \in Record /\ rec # None
    BY ZenonT(60), <2>1, ApprovalsAssumption DEF Record
  <2>3. /\ rec.req = records[r].req /\ rec.created = records[r].created
        /\ rec.consumed = records[r].consumed
        /\ records[r].decision # None => rec.decision = records[r].decision
    BY <2>1 DEF Record
  <2>4. records' = [records EXCEPT ![r] = rec] /\ UNCHANGED usedBy
    BY <1>3, <2>1 DEF CliDecide, history, Records
  <2> HIDE DEF rec
  <2> QED
    BY <2>1, <2>2, <2>3, <2>4 DEF Records
<1>4. ASSUME NEW c \in Calls, ConsumeApproval(c)
      PROVE  \/ Consumes(c) /\ \A s \in Refs : Grows(records[s], records'[s])
             \/ UNCHANGED <<records, usedBy>>
  <2> DEFINE r == input[c].ref
  <2>1. r \in Refs
    BY <1>4, WriteGateAssumption DEF ConsumeApproval, IsInput
  <2>2. CASE UNCHANGED <<records, usedBy>>
    BY <2>2
  <2>3. CASE /\ records[r] # None /\ ~records[r].consumed
             /\ records' = [records EXCEPT ![r].consumed = TRUE]
             /\ usedBy' = [usedBy EXCEPT ![r] = @ \cup {c}]
             /\ Go(c, "execute")
    <3>1. Consumes(c)
      BY <1>4, <2>1, <2>3 DEF Consumes, Ref, ConsumeApproval, Go
    <3>2. records[r] \in Record
      BY <2>1, <2>3 DEF Records
    <3>3. records'[r] = [records[r] EXCEPT !.consumed = TRUE]
      BY ZenonT(60), <2>1, <2>3 DEF Records
    <3>4. records'[r] \in Record
      BY ZenonT(60), <3>2, <3>3 DEF Record
    <3>5. records'[r] # None
      BY <3>4, ApprovalsAssumption
    <3>6. Grows(records[r], records'[r])
      BY <3>2, <3>3, <3>5 DEF Record
    <3>7. \A s \in Refs : s # r => records'[s] = records[s]
      BY <2>1, <2>3 DEF Records
    <3>8. \A s \in Refs : Grows(records[s], records'[s])
      BY ZenonT(60), <3>6, <3>7
    <3> QED
      BY <3>1, <3>8
  <2> QED
    BY <1>4, <2>2, <2>3 DEF ConsumeApproval
<1> QED
  BY ZenonT(60), <1>1, <1>2, <1>3, <1>4 DEF Next, Step, Tick, CliStops, Receive,
    VerifyApproval, StoreFails, GateAudit, Prepare, Execute, SaveDownload,
    Report, ServerStops, Quiescent, sharedVars, vars, history
\* How far call c may get in a step, and what it leaves behind.
Moves(c) ==
    /\ pc[c] # "new" => pc'[c] # "new" /\ input'[c] = input[c]
    /\ pc[c] = "new" => pc'[c] \in {"new", "verify", "done"}
    /\ pc[c] \notin Early \cup {"new"} => pc'[c] \notin Early \cup {"new"}
    /\ pc'[c] \in Past =>
        \/ pc[c] \in Past
        \/ /\ pc[c] = "verify" /\ verifiedAt'[c] = now
           /\ records[Ref(c)] # None
           /\ Verified(StatusOf(records[Ref(c)], now), input[c].req)
    /\ pc[c] # "verify" => verifiedAt'[c] = verifiedAt[c]
    /\ pc'[c] = "execute" =>
        pc[c] = "execute" \/ (pc[c] = "consume" /\ c \in usedBy'[Ref(c)])
    /\ issued'[c] # issued[c] => pc[c] = "execute"

\* Every step moves every call as Moves says, one case per action.
LEMMA CallMoves ==
    ASSUME TypeOK, [Next]_vars, NEW d \in Calls
    PROVE  Moves(d)
<1> DEFINE W == Working \cup {"new", "done", "dead"}
<1>0. /\ pc \in [Calls -> W] /\ DOMAIN input = Calls /\ DOMAIN issued = Calls
      /\ DOMAIN verifiedAt = Calls
  BY DEF TypeOK
<1> USE <1>0 DEF Moves, Early, Past
<1> HIDE DEF W
<1>1. CASE UNCHANGED <<pc, input, issued, verifiedAt>>
  BY <1>1
<1>2. ASSUME NEW c \in Calls, NEW i \in Inputs[c], Receive(c, i)
      PROVE  Moves(d)
  BY ZenonT(60), <1>2 DEF Receive, Finish, Go, history
<1>3. ASSUME NEW c \in Calls, VerifyApproval(c) PROVE Moves(d)
  BY ZenonT(60), <1>3 DEF VerifyApproval, Finish, Go, Ref
<1>4. ASSUME NEW c \in Calls, StoreFails(c) PROVE Moves(d)
  BY ZenonT(60), <1>4 DEF StoreFails, Finish, Go, history
<1>5. ASSUME NEW c \in Calls, GateAudit(c) PROVE Moves(d)
  BY ZenonT(60), <1>5 DEF GateAudit, Go, history
<1>6. ASSUME NEW c \in Calls, Prepare(c) PROVE Moves(d)
  BY <1>6 DEF Prepare, Finish, Go, history
<1>7. ASSUME NEW c \in Calls, ConsumeApproval(c) PROVE Moves(d)
  <2>1. input[c].ref \in Refs
    BY <1>7, WriteGateAssumption DEF ConsumeApproval, IsInput, TypeOK
  <2>2. /\ pc[c] = "consume" /\ UNCHANGED <<input, issued, verifiedAt>>
        /\ \/ /\ pc' = [pc EXCEPT ![c] = "execute"]
              /\ usedBy' = [usedBy EXCEPT ![Ref(c)] = @ \cup {c}]
           \/ pc' = [pc EXCEPT ![c] = "done"]
    BY ZenonT(60), <1>7 DEF ConsumeApproval, Finish, Go, Ref
  <2>3. pc'[c] = "execute" => c \in usedBy'[Ref(c)]
    BY SMTT(60), Z3T(60), <2>1, <2>2 DEF Ref, TypeOK
  <2> QED
    BY <2>2, <2>3
<1>8. ASSUME NEW c \in Calls, Execute(c) PROVE Moves(d)
  BY ZenonT(60), <1>8 DEF Execute, Go, history
<1>9. ASSUME NEW c \in Calls, SaveDownload(c) PROVE Moves(d)
  BY ZenonT(60), <1>9 DEF SaveDownload, Go, history
<1>10. ASSUME NEW c \in Calls, Report(c) PROVE Moves(d)
  BY ZenonT(60), <1>10 DEF Report, Finish, Go, history
<1>11. ASSUME ServerStops PROVE Moves(d)
  BY <1>11 DEF ServerStops, history, Working
<1> QED
  BY ZenonT(60), <1>1, <1>2, <1>3, <1>4, <1>5, <1>6, <1>7, <1>8, <1>9, <1>10,
     <1>11
     DEF Next, Step, Tick, CliCreate, CliDecide, CliStops, Quiescent, vars,
       history

-----------------------------------------------------------------------------
(* The invariant *)

IInv == TypeOK /\ CliInv /\ UseInv /\ ExecInv /\ AuthInv

\* The invariant holds when the server starts on an empty store.
LEMMA InitInv == ASSUME Init PROVE IInv
<1>1. TypeOK
  BY WriteGateAssumption DEF Init, TypeOK, Records, EmptyRecords
<1>2. CliInv /\ UseInv /\ ExecInv /\ AuthInv
  BY WriteGateAssumption DEF Init, CliInv, UseInv, ExecInv, AuthInv,
    EmptyRecords, Past
<1> QED
  BY ZenonT(60), <1>1, <1>2 DEF IInv

\* Only CliCreate, which stores a record, hands a run of approve a reference.
LEMMA CliStep == ASSUME IInv, [Next]_vars PROVE CliInv'
<1> USE DEF IInv, CliInv
<1>1. \A r \in Refs : records[r] # None => records'[r] # None
  BY StoreMoves DEF Grows
<1>2. CASE UNCHANGED cli
  BY <1>1, <1>2
<1>3. ASSUME NEW k \in Clis, NEW r \in Refs, NEW q \in Payloads,
             CliCreate(k, r, q)
      PROVE  CliInv'
  <2>1. NewRecord(q, now) # None
    BY NewRecordType, ApprovalsAssumption DEF TypeOK
  <2>2. cli' = [cli EXCEPT ![k] = r] => records'[r] # None
    BY <1>3, <2>1, WriteGateAssumption DEF CliCreate, TypeOK, Records
  <2> QED
    BY ZenonT(60), <1>1, <1>3, <2>2, WriteGateAssumption DEF CliCreate, TypeOK
<1>4. ASSUME NEW k \in Clis, cli' = [cli EXCEPT ![k] = "gone"]
      PROVE  CliInv'
  BY ZenonT(60), <1>1, <1>4, WriteGateAssumption DEF TypeOK
<1> QED
  BY ZenonT(60), <1>2, <1>3, <1>4 DEF Next, Step, Tick, CliDecide, CliStops,
     Receive,
    VerifyApproval, StoreFails, GateAudit, Prepare, ConsumeApproval, Execute,
    SaveDownload, Report, ServerStops, Quiescent, sharedVars, vars

\* Consume succeeds only on an approval nobody has used.
LEMMA UseStep == ASSUME IInv, [Next]_vars PROVE UseInv'
<1> USE DEF IInv
<1>1. \A c \in Calls : Moves(c)
  BY CallMoves
<1>2. ASSUME NEW r \in Refs, NEW c \in usedBy[r]
      PROVE  Ref(c)' = r /\ pc'[c] \notin Early \cup {"new"}
  BY SMTT(60), Z3T(60), <1>1 DEF UseInv, TypeOK, Moves, Ref
<1>3. CASE UNCHANGED usedBy /\ \A r \in Refs : Consumed(r)' <=> Consumed(r)
  BY <1>2, <1>3 DEF UseInv, Consumed
<1>4. ASSUME NEW c \in Calls, Consumes(c) PROVE UseInv'
  <2> DEFINE r == Ref(c)
  <2>1. r \in Refs /\ usedBy[r] = {}
    BY <1>4 DEF Consumes, UseInv
  <2>2. usedBy'[r] = {c} /\ \A s \in Refs : s # r => usedBy'[s] = usedBy[s]
    BY <1>4, <2>1 DEF Consumes, TypeOK
  <2>3. Ref(c)' = r /\ pc'[c] \notin Early \cup {"new"}
    BY <1>1, <1>4 DEF Consumes, Moves, Ref, Early
  <2>4. records'[r] # None
    BY <1>4, <2>1, StoreMoves DEF Grows, Consumes
  <2>5. /\ records'[r].consumed
        /\ \A s \in Refs : s # r => records'[s] = records[s]
    BY <1>4, <2>1 DEF Consumes, TypeOK, Records, Record
  <2> HIDE DEF r
  <2> QED
    BY <1>2, <2>1, <2>2, <2>3, <2>4, <2>5 DEF UseInv
<1> QED
  BY <1>3, <1>4, StoreMoves

\* Who has used an approval stays so, and only a call at Consume is added.
LEMMA Users ==
    ASSUME IInv, [Next]_vars, NEW c \in Calls
    PROVE  /\ c \in usedBy[Ref(c)] /\ pc[c] # "new" /\ Ref(c) \in Refs =>
                c \in usedBy'[Ref(c)] /\ Ref(c)' = Ref(c)
           /\ pc'[c] # "new" /\ c \in usedBy'[Ref(c)'] /\ Ref(c)' \in Refs =>
                /\ pc[c] # "new" /\ Ref(c)' = Ref(c)
                /\ c \in usedBy[Ref(c)] \/ pc[c] = "consume"
<1> USE DEF IInv
<1>1. Moves(c)
  BY CallMoves
<1>2. ASSUME NEW r \in Refs, c \in usedBy'[r]
      PROVE  c \in usedBy[r] \/ (pc[c] = "consume" /\ Ref(c) = r)
  <2>1. ASSUME NEW d \in Calls, Consumes(d)
        PROVE  c \in usedBy[r] \/ (pc[c] = "consume" /\ Ref(c) = r)
    BY <1>2, <2>1 DEF Consumes, TypeOK
  <2> QED
    BY <1>2, <2>1, StoreMoves
<1>3. \A r \in Refs : usedBy[r] \subseteq usedBy'[r]
  <2>1. ASSUME NEW d \in Calls, Consumes(d)
        PROVE  \A r \in Refs : usedBy[r] \subseteq usedBy'[r]
    BY <2>1 DEF Consumes, TypeOK
  <2> QED
    BY <2>1, StoreMoves
<1>4. pc[c] # "new" => Ref(c)' = Ref(c)
  BY <1>1 DEF Moves, Ref
<1>5. ASSUME NEW r \in Refs, c \in usedBy[r]
      PROVE  pc[c] # "new" /\ Ref(c) = r
  BY <1>5 DEF UseInv
<1> QED
  BY <1>1, <1>2, <1>3, <1>4, <1>5 DEF Moves

\* The reference of a call that has been received.
LEMMA RefType ==
    ASSUME TypeOK, NEW c \in Calls, pc[c] # "new"
    PROVE  Ref(c) \in Refs /\ IsRequest(input[c].req)
BY WriteGateAssumption DEF TypeOK, Ref, IsInput

\* A call gets to Velociraptor, and stays there, only by consuming.
LEMMA ExecStep == ASSUME IInv, [Next]_vars PROVE ExecInv'
<1> SUFFICES ASSUME NEW c \in Calls, pc'[c] = "execute" \/ issued'[c] # <<>>
             PROVE  pc'[c] # "new" /\ c \in usedBy'[Ref(c)']
  BY DEF ExecInv, Ref
<1> USE DEF IInv
<1>1. Moves(c)
  BY CallMoves
<1>2. CASE pc[c] = "execute" \/ issued[c] # <<>>
  <2>1. pc[c] # "new" /\ c \in usedBy[Ref(c)]
    BY ZenonT(60), <1>2 DEF ExecInv
  <2> QED
    BY <1>1, <2>1, RefType, Users DEF Moves
<1>3. CASE pc[c] = "consume" /\ c \in usedBy'[Ref(c)]
  BY ZenonT(60), <1>1, <1>3 DEF Moves, Ref
<1> QED
  BY <1>1, <1>2, <1>3 DEF Moves

\* What verifyApproval saw still holds later: a record keeps its request, its
\* creation time and its decision.
LEMMA AuthStep == ASSUME IInv, [Next]_vars PROVE AuthInv'
<1> SUFFICES ASSUME NEW c \in Calls,
                    \/ pc'[c] \in Past
                    \/ pc'[c] # "new" /\ c \in usedBy'[Ref(c)']
             PROVE  Authorises(records'[Ref(c)'], input'[c].req, verifiedAt'[c])
  BY ZenonT(60) DEF AuthInv, Authorises, Ref, Targeting
<1> USE DEF IInv
<1>0. TypeOK' /\ Moves(c)
  BY TypeStep, CallMoves
<1>1. pc'[c] # "new" /\ Ref(c)' \in Refs
  <2>1. pc'[c] # "new"
    BY DEF Past
  <2> QED
    BY <1>0, <2>1, WriteGateAssumption DEF TypeOK, Ref, IsInput
<1>2. pc[c] # "new" /\ Ref(c)' = Ref(c) /\ input'[c] = input[c]
  <2>1. CASE pc'[c] \in Past
    BY ZenonT(60), <1>0, <2>1 DEF Moves, Past, Ref
  <2>2. CASE c \in usedBy'[Ref(c)']
    BY ZenonT(60), <1>0, <1>1, <2>2, Users DEF Moves
  <2> QED
    BY <2>1, <2>2
<1>3. CASE pc[c] \in Past \/ c \in usedBy[Ref(c)]
  <2>1. Authorises(records[Ref(c)], input[c].req, verifiedAt[c])
    BY ZenonT(60), <1>2, <1>3 DEF AuthInv
  <2>2. verifiedAt'[c] = verifiedAt[c]
    <3>1. pc[c] # "verify"
      BY <1>1, <1>2, <1>3 DEF Past, UseInv, Early
    <3> QED
      BY ZenonT(60), <1>0, <3>1 DEF Moves
  <2>3. Grows(records[Ref(c)], records'[Ref(c)])
    BY <1>1, <1>2, StoreMoves
  <2> QED
    BY ZenonT(60), <1>2, <2>1, <2>2, <2>3, ApprovalsAssumption
       DEF Authorises, Grows, Verdicts
<1>4. CASE /\ pc[c] = "verify" /\ verifiedAt'[c] = now
           /\ records[Ref(c)] # None
           /\ Verified(StatusOf(records[Ref(c)], now), input[c].req)
  <2> DEFINE rec == records[Ref(c)]
  <2>1. rec \in Record /\ Ref(c) \in Refs
    BY ZenonT(60), <1>1, <1>2, <1>4 DEF TypeOK, Records
  <2>2. /\ Fingerprint(rec.req) = Fingerprint(input[c].req)
        /\ rec.decision = "approved" /\ ~Expired(rec, now)
    BY ZenonT(60), <1>4 DEF Verified, StatusOf
  <2>3. Targeting(rec.req) = Targeting(input[c].req)
    <3>1. IsRequest(rec.req)
      BY <2>1, WriteGateAssumption DEF Record
    <3> QED
      BY ZenonT(60), <1>2, <2>2, <3>1, RefType, FingerprintTargets
  <2>4. now - rec.created <= TTL
    BY SMTT(60), Z3T(60), <2>1, <2>2, ApprovalsAssumption
       DEF Expired, TypeOK, Record
  <2>5. Grows(rec, records'[Ref(c)])
    BY <2>1, StoreMoves
  <2> HIDE DEF rec
  <2> QED
    BY ZenonT(60), <1>2, <1>4, <2>1, <2>2, <2>3, <2>4, <2>5, ApprovalsAssumption
       DEF Authorises, Grows, Verdicts, rec
<1> QED
  <2>1. CASE pc'[c] \in Past
    BY ZenonT(60), <1>0, <1>3, <1>4, <2>1 DEF Moves
  <2>2. CASE c \in usedBy'[Ref(c)']
    BY <1>1, <1>2, <1>3, <2>2, Users DEF Past
  <2> QED
    BY ZenonT(60), <1>1, <2>1, <2>2

\* The invariant is inductive.
LEMMA InvStep == ASSUME IInv, [Next]_vars PROVE IInv'
BY TypeStep, CliStep, UseStep, ExecStep, AuthStep DEF IInv

\* The invariant holds in every reachable state.
LEMMA Invariance == Spec => []IInv
BY InitInv, InvStep, PTL DEF Spec

\* An approval is never executed twice, whichever calls name it and however
\* they interleave with each other and with stops of the server: consumeApproval
\* lets one call through, and only that one goes on to Velociraptor.
THEOREM SingleExecution == Spec => []OneExecutionPerApproval
<1>1. IInv => OneExecutionPerApproval
  <2> SUFFICES ASSUME IInv, NEW c \in Calls, NEW d \in Calls,
                      issued[c] # <<>>, issued[d] # <<>>, Ref(c) = Ref(d)
               PROVE  c = d
    BY DEF OneExecutionPerApproval
  <2>1. c \in usedBy[Ref(c)] /\ d \in usedBy[Ref(c)] /\ pc[c] # "new"
    BY DEF IInv, ExecInv
  <2>2. Ref(c) \in Refs
    BY <2>1, RefType DEF IInv
  <2> QED
    BY ZenonT(60), <2>1, <2>2 DEF IInv, UseInv
<1> QED
  BY <1>1, Invariance, PTL

\* Velociraptor is called only under an approval that a human has granted for
\* this operation, target and scope, that was fresh when verifyApproval looked
\* and that consumeApproval has used up, for any set of calls, approvals and
\* runs of the approve command and any TTL.
THEOREM Authorisation == Spec => []ExecutionAuthorised
<1>1. IInv => ExecutionAuthorised
  <2> SUFFICES ASSUME IInv, NEW c \in Calls, issued[c] # <<>>
               PROVE  /\ Authorises(records[Ref(c)], input[c].req,
                                    verifiedAt[c])
                      /\ records[Ref(c)].consumed
    BY DEF ExecutionAuthorised, Authorises
  <2>1. c \in usedBy[Ref(c)] /\ pc[c] # "new"
    BY DEF IInv, ExecInv
  <2>2. Ref(c) \in Refs
    BY <2>1, RefType DEF IInv
  <2> QED
    BY <2>1, <2>2 DEF IInv, UseInv, AuthInv
<1> QED
  BY <1>1, Invariance, PTL

-----------------------------------------------------------------------------
(* The gates do not change under a call *)

\* The configuration is fixed, and a download directory never becomes unset or
\* stops being a directory.
LEMMA DirMoves ==
    ASSUME TypeOK, [Next]_vars
    PROVE  /\ deps' = deps
           /\ dir' = "unset" <=> dir = "unset"
           /\ dir \in {"writable", "readonly"} =>
                dir' \in {"writable", "readonly"}
<1>1. deps' = deps
  BY ZenonT(60) DEF Next, Step, Tick, CliCreate, CliDecide, CliStops, Receive,
    VerifyApproval, StoreFails, GateAudit, Prepare, ConsumeApproval, Execute,
    SaveDownload, Report, ServerStops, Quiescent, sharedVars, vars
<1>2. CASE UNCHANGED dir
  BY <1>1, <1>2
<1>3. ASSUME NEW c \in Calls, Prepare(c)
      PROVE  dir' = dir \/ (dir = "missing" /\ dir' = "writable")
  BY <1>3 DEF Prepare
<1> QED
  BY ZenonT(60), <1>1, <1>2, <1>3 DEF Next, Step, Tick, CliCreate, CliDecide,
     CliStops,
    Receive, VerifyApproval, StoreFails, GateAudit, ConsumeApproval, Execute,
    SaveDownload, Report, ServerStops, Quiescent, vars

\* The gates depend on the configuration and on whether the download directory
\* is set, and on nothing else that changes.
LEMMA GatesKept ==
    ASSUME deps' = deps, dir' = "unset" <=> dir = "unset", NEW i
    PROVE  Gates(i)' = Gates(i)
<1>1. \A q : TargetAll(q)' = TargetAll(q)
  BY DEF TargetAll, Gate
<1>2. DownloadGates(i)' = DownloadGates(i)
  <2>1. CASE dir = "unset"
    BY <2>1 DEF DownloadGates, Gate
  <2>2. CASE dir # "unset"
    BY ZenonT(60), <2>2 DEF DownloadGates, Gate
  <2> QED
    BY <2>1, <2>2
<1>3. /\ StartHuntGates(i)' = StartHuntGates(i)
      /\ StartDFIRHuntGates(i)' = StartDFIRHuntGates(i)
      /\ HuntIOCGates(i)' = HuntIOCGates(i)
  BY <1>1 DEF StartHuntGates, StartDFIRHuntGates, HuntIOCGates
<1> QED
  BY <1>2, <1>3 DEF Gates

\* What a gate says of arguments once, it says at every later step.
LEMMA AcceptedKept ==
    ASSUME deps' = deps, dir' = "unset" <=> dir = "unset", NEW i
    PROVE  (Accepted(i)' <=> Accepted(i)) /\ (Unaudited(i)' <=> Unaudited(i))
<1>1. Gates(i)' = Gates(i)
  BY GatesKept
<1>2. Accepted(i)' <=> Accepted(i)
  BY <1>1 DEF Accepted
<1>3. Refusal(i)' = Refusal(i)
  BY <1>1 DEF Refusal
<1> QED
  BY <1>2, <1>3 DEF Unaudited

Refusals == {"silent", "blocked", "error"}

\* The outcome of a gate that shuts is one of the three.
LEMMA RefusalType ==
    ASSUME TypeOK, NEW i, IsInput(i), ~Accepted(i)
    PROVE  Refusal(i) \in Refusals
<1> DEFINE G == [passes: BOOLEAN, outcome: Refusals]
           Short == {s \in Seq(G) : Len(s) <= 6}
<1>1. \A p \in BOOLEAN, o \in Refusals : Gate(p, o) \in G
  BY DEF Gate
<1>2. /\ CollectArtifactGates(i) \in Short
      /\ CollectDFIRProfileGates(i) \in Short
      /\ CancelFlowGates(i) \in Short
      /\ CancelHuntGates(i) \in Short
      /\ DownloadGates(i) \in Short
  BY DEF CollectArtifactGates, CollectDFIRProfileGates, CancelFlowGates,
    CancelHuntGates, DownloadGates, HuntWriteInput, Gate, Refusals, IsInput,
    ValidProfile
<1>3. /\ StartHuntGates(i) \in Short
      /\ StartDFIRHuntGates(i) \in Short
      /\ HuntIOCGates(i) \in Short
  BY DEF StartHuntGates, StartDFIRHuntGates, HuntIOCGates, HuntWriteInput,
    TargetAll, Gate, Refusals, IsInput, ValidProfile, ValidScope
<1> HIDE DEF G
<1>4. Gates(i) \in Seq(G) /\ Len(Gates(i)) <= 7
  <2>1. <<Gate(deps.pilot, "blocked")>> \in Seq(G)
    BY DEF Gate, Refusals, G, TypeOK, Deployment
  <2>2. ASSUME NEW s \in Short
        PROVE  LET g == <<Gate(deps.pilot, "blocked")>> \o s
               IN  g \in Seq(G) /\ Len(g) <= 7
    BY <2>1
  <2>3. i.req.op \in {"collect_artifact", "collect_dfir_profile", "cancel_flow",
          "start_hunt", "start_dfir_hunt", "cancel_hunt", "hunt_ioc",
          "download_flow_upload"}
    BY DEF IsInput, IsRequest, Ops, ProfileOps, ArtifactOps, HuntOps, ScopedOps
  <2> HIDE DEF Short
  <2> QED
    BY ZenonT(60), <1>2, <1>3, <2>2, <2>3 DEF Gates
<1> DEFINE shut == {n \in DOMAIN Gates(i) : ~Gates(i)[n].passes}
           first == CHOOSE n \in shut : \A m \in shut : n <= m
<1>5. shut # {} /\ shut \subseteq 1 .. 7
  BY <1>4 DEF Accepted
<1>6. Refusal(i) = Gates(i)[first].outcome
  BY DEF Refusal
<1> HIDE DEF shut
<1>7. \E n \in shut : \A m \in shut : n <= m
  <2>1. ASSUME NEW k \in 1 .. 7, k \in shut,
               \A j \in 1 .. 7 : j < k => j \notin shut
        PROVE  \E n \in shut : \A m \in shut : n <= m
    BY <1>5, <2>1
  <2>2. \A k \in 1 .. 7 : \/ k = 1 \/ k = 2 \/ k = 3 \/ k = 4
                         \/ k = 5 \/ k = 6 \/ k = 7
    OBVIOUS
  <2>3. \/ 1 \in shut \/ 2 \in shut \/ 3 \in shut \/ 4 \in shut \/ 5 \in shut
        \/ 6 \in shut \/ 7 \in shut
    BY ZenonT(60), <1>5, <2>2
  <2> QED
    BY <2>1, <2>2, <2>3
<1>8. first \in shut
  BY <1>7
<1>9. shut \subseteq DOMAIN Gates(i)
  BY DEF shut
<1> HIDE DEF first
<1>10. Gates(i)[first] \in G
  BY <1>4, <1>8, <1>9
<1> QED
  BY <1>6, <1>10 DEF G

-----------------------------------------------------------------------------
(* The audit log *)

Used(c) == pc[c] # "new" /\ c \in usedBy[Ref(c)]

\* A call uses its approval by Consume, and never gives it back.
LEMMA UsedMoves ==
    ASSUME IInv, [Next]_vars, NEW c \in Calls
    PROVE  /\ Used(c) => Used(c)'
           /\ Used(c)' => Used(c) \/ pc[c] = "consume"
<1>1. Moves(c) /\ TypeOK'
  BY ZenonT(60), CallMoves, TypeStep DEF IInv
<1>2. ASSUME Used(c) PROVE Used(c)'
  <2>1. Ref(c) \in Refs
    BY <1>2, RefType DEF Used, IInv
  <2>2. c \in usedBy'[Ref(c)] /\ Ref(c)' = Ref(c)
    BY <1>2, <2>1, Users DEF Used
  <2> QED
    BY <1>1, <1>2, <2>2 DEF Used, Moves
<1>3. ASSUME Used(c)' PROVE Used(c) \/ pc[c] = "consume"
  <2>1. pc'[c] # "new" /\ c \in usedBy'[Ref(c)']
    BY <1>3 DEF Used, Ref
  <2>2. Ref(c)' \in Refs
    BY <1>1, <2>1, WriteGateAssumption DEF TypeOK, Ref, IsInput
  <2> QED
    BY <2>1, <2>2, Users DEF Used
<1> QED
  BY <1>2, <1>3

\* Call c, with pc[c] one of from, ends with outcome o.
Ends(c, from, o) ==
    /\ pc[c] \in from /\ pc'[c] = "done"
    /\ \/ deps.audit /\ log'[c] = Append(log[c], o) /\ missed'[c] = missed[c]
       \/ deps.audit /\ log'[c] = log[c] /\ missed'[c]
       \/ ~deps.audit /\ log'[c] = log[c] /\ missed'[c] = missed[c]

Quiet(c) == log'[c] = log[c] /\ missed'[c] = missed[c]

\* What a step does to the audit log on behalf of call c.
Audits(c) ==
    \/ Quiet(c) /\ pc'[c] = pc[c] /\ input'[c] = input[c]
    \/ Quiet(c) /\ pc[c] \in Working /\ pc'[c] = "dead"
    \/ /\ Quiet(c) /\ pc[c] = "new" /\ pc'[c] = "verify"
       /\ \E i \in Inputs[c] : i = input'[c] /\ Accepted(i)
    \/ /\ Quiet(c) /\ pc[c] = "new" /\ pc'[c] = "done"
       /\ \E i \in Inputs[c] : i = input'[c] /\ Unaudited(i)
    \/ /\ Quiet(c) /\ pc[c] = "verify" /\ pc'[c] = "gate"
       /\ BackendReady(input[c].req)
    \/ Quiet(c) /\ pc[c] = "gate" /\ pc'[c] = "prepare" /\ ~deps.audit
    \/ /\ Quiet(c) /\ pc[c] = "prepare" /\ pc'[c] = "consume"
       /\ input[c].req.op = "download_flow_upload" =>
            /\ dir # "unmakable"
            /\ dir' = IF dir = "missing" THEN "writable" ELSE dir
    \/ /\ Quiet(c) /\ pc[c] \in {"consume", "execute", "save"}
       /\ pc'[c] \in {"execute", "save", "succeeded", "failed"}
    \/ /\ pc[c] = "gate" /\ pc'[c] = "prepare" /\ deps.audit
       /\ log'[c] = Append(log[c], "attempt") /\ missed'[c] = missed[c]
    \/ /\ pc[c] = "gate" /\ pc'[c] = "done" /\ deps.audit
       /\ log'[c] = log[c] /\ missed'[c]
    \/ \E o \in {"blocked", "error"} : Ends(c, {"new", "verify"}, o)
    \/ Ends(c, {"prepare", "consume", "failed", "verify"}, "error")
    \/ Ends(c, {"succeeded"}, "success")

\* Every step treats the log of every call as Audits says, one case per action.
LEMMA CallAudits ==
    ASSUME TypeOK, [Next]_vars, NEW d \in Calls
    PROVE  Audits(d)
<1> DEFINE W == Working \cup {"new", "done", "dead"}
<1>0. /\ pc \in [Calls -> W] /\ DOMAIN input = Calls
      /\ DOMAIN log = Calls /\ DOMAIN missed = Calls
  BY ZenonT(60) DEF TypeOK
<1> USE <1>0 DEF Quiet
<1> HIDE DEF W
<1>1. CASE UNCHANGED <<pc, input, log, missed>>
  BY ZenonT(60), <1>1 DEF Audits
<1>2. ASSUME NEW c \in Calls, NEW o, Finish(c, o), UNCHANGED input, c # d
      PROVE  Audits(d)
  BY ZenonT(60), <1>2 DEF Finish, RecordAudit, Go, Audits
<1>3. ASSUME NEW c \in Calls, NEW o, Finish(c, o)
      PROVE  \A from : pc[c] \in from => Ends(c, from, o)
  BY ZenonT(60), <1>3 DEF Finish, RecordAudit, Go, Ends
<1>4. ASSUME NEW c \in Calls, NEW i \in Inputs[c], Receive(c, i)
      PROVE  Audits(d)
  <2>1. CASE c # d
    BY ZenonT(60), <1>4, <2>1 DEF Receive, Finish, RecordAudit, Go, Audits
  <2>2. CASE /\ c = d /\ Accepted(i) /\ Go(c, "verify")
             /\ UNCHANGED <<log, missed>>
    BY ZenonT(60), <1>4, <2>2 DEF Receive, Go, Audits
  <2>3. CASE c = d /\ Unaudited(i) /\ Go(c, "done") /\ UNCHANGED <<log, missed>>
    BY <1>4, <2>3 DEF Receive, Go, Audits
  <2>4. CASE c = d /\ ~Accepted(i) /\ ~Unaudited(i) /\ Finish(c, Refusal(i))
    <3>1. Refusal(i) \in {"blocked", "error"}
      BY ZenonT(60), <2>4, RefusalType, WriteGateAssumption
         DEF Unaudited, Refusals
    <3>2. pc[c] \in {"new", "verify"}
      BY ZenonT(60), <1>4 DEF Receive
    <3>3. Ends(c, {"new", "verify"}, Refusal(i))
      BY SMTT(60), Z3T(60), <1>3, <2>4, <3>2
    <3> QED
      BY ZenonT(60), <2>4, <3>1, <3>3 DEF Audits
  <2> QED
    BY <1>4, <2>1, <2>2, <2>3, <2>4 DEF Receive
<1>5. ASSUME NEW c \in Calls, VerifyApproval(c) PROVE Audits(d)
  <2>1. CASE c = d /\ \E o \in {"blocked", "error"} : Finish(c, o)
    BY ZenonT(60), <1>3, <1>5, <2>1 DEF VerifyApproval, Audits
  <2>2. CASE \E o \in {"blocked", "error"} : Finish(c, o)
    BY <1>2, <1>5, <2>1, <2>2 DEF VerifyApproval
  <2>3. CASE /\ BackendReady(input[c].req) /\ Go(c, "gate")
             /\ UNCHANGED <<log, missed>>
    BY ZenonT(60), <1>5, <2>3 DEF VerifyApproval, Go, Audits
  <2> QED
    BY <1>5, <2>2, <2>3 DEF VerifyApproval
<1>6. ASSUME NEW c \in Calls, StoreFails(c) PROVE Audits(d)
  <2>1. /\ pc[c] \in {"prepare", "consume", "failed", "verify"}
        /\ Finish(c, "error")
    BY ZenonT(60), <1>6 DEF StoreFails
  <2>2. CASE c = d
    BY <1>3, <2>1, <2>2 DEF Audits
  <2> QED
    BY ZenonT(60), <1>2, <1>6, <2>1, <2>2 DEF StoreFails
<1>7. ASSUME NEW c \in Calls, GateAudit(c) PROVE Audits(d)
  BY ZenonT(60), <1>7 DEF GateAudit, Go, Audits
<1>8. ASSUME NEW c \in Calls, Prepare(c) PROVE Audits(d)
  <2>1. CASE Finish(c, "error")
    BY ZenonT(60), <1>2, <1>3, <1>8, <2>1 DEF Prepare, Audits
  <2>2. CASE ~Finish(c, "error")
    BY ZenonT(60), <1>8, <2>2 DEF Prepare, Go, Audits
  <2> QED
    BY <2>1, <2>2
<1>9. ASSUME NEW c \in Calls, ConsumeApproval(c) PROVE Audits(d)
  <2>1. CASE Finish(c, "error")
    BY ZenonT(60), <1>2, <1>3, <1>9, <2>1 DEF ConsumeApproval, Audits
  <2>2. CASE Go(c, "execute") /\ UNCHANGED <<log, missed>>
    BY SMTT(60), <1>9, <2>2 DEF ConsumeApproval, Go, Audits
  <2> QED
    BY ZenonT(60), <1>9, <2>1, <2>2 DEF ConsumeApproval
<1>10. ASSUME NEW c \in Calls, Execute(c) PROVE Audits(d)
  BY ZenonT(60), <1>10 DEF Execute, Go, Audits
<1>11. ASSUME NEW c \in Calls, SaveDownload(c) PROVE Audits(d)
  BY <1>11 DEF SaveDownload, Go, Audits
<1>12. ASSUME NEW c \in Calls, Report(c) PROVE Audits(d)
  <2>1. CASE c # d
    BY SMTT(60), Z3T(60), <1>2, <1>12, <2>1 DEF Report
  <2>2. CASE c = d /\ pc[c] = "succeeded"
    BY SMTT(60), <1>3, <1>12, <2>2 DEF Report, Audits
  <2>3. CASE c = d /\ pc[c] = "failed"
    BY ZenonT(60), <1>3, <1>12, <2>3 DEF Report, Audits
  <2> QED
    BY ZenonT(60), <1>12, <2>1, <2>2, <2>3 DEF Report
<1>13. ASSUME ServerStops PROVE Audits(d)
  BY <1>13 DEF ServerStops, Audits
<1> QED
  BY ZenonT(60), <1>1, <1>4, <1>5, <1>6, <1>7, <1>8, <1>9, <1>10, <1>11, <1>12,
     <1>13
     DEF Next, Step, Tick, CliCreate, CliDecide, CliStops, Quiescent, vars

IsDownload(c) == input[c].req.op = "download_flow_upload"

\* A call that has used its approval, or is on its way to, has passed what
\* stands before it.
ReadyInv ==
    \A c \in Calls :
        /\ pc[c] \in Early \/ Used(c) =>
            \A i \in Inputs[c] : i = input[c] => Accepted(i)
        /\ pc[c] \in Past \/ Used(c) => BackendReady(input[c].req)
        /\ (pc[c] = "consume" \/ Used(c)) /\ IsDownload(c) =>
            dir \in {"writable", "readonly"}

\* All the calls to Velociraptor that c makes have succeeded.
Ran(c) ==
    /\ Len(issued[c]) = Units(input[c].req)
    /\ \A m \in DOMAIN issued[c] : issued[c][m].reply = "ok"

ProgressInv ==
    \A c \in Calls :
        /\ pc[c] = "execute" =>
            /\ Len(issued[c]) < Units(input[c].req)
            /\ \A m \in DOMAIN issued[c] : issued[c][m].reply = "ok"
        /\ pc[c] \in {"save", "succeeded"} => Ran(c)

Begin == IF deps.audit THEN <<"attempt">> ELSE <<>>

\* The log of c ends with the terminal event o.
EndsWith(c, o) == log[c] = <<o>> \/ log[c] = <<"attempt", o>>

LogInv ==
    \A c \in Calls :
        /\ pc[c] \in {"new", "verify", "gate"} => log[c] = <<>>
        /\ pc[c] \in Working \ {"verify", "gate"} => log[c] = Begin
        /\ \/ log[c] = <<>> \/ log[c] = <<"attempt">>
           \/ EndsWith(c, "success") /\ Ran(c)
           \/ EndsWith(c, "blocked") /\ ~Used(c)
           \/ EndsWith(c, "error")
        /\ Used(c) => \/ log[c] = Begin \/ log[c] = Append(Begin, "error")
                      \/ log[c] = Append(Begin, "success")
        /\ pc[c] = "done" /\ deps.audit /\ ~missed[c] =>
            \/ \E o \in Terminal : EndsWith(c, o)
            \/ \A i \in Inputs[c] : i = input[c] => Unaudited(i)

AInv == IInv /\ ReadyInv /\ ProgressInv /\ LogInv

\* The invariant holds before the first call.
LEMMA InitAInv == ASSUME Init PROVE AInv
<1>1. IInv
  BY ZenonT(60), InitInv
<1>2. ReadyInv /\ ProgressInv
  BY ZenonT(60) DEF Init, ReadyInv, ProgressInv, Used, Early, Past
<1>3. LogInv
  BY ZenonT(60) DEF Init, LogInv, Used, Working
<1> QED
  BY <1>1, <1>2, <1>3 DEF AInv

\* A profile that has passed its gates has an artifact to run.
LEMMA UnitsType ==
    ASSUME NEW i, IsInput(i), Accepted(i)
    PROVE  Units(i.req) \in Nat \ {0}
<1>1. CASE i.req.op \notin ProfileOps
  BY <1>1 DEF Units
<1>2. CASE i.req.op = "collect_dfir_profile"
  <2>1. Gates(i) = <<Gate(deps.pilot, "blocked")>> \o CollectDFIRProfileGates(i)
    BY <1>2 DEF Gates
  <2>2. /\ 4 \in DOMAIN Gates(i)
        /\ Gates(i)[4] = Gate(ValidProfile(i.req.target), "blocked")
    BY <2>1 DEF CollectDFIRProfileGates
  <2>3. ValidProfile(i.req.target)
    BY <2>2 DEF Accepted, Gate
  <2> QED
    BY SMTT(60), Z3T(60), <2>3, WriteGateAssumption DEF Units, ValidProfile
<1>3. CASE i.req.op = "start_dfir_hunt"
  <2>1. Gates(i) = <<Gate(deps.pilot, "blocked")>> \o StartDFIRHuntGates(i)
    BY <1>3 DEF Gates
  <2>2. /\ 6 \in DOMAIN Gates(i)
        /\ Gates(i)[6] = Gate(ValidProfile(i.req.target), "blocked")
    BY <2>1 DEF StartDFIRHuntGates
  <2>3. ValidProfile(i.req.target)
    BY <2>2 DEF Accepted, Gate
  <2> QED
    BY <2>3, WriteGateAssumption DEF Units, ValidProfile
<1> QED
  BY <1>1, <1>2, <1>3 DEF ProfileOps

\* The directory of a download that has passed its gates is set.
LEMMA DirSet ==
    ASSUME NEW i, Accepted(i), i.req.op = "download_flow_upload"
    PROVE  dir # "unset"
<1>1. Gates(i) = <<Gate(deps.pilot, "blocked")>> \o DownloadGates(i)
  BY DEF Gates
<1>2. 2 \in DOMAIN Gates(i) /\ Gates(i)[2] = Gate(dir # "unset", "blocked")
  BY <1>1 DEF DownloadGates
<1>3. Gate(dir # "unset", "blocked").passes
  BY <1>2 DEF Accepted
<1>4. Gate(dir # "unset", "blocked").passes = (dir # "unset")
  BY Zenon DEF Gate
<1> QED
  BY ZenonT(60), <1>3, <1>4

\* No step between the gates and Consume undoes what a gate has established.
LEMMA ReadyStep == ASSUME IInv, ReadyInv, [Next]_vars PROVE ReadyInv'
<1> SUFFICES ASSUME NEW c \in Calls
             PROVE  /\ pc'[c] \in Early \/ Used(c)' =>
                        \A i \in Inputs[c] : i = input'[c] => Accepted(i)'
                    /\ pc'[c] \in Past \/ Used(c)' =>
                        BackendReady(input[c].req)'
                    /\ (pc'[c] = "consume" \/ Used(c)') /\ IsDownload(c)' =>
                        dir' \in {"writable", "readonly"}
  BY DEF ReadyInv
<1>1. /\ Moves(c) /\ Audits(c) /\ TypeOK
      /\ Used(c)' => Used(c) \/ pc[c] = "consume"
  BY CallMoves, CallAudits, UsedMoves DEF IInv
<1>2. /\ deps' = deps /\ (dir' = "unset" <=> dir = "unset")
      /\ dir \in {"writable", "readonly"} => dir' \in {"writable", "readonly"}
  BY DirMoves, <1>1
<1>3. \A i : Accepted(i)' <=> Accepted(i)
  BY SMTT(60), Z3T(60), <1>2, AcceptedKept
<1>4. pc[c] # "new" =>
        /\ input'[c] = input[c]
        /\ BackendReady(input[c].req)' <=> BackendReady(input[c].req)
  BY <1>1, <1>2 DEF Moves, BackendReady
<1>5. Used(c) => pc[c] # "new"
  BY SMTT(60) DEF Used
<1>6. ASSUME pc'[c] \in Early \/ Used(c)'
      PROVE  \A i \in Inputs[c] : i = input'[c] => Accepted(i)'
  <2>1. CASE pc[c] \in Early \/ Used(c)
    BY ZenonT(60), <1>3, <1>4, <1>5, <2>1 DEF ReadyInv, Early
  <2>2. CASE pc[c] = "new"
    <3>1. pc'[c] = "verify"
      BY ZenonT(60), <1>1, <1>5, <1>6, <2>2 DEF Moves, Early
    <3>2. \E i \in Inputs[c] : i = input'[c] /\ Accepted(i)
      BY ZenonT(60), <1>1, <2>2, <3>1 DEF Audits, Ends
    <3> QED
      BY ZenonT(60), <1>3, <3>2
  <2> QED
    BY ZenonT(60), <1>1, <1>6, <2>1, <2>2 DEF Moves, Early
<1>7. ASSUME pc'[c] \in Past \/ Used(c)'
      PROVE  BackendReady(input[c].req)'
  <2>1. CASE pc[c] \in Past \/ Used(c)
    BY ZenonT(60), <1>4, <1>5, <2>1 DEF ReadyInv, Past
  <2>2. CASE pc[c] = "verify" /\ pc'[c] = "gate"
    BY <1>1, <1>4, <2>2 DEF Audits, Ends
  <2>3. CASE pc[c] = "verify" /\ pc'[c] # "gate" /\ pc'[c] \in Past
    BY ZenonT(60), <1>1, <2>3 DEF Audits, Ends, Past, Working
  <2> QED
    BY ZenonT(60), <1>1, <1>7, <2>1, <2>2, <2>3 DEF Moves, Past
<1>8. ASSUME pc'[c] = "consume" \/ Used(c)', IsDownload(c)'
      PROVE  dir' \in {"writable", "readonly"}
  <2>1. CASE pc[c] = "consume" \/ Used(c)
    BY SMTT(60), Z3T(60), <1>2, <1>4, <1>5, <1>8, <2>1 DEF ReadyInv, IsDownload
  <2>2. CASE pc'[c] = "consume" /\ pc[c] = "prepare"
    <3>1. IsDownload(c) /\ input[c] \in Inputs[c]
      BY ZenonT(60), <1>1, <1>4, <1>8, <2>2 DEF IsDownload, TypeOK
    <3>2. Accepted(input[c])
      BY <2>2, <3>1 DEF ReadyInv, Early
    <3>3. dir # "unset"
      BY <3>1, <3>2, DirSet DEF IsDownload
    <3>4. /\ dir # "unmakable"
          /\ dir' = IF dir = "missing" THEN "writable" ELSE dir
      BY ZenonT(60), <1>1, <2>2, <3>1 DEF Audits, Ends, IsDownload
    <3> QED
      BY SMTT(60), <1>1, <3>3, <3>4 DEF TypeOK, Dirs
  <2>3. CASE pc'[c] = "consume" /\ pc[c] # "prepare"
    BY ZenonT(60), <1>1, <2>1, <2>3 DEF Audits, Ends
  <2> QED
    BY ZenonT(60), <1>1, <1>8, <2>1, <2>2, <2>3
<1> QED
  BY ZenonT(60), <1>6, <1>7, <1>8

\* How call c gets on with its calls to Velociraptor, unless it stops.
Runs(c) ==
    LET n == Len(issued[c]) + 1 IN
    \/ pc'[c] \notin {"execute", "save", "succeeded"}
    \/ /\ input'[c] = input[c] /\ issued'[c] = issued[c]
       /\ \/ pc'[c] = pc[c]
          \/ pc[c] = "consume" /\ pc'[c] = "execute"
          \/ pc[c] = "save" /\ pc'[c] = "succeeded"
    \/ /\ input'[c] = input[c] /\ pc[c] = "execute"
       /\ issued'[c] = Append(issued[c], [unit |-> n, reply |-> "ok"])
       /\ pc'[c] = "execute" <=> n < Units(input[c].req)

\* Every step runs every call as Runs says, one case per action.
LEMMA CallRuns ==
    ASSUME TypeOK, [Next]_vars, NEW d \in Calls
    PROVE  Runs(d)
<1> DEFINE W == Working \cup {"new", "done", "dead"}
<1>0. /\ pc \in [Calls -> W] /\ DOMAIN input = Calls /\ DOMAIN issued = Calls
  BY ZenonT(60) DEF TypeOK
<1> USE <1>0 DEF Runs
<1> HIDE DEF W
<1>1. CASE UNCHANGED <<pc, input, issued>>
  BY SMTT(60), Z3T(60), <1>1
<1>2. ASSUME NEW c \in Calls, NEW i \in Inputs[c], Receive(c, i)
      PROVE  Runs(d)
  BY <1>2 DEF Receive, Finish, Go
<1>3. ASSUME NEW c \in Calls, VerifyApproval(c) PROVE Runs(d)
  BY ZenonT(60), <1>3 DEF VerifyApproval, Finish, Go
<1>4. ASSUME NEW c \in Calls, StoreFails(c) PROVE Runs(d)
  BY ZenonT(60), <1>4 DEF StoreFails, Finish, Go
<1>5. ASSUME NEW c \in Calls, GateAudit(c) PROVE Runs(d)
  BY SMTT(60), Z3T(60), <1>5 DEF GateAudit, Go
<1>6. ASSUME NEW c \in Calls, Prepare(c) PROVE Runs(d)
  BY <1>6 DEF Prepare, Finish, Go
<1>7. ASSUME NEW c \in Calls, ConsumeApproval(c) PROVE Runs(d)
  BY ZenonT(60), <1>7 DEF ConsumeApproval, Finish, Go
<1>8. ASSUME NEW c \in Calls, Execute(c) PROVE Runs(d)
  BY SMTT(60), Z3T(60), <1>8 DEF Execute, Go
<1>9. ASSUME NEW c \in Calls, SaveDownload(c) PROVE Runs(d)
  BY ZenonT(60), <1>9 DEF SaveDownload, Go
<1>10. ASSUME NEW c \in Calls, Report(c) PROVE Runs(d)
  BY ZenonT(60), <1>10 DEF Report, Finish, Go
<1>11. ASSUME ServerStops PROVE Runs(d)
  BY <1>11 DEF ServerStops
<1> QED
  BY ZenonT(60), <1>1, <1>2, <1>3, <1>4, <1>5, <1>6, <1>7, <1>8, <1>9, <1>10,
     <1>11
     DEF Next, Step, Tick, CliCreate, CliDecide, CliStops, Quiescent, vars

\* The loop over the artifacts of a profile counts the calls that succeeded.
LEMMA ProgressStep ==
    ASSUME IInv, ReadyInv, ProgressInv, [Next]_vars PROVE ProgressInv'
<1> SUFFICES ASSUME NEW c \in Calls,
                    pc'[c] \in {"execute", "save", "succeeded"}
             PROVE  /\ pc'[c] = "execute" =>
                        Len(issued'[c]) < Units(input'[c].req)
                    /\ pc'[c] # "execute" =>
                        Len(issued'[c]) = Units(input'[c].req)
                    /\ \A m \in DOMAIN issued'[c] : issued'[c][m].reply = "ok"
  BY DEF ProgressInv, Ran, Units
<1> DEFINE units == Units(input[c].req)
<1>1. Runs(c) /\ TypeOK
  BY ZenonT(60), CallRuns DEF IInv
<1>2. CASE pc[c] = "consume"
  <2>1. /\ issued'[c] = issued[c] /\ input'[c] = input[c] /\ pc'[c] = "execute"
        /\ input[c] \in Inputs[c]
    BY ZenonT(60), <1>1, <1>2 DEF Runs, TypeOK
  <2>2. issued[c] = <<>>
    <3>1. Ref(c) \in Refs
      BY ZenonT(60), <1>1, <1>2, RefType
    <3> QED
      BY ZenonT(60), <1>2, <3>1 DEF IInv, ExecInv, UseInv, Early
  <2>3. Accepted(input[c])
    BY ZenonT(60), <1>2, <2>1 DEF ReadyInv, Early
  <2>4. units \in Nat \ {0}
    BY ZenonT(60), <2>1, <2>3, UnitsType, WriteGateAssumption
  <2> QED
    BY <2>1, <2>2, <2>4
<1>3. CASE pc[c] \in {"execute", "save", "succeeded"}
  <2>1. /\ Len(issued[c]) \in Nat
        /\ issued[c] \in Seq([unit: Nat, reply: {"ok", "failed", "lost"}])
        /\ \A m \in DOMAIN issued[c] : issued[c][m].reply = "ok"
        /\ pc[c] = "execute" => Len(issued[c]) < units
        /\ pc[c] # "execute" => Len(issued[c]) = units
    <3>1. issued[c] \in Seq([unit: Nat, reply: {"ok", "failed", "lost"}])
      BY <1>1 DEF TypeOK
    <3>2. Len(issued[c]) \in Nat
      BY <3>1
    <3>3. /\ \A m \in DOMAIN issued[c] : issued[c][m].reply = "ok"
          /\ pc[c] = "execute" => Len(issued[c]) < units
          /\ pc[c] # "execute" => Len(issued[c]) = units
      BY <1>3 DEF ProgressInv, Ran
    <3> QED
      BY ZenonT(60), <3>1, <3>2, <3>3
  <2>2. CASE issued'[c] = issued[c] /\ input'[c] = input[c] /\ pc'[c] = pc[c]
    BY ZenonT(60), <2>1, <2>2
  <2>3. CASE /\ issued'[c] = issued[c] /\ input'[c] = input[c]
             /\ pc[c] = "save" /\ pc'[c] = "succeeded"
    BY ZenonT(60), <2>1, <2>3
  <2>4. CASE /\ input'[c] = input[c] /\ pc[c] = "execute"
             /\ issued'[c] = Append(issued[c],
                              [unit |-> Len(issued[c]) + 1, reply |-> "ok"])
             /\ pc'[c] = "execute" <=> Len(issued[c]) + 1 < units
    <3>1. Len(issued'[c]) = Len(issued[c]) + 1
      BY SMTT(60), Z3T(60), <2>1, <2>4
    <3>2. \A m \in DOMAIN issued'[c] : issued'[c][m].reply = "ok"
      BY SMTT(60), Z3T(60), <2>1, <2>4
    <3>3. units \in Int
      <4>1. Ref(c) \in Refs /\ input[c] \in Inputs[c]
        BY ZenonT(60), <1>1, <2>4, RefType DEF TypeOK
      <4>2. Used(c)
        BY ZenonT(60), <2>4 DEF IInv, ExecInv, Used
      <4>3. Accepted(input[c])
        BY ZenonT(60), <4>1, <4>2 DEF ReadyInv
      <4> QED
        BY SMTT(60), Z3T(60), <4>1, <4>3, UnitsType, WriteGateAssumption
    <3> HIDE DEF units
    <3> QED
      BY SMTT(60), Z3T(60), <2>1, <2>4, <3>1, <3>2, <3>3 DEF units
  <2> QED
    BY ZenonT(60), <1>1, <1>3, <2>2, <2>3, <2>4 DEF Runs
<1> QED
  BY ZenonT(60), <1>1, <1>2, <1>3 DEF Runs

\* The two shapes a log can take when an event is added.
LEMMA Appended ==
    ASSUME NEW o
    PROVE  /\ Append(<<>>, o) = <<o>>
           /\ Append(<<"attempt">>, o) = <<"attempt", o>>
<1>1. Append(<<>>, o) = <<o>>
  <2>1. <<>> \in Seq({o, "attempt"}) /\ <<o>> \in Seq({o, "attempt"})
    OBVIOUS
  <2> QED
    BY <2>1
<1>2. Append(<<"attempt">>, o) = <<"attempt", o>>
  <2>1. /\ <<"attempt">> \in Seq({o, "attempt"})
        /\ <<"attempt", o>> \in Seq({o, "attempt"})
    OBVIOUS
  <2>2. Append(<<"attempt">>, o) \in Seq({o, "attempt"})
    BY <2>1
  <2>3. Len(Append(<<"attempt">>, o)) = 2
    BY <2>1
  <2>4. \A n \in 1 .. 2 : Append(<<"attempt">>, o)[n] = <<"attempt", o>>[n]
    BY <2>1
  <2>5. Len(<<"attempt", o>>) = 2
    OBVIOUS
  <2> QED
    BY ZenonT(60), <2>1, <2>2, <2>3, <2>4, <2>5, SeqEqual
<1> QED
  BY <1>1, <1>2

\* The conjuncts of LogInv that say how the log of c may stand.
Stands(c) ==
    /\ \/ log[c] = <<>> \/ log[c] = <<"attempt">>
       \/ EndsWith(c, "success") /\ Ran(c)
       \/ EndsWith(c, "blocked") /\ ~Used(c)
       \/ EndsWith(c, "error")
    /\ Used(c) => \/ log[c] = Begin \/ log[c] = Append(Begin, "error")
                  \/ log[c] = Append(Begin, "success")
    /\ pc[c] = "done" /\ deps.audit /\ ~missed[c] =>
        \/ \E o \in Terminal : EndsWith(c, o)
        \/ \A i \in Inputs[c] : i = input[c] => Unaudited(i)

\* A call ends with one terminal event, or with a write that failed.
LEMMA LogStep == ASSUME AInv, [Next]_vars PROVE LogInv'
<1> SUFFICES ASSUME NEW c \in Calls
             PROVE  /\ pc'[c] \in {"new", "verify", "gate"} => log'[c] = <<>>
                    /\ pc'[c] \in Working \ {"verify", "gate"} =>
                        log'[c] = Begin'
                    /\ Stands(c)'
  BY ZenonT(60) DEF LogInv, Stands
<1> USE DEF AInv
<1>1. Moves(c) /\ Audits(c) /\ TypeOK /\ TypeOK' /\ UseInv'
  BY ZenonT(60), CallMoves, CallAudits, TypeStep, UseStep DEF IInv
<1>2. /\ pc[c] \in {"new", "verify", "gate"} => log[c] = <<>>
      /\ pc[c] \in Working \ {"verify", "gate"} => log[c] = Begin
      /\ Stands(c)
  BY ZenonT(60) DEF LogInv, Stands
<1>3. /\ Used(c)' => Used(c) \/ pc[c] = "consume"
      /\ Used(c) => pc[c] \notin Early \cup {"new"}
      /\ Used(c)' => pc'[c] \notin Early \cup {"new"}
  <2>1. Used(c)' => Used(c) \/ pc[c] = "consume"
    BY UsedMoves
  <2>2. Used(c) => pc[c] \notin Early \cup {"new"}
    BY ZenonT(60), <1>1, RefType DEF Used, IInv, UseInv
  <2>3. ASSUME Used(c)' PROVE pc'[c] \notin Early \cup {"new"}
    <3>1. pc'[c] # "new" /\ c \in usedBy'[Ref(c)']
      BY <2>3 DEF Used, Ref
    <3>2. Ref(c)' \in Refs
      BY ZenonT(60), <1>1, <3>1, WriteGateAssumption DEF TypeOK, Ref, IsInput
    <3> QED
      BY ZenonT(60), <1>1, <3>1, <3>2 DEF UseInv, Ref
  <2> QED
    BY ZenonT(60), <2>1, <2>2, <2>3
<1>4. deps' = deps /\ Begin' = Begin /\ \A i : Unaudited(i)' <=> Unaudited(i)
  <2>1. deps' = deps /\ (dir' = "unset" <=> dir = "unset")
    BY ZenonT(60), <1>1, DirMoves
  <2> QED
    BY ZenonT(60), <2>1, AcceptedKept DEF Begin
<1>5. Begin = <<>> \/ Begin = <<"attempt">>
  BY ZenonT(60) DEF Begin
<1>6. CASE pc'[c] \in {"new", "verify", "gate"}
  <2>1. log'[c] = <<>>
    BY ZenonT(60), <1>1, <1>2, <1>6 DEF Audits, Quiet, Ends
  <2> QED
    BY <1>3, <1>6, <2>1 DEF Stands, Early, Working
<1>7. CASE pc'[c] \in Working \ {"verify", "gate"}
  <2>1. log'[c] = Begin
    <3>1. CASE pc[c] = "gate"
      BY ZenonT(60), <1>1, <1>2, <1>7, <3>1, Appended
         DEF Audits, Quiet, Ends, Working, Begin
    <3>2. CASE pc[c] # "gate"
      BY ZenonT(60), <1>1, <1>2, <1>7, <3>2 DEF Audits, Quiet, Ends, Working
    <3> QED
      BY <3>1, <3>2
  <2> QED
    BY ZenonT(60), <1>4, <1>5, <1>7, <2>1 DEF Stands, Working
<1>8. CASE pc'[c] = pc[c] /\ pc[c] \in {"done", "dead"}
  <2>1. Quiet(c) /\ input'[c] = input[c] /\ issued'[c] = issued[c]
    BY ZenonT(60), <1>1, <1>8 DEF Audits, Ends, Moves, Working
  <2>2. Used(c)' => Used(c)
    BY ZenonT(60), <1>3, <1>8
  <2>3. Ran(c) => Ran(c)'
    BY <2>1 DEF Ran, Units
  <2> QED
    BY ZenonT(60), <1>2, <1>4, <1>8, <2>1, <2>2, <2>3 DEF Stands, Quiet,
       EndsWith, Working
<1>9. CASE pc[c] \in Working /\ pc'[c] = "dead"
  <2>1. log'[c] = log[c]
    BY ZenonT(60), <1>1, <1>9 DEF Audits, Quiet, Ends, Working
  <2>2. Used(c)' => log[c] = Begin
    BY ZenonT(60), <1>2, <1>3, <1>9 DEF Early
  <2> QED
    BY ZenonT(60), <1>2, <1>4, <1>5, <1>9, <2>1, <2>2 DEF Stands, Working
<1>10. CASE pc[c] # "done" /\ pc'[c] = "done"
  <2>1. CASE /\ Quiet(c) /\ pc[c] = "new"
             /\ \E i \in Inputs[c] : i = input'[c] /\ Unaudited(i)
    BY ZenonT(60), <1>2, <1>3, <1>4, <1>10, <2>1 DEF Stands, Quiet, Working
  <2>2. CASE pc[c] = "gate" /\ log'[c] = log[c] /\ missed'[c]
    BY ZenonT(60), <1>2, <1>3, <1>10, <2>2 DEF Stands, Early, Working
  <2>3. ASSUME NEW o \in {"blocked", "error"}, Ends(c, {"new", "verify"}, o)
        PROVE  Stands(c)'
    <3>1. log[c] = <<>> /\ ~Used(c)'
      BY ZenonT(60), <1>2, <1>3, <2>3 DEF Ends, Early
    <3>2. \/ log'[c] = <<o>>
          \/ log'[c] = <<>> /\ (~deps'.audit \/ missed'[c])
      BY <1>4, <2>3, <3>1, Appended DEF Ends
    <3> QED
      BY <3>1, <3>2 DEF Stands, EndsWith, Terminal
  <2>4. ASSUME NEW from, NEW o \in {"error", "success"}, Ends(c, from, o),
               pc[c] \in Working \ {"verify", "gate"}, o = "success" => Ran(c)'
        PROVE  Stands(c)'
    <3>1. log[c] = Begin
      BY ZenonT(60), <1>2, <2>4
    <3>2. \/ log'[c] = Append(Begin, o)
          \/ log'[c] = Begin /\ (~deps'.audit \/ missed'[c])
      BY <1>4, <2>4, <3>1 DEF Ends
    <3>3. Append(Begin, o) = <<o>> \/ Append(Begin, o) = <<"attempt", o>>
      BY ZenonT(60), <1>5, Appended
    <3> QED
      BY ZenonT(60), <1>4, <1>5, <2>4, <3>2, <3>3 DEF Stands, EndsWith, Terminal
  <2>5. ASSUME Ends(c, {"prepare", "consume", "failed", "verify"}, "error")
        PROVE  Stands(c)'
    <3>1. CASE pc[c] = "verify"
      BY ZenonT(60), <2>3, <2>5, <3>1 DEF Ends
    <3>2. CASE pc[c] # "verify"
      BY ZenonT(60), <2>4, <2>5, <3>2 DEF Ends, Working
    <3> QED
      BY ZenonT(60), <3>1, <3>2
  <2>6. ASSUME Ends(c, {"succeeded"}, "success") PROVE Stands(c)'
    <3>1. pc[c] = "succeeded" /\ Ran(c)
      BY <2>6 DEF Ends, ProgressInv
    <3>2. input'[c] = input[c] /\ issued'[c] = issued[c]
      BY ZenonT(60), <1>1, <3>1 DEF Moves
    <3>3. Ran(c)'
      BY <3>1, <3>2 DEF Ran, Units
    <3> QED
      BY SMTT(60), Z3T(60), <2>4, <2>6, <3>1, <3>3 DEF Working
  <2>7. Stands(c)'
    BY ZenonT(60), <1>1, <1>10, <2>1, <2>2, <2>3, <2>5, <2>6 DEF Audits
  <2> QED
    BY ZenonT(60), <1>10, <2>7 DEF Working
<1> QED
  BY ZenonT(60), <1>1, <1>6, <1>7, <1>8, <1>9, <1>10 DEF Audits, Ends, Working,
     TypeOK

\* The invariant holds in every reachable state.
LEMMA AuditInvariance == Spec => []AInv
<1>1. ASSUME AInv, [Next]_vars PROVE AInv'
  BY ZenonT(60), <1>1, InvStep, ReadyStep, ProgressStep, LogStep
     DEF AInv
<1> QED
  BY <1>1, InitAInv, PTL DEF Spec

\* An approval is used up only by a call that has passed every gate of its
\* handler, the backend's readiness and gateAuditForWrite, whatever the other
\* calls, the approve command and the server's stops do meanwhile.
THEOREM Readiness == Spec => []BurnedOnlyWhenReady
<1>1. AInv => BurnedOnlyWhenReady
  <2> SUFFICES ASSUME AInv, NEW r \in Refs, NEW c \in usedBy[r]
               PROVE  /\ Ref(c) = r
                      /\ Accepted(input[c]) /\ BackendReady(input[c].req)
                      /\ \A n \in DOMAIN log[c] : log[c][n] # "blocked"
                      /\ deps.audit => log[c] # <<>> /\ log[c][1] = "attempt"
                      /\ input[c].req.op = "download_flow_upload" =>
                            dir \in {"writable", "readonly"}
    BY ZenonT(60) DEF BurnedOnlyWhenReady, AInv, IInv, UseInv
  <2>1. c \in Calls /\ Ref(c) = r /\ Used(c) /\ input[c] \in Inputs[c]
    BY DEF AInv, IInv, TypeOK, UseInv, Used
  <2>2. /\ Accepted(input[c]) /\ BackendReady(input[c].req)
        /\ input[c].req.op = "download_flow_upload" =>
            dir \in {"writable", "readonly"}
    BY ZenonT(60), <2>1 DEF AInv, ReadyInv, IsDownload
  <2>3. \/ log[c] = Begin \/ log[c] = Append(Begin, "error")
        \/ log[c] = Append(Begin, "success")
    BY ZenonT(60), <2>1 DEF AInv, LogInv
  <2>4. CASE deps.audit
    <3>1. \/ log[c] = <<"attempt">> \/ log[c] = <<"attempt", "error">>
          \/ log[c] = <<"attempt", "success">>
      BY ZenonT(60), <2>3, <2>4, Appended DEF Begin
    <3>2. /\ log[c] # <<>> /\ log[c][1] = "attempt"
          /\ \A n \in DOMAIN log[c] : log[c][n] # "blocked"
      BY SMTT(60), Z3T(60), <3>1
    <3> QED
      BY ZenonT(60), <2>1, <2>2, <3>2
  <2>5. CASE ~deps.audit
    <3>1. log[c] = <<>> \/ log[c] = <<"error">> \/ log[c] = <<"success">>
      BY ZenonT(60), <2>3, <2>5, Appended DEF Begin
    <3>2. \A n \in DOMAIN log[c] : log[c][n] # "blocked"
      BY SMTT(60), Z3T(60), <3>1
    <3> QED
      BY ZenonT(60), <2>1, <2>2, <2>5, <3>2
  <2> QED
    BY ZenonT(60), <2>4, <2>5
<1> QED
  BY <1>1, AuditInvariance, PTL

\* The terminal events of a log that has at most one, at its end.
LEMMA TerminalEvents ==
    ASSUME NEW c, NEW o \in Terminal
    PROVE  /\ log[c] = <<>> \/ log[c] = <<"attempt">> => Terminals(c) = {}
           /\ EndsWith(c, o) => /\ Terminals(c) = {Len(log[c])}
                                /\ log[c][Len(log[c])] = o
<1>1. ASSUME log[c] = <<>> \/ log[c] = <<"attempt">> PROVE Terminals(c) = {}
  BY <1>1 DEF Terminals, Terminal
<1>2. ASSUME log[c] = <<o>>
      PROVE  Terminals(c) = {Len(log[c])} /\ log[c][Len(log[c])] = o
  BY <1>2 DEF Terminals, Terminal
<1>3. ASSUME log[c] = <<"attempt", o>>
      PROVE  Terminals(c) = {Len(log[c])} /\ log[c][Len(log[c])] = o
  BY SMTT(60), Z3T(60), <1>3 DEF Terminals, Terminal
<1> QED
  BY ZenonT(60), <1>1, <1>2, <1>3 DEF EndsWith

\* A terminal event tells the truth, and there is at most one of a call: it is
\* success only after every call to Velociraptor has succeeded, and blocked only
\* when none was made and the approval is untouched.
THEOREM Honesty == Spec => []HonestOutcome
<1>1. AInv => HonestOutcome
  <2> SUFFICES ASSUME AInv, NEW c \in Calls
               PROVE  /\ Cardinality(Terminals(c)) <= 1
                      /\ \A n \in Terminals(c) :
                          /\ n = Len(log[c])
                          /\ log[c][n] = "success" => Ran(c)
                          /\ log[c][n] = "blocked" =>
                              issued[c] = <<>> /\ c \notin usedBy[Ref(c)]
    BY ZenonT(60) DEF HonestOutcome, Ran
  <2>1. CASE log[c] = <<>> \/ log[c] = <<"attempt">>
    <3>1. Terminals(c) = {}
      BY ZenonT(60), <2>1, TerminalEvents DEF Terminal
    <3> QED
      BY SMTT(60), Z3T(60), <3>1, FS_EmptySet
  <2>2. ASSUME NEW o \in Terminal, EndsWith(c, o), o = "success" => Ran(c),
               o = "blocked" => ~Used(c)
        PROVE  /\ Cardinality(Terminals(c)) <= 1
               /\ \A n \in Terminals(c) :
                   /\ n = Len(log[c])
                   /\ log[c][n] = "success" => Ran(c)
                   /\ log[c][n] = "blocked" =>
                       issued[c] = <<>> /\ c \notin usedBy[Ref(c)]
    <3>1. Terminals(c) = {Len(log[c])} /\ log[c][Len(log[c])] = o
      BY <2>2, TerminalEvents
    <3>2. Cardinality(Terminals(c)) = 1
      BY ZenonT(60), <3>1, FS_Singleton
    <3>3. pc[c] # "new"
      BY SMTT(60), Z3T(60), <2>2 DEF AInv, LogInv, EndsWith
    <3>4. o = "blocked" => issued[c] = <<>> /\ c \notin usedBy[Ref(c)]
      BY ZenonT(60), <2>2, <3>3 DEF Used, AInv, IInv, ExecInv
    <3> QED
      BY SMTT(60), Z3T(60), <2>2, <3>1, <3>2, <3>4
  <2> QED
    BY ZenonT(60), <2>1, <2>2 DEF AInv, LogInv, Terminal
<1> QED
  BY <1>1, AuditInvariance, PTL

\* With an audit sink, every call that returns leaves one terminal event,
\* unless a write failed or validateHuntWriteInput turned the call away.
THEOREM Accounting == Spec => []AuditedUnlessMalformed
<1>1. AInv => AuditedUnlessMalformed
  <2> SUFFICES ASSUME AInv, deps.audit, NEW c \in Calls, pc[c] = "done",
                      ~missed[c], ~Unaudited(input[c])
               PROVE  Cardinality(Terminals(c)) = 1
    BY DEF AuditedUnlessMalformed
  <2>1. input[c] \in Inputs[c]
    BY ZenonT(60) DEF AInv, IInv, TypeOK
  <2>2. PICK o \in Terminal : EndsWith(c, o)
    BY ZenonT(60), <2>1 DEF AInv, LogInv
  <2>3. Terminals(c) = {Len(log[c])}
    BY <2>2, TerminalEvents
  <2> QED
    BY ZenonT(60), <2>3, FS_Singleton
<1> QED
  BY <1>1, AuditInvariance, PTL
=============================================================================
