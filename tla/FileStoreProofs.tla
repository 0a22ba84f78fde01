--------------------------- MODULE FileStoreProofs ---------------------------
(***************************************************************************)
(* Proofs about FileStore, for any number of processes, goroutines and     *)
(* approval references.  The store file is assumed to exist before the     *)
(* first process starts.  With Spec the power does not fail; with          *)
(* PowerLossSpec it may, at any step, and any unsynced write may be lost.  *)
(***************************************************************************)
EXTENDS FileStore, TLAPS

\* A goroutine inside a call has a well-formed operation, a live process,
\* and an answer exactly when it is past the step that settles it.
CallInv ==
    \A c \in Callers :
        /\ pc[c] = "idle" => call[c] = None /\ ret[c] = Idle
        /\ pc[c] # "idle" =>
            call[c] \in Operation /\ open[InstanceOf[c]] = "up"
        /\ pc[c] \in {"mutex", "flock", "locked", "loaded"} \cup Saving =>
            ret[c] = Answer("pending", None)
        /\ pc[c] \in {"unlock", "unmutex", "done"} =>
            ret[c].code \notin {"idle", "pending"}
        /\ pc[c] \in HasMutex => ~LacksField(call[c])
        /\ pc[c] \in Saving => call[c].kind # "get"

\* The locks belong to those whose deferred unlocks are still to come.
LockInv ==
    /\ \A c \in Callers : pc[c] \in HasMutex => mu[InstanceOf[c]] = c
    /\ \A c \in Callers : pc[c] \in HasFlock => osLock = InstanceOf[c]
    /\ \A i \in Instances : open[i] = "opening" => osLock = i

\* Nobody has found the file missing, so nobody creates it.
Provisioned ==
    /\ fileState # "absent"
    /\ \A i \in Instances : open[i] # "create"

\* How often a record of the file says its approval was used.
Spent(rec) == IF rec # None /\ rec.consumed THEN 1 ELSE 0

\* The Consumed flag in the file counts the successful Consumes.
UsesInv == \A r \in Refs : uses[r] = Spent(disk[r])

\* What every step keeps, the power failing or not.
Core == TypeOK /\ CallInv /\ LockInv /\ Provisioned /\ SnapshotFresh

IInv == Core /\ UsesInv

USE FileStoreAssumption, ApprovalsAssumption

-----------------------------------------------------------------------------
(* The operations on the map *)

\* What Create, Decide and Consume write back is again a map of records.
LEMMA ModifiedType ==
    ASSUME NEW recs \in Records, NEW o \in Operation, NEW t \in Nat,
           ~LacksField(o), o.kind # "get", Check(recs, o) = "ok"
    PROVE  Modified(recs, o, t) \in Records
<1>1. o.ref \in Refs /\ o.kind \in {"create", "decide", "consume"}
  BY DEF Operation
<1>2. CASE o.kind = "create"
  <2>1. o.arg \in Payloads
    BY <1>2 DEF Operation, LacksField
  <2>2. NewRecord(o.arg, t) \in Record
    BY <2>1 DEF NewRecord, Record
  <2>3. Modified(recs, o, t) = [recs EXCEPT ![o.ref] = NewRecord(o.arg, t)]
    BY <1>2 DEF Modified
  <2> QED BY <1>1, <2>2, <2>3 DEF Records
<1>3. CASE o.kind # "create"
  <2>1. recs[o.ref] # None
    BY <1>1, <1>3 DEF Check
  <2>2. recs[o.ref] \in Record
    BY <1>1, <2>1 DEF Records
  <2>3. CASE o.kind = "decide"
    <3>1. o.arg \in Verdicts
      BY <2>3 DEF Operation, LacksField
    <3>2. [recs[o.ref] EXCEPT !.decision = o.arg] \in Record
      BY <2>2, <3>1 DEF Record
    <3>3. Modified(recs, o, t) =
            [recs EXCEPT ![o.ref] = [recs[o.ref] EXCEPT !.decision = o.arg]]
      BY <2>3 DEF Modified
    <3> QED BY <1>1, <3>2, <3>3 DEF Records
  <2>4. CASE o.kind = "consume"
    <3>1. [recs[o.ref] EXCEPT !.consumed = TRUE] \in Record
      BY ZenonT(30), <2>2 DEF Record
    <3>2. Modified(recs, o, t) =
            [recs EXCEPT ![o.ref] = [recs[o.ref] EXCEPT !.consumed = TRUE]]
      BY <2>4 DEF Modified
    <3> QED BY <1>1, <3>1, <3>2 DEF Records
  <2> QED BY <1>1, <1>3, <2>3, <2>4
<1> QED BY <1>2, <1>3

\* An operation only adds to the map: Create a record, Decide a decision,
\* Consume the flag.
LEMMA ModifiedGrows ==
    ASSUME NEW recs \in Records, NEW o \in Operation, NEW t \in Nat,
           ~LacksField(o), o.kind # "get", Check(recs, o) = "ok",
           NEW r \in Refs
    PROVE  Grows(recs[r], Modified(recs, o, t)[r])
<1>1. o.ref \in Refs /\ o.kind \in {"create", "decide", "consume"}
  BY DEF Operation
<1>2. CASE r # o.ref
  BY <1>1, <1>2 DEF Records, Modified, Grows
<1>3. CASE r = o.ref /\ recs[r] = None
  BY <1>3 DEF Grows
<1>4. CASE r = o.ref /\ recs[r] # None
  <2>1. recs[r] \in Record
    BY <1>4 DEF Records
  <2>2. CASE o.kind = "decide"
    <3>1. recs[r].decision = None
      BY <1>4, <2>2 DEF Check
    <3>2. Modified(recs, o, t)[r] = [recs[r] EXCEPT !.decision = o.arg]
      BY <1>1, <1>4, <2>2 DEF Modified, Records
    <3>3. [recs[r] EXCEPT !.decision = o.arg] # None
      BY <2>1, <2>2 DEF Record, Operation, LacksField
    <3> QED BY <2>1, <3>1, <3>2, <3>3 DEF Grows, Record
  <2>3. CASE o.kind = "consume"
    <3>1. Modified(recs, o, t)[r] = [recs[r] EXCEPT !.consumed = TRUE]
      BY ZenonT(30), <1>1, <1>4, <2>3 DEF Modified, Records
    <3>2. [recs[r] EXCEPT !.consumed = TRUE] # None
      BY ZenonT(30), <2>1 DEF Record
    <3> QED BY <2>1, <3>1, <3>2 DEF Grows, Record
  <2>4. o.kind # "create"
    BY <1>4 DEF Check
  <2> QED BY <1>1, <2>2, <2>3, <2>4
<1> QED BY <1>2, <1>3, <1>4

\* The empty map is a map of records.
LEMMA EmptyType == EmptyRecords \in Records
  BY DEF EmptyRecords, Records

\* The answer of a goroutine that is in no call is an answer.
LEMMA IdleType == Idle \in Answers
  BY DEF Idle, Answer, Answers, Codes

\* The checks of Create, Decide, Get and Consume end in one of the codes.
LEMMA CheckType ==
    ASSUME NEW recs, NEW o
    PROVE  Check(recs, o) \in Codes \ {"idle", "pending"}
  BY DEF Check, Codes

\* statusLocked returns a status.
LEMMA StatusType ==
    ASSUME NEW rec \in Record, NEW t \in Nat
    PROVE  StatusOf(rec, t) \in Statuses
  BY DEF StatusOf, Statuses, Record, Expired

-----------------------------------------------------------------------------
(* The inductive invariant *)

\* Every step keeps every variable in its type.
LEMMA TypeStep ==
    ASSUME Core, Next
    PROVE  TypeOK'
<1> USE DEF Core, TypeOK, fileVars, lockVars, callVars, Go, Reply, Answer,
Answers, Codes, Locations, HasMutex
<1>1. CASE Tick
  BY <1>1 DEF Tick
<1>2. ASSUME NEW i \in Instances, Start(i) PROVE TypeOK'
  BY <1>2 DEF Start
<1>3. ASSUME NEW i \in Instances, CreateFile(i) PROVE TypeOK'
  BY <1>3 DEF CreateFile, Provisioned
<1>4. ASSUME NEW i \in Instances, OpenLock(i) PROVE TypeOK'
  BY <1>4 DEF OpenLock
<1>5. ASSUME NEW i \in Instances, OpenFinish(i) PROVE TypeOK'
  BY <1>5 DEF OpenFinish
<1>6. ASSUME NEW i \in Instances, Stop(i) PROVE TypeOK'
  BY ZenonT(30), <1>6, EmptyType, IdleType DEF Stop, Gone
<1>7. ASSUME NEW c \in Callers, NEW o \in Menu[c], Invoke(c, o) PROVE TypeOK'
  BY <1>7 DEF Invoke
<1>8. ASSUME NEW c \in Callers, RejectInput(c) PROVE TypeOK'
  BY <1>8 DEF RejectInput
<1>9. ASSUME NEW c \in Callers, AcquireMutex(c) PROVE TypeOK'
  BY <1>9 DEF AcquireMutex
<1>10. ASSUME NEW c \in Callers, TryLock(c) PROVE TypeOK'
  BY <1>10 DEF TryLock
<1>11. ASSUME NEW c \in Callers, LockTimeout(c) PROVE TypeOK'
  BY <1>11 DEF LockTimeout
<1>12. ASSUME NEW c \in Callers, Load(c) PROVE TypeOK'
  BY <1>12 DEF Load
<1>13. ASSUME NEW c \in Callers, LoadFails(c) PROVE TypeOK'
  BY <1>13 DEF LoadFails
<1>14. ASSUME NEW c \in Callers, Refused(c) PROVE TypeOK'
  BY <1>14, CheckType DEF Refused
<1>15. ASSUME NEW c \in Callers, GetStatus(c) PROVE TypeOK'
  <2>1. call[c] \in Operation
    BY <1>15 DEF GetStatus, CallInv
  <2>2. mem[c][call[c].ref] \in Record
    BY <1>15, <2>1 DEF GetStatus, Check, Records, Operation
  <2>3. StatusOf(mem[c][call[c].ref], now) \in Statuses
    BY <2>2, StatusType
  <2> QED BY <1>15, <2>3 DEF GetStatus
<1>16. ASSUME NEW c \in Callers, Modify(c) PROVE TypeOK'
  <2>1. call[c] \in Operation /\ ~LacksField(call[c])
    BY <1>16 DEF Modify, CallInv
  <2>2. Modified(mem[c], call[c], now) \in Records
    BY <1>16, <2>1, ModifiedType DEF Modify
  <2> QED BY <1>16, <2>2 DEF Modify
<1>17. ASSUME NEW c \in Callers, WriteTemp(c) PROVE TypeOK'
  BY <1>17 DEF WriteTemp
<1>18. ASSUME NEW c \in Callers, SyncTemp(c) PROVE TypeOK'
  BY <1>18 DEF SyncTemp
<1>19. ASSUME NEW c \in Callers, Rename(c) PROVE TypeOK'
  <2>1. call[c] \in Operation
    BY <1>19 DEF Rename, CallInv
  <2>2. call[c].ref \in Refs
    BY <2>1 DEF Operation
  <2> QED BY <1>19, <2>2 DEF Rename
<1>20. ASSUME NEW c \in Callers, SaveFails(c) PROVE TypeOK'
  BY <1>20 DEF SaveFails
<1>21. ASSUME NEW c \in Callers, UnlockFlock(c) PROVE TypeOK'
  BY <1>21, EmptyType DEF UnlockFlock
<1>22. ASSUME NEW c \in Callers, UnlockMutex(c) PROVE TypeOK'
  BY <1>22 DEF UnlockMutex
<1>23. ASSUME NEW c \in Callers, Return(c) PROVE TypeOK'
  BY <1>23, IdleType DEF Return
<1> QED
  BY ZenonT(30), <1>1, <1>2, <1>3, <1>4, <1>5, <1>6, <1>7, <1>8, <1>9, <1>10,
     <1>11,
     <1>12, <1>13, <1>14, <1>15, <1>16, <1>17, <1>18, <1>19, <1>20, <1>21,
     <1>22, <1>23 DEF Next, Step

\* Every step keeps the calls consistent with their program counters.
LEMMA CallStep ==
    ASSUME Core, Next
    PROVE  CallInv'
<1> USE DEF Core, TypeOK, CallInv, fileVars, lockVars, callVars, Go, Reply,
Locations, HasMutex, Saving
<1>1. CASE Tick
  BY <1>1 DEF Tick
<1>2. ASSUME NEW i \in Instances, Start(i) PROVE CallInv'
  BY <1>2 DEF Start
<1>3. ASSUME NEW i \in Instances, CreateFile(i) PROVE CallInv'
  BY <1>3 DEF CreateFile, Provisioned
<1>4. ASSUME NEW i \in Instances, OpenLock(i) PROVE CallInv'
  BY <1>4 DEF OpenLock
<1>5. ASSUME NEW i \in Instances, OpenFinish(i) PROVE CallInv'
  BY <1>5 DEF OpenFinish
<1>6. ASSUME NEW i \in Instances, Stop(i) PROVE CallInv'
  BY <1>6 DEF Stop, Gone, Idle, Answer
<1>7. ASSUME NEW c \in Callers, NEW o \in Menu[c], Invoke(c, o) PROVE CallInv'
  BY <1>7 DEF Invoke
<1>8. ASSUME NEW c \in Callers, RejectInput(c) PROVE CallInv'
  BY <1>8 DEF RejectInput, Answer
<1>9. ASSUME NEW c \in Callers, AcquireMutex(c) PROVE CallInv'
  BY <1>9 DEF AcquireMutex
<1>10. ASSUME NEW c \in Callers, TryLock(c) PROVE CallInv'
  BY <1>10 DEF TryLock
<1>11. ASSUME NEW c \in Callers, LockTimeout(c) PROVE CallInv'
  BY <1>11 DEF LockTimeout, Answer
<1>12. ASSUME NEW c \in Callers, Load(c) PROVE CallInv'
  BY <1>12 DEF Load
<1>13. ASSUME NEW c \in Callers, LoadFails(c) PROVE CallInv'
  BY <1>13 DEF LoadFails, Answer
<1>14. ASSUME NEW c \in Callers, Refused(c) PROVE CallInv'
  BY SMTT(60), Z3T(60), <1>14, CheckType DEF Refused, Answer
<1>15. ASSUME NEW c \in Callers, GetStatus(c) PROVE CallInv'
  BY SMTT(60), Z3T(60), <1>15 DEF GetStatus, Answer
<1>16. ASSUME NEW c \in Callers, Modify(c) PROVE CallInv'
  BY <1>16 DEF Modify
<1>17. ASSUME NEW c \in Callers, WriteTemp(c) PROVE CallInv'
  BY <1>17 DEF WriteTemp
<1>18. ASSUME NEW c \in Callers, SyncTemp(c) PROVE CallInv'
  BY <1>18 DEF SyncTemp
<1>19. ASSUME NEW c \in Callers, Rename(c) PROVE CallInv'
  BY <1>19 DEF Rename, Answer
<1>20. ASSUME NEW c \in Callers, SaveFails(c) PROVE CallInv'
  BY <1>20 DEF SaveFails, Answer
<1>21. ASSUME NEW c \in Callers, UnlockFlock(c) PROVE CallInv'
  BY <1>21 DEF UnlockFlock
<1>22. ASSUME NEW c \in Callers, UnlockMutex(c) PROVE CallInv'
  BY <1>22 DEF UnlockMutex
<1>23. ASSUME NEW c \in Callers, Return(c) PROVE CallInv'
  BY <1>23 DEF Return
<1> QED
  BY ZenonT(30), <1>1, <1>2, <1>3, <1>4, <1>5, <1>6, <1>7, <1>8, <1>9, <1>10,
     <1>11,
     <1>12, <1>13, <1>14, <1>15, <1>16, <1>17, <1>18, <1>19, <1>20, <1>21,
     <1>22, <1>23 DEF Next, Step

\* Every step leaves the locks with those who owe an unlock.
LEMMA LockStep ==
    ASSUME Core, Next
    PROVE  LockInv'
<1> USE DEF Core, TypeOK, LockInv, fileVars, lockVars, callVars, Go, Reply,
Locations, HasMutex, HasFlock
<1>1. CASE Tick
  BY <1>1 DEF Tick
<1>2. ASSUME NEW i \in Instances, Start(i) PROVE LockInv'
  BY <1>2 DEF Start
<1>3. ASSUME NEW i \in Instances, CreateFile(i) PROVE LockInv'
  BY <1>3 DEF CreateFile
<1>4. ASSUME NEW i \in Instances, OpenLock(i) PROVE LockInv'
  BY <1>4 DEF OpenLock
<1>5. ASSUME NEW i \in Instances, OpenFinish(i) PROVE LockInv'
  BY <1>5 DEF OpenFinish, CallInv
<1>6. ASSUME NEW i \in Instances, Stop(i) PROVE LockInv'
  BY <1>6 DEF Stop, Gone
<1>7. ASSUME NEW c \in Callers, NEW o \in Menu[c], Invoke(c, o) PROVE LockInv'
  BY <1>7 DEF Invoke
<1>8. ASSUME NEW c \in Callers, RejectInput(c) PROVE LockInv'
  BY <1>8 DEF RejectInput
<1>9. ASSUME NEW c \in Callers, AcquireMutex(c) PROVE LockInv'
  BY <1>9 DEF AcquireMutex
<1>10. ASSUME NEW c \in Callers, TryLock(c) PROVE LockInv'
  BY <1>10 DEF TryLock
<1>11. ASSUME NEW c \in Callers, LockTimeout(c) PROVE LockInv'
  BY <1>11 DEF LockTimeout
<1>12. ASSUME NEW c \in Callers, Load(c) PROVE LockInv'
  BY <1>12 DEF Load
<1>13. ASSUME NEW c \in Callers, LoadFails(c) PROVE LockInv'
  BY <1>13 DEF LoadFails
<1>14. ASSUME NEW c \in Callers, Refused(c) PROVE LockInv'
  BY <1>14 DEF Refused
<1>15. ASSUME NEW c \in Callers, GetStatus(c) PROVE LockInv'
  BY <1>15 DEF GetStatus
<1>16. ASSUME NEW c \in Callers, Modify(c) PROVE LockInv'
  BY <1>16 DEF Modify
<1>17. ASSUME NEW c \in Callers, WriteTemp(c) PROVE LockInv'
  BY <1>17 DEF WriteTemp
<1>18. ASSUME NEW c \in Callers, SyncTemp(c) PROVE LockInv'
  BY <1>18 DEF SyncTemp
<1>19. ASSUME NEW c \in Callers, Rename(c) PROVE LockInv'
  BY <1>19 DEF Rename
<1>20. ASSUME NEW c \in Callers, SaveFails(c) PROVE LockInv'
  BY <1>20 DEF SaveFails, Saving
<1>21. ASSUME NEW c \in Callers, UnlockFlock(c) PROVE LockInv'
  BY <1>21 DEF UnlockFlock, CallInv
<1>22. ASSUME NEW c \in Callers, UnlockMutex(c) PROVE LockInv'
  BY <1>22 DEF UnlockMutex
<1>23. ASSUME NEW c \in Callers, Return(c) PROVE LockInv'
  BY <1>23 DEF Return
<1> QED
  BY ZenonT(30), <1>1, <1>2, <1>3, <1>4, <1>5, <1>6, <1>7, <1>8, <1>9, <1>10,
     <1>11,
     <1>12, <1>13, <1>14, <1>15, <1>16, <1>17, <1>18, <1>19, <1>20, <1>21,
     <1>22, <1>23 DEF Next, Step

\* The file stays in place.
LEMMA ProvisionedStep ==
    ASSUME Core, Next
    PROVE  Provisioned'
<1> USE DEF Core, TypeOK, Provisioned, fileVars, lockVars, callVars, Go, Reply
<1>1. CASE Tick
  BY <1>1 DEF Tick
<1>2. ASSUME NEW i \in Instances, Start(i) PROVE Provisioned'
  BY <1>2 DEF Start
<1>3. ASSUME NEW i \in Instances, CreateFile(i) PROVE Provisioned'
  BY <1>3 DEF CreateFile
<1>4. ASSUME NEW i \in Instances, OpenLock(i) PROVE Provisioned'
  BY <1>4 DEF OpenLock
<1>5. ASSUME NEW i \in Instances, OpenFinish(i) PROVE Provisioned'
  BY <1>5 DEF OpenFinish
<1>6. ASSUME NEW i \in Instances, Stop(i) PROVE Provisioned'
  BY <1>6 DEF Stop, Gone
<1>7. ASSUME NEW c \in Callers, NEW o \in Menu[c], Invoke(c,
o) PROVE Provisioned'
  BY <1>7 DEF Invoke
<1>8. ASSUME NEW c \in Callers, RejectInput(c) PROVE Provisioned'
  BY <1>8 DEF RejectInput
<1>9. ASSUME NEW c \in Callers, AcquireMutex(c) PROVE Provisioned'
  BY <1>9 DEF AcquireMutex
<1>10. ASSUME NEW c \in Callers, TryLock(c) PROVE Provisioned'
  BY <1>10 DEF TryLock
<1>11. ASSUME NEW c \in Callers, LockTimeout(c) PROVE Provisioned'
  BY <1>11 DEF LockTimeout
<1>12. ASSUME NEW c \in Callers, Load(c) PROVE Provisioned'
  BY <1>12 DEF Load
<1>13. ASSUME NEW c \in Callers, LoadFails(c) PROVE Provisioned'
  BY <1>13 DEF LoadFails
<1>14. ASSUME NEW c \in Callers, Refused(c) PROVE Provisioned'
  BY <1>14 DEF Refused
<1>15. ASSUME NEW c \in Callers, GetStatus(c) PROVE Provisioned'
  BY <1>15 DEF GetStatus
<1>16. ASSUME NEW c \in Callers, Modify(c) PROVE Provisioned'
  BY <1>16 DEF Modify
<1>17. ASSUME NEW c \in Callers, WriteTemp(c) PROVE Provisioned'
  BY <1>17 DEF WriteTemp
<1>18. ASSUME NEW c \in Callers, SyncTemp(c) PROVE Provisioned'
  BY <1>18 DEF SyncTemp
<1>19. ASSUME NEW c \in Callers, Rename(c) PROVE Provisioned'
  BY <1>19 DEF Rename
<1>20. ASSUME NEW c \in Callers, SaveFails(c) PROVE Provisioned'
  BY <1>20 DEF SaveFails
<1>21. ASSUME NEW c \in Callers, UnlockFlock(c) PROVE Provisioned'
  BY <1>21 DEF UnlockFlock
<1>22. ASSUME NEW c \in Callers, UnlockMutex(c) PROVE Provisioned'
  BY <1>22 DEF UnlockMutex
<1>23. ASSUME NEW c \in Callers, Return(c) PROVE Provisioned'
  BY <1>23 DEF Return
<1> QED
  BY ZenonT(30), <1>1, <1>2, <1>3, <1>4, <1>5, <1>6, <1>7, <1>8, <1>9, <1>10,
     <1>11,
     <1>12, <1>13, <1>14, <1>15, <1>16, <1>17, <1>18, <1>19, <1>20, <1>21,
     <1>22, <1>23 DEF Next, Step

\* Every step keeps loaded maps up to date.
LEMMA SnapshotStep ==
    ASSUME Core, Next
    PROVE  SnapshotFresh'
<1> USE DEF Core, TypeOK, SnapshotFresh, fileVars, lockVars, callVars, Go,
Reply, Saving
<1>1. CASE Tick
  BY <1>1 DEF Tick
<1>2. ASSUME NEW i \in Instances, Start(i) PROVE SnapshotFresh'
  BY <1>2 DEF Start
<1>3. ASSUME NEW i \in Instances, CreateFile(i) PROVE SnapshotFresh'
  BY <1>3 DEF CreateFile, Provisioned
<1>4. ASSUME NEW i \in Instances, OpenLock(i) PROVE SnapshotFresh'
  BY <1>4 DEF OpenLock
<1>5. ASSUME NEW i \in Instances, OpenFinish(i) PROVE SnapshotFresh'
  BY <1>5 DEF OpenFinish
<1>6. ASSUME NEW i \in Instances, Stop(i) PROVE SnapshotFresh'
  BY <1>6 DEF Stop, Gone
<1>7. ASSUME NEW c \in Callers, NEW o \in Menu[c], Invoke(c,
o) PROVE SnapshotFresh'
  BY <1>7 DEF Invoke
<1>8. ASSUME NEW c \in Callers, RejectInput(c) PROVE SnapshotFresh'
  BY <1>8 DEF RejectInput
<1>9. ASSUME NEW c \in Callers, AcquireMutex(c) PROVE SnapshotFresh'
  BY <1>9 DEF AcquireMutex
<1>10. ASSUME NEW c \in Callers, TryLock(c) PROVE SnapshotFresh'
  BY <1>10 DEF TryLock
<1>11. ASSUME NEW c \in Callers, LockTimeout(c) PROVE SnapshotFresh'
  BY <1>11 DEF LockTimeout
<1>12. ASSUME NEW c \in Callers, Load(c) PROVE SnapshotFresh'
  BY <1>12 DEF Load
<1>13. ASSUME NEW c \in Callers, LoadFails(c) PROVE SnapshotFresh'
  BY <1>13 DEF LoadFails
<1>14. ASSUME NEW c \in Callers, Refused(c) PROVE SnapshotFresh'
  BY <1>14 DEF Refused
<1>15. ASSUME NEW c \in Callers, GetStatus(c) PROVE SnapshotFresh'
  BY <1>15 DEF GetStatus
<1>16. ASSUME NEW c \in Callers, Modify(c) PROVE SnapshotFresh'
  BY <1>16 DEF Modify
<1>17. ASSUME NEW c \in Callers, WriteTemp(c) PROVE SnapshotFresh'
  BY <1>17 DEF WriteTemp
<1>18. ASSUME NEW c \in Callers, SyncTemp(c) PROVE SnapshotFresh'
  BY <1>18 DEF SyncTemp
<1>19. ASSUME NEW c \in Callers, Rename(c) PROVE SnapshotFresh'
  BY <1>19 DEF Rename, LockInv, HasMutex, HasFlock
<1>20. ASSUME NEW c \in Callers, SaveFails(c) PROVE SnapshotFresh'
  BY <1>20 DEF SaveFails
<1>21. ASSUME NEW c \in Callers, UnlockFlock(c) PROVE SnapshotFresh'
  BY <1>21 DEF UnlockFlock
<1>22. ASSUME NEW c \in Callers, UnlockMutex(c) PROVE SnapshotFresh'
  BY <1>22 DEF UnlockMutex
<1>23. ASSUME NEW c \in Callers, Return(c) PROVE SnapshotFresh'
  BY ZenonT(60), <1>23 DEF Return
<1> QED
  BY ZenonT(30), <1>1, <1>2, <1>3, <1>4, <1>5, <1>6, <1>7, <1>8, <1>9, <1>10,
     <1>11,
     <1>12, <1>13, <1>14, <1>15, <1>16, <1>17, <1>18, <1>19, <1>20, <1>21,
     <1>22, <1>23 DEF Next, Step

\* Every step of a process adds to the uses of an approval what it adds to
\* its Consumed flag.
LEMMA SpendStep ==
    ASSUME Core, Next, NEW r \in Refs
    PROVE  uses'[r] + Spent(disk[r]) = uses[r] + Spent(disk'[r])
<1> USE DEF Core, TypeOK, fileVars
<1>1. CASE disk' = disk /\ uses' = uses
  BY <1>1 DEF Spent
<1>2. ASSUME NEW i \in Instances, CreateFile(i)
      PROVE  FALSE
  BY <1>2 DEF CreateFile, Provisioned
<1>3. ASSUME NEW c \in Callers, Rename(c)
      PROVE  uses'[r] + Spent(disk[r]) = uses[r] + Spent(disk'[r])
  <2> DEFINE o == call[c]
  <2>1. PICK u \in 0..now : mem[c] = Modified(disk, o, u)
    BY <1>3 DEF Rename, SnapshotFresh, Saving
  <2>2. /\ o \in Operation /\ ~LacksField(o) /\ o.kind # "get"
        /\ Check(disk, o) = "ok"
    BY <1>3 DEF Rename, CallInv, SnapshotFresh, Saving, HasMutex
  <2>3. disk' = Modified(disk, o, u)
    BY <1>3, <2>1 DEF Rename
  <2>4. CASE r # o.ref
    BY <1>3, <2>2, <2>3, <2>4 DEF Rename, Modified, Operation, Records, Spent
  <2>5. CASE r = o.ref /\ o.kind = "create"
    BY SMTT(60), Z3T(60), <1>3, <2>2, <2>3, <2>5
       DEF Rename, Modified, Records, NewRecord, Check, Spent
  <2>6. CASE r = o.ref /\ o.kind \in {"decide", "consume"}
    <3>1. disk[r] \in Record
      BY <2>2, <2>6 DEF Check, Records
    <3>2. disk'[r] = IF o.kind = "decide"
                     THEN [disk[r] EXCEPT !.decision = o.arg]
                     ELSE [disk[r] EXCEPT !.consumed = TRUE]
      BY ZenonT(30), <2>3, <2>6 DEF Modified, Records
    <3>3. disk'[r] \in Record
      <4>1. CASE o.kind = "decide"
        <5>1. o.arg \in Verdicts
          BY <2>2, <4>1 DEF Operation, LacksField
        <5> QED BY ZenonT(60), <3>1, <3>2, <4>1, <5>1 DEF Record
      <4>2. CASE o.kind = "consume"
        BY ZenonT(30), <3>1, <3>2, <4>2 DEF Record
      <4> QED BY <2>6, <4>1, <4>2
    <3>4. CASE o.kind = "decide"
      <4>1. uses' = uses /\ disk'[r].consumed = disk[r].consumed
        BY ZenonT(60), <1>3, <3>1, <3>2, <3>4 DEF Rename, Record
      <4> QED BY <3>1, <3>3, <4>1 DEF Spent
    <3>5. CASE o.kind = "consume"
      <4>1. ~disk[r].consumed /\ disk'[r].consumed
        BY <2>2, <2>6, <3>1, <3>2, <3>5 DEF Check, Record
      <4>2. uses'[r] = uses[r] + 1
        BY <1>3, <2>6, <3>5 DEF Rename
      <4> QED BY <3>1, <3>3, <4>1, <4>2 DEF Spent
    <3> QED BY <2>6, <3>4, <3>5
  <2> QED BY ZenonT(30), <2>2, <2>4, <2>5, <2>6 DEF Operation
<1>4. \/ disk' = disk /\ uses' = uses
      \/ \E i \in Instances : CreateFile(i)
      \/ \E c \in Callers : Rename(c)
  BY ZenonT(30) DEF Next, Step, Tick, Start, OpenLock, OpenFinish, Stop,
         Invoke, RejectInput, AcquireMutex, TryLock, LockTimeout, Load,
         LoadFails, Refused, GetStatus, Modify, WriteTemp, SyncTemp,
         SaveFails, UnlockFlock, UnlockMutex, Return
<1> QED BY <1>1, <1>2, <1>3, <1>4

\* Every step keeps the count of uses equal to the flag.
LEMMA UsesStep ==
    ASSUME IInv, Next
    PROVE  UsesInv'
<1> SUFFICES ASSUME NEW r \in Refs
             PROVE  uses'[r] = Spent(disk'[r])
  BY DEF UsesInv, Spent
<1>1. uses'[r] + Spent(disk[r]) = uses[r] + Spent(disk'[r])
  BY SpendStep DEF IInv
<1>2. uses[r] = Spent(disk[r]) /\ uses[r] \in Nat /\ uses'[r] \in Nat
  BY TypeStep DEF IInv, Core, UsesInv, TypeOK
<1>3. Spent(disk'[r]) \in Nat
  BY DEF Spent
<1> QED BY SMTT(60), Z3T(60), <1>1, <1>2, <1>3

\* Processes that have not been started satisfy the inductive invariant.
LEMMA InitInv == InitProvisioned => IInv
  BY SMTT(60), Z3T(60), EmptyType, IdleType
     DEF InitProvisioned, Init, IInv, Core, TypeOK, CallInv, LockInv,
     Provisioned,
         SnapshotFresh, UsesInv, Spent, Locations, HasMutex, HasFlock, Saving,
         EmptyRecords

\* Every step of every process preserves the inductive invariant.
LEMMA StepInv == IInv /\ [Next]_vars => IInv'
<1>1. CASE IInv /\ Next
  BY <1>1, TypeStep, CallStep, LockStep, ProvisionedStep, SnapshotStep,
     UsesStep DEF IInv, Core
<1>2. CASE IInv /\ UNCHANGED vars
  BY ZenonT(30), <1>2 DEF IInv, Core, TypeOK, CallInv, LockInv, Provisioned,
     SnapshotFresh,
              UsesInv, vars, fileVars, lockVars, callVars
<1> QED BY <1>1, <1>2

\* The inductive invariant holds throughout.
THEOREM Invariance == Spec => []IInv
  BY InitInv, StepInv, PTL DEF Spec

\* The variables keep their types.
THEOREM TypeCorrect == Spec => []TypeOK
<1>1. IInv => TypeOK
  BY DEF IInv, Core
<1> QED BY <1>1, Invariance, PTL

\* withLock excludes every other goroutine and process.
THEOREM Exclusion == Spec => []MutualExclusion
<1>1. IInv => MutualExclusion
  BY DEF IInv, Core, TypeOK, LockInv, CallInv, MutualExclusion, HasMutex,
     HasFlock
<1> QED BY <1>1, Invariance, PTL

\* No goroutine saves a map that is older than the file.
THEOREM NoStaleSave == Spec => []SnapshotFresh
<1>1. IInv => SnapshotFresh
  BY DEF IInv, Core
<1> QED BY <1>1, Invariance, PTL

\* An approval is consumed at most once.
THEOREM UsedOnce == Spec => []SingleUse
<1>1. ASSUME IInv, NEW r \in Refs
      PROVE  uses[r] <= 1
  <2>1. uses[r] = 0 \/ uses[r] = 1
    BY <1>1 DEF IInv, Core, UsesInv, Spent
  <2> QED BY <2>1
<1>2. IInv => SingleUse
  BY ZenonT(30), <1>1 DEF SingleUse
<1> QED BY <1>2, Invariance, PTL

\* What is in the file is never taken back.
LEMMA GrowsStep ==
    ASSUME Core, [Next]_vars, NEW r \in Refs
    PROVE  Grows(disk[r], disk'[r])
<1> USE DEF Core, fileVars
<1>1. CASE disk' = disk
  BY <1>1 DEF Grows
<1>2. ASSUME NEW i \in Instances, CreateFile(i)
      PROVE  FALSE
  BY ZenonT(60), <1>2 DEF CreateFile, Provisioned
<1>3. ASSUME NEW c \in Callers, Rename(c)
      PROVE  Grows(disk[r], disk'[r])
  <2>1. PICK u \in 0..now : disk' = Modified(disk, call[c], u)
    BY ZenonT(30), <1>3 DEF Rename, SnapshotFresh, Saving
  <2>2. /\ call[c] \in Operation /\ ~LacksField(call[c])
        /\ call[c].kind # "get" /\ Check(disk, call[c]) = "ok"
    BY ZenonT(30), <1>3 DEF Rename, CallInv, SnapshotFresh, Saving, HasMutex
  <2>3. disk \in Records /\ u \in Nat
    BY <2>1 DEF TypeOK
  <2> QED BY ZenonT(60), <2>1, <2>2, <2>3, ModifiedGrows
<1>4. \/ disk' = disk
      \/ \E i \in Instances : CreateFile(i)
      \/ \E c \in Callers : Rename(c)
  BY ZenonT(30) DEF Next, Step, vars, Tick, Start, OpenLock, OpenFinish, Stop,
     Invoke,
         RejectInput, AcquireMutex, TryLock, LockTimeout, Load, LoadFails,
         Refused, GetStatus, Modify, WriteTemp, SyncTemp, SaveFails,
         UnlockFlock, UnlockMutex, Return
<1> QED BY <1>1, <1>2, <1>3, <1>4

\* Whatever withLock saves, no approval is removed, re-created, undecided or
\* unconsumed.
THEOREM Permanence == Spec => NeverUndone
<1>1. IInv /\ [Next]_vars => [\A r \in Refs : Grows(disk[r], disk'[r])]_vars
  BY GrowsStep DEF IInv
<1> QED BY <1>1, Invariance, PTL DEF Spec, NeverUndone

-----------------------------------------------------------------------------
(* FileStore implements ApprovalStore *)

\* A file without records is an empty store.
LEMMA InitRefines == InitProvisioned => Abs!Init
  BY DEF InitProvisioned, Init, Abs!Init, Idle, Answer, EmptyRecords,
         Abs!Idle, Abs!Answer, Abs!EmptyRecords

\* A step that touches neither the file nor the answers is invisible.
LEMMA Invisible ==
    ASSUME Next,
           \/ \E i \in Instances : Start(i) \/ OpenLock(i) \/ OpenFinish(i)
           \/ \E c \in Callers :
                \/ AcquireMutex(c) \/ TryLock(c) \/ Load(c) \/ Modify(c)
                \/ WriteTemp(c) \/ SyncTemp(c)
                \/ UnlockFlock(c) \/ UnlockMutex(c)
    PROVE  UNCHANGED Abs!vars
  BY ZenonT(30) DEF Abs!vars, Start, OpenLock, OpenFinish, AcquireMutex,
     TryLock, Load,
         Modify, WriteTemp, SyncTemp, UnlockFlock, UnlockMutex, fileVars,
         callVars

\* The step that renames the new file into place is the atomic effect of
\* Create, Decide or Consume.
LEMMA RenameRefines ==
    ASSUME IInv, NEW c \in Callers, Rename(c)
    PROVE  Abs!Create(c) \/ Abs!Decide(c) \/ Abs!Consume(c)
<1> DEFINE o == call[c]
<1> USE DEF fileVars, lockVars, callVars
<1>1. PICK u \in 0..now : disk' = Modified(disk, o, u)
  BY ZenonT(30) DEF IInv, Core, Rename, SnapshotFresh, Saving
<1>2. /\ o \in Operation /\ ~LacksField(o) /\ o.kind # "get"
      /\ Check(disk, o) = "ok" /\ ret[c] = Answer("pending", None)
  BY ZenonT(30) DEF IInv, Core, Rename, CallInv, SnapshotFresh, Saving, HasMutex
<1>3. /\ ret' = [ret EXCEPT ![c] = Answer("ok", None)]
      /\ UNCHANGED <<now, call>>
  BY ZenonT(60) DEF Rename, Reply
<1>4. CASE o.kind = "create"
  <2>1. o.arg # None /\ disk[o.ref] = None
    BY <1>2, <1>4 DEF LacksField, Check
  <2>2. disk' = [disk EXCEPT ![o.ref] = Abs!NewRecord(o.arg, u)]
    BY <1>1, <1>4 DEF Modified, NewRecord, Abs!NewRecord
  <2>3. UNCHANGED uses
    BY <1>4 DEF Rename
  <2>4. Abs!Put(c, Abs!NewRecord(o.arg, u))
    BY <1>3, <2>2 DEF Abs!Put, Abs!Reply, Answer, Abs!Answer
  <2>5. Abs!Pending(c, "create")
    BY <1>2, <1>4 DEF Abs!Pending, Answer
  <2> QED BY <2>1, <2>3, <2>4, <2>5 DEF Abs!Create
<1>5. CASE o.kind = "decide"
  <2>1. o.arg # None /\ disk[o.ref] # None /\ disk[o.ref].decision = None
    BY <1>2, <1>5 DEF LacksField, Check
  <2>2. disk' = [disk EXCEPT ![o.ref] =
                    [disk[o.ref] EXCEPT !.decision = o.arg]]
    BY <1>1, <1>5 DEF Modified
  <2>3. UNCHANGED uses
    BY <1>5 DEF Rename
  <2>4. Abs!Put(c, [disk[o.ref] EXCEPT !.decision = o.arg])
    BY <1>3, <2>2 DEF Abs!Put, Abs!Reply, Answer, Abs!Answer
  <2>5. Abs!Pending(c, "decide")
    BY <1>2, <1>5 DEF Abs!Pending, Answer
  <2> QED BY <2>1, <2>3, <2>4, <2>5 DEF Abs!Decide
<1>6. CASE o.kind = "consume"
  <2>1. disk[o.ref] # None /\ ~disk[o.ref].consumed
    BY <1>2, <1>6 DEF Check
  <2>2. disk' = [disk EXCEPT ![o.ref] =
                    [disk[o.ref] EXCEPT !.consumed = TRUE]]
    BY <1>1, <1>6 DEF Modified
  <2>3. uses' = [uses EXCEPT ![o.ref] = @ + 1]
    BY <1>6 DEF Rename
  <2>4. Abs!Put(c, [disk[o.ref] EXCEPT !.consumed = TRUE])
    BY <1>3, <2>2 DEF Abs!Put, Abs!Reply, Answer, Abs!Answer
  <2>5. Abs!Pending(c, "consume")
    BY <1>2, <1>6 DEF Abs!Pending, Answer
  <2> QED BY <2>1, <2>3, <2>4, <2>5 DEF Abs!Consume
<1> QED BY <1>2, <1>4, <1>5, <1>6 DEF Operation

\* A check that fails on the loaded map fails on the file as it is.
LEMMA RefusedRefines ==
    ASSUME IInv, NEW c \in Callers, Refused(c)
    PROVE  Abs!Create(c) \/ Abs!Decide(c) \/ Abs!Get(c) \/ Abs!Consume(c)
<1> DEFINE o == call[c]
<1> USE DEF fileVars, lockVars, callVars
<1>1. /\ o \in Operation /\ ~LacksField(o) /\ mem[c] = disk
      /\ ret[c] = Answer("pending", None)
  BY ZenonT(30) DEF IInv, Core, Refused, CallInv, SnapshotFresh, HasMutex
<1>2. Check(disk, o) # "ok"
  BY ZenonT(30), <1>1 DEF Refused
<1>3. Abs!Refuse(c, Check(disk, o))
  BY ZenonT(30), <1>1 DEF Refused, Reply, Abs!Refuse, Abs!Reply, Answer,
     Abs!Answer
<1>4. \A kind : o.kind = kind => Abs!Pending(c, kind)
  BY <1>1 DEF Abs!Pending, Answer
<1>5. CASE o.kind = "create"
  <2>1. o.arg # None /\ disk[o.ref] # None /\ Check(disk, o) = "duplicate"
    BY <1>1, <1>2, <1>5 DEF LacksField, Check
  <2> QED BY ZenonT(30), <1>3, <1>4, <1>5, <2>1 DEF Abs!Create
<1>6. CASE o.kind = "decide"
  <2>1. o.arg # None
    BY <1>1, <1>6 DEF LacksField
  <2>2. \/ disk[o.ref] = None /\ Check(disk, o) = "notFound"
        \/ /\ disk[o.ref] # None /\ disk[o.ref].decision # None
           /\ Check(disk, o) = "alreadyDecided"
    BY <1>2, <1>6 DEF Check
  <2> QED BY <1>3, <1>4, <1>6, <2>1, <2>2 DEF Abs!Decide
<1>7. CASE o.kind = "get"
  <2>1. disk[o.ref] = None /\ Check(disk, o) = "notFound"
    BY <1>2, <1>7 DEF Check
  <2> QED BY ZenonT(30), <1>3, <1>4, <1>7, <2>1 DEF Abs!Get
<1>8. CASE o.kind = "consume"
  <2>1. \/ disk[o.ref] = None /\ Check(disk, o) = "notFound"
        \/ /\ disk[o.ref] # None /\ disk[o.ref].consumed
           /\ Check(disk, o) = "alreadyConsumed"
    BY <1>2, <1>8 DEF Check
  <2> QED BY <1>3, <1>4, <1>8, <2>1 DEF Abs!Consume
<1> QED BY <1>1, <1>5, <1>6, <1>7, <1>8 DEF Operation

\* The status of the loaded record is the status of the record in the file.
LEMMA GetRefines ==
    ASSUME IInv, NEW c \in Callers, GetStatus(c)
    PROVE  Abs!Get(c)
<1>1. /\ mem[c] = disk /\ ret[c] = Answer("pending", None)
      /\ disk[call[c].ref] # None
  BY ZenonT(60) DEF IInv, Core, GetStatus, CallInv, SnapshotFresh, Check
<1>2. Abs!Pending(c, "get")
  <2>1. ret[c].code = "pending"
    BY <1>1 DEF Answer
  <2> QED BY ZenonT(60), <2>1 DEF GetStatus, Abs!Pending
<1> DEFINE rec == disk[call[c].ref]
<1>3. StatusOf(rec, now) = Abs!StatusOf(rec, now)
  BY ZenonT(60) DEF StatusOf, Abs!StatusOf, Expired, Abs!Expired
<1>4. ret' = [ret EXCEPT ![c] = Answer("ok", StatusOf(rec, now))]
  BY <1>1 DEF GetStatus, Reply
<1>5. ret' = [ret EXCEPT ![c] = Abs!Answer("ok", Abs!StatusOf(rec, now))]
  BY ZenonT(60), <1>3, <1>4 DEF Answer, Abs!Answer
<1>6. UNCHANGED <<now, disk, call, uses>>
  BY ZenonT(60) DEF GetStatus, fileVars
<1> HIDE DEF rec
<1> QED
  BY ZenonT(30), <1>1, <1>2, <1>5, <1>6 DEF Abs!Get, rec

\* Every step of every process is a step of the abstract store, or invisible.
LEMMA StepRefines ==
    ASSUME IInv, [Next]_vars
    PROVE  [Abs!Next]_(Abs!vars)
<1> USE DEF fileVars, lockVars, callVars
<1>1. CASE UNCHANGED vars
  BY <1>1 DEF vars, Abs!vars
<1>2. CASE Tick
  BY <1>2 DEF Tick, Abs!Tick, Abs!Next
<1>3. ASSUME NEW i \in Instances, CreateFile(i)
      PROVE  FALSE
  BY <1>3 DEF CreateFile, IInv, Core, Provisioned
<1>4. ASSUME NEW i \in Instances, Stop(i)
      PROVE  Abs!Next
  <2> DEFINE C == {c \in Callers : InstanceOf[c] \in {i}}
  <2>1. Abs!Crash(C)
    BY <1>4 DEF Stop, Gone, Abs!Crash, Idle, Abs!Idle, Answer, Abs!Answer
  <2> QED BY ZenonT(60), <2>1 DEF Abs!Next
<1>5. ASSUME NEW c \in Callers, NEW o \in Menu[c], Invoke(c, o)
      PROVE  Abs!Next
  <2>1. ret[c] = Abs!Idle
    BY <1>5 DEF Invoke, IInv, Core, CallInv, Idle, Abs!Idle, Answer, Abs!Answer
  <2>2. Abs!Invoke(c, o)
    BY ZenonT(30), <1>5, <2>1 DEF Invoke, Reply, Abs!Invoke, Answer, Abs!Answer
  <2> QED BY SMTT(60), Z3T(60), <2>2 DEF Abs!Next
<1>6. ASSUME NEW c \in Callers, RejectInput(c)
      PROVE  Abs!Next
  <2>1. ret[c] = Answer("pending", None)
    BY <1>6 DEF RejectInput, IInv, Core, CallInv
  <2>2. Abs!Create(c) \/ Abs!Decide(c)
    BY <1>6, <2>1 DEF RejectInput, LacksField, Reply, Abs!Create, Abs!Decide,
        Abs!Pending, Abs!Refuse, Abs!Reply, Answer, Abs!Answer
  <2> QED BY SMTT(60), Z3T(60), <2>2 DEF Abs!Next
<1>7. ASSUME NEW c \in Callers,
             LockTimeout(c) \/ LoadFails(c) \/ SaveFails(c)
      PROVE  Abs!Next
  <2>1. ret[c] = Answer("pending", None)
    BY ZenonT(30), <1>7 DEF LockTimeout, LoadFails, SaveFails, IInv, Core,
       CallInv
  <2>2. Abs!Fail(c)
    BY <1>7, <2>1 DEF LockTimeout, LoadFails, SaveFails, Reply, Abs!Fail,
        Abs!Refuse, Abs!Reply, Answer, Abs!Answer
  <2> QED BY <2>2 DEF Abs!Next
<1>8. ASSUME NEW c \in Callers, Refused(c) \/ GetStatus(c) \/ Rename(c)
      PROVE  Abs!Next
  BY <1>8, RefusedRefines, GetRefines, RenameRefines DEF Abs!Next
<1>9. ASSUME NEW c \in Callers, Return(c)
      PROVE  Abs!Next
  <2>1. ret[c].code \notin {"idle", "pending"}
    BY <1>9 DEF Return, IInv, Core, CallInv
  <2>2. Abs!Return(c)
    BY <1>9, <2>1 DEF Return, Abs!Return, Idle, Abs!Idle, Answer, Abs!Answer
  <2> QED BY ZenonT(60), <2>2 DEF Abs!Next
<1> QED
  BY <1>1, <1>2, <1>3, <1>4, <1>5, <1>6, <1>7, <1>8, <1>9, Invisible
  DEF Next, Step

\* FileStore implements the Store interface: operations are atomic for
\* their callers, whatever the interleaving and wherever a process stops.
THEOREM Refinement == Spec => ImplementsStore
  BY InitRefines, StepRefines, Invariance, PTL
  DEF Spec, ImplementsStore, Abs!Spec
-----------------------------------------------------------------------------
(* Power failures *)

\* A file that is renamed over the store file has been fsynced.
SyncInv ==
    /\ pc \in [Callers -> Locations]
    /\ tmpSynced \in [Callers -> BOOLEAN]
    /\ fileState # "torn" /\ onDisk = TRUE
    /\ \A c \in Callers : pc[c] = "rename" => tmpSynced[c] = TRUE

\* Every step keeps it so, power failures included, and whether or not the
\* store file was there from the start.
LEMMA SyncStep ==
    ASSUME SyncInv, [Next \/ FlushDirectory \/ PowerLoss]_vars
    PROVE  SyncInv'
<1> USE DEF SyncInv, Locations, HasMutex, fileVars, callVars, Go
<1>1. CASE UNCHANGED vars
  BY <1>1 DEF vars
<1>2. CASE Tick \/ FlushDirectory
  BY <1>2 DEF Tick, FlushDirectory
<1>3. ASSUME NEW i \in Instances,
             Start(i) \/ CreateFile(i) \/ OpenLock(i) \/ OpenFinish(i)
      PROVE  SyncInv'
  BY <1>3 DEF Start, CreateFile, OpenLock, OpenFinish
<1>4. ASSUME NEW i \in Instances, Stop(i) PROVE SyncInv'
  BY <1>4 DEF Stop, Gone
<1>5. CASE PowerLoss
  BY ZenonT(60), <1>5 DEF PowerLoss, Gone, AfterLoss
<1>6. ASSUME NEW c \in Callers, NEW o \in Menu[c], Invoke(c, o) PROVE SyncInv'
  BY <1>6 DEF Invoke
<1>7. ASSUME NEW c \in Callers,
             \/ RejectInput(c) \/ AcquireMutex(c) \/ TryLock(c)
             \/ LockTimeout(c) \/ Load(c) \/ LoadFails(c)
      PROVE  SyncInv'
  BY ZenonT(60), <1>7
     DEF RejectInput, AcquireMutex, TryLock, LockTimeout, Load, LoadFails
<1>8. ASSUME NEW c \in Callers,
             Refused(c) \/ GetStatus(c) \/ Modify(c) \/ SaveFails(c)
      PROVE  SyncInv'
  BY <1>8 DEF Refused, GetStatus, Modify, SaveFails
<1>9. ASSUME NEW c \in Callers, UnlockFlock(c) \/ UnlockMutex(c) \/ Return(c)
      PROVE  SyncInv'
  BY ZenonT(60), <1>9 DEF UnlockFlock, UnlockMutex, Return
<1>10. ASSUME NEW c \in Callers, WriteTemp(c) PROVE SyncInv'
  BY <1>10 DEF WriteTemp
<1>11. ASSUME NEW c \in Callers, SyncTemp(c) PROVE SyncInv'
  BY ZenonT(60), <1>11 DEF SyncTemp
<1>12. ASSUME NEW c \in Callers, Rename(c) PROVE SyncInv'
  BY <1>12 DEF Rename
<1> QED
  BY ZenonT(30), <1>1, <1>2, <1>3, <1>4, <1>5, <1>6, <1>7, <1>8, <1>9, <1>10,
     <1>11, <1>12 DEF Next, Step

\* A power failure never leaves the store file half written, however many
\* there are, and also in a store that its first start creates.
THEOREM FileWhole == PowerLossSpec => []NeverTorn
<1>1. Init => SyncInv
  BY DEF Init, SyncInv, Locations
<1>2. SyncInv => NeverTorn
  BY DEF SyncInv, NeverTorn
<1> QED BY <1>1, <1>2, SyncStep, PTL DEF PowerLossSpec

\* The file says of an approval that it was used, unless a power failure took
\* that back.
LossInv == \A r \in Refs : uses[r] <= Spent(disk[r]) + losses

\* The files a power failure can leave are there if one was there before.
LEMMA AfterLossType ==
    ASSUME NEW recs, fileState \in {"blank", "json", "torn"}
    PROVE  AfterLoss(recs) \subseteq {"blank", "json", "torn"}
  BY ZenonT(60) DEF AfterLoss

\* A power failure ends every call and leaves one of two maps of records.
LEMMA PowerStep ==
    ASSUME Core, PowerLoss
    PROVE  Core'
<1> USE DEF Core, TypeOK
<1>1. /\ now' = now /\ onDisk' = onDisk /\ uses' = uses
      /\ losses' = losses + 1
      /\ disk' \in {disk, flushed} /\ flushed' = disk'
  BY DEF PowerLoss
<1>2. fileState' \in {"blank", "json", "torn"}
  BY SMTT(60), Z3T(60), AfterLossType DEF PowerLoss, Provisioned
<1>3. /\ open' = [i \in Instances |-> "down"]
      /\ mu' = [i \in Instances |-> None]
      /\ osLock' = None
      /\ pc' = [c \in Callers |-> "idle"]
      /\ call' = [c \in Callers |-> None]
      /\ mem' = [c \in Callers |-> EmptyRecords]
      /\ tmpSynced' = [c \in Callers |-> FALSE]
      /\ ret' = [c \in Callers |-> Idle]
  BY DEF PowerLoss, Gone
<1>4. TypeOK'
  BY <1>1, <1>2, <1>3, EmptyType, IdleType DEF Locations
<1>5. CallInv'
  BY <1>3 DEF CallInv, HasMutex, Saving
<1>6. LockInv' /\ Provisioned' /\ SnapshotFresh'
  BY <1>2, <1>3
     DEF LockInv, Provisioned, SnapshotFresh, HasMutex, HasFlock, Saving
<1> QED BY <1>4, <1>5, <1>6

\* The core of the invariant survives every step and every power failure.
LEMMA CoreStep ==
    ASSUME Core, [Next \/ FlushDirectory \/ PowerLoss]_vars
    PROVE  Core'
<1>1. CASE Next
  BY <1>1, TypeStep, CallStep, LockStep, ProvisionedStep, SnapshotStep
  DEF Core
<1>2. CASE FlushDirectory \/ UNCHANGED vars
  <2>1. UNCHANGED <<now, fileState, disk, onDisk, losses, uses>>
    BY ZenonT(60), <1>2 DEF FlushDirectory, vars, fileVars
  <2>2. UNCHANGED <<osLock, open, mu, pc, call, mem, tmpSynced, ret>>
    BY ZenonT(60), <1>2 DEF FlushDirectory, vars, lockVars, callVars
  <2>3. flushed' \in Records
    BY ZenonT(60), <1>2 DEF FlushDirectory, vars, fileVars, Core, TypeOK
  <2>4. TypeOK'
    BY <2>1, <2>2, <2>3 DEF Core, TypeOK
  <2>5. CallInv' /\ LockInv' /\ Provisioned'
    BY ZenonT(30), <2>1, <2>2 DEF Core, CallInv, LockInv, Provisioned
  <2>6. SnapshotFresh'
    BY ZenonT(30), <2>1, <2>2 DEF Core, SnapshotFresh
  <2> QED BY ZenonT(60), <2>4, <2>5, <2>6 DEF Core
<1> QED BY <1>1, <1>2, PowerStep

\* A use is recorded in the file; each failure takes back at most one.
LEMMA LossStep ==
    ASSUME Core, LossInv, [Next \/ FlushDirectory \/ PowerLoss]_vars
    PROVE  LossInv'
<1> SUFFICES ASSUME NEW r \in Refs
             PROVE  uses'[r] <= Spent(disk'[r]) + losses'
  BY DEF LossInv, Spent
<1>1. /\ uses[r] \in Nat /\ losses \in Nat
      /\ uses[r] <= Spent(disk[r]) + losses
  BY ZenonT(60) DEF Core, TypeOK, LossInv
<1>2. uses'[r] \in Nat
  BY ZenonT(60), CoreStep DEF Core, TypeOK
<1>3. Spent(disk[r]) \in 0..1 /\ Spent(disk'[r]) \in 0..1
  BY DEF Spent
<1>4. CASE Next
  <2>1. losses' = losses
    BY ZenonT(30), <1>4 DEF Next, Step, Tick, Start, CreateFile, OpenLock,
       OpenFinish,
         Stop, Invoke, RejectInput, AcquireMutex, TryLock, LockTimeout, Load,
         LoadFails, Refused, GetStatus, Modify, WriteTemp, SyncTemp, Rename,
         SaveFails, UnlockFlock, UnlockMutex, Return, fileVars
  <2>2. uses'[r] + Spent(disk[r]) = uses[r] + Spent(disk'[r])
    BY <1>4, SpendStep
  <2> QED BY <1>1, <1>2, <1>3, <2>1, <2>2
<1>5. CASE PowerLoss
  <2>1. uses' = uses /\ losses' = losses + 1
    BY <1>5 DEF PowerLoss
  <2> QED BY <1>1, <1>3, <2>1
<1>6. CASE FlushDirectory \/ UNCHANGED vars
  <2>1. uses' = uses /\ losses' = losses /\ disk' = disk
    BY <1>6 DEF FlushDirectory, vars, fileVars
  <2> QED BY ZenonT(60), <1>1, <2>1
<1> QED BY <1>4, <1>5, <1>6

\* Each power failure lets an approval be used at most once more, whatever
\* the interleaving: the exact price of not fsyncing the directory.
THEOREM ReuseBounded == PowerLossSpec => ReusedOnlyByLoss
<1>1. Init /\ fileState # "absent" => Core /\ LossInv
  <2>1. Init /\ fileState # "absent" => IInv
    BY InitInv DEF InitProvisioned
  <2>2. ASSUME IInv, losses = 0, NEW r \in Refs
        PROVE  uses[r] <= Spent(disk[r]) + losses
    <3>1. uses[r] = Spent(disk[r])
      BY <2>2 DEF IInv, UsesInv
    <3>2. Spent(disk[r]) \in 0..1
      BY DEF Spent
    <3> QED BY <2>2, <3>1, <3>2
  <2> QED BY <2>1, <2>2 DEF Init, IInv, LossInv
<1>2. Core /\ LossInv => \A r \in Refs : uses[r] <= 1 + losses
  <2> SUFFICES ASSUME Core, LossInv, NEW r \in Refs
               PROVE  uses[r] <= 1 + losses
    OBVIOUS
  <2>1. /\ uses[r] \in Nat /\ losses \in Nat
        /\ uses[r] <= Spent(disk[r]) + losses
    BY DEF Core, TypeOK, LossInv
  <2>2. Spent(disk[r]) \in 0..1
    BY DEF Spent
  <2> QED BY <2>1, <2>2
<1>3. Core /\ LossInv /\ [Next \/ FlushDirectory \/ PowerLoss]_vars
        => (Core /\ LossInv)'
  BY CoreStep, LossStep
<1> QED BY <1>1, <1>2, <1>3, PTL DEF PowerLossSpec, ReusedOnlyByLoss
=============================================================================
