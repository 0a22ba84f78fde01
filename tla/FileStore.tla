------------------------------ MODULE FileStore ------------------------------
(***************************************************************************)
(* approval.FileStore (internal/approval/filestore.go): the approvals as   *)
(* one JSON file, shared by the MCP server and by every run of the approve *)
(* command.  Each process opens the file through a FileStore instance of   *)
(* its own; the goroutines of the server share one instance.               *)
(*                                                                         *)
(* withLock is modelled step by step: the instance's mutex, the OS lock on *)
(* the sibling .lock file, load, the operation on the loaded map, the save *)
(* through a temporary file, and the two unlocks in the order of the       *)
(* deferred calls.  Processes stop at any step; the power may fail.        *)
(***************************************************************************)
EXTENDS Approvals

CONSTANTS
    Callers,        \* goroutines that call a FileStore
    Menu,           \* Menu[c]: the operations c may ask for
    Instances,      \* FileStore instances, one per process
    InstanceOf,     \* InstanceOf[c]: the instance c calls
    MaxNow,         \* bound on the clock
    MaxLosses       \* bound on the number of power failures

ASSUME FileStoreAssumption ==
    /\ InstanceOf \in [Callers -> Instances]
    /\ Menu \in [Callers -> SUBSET Operation]
    /\ None \notin Callers \cup Instances \cup Operation \cup Statuses
    /\ MaxNow \in Nat /\ MaxLosses \in Nat

VARIABLES
    now,        \* wall-clock time
    fileState,  \* the store file: absent, blank (size 0), json or torn
    disk,       \* the records it holds for a reader
    onDisk,     \* the data of the store file have reached the disk (fsync)
    flushed,    \* the records a reader finds if the rename is lost
    osLock,     \* the instance whose descriptor holds the flock, or None
    open,       \* open[i]: how far NewFileStore has got in i's process
    mu,         \* mu[i]: the goroutine that holds FileStore.mu, or None
    pc,         \* pc[c]: where c is in withLock
    call,       \* call[c]: the operation c is in
    mem,        \* mem[c]: the map c has loaded
    tmpSynced,  \* tmpSynced[c]: c's temporary file has been fsynced
    ret,        \* ret[c]: the answer of c's call so far
    uses,       \* uses[r]: how many Consume(r) have succeeded (history)
    losses      \* how often the power has failed

fileVars == <<fileState, disk, onDisk, flushed, losses>>
lockVars == <<osLock, open, mu>>
callVars == <<pc, call, mem, tmpSynced, ret>>
vars == <<now, fileVars, lockVars, callVars, uses>>

\* What Go's deferred unlocks still owe at each step of withLock.
HasMutex == {"flock", "locked", "loaded", "write", "sync", "rename",
             "unlock", "unmutex"}
HasFlock == {"locked", "loaded", "write", "sync", "rename", "unlock"}
Saving == {"write", "sync", "rename"}
Locations == {"idle", "mutex", "done"} \cup HasMutex

TypeOK ==
    /\ now \in Nat
    /\ fileState \in {"absent", "blank", "json", "torn"}
    /\ disk \in Records /\ flushed \in Records
    /\ onDisk \in BOOLEAN
    /\ osLock \in Instances \cup {None}
    /\ open \in [Instances -> {"down", "create", "lock", "opening", "up"}]
    /\ mu \in [Instances -> Callers \cup {None}]
    /\ pc \in [Callers -> Locations]
    /\ call \in [Callers -> Operation \cup {None}]
    /\ mem \in [Callers -> Records]
    /\ tmpSynced \in [Callers -> BOOLEAN]
    /\ ret \in [Callers -> Answers]
    /\ uses \in [Refs -> Nat]
    /\ losses \in Nat

Init ==
    /\ now = 0
    /\ fileState \in {"absent", "blank", "json"}
    /\ disk = EmptyRecords /\ flushed = EmptyRecords
    /\ onDisk = TRUE
    /\ osLock = None
    /\ open = [i \in Instances |-> "down"]
    /\ mu = [i \in Instances |-> None]
    /\ pc = [c \in Callers |-> "idle"]
    /\ call = [c \in Callers |-> None]
    /\ mem = [c \in Callers |-> EmptyRecords]
    /\ tmpSynced = [c \in Callers |-> FALSE]
    /\ ret = [c \in Callers |-> Idle]
    /\ uses = [r \in Refs |-> 0]
    /\ losses = 0

Tick ==
    /\ now < MaxNow
    /\ now' = now + 1
    /\ UNCHANGED <<fileVars, lockVars, callVars, uses>>

-----------------------------------------------------------------------------
(* NewFileStore, in the process of instance i *)

\* The Stat that decides whether the file has to be created.
Start(i) ==
    /\ open[i] = "down"
    /\ open' = [open EXCEPT ![i] = IF fileState = "absent" THEN "create"
                                                          ELSE "lock"]
    /\ UNCHANGED <<now, fileVars, osLock, mu, callVars, uses>>

\* os.WriteFile(path, "{}"), which truncates, before any lock is taken.
CreateFile(i) ==
    /\ open[i] = "create"
    /\ open' = [open EXCEPT ![i] = "lock"]
    /\ fileState' = "json" /\ disk' = EmptyRecords
    /\ UNCHANGED <<now, onDisk, flushed, losses, osLock, mu, callVars, uses>>

OpenLock(i) ==
    /\ open[i] = "lock" /\ osLock = None
    /\ osLock' = i
    /\ open' = [open EXCEPT ![i] = "opening"]
    /\ UNCHANGED <<now, fileVars, mu, callVars, uses>>

\* The permission check may fail; a file of size 0 is initialised.
OpenFinish(i) ==
    /\ open[i] = "opening"
    /\ osLock' = None
    /\ \/ /\ open' = [open EXCEPT ![i] = "up"]
          /\ fileState' = IF fileState = "blank" THEN "json" ELSE fileState
       \/ /\ open' = [open EXCEPT ![i] = "down"]
          /\ UNCHANGED fileState
    /\ UNCHANGED <<now, disk, onDisk, flushed, losses, mu, callVars, uses>>

-----------------------------------------------------------------------------
(* The operations of caller c *)

Go(c, to) == pc' = [pc EXCEPT ![c] = to]

Reply(c, code, st) == ret' = [ret EXCEPT ![c] = Answer(code, st)]

Invoke(c, o) ==
    /\ open[InstanceOf[c]] = "up"
    /\ pc[c] = "idle"
    /\ Go(c, "mutex")
    /\ call' = [call EXCEPT ![c] = o]
    /\ Reply(c, "pending", None)
    /\ UNCHANGED <<now, fileVars, lockVars, mem, tmpSynced, uses>>

LacksField(o) == o.kind \in {"create", "decide"} /\ o.arg = None

\* The checks of Create and Decide that come before withLock.
RejectInput(c) ==
    /\ pc[c] = "mutex" /\ LacksField(call[c])
    /\ Go(c, "done")
    /\ Reply(c, "invalid", None)
    /\ UNCHANGED <<now, fileVars, lockVars, call, mem, tmpSynced, uses>>

\* Mutant of AcquireMutex: withLock without the mutex.
AcquireMutexUnguarded(c) ==
    /\ pc[c] = "mutex" /\ ~LacksField(call[c])
    /\ mu' = [mu EXCEPT ![InstanceOf[c]] = c]
    /\ Go(c, "flock")
    /\ UNCHANGED <<now, fileVars, osLock, open, call, mem, tmpSynced, ret,
                   uses>>

AcquireMutex(c) ==
    /\ pc[c] = "mutex" /\ ~LacksField(call[c])
    /\ mu[InstanceOf[c]] = None
    /\ mu' = [mu EXCEPT ![InstanceOf[c]] = c]
    /\ Go(c, "flock")
    /\ UNCHANGED <<now, fileVars, osLock, open, call, mem, tmpSynced, ret,
                   uses>>

\* flock's TryLock succeeds at once on an instance that holds the lock
\* already, whichever goroutine took it.
TryLock(c) ==
    /\ pc[c] = "flock"
    /\ osLock \in {None, InstanceOf[c]}
    /\ osLock' = InstanceOf[c]
    /\ Go(c, "locked")
    /\ UNCHANGED <<now, fileVars, open, mu, call, mem, tmpSynced, ret, uses>>

\* Mutant of LockTimeout: it returns without releasing the mutex.
LockTimeoutKeepsMutex(c) ==
    /\ pc[c] = "flock"
    /\ Go(c, "done")
    /\ Reply(c, "error", None)
    /\ UNCHANGED <<now, fileVars, lockVars, call, mem, tmpSynced, uses>>

\* The five seconds, or the caller's context, have run out.
LockTimeout(c) ==
    /\ pc[c] = "flock"
    /\ Go(c, "unmutex")
    /\ Reply(c, "error", None)
    /\ UNCHANGED <<now, fileVars, lockVars, call, mem, tmpSynced, uses>>

Load(c) ==
    /\ pc[c] = "locked" /\ fileState # "torn"
    /\ mem' = [mem EXCEPT ![c] = disk]
    /\ Go(c, "loaded")
    /\ UNCHANGED <<now, fileVars, lockVars, call, tmpSynced, ret, uses>>

\* The mode bits are too permissive, or the file cannot be read or parsed.
LoadFails(c) ==
    /\ pc[c] = "locked"
    /\ Go(c, "unlock")
    /\ Reply(c, "error", None)
    /\ UNCHANGED <<now, fileVars, lockVars, call, mem, tmpSynced, uses>>

\* Mutant of Check: Create overwrites a record that exists.
CheckOverwrites(recs, o) ==
    LET rec == recs[o.ref] IN
    IF o.kind = "create" THEN "ok"
    ELSE IF rec = None THEN "notFound"
    ELSE CASE o.kind = "decide" /\ rec.decision # None -> "alreadyDecided"
           [] o.kind = "consume" /\ rec.consumed -> "alreadyConsumed"
           [] OTHER -> "ok"

\* Mutant of Check: Consume does not look at the Consumed flag.
CheckReusable(recs, o) ==
    LET rec == recs[o.ref] IN
    IF o.kind = "create"
    THEN IF rec = None THEN "ok" ELSE "duplicate"
    ELSE IF rec = None THEN "notFound"
    ELSE IF o.kind = "decide" /\ rec.decision # None THEN "alreadyDecided"
    ELSE "ok"

\* The checks each operation makes on the loaded map.
Check(recs, o) ==
    LET rec == recs[o.ref] IN
    IF o.kind = "create"
    THEN IF rec = None THEN "ok" ELSE "duplicate"
    ELSE IF rec = None THEN "notFound"
    ELSE CASE o.kind = "decide" /\ rec.decision # None -> "alreadyDecided"
           [] o.kind = "consume" /\ rec.consumed -> "alreadyConsumed"
           [] OTHER -> "ok"

\* The change it makes to the map, at time t.
Modified(recs, o, t) ==
    [recs EXCEPT ![o.ref] =
        CASE o.kind = "create" -> NewRecord(o.arg, t)
          [] o.kind = "decide" -> [@ EXCEPT !.decision = o.arg]
          [] OTHER -> [@ EXCEPT !.consumed = TRUE]]

Refused(c) ==
    /\ pc[c] = "loaded" /\ Check(mem[c], call[c]) # "ok"
    /\ Go(c, "unlock")
    /\ Reply(c, Check(mem[c], call[c]), None)
    /\ UNCHANGED <<now, fileVars, lockVars, call, mem, tmpSynced, uses>>

\* statusLocked
GetStatus(c) ==
    /\ pc[c] = "loaded" /\ call[c].kind = "get"
    /\ Check(mem[c], call[c]) = "ok"
    /\ Go(c, "unlock")
    /\ Reply(c, "ok", StatusOf(mem[c][call[c].ref], now))
    /\ UNCHANGED <<now, fileVars, lockVars, call, mem, tmpSynced, uses>>

Modify(c) ==
    /\ pc[c] = "loaded" /\ call[c].kind # "get"
    /\ Check(mem[c], call[c]) = "ok"
    /\ mem' = [mem EXCEPT ![c] = Modified(mem[c], call[c], now)]
    /\ Go(c, "write")
    /\ UNCHANGED <<now, fileVars, lockVars, call, tmpSynced, ret, uses>>

-----------------------------------------------------------------------------
(* save, and the deferred unlocks *)

\* CreateTemp, Write, Chmod: a file of this call's own.
WriteTemp(c) ==
    /\ pc[c] = "write"
    /\ tmpSynced' = [tmpSynced EXCEPT ![c] = FALSE]
    /\ Go(c, "sync")
    /\ UNCHANGED <<now, fileVars, lockVars, call, mem, ret, uses>>

\* Mutant of SyncTemp: the temporary file is renamed without an fsync.
SyncTempSkipped(c) ==
    /\ pc[c] = "sync"
    /\ Go(c, "rename")
    /\ UNCHANGED <<now, fileVars, lockVars, call, mem, tmpSynced, ret, uses>>

SyncTemp(c) ==
    /\ pc[c] = "sync"
    /\ tmpSynced' = [tmpSynced EXCEPT ![c] = TRUE]
    /\ Go(c, "rename")
    /\ UNCHANGED <<now, fileVars, lockVars, call, mem, ret, uses>>

Rename(c) ==
    /\ pc[c] = "rename"
    /\ disk' = mem[c]
    /\ fileState' = "json"
    /\ onDisk' = tmpSynced[c]
    /\ uses' = IF call[c].kind = "consume"
               THEN [uses EXCEPT ![call[c].ref] = @ + 1]
               ELSE uses
    /\ Go(c, "unlock")
    /\ Reply(c, "ok", None)
    /\ UNCHANGED <<now, flushed, losses, lockVars, call, mem, tmpSynced>>

\* Any step of save fails; the temporary file is removed.
SaveFails(c) ==
    /\ pc[c] \in Saving
    /\ Go(c, "unlock")
    /\ Reply(c, "error", None)
    /\ UNCHANGED <<now, fileVars, lockVars, call, mem, tmpSynced, uses>>

\* flock's Unlock does nothing on an instance that does not hold the lock.
UnlockFlock(c) ==
    /\ pc[c] = "unlock"
    /\ osLock' = IF osLock = InstanceOf[c] THEN None ELSE osLock
    /\ mem' = [mem EXCEPT ![c] = EmptyRecords]
    /\ Go(c, "unmutex")
    /\ UNCHANGED <<now, fileVars, open, mu, call, tmpSynced, ret, uses>>

UnlockMutex(c) ==
    /\ pc[c] = "unmutex"
    /\ mu' = [mu EXCEPT ![InstanceOf[c]] = None]
    /\ Go(c, "done")
    /\ UNCHANGED <<now, fileVars, osLock, open, call, mem, tmpSynced, ret,
                   uses>>

Return(c) ==
    /\ pc[c] = "done"
    /\ Go(c, "idle")
    /\ call' = [call EXCEPT ![c] = None]
    /\ ret' = [ret EXCEPT ![c] = Idle]
    /\ tmpSynced' = [tmpSynced EXCEPT ![c] = FALSE]
    /\ UNCHANGED <<now, fileVars, lockVars, mem, uses>>

-----------------------------------------------------------------------------
(* Processes that stop, and power that fails *)

\* The processes of the instances in I are gone: the kernel drops their
\* locks, and whatever their goroutines were doing is lost.
Gone(I) ==
    LET dead == {c \in Callers : InstanceOf[c] \in I} IN
    /\ open' = [i \in Instances |-> IF i \in I THEN "down" ELSE open[i]]
    /\ mu' = [i \in Instances |-> IF i \in I THEN None ELSE mu[i]]
    /\ osLock' = IF osLock \in I THEN None ELSE osLock
    /\ pc' = [c \in Callers |-> IF c \in dead THEN "idle" ELSE pc[c]]
    /\ call' = [c \in Callers |-> IF c \in dead THEN None ELSE call[c]]
    /\ mem' = [c \in Callers |-> IF c \in dead THEN EmptyRecords ELSE mem[c]]
    /\ tmpSynced' =
        [c \in Callers |-> IF c \in dead THEN FALSE ELSE tmpSynced[c]]
    /\ ret' = [c \in Callers |-> IF c \in dead THEN Idle ELSE ret[c]]

\* An exit, a crash or a kill.
Stop(i) ==
    /\ open[i] # "down"
    /\ Gone({i})
    /\ UNCHANGED <<now, fileVars, uses>>

\* The rename reaches the disk some time after it returns: save fsyncs the
\* file and not its directory.
FlushDirectory ==
    /\ flushed # disk
    /\ flushed' = disk
    /\ UNCHANGED <<now, fileState, disk, onDisk, losses, lockVars, callVars,
                   uses>>

\* What a power failure leaves of a file whose records are recs: NewFileStore
\* does not fsync the "{}" it writes.
AfterLoss(recs) ==
    IF fileState # "absent" /\ recs = EmptyRecords THEN {"json", "blank"}
    ELSE {fileState}

\* The machine comes back with the renamed file, which is torn if its data
\* had not been fsynced, or with the file as it was before the renames that
\* were not on disk yet.
PowerLoss ==
    /\ losses < MaxLosses
    /\ losses' = losses + 1
    /\ Gone(Instances)
    /\ \/ /\ fileState' \in IF onDisk THEN AfterLoss(disk) ELSE {"torn"}
          /\ UNCHANGED disk
       \/ /\ fileState' \in AfterLoss(flushed)
          /\ disk' = flushed
    /\ flushed' = disk'
    /\ UNCHANGED <<now, onDisk, uses>>

-----------------------------------------------------------------------------

Step(c) ==
    \/ RejectInput(c) \/ AcquireMutex(c) \/ TryLock(c) \/ LockTimeout(c)
    \/ Load(c) \/ LoadFails(c)
    \/ Refused(c) \/ GetStatus(c) \/ Modify(c)
    \/ WriteTemp(c) \/ SyncTemp(c) \/ Rename(c) \/ SaveFails(c)
    \/ UnlockFlock(c) \/ UnlockMutex(c) \/ Return(c)

Next ==
    \/ Tick
    \/ \E i \in Instances :
        Start(i) \/ CreateFile(i) \/ OpenLock(i) \/ OpenFinish(i) \/ Stop(i)
    \/ \E c \in Callers :
        \/ \E o \in Menu[c] : Invoke(c, o)
        \/ Step(c)

\* Goroutines are scheduled, and sync.Mutex hands itself over to a goroutine
\* that has waited long enough (its starvation mode).
Fairness ==
    \A c \in Callers : WF_vars(Step(c)) /\ SF_vars(AcquireMutex(c))

\* The store file exists before the processes are started.
InitProvisioned == Init /\ fileState # "absent"

Spec == InitProvisioned /\ [][Next]_vars

\* The very first start, which finds no store file.
FirstStartSpec == Init /\ [][Next]_vars

\* Power failures besides, from any first state.
PowerLossSpec ==
    /\ Init
    /\ [][Next \/ FlushDirectory \/ PowerLoss]_vars
    /\ Fairness

-----------------------------------------------------------------------------
(* Properties *)

\* No two goroutines, of one process or of two, are inside the critical
\* section of withLock at once, and none is while NewFileStore holds the lock.
MutualExclusion ==
    /\ \A c, d \in Callers :
        pc[c] \in HasFlock /\ pc[d] \in HasFlock => c = d
    /\ \A c \in Callers, i \in Instances :
        ~(pc[c] \in HasFlock /\ open[i] = "opening")

\* The map a goroutine is about to write back is the file as it is now plus
\* this operation's own change, for which the checks still hold: what save
\* overwrites is never newer than what load returned.
SnapshotFresh ==
    \A c \in Callers :
        /\ pc[c] = "loaded" => mem[c] = disk
        /\ pc[c] \in Saving =>
            /\ Check(disk, call[c]) = "ok"
            /\ \E t \in 0..now : mem[c] = Modified(disk, call[c], t)

\* Consume(r) succeeds at most once, ever, whatever the interleaving of
\* Create, Decide and Consume and wherever processes stop.
SingleUse == \A r \in Refs : uses[r] <= 1

\* An approval, once in the file, is never removed, re-created or undecided,
\* and never becomes unconsumed: no saved map resurrects an older one.
NeverUndone == [][\A r \in Refs : Grows(disk[r], disk'[r])]_vars

Abs == INSTANCE ApprovalStore WITH records <- disk

\* FileStore implements the Store interface: every operation takes effect
\* atomically, in the step of withLock that settles its answer, or fails and
\* changes nothing.
ImplementsStore == Abs!Spec

\* What a power failure can undo: in a store that was there from the start, an
\* approval is used more than once only if the power failed after the rename
\* that marked it consumed and before the rename was on disk, so at most once
\* more for each failure.
ReusedOnlyByLoss ==
    fileState # "absent" => [](\A r \in Refs : uses[r] <= 1 + losses)

\* Every call on the store comes back, with an answer or an error: waiting
\* for the mutex ends because waiting for the flock is bounded.
CallsReturn == \A c \in Callers : pc[c] # "idle" ~> pc[c] = "idle"

\* A power failure never leaves the store file half written, because save
\* fsyncs the temporary file before it renames it.
NeverTorn == fileState # "torn"
=============================================================================
