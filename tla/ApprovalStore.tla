---------------------------- MODULE ApprovalStore ----------------------------
(***************************************************************************)
(* What the interface approval.Store promises its callers                  *)
(* (internal/approval/store.go): every operation takes effect in one       *)
(* atomic step between its call and its return, or fails and changes       *)
(* nothing.  FileStore is shown to implement this module.                  *)
(***************************************************************************)
EXTENDS Approvals

CONSTANTS
    Callers,    \* goroutines and processes that use the store
    Menu,       \* Menu[c]: the operations caller c may ask for
    MaxNow      \* bound on the clock

VARIABLES
    now,        \* wall-clock time
    records,    \* the approvals
    call,       \* call[c]: the operation c is in
    ret,        \* ret[c]: its answer so far
    uses        \* uses[r]: how many Consume(r) have succeeded (history)

vars == <<now, records, call, ret, uses>>

TypeOK ==
    /\ now \in Nat
    /\ records \in Records
    /\ call \in [Callers -> Operation \cup {None}]
    /\ ret \in [Callers -> Answers]
    /\ uses \in [Refs -> Nat]

Init ==
    /\ now = 0
    /\ records = EmptyRecords
    /\ call = [c \in Callers |-> None]
    /\ ret = [c \in Callers |-> Idle]
    /\ uses = [r \in Refs |-> 0]

Tick ==
    /\ now < MaxNow
    /\ now' = now + 1
    /\ UNCHANGED <<records, call, ret, uses>>

Invoke(c, o) ==
    /\ ret[c] = Idle
    /\ call' = [call EXCEPT ![c] = o]
    /\ ret' = [ret EXCEPT ![c] = Answer("pending", None)]
    /\ UNCHANGED <<now, records, uses>>

Pending(c, kind) ==
    /\ ret[c].code = "pending"
    /\ call[c].kind = kind

Reply(c, code) == ret' = [ret EXCEPT ![c] = Answer(code, None)]

\* An answer that leaves the store as it is.
Refuse(c, code) ==
    /\ Reply(c, code)
    /\ UNCHANGED <<now, records, call, uses>>

Put(c, rec) ==
    /\ records' = [records EXCEPT ![call[c].ref] = rec]
    /\ Reply(c, "ok")
    /\ UNCHANGED <<now, call>>

Create(c) ==
    LET rec == records[call[c].ref] IN
    /\ Pending(c, "create")
    /\ \/ call[c].arg = None /\ Refuse(c, "invalid")
       \/ call[c].arg # None /\ rec # None /\ Refuse(c, "duplicate")
       \/ /\ call[c].arg # None /\ rec = None
          /\ \E t \in 0..now : Put(c, NewRecord(call[c].arg, t))
          /\ UNCHANGED uses

Decide(c) ==
    LET rec == records[call[c].ref] IN
    /\ Pending(c, "decide")
    /\ \/ call[c].arg = None /\ Refuse(c, "invalid")
       \/ call[c].arg # None /\ rec = None /\ Refuse(c, "notFound")
       \/ /\ call[c].arg # None /\ rec # None /\ rec.decision # None
          /\ Refuse(c, "alreadyDecided")
       \/ /\ call[c].arg # None /\ rec # None /\ rec.decision = None
          /\ Put(c, [rec EXCEPT !.decision = call[c].arg])
          /\ UNCHANGED uses

Get(c) ==
    LET rec == records[call[c].ref] IN
    /\ Pending(c, "get")
    /\ \/ rec = None /\ Refuse(c, "notFound")
       \/ /\ rec # None
          /\ ret' = [ret EXCEPT ![c] = Answer("ok", StatusOf(rec, now))]
          /\ UNCHANGED <<now, records, call, uses>>

Consume(c) ==
    LET rec == records[call[c].ref] IN
    /\ Pending(c, "consume")
    /\ \/ rec = None /\ Refuse(c, "notFound")
       \/ rec # None /\ rec.consumed /\ Refuse(c, "alreadyConsumed")
       \/ /\ rec # None /\ ~rec.consumed
          /\ Put(c, [rec EXCEPT !.consumed = TRUE])
          /\ uses' = [uses EXCEPT ![call[c].ref] = @ + 1]

\* A lock timeout, a cancelled context, an I/O error: nothing has changed.
Fail(c) ==
    /\ ret[c].code = "pending"
    /\ Refuse(c, "error")

Return(c) ==
    /\ ret[c].code \notin {"idle", "pending"}
    /\ call' = [call EXCEPT ![c] = None]
    /\ ret' = [ret EXCEPT ![c] = Idle]
    /\ UNCHANGED <<now, records, uses>>

\* The processes of the callers in C die; operations in flight are lost.
Crash(C) ==
    /\ call' = [c \in Callers |-> IF c \in C THEN None ELSE call[c]]
    /\ ret' = [c \in Callers |-> IF c \in C THEN Idle ELSE ret[c]]
    /\ UNCHANGED <<now, records, uses>>

Next ==
    \/ Tick
    \/ \E c \in Callers :
        \/ \E o \in Menu[c] : Invoke(c, o)
        \/ Create(c) \/ Decide(c) \/ Get(c) \/ Consume(c)
        \/ Fail(c) \/ Return(c)
    \/ \E C \in SUBSET Callers : Crash(C)

Spec == Init /\ [][Next]_vars
=============================================================================
