------------------------------ MODULE Approvals ------------------------------
(***************************************************************************)
(* The data of the approval store: one record per approval reference, as   *)
(* internal/approval/filestore.go keeps it (type record: the Request, the  *)
(* Decision, the Consumed flag), and the Status that Get derives from it.  *)
(*                                                                         *)
(* A map[string]*record is a function on Refs whose value is None where    *)
(* the key is missing.  A request is abstracted to a Payload; modules that *)
(* care about its fields give Payloads a structured value.                 *)
(***************************************************************************)
EXTENDS Integers

CONSTANTS
    Refs,       \* approval references (Request.ID)
    Payloads,   \* what a human may be asked to approve (the rest of Request)
    None,       \* a nil pointer, a missing key, an empty string
    TTL         \* approval.ttl_seconds, in whole ticks of the clock

Verdicts == {"approved", "denied"}

Record ==
    [req: Payloads, created: Nat, decision: Verdicts \cup {None},
     consumed: BOOLEAN]

Records == [Refs -> Record \cup {None}]

ASSUME ApprovalsAssumption ==
    /\ None \notin Payloads /\ None \notin Verdicts /\ None \notin Record
    /\ TTL \in Nat

\* {} of the store file
EmptyRecords == [r \in Refs |-> None]

\* &record{Request: req} with req.CreatedAt = t
NewRecord(p, t) ==
    [req |-> p, created |-> t, decision |-> None, consumed |-> FALSE]

\* time.Since(rec.Request.CreatedAt) > s.ttl
Expired(rec, t) == t - rec.created > TTL

Statuses ==
    [req: Payloads, decision: Verdicts \cup {None}, consumed: BOOLEAN,
     expired: BOOLEAN]

StatusOf(rec, t) ==
    [req |-> rec.req, decision |-> rec.decision, consumed |-> rec.consumed,
     expired |-> Expired(rec, t)]

\* The operations of the interface.  A Create or Decide whose argument is
\* None lacks a required field: an empty ID, CaseID, Reason or Requester,
\* or an empty ApprovedBy.
Operation ==
    [kind: {"create"}, ref: Refs, arg: Payloads \cup {None}] \cup
    [kind: {"decide"}, ref: Refs, arg: Verdicts \cup {None}] \cup
    [kind: {"get", "consume"}, ref: Refs, arg: {None}]

\* The errors of store.go, "error" for every other one (lock, I/O), and the
\* two states of a call that has no answer.
Codes == {"idle", "pending", "ok", "invalid", "notFound", "duplicate",
          "alreadyDecided", "alreadyConsumed", "error"}

Answer(code, st) == [code |-> code, status |-> st]

Answers == [code: Codes, status: Statuses \cup {None}]

Idle == Answer("idle", None)

\* What may happen to one record from one state of the store to the next:
\* it appears, or it keeps its request and creation time, a decision once
\* made stays, and a consumed approval stays consumed.
Grows(before, after) ==
    before # None =>
        /\ after # None
        /\ after.req = before.req
        /\ after.created = before.created
        /\ before.decision # None => after.decision = before.decision
        /\ before.consumed => after.consumed
=============================================================================
