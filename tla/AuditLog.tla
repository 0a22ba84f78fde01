------------------------------ MODULE AuditLog ------------------------------
(***************************************************************************)
(* The audit log of internal/audit: a JSONL file that rotates by size.     *)
(*                                                                         *)
(* Handlers call JSONLWriter.Write, one at a time under its mutex.  A      *)
(* write that makes the file too large rotates it before it returns:       *)
(* close, rename every older copy up by one, rename the live file, open a  *)
(* new one.  The process may be killed between any two of these steps, and *)
(* any of them may fail; their errors are not surfaced.                    *)
(*                                                                         *)
(* Events are numbered in the order they are written.  A write that fails  *)
(* half-way leaves a fragment without a newline in the file.               *)
(***************************************************************************)
EXTENDS Integers, Sequences, Functions

CONSTANTS
    MaxSize,    \* audit.max_size_bytes, in events
    MaxFiles,   \* audit.max_files
    Torn,       \* a fragment of an event
    None,       \* no file
    Faults,     \* the operations that may fail
    Kills,      \* may the process be killed?
    MaxEvents,  \* bound on the events written
    MaxBad      \* bound on the faults and kills

ASSUME AuditLogAssumption ==
    /\ MaxSize \in Nat \ {0} /\ MaxFiles \in Nat \ {0}
    /\ Torn \notin Nat /\ None \notin Seq(Nat \cup {Torn})
    /\ Faults \subseteq {"write", "stat", "close", "rename", "open"}
    /\ Kills \in BOOLEAN
    /\ MaxEvents \in Nat /\ MaxBad \in Nat

VARIABLES
    files,      \* files[0] is the live file, files[i] the copy <path>.i
    up,         \* is the server running?
    file,       \* JSONLWriter.file: "open" or "closed"
    enc,        \* JSONLWriter.enc: "ok", or "failed" for good
    pc,         \* where the current Write is
    shift,      \* the copy rotateLocked renames next
    last,       \* the number of the last event handed to Write
    acked,      \* the events whose Write returned nil
    bad         \* the faults and kills so far, in their order

vars == <<files, up, file, enc, pc, shift, last, acked, bad>>

Slots == 0..MaxFiles

Init ==
    /\ files = [s \in Slots |-> IF s = 0 THEN <<>> ELSE None]
    /\ up = TRUE /\ file = "open" /\ enc = "ok"
    /\ pc = "idle" /\ shift = 0
    /\ last = 0 /\ acked = {} /\ bad = <<>>

Goes(op) == Len(bad) < MaxBad /\ bad' = Append(bad, op)

Breaks(op) == op \in Faults /\ Goes(op)

\* Write returns nil for the last event handed to it.
Acknowledge ==
    /\ pc' = "idle"
    /\ acked' = acked \cup {last'}

-----------------------------------------------------------------------------
(* Write *)

\* The event is appended; a file that is now too large will be rotated.
Encode ==
    /\ up /\ pc = "idle" /\ last < MaxEvents
    /\ file = "open" /\ enc = "ok"
    /\ last' = last + 1
    /\ files' = [files EXCEPT ![0] = Append(@, last')]
    /\ IF Len(files'[0]) > MaxSize THEN pc' = "close" /\ UNCHANGED acked
                                   ELSE Acknowledge
    /\ UNCHANGED <<up, file, enc, shift, bad>>

\* Stat fails: the event is written, the rotation left for the next write.
StatFails ==
    /\ up /\ pc = "idle" /\ last < MaxEvents
    /\ file = "open" /\ enc = "ok"
    /\ Breaks("stat")
    /\ last' = last + 1
    /\ files' = [files EXCEPT ![0] = Append(@, last')]
    /\ Acknowledge
    /\ UNCHANGED <<up, file, enc, shift>>

\* The file cannot be written (the disk is full), wholly or in part.  The
\* json.Encoder remembers the error and refuses every later event.
EncodeFails ==
    /\ up /\ pc = "idle" /\ last < MaxEvents
    /\ file = "open" /\ enc = "ok"
    /\ Breaks("write")
    /\ last' = last + 1
    /\ \/ files' = [files EXCEPT ![0] = Append(@, Torn)]
       \/ UNCHANGED files
    /\ enc' = "failed"
    /\ UNCHANGED <<up, file, pc, shift, acked>>

\* Mutant of EncodeRefused: the error of the encoder is ignored.
EncodeRefusedQuietly ==
    /\ up /\ pc = "idle" /\ last < MaxEvents
    /\ file = "closed" \/ enc = "failed"
    /\ last' = last + 1
    /\ enc' = "failed"
    /\ Acknowledge
    /\ UNCHANGED <<files, up, file, shift, bad>>

\* The encoder refuses, or the file is closed: Write returns an error.
EncodeRefused ==
    /\ up /\ pc = "idle" /\ last < MaxEvents
    /\ file = "closed" \/ enc = "failed"
    /\ last' = last + 1
    /\ enc' = "failed"
    /\ UNCHANGED <<files, up, file, pc, shift, acked, bad>>

-----------------------------------------------------------------------------
(* rotateLocked *)

\* The mutex is released and Write returns nil; no error is surfaced.
Done ==
    /\ pc' = "idle"
    /\ acked' = acked \cup {last}

\* The old file is closed whether or not Close reports an error.
CloseOld ==
    /\ pc = "close"
    /\ file' = "closed"
    /\ \/ pc' = "shift" /\ shift' = MaxFiles - 1 /\ UNCHANGED <<acked, bad>>
       \/ Breaks("close") /\ Done /\ UNCHANGED shift
    /\ UNCHANGED <<files, up, enc, last>>

\* Mutant of Renamed: the file is copied.
RenamedCopying(from, to) ==
    IF files[from] = None THEN files ELSE [files EXCEPT ![to] = files[from]]

\* os.Rename: a missing source fails, an existing target is replaced.
Renamed(from, to) ==
    IF files[from] = None THEN files
    ELSE [files EXCEPT ![to] = files[from], ![from] = None]

ShiftCopy ==
    /\ pc = "shift" /\ shift >= 1
    /\ \/ files' = Renamed(shift, shift + 1) /\ UNCHANGED bad
       \/ Breaks("rename") /\ UNCHANGED files
    /\ shift' = shift - 1
    /\ UNCHANGED <<up, file, enc, pc, last, acked>>

MoveLive ==
    /\ pc = "shift" /\ shift = 0
    /\ \/ files' = Renamed(0, 1) /\ UNCHANGED bad
       \/ Breaks("rename") /\ UNCHANGED files
    /\ pc' = "open"
    /\ UNCHANGED <<up, file, enc, shift, last, acked>>

\* os.OpenFile with O_APPEND|O_CREATE.
Opened == [files EXCEPT ![0] = IF @ = None THEN <<>> ELSE @]

Reopen ==
    /\ pc = "open" /\ Done
    /\ \/ /\ files' = Opened
          /\ file' = "open" /\ enc' = "ok"
          /\ UNCHANGED bad
       \/ Breaks("open") /\ UNCHANGED <<files, file, enc>>
    /\ UNCHANGED <<up, shift, last>>

-----------------------------------------------------------------------------
(* The process *)

\* The process is killed: between two calls, in the middle of a rotation, or
\* while an event is being written.
Kill ==
    /\ Kills /\ up /\ Goes("kill")
    /\ up' = FALSE
    /\ \/ UNCHANGED <<files, last>>
       \/ /\ pc = "idle" /\ file = "open" /\ enc = "ok" /\ last < MaxEvents
          /\ "write" \in Faults
          /\ files' = [files EXCEPT ![0] = Append(@, Torn)]
          /\ last' = last + 1
    /\ UNCHANGED <<file, enc, pc, shift, acked>>

\* Mutant of NewJSONLWriter: the file is truncated.
NewJSONLWriterTruncating ==
    /\ ~up
    /\ up' = TRUE
    /\ files' = [files EXCEPT ![0] = <<>>]
    /\ file' = "open" /\ enc' = "ok"
    /\ pc' = "idle" /\ shift' = 0
    /\ UNCHANGED <<last, acked, bad>>

\* NewJSONLWriterWithRotation opens the file that is there.
NewJSONLWriter ==
    /\ ~up
    /\ up' = TRUE
    /\ files' = Opened
    /\ file' = "open" /\ enc' = "ok"
    /\ pc' = "idle" /\ shift' = 0
    /\ UNCHANGED <<last, acked, bad>>

\* The bound on events is reached.
Finished == up /\ pc = "idle" /\ last = MaxEvents /\ UNCHANGED vars

Rotate == CloseOld \/ ShiftCopy \/ MoveLive \/ Reopen

Write == Encode \/ StatFails \/ EncodeFails \/ EncodeRefused

Next ==
    \/ Write
    \/ up /\ Rotate
    \/ Kill \/ NewJSONLWriter
    \/ Finished

Spec == Init /\ [][Next]_vars

-----------------------------------------------------------------------------
(* Properties *)

Lines(s) == IF files[s] = None THEN <<>> ELSE files[s]

Events(s) == {i \in DOMAIN Lines(s) : Lines(s)[i] # Torn}

\* Read from the oldest copy to the live file, the log has the events in the
\* order they were written, and none twice, whatever fails and wherever the
\* process was killed.
InOrder ==
    /\ \A s \in Slots : \A i, j \in Events(s) :
        i < j => Lines(s)[i] < Lines(s)[j]
    /\ \A s, t \in Slots : s < t =>
        \A i \in Events(s), j \in Events(t) : Lines(t)[j] < Lines(s)[i]

OnDisk == UNION {{Lines(s)[i] : i \in Events(s)} : s \in Slots}

\* Write returns nil only for an event that is in the log at that moment,
\* though no error of the rotation is surfaced.
AckedOnDisk == [][\A e \in acked' \ acked : e \in OnDisk']_vars

\* Rotation drops the oldest events only: unless a rename has failed, every
\* acknowledged event younger than some event still on disk is on disk too.
\* And it drops none too soon: if nothing has gone wrong, the events of the
\* last MaxFiles full files are there.
OnlyOldestDropped ==
    /\ "rename" \notin Range(bad) =>
        \A e \in acked : (\E f \in OnDisk : f < e) => e \in OnDisk
    /\ bad = <<>> =>
        \A e \in acked : last - e < MaxFiles * (MaxSize + 1) => e \in OnDisk

=============================================================================
