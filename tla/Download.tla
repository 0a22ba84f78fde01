------------------------------ MODULE Download ------------------------------
(***************************************************************************)
(* The download of one flow upload: the client method DownloadFlowUpload   *)
(* looks the upload up in the flow's uploads table and reads its content   *)
(* chunk by chunk over VFSGetBuffer; the handler of                        *)
(* velo_download_flow_upload_with_approval then saves the bytes and        *)
(* reports size, checksum and a truncated flag.  The approval, the audit   *)
(* gate and the pre-flight of the same handler are in WriteGate, where the *)
(* whole download is the one step Execute.                                 *)
(*                                                                         *)
(* A byte is the pair of the table row it belongs to and its position in   *)
(* that upload, so that a byte read twice, skipped or taken from another   *)
(* upload can be told apart.                                               *)
(***************************************************************************)
EXTENDS Paging

CONSTANTS
  UploadNames,   \* names an upload can have
  Tables,        \* the uploads tables a flow may have, as sequences of uploads
  MaxUploadBytes, \* velociraptor.max_upload_bytes, > 0 by config.Validate
  VfsChunkSize   \* vfsChunkSize: bytes asked for by one VFSGetBuffer call

(***************************************************************************)
(* A row of the uploads table: the name, the declared size (0 when the     *)
(* column is absent), whether the row has file-store components, and the   *)
(* number of bytes the file store really holds (which no row states).      *)
(***************************************************************************)
Upload == [name: UploadNames, declared: Nat, located: BOOLEAN, stored: Nat]

ASSUME BoundsAssumption ==
  /\ MaxRows \in Nat \ {0}
  /\ MaxUploadBytes \in Nat \ {0}
  /\ VfsChunkSize \in Nat \ {0}

ASSUME TablesAssumption == Tables \subseteq Seq(Upload)

(***************************************************************************)
(* What the download relies on: the declared size of an upload is absent   *)
(* or not smaller than what is stored (a sparse file is stored smaller     *)
(* than it is declared).                                                   *)
(***************************************************************************)
DeclaredCoversStored ==
  \A t \in Tables : \A r \in 1..Len(t) :
    t[r].declared = 0 \/ t[r].declared >= t[r].stored

VARIABLES
  table,    \* the flow's uploads table
  wanted,   \* upload_name of the request
  row,      \* row of the table the download reads, None before the look-up
  buf,      \* the bytes read so far
  offset,   \* offset of the next VFSGetBuffer call
  step,     \* where the handler is
  reply     \* the answer of the tool, None before it

downloadVars == <<table, wanted, row, buf, offset, step, reply>>

Stages == {"lookup", "read", "save", "answered"}

ReplyStatuses == {"success", "not_found", "error"}

Bytes == Nat \X Nat

DownloadTypeOK ==
  /\ table \in Seq(Upload)
  /\ wanted \in UploadNames
  /\ row \in Nat \cup {None}
  /\ row # None => row \in 1..Len(table)
  /\ buf \in Seq(Bytes)
  /\ offset \in Nat
  /\ step \in Stages
  /\ reply \in [status: ReplyStatuses, size: Nat, truncated: BOOLEAN]
               \cup {None}

DownloadInit ==
  /\ table \in Tables
  /\ wanted \in UploadNames
  /\ row = None
  /\ buf = << >>
  /\ offset = 0
  /\ step = "lookup"
  /\ reply = None

-----------------------------------------------------------------------------
(* The answer of the tool ends the download. *)

Fail(status) ==
  /\ step' = "answered"
  /\ reply' = [status |-> status, size |-> 0, truncated |-> FALSE]
  /\ UNCHANGED <<table, wanted, buf, offset>>

-----------------------------------------------------------------------------
(* DownloadFlowUpload: the look-up. *)

(* Only the first MaxRows rows are fetched. *)
FetchedRows == {r \in 1..Len(table) : r <= MaxRows}

Matches == {r \in FetchedRows : table[r].name = wanted}

(* The first row of that name is the one that is read. *)
IsTarget(r) == r \in Matches /\ \A q \in Matches : r <= q

LookupFails ==
  /\ step = "lookup"
  /\ Fail("error")
  /\ UNCHANGED row

LookupMisses ==
  /\ step = "lookup"
  /\ Matches = {}
  /\ Fail("not_found")
  /\ UNCHANGED row

LookupHasNoLocation ==
  /\ step = "lookup"
  /\ \E r \in Matches : IsTarget(r) /\ ~table[r].located
  /\ Fail("error")
  /\ UNCHANGED row

LookupFinds ==
  /\ step = "lookup"
  /\ \E r \in Matches :
       /\ IsTarget(r)
       /\ table[r].located
       /\ row' = r
  /\ step' = "read"
  /\ UNCHANGED <<table, wanted, buf, offset, reply>>

-----------------------------------------------------------------------------
(* DownloadFlowUpload: the chunk loop. *)

MinOf(a, b) == IF a < b THEN a ELSE b

ToRead ==
  IF table[row].declared > 0 /\ table[row].declared < MaxUploadBytes
  THEN table[row].declared
  ELSE MaxUploadBytes

Remaining == ToRead - Len(buf)

RequestLength == IF VfsChunkSize > Remaining THEN Remaining ELSE VfsChunkSize

(* The server ends a chunk early at the end of the stored file only. *)
ServedLength ==
  LET left == table[row].stored - offset
  IN  IF left <= 0 THEN 0 ELSE MinOf(RequestLength, left)

Chunk == [i \in 1..ServedLength |-> <<row, offset + i>>]

(* Mutant: the offset is the number of the chunk. *)
ReadOnByOne(data) == offset' = offset + 1

ReadOn(data) == offset' = offset + Len(data)

(* Mutant: a short chunk does not end the loop, nor does an empty one. *)
EndsReadAtLimit(data, length) == Len(buf) + Len(data) >= ToRead

EndsRead(data, length) ==
  \/ Len(data) = 0
  \/ Len(data) < length
  \/ Len(buf) + Len(data) >= ToRead

VFSGetBuffer ==
  /\ step = "read"
  /\ Remaining > 0
  /\ LET data == Chunk
     IN  /\ buf' = buf \o data
         /\ ReadOn(data)
         /\ step' = IF EndsRead(data, RequestLength) THEN "save" ELSE "read"
  /\ UNCHANGED <<table, wanted, row, reply>>

(* An RPC error, the call's one deadline included, discards what was read. *)
VFSGetBufferFails ==
  /\ step = "read"
  /\ Fail("error")
  /\ UNCHANGED row

-----------------------------------------------------------------------------
(* The handler: save and report. *)

(* Mutant: a download of exactly MaxUploadBytes is taken for a whole one. *)
TruncatedOver == Len(buf) > MaxUploadBytes

Truncated == MaxUploadBytes > 0 /\ Len(buf) >= MaxUploadBytes

Save ==
  /\ step = "save"
  /\ step' = "answered"
  /\ reply' = [status |-> "success", size |-> Len(buf),
                truncated |-> Truncated]
  /\ UNCHANGED <<table, wanted, row, buf, offset>>

(* No random suffix for the file name, or os.WriteFile fails. *)
SaveFails ==
  /\ step = "save"
  /\ Fail("error")
  /\ UNCHANGED row

Answered == step = "answered" /\ UNCHANGED downloadVars

DownloadNext ==
  \/ LookupFails
  \/ LookupMisses
  \/ LookupHasNoLocation
  \/ LookupFinds
  \/ VFSGetBuffer
  \/ VFSGetBufferFails
  \/ Save
  \/ SaveFails
  \/ Answered

DownloadSpec == DownloadInit /\ [][DownloadNext]_downloadVars

(* The handler runs on until it answers. *)
DownloadFairSpec ==
  /\ DownloadSpec
  /\ WF_downloadVars(LookupFails \/ LookupMisses \/ LookupHasNoLocation
                       \/ LookupFinds)
  /\ WF_downloadVars(VFSGetBuffer)
  /\ WF_downloadVars(Save)

-----------------------------------------------------------------------------
(***************************************************************************)
(* What has been read is a contiguous prefix of the one upload the look-up *)
(* chose: no byte twice, none left out, none of another upload, whatever   *)
(* the sizes of the chunks (the loop of DownloadFlowUpload).               *)
(***************************************************************************)
PrefixOfUpload ==
  \A i \in 1..Len(buf) : buf[i] = <<row, i>>

(***************************************************************************)
(* Never more than max_upload_bytes is read, so that the saved file keeps  *)
(* to the limit the operator configured.                                   *)
(***************************************************************************)
WithinUploadLimit == Len(buf) <= MaxUploadBytes

(***************************************************************************)
(* The truncated flag of a successful download: when it is not set, the    *)
(* saved file is the whole upload; when it is set, the upload is at least  *)
(* as long as the limit (of exactly that length, too: the flag errs on the *)
(* safe side).                                                             *)
(***************************************************************************)
TruncatedFlagHonest ==
  (reply # None /\ reply.status = "success") =>
     /\ ~reply.truncated => reply.size = table[row].stored
     /\ reply.truncated => table[row].stored >= MaxUploadBytes

(***************************************************************************)
(* Every download is answered: the chunk loop cannot go on for ever, not   *)
(* even over an upload that is stored shorter than it is declared.         *)
(***************************************************************************)
DownloadEnds == <>(step = "answered")
=============================================================================
