----------------------------- MODULE MCAuditLog -----------------------------
(***************************************************************************)
(* The instance of AuditLog for TLC: every operation may fail, at most     *)
(* three things go wrong, and enough events are written to rotate a file   *)
(* through all its copies and away.                                        *)
(***************************************************************************)
EXTENDS AuditLog

AllFaults == {"write", "stat", "close", "rename", "open"}
=============================================================================
