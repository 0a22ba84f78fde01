---------------------------- MODULE MCSanitizer -----------------------------
(***************************************************************************)
(* The instance of Sanitizer for TLC: every text of up to MaxLen tokens,   *)
(* enough for two blocks that share a text, and every payload of two       *)
(* levels over four names.                                                 *)
(***************************************************************************)
EXTENDS Sanitizer

Names == {"client_private_key", "ClientPrivateKey", "case_id", "Note"}
NormalForm ==
    [n \in Names |-> IF n = "case_id" THEN "caseid"
                     ELSE IF n = "Note" THEN "note" ELSE "clientprivatekey"]
Lists == {{}, {"case_id"}}
=============================================================================
