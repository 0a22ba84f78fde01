----------------------------- MODULE Redaction ------------------------------
(***************************************************************************)
(* What is taken out of a text before it is written to the audit log       *)
(* (SanitizeString of internal/audit/sanitize.go).                         *)
(*                                                                         *)
(* The text of a failed RPC goes through sanitizeTLSError                  *)
(* (internal/velociraptor/grpcclient.go), is wrapped, and goes through     *)
(* Sanitizer.SanitizeString in recordAudit; a handler's own reason goes    *)
(* through the second only.  The two functions are copies of each other,   *)
(* loops that take one PEM block out of the text per round.  A text is a   *)
(* sequence of tokens: a "-----BEGIN" marker, an "-----END" marker, a      *)
(* newline, key material, other text, and the placeholder.                 *)
(***************************************************************************)
EXTENDS Integers, Sequences

CONSTANT MaxLen     \* bound on the length of a text

ASSUME RedactionAssumption == MaxLen \in Nat

Tokens == {"begin", "end", "nl", "key", "text"}
Texts == UNION {[1..n -> Tokens] : n \in 0..MaxLen}
Mask == <<"mask">>
Wrapping == <<"text">>      \* "velociraptor: health check: %w"

\* strings.Index: the first position of t in s from i on, or 0.
Index(s, t, i) ==
    LET found == {n \in i..Len(s) : s[n] = t}
    IN IF found = {} THEN 0 ELSE CHOOSE n \in found : \A m \in found : n <= m

\* The newline that ends the END line of the block that begins at b, or 0.
EndLine(s, b) ==
    LET e == Index(s, "end", b)
    IN IF e = 0 THEN 0 ELSE Index(s, "nl", e)

\* Where that block ends: a block without an END line ends with the text.
BlockEnd(s, b) == IF EndLine(s, b) = 0 THEN Len(s) ELSE EndLine(s, b)

VARIABLES
    text,       \* the text as it arose
    rpc,        \* is it the error of an RPC?
    v,          \* the text so far
    at          \* "tls": in sanitizeTLSError; "wrap": back in the client;
                \* "audit": in SanitizeString; "written": in the audit log

textVars == <<text, rpc, v, at>>

TextInit ==
    /\ text \in Texts /\ rpc \in BOOLEAN
    /\ at = IF rpc THEN "tls" ELSE "audit"
    /\ v = text

\* The text with the block that begins at b replaced by r.
Replaced(b, r) ==
    SubSeq(v, 1, b - 1) \o r \o SubSeq(v, BlockEnd(v, b) + 1, Len(v))

\* Mutant of Strip: the loop is left after its first round.
StripOnce(next) ==
    LET b == Index(v, "begin", 1)
    IN /\ v' = IF b = 0 THEN v ELSE Replaced(b, Mask)
       /\ at' = next
       /\ UNCHANGED <<text, rpc>>

\* One round of either loop: the first block is replaced by the placeholder;
\* without a block, or after one that has no end, the loop is left.
Strip(next) ==
    LET b == Index(v, "begin", 1)
    IN /\ v' = IF b = 0 THEN v ELSE Replaced(b, Mask)
       /\ at' = IF b = 0 \/ EndLine(v, b) = 0 THEN next ELSE at
       /\ UNCHANGED <<text, rpc>>

\* Mutant of SanitizeTLSError: only the first block is taken out.
SanitizeTLSErrorFirst ==
    /\ at = "tls"
    /\ StripOnce("wrap")

SanitizeTLSError == at = "tls" /\ Strip("wrap")

\* fmt.Errorf puts the caller's words before the error's, and the handler
\* makes it the reason of its event.
Wrap ==
    /\ at = "wrap"
    /\ v' = Wrapping \o v /\ at' = "audit"
    /\ UNCHANGED <<text, rpc>>

\* recordAudit and gateAuditForWrite, for each of the two reasons they write
SanitizeString == at = "audit" /\ Strip("written")

TextNext == SanitizeTLSError \/ Wrap \/ SanitizeString

TextSpec == TextInit /\ [][TextNext]_textVars

-----------------------------------------------------------------------------
(* Properties *)

\* The END line of a block carries no second BEGIN, and key material is found
\* in blocks only: the texts PEM encoders make, whole or cut off.
WellFormed(s) ==
    /\ \A e, b \in DOMAIN s :
          e < b /\ s[e] = "end" /\ s[b] = "begin" =>
             \E n \in e..b : s[n] = "nl"
    /\ \A k \in DOMAIN s : s[k] = "key" =>
          \E b \in 1..(k - 1) :
             s[b] = "begin" /\ \A i \in b..k : s[i] # "end"

\* recordAudit: "the audit log can never accidentally persist a leaked
\* secret".  No BEGIN marker is written and, if the text is well formed, no
\* key material.
NothingLeaks ==
    at = "written" =>
        \A i \in DOMAIN v : v[i] # "begin" /\ (WellFormed(text) => v[i] # "key")

\* sanitizeTLSError: "The two implementations must stay in sync."  The copy
\* leaves nothing for SanitizeString to take out.
InSync == rpc /\ at \in {"wrap", "audit"} => Index(v, "begin", 1) = 0
=============================================================================
