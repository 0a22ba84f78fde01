----------------------------- MODULE Sanitizer ------------------------------
(***************************************************************************)
(* internal/audit/sanitize.go: what is taken out of a text or a payload    *)
(* before it is written to the audit log.  Texts are in Redaction.         *)
(*                                                                         *)
(* A structured payload (SanitizeMap, SanitizeAny, sanitizeStruct) is a    *)
(* tree of maps, lists, structs, pointers and strings; a redactable name   *)
(* hides what is under it, at any depth, and a string in it is clean, or   *)
(* tainted by a PEM block.                                                 *)
(***************************************************************************)
EXTENDS Redaction, FiniteSets

CONSTANTS
    FieldNames,          \* the names keys, fields and tags are taken from
    Exported,            \* those that begin with a capital letter
    Normal,              \* normalizeFieldName, a function on FieldNames
    DefaultRedactFields, \* the hard-coded list
    Extras,              \* the audit.redact_fields lists of the config
    Depth                \* bound on the depth of a payload

ASSUME SanitizerAssumption ==
    /\ Depth \in Nat
    /\ DOMAIN Normal = FieldNames
    /\ Exported \subseteq FieldNames
    /\ DefaultRedactFields \subseteq FieldNames
    /\ Extras \subseteq SUBSET FieldNames

Nil == [kind |-> "nil"]
Text(t) == [kind |-> "string", text |-> t]
Masked == Text("mask")
Map(m) == [kind |-> "map", of |-> m]
List(s) == [kind |-> "list", of |-> s]
Struct(f) == [kind |-> "struct", of |-> f]
Pointer(p) == [kind |-> "ptr", of |-> p]

Tags == FieldNames \cup {"", "-"}
Leaves == {Nil, [kind |-> "number"], Text("clean"), Text("tainted")}

\* The payloads of a given depth.  A struct has one field: its Go name, its
\* json tag and its value.
RECURSIVE Payloads(_)
Payloads(d) ==
    IF d = 0 THEN Leaves
    ELSE LET Below == Payloads(d - 1) IN
         Leaves
         \cup {Map([n \in {k} |-> x]) : k \in FieldNames, x \in Below}
         \cup {List(<<x, y>>) : x \in Leaves, y \in Below}
         \cup {Struct(<<[name |-> n, tag |-> t, value |-> x]>>) :
                  n \in FieldNames, t \in Tags, x \in Below}
         \cup {Pointer(x) : x \in Below \ {Nil}}

VARIABLES
    payload,    \* the value a caller hands to SanitizeAny
    extra,      \* the redact_fields of the server's config
    out         \* what SanitizeAny returns

data == <<payload, extra, out>>
vars == <<textVars, data>>

\* Either a text or a payload is to be written.  For a payload, at is "payload"
\* in SanitizeAny and "returned" when it has returned.
Init ==
    /\ out = Nil /\ extra \in Extras
    /\ \/ TextInit /\ extra = {} /\ payload = Nil
       \/ /\ text = <<>> /\ v = <<>> /\ rpc = FALSE
          /\ payload \in Payloads(Depth)
          /\ at = "payload"

-----------------------------------------------------------------------------
(* Payloads *)

\* Mutant of NewSanitizer: the configured list replaces the default.
NewSanitizerReplacing(more) ==
    {Normal[n] : n \in IF more = {} THEN DefaultRedactFields ELSE more}

\* The configured names are added to the default ones.
NewSanitizer(more) == {Normal[n] : n \in DefaultRedactFields \cup more}

ShouldRedact(n) == Normal[n] \in NewSanitizer(extra)

\* SanitizeString on a string of a payload.
SanitizedText(t) == IF t = "tainted" THEN Masked ELSE Text(t)

\* The name a struct field is given in the result.
WireName(f) == IF f.tag \in {"", "-"} THEN f.name ELSE f.tag

RECURSIVE SanitizeAny(_)

\* Mutant of SanitizeStruct: the fields keep their Go names.
SanitizeStructGoNames(fields) ==
    LET kept == {i \in DOMAIN fields : fields[i].name \in Exported}
    IN [n \in {fields[i].name : i \in kept} |->
          LET f == fields[CHOOSE i \in kept : fields[i].name = n] IN
          IF ShouldRedact(n) THEN Masked ELSE SanitizeAny(f.value)]

\* A later field of the same wire name replaces an earlier one (out is a map).
SanitizeStruct(fields) ==
    LET kept == {i \in DOMAIN fields : fields[i].name \in Exported}
        named(n) == {i \in kept : WireName(fields[i]) = n}
        last(n) == CHOOSE i \in named(n) : \A j \in named(n) : j <= i
    IN [n \in {WireName(fields[i]) : i \in kept} |->
          LET f == fields[last(n)] IN
          IF ShouldRedact(n) \/ ShouldRedact(f.name) THEN Masked
                                                     ELSE SanitizeAny(f.value)]

SanitizeAny(x) ==
    CASE x.kind = "string" -> SanitizedText(x.text)
      [] x.kind = "map" ->
            Map([n \in DOMAIN x.of |-> IF ShouldRedact(n) THEN Masked
                                       ELSE SanitizeAny(x.of[n])])
      [] x.kind = "list" -> List([i \in DOMAIN x.of |-> SanitizeAny(x.of[i])])
      [] x.kind = "ptr" -> SanitizeAny(x.of)
      [] x.kind = "struct" -> Map(SanitizeStruct(x.of))
      [] OTHER -> x

\* SanitizeMap is SanitizeAny for a map of strings.
Sanitize ==
    /\ at = "payload"
    /\ out' = SanitizeAny(payload) /\ at' = "returned"
    /\ UNCHANGED <<text, rpc, v, payload, extra>>

Next ==
    \/ SanitizeTLSError /\ UNCHANGED data
    \/ Wrap /\ UNCHANGED data
    \/ SanitizeString /\ UNCHANGED data
    \/ Sanitize

Spec == Init /\ [][Next]_vars
-----------------------------------------------------------------------------
(* Properties *)

\* Every value of a payload, itself included.
RECURSIVE Within(_)
Within(x) ==
    {x} \cup CASE x.kind = "map" -> UNION {Within(x.of[n]) : n \in DOMAIN x.of}
              [] x.kind = "list" -> UNION {Within(x.of[i]) : i \in DOMAIN x.of}
              [] x.kind = "ptr" -> Within(x.of)
              [] x.kind = "struct" ->
                    UNION {Within(x.of[i].value) : i \in DOMAIN x.of}
              [] OTHER -> {}

\* "a secret embedded at any depth is still redacted", by default names and
\* configured ones alike: whatever names the operator adds, what is found
\* under a redactable name is the placeholder, and no string keeps a block.
NothingRedactableLeft ==
    \A x \in Within(out) :
        /\ x.kind = "string" => x.text # "tainted"
        /\ x.kind = "map" =>
              \A n \in DOMAIN x.of :
                 (\E d \in DefaultRedactFields \cup extra : Normal[d] = Normal[n])
                    => x.of[n] = Masked

\* What encoding/json makes of a payload once it is read back: exported fields
\* under their wire names, fields tagged "-" left out.
RECURSIVE Reparsed(_)
Reparsed(x) ==
    CASE x.kind = "map" -> Map([n \in DOMAIN x.of |-> Reparsed(x.of[n])])
      [] x.kind = "list" -> List([i \in DOMAIN x.of |-> Reparsed(x.of[i])])
      [] x.kind = "ptr" -> Reparsed(x.of)
      [] x.kind = "struct" ->
            LET kept == {i \in DOMAIN x.of : x.of[i].name \in Exported /\ x.of[i].tag # "-"}
            IN Map([n \in {WireName(x.of[i]) : i \in kept} |->
                      Reparsed(x.of[CHOOSE i \in kept : WireName(x.of[i]) = n].value)])
      [] OTHER -> x

\* The field keeps its meaning on the wire: it is not tagged "-", and its tag
\* is as redactable as its Go name.
Plain(f) == f.tag # "-" /\ (ShouldRedact(WireName(f)) <=> ShouldRedact(f.name))

\* sanitizeStruct: "a struct serialized to JSON and then re-parsed would redact
\* identically", as long as its fields are plain.
RedactsAsReparsed ==
    /\ at = "returned"
    /\ \A x \in Within(payload) : x.kind = "struct" =>
          \A i \in DOMAIN x.of : Plain(x.of[i])
    => out = SanitizeAny(Reparsed(payload))
=============================================================================
