----------------------------- MODULE MCProfiles -----------------------------
(***************************************************************************)
(* The instance of Profiles for TLC: three files, bodies good and bad, two *)
(* policies, and the names and words a caller may write; twi-ce is a name  *)
(* that LoadDir accepts and the tools do not.                              *)
(***************************************************************************)
EXTENDS Profiles, TLC

Body(name, os, text, arts) ==
    [name |-> name, os |-> os, text |-> text, artifacts |-> arts,
     risk |-> "low", runtime |-> 600, rows |-> 100, bytes |-> 1000,
     keys |-> RequiredKeys, known |-> TRUE]

Triage == Body("win", "windows", {"triage"}, <<"a", "b">>)
Ransom == Body("ransom", "windows", {"ransomware", "process"}, <<"b", "c">>)
Cross == Body("any", "any", {"credential"}, <<"c", "a", "b">>)
Twice == Body("twi-ce", "linux", {"ransomware"}, <<"c", "b", "c">>)
Endless == [Triage EXCEPT !.runtime = 86401]

Entry(name) ==
    [name |-> name, os |-> "any", risk |-> "low", category |-> "process",
     sensitivity |-> "none"]

MCBodies == {Triage, Ransom, Cross, Twice, Endless}

MCNames == {"win", "ransom", "any", "twi-ce", " win"}
MCTrim == [n \in MCNames |-> IF n = " win" THEN "win" ELSE n]
MCNamePattern == {"win", "ransom", "any"}

Wide == [artifacts |-> {"a", "b", "c"}, profiles |-> {"win", "twi-ce"}]
Narrow == [artifacts |-> {"b", "c"}, profiles |-> {"any", "ransom"}]

GoodCatalog == <<Entry("a"), Entry("b")>>

MCCases == {"Ransomware", "", "other"}
MCSystems == {"", "Windows"}
MCNormal ==
    ("Ransomware" :> "ransomware") @@ ("other" :> "other")
    @@ ("Windows" :> "windows") @@ ("" :> None)

MCCatalogs == {GoodCatalog}
MCPolicies == {Wide, Narrow}
FilesAlike == Permutations(FileNames)
=============================================================================
