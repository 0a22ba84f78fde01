------------------------------ MODULE Profiles ------------------------------
(***************************************************************************)
(* DFIR profiles, from the files an operator edits to what the tools say   *)
(* of them: dfir.LoadDir reads the directory once, when the server starts, *)
(* and refuses to start on a bad file; the profile tools and the workflow  *)
(* tools answer from that registry and from the policy of the same start;  *)
(* velo_collect_dfir_profile and velo_start_dfir_hunt check the same       *)
(* profile again when it is used (UseGate).  Before files are deployed,    *)
(* the build's tests compare them with the curated artifact catalog.       *)
(*                                                                         *)
(* A profile file is a record of what the code looks at; its text is the   *)
(* set of words that a case type may be searched for in.                   *)
(***************************************************************************)
EXTENDS Integers, Sequences, FiniteSets

CONSTANTS
    FileNames,      \* names of the *.yaml files, without the extension
    FileBodies,     \* what such a file may hold
    Policies,       \* [artifacts: allowed_artifacts, profiles: allowed_profiles]
    Catalogs,       \* contents of the catalog file: sequences of entries
    RawNames,       \* profile names as a caller writes them
    Trim,           \* strings.TrimSpace on RawNames
    NamePattern,    \* the names that DFIRProfileName accepts
    Artifacts,      \* artifact names a caller may ask for
    RawCases, RawSystems,   \* case_type and target_os as a caller writes them
    Normal,         \* lower case, trimmed, "-" and " " replaced by "_"
    MaxEdits, MaxCalls, \* bounds on edits of the files and calls per start
    None            \* missing file, empty string, stopped server

ASSUME BodyAssumption == \A b \in FileBodies : b.artifacts \in Seq(STRING)

VARIABLES
    dir,        \* the profiles directory
    catalog,    \* the catalog file
    policy,     \* the policy section of the config file
    reviewed,   \* the build's tests passed on this directory and catalog
    server,     \* None, or what buildDeps made: registry and policy
    said,       \* the answers of this run of the server
    edits

vars == <<dir, catalog, policy, reviewed, server, said, edits>>

----------------------------------------------------------------------------
(* Loading.                                                                *)

RequiredKeys == {"name", "description", "target_os", "artifacts",
                 "risk_level", "requires_approval", "max_runtime_seconds",
                 "max_result_rows", "max_result_bytes"}

RiskLevels == {"low", "medium", "high"}

ValidateProfileMetadata(p) ==
    /\ p.name # None
    /\ p.risk \in RiskLevels
    /\ p.runtime \in 1..86400
    /\ p.rows \in 1..1000000
    /\ p.bytes > 0 /\ p.bytes <= 1073741824

\* validateProfileYAMLKeys, the strict decoder, validateProfileMetadata
Loadable(b) ==
    RequiredKeys \subseteq b.keys /\ b.known /\ ValidateProfileMetadata(b)

Present(d) == {f \in FileNames : d[f] # None}

\* LoadDir fails on a bad file or a name used twice
LoadDirFails(d) ==
    \/ \E f \in Present(d) : ~Loadable(d[f])
    \/ \E f, g \in Present(d) : f # g /\ d[f].name = d[g].name

\* Registry.profiles: a map from the names to the profiles
LoadDir(d) ==
    [n \in {d[f].name : f \in Present(d)} |->
        CHOOSE p \in {d[f] : f \in Present(d)} : p.name = n]

\* ValidateProfile against the artifact allowlist
ValidateProfile(p, pol) ==
    /\ ValidateProfileMetadata(p)
    /\ p.artifacts # <<>>
    /\ \A n \in DOMAIN p.artifacts : p.artifacts[n] \in pol.artifacts

\* validateCatalogArtifact
ValidCatalogEntry(e) ==
    /\ e.name # None
    /\ e.os \in {"windows", "linux", "macos", "any"}
    /\ e.risk \in RiskLevels
    /\ e.category # None /\ e.sensitivity # None

LoadCatalogFails(c) ==
    \/ c = <<>>
    \/ \E n \in DOMAIN c : ~ValidCatalogEntry(c[n])
    \/ \E n, m \in DOMAIN c : n # m /\ c[n].name = c[m].name

Has(c, a) == \E n \in DOMAIN c : c[n].name = a

ValidateProfileAgainstCatalogSome(p, c) ==
    p.artifacts # <<>> /\ \E n \in DOMAIN p.artifacts : Has(c, p.artifacts[n])

ValidateProfileAgainstCatalog(p, c) ==
    p.artifacts # <<>> /\ \A n \in DOMAIN p.artifacts : Has(c, p.artifacts[n])

----------------------------------------------------------------------------
(* What the tools answer.                                                  *)

Registry == server.registry
Loaded == DOMAIN Registry
Names(p) == {p.artifacts[n] : n \in DOMAIN p.artifacts}

Answer(tool, in, status, out) ==
    [tool |-> tool, in |-> in, status |-> status, out |-> out]

Blocked(tool, in) == Answer(tool, in, "blocked", {})

\* velo_list_dfir_profiles: every loaded profile, allowlisted or not
ListDFIRProfiles ==
    Answer("list", None, "success", {<<n, Len(Registry[n].artifacts)>> : n \in Loaded})

GetDFIRProfile(raw) ==
    IF raw \notin NamePattern THEN Blocked("get", raw)
    ELSE IF raw \notin Loaded THEN Answer("get", raw, "error", {})
    ELSE Answer("get", raw, "success", {Registry[raw]})

\* velo_validate_dfir_profile: not valid is an answer, not a failure
ValidateDFIRProfile(raw) ==
    IF raw \notin NamePattern THEN Blocked("validate", raw)
    ELSE IF raw \notin Loaded THEN Answer("validate", raw, "error", {})
    ELSE Answer("validate", raw, "success",
                {ValidateProfile(Registry[raw], server.policy)})

\* normalizeWorkflowToken
CaseTypes == {None, "basic", "triage", "process_network", "persistence",
              "lateral_movement", "ransomware", "credential_theft",
              "eventlog", "browser_activity", "timeline", "ioc"}
Systems == {None, "windows", "linux", "any"}

\* workflowCaseNeedles
Needles(case) ==
    CASE case \in {"basic", "triage"} -> {"basic", "triage"}
      [] case = "process_network" -> {"process_network", "process", "network"}
      [] case = "credential_theft" -> {"credential", "theft"}
      [] case = "lateral_movement" -> {"lateral", "movement"}
      [] case = "browser_activity" -> {"browser"}
      [] OTHER -> {case}

\* workflowMatchReasons: no reason, no recommendation
WorkflowMatches(p, case, os) ==
    /\ os \in {None, "any"} \/ p.os \in {"any", os}
    /\ case # None => Needles(case) \cap p.text # {}

\* workflowRecommendation and profilePolicyValidation
WorkflowRecommendationTrusting(p) ==
    [name |-> p.name, allowed |-> p.name \in server.policy.profiles,
     allowlisted |-> p.artifacts # <<>>]

WorkflowRecommendation(p) ==
    [name |-> p.name, allowed |-> p.name \in server.policy.profiles,
     allowlisted |-> ValidateProfile(p, server.policy)]

StatusForCount(s) == IF s = {} THEN "empty" ELSE "success"

PlanDFIRTriage(rawCase, rawOS) ==
    LET in == <<Normal[rawCase], Normal[rawOS]>>
        recs == {WorkflowRecommendation(Registry[n]) :
                    n \in {m \in Loaded :
                              WorkflowMatches(Registry[m], in[1], in[2])}}
    IN  IF in[1] \notin CaseTypes \/ in[2] \notin Systems
        THEN Blocked("plan", in)
        ELSE Answer("plan", in, StatusForCount(recs), recs)

\* How often each artifact occurs in the profiles compared: a profile that
\* lists it twice counts twice.
ArtifactCount(ns, a) ==
    Cardinality(UNION {{<<n, k>> : k \in {i \in DOMAIN Registry[n].artifacts :
                                            Registry[n].artifacts[i] = a}} :
                          n \in ns})

CommonAny(ns) ==
    {a \in UNION {Names(Registry[n]) : n \in ns} : ArtifactCount(ns, a) >= 2}

Common(ns) ==
    {a \in UNION {Names(Registry[n]) : n \in ns} :
        ArtifactCount(ns, a) = Cardinality(ns)}

Unique(ns) ==
    [n \in ns |-> {a \in Names(Registry[n]) : ArtifactCount(ns, a) = 1}]

CompareDFIRProfiles(raws) ==
    LET in == [k \in DOMAIN raws |-> Trim[raws[k]]]
        ns == {in[k] : k \in DOMAIN in}
    IN  IF Len(raws) \notin 2..5 \/ ~(ns \subseteq NamePattern)
           \/ Cardinality(ns) # Len(raws)
        THEN Blocked("compare", ns)
        ELSE IF ~(ns \subseteq Loaded)
        THEN Answer("compare", ns, "not_found", ns \ Loaded)
        ELSE Answer("compare", ns, "success",
                    [common |-> Common(ns), unique |-> Unique(ns),
                     recs |-> {WorkflowRecommendation(Registry[n]) : n \in ns}])

FindProfilesByArtifact(a) ==
    LET recs == {WorkflowRecommendation(Registry[n]) :
                    n \in {m \in Loaded : a \in Names(Registry[m])}}
    IN  Answer("find", a, IF recs = {} THEN "not_found" ELSE "success", recs)

\* The profile gates of velo_collect_dfir_profile_with_approval and
\* velo_start_dfir_hunt_with_approval, with the artifacts let through.
UseGate(raw) ==
    IF /\ raw \in NamePattern /\ raw \in server.policy.profiles
       /\ raw \in Loaded /\ ValidateProfile(Registry[raw], server.policy)
    THEN Answer("use", raw, "success", Names(Registry[raw]))
    ELSE Blocked("use", raw)

----------------------------------------------------------------------------
(* The state machine.                                                      *)

Init ==
    /\ dir \in [FileNames -> FileBodies \cup {None}]
    /\ catalog \in Catalogs /\ policy \in Policies
    /\ reviewed = FALSE /\ server = None /\ said = {} /\ edits = 0

EditFile(f, b) ==
    /\ edits < MaxEdits /\ dir[f] # b
    /\ dir' = [dir EXCEPT ![f] = b]
    /\ reviewed' = FALSE /\ edits' = edits + 1
    /\ UNCHANGED <<catalog, policy, server, said>>

EditPolicy(p) ==
    /\ edits < MaxEdits /\ policy # p
    /\ policy' = p /\ edits' = edits + 1
    /\ UNCHANGED <<dir, catalog, reviewed, server, said>>

\* TestEveryShippedProfileArtifactIsInCatalog on the files to be deployed
Review ==
    /\ ~reviewed /\ server = None
    /\ ~LoadCatalogFails(catalog) /\ ~LoadDirFails(dir)
    /\ \A f \in Present(dir) : ValidateProfileAgainstCatalog(dir[f], catalog)
    /\ reviewed' = TRUE
    /\ UNCHANGED <<dir, catalog, policy, server, said, edits>>

\* buildDeps; when LoadDir fails the process exits
Start ==
    /\ server = None /\ ~LoadDirFails(dir)
    /\ server' = [registry |-> LoadDir(dir), policy |-> policy,
                  reviewed |-> reviewed]
    /\ UNCHANGED <<dir, catalog, policy, reviewed, said, edits>>

Stop ==
    /\ server # None
    /\ server' = None /\ said' = {}
    /\ UNCHANGED <<dir, catalog, policy, reviewed, edits>>

Say(a) ==
    /\ server # None /\ Cardinality(said) < MaxCalls
    /\ said' = said \cup {a}
    /\ UNCHANGED <<dir, catalog, policy, reviewed, server, edits>>

ProfileTool ==
    \/ Say(ListDFIRProfiles)
    \/ \E n \in RawNames :
          Say(GetDFIRProfile(n)) \/ Say(ValidateDFIRProfile(n)) \/ Say(UseGate(n))

WorkflowTool ==
    \/ \E c \in RawCases, o \in RawSystems : Say(PlanDFIRTriage(c, o))
    \/ \E k \in 1..3 : \E raws \in [1..k -> RawNames] :
          Say(CompareDFIRProfiles(raws))
    \/ \E a \in Artifacts : Say(FindProfilesByArtifact(a))

Next ==
    \/ \E f \in FileNames, b \in FileBodies \cup {None} : EditFile(f, b)
    \/ \E p \in Policies : EditPolicy(p)
    \/ Review \/ Start \/ Stop
    \/ server # None /\ (ProfileTool \/ WorkflowTool)

Spec == Init /\ [][Next]_vars

----------------------------------------------------------------------------
(* Properties.                                                             *)

Said(tool) == {a \in said : a.tool = tool}
Succeeded(a) == a.status = "success"

\* A server started on files that passed the build's catalog test collects,
\* by profile, only artifacts of a well-formed catalog.
CuratedOnly ==
    server # None /\ server.reviewed =>
        \A a \in Said("use") : \A x \in a.out :
            \E n \in DOMAIN catalog :
                catalog[n].name = x /\ catalog[n].risk \in RiskLevels

\* The recommendations of an answer.
Recs(a) ==
    IF a.tool \in {"plan", "find"} THEN a.out
    ELSE IF a.tool = "compare" /\ Succeeded(a) THEN a.out.recs
    ELSE {}

\* While a server runs, its tools do not contradict each other: a profile
\* recommended as allowed and allowlisted is let through when it is used, and
\* only such a one, unless the tools refuse its name, which LoadDir does not
\* check (one with a dash loads); velo_validate_dfir_profile says valid of
\* every profile that is let through; and velo_find_profiles_by_artifact finds
\* it for each of its artifacts.
ToolsAgree ==
    \A a \in Said("use") :
        /\ \A b \in said : \A r \in Recs(b) :
              r.name = a.in =>
                  ( Succeeded(a) <=>
                       r.allowed /\ r.allowlisted /\ r.name \in NamePattern )
        /\ Succeeded(a) =>
              /\ \A b \in Said("validate") : b.in = a.in => b.out = {TRUE}
              /\ \A b \in Said("find") : b.in \in a.out =>
                    \E r \in b.out : r.name = a.in

\* The artifacts every compared profile has, and those only one has.
InAll(ns) == {a \in UNION {Names(Registry[n]) : n \in ns} :
                 \A n \in ns : a \in Names(Registry[n])}
OnlyIn(n, ns) == {a \in Names(Registry[n]) :
                     \A m \in ns \ {n} : a \notin Names(Registry[m])}

\* velo_compare_dfir_profiles returns the artifacts that all the profiles
\* share and, for each one, those that no other has, unless one of them lists
\* an artifact twice.
CompareExact ==
    \A a \in Said("compare") :
        /\ Succeeded(a)
        /\ \A n \in a.in : Len(Registry[n].artifacts) =
                               Cardinality(Names(Registry[n]))
        => /\ a.out.common = InAll(a.in)
           /\ \A n \in a.in : a.out.unique[n] = OnlyIn(n, a.in)

=============================================================================
