--------------------------- MODULE ProfilesProofs ---------------------------
(***************************************************************************)
(* Proofs about Profiles, for any profile files, catalogs, policies and    *)
(* callers: what a reviewed directory lets be collected is curated, the    *)
(* tools of one start agree, and profiles are compared exactly.            *)
(***************************************************************************)
EXTENDS Profiles, FiniteSetTheorems, SequenceTheorems, TLAPS

\* The files and the policy are what the operator may write.
TypeOK ==
    /\ dir \in [FileNames -> FileBodies \cup {None}]
    /\ reviewed \in BOOLEAN

\* Each loaded profile is a file's body, under its own name.
RegistryInv ==
    server # None =>
        \A n \in Loaded : Registry[n].name = n /\ Registry[n] \in FileBodies

\* What the build's tests have established, of the directory and of the server
\* that was started on it.
ReviewInv ==
    /\ reviewed =>
          /\ ~LoadCatalogFails(catalog)
          /\ \A f \in Present(dir) :
                ValidateProfileAgainstCatalog(dir[f], catalog)
    /\ server # None /\ server.reviewed =>
          /\ ~LoadCatalogFails(catalog)
          /\ \A n \in Loaded :
                ValidateProfileAgainstCatalog(Registry[n], catalog)

\* An answer that one of the tools gives of this registry and policy.
IsAnswer(a) ==
    \/ a = ListDFIRProfiles
    \/ \E n : a = GetDFIRProfile(n)
    \/ \E n : a = ValidateDFIRProfile(n)
    \/ \E n : a = UseGate(n)
    \/ \E c, o : a = PlanDFIRTriage(c, o)
    \/ \E k \in 1..3 : \E raws \in [1..k -> RawNames] :
          a = CompareDFIRProfiles(raws)
    \/ \E x : a = FindProfilesByArtifact(x)

\* A stopped server has said nothing; the answers of a running one are all
\* about the registry and policy it still has.
SaidInv ==
    /\ server = None => said = {}
    /\ \A a \in said : IsAnswer(a)

IInv == TypeOK /\ RegistryInv /\ ReviewInv /\ SaidInv

-----------------------------------------------------------------------------
(* Loading *)

LEMMA LoadDirIs ==
    ASSUME NEW d \in [FileNames -> FileBodies \cup {None}],
           NEW n \in DOMAIN LoadDir(d)
    PROVE  \E f \in Present(d) : LoadDir(d)[n] = d[f] /\ d[f].name = n
<1> DEFINE Bodies == {d[f] : f \in Present(d)}
<1>1. n \in {d[f].name : f \in Present(d)}
  BY DEF LoadDir
<1>2. \E p \in Bodies : p.name = n
  BY <1>1
<1>3. LoadDir(d)[n] = CHOOSE p \in Bodies : p.name = n
  BY <1>1 DEF LoadDir
<1>4. LoadDir(d)[n] \in Bodies /\ LoadDir(d)[n].name = n
  BY <1>2, <1>3
<1> QED BY <1>4

-----------------------------------------------------------------------------
(* The answers *)

LEMMA AnswerIs ==
    ASSUME NEW tool, NEW in, NEW status, NEW out
    PROVE  /\ Answer(tool, in, status, out).tool = tool
           /\ Answer(tool, in, status, out).in = in
           /\ Answer(tool, in, status, out).status = status
           /\ Answer(tool, in, status, out).out = out
  BY DEF Answer

LEMMA ToolOf ==
    /\ ListDFIRProfiles.tool = "list"
    /\ \A n : GetDFIRProfile(n).tool = "get"
    /\ \A n : ValidateDFIRProfile(n).tool = "validate"
    /\ \A n : UseGate(n).tool = "use"
    /\ \A c, o : PlanDFIRTriage(c, o).tool = "plan"
    /\ \A raws : CompareDFIRProfiles(raws).tool = "compare"
    /\ \A x : FindProfilesByArtifact(x).tool = "find"
<1>1. ListDFIRProfiles.tool = "list"
  BY AnswerIs DEF ListDFIRProfiles
<1>2. \A n : GetDFIRProfile(n).tool = "get"
  BY AnswerIs DEF GetDFIRProfile, Blocked
<1>3. \A n : ValidateDFIRProfile(n).tool = "validate"
  BY AnswerIs DEF ValidateDFIRProfile, Blocked
<1>4. \A n : UseGate(n).tool = "use"
  BY AnswerIs DEF UseGate, Blocked
<1>5. \A c, o : PlanDFIRTriage(c, o).tool = "plan"
  BY AnswerIs DEF PlanDFIRTriage, Blocked
<1>6. \A raws : CompareDFIRProfiles(raws).tool = "compare"
  BY AnswerIs DEF CompareDFIRProfiles, Blocked
<1>7. \A x : FindProfilesByArtifact(x).tool = "find"
  BY AnswerIs DEF FindProfilesByArtifact
<1> QED BY <1>1, <1>2, <1>3, <1>4, <1>5, <1>6, <1>7

\* Every answer is that of the tool it names.
LEMMA ByTool ==
    ASSUME NEW a, IsAnswer(a)
    PROVE  /\ a.tool = "use" => \E n : a = UseGate(n)
           /\ a.tool = "validate" => \E n : a = ValidateDFIRProfile(n)
           /\ a.tool = "find" => \E x : a = FindProfilesByArtifact(x)
           /\ a.tool = "plan" => \E c, o : a = PlanDFIRTriage(c, o)
           /\ a.tool = "compare" =>
                 \E k \in 1..3 : \E raws \in [1..k -> RawNames] :
                     a = CompareDFIRProfiles(raws)
  BY ToolOf DEF IsAnswer

LEMMA UseIs ==
    ASSUME NEW n
    PROVE  /\ UseGate(n).in = n
           /\ Succeeded(UseGate(n)) <=>
                 /\ n \in NamePattern /\ n \in server.policy.profiles
                 /\ n \in Loaded /\ ValidateProfile(Registry[n], server.policy)
           /\ UseGate(n).out = IF Succeeded(UseGate(n))
                               THEN Names(Registry[n]) ELSE {}
  BY AnswerIs DEF UseGate, Blocked, Succeeded

\* The names that are compared.
Compared(raws) == {Trim[raws[k]] : k \in DOMAIN raws}

LEMMA CompareIs ==
    ASSUME NEW k \in 1..3, NEW raws \in [1..k -> RawNames],
           Succeeded(CompareDFIRProfiles(raws))
    PROVE  LET a == CompareDFIRProfiles(raws)
               ns == Compared(raws)
           IN  /\ a.in = ns /\ ns \subseteq Loaded /\ IsFiniteSet(ns)
               /\ a.out.common = Common(ns)
               /\ \A n \in ns : a.out.unique[n] = Unique(ns)[n]
               /\ \A r \in a.out.recs :
                     \E n \in ns : r = WorkflowRecommendation(Registry[n])
<1> DEFINE in == [i \in DOMAIN raws |-> Trim[raws[i]]]
           ns == {in[i] : i \in DOMAIN in}
           out == [common |-> Common(ns), unique |-> Unique(ns),
                   recs |-> {WorkflowRecommendation(Registry[n]) : n \in ns}]
<1>1. ns = Compared(raws)
  BY DEF Compared
<1>2. IsFiniteSet(ns)
  <2>1. IsFiniteSet(1..k)
    BY FS_Interval
  <2>2. DOMAIN raws = 1..k
    OBVIOUS
  <2>3. in \in Surjection(1..k, ns)
    BY <2>2 DEF Surjection
  <2> QED BY <2>1, <2>3, FS_Surjection
<1> HIDE DEF in, ns, out
<1>3. /\ ns \subseteq Loaded
      /\ CompareDFIRProfiles(raws) = Answer("compare", ns, "success", out)
  BY SMTT(60), Z3T(60), AnswerIs
     DEF CompareDFIRProfiles, Blocked, Succeeded, in, ns, out
<1>4. /\ out.common = Common(ns) /\ out.unique = Unique(ns)
      /\ out.recs = {WorkflowRecommendation(Registry[n]) : n \in ns}
  BY DEF out
<1> QED BY <1>1, <1>2, <1>3, <1>4, AnswerIs

\* A recommendation is one of a loaded profile.
LEMMA RecsAre ==
    ASSUME NEW a, IsAnswer(a), NEW r \in Recs(a)
    PROVE  \E m \in Loaded : r = WorkflowRecommendation(Registry[m])
<1>1. CASE a.tool = "plan"
  <2>1. PICK c, o : a = PlanDFIRTriage(c, o)
    BY <1>1, ByTool
  <2>2. r \in a.out
    BY <1>1 DEF Recs
  <2> QED BY <2>1, <2>2, AnswerIs DEF PlanDFIRTriage, Blocked
<1>2. CASE a.tool = "find"
  <2>1. PICK x : a = FindProfilesByArtifact(x)
    BY <1>2, ByTool
  <2>2. r \in a.out
    BY <1>2 DEF Recs
  <2> QED BY <2>1, <2>2, AnswerIs DEF FindProfilesByArtifact
<1>3. CASE a.tool = "compare" /\ Succeeded(a)
  <2>3. PICK k \in 1..3 : \E raws \in [1..k -> RawNames] :
             a = CompareDFIRProfiles(raws)
    BY <1>3, ByTool
  <2>1. PICK raws \in [1..k -> RawNames] : a = CompareDFIRProfiles(raws)
    BY <2>3
  <2>2. r \in a.out.recs
    BY <1>3 DEF Recs
  <2> QED BY ZenonT(60), <1>3, <2>1, <2>2, CompareIs
<1> QED BY <1>1, <1>2, <1>3 DEF Recs

-----------------------------------------------------------------------------
(* The steps *)

\* What was answered stays an answer while the server runs.
LEMMA StaysAnswer ==
    ASSUME server' = server, NEW a, IsAnswer(a)
    PROVE  IsAnswer(a)'
<1>0. Registry' = Registry /\ Loaded' = Loaded
  BY DEF Registry, Loaded
<1>1. ListDFIRProfiles' = ListDFIRProfiles
  BY <1>0 DEF ListDFIRProfiles, Answer
<1>2. \A n : GetDFIRProfile(n)' = GetDFIRProfile(n)
  BY <1>0 DEF GetDFIRProfile, Blocked, Answer
<1>3. \A n : ValidateDFIRProfile(n)' = ValidateDFIRProfile(n)
  BY <1>0 DEF ValidateDFIRProfile, Blocked, Answer
<1>4. \A n : UseGate(n)' = UseGate(n)
  BY <1>0 DEF UseGate, Blocked, Answer
<1>5. \A c, o : PlanDFIRTriage(c, o)' = PlanDFIRTriage(c, o)
  BY SMTT(60), Z3T(60), <1>0
     DEF PlanDFIRTriage, Blocked, Answer, WorkflowRecommendation
<1>6. \A raws : CompareDFIRProfiles(raws)' = CompareDFIRProfiles(raws)
  BY SMTT(60), Z3T(60), <1>0
     DEF CompareDFIRProfiles, Blocked, Answer, Common, Unique, ArtifactCount,
         WorkflowRecommendation
<1>7. \A x : FindProfilesByArtifact(x)' = FindProfilesByArtifact(x)
  BY <1>0 DEF FindProfilesByArtifact, Answer, WorkflowRecommendation
<1> QED BY <1>1, <1>2, <1>3, <1>4, <1>5, <1>6, <1>7 DEF IsAnswer

\* What a step does to the files, the server and the answers.
Edits ==
    /\ UNCHANGED <<catalog, server, said>>
    /\ \/ \E f \in FileNames, b \in FileBodies \cup {None} :
             dir' = [dir EXCEPT ![f] = b] /\ reviewed' = FALSE
       \/ UNCHANGED <<dir, reviewed>>

Reviews ==
    /\ UNCHANGED <<catalog, server, said, dir>>
    /\ ~LoadCatalogFails(catalog) /\ reviewed' = TRUE
    /\ \A f \in Present(dir) : ValidateProfileAgainstCatalog(dir[f], catalog)

Says ==
    /\ UNCHANGED <<catalog, server, dir, reviewed>> /\ server # None
    /\ \E a : IsAnswer(a) /\ said' = said \cup {a}

LEMMA Moves ==
    ASSUME [Next]_vars
    PROVE  Edits \/ Reviews \/ Start \/ Stop \/ Says
<1>1. CASE \/ \E f \in FileNames, b \in FileBodies \cup {None} : EditFile(f, b)
           \/ \E p \in Policies : EditPolicy(p)
           \/ UNCHANGED vars
  BY <1>1 DEF EditFile, EditPolicy, vars, Edits
<1>2. CASE Review
  BY <1>2 DEF Review, Reviews
<1>3. \A a : IsAnswer(a) /\ Say(a) => Says
  BY DEF Say, Says
<1>4. CASE ProfileTool
  <2>1. /\ IsAnswer(ListDFIRProfiles)
        /\ \A n : /\ IsAnswer(GetDFIRProfile(n))
                 /\ IsAnswer(ValidateDFIRProfile(n)) /\ IsAnswer(UseGate(n))
    BY DEF IsAnswer
  <2> QED BY <1>3, <1>4, <2>1 DEF ProfileTool
<1>5. CASE WorkflowTool
  <2>1. /\ \A c, o : IsAnswer(PlanDFIRTriage(c, o))
        /\ \A k \in 1..3 : \A raws \in [1..k -> RawNames] :
              IsAnswer(CompareDFIRProfiles(raws))
        /\ \A x : IsAnswer(FindProfilesByArtifact(x))
    BY DEF IsAnswer
  <2> QED BY <1>3, <1>5, <2>1 DEF WorkflowTool
<1> QED BY <1>1, <1>2, <1>4, <1>5 DEF Next

LEMMA InitInv == Init => IInv
  BY DEF Init, IInv, TypeOK, RegistryInv, ReviewInv, SaidInv

LEMMA StepInv == IInv /\ [Next]_vars => IInv'
<1> SUFFICES ASSUME IInv, [Next]_vars PROVE IInv'
  OBVIOUS
<1>1. TypeOK'
  BY Moves DEF IInv, TypeOK, Edits, Reviews, Start, Stop, Says
<1>2. CASE Start
  <2>1. /\ server'.registry = LoadDir(dir) /\ server'.reviewed = reviewed
        /\ UNCHANGED <<dir, catalog, reviewed, said>> /\ said = {}
    BY <1>2 DEF Start, IInv, SaidInv
  <2>2. \A n \in DOMAIN LoadDir(dir) : \E f \in Present(dir) :
           LoadDir(dir)[n] = dir[f] /\ dir[f].name = n
    BY LoadDirIs DEF IInv, TypeOK
  <2>3. \A f \in Present(dir) : dir[f] \in FileBodies
    BY DEF IInv, TypeOK, Present
  <2>4. RegistryInv'
    BY ZenonT(60), <2>1, <2>2, <2>3 DEF RegistryInv, Registry, Loaded
  <2>5. ReviewInv'
    <3>1. reviewed => \A n \in DOMAIN LoadDir(dir) :
             ValidateProfileAgainstCatalog(LoadDir(dir)[n], catalog)
      BY <2>2 DEF IInv, ReviewInv
    <3> QED BY <2>1, <3>1 DEF IInv, ReviewInv, Registry, Loaded, Present,
               LoadCatalogFails, ValidateProfileAgainstCatalog, Has
  <2>6. SaidInv'
    BY <2>1 DEF SaidInv
  <2> QED BY <1>1, <2>4, <2>5, <2>6 DEF IInv
<1>3. CASE Stop
  <2>1. server' = None /\ said' = {} /\ UNCHANGED <<dir, catalog, reviewed>>
    BY <1>3 DEF Stop
  <2>2. ReviewInv'
    BY <2>1 DEF IInv, ReviewInv, Present, LoadCatalogFails,
       ValidateProfileAgainstCatalog, Has
  <2> QED BY <1>1, <2>1, <2>2 DEF IInv, RegistryInv, SaidInv
<1>4. CASE Edits \/ Reviews \/ Says
  <2>1. UNCHANGED <<server, catalog>>
    BY <1>4 DEF Edits, Reviews, Says
  <2>2. RegistryInv'
    BY <2>1 DEF IInv, RegistryInv, Registry, Loaded
  <2>3. ReviewInv'
    <3>1. /\ LoadCatalogFails(catalog)' <=> LoadCatalogFails(catalog)
          /\ \A p : ValidateProfileAgainstCatalog(p, catalog)' <=>
                    ValidateProfileAgainstCatalog(p, catalog)
      BY <2>1 DEF LoadCatalogFails, ValidateProfileAgainstCatalog, Has
    <3>2. Loaded' = Loaded /\ Registry' = Registry /\ server' = server
      BY <2>1 DEF Loaded, Registry
    <3>3. reviewed' =>
             /\ ~LoadCatalogFails(catalog)
             /\ \A f \in Present(dir)' :
                   ValidateProfileAgainstCatalog(dir'[f], catalog)
      BY <1>4 DEF IInv, ReviewInv, Edits, Reviews, Says, Present
    <3> QED BY <3>1, <3>2, <3>3 DEF IInv, ReviewInv
  <2>4. SaidInv'
    BY <1>4, <2>1, StaysAnswer DEF IInv, SaidInv, Edits, Reviews, Says
  <2> QED BY <1>1, <2>2, <2>3, <2>4 DEF IInv
<1> QED BY <1>2, <1>3, <1>4, Moves

LEMMA Always == Spec => []IInv
  BY InitInv, StepInv, PTL DEF Spec

-----------------------------------------------------------------------------
(* The results *)

\* A server started on files that passed the build's catalog test collects by
\* profile only artifacts of a well-formed catalog, whatever is edited after
\* the start, and whoever asks.
THEOREM CollectsCurated == Spec => []CuratedOnly
<1>1. IInv => CuratedOnly
  <2> SUFFICES ASSUME IInv, server # None, server.reviewed,
                      NEW a \in Said("use"), NEW x \in a.out
               PROVE  \E n \in DOMAIN catalog :
                         catalog[n].name = x /\ catalog[n].risk \in RiskLevels
    BY DEF CuratedOnly
  <2>1. PICK n : a = UseGate(n)
    BY ByTool DEF IInv, SaidInv, Said
  <2>2. n \in Loaded /\ x \in Names(Registry[n])
    BY <2>1, UseIs
  <2>3. Has(catalog, x)
    BY <2>2 DEF IInv, ReviewInv, ValidateProfileAgainstCatalog, Names
  <2>4. \A m \in DOMAIN catalog : catalog[m].risk \in RiskLevels
    BY DEF IInv, ReviewInv, LoadCatalogFails, ValidCatalogEntry
  <2> QED BY <2>3, <2>4 DEF Has
<1> QED BY <1>1, Always, PTL

\* The tools of one start never contradict each other: what the workflow
\* tools recommend, velo_validate_dfir_profile says and the write tools let
\* through follow from the same registry and policy.
THEOREM ToolsConsistent == Spec => []ToolsAgree
<1>1. IInv => ToolsAgree
  <2> SUFFICES ASSUME IInv, NEW a \in Said("use")
               PROVE
        /\ \A b \in said : \A r \in Recs(b) :
              r.name = a.in =>
                  ( Succeeded(a) <=>
                       r.allowed /\ r.allowlisted /\ r.name \in NamePattern )
        /\ Succeeded(a) =>
              /\ \A b \in Said("validate") : b.in = a.in => b.out = {TRUE}
              /\ \A b \in Said("find") : b.in \in a.out =>
                    \E r \in b.out : r.name = a.in
    BY DEF ToolsAgree
  <2>1. server # None /\ a \in said
    BY DEF IInv, SaidInv, Said
  <2>2. PICK n : a = UseGate(n)
    BY ByTool DEF IInv, SaidInv, Said
  <2>3. \A m \in Loaded : Registry[m].name = m
    BY <2>1 DEF IInv, RegistryInv
  <2>4. \A m \in Loaded :
           LET r == WorkflowRecommendation(Registry[m]) IN
           /\ r.name = m
           /\ r.allowed <=> m \in server.policy.profiles
           /\ r.allowlisted <=> ValidateProfile(Registry[m], server.policy)
    BY <2>3 DEF WorkflowRecommendation
  <2>5. ASSUME NEW b \in said, NEW r \in Recs(b), r.name = a.in
        PROVE  Succeeded(a) <=>
                  r.allowed /\ r.allowlisted /\ r.name \in NamePattern
    <3>1. PICK m \in Loaded : r = WorkflowRecommendation(Registry[m])
      BY RecsAre DEF IInv, SaidInv
    <3>2. m = n
      BY <2>2, <2>4, <2>5, <3>1, UseIs
    <3> QED BY <2>2, <2>4, <3>1, <3>2, UseIs
  <2>6. ASSUME Succeeded(a), NEW b \in Said("validate"), b.in = a.in
        PROVE  b.out = {TRUE}
    <3>1. PICK m : b = ValidateDFIRProfile(m)
      BY ByTool DEF IInv, SaidInv, Said
    <3>2. n \in NamePattern /\ n \in Loaded
          /\ ValidateProfile(Registry[n], server.policy)
      BY <2>2, <2>6, UseIs
    <3>3. b.in = m
      BY <3>1, AnswerIs DEF ValidateDFIRProfile, Blocked
    <3>4. m = n
      BY <2>2, <2>6, <3>3, UseIs
    <3> DEFINE out == {ValidateProfile(Registry[n], server.policy)}
    <3>5. b = Answer("validate", n, "success", out)
      BY <3>1, <3>2, <3>4, Zenon DEF ValidateDFIRProfile
    <3> HIDE DEF out
    <3>7. b.out = out
      BY <3>5, AnswerIs
    <3>6. ValidateProfile(Registry[n], server.policy) = TRUE
      BY <3>2, Zenon DEF ValidateProfile
    <3> QED BY <3>6, <3>7, Zenon DEF out
  <2>7. ASSUME Succeeded(a), NEW b \in Said("find"), b.in \in a.out
        PROVE  \E r \in b.out : r.name = a.in
    <3>1. PICK x : b = FindProfilesByArtifact(x)
      BY ByTool DEF IInv, SaidInv, Said
    <3>2. b.in = x /\ b.out = {WorkflowRecommendation(Registry[m]) :
                       m \in {j \in Loaded : x \in Names(Registry[j])}}
      BY <3>1, AnswerIs DEF FindProfilesByArtifact
    <3>3. n \in Loaded /\ x \in Names(Registry[n]) /\ a.in = n
      BY <2>2, <2>7, <3>2, UseIs
    <3> QED BY <2>4, <3>2, <3>3
  <2> QED BY <2>5, <2>6, <2>7
<1> QED BY <1>1, Always, PTL

-----------------------------------------------------------------------------
(* Comparing profiles *)

LEMMA NoneTwice ==
    ASSUME NEW s \in Seq(STRING),
           Len(s) = Cardinality({s[k] : k \in DOMAIN s})
    PROVE  \A i, j \in DOMAIN s : s[i] = s[j] => i = j
<1> DEFINE T == {s[k] : k \in DOMAIN s}
<1>1. DOMAIN s = 1..Len(s) /\ Len(s) \in Nat
  OBVIOUS
<1>2. IsFiniteSet(1..Len(s)) /\ Cardinality(1..Len(s)) = Len(s)
  BY <1>1, FS_Interval
<1>3. s \in Surjection(1..Len(s), T)
  <2>1. \A t : t \in T <=> \E k \in 1..Len(s) : s[k] = t
    BY <1>1
  <2>2. s \in [1..Len(s) -> STRING]
    BY LenProperties
  <2> HIDE DEF T
  <2>3. s \in [1..Len(s) -> T]
    BY <2>1, <2>2
  <2> QED BY <2>1, <2>3 DEF Surjection
<1>4. s \in Injection(1..Len(s), T)
  BY <1>2, <1>3, FS_Surjection
<1> QED BY <1>1, <1>4 DEF Injection, IsInjective

\* The profiles compared that list an artifact.
Having(ns, x) == {n \in ns : x \in Names(Registry[n])}

\* When no profile lists an artifact twice, the count is the number of the
\* profiles that list it.
LEMMA CountIs ==
    ASSUME IInv, server # None,
           NEW ns, ns \subseteq Loaded, IsFiniteSet(ns), NEW x,
           \A n \in ns : Len(Registry[n].artifacts) =
                             Cardinality(Names(Registry[n]))
    PROVE  /\ IsFiniteSet(Having(ns, x))
           /\ ArtifactCount(ns, x) = Cardinality(Having(ns, x))
<1> DEFINE arts(n) == Registry[n].artifacts
           P == UNION {{<<n, k>> : k \in {i \in DOMAIN arts(n) :
                                             arts(n)[i] = x}} : n \in ns}
           S == Having(ns, x)
           f == [n \in S |-> <<n, CHOOSE i \in DOMAIN arts(n) :
                                     arts(n)[i] = x>>]
<1>1. \A n \in ns : arts(n) \in Seq(STRING)
  BY BodyAssumption DEF IInv, RegistryInv
<1>2. \A n \in ns : \A i, j \in DOMAIN arts(n) :
         arts(n)[i] = arts(n)[j] => i = j
  BY <1>1, NoneTwice DEF Names
<1> HIDE DEF arts
<1>3. \A p : p \in P <=> \E n \in ns : \E i \in DOMAIN arts(n) :
                          arts(n)[i] = x /\ p = <<n, i>>
  OBVIOUS
<1>4. \A n \in S : n \in ns /\ \E i \in DOMAIN arts(n) : arts(n)[i] = x
  BY DEF Having, Names, arts
<1>5. \A n \in ns : (\E i \in DOMAIN arts(n) : arts(n)[i] = x) => n \in S
  BY DEF Having, Names, arts
<1>6. IsFiniteSet(S)
  BY FS_Subset DEF Having
<1> HIDE DEF S, P
<1>7. \A n \in S : \E i \in DOMAIN arts(n) : arts(n)[i] = x /\ f[n] = <<n, i>>
  BY <1>4
<1> HIDE DEF f
<1>8. DOMAIN f = S /\ f = [n \in S |-> f[n]]
  BY DEF f
<1>9. f \in [S -> P]
  <2>1. \A n \in S : f[n] \in P
    BY <1>3, <1>4, <1>7
  <2> QED BY <1>8, <2>1
<1>10. \A n, m \in S : f[n] = f[m] => n = m
  BY <1>7
<1>11. \A p \in P : \E n \in S : f[n] = p
  BY <1>2, <1>3, <1>5, <1>7
<1>12. f \in Bijection(S, P)
  BY <1>9, <1>10, <1>11 DEF Bijection, Injection, Surjection, IsInjective
<1>13. Cardinality(P) = Cardinality(S)
  BY ZenonT(60), <1>6, <1>12, FS_Bijection DEF ExistsBijection
<1> QED BY <1>6, <1>13 DEF ArtifactCount, P, S, arts

\* velo_compare_dfir_profiles answers what it says for any number of profiles
\* of any length: the counts it takes give the shared and the unique artifacts
\* of profiles that list none twice.
THEOREM ComparisonExact == Spec => []CompareExact
<1>1. IInv => CompareExact
  <2> SUFFICES ASSUME IInv, NEW a \in Said("compare"), Succeeded(a),
                      \A n \in a.in : Len(Registry[n].artifacts) =
                                         Cardinality(Names(Registry[n]))
               PROVE  /\ a.out.common = InAll(a.in)
                      /\ \A n \in a.in : a.out.unique[n] = OnlyIn(n, a.in)
    BY DEF CompareExact
  <2>1. server # None /\ IsAnswer(a) /\ a.tool = "compare"
    BY DEF IInv, SaidInv, Said
  <2>2. PICK k \in 1..3 : \E raws \in [1..k -> RawNames] :
             a = CompareDFIRProfiles(raws)
    BY <2>1, ByTool
  <2>3. PICK raws \in [1..k -> RawNames] : a = CompareDFIRProfiles(raws)
    BY <2>2
  <2> DEFINE ns == a.in
  <2>4. /\ ns \subseteq Loaded /\ IsFiniteSet(ns)
        /\ a.out.common = Common(ns)
        /\ \A n \in ns : a.out.unique[n] = Unique(ns)[n]
    BY <2>3, CompareIs
  <2> HIDE DEF ns
  <2>5. \A x : /\ IsFiniteSet(Having(ns, x))
               /\ ArtifactCount(ns, x) = Cardinality(Having(ns, x))
    BY <2>1, <2>4, CountIs DEF ns
  <2>6. \A x : ArtifactCount(ns, x) = Cardinality(ns) <=>
               \A n \in ns : x \in Names(Registry[n])
    <3>1. \A x : Having(ns, x) \in SUBSET ns
      BY DEF Having
    <3>2. \A x : Cardinality(Having(ns, x)) = Cardinality(ns) <=>
                 Having(ns, x) = ns
      BY <2>4, <3>1, FS_Subset
    <3> QED BY <2>5, <3>2 DEF Having
  <2>7. \A n \in ns : \A x \in Names(Registry[n]) :
           ArtifactCount(ns, x) = 1 <=>
               \A m \in ns \ {n} : x \notin Names(Registry[m])
    <3> SUFFICES ASSUME NEW n \in ns, NEW x \in Names(Registry[n])
                 PROVE  Cardinality(Having(ns, x)) = 1 <=>
                           \A m \in ns \ {n} : x \notin Names(Registry[m])
      BY <2>5
    <3>1. n \in Having(ns, x)
      BY DEF Having
    <3>2. Cardinality(Having(ns, x)) = 1 <=> Having(ns, x) = {n}
      BY SMTT(60), Z3T(60), <2>5, <3>1, FS_Singleton
    <3> QED BY <3>1, <3>2 DEF Having
  <2>8. Common(ns) = InAll(ns)
    BY <2>6 DEF Common, InAll
  <2>9. \A n \in ns : Unique(ns)[n] = OnlyIn(n, ns)
    BY <2>7 DEF Unique, OnlyIn
  <2> QED BY <2>4, <2>8, <2>9 DEF ns
<1> QED BY <1>1, Always, PTL
=============================================================================
