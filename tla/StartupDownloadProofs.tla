----------------------- MODULE StartupDownloadProofs -----------------------
(***************************************************************************)
(* Proofs about Startup, for any configs, API config files and operating   *)
(* system, any number of starts and any edits between their steps: a       *)
(* serving process has the parts its config asks for, and a start nobody   *)
(* edits under fails exactly when the installation is not sound.           *)
(*                                                                         *)
(* Then those about Download, for any table of uploads, chunk size and     *)
(* limit: what is saved is a prefix of the upload, within the limit, and   *)
(* the truncated flag tells whether it is all of it.                       *)
(***************************************************************************)
EXTENDS Startup, Download, TLAPS

Parts == {"cfg", "profiles", "sink", "read", "write", "approvals"}

\* The steps of a start, by what they come after.
AfterConfig == {"profiles", "audit", "read", "write", "store", "fill", "check",
                "serving"}
AfterProfiles == AfterConfig \ {"profiles"}
AfterAudit == AfterProfiles \ {"audit"}
AfterRead == AfterAudit \ {"read"}
AfterWrite == AfterRead \ {"write"}

TypeOK ==
    /\ config \in Configs
    /\ api \in [ApiPaths -> ApiFiles]
    /\ log \in BOOLEAN
    /\ store \in {"absent", "empty", "ok", "loose", "unwritable"}
    /\ DOMAIN proc = {"at", "dir", "explicit", "deps"}
    /\ proc.at \in AfterConfig \cup {"down", "config"}
    /\ proc.explicit \in BOOLEAN
    /\ DOMAIN proc.deps = Parts
    /\ edited \in BOOLEAN

\* What has been built so far follows the config that was read.
BuiltInv ==
    LET d == proc.deps IN
    /\ proc.at \in AfterConfig => d.cfg \in Configs \ {Unset}
    /\ proc.at \in AfterAudit =>
          d.sink = IF d.cfg.audit THEN "jsonl" ELSE "nop"
    /\ proc.at \in AfterRead =>
          d.read = IF d.cfg.read = Unset THEN "mock" ELSE "real"
    /\ proc.at \in AfterWrite =>
          d.write = IF d.cfg.write = Unset THEN "mock" ELSE "real"
    /\ proc.at \in {"fill", "check"} => d.cfg.store
    /\ At("serving") => d.approvals = IF d.cfg.store THEN "store" ELSE "nil"

\* What has been checked so far still holds if nobody has edited a file.
SeenInv ==
    /\ Starting => exit = Unset
    /\ Starting /\ ~edited =>
          /\ proc.dir = ResolveProfilesDir(proc.explicit)
          /\ proc.at \in AfterConfig =>
                proc.deps.cfg = config /\ Validate(config)
          /\ proc.at \in AfterProfiles => LoadDir(proc.dir)
          /\ proc.at \in AfterAudit => (config.audit => log)
          /\ proc.at \in AfterRead =>
                config.read = Unset \/ NewGRPCClient(config.read)
          /\ proc.at \in AfterWrite =>
                config.write = Unset \/ NewGRPCClient(config.write)
          /\ At("fill") => store \in {"empty", "ok"}
          /\ At("check") => store \in {"empty", "ok", "loose"}

IInv == TypeOK /\ BuiltInv /\ SeenInv
-----------------------------------------------------------------------------
(* What a step does to the process *)

LEMMA BuiltIs ==
    ASSUME TypeOK, NEW next, NEW part \in Parts, NEW value,
           Built(next, part, value)
    PROVE  /\ proc'.at = next /\ proc'.dir = proc.dir
           /\ proc'.explicit = proc.explicit
           /\ DOMAIN proc' = {"at", "dir", "explicit", "deps"}
           /\ DOMAIN proc'.deps = Parts
           /\ proc'.deps[part] = value
           /\ \A q \in Parts \ {part} : proc'.deps[q] = proc.deps[q]
           /\ exit' = exit /\ edited' = edited
  BY DEF Built, TypeOK

LEMMA NoProcessIs ==
    /\ NoProcess.at = "down" /\ NoProcess.explicit = FALSE
    /\ DOMAIN NoProcess = {"at", "dir", "explicit", "deps"}
    /\ DOMAIN NoProcess.deps = Parts
  BY DEF NoProcess, NoDeps, Parts

\* The step from one place to the next, with what it has found.
Step(from, to, part) ==
    /\ proc.at = from
    /\ proc'.at = to /\ proc'.dir = proc.dir /\ proc'.explicit = proc.explicit
    /\ DOMAIN proc' = {"at", "dir", "explicit", "deps"}
    /\ DOMAIN proc'.deps = Parts
    /\ \A q \in Parts \ {part} : proc'.deps[q] = proc.deps[q]
    /\ exit' = exit /\ edited' = edited
    /\ UNCHANGED <<config, api, dirs, log>>

Ends ==
    /\ proc.at # "down" /\ proc' = NoProcess /\ edited' = edited
    /\ UNCHANGED disk

ConfigRead ==
    /\ Step("config", "profiles", "cfg") /\ proc'.deps["cfg"] = config
    /\ config # Unset /\ Validate(config) /\ store' = store

ProfilesRead ==
    /\ Step("profiles", "audit", "profiles") /\ LoadDir(proc.dir)
    /\ store' = store

AuditOpened ==
    /\ Step("audit", "read", "sink") /\ store' = store
    /\ proc.deps["cfg"].audit => log
    /\ proc'.deps["sink"] = IF proc.deps["cfg"].audit THEN "jsonl" ELSE "nop"

ReadBuilt ==
    LET path == proc.deps["cfg"].read IN
    /\ Step("read", "write", "read") /\ store' = store
    /\ path = Unset \/ NewGRPCClient(path)
    /\ proc'.deps["read"] = IF path = Unset THEN "mock" ELSE "real"

WriteBuilt ==
    LET path == proc.deps["cfg"].write IN
    /\ Step("write", "store", "write") /\ store' = store
    /\ path = Unset \/ NewGRPCClient(path)
    /\ proc'.deps["write"] = IF path = Unset THEN "mock" ELSE "real"

NoStore ==
    /\ Step("store", "serving", "approvals") /\ store' = store
    /\ ~proc.deps["cfg"].store /\ proc'.deps["approvals"] = "nil"

StoreMade ==
    /\ Step("store", "fill", "approvals") /\ store' = "empty"
    /\ proc.deps["cfg"].store /\ store = "absent"

StoreFound ==
    /\ Step("store", "check", "approvals") /\ store' = store
    /\ proc.deps["cfg"].store /\ store \notin {"absent", "unwritable"}

StoreFilled ==
    /\ Step("fill", "check", "approvals")
    /\ store' = IF store = "empty" THEN "ok" ELSE store

StoreChecked ==
    /\ Step("check", "serving", "approvals")
    /\ proc'.deps["approvals"] = "store"
    /\ store' = IF store = "empty" THEN "ok" ELSE store
    /\ store \notin {"absent", "unwritable", "loose"} \/ Windows

Goes ==
    \/ ConfigRead \/ ProfilesRead \/ AuditOpened \/ ReadBuilt \/ WriteBuilt
    \/ NoStore \/ StoreMade \/ StoreFound \/ StoreFilled \/ StoreChecked

\* A step that ends a start with status 1, and what it has found.
Fails ==
    /\ Ends
    /\ \/ At("config") /\ (config = Unset \/ ~Validate(config))
       \/ At("profiles") /\ ~LoadDir(proc.dir)
       \/ At("audit") /\ proc.deps["cfg"].audit /\ ~log
       \/ /\ At("read") /\ proc.deps["cfg"].read # Unset
          /\ ~NewGRPCClient(proc.deps["cfg"].read)
       \/ /\ At("write") /\ proc.deps["cfg"].write # Unset
          /\ ~NewGRPCClient(proc.deps["cfg"].write)
       \/ At("store") /\ proc.deps["cfg"].store /\ store = "unwritable"
       \/ /\ At("check") /\ ~Windows
          /\ store \in {"absent", "unwritable", "loose"}

LEMMA BuildMoves == ASSUME TypeOK, BuildDeps PROVE Goes \/ Fails
<1> USE DEF At
<1>1. \A part \in Parts : \A next, value : Built(next, part, value) =>
        /\ proc'.at = next /\ proc'.deps[part] = value
        /\ (UNCHANGED <<config, api, dirs, log>> => Step(proc.at, next, part))
  BY BuiltIs DEF Step
<1>2. {"cfg", "profiles", "sink", "read", "write", "approvals"} = Parts
  BY DEF Parts
<1>3. \A status : Exit(status) /\ UNCHANGED disk /\ proc.at # "down" => Ends
  BY DEF Exit, Ends
<1>4. CASE LoadConfig
  BY <1>1, <1>2, <1>3, <1>4 DEF LoadConfig, disk, Goes, ConfigRead, Fails
<1>5. CASE LoadProfiles
  BY <1>1, <1>2, <1>3, <1>5 DEF LoadProfiles, disk, Goes, ProfilesRead, Fails
<1>6. CASE OpenAudit
  BY <1>1, <1>2, <1>3, <1>6 DEF OpenAudit, disk, Goes, AuditOpened, Fails
<1>7. CASE ReadClient
  BY <1>1, <1>2, <1>3, <1>7 DEF ReadClient, Client, disk, Goes, ReadBuilt, Fails
<1>8. CASE WriteClient
  BY <1>1, <1>2, <1>3, <1>8 DEF WriteClient, Client, disk, Goes,
     WriteBuilt, Fails
<1>9. CASE OpenStore
  <2>1. CASE ~proc.deps.cfg.store
    BY <1>1, <1>2, <1>9, <2>1 DEF OpenStore, Goes, NoStore
  <2>2. CASE proc.deps.cfg.store
    BY <1>1, <1>2, <1>3, <1>9, <2>2 DEF OpenStore, disk, Goes,
       StoreMade, StoreFound, Fails
  <2> QED BY <2>1, <2>2
<1>10. CASE FillStore
  BY <1>1, <1>2, <1>10 DEF FillStore, Goes, StoreFilled
<1>11. CASE CheckStore
  BY <1>1, <1>2, <1>3, <1>11 DEF CheckStore, disk, Goes, StoreChecked, Fails
<1> QED
  BY <1>4, <1>5, <1>6, <1>7, <1>8, <1>9, <1>10, <1>11 DEF BuildDeps

\* A start begins.
Begins ==
    /\ proc.at = "down" /\ proc'.at = "config" /\ proc'.explicit \in BOOLEAN
    /\ DOMAIN proc' = {"at", "dir", "explicit", "deps"}
    /\ DOMAIN proc'.deps = Parts
    /\ proc'.dir = ResolveProfilesDir(proc'.explicit)
    /\ exit' = Unset /\ edited' = FALSE /\ UNCHANGED disk

LEMMA Moves ==
    ASSUME TypeOK, [Next]_vars
    PROVE  \/ Begins
           \/ Goes
           \/ Fails
           \/ Ends /\ (At("serving") \/ exit' = Unset)
           \/ /\ proc.at = "down" /\ proc' = proc /\ UNCHANGED disk
              /\ edited' = FALSE
           \/ Edit
           \/ UNCHANGED vars
<1>1. ASSUME NEW args \in CommandLines, RunServer(args)
      PROVE  \/ Begins
             \/ /\ proc.at = "down" /\ proc' = proc /\ UNCHANGED disk
                /\ edited' = FALSE
  <2>1. CASE args \in {"config", "config_and_dir"}
    <3> DEFINE explicit == args = "config_and_dir"
    <3>1. /\ proc' = [at |-> "config", explicit |-> explicit, deps |-> NoDeps,
                      dir |-> ResolveProfilesDir(explicit)]
          /\ exit' = Unset /\ edited' = FALSE /\ UNCHANGED disk
          /\ proc.at = "down"
      BY <1>1, <2>1 DEF RunServer, At
    <3>2. DOMAIN NoDeps = Parts
      BY DEF NoDeps, Parts
    <3>3. explicit \in BOOLEAN
      OBVIOUS
    <3> HIDE DEF explicit
    <3> QED BY <3>1, <3>2, <3>3 DEF Begins
  <2>2. CASE args \notin {"config", "config_and_dir"}
    BY <1>1, <2>2 DEF RunServer, At
  <2> QED BY ZenonT(60), <2>1, <2>2
<1>2. CASE Run
  BY <1>2 DEF Run, Exit, Ends, At
<1>3. CASE Kill
  BY <1>3 DEF Kill, Ends, At
<1> QED BY ZenonT(60), <1>1, <1>2, <1>3, BuildMoves DEF Next

LEMMA TypeStep == ASSUME TypeOK, [Next]_vars PROVE TypeOK'
<1>1. CASE Begins
  <2>1. UNCHANGED disk /\ edited' \in BOOLEAN
    BY ZenonT(60), <1>1 DEF Begins, TypeOK
  <2>2. /\ DOMAIN proc' = {"at", "dir", "explicit", "deps"}
        /\ proc'.at = "config" /\ proc'.explicit \in BOOLEAN
        /\ DOMAIN proc'.deps = Parts
    BY <1>1 DEF Begins
  <2> QED BY <2>1, <2>2 DEF TypeOK, disk
<1>2. CASE Goes
  <2>1. ASSUME NEW from, NEW to \in AfterConfig, NEW part, Step(from, to, part),
               store' \in {"absent", "empty", "ok", "loose", "unwritable"}
        PROVE  TypeOK'
    BY <2>1 DEF Step, TypeOK
  <2>2. store' \in {"absent", "empty", "ok", "loose", "unwritable"}
    BY <1>2
       DEF Goes, TypeOK, ConfigRead, ProfilesRead, AuditOpened, ReadBuilt,
       WriteBuilt, NoStore, StoreMade, StoreFound, StoreFilled, StoreChecked
  <2>3. \E from : \E to \in AfterConfig : \E part \in Parts :
           Step(from, to, part)
    BY <1>2 DEF Goes, ConfigRead, ProfilesRead, AuditOpened, ReadBuilt,
       WriteBuilt, NoStore, StoreMade, StoreFound, StoreFilled, StoreChecked,
       AfterConfig, Parts
  <2> QED BY <2>1, <2>2, <2>3
<1>3. CASE Ends
  BY ZenonT(60), <1>3, NoProcessIs DEF Ends, TypeOK, disk
<1>4. CASE proc' = proc /\ UNCHANGED disk /\ edited' = FALSE
  BY ZenonT(60), <1>4 DEF TypeOK, disk
<1>5. CASE Edit
  <2>1. config' \in Configs
    BY <1>5 DEF Edit, TypeOK
  <2>2. api' \in [ApiPaths -> ApiFiles]
    BY <1>5 DEF Edit, TypeOK
  <2>3. log' \in BOOLEAN
    BY <1>5, Zenon DEF Edit, TypeOK
  <2>4. store' \in {"absent", "empty", "ok", "loose", "unwritable"}
    BY ZenonT(60), <1>5, StartupAssumption DEF Edit, TypeOK
  <2>5. proc' = proc /\ edited' \in BOOLEAN
    BY <1>5 DEF Edit
  <2> QED BY <2>1, <2>2, <2>3, <2>4, <2>5 DEF TypeOK
<1>6. CASE UNCHANGED vars
  BY <1>6 DEF TypeOK, vars, disk
<1> QED BY ZenonT(60), <1>1, <1>2, <1>3, <1>4, <1>5, <1>6, Moves DEF Fails

LEMMA BuiltStep == ASSUME TypeOK, BuiltInv, [Next]_vars PROVE BuiltInv'
<1> USE DEF AfterConfig, AfterProfiles, AfterAudit, AfterRead, AfterWrite, At
<1>1. CASE Begins
  BY <1>1 DEF Begins, BuiltInv
<1>2. CASE Goes
  <2> USE DEF BuiltInv, Step, Parts
  <2>1. CASE ConfigRead
    BY <2>1 DEF ConfigRead, TypeOK
  <2>2. CASE ProfilesRead
    BY <2>2 DEF ProfilesRead
  <2>3. CASE AuditOpened
    BY <2>3 DEF AuditOpened
  <2>4. CASE ReadBuilt
    BY <2>4 DEF ReadBuilt
  <2>5. CASE WriteBuilt
    BY <2>5 DEF WriteBuilt
  <2>6. CASE NoStore
    BY <2>6 DEF NoStore
  <2>7. CASE StoreMade
    BY <2>7 DEF StoreMade
  <2>8. CASE StoreFound
    BY <2>8 DEF StoreFound
  <2>9. CASE StoreFilled
    BY <2>9 DEF StoreFilled
  <2>10. CASE StoreChecked
    BY <2>10 DEF StoreChecked
  <2> QED
    BY ZenonT(60), <1>2, <2>1, <2>2, <2>3, <2>4, <2>5, <2>6, <2>7, <2>8, <2>9,
       <2>10
          DEF Goes
<1>3. CASE Ends
  BY <1>3, NoProcessIs DEF Ends, BuiltInv
<1>4. CASE proc' = proc
  BY <1>4 DEF BuiltInv
<1>5. CASE Edit \/ UNCHANGED vars
  BY <1>4, <1>5 DEF Edit, vars
<1> QED BY ZenonT(60), <1>1, <1>2, <1>3, <1>4, <1>5, Moves DEF Fails

LEMMA SeenStep ==
    ASSUME TypeOK, BuiltInv, SeenInv, [Next]_vars PROVE SeenInv'
<1> USE DEF AfterConfig, AfterProfiles, AfterAudit, AfterRead, AfterWrite, At,
            Starting
<1>1. CASE Begins
  BY ZenonT(60), <1>1
     DEF Begins, SeenInv, disk, ResolveProfilesDir, IsDir
<1>2. CASE Goes
  <2>1. /\ config' = config /\ api' = api /\ dirs' = dirs /\ log' = log
        /\ exit' = exit /\ edited' = edited /\ proc'.dir = proc.dir
        /\ proc'.explicit = proc.explicit
        /\ proc.at \notin {"down", "serving"}
    BY ZenonT(60), <1>2
       DEF Goes, Step, ConfigRead, ProfilesRead, AuditOpened, ReadBuilt,
       WriteBuilt, NoStore, StoreMade, StoreFound, StoreFilled, StoreChecked
  <2> DEFINE Dir == proc.dir = ResolveProfilesDir(proc.explicit)
             Cfg == proc.deps.cfg = config /\ Validate(config)
             Prof == LoadDir(proc.dir)
             Aud == config.audit => log
             Rd == config.read = Unset \/ NewGRPCClient(config.read)
             Wr == config.write = Unset \/ NewGRPCClient(config.write)
  <2>2. /\ (Dir' <=> Dir) /\ (Prof' <=> Prof) /\ (Aud' <=> Aud)
        /\ (Rd' <=> Rd) /\ (Wr' <=> Wr)
        /\ (proc'.deps.cfg = proc.deps.cfg) => (Cfg' <=> Cfg)
    BY <2>1 DEF ResolveProfilesDir, IsDir, LoadDir, NewGRPCClient,
       LoadAPIConfig, Validate
  <2>3. Starting /\ exit = Unset /\ (Validate(config)' <=> Validate(config))
    BY SMTT(60), <2>1 DEF SeenInv, Validate
  <2>4. SUFFICES ASSUME ~edited
                 PROVE  /\ Dir'
                        /\ proc'.at \in AfterConfig => Cfg'
                        /\ proc'.at \in AfterProfiles => Prof'
                        /\ proc'.at \in AfterAudit => Aud'
                        /\ proc'.at \in AfterRead => Rd'
                        /\ proc'.at \in AfterWrite => Wr'
                        /\ proc'.at = "fill" => store' \in {"empty", "ok"}
                        /\ proc'.at = "check" =>
                              store' \in {"empty", "ok", "loose"}
    BY <2>1, <2>3 DEF SeenInv
  <2>5. /\ Dir /\ (proc.at \in AfterConfig => Cfg)
        /\ (proc.at \in AfterProfiles => Prof)
        /\ (proc.at \in AfterAudit => Aud) /\ (proc.at \in AfterRead => Rd)
        /\ (proc.at \in AfterWrite => Wr)
        /\ proc.at = "fill" => store \in {"empty", "ok"}
        /\ proc.at = "check" => store \in {"empty", "ok", "loose"}
    BY <2>3, <2>4 DEF SeenInv
  <2> HIDE DEF Dir, Prof, Aud, Rd, Wr
  <2> USE DEF Step, Parts
  <2>6. CASE ConfigRead
    <3>1. Cfg'
      BY SMTT(60), <2>1, <2>3, <2>6 DEF ConfigRead
    <3> HIDE DEF Cfg
    <3> QED BY <2>2, <2>5, <2>6, <3>1 DEF ConfigRead
  <2>7. ASSUME ~ConfigRead PROVE proc'.deps.cfg = proc.deps.cfg
    BY ZenonT(60), <1>2, <2>7
       DEF Goes, ProfilesRead, AuditOpened, ReadBuilt, WriteBuilt,
       NoStore, StoreMade, StoreFound, StoreFilled, StoreChecked
  <2>8. ASSUME ~ConfigRead PROVE Cfg' <=> Cfg
    BY <2>2, <2>7, <2>8
  <2>9. proc.at \in AfterConfig => proc.deps.cfg = config
    BY <2>5
  <2> HIDE DEF Cfg
  <2>10. CASE ProfilesRead /\ ~ConfigRead
    <3>1. Prof
      BY <2>10 DEF ProfilesRead, Prof
    <3> QED BY <2>2, <2>5, <2>8, <2>10, <3>1 DEF ProfilesRead
  <2>11. CASE AuditOpened /\ ~ConfigRead
    <3>1. Aud
      BY SMTT(60), <2>9, <2>11 DEF AuditOpened, Aud
    <3> QED BY <2>2, <2>5, <2>8, <2>11, <3>1 DEF AuditOpened
  <2>12. CASE ReadBuilt /\ ~ConfigRead
    <3>1. Rd
      BY <2>9, <2>12 DEF ReadBuilt, Rd
    <3> QED BY <2>2, <2>5, <2>8, <2>12, <3>1 DEF ReadBuilt
  <2>13. CASE WriteBuilt /\ ~ConfigRead
    <3>1. Wr
      BY <2>9, <2>13 DEF WriteBuilt, Wr
    <3> QED BY <2>2, <2>5, <2>8, <2>13, <3>1 DEF WriteBuilt
  <2>14. CASE NoStore /\ ~ConfigRead
    BY <2>2, <2>5, <2>8, <2>14 DEF NoStore
  <2>15. CASE StoreMade /\ ~ConfigRead
    BY <2>2, <2>5, <2>8, <2>15 DEF StoreMade
  <2>16. CASE StoreFound /\ ~ConfigRead
    BY <2>2, <2>5, <2>8, <2>16 DEF StoreFound, TypeOK
  <2>17. CASE StoreFilled /\ ~ConfigRead
    BY <2>2, <2>5, <2>8, <2>17 DEF StoreFilled
  <2>18. CASE StoreChecked /\ ~ConfigRead
    BY ZenonT(60), <2>2, <2>5, <2>8, <2>18 DEF StoreChecked
  <2> QED
    BY ZenonT(60), <1>2, <2>6, <2>10, <2>11, <2>12, <2>13, <2>14,
       <2>15, <2>16,
             <2>17, <2>18 DEF Goes
<1>3. CASE Ends
  BY ZenonT(60), <1>3, NoProcessIs DEF Ends, SeenInv
<1>4. CASE proc.at = "down" /\ proc' = proc
  BY ZenonT(60), <1>4 DEF SeenInv
<1>5. CASE Edit
  BY ZenonT(60), <1>5 DEF Edit, SeenInv
<1>6. CASE UNCHANGED vars
  BY <1>6 DEF SeenInv, vars, disk, ResolveProfilesDir, IsDir, LoadDir,
     NewGRPCClient, LoadAPIConfig, Validate
<1> QED BY ZenonT(60), <1>1, <1>2, <1>3, <1>4, <1>5, <1>6, Moves DEF Fails

-----------------------------------------------------------------------------
(* When an installation is sound *)

\* A client can be built exactly when its API config file has no fault but,
\* on Windows, loose permissions.
LEMMA ClientBuilt ==
    ASSUME TypeOK, NEW p \in ApiPaths
    PROVE  NewGRPCClient(p) <=>
              api[p] \subseteq IF Windows THEN {"loose"} ELSE {}
<1>1. api[p] \subseteq LoadFaults \cup DialFaults \cup {"loose"}
  BY StartupAssumption DEF TypeOK
<1>2. Windows \in BOOLEAN
  BY StartupAssumption
<1> QED BY <1>1, <1>2 DEF NewGRPCClient, LoadAPIConfig, LoadFaults, DialFaults

LEMMA PathsTyped ==
    ASSUME TypeOK, config # Unset
    PROVE  {config.read, config.write} \subseteq ApiPaths \cup {Unset}
  BY StartupAssumption DEF TypeOK

\* Sound, in the words of the steps that check it.
LEMMA SoundIs ==
    ASSUME TypeOK
    PROVE  Sound <=>
             /\ config # Unset /\ Validate(config)
             /\ LoadDir(ResolveProfilesDir(proc.explicit))
             /\ config.audit => log
             /\ config.read = Unset \/ NewGRPCClient(config.read)
             /\ config.write = Unset \/ NewGRPCClient(config.write)
             /\ config.store => store \in {"absent", "empty", "ok"}
                                          \cup IF Windows THEN {"loose"} ELSE {}
<1> DEFINE here == ResolveProfilesDir(proc.explicit)
           Clients == \A p \in {config.read, config.write} \ {Unset} :
                         api[p] \subseteq IF Windows THEN {"loose"} ELSE {}
<1>1. (CHOOSE p \in {"given", "cwd", "exe"} :
          IF proc.explicit THEN p = "given"
          ELSE IF dirs["cwd"] = "none" /\ dirs["exe"] # "none"
               THEN p = "exe" ELSE p = "cwd") = here
  <2>1. here \in {"given", "cwd", "exe"}
    BY DEF ResolveProfilesDir
  <2>2. \A p : (IF proc.explicit THEN p = "given"
                ELSE IF dirs["cwd"] = "none" /\ dirs["exe"] # "none"
                     THEN p = "exe" ELSE p = "cwd") <=> p = here
    BY DEF ResolveProfilesDir, IsDir, TypeOK
  <2> HIDE DEF here
  <2> QED BY <2>1, <2>2
<1>2. ASSUME config # Unset
      PROVE  Clients <=> /\ config.read = Unset \/ NewGRPCClient(config.read)
                         /\ config.write = Unset \/ NewGRPCClient(config.write)
  <2>1. \A p \in ApiPaths : NewGRPCClient(p) <=>
             api[p] \subseteq IF Windows THEN {"loose"} ELSE {}
    BY ClientBuilt
  <2>2. /\ config.read = Unset \/ config.read \in ApiPaths
        /\ config.write = Unset \/ config.write \in ApiPaths
    BY <1>2, PathsTyped
  <2>3. Clients <=>
           /\ config.read # Unset =>
                 api[config.read] \subseteq IF Windows THEN {"loose"} ELSE {}
           /\ config.write # Unset =>
                 api[config.write] \subseteq IF Windows THEN {"loose"} ELSE {}
    OBVIOUS
  <2> HIDE DEF Clients
  <2> QED BY <2>1, <2>2, <2>3
<1> HIDE DEF here
<1>3. Sound <=> /\ config # Unset /\ Validate(config)
                /\ LoadDir(here)
                /\ config.audit => log
                /\ Clients
                /\ config.store => store \in {"absent", "empty", "ok"}
                                          \cup IF Windows THEN {"loose"} ELSE {}
  BY <1>1 DEF Sound, LoadDir
<1> HIDE DEF Clients
<1> QED BY <1>2, <1>3 DEF here

\* A step that fails has found what is not sound.
LEMMA FailsUnsound ==
    ASSUME IInv, Starting, ~edited, Fails
    PROVE  ~Sound
<1> USE DEF AfterConfig, AfterProfiles, AfterAudit, AfterRead, AfterWrite, At
<1>1. /\ proc.dir = ResolveProfilesDir(proc.explicit)
      /\ proc.at # "config" => proc.deps.cfg = config
      /\ proc.at = "check" => /\ store \in {"empty", "ok", "loose"}
                              /\ config.store
  BY DEF IInv, SeenInv, BuiltInv, TypeOK, Starting
<1>2. config # Unset => config.store \in BOOLEAN
  BY StartupAssumption DEF IInv, TypeOK
<1> QED BY ZenonT(60), <1>1, <1>2, SoundIs DEF Fails, IInv

\* The step that starts to serve comes after every check.
LEMMA ServesSound ==
    ASSUME IInv, Starting, ~edited, Goes, proc'.at = "serving"
    PROVE  Sound
<1>1. \/ NoStore \/ StoreChecked
  <2>1. ASSUME NEW from, NEW to, NEW part, Step(from, to, part)
        PROVE  to = "serving"
    BY <2>1 DEF Step
  <2>2. ~ConfigRead /\ ~ProfilesRead
    BY <2>1 DEF ConfigRead, ProfilesRead
  <2>3. ~AuditOpened /\ ~ReadBuilt
    BY <2>1 DEF AuditOpened, ReadBuilt
  <2>4. ~WriteBuilt /\ ~StoreMade
    BY <2>1 DEF WriteBuilt, StoreMade
  <2>5. ~StoreFound /\ ~StoreFilled
    BY <2>1 DEF StoreFound, StoreFilled
  <2> QED BY <2>2, <2>3, <2>4, <2>5 DEF Goes
<1> USE DEF AfterConfig, AfterProfiles, AfterAudit, AfterRead, AfterWrite, At
<1>2. proc.at \in {"store", "check"}
  BY <1>1 DEF NoStore, StoreChecked, Step
<1>3. /\ proc.dir = ResolveProfilesDir(proc.explicit)
      /\ proc.deps.cfg = config /\ Validate(config)
      /\ LoadDir(proc.dir) /\ (config.audit => log)
      /\ config.read = Unset \/ NewGRPCClient(config.read)
      /\ config.write = Unset \/ NewGRPCClient(config.write)
      /\ proc.at = "check" => store \in {"empty", "ok", "loose"}
  BY <1>2 DEF IInv, SeenInv
<1>4. config # Unset
  BY <1>2, <1>3 DEF IInv, BuiltInv
<1>5. config.store => store \in {"absent", "empty", "ok"}
                                 \cup IF Windows THEN {"loose"} ELSE {}
  BY <1>1, <1>3 DEF NoStore, StoreChecked, Step
<1> QED BY <1>3, <1>4, <1>5, SoundIs DEF IInv

-----------------------------------------------------------------------------
(* The results *)

LEMMA InitInv == Init => IInv
<1> SUFFICES ASSUME Init PROVE IInv
  OBVIOUS
<1>1. TypeOK
  BY ZenonT(60), NoProcessIs, StartupAssumption DEF Init, TypeOK
<1>2. BuiltInv /\ SeenInv
  BY NoProcessIs DEF Init, BuiltInv, SeenInv, Starting, At, AfterConfig,
     AfterProfiles, AfterAudit, AfterRead, AfterWrite
<1> QED BY <1>1, <1>2 DEF IInv

LEMMA StepInv == IInv /\ [Next]_vars => IInv'
  BY TypeStep, BuiltStep, SeenStep DEF IInv

LEMMA Always == Spec => []IInv
  BY InitInv, StepInv, PTL DEF Spec

\* Whatever the operator edits while the server starts, and whatever earlier
\* starts left behind, every part of a serving process is the one the config
\* it read asks for: buildDeps never puts the mock in a broken client's place.
THEOREM PartsAsConfigured == Spec => []DepsFollowConfig
<1>1. IInv => DepsFollowConfig
  BY DEF IInv, BuiltInv, DepsFollowConfig, At, AfterAudit, AfterRead,
     AfterWrite, AfterProfiles, AfterConfig
<1> QED BY <1>1, Always, PTL

\* A start nobody edits under exits with status 1 only from an installation
\* that is not sound, and serves only on one that is, however the starts
\* before it ended.
THEOREM StartsWhenSound == Spec => SoundStarts
<1> DEFINE Verdict == Starting /\ ~edited =>
                      /\ exit' = 1 => ~Sound
                      /\ proc'.at = "serving" => Sound
<1>1. IInv /\ [Next]_vars => Verdict
  <2> SUFFICES ASSUME IInv, [Next]_vars, Starting, ~edited
               PROVE  /\ exit' = 1 => ~Sound
                      /\ proc'.at = "serving" => Sound
    OBVIOUS
  <2>1. exit = Unset /\ Unset # 1
    BY StartupAssumption DEF IInv, SeenInv
  <2>2. CASE Goes
    <3>1. exit' = exit
      BY ZenonT(60), <2>2
         DEF Goes, Step, ConfigRead, ProfilesRead, AuditOpened, ReadBuilt,
         WriteBuilt, NoStore, StoreMade, StoreFound, StoreFilled, StoreChecked
    <3> QED BY ZenonT(60), <2>1, <2>2, <3>1, ServesSound
  <2>3. CASE Fails
    <3>1. proc'.at = "down"
      BY ZenonT(60), <2>3, NoProcessIs DEF Fails, Ends
    <3> QED BY SMTT(60), <2>3, <3>1, FailsUnsound
  <2>4. CASE Ends /\ (At("serving") \/ exit' = Unset)
    BY <2>1, <2>4, NoProcessIs DEF Ends, Starting
  <2>5. CASE Edit \/ UNCHANGED vars
    BY <2>1, <2>5 DEF Edit, vars, Starting, At
  <2> QED
    BY ZenonT(60), <2>2, <2>3, <2>4, <2>5, Moves DEF IInv, Begins, Starting, At
<1>2. IInv /\ [Next]_vars => [Verdict]_vars
  BY <1>1
<1> QED BY <1>2, Always, PTL DEF Spec, SoundStarts

-----------------------------------------------------------------------------
(* The download of an upload. *)

(* The bytes read fit the request and the file. *)
InFile == Len(buf) <= ToRead /\ Len(buf) <= table[row].stored

(* The loop has ended: at the size asked for or at the end of the file. *)
ReadOut == Len(buf) = ToRead \/ Len(buf) = table[row].stored

(* What each stage knows. *)
DownloadStageInv ==
  /\ step = "lookup" => row = None /\ buf = << >> /\ reply = None
  /\ step = "read" => row # None /\ reply = None /\ Len(buf) < ToRead
  /\ step = "save" => row # None /\ reply = None /\ ReadOut
  /\ row # None => InFile
  /\ row = None => buf = << >>

(* A successful answer reports what was read when the loop had ended. *)
AnswerInv ==
  (reply # None /\ reply.status = "success") =>
     /\ row # None
     /\ ReadOut
     /\ reply.size = Len(buf)
     /\ reply.truncated <=> Len(buf) >= MaxUploadBytes

DownloadInv ==
  /\ DownloadTypeOK
  /\ table \in Tables
  /\ PrefixOfUpload
  /\ offset = Len(buf)
  /\ DownloadStageInv
  /\ AnswerInv

-----------------------------------------------------------------------------
(* The rows of a table are uploads. *)
LEMMA RowType ==
  ASSUME NEW t \in Seq(Upload), NEW r \in 1..Len(t)
  PROVE  t[r].stored \in Nat /\ t[r].declared \in Nat
<1>1. t[r] \in Upload
  OBVIOUS
<1>2. QED
  BY <1>1 DEF Upload

(* The size asked for is a positive number within the limit. *)
LEMMA ToReadType ==
  ASSUME DownloadTypeOK, row # None
  PROVE  /\ ToRead \in Nat \ {0}
         /\ ToRead <= MaxUploadBytes
         /\ row \in 1..Len(table)
         /\ table[row].stored \in Nat
         /\ table[row].declared \in Nat
<1>1. row \in 1..Len(table) /\ table \in Seq(Upload)
  BY ZenonT(60) DEF DownloadTypeOK
<1>2. table[row].stored \in Nat /\ table[row].declared \in Nat
  BY <1>1, RowType
<1>3. QED
  BY <1>1, <1>2, BoundsAssumption DEF ToRead

(* A function on 1..n is a sequence of length n. *)
LEMMA SeqOfLength ==
  ASSUME NEW T, NEW n \in Nat, NEW f \in [1..n -> T]
  PROVE  f \in Seq(T) /\ Len(f) = n
OBVIOUS

(* A chunk is a run of bytes of the target upload that starts at the offset *)
(* and is no longer than what was asked for and what is stored.             *)
LEMMA ChunkIsNext ==
  ASSUME DownloadTypeOK, row # None, offset = Len(buf), Len(buf) < ToRead,
         Len(buf) <= table[row].stored
  PROVE  /\ ServedLength \in Nat
         /\ Chunk \in Seq(Bytes)
         /\ Len(Chunk) = ServedLength
         /\ \A i \in 1..Len(Chunk) : Chunk[i] = <<row, offset + i>>
         /\ RequestLength \in Nat \ {0}
         /\ Len(buf) + RequestLength <= ToRead
         /\ ServedLength <= RequestLength
         /\ Len(buf) + ServedLength <= table[row].stored
         /\ ServedLength < RequestLength
              => Len(buf) + ServedLength = table[row].stored
<1>1. /\ ToRead \in Nat \ {0}
      /\ row \in Nat
      /\ table[row].stored \in Nat
      /\ Len(buf) \in Nat
      /\ offset \in Nat
  BY ToReadType DEF DownloadTypeOK
<1>2. /\ RequestLength \in Nat \ {0}
      /\ Len(buf) + RequestLength <= ToRead
  BY <1>1, BoundsAssumption DEF RequestLength, Remaining
<1>3. /\ ServedLength \in Nat
      /\ ServedLength <= RequestLength
      /\ Len(buf) + ServedLength <= table[row].stored
      /\ ServedLength < RequestLength
           => Len(buf) + ServedLength = table[row].stored
  <2>1. CASE table[row].stored - offset <= 0
    <3>1. ServedLength = 0
      BY <2>1 DEF ServedLength
    <3>2. QED
      BY <1>1, <1>2, <2>1, <3>1
  <2>2. CASE ~(table[row].stored - offset <= 0)
    <3>1. ServedLength = IF RequestLength < table[row].stored - offset
                         THEN RequestLength ELSE table[row].stored - offset
      BY <2>2 DEF ServedLength, MinOf
    <3>2. QED
      BY SMTT(60), <1>1, <1>2, <2>2, <3>1
  <2>3. QED
    BY <2>1, <2>2
<1>4. \A i \in 1..ServedLength : <<row, offset + i>> \in Bytes
  BY <1>1, <1>3 DEF Bytes
<1>5. /\ Chunk \in Seq(Bytes)
      /\ Len(Chunk) = ServedLength
      /\ \A i \in 1..Len(Chunk) : Chunk[i] = <<row, offset + i>>
  <2>1. Chunk = [i \in 1..ServedLength |-> <<row, offset + i>>]
    BY DEF Chunk
  <2>2. Chunk \in [1..ServedLength -> Bytes]
    BY <1>4, <2>1
  <2>3. Chunk \in Seq(Bytes) /\ Len(Chunk) = ServedLength
    BY <1>3, <2>2, SeqOfLength
  <2>4. \A i \in 1..Len(Chunk) : Chunk[i] = <<row, offset + i>>
    BY ZenonT(60), <2>1, <2>3
  <2>5. QED
    BY <2>3, <2>4
<1>6. QED
  BY ZenonT(60), <1>2, <1>3, <1>5

(* Appending the next run of bytes to a prefix gives a prefix. *)
LEMMA AppendNext ==
  ASSUME NEW t, NEW b \in Seq(Bytes), NEW d \in Seq(Bytes),
         \A i \in 1..Len(b) : b[i] = <<t, i>>,
         \A i \in 1..Len(d) : d[i] = <<t, Len(b) + i>>
  PROVE  /\ b \o d \in Seq(Bytes)
         /\ Len(b \o d) = Len(b) + Len(d)
         /\ \A i \in 1..Len(b \o d) : (b \o d)[i] = <<t, i>>
<1>1. b \o d \in Seq(Bytes) /\ Len(b \o d) = Len(b) + Len(d)
  OBVIOUS
<1>2. ASSUME NEW i \in 1..Len(b \o d)
      PROVE  (b \o d)[i] = <<t, i>>
  <2>1. CASE i <= Len(b)
    BY <1>1, <2>1
  <2>2. CASE i > Len(b)
    <3>1. i - Len(b) \in 1..Len(d) /\ Len(b) + (i - Len(b)) = i
      BY <1>1, <2>2
    <3>2. (b \o d)[i] = d[i - Len(b)]
      BY <1>1, <2>2, <3>1
    <3>3. QED
      BY <3>1, <3>2
  <2>3. QED
    BY <1>1, <2>1, <2>2
<1>3. QED
  BY <1>1, <1>2

-----------------------------------------------------------------------------
(* A failing step keeps what was read and answers without success. *)
LEMMA FailKeeps ==
  ASSUME DownloadInv, NEW s \in {"not_found", "error"}, Fail(s),
         UNCHANGED row
  PROVE  DownloadInv'
<1>1. DownloadTypeOK'
  BY SMTT(60) DEF DownloadInv, DownloadTypeOK, Fail, Stages, ReplyStatuses
<1>2. (table \in Tables)' /\ PrefixOfUpload' /\ (offset = Len(buf))'
  BY ZenonT(60) DEF DownloadInv, Fail, PrefixOfUpload
<1>3. DownloadStageInv'
  BY DEF DownloadInv, Fail, DownloadStageInv, InFile, ToRead
<1>4. AnswerInv'
  BY DEF Fail, AnswerInv
<1>5. QED
  BY SMTT(60), <1>1, <1>2, <1>3, <1>4 DEF DownloadInv

(* The look-up leaves a row of the table and nothing read. *)
LEMMA LookupKeeps ==
  ASSUME DownloadInv, LookupFinds
  PROVE  DownloadInv'
<1>1. PICK r \in Matches : row' = r
  BY DEF LookupFinds
<1>2. r \in 1..Len(table) /\ r \in Nat /\ r # None
  BY SMTT(60), <1>1, NoneAssumption
     DEF Matches, FetchedRows, DownloadInv, DownloadTypeOK
<1>3. DownloadTypeOK'
  BY <1>1, <1>2 DEF DownloadInv, DownloadTypeOK, LookupFinds, Stages
<1>4. /\ (table \in Tables)' /\ (offset = Len(buf))'
      /\ buf = << >> /\ buf' = << >>
  BY DEF DownloadInv, LookupFinds, DownloadStageInv
<1>5. PrefixOfUpload'
  BY SMTT(60), <1>4 DEF PrefixOfUpload
<1>6. table[r].stored \in Nat /\ table[r].declared \in Nat
  BY SMTT(60), <1>2, RowType DEF DownloadInv, DownloadTypeOK
<1>7. DownloadStageInv'
  <2>1. (ToRead > 0 /\ 0 <= ToRead /\ 0 <= table[row].stored)'
    BY SMTT(60), Z3T(60), <1>1, <1>6, BoundsAssumption DEF LookupFinds, ToRead
  <2>2. Len(buf)' = 0
    BY <1>4
  <2>3. step' = "read" /\ row' # None /\ reply' = None
    BY <1>1, <1>2 DEF DownloadInv, LookupFinds, DownloadStageInv
  <2>4. QED
    BY ZenonT(60), <2>1, <2>2, <2>3 DEF DownloadStageInv, InFile
<1>8. AnswerInv'
  BY DEF DownloadInv, LookupFinds, DownloadStageInv, AnswerInv
<1>9. QED
  BY <1>3, <1>4, <1>5, <1>7, <1>8 DEF DownloadInv

(* A chunk extends the prefix, within the request and the file. *)
LEMMA ReadKeeps ==
  ASSUME DownloadInv, VFSGetBuffer
  PROVE  DownloadInv'
<1>1. /\ DownloadTypeOK /\ row # None /\ reply = None /\ offset = Len(buf)
      /\ Len(buf) < ToRead /\ Len(buf) <= table[row].stored
      /\ Len(buf) \in Nat
  BY DEF DownloadInv, DownloadTypeOK, VFSGetBuffer, DownloadStageInv, InFile
<1>2. /\ ToRead \in Nat \ {0}
      /\ table[row].stored \in Nat
  BY <1>1, ToReadType
<1>3. /\ Chunk \in Seq(Bytes)
      /\ Len(Chunk) = ServedLength
      /\ \A i \in 1..Len(Chunk) : Chunk[i] = <<row, Len(buf) + i>>
      /\ RequestLength \in Nat \ {0}
      /\ ServedLength \in Nat
      /\ Len(buf) + RequestLength <= ToRead
      /\ ServedLength <= RequestLength
      /\ Len(buf) + ServedLength <= table[row].stored
      /\ ServedLength < RequestLength
           => Len(buf) + ServedLength = table[row].stored
  BY ZenonT(60), <1>1, ChunkIsNext
<1>4. /\ buf' = buf \o Chunk
      /\ offset' = offset + Len(Chunk)
      /\ step' = IF EndsRead(Chunk, RequestLength) THEN "save" ELSE "read"
      /\ UNCHANGED <<table, wanted, row, reply>>
  BY DEF VFSGetBuffer, ReadOn
<1>5. \A i \in 1..Len(buf) : buf[i] = <<row, i>>
  BY DEF DownloadInv, PrefixOfUpload
<1>6. buf \in Seq(Bytes)
  BY ZenonT(60), <1>1 DEF DownloadTypeOK
<1>7. /\ buf' \in Seq(Bytes)
      /\ Len(buf') = Len(buf) + ServedLength
      /\ \A i \in 1..Len(buf') : buf'[i] = <<row, i>>
  <2>1. /\ buf \o Chunk \in Seq(Bytes)
        /\ Len(buf \o Chunk) = Len(buf) + Len(Chunk)
        /\ \A i \in 1..Len(buf \o Chunk) : (buf \o Chunk)[i] = <<row, i>>
    <3>1. /\ Chunk \in Seq(Bytes)
          /\ \A i \in 1..Len(Chunk) : Chunk[i] = <<row, Len(buf) + i>>
      BY <1>3
    <3>2. QED
      BY <3>1, <1>5, <1>6, AppendNext, ZenonT(60)
  <2>2. QED
    BY ZenonT(60), <2>1, <1>3, <1>4
<1>8. DownloadTypeOK'
  <2>1. offset' \in Nat /\ step' \in Stages
    BY <1>1, <1>3, <1>4 DEF Stages
  <2>2. QED
    BY SMTT(60), <1>1, <1>4, <1>7, <2>1 DEF DownloadTypeOK
<1>9. PrefixOfUpload' /\ (table \in Tables)' /\ (offset = Len(buf))'
  BY SMTT(60), <1>1, <1>3, <1>4, <1>7 DEF PrefixOfUpload, DownloadInv
<1>10. ToRead' = ToRead /\ (table[row].stored)' = table[row].stored
  BY <1>4 DEF ToRead
<1>11. InFile'
  BY SMTT(60), <1>1, <1>2, <1>3, <1>7, <1>10 DEF InFile
<1>12. step' = "read" => (Len(buf) < ToRead)'
  BY SMTT(60), <1>1, <1>2, <1>3, <1>4, <1>7, <1>10 DEF EndsRead
<1>13. step' = "save" => ReadOut'
  BY <1>1, <1>2, <1>3, <1>4, <1>7, <1>10 DEF EndsRead, ReadOut
<1>14. DownloadStageInv'
  BY <1>1, <1>4, <1>11, <1>12, <1>13 DEF DownloadStageInv
<1>15. AnswerInv'
  BY <1>1, <1>4 DEF AnswerInv
<1>16. QED
  BY SMTT(60), <1>8, <1>9, <1>14, <1>15 DEF DownloadInv

(* Saving answers with what was read. *)
LEMMA SaveKeeps ==
  ASSUME DownloadInv, Save
  PROVE  DownloadInv'
<1>1. Len(buf) \in Nat /\ row # None /\ ReadOut
  BY DEF DownloadInv, DownloadTypeOK, Save, DownloadStageInv
<1>2. Truncated \in BOOLEAN /\ (Truncated <=> Len(buf) >= MaxUploadBytes)
  BY SMTT(60), Z3T(60), BoundsAssumption DEF Truncated
<1>3. DownloadTypeOK'
  BY ZenonT(60), <1>1, <1>2
     DEF DownloadInv, DownloadTypeOK, Save, Stages, ReplyStatuses
<1>4. (table \in Tables)' /\ PrefixOfUpload' /\ (offset = Len(buf))'
  BY ZenonT(60) DEF DownloadInv, Save, PrefixOfUpload
<1>5. ReadOut' /\ (InFile <=> InFile')
  BY <1>1 DEF Save, ReadOut, InFile, ToRead
<1>6. DownloadStageInv'
  BY ZenonT(60), <1>1, <1>5 DEF DownloadInv, Save, DownloadStageInv
<1>7. AnswerInv'
  BY <1>1, <1>2, <1>5 DEF Save, AnswerInv
<1>8. QED
  BY ZenonT(60), <1>3, <1>4, <1>6, <1>7 DEF DownloadInv

(* The invariant is inductive. *)
LEMMA Inductive ==
  ASSUME DownloadInv, [DownloadNext]_downloadVars
  PROVE  DownloadInv'
<1>1. CASE \/ LookupFails \/ LookupMisses \/ LookupHasNoLocation
           \/ VFSGetBufferFails \/ SaveFails
  <2>1. PICK s \in {"not_found", "error"} : Fail(s) /\ UNCHANGED row
    BY SMTT(60), <1>1 DEF LookupFails, LookupMisses, LookupHasNoLocation,
       VFSGetBufferFails, SaveFails
  <2>2. QED
    BY SMTT(60), <2>1, FailKeeps
<1>2. CASE LookupFinds
  BY <1>2, LookupKeeps
<1>3. CASE VFSGetBuffer
  BY SMTT(60), Z3T(60), <1>3, ReadKeeps
<1>4. CASE Save
  BY <1>4, SaveKeeps
<1>5. CASE UNCHANGED downloadVars
  BY <1>5
     DEF downloadVars, DownloadInv, DownloadTypeOK, PrefixOfUpload,
         DownloadStageInv, InFile, ReadOut,
              ToRead, AnswerInv
<1>6. QED
  BY <1>1, <1>2, <1>3, <1>4, <1>5 DEF DownloadNext, Answered

(* The invariant of the download. *)
LEMMA DownloadInvariance == DownloadSpec => []DownloadInv
<1>1. DownloadInit => DownloadInv
  <2>1. SUFFICES ASSUME DownloadInit PROVE DownloadInv
    OBVIOUS
  <2>2. DownloadTypeOK
    BY <2>1, TablesAssumption DEF DownloadInit, DownloadTypeOK, Stages, Bytes
  <2>3. QED
    BY <2>1, <2>2
       DEF DownloadInit, DownloadInv, PrefixOfUpload, DownloadStageInv,
           AnswerInv
<1>2. DownloadInv /\ [DownloadNext]_downloadVars => DownloadInv'
  BY Inductive
<1>3. QED
  BY <1>1, <1>2, PTL DEF DownloadSpec

-----------------------------------------------------------------------------
(***************************************************************************)
(* DownloadFlowUpload reads a contiguous prefix of the upload it looked    *)
(* up, whatever the chunk size and wherever the upload ends.               *)
(***************************************************************************)
THEOREM DownloadIsPrefix == DownloadSpec => []PrefixOfUpload
<1>1. DownloadInv => PrefixOfUpload
  BY DEF DownloadInv
<1>2. QED
  BY <1>1, DownloadInvariance, PTL

(***************************************************************************)
(* No download ever holds more than max_upload_bytes.                      *)
(***************************************************************************)
THEOREM DownloadWithinLimit == DownloadSpec => []WithinUploadLimit
<1>1. DownloadInv => WithinUploadLimit
  <2>1. SUFFICES ASSUME DownloadInv PROVE Len(buf) <= MaxUploadBytes
    BY DEF WithinUploadLimit
  <2>2. CASE row = None
    BY SMTT(60), Z3T(60), <2>1, <2>2, BoundsAssumption
       DEF DownloadInv, DownloadStageInv
  <2>3. CASE row # None
    BY <2>1, <2>3, ToReadType, BoundsAssumption
       DEF DownloadInv, DownloadStageInv, InFile, DownloadTypeOK
  <2>4. QED
    BY <2>2, <2>3
<1>2. QED
  BY <1>1, DownloadInvariance, PTL

(***************************************************************************)
(* When every declared size is absent or covers what is stored, a          *)
(* successful download that does not say truncated is the whole upload,    *)
(* and one that does is of an upload at least as long as the limit.        *)
(***************************************************************************)
THEOREM DownloadFlagHonest ==
  ASSUME DeclaredCoversStored
  PROVE  DownloadSpec => []TruncatedFlagHonest
<1>1. DownloadInv => TruncatedFlagHonest
  <2>1. SUFFICES ASSUME DownloadInv, reply # None, reply.status = "success"
                 PROVE  /\ ~reply.truncated =>
                               reply.size = table[row].stored
                        /\ reply.truncated =>
                            table[row].stored >= MaxUploadBytes
    BY DEF TruncatedFlagHonest
  <2>2. /\ row # None /\ ReadOut /\ InFile
        /\ reply.size = Len(buf)
        /\ reply.truncated <=> Len(buf) >= MaxUploadBytes
        /\ Len(buf) \in Nat
    BY <2>1 DEF DownloadInv, AnswerInv, DownloadStageInv, DownloadTypeOK
  <2>3. /\ ToRead \in Nat /\ ToRead <= MaxUploadBytes
        /\ row \in 1..Len(table)
        /\ table[row].stored \in Nat
        /\ table[row].declared \in Nat
    BY <2>1, <2>2, ToReadType DEF DownloadInv
  <2>4. \/ table[row].declared = 0
        \/ table[row].declared >= table[row].stored
    BY ZenonT(60), <2>1, <2>3 DEF DeclaredCoversStored, DownloadInv
  <2>5. Len(buf) < MaxUploadBytes => Len(buf) = table[row].stored
    BY <2>2, <2>3, <2>4, BoundsAssumption DEF ReadOut, InFile, ToRead
  <2>6. Len(buf) >= MaxUploadBytes => table[row].stored >= MaxUploadBytes
    BY <2>2, <2>3, BoundsAssumption DEF InFile
  <2>7. Len(buf) \in Nat /\ MaxUploadBytes \in Nat
    BY <2>2, BoundsAssumption
  <2>8. Len(buf) < MaxUploadBytes \/ Len(buf) >= MaxUploadBytes
    BY <2>7
  <2>9. QED
    BY <2>2, <2>5, <2>6, <2>8
<1>2. QED
  BY <1>1, DownloadInvariance, PTL

=============================================================================
