------------------------------ MODULE Startup -------------------------------
(***************************************************************************)
(* Starting the server: cmd/agentic-velociraptor-mcp's run, runServer,     *)
(* resolveProfilesDir and buildDeps, with config.Load, config.Validate,    *)
(* velociraptor.LoadAPIConfig and velociraptor.NewGRPCClient.              *)
(*                                                                         *)
(* A start reads several files one after the other, and creates two of     *)
(* them.  The operator may edit any of them between two steps of a start,  *)
(* and the process may be killed at any point, leaving what it created.    *)
(* An MCP client then starts the program again.                            *)
(*                                                                         *)
(* An API config file is the set of what is wrong with it; NewFileStore's  *)
(* lock is the subject of FileStore, and the rotation of the audit log     *)
(* that of AuditLog.                                                       *)
(***************************************************************************)
EXTENDS Integers, FiniteSets

CONSTANTS
    Configs,    \* the contents the config file may have; Unset: it cannot be
                \* read or parsed
    ApiPaths,   \* the paths of Velociraptor API config files
    ApiFiles,   \* the sets of faults an API config file may have
    Windows,    \* runtime.GOOS = "windows"
    CommandLines,  \* the argument lists of a server start
    DirStates,  \* what may be at a profile directory's path
    StoreStates,   \* what the operator may put at the store's path
    MaxEdits,   \* bound on the operator's edits
    MaxStarts,  \* bound on the starts
    Unset

\* What LoadAPIConfig refuses, and what NewGRPCClient refuses after it.
LoadFaults == {"absent", "irregular", "unreadable", "unparsable", "no_ca",
               "no_cert", "no_key", "no_target"}
                  \cup (IF Windows THEN {} ELSE {"loose"})
DialFaults == {"bad_pair", "bad_ca", "bad_target"}

Places == {"cwd", "exe", "given"}

ASSUME StartupAssumption ==
    /\ Windows \in BOOLEAN /\ Unset \notin 0..2
    /\ ApiFiles \subseteq SUBSET (LoadFaults \cup DialFaults \cup {"loose"})
    /\ CommandLines \subseteq {"garbled", "help", "version", "bare",
                               "config", "config_and_dir"}
    /\ DirStates \subseteq {"none", "bad", "good"}
    /\ StoreStates \subseteq {"absent", "empty", "ok", "loose", "unwritable"}
    /\ MaxEdits \in Nat /\ MaxStarts \in Nat
    /\ \A c \in Configs \ {Unset} :
          /\ {c.timeout, c.rows, c.result, c.upload, c.hunt, c.ttl} \subseteq Int
          /\ {c.read, c.write} \subseteq ApiPaths \cup {Unset}
          /\ {c.raw, c.audit, c.auditPath, c.store} \subseteq BOOLEAN

VARIABLES
    config,     \* the config file
    api,        \* the API config files
    dirs,       \* the profile directories' paths
    log,        \* may the audit log be opened?
    store,      \* the approval store's file
    proc,       \* the process: where it is, and what it has read and built
    exit,       \* the last exit status
    edited,     \* has a file been edited since the process started?
    edits, starts

disk == <<config, api, dirs, log, store>>
vars == <<disk, proc, exit, edited, edits, starts>>

NoDeps == [cfg |-> Unset, profiles |-> Unset, sink |-> Unset, read |-> Unset,
           write |-> Unset, approvals |-> Unset]
NoProcess == [at |-> "down", dir |-> Unset, explicit |-> FALSE, deps |-> NoDeps]

Init ==
    /\ config \in Configs
    /\ api \in [ApiPaths -> ApiFiles]
    /\ dirs \in [Places -> DirStates]
    /\ log \in BOOLEAN /\ store \in StoreStates
    /\ proc = NoProcess /\ exit = Unset
    /\ edited = FALSE /\ edits = 0 /\ starts = 0

-----------------------------------------------------------------------------
(* What the steps of a start read *)

\* config.Validate: nothing is missing, and nothing is zero that must not be.
\* A key the file leaves out is the zero value of its type.
Validate(c) ==
    /\ c.transport = "stdio"
    /\ \A n \in {c.timeout, c.rows, c.result, c.upload, c.hunt} : n > 0
    /\ c.mode \in {"read_only", "controlled"}
    /\ ~c.raw
    /\ c.audit => c.auditPath
    /\ c.store => c.ttl > 0

\* LoadAPIConfig: the file is there, private, and complete.
LoadAPIConfig(p) == api[p] \cap LoadFaults = {}

\* The rest of NewGRPCClient: the certificates and the address can be used.
\* The connection itself is made by the first RPC.
NewGRPCClient(p) == LoadAPIConfig(p) /\ api[p] \cap DialFaults = {}

IsDir(place) == dirs[place] # "none"

ResolveProfilesDir(explicit) ==
    IF explicit THEN "given"
    ELSE IF IsDir("cwd") THEN "cwd"
    ELSE IF IsDir("exe") THEN "exe"
    ELSE "cwd"

\* What happens when deps.profiles is loaded from its directory.
LoadDir(place) == dirs[place] = "good"

-----------------------------------------------------------------------------
(* The process *)

At(where) == proc.at = where

Exit(status) ==
    /\ proc' = NoProcess /\ exit' = status
    /\ UNCHANGED <<edited, edits, starts>>

\* The step succeeds: the process goes on, with one more part of its Deps.
Built(next, part, value) ==
    /\ proc' = [proc EXCEPT !.at = next, !.deps[part] = value]
    /\ UNCHANGED <<exit, edited, edits, starts>>

\* run and runServer up to buildDeps.  Only a command line with --config, and
\* nothing that asks for less, goes on.
RunServer(args) ==
    /\ At("down") /\ starts < MaxStarts
    /\ starts' = starts + 1 /\ edited' = FALSE
    /\ LET explicit == args = "config_and_dir" IN
       IF args \in {"config", "config_and_dir"}
       THEN /\ proc' = [at |-> "config", explicit |-> explicit, deps |-> NoDeps,
                        dir |-> ResolveProfilesDir(explicit)]
            /\ exit' = Unset
       ELSE /\ exit' = IF args \in {"help", "version"} THEN 0 ELSE 2
            /\ UNCHANGED proc
    /\ UNCHANGED <<disk, edits>>

\* config.Load and config.Validate
LoadConfig ==
    /\ At("config")
    /\ IF config # Unset /\ Validate(config)
       THEN Built("profiles", "cfg", config)
       ELSE Exit(1)
    /\ UNCHANGED disk

LoadProfiles ==
    /\ At("profiles")
    /\ IF LoadDir(proc.dir)
       THEN Built("audit", "profiles", proc.dir)
       ELSE Exit(1)
    /\ UNCHANGED disk

\* The audit sink: a JSONL writer, whose file is created here, or none.
OpenAudit ==
    /\ At("audit")
    /\ IF ~proc.deps.cfg.audit THEN Built("read", "sink", "nop")
       ELSE IF log THEN Built("read", "sink", "jsonl")
       ELSE Exit(1)
    /\ UNCHANGED disk

\* Mutant of Client: a client that cannot be built is replaced by the mock.
ClientOrMock(part, path, next) ==
    /\ IF path = Unset \/ ~NewGRPCClient(path) THEN Built(next, part, "mock")
       ELSE Built(next, part, "real")
    /\ UNCHANGED disk

\* One of the two clients of buildDeps: the mock where no path is configured.
Client(part, path, next) ==
    /\ IF path = Unset THEN Built(next, part, "mock")
       ELSE IF NewGRPCClient(path) THEN Built(next, part, "real")
       ELSE Exit(1)
    /\ UNCHANGED disk

ReadClient == At("read") /\ Client("read", proc.deps.cfg.read, "write")
WriteClient == At("write") /\ Client("write", proc.deps.cfg.write, "store")

\* NewFileStore: a store that is not there is created by os.WriteFile, which
\* makes the file and then fills it.
OpenStore ==
    /\ At("store")
    /\ \/ ~proc.deps.cfg.store /\ Built("serving", "approvals", "nil")
                               /\ UNCHANGED store
       \/ proc.deps.cfg.store
          /\ CASE store = "absent" ->
                     Built("fill", "approvals", Unset) /\ store' = "empty"
               [] store = "unwritable" -> Exit(1) /\ UNCHANGED store
               [] OTHER -> Built("check", "approvals", Unset) /\ UNCHANGED store
    /\ UNCHANGED <<config, api, dirs, log>>

FillStore ==
    /\ At("fill")
    /\ store' = IF store = "empty" THEN "ok" ELSE store
    /\ Built("check", "approvals", Unset)
    /\ UNCHANGED <<config, api, dirs, log>>

\* Mutant of CheckStore: an empty file is taken for a damaged one.
CheckStoreNotEmpty ==
    /\ At("check")
    /\ IF store # "ok" THEN Exit(1) ELSE Built("serving", "approvals", "store")
    /\ UNCHANGED disk

\* Under the lock: the file must be there and private; the empty file of an
\* interrupted start, or of touch, is filled.
CheckStore ==
    /\ At("check")
    /\ IF store \in {"absent", "unwritable", "loose"} /\ ~Windows
       THEN Exit(1) /\ UNCHANGED store
       ELSE /\ Built("serving", "approvals", "store")
            /\ store' = IF store = "empty" THEN "ok" ELSE store
    /\ UNCHANGED <<config, api, dirs, log>>

\* srv.Run returns: the client hung up, a signal arrived, or the transport
\* failed.
Run ==
    /\ At("serving")
    /\ Exit(0) \/ Exit(1)
    /\ UNCHANGED disk

Kill ==
    /\ ~At("down")
    /\ proc' = NoProcess /\ exit' = Unset
    /\ UNCHANGED <<disk, edited, edits, starts>>

-----------------------------------------------------------------------------
(* The operator *)

Edit ==
    /\ edits < MaxEdits
    /\ edits' = edits + 1 /\ edited' = TRUE
    /\ \/ config' \in Configs /\ UNCHANGED <<api, dirs, log, store>>
       \/ \E p \in ApiPaths, f \in ApiFiles :
             api' = [api EXCEPT ![p] = f] /\ UNCHANGED <<config, dirs, log, store>>
       \/ \E p \in Places, d \in DirStates :
             dirs' = [dirs EXCEPT ![p] = d] /\ UNCHANGED <<config, api, log, store>>
       \/ log' = ~log /\ UNCHANGED <<config, api, dirs, store>>
       \/ store' \in StoreStates /\ UNCHANGED <<config, api, dirs, log>>
    /\ UNCHANGED <<proc, exit, starts>>

BuildDeps ==
    \/ LoadConfig \/ LoadProfiles \/ OpenAudit \/ ReadClient \/ WriteClient
    \/ OpenStore \/ FillStore \/ CheckStore

Next ==
    \/ \E args \in CommandLines : RunServer(args)
    \/ BuildDeps
    \/ Run \/ Kill \/ Edit

Spec == Init /\ [][Next]_vars

-----------------------------------------------------------------------------
(* Properties *)

Starting == ~At("down") /\ ~At("serving")

\* buildDeps: "an operator who configured a real connection must be told it's
\* broken, not served a quietly-degraded mock".  Whatever is edited during the
\* start, every part of a serving process is the one the config it read asks
\* for.
DepsFollowConfig ==
    At("serving") =>
        LET d == proc.deps IN
        /\ d.sink = IF d.cfg.audit THEN "jsonl" ELSE "nop"
        /\ d.read = IF d.cfg.read = Unset THEN "mock" ELSE "real"
        /\ d.write = IF d.cfg.write = Unset THEN "mock" ELSE "real"
        /\ d.approvals = IF d.cfg.store THEN "store" ELSE "nil"

\* The installation as a whole is one a server can run on.
Sound ==
    LET place == CHOOSE p \in {"given", "cwd", "exe"} :
                    IF proc.explicit THEN p = "given"
                    ELSE IF dirs["cwd"] = "none" /\ dirs["exe"] # "none"
                         THEN p = "exe" ELSE p = "cwd"
    IN /\ config # Unset /\ Validate(config)
       /\ dirs[place] = "good"
       /\ config.audit => log
       /\ \A p \in {config.read, config.write} \ {Unset} :
             api[p] \subseteq IF Windows THEN {"loose"} ELSE {}
       /\ config.store => store \in {"absent", "empty", "ok"}
                                    \cup IF Windows THEN {"loose"} ELSE {}

\* A start that nobody edits under fails exactly when the installation is not
\* sound; in particular nothing an earlier start left behind, however it
\* ended, stands in the way of the next one.
SoundStarts ==
    [][Starting /\ ~edited =>
          /\ exit' = 1 => ~Sound
          /\ proc'.at = "serving" => Sound]_vars

=============================================================================
