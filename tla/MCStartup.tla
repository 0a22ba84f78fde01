----------------------------- MODULE MCStartup ------------------------------
(* The instance of Startup that TLC checks. *)
EXTENDS Startup

CONSTANTS R, W

Good == [transport |-> "stdio", timeout |-> 1, rows |-> 1, result |-> 1,
         upload |-> 1, hunt |-> 1, mode |-> "controlled", raw |-> FALSE,
         audit |-> TRUE, auditPath |-> TRUE, store |-> TRUE, ttl |-> 1,
         read |-> R, write |-> W]

\* The example config, a read-only server without an approval store, a mock
\* without an audit log, and files that cannot be parsed or are not valid.
SomeConfigs ==
    {Unset, Good, [Good EXCEPT !.mode = "shadow"], [Good EXCEPT !.hunt = -1],
     [Good EXCEPT !.mode = "read_only", !.store = FALSE, !.ttl = 0,
                  !.write = Unset],
     [Good EXCEPT !.audit = FALSE, !.auditPath = FALSE, !.read = Unset]}

SomeApiFiles == {{}, {"loose"}, {"bad_pair"}}

AllLines == {"garbled", "help", "version", "bare", "config", "config_and_dir"}
=============================================================================
