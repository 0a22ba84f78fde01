------------------------ MODULE MCApprovedOperations ------------------------
(***************************************************************************)
(* The instance of ApprovedOperations for TLC.  Arguments: a base for each *)
(* tool, the base with one field that the tool uses changed, and the base  *)
(* with all the fields changed that it should not look at.                 *)
(***************************************************************************)
EXTENDS ApprovedOperations, TLC

MCHashKind == [h1 |-> "md5", h2 |-> "sha256", v |-> None]

MCAllowedArtifacts == {"a1", "a2", "HashHunter"}

Pslist == [name |-> "a1", params |-> NoParams]
Netstat == [name |-> "a2", params |-> ("k" :> "x")]
Hidden == [name |-> "a3", params |-> NoParams]

MCContents == {<<Netstat, Pslist>>, <<Pslist, Hidden>>}

Base(op) ==
    [op |-> op, case |-> "k1", client |-> "C1", artifact |-> "a1",
     params |-> ("k" :> "x"), profile |-> "p", hunt |-> "H1", flow |-> "F1",
     upload |-> "u1", kind |-> "hash", value |-> "h1", ids |-> <<>>,
     label |-> "lab", all |-> FALSE, max |-> 0]

Other == [Base("") EXCEPT
             !.client = "C2", !.artifact = "a2", !.params = NoParams,
             !.profile = "q", !.hunt = "H2", !.flow = "F2", !.upload = "u2",
             !.kind = "ip", !.value = "h2", !.label = "lab2", !.max = 5]

Used ==
    [collect_artifact |-> {"client", "artifact", "params"},
     collect_dfir_profile |-> {"client", "profile"},
     cancel_flow |-> {"client", "flow"},
     download_flow_upload |-> {"client", "flow", "upload"},
     start_hunt |-> {"artifact", "params", "label", "max"},
     start_dfir_hunt |-> {"profile", "label", "max"},
     cancel_hunt |-> {"hunt"},
     hunt_ioc |-> {"kind", "value", "label", "max"}]

\* op's base with the fields fs changed.
Changed(op, fs) ==
    LET b == Base(op)
        v(f) == IF f \in fs THEN Other[f] ELSE b[f]
    IN  [b EXCEPT
            !.client = v("client"), !.artifact = v("artifact"),
            !.params = v("params"), !.profile = v("profile"),
            !.hunt = v("hunt"), !.flow = v("flow"), !.upload = v("upload"),
            !.kind = v("kind"), !.value = v("value"), !.label = v("label"),
            !.max = v("max")]

Scopes(b) ==
    IF b.op \in HuntStarts
    THEN {[b EXCEPT !.label = None, !.all = TRUE], [b EXCEPT !.max = 2],
          [b EXCEPT !.label = None, !.ids = <<"C1", "C2">>]}
    ELSE {}

MCArgs ==
    UNION {{Base(op), [Base(op) EXCEPT !.case = "k2"],
            Changed(op, DOMAIN Other \ Used[op])}
               \cup {Changed(op, {f}) : f \in Used[op]}
               \cup Scopes(Base(op)) : op \in Ops}
=============================================================================
