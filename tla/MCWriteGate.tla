----------------------------- MODULE MCWriteGate -----------------------------
(***************************************************************************)
(* An instance of WriteGate for TLC: two calls that name the same approval *)
(* and two runs of the approve command.                                    *)
(***************************************************************************)
EXTENDS WriteGate, TLC

CONSTANTS c1, c2, r1, a1, a2, a3, prof, bad, gone, flow, lab

MCClientIDs == {1, 2}

\* prof has two artifacts; bad one that is not allowlisted; gone is allowed
\* by policy and not in the registry.
MCRegistry == (prof :> <<a1, a2>>) @@ (bad :> <<a1, a3>>)

Req(op, target, ids, label, all) ==
    [op |-> op, target |-> target, ids |-> ids, label |-> label, all |-> all]

In(ref, q) == [ref |-> ref, req |-> q, fields |-> TRUE, target |-> TRUE]

Collect == Req("collect_artifact", a1, <<>>, None, FALSE)
Profile == Req("collect_dfir_profile", prof, <<>>, None, FALSE)
HuntLabel == Req("start_hunt", a1, <<>>, lab, FALSE)
HuntAll == Req("start_hunt", a1, <<>>, None, TRUE)
HuntProfile == Req("start_dfir_hunt", prof, <<>>, lab, FALSE)
HuntClients(ids) == Req("hunt_ioc", a1, ids, None, FALSE)
Cancel == Req("cancel_flow", flow, <<>>, None, FALSE)
CancelHunt == Req("cancel_hunt", flow, <<>>, None, FALSE)
Download == Req("download_flow_upload", flow, <<>>, None, FALSE)

\* A profile, a hunt, a download and a hunt on explicit clients.
MCPayloads == {Profile, HuntLabel, Download, HuntClients(<<1, 2>>)}

\* One call asks for a profile; the other for the same, for a hunt in one scope
\* or another, for each of the other tools, or is turned away for some reason.
MCInputs ==
    (c1 :> {In(r1, Profile)}) @@
    (c2 :> {In(r1, q) : q \in {Profile, HuntLabel, HuntAll, Collect, HuntProfile, Cancel,
                               CancelHunt, Download, HuntClients(<<2, 1>>),
                               Req("collect_artifact", a3, <<>>, None, FALSE),
                               Req("collect_dfir_profile", bad, <<>>, None, FALSE),
                               Req("start_dfir_hunt", gone, <<>>, lab, FALSE),
                               Req("start_hunt", a1, <<1>>, lab, FALSE)}}
           \cup {[In(r1, Collect) EXCEPT !.fields = FALSE],
                 [In(r1, HuntLabel) EXCEPT !.fields = FALSE],
                 [In(r1, Cancel) EXCEPT !.target = FALSE]})

Full == [pilot |-> TRUE, targetAll |-> TRUE, real |-> TRUE, audit |-> TRUE]

\* Everything enabled, with a download directory that is missing, cannot be
\* made or cannot be written to; or some feature disabled.
MCSettings ==
    [deps: {Full}, dir: {"missing", "unmakable", "readonly"}]
    \cup [deps: {[Full EXCEPT !.pilot = FALSE],
                 [Full EXCEPT !.audit = FALSE, !.targetAll = FALSE]},
          dir: {"writable"}]
    \cup [deps: {[Full EXCEPT !.real = FALSE]}, dir: {"unset"}]
=============================================================================
