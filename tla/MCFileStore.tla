----------------------------- MODULE MCFileStore -----------------------------
(***************************************************************************)
(* Instances of FileStore for TLC: the server with two goroutines, and one *)
(* approve command.                                                        *)
(***************************************************************************)
EXTENDS FileStore, TLC

CONSTANTS server, cli, g1, g2, k, r1, r2, p

MCInstanceOf == (g1 :> server) @@ (g2 :> server) @@ (k :> cli)

Op(kind, ref, arg) == [kind |-> kind, ref |-> ref, arg |-> arg]

\* Tool handlers read and consume; the approve command creates and decides.
\* Creating r2 is the write that could carry a stale copy of r1 along; one
\* Decide lacks its ApprovedBy.
HandlerMenu == {Op("get", r1, None), Op("consume", r1, None)}
CliMenu == {Op("create", r1, p), Op("decide", r1, "approved"),
            Op("create", r2, p), Op("decide", r1, None)}

MCMenu == (g1 :> HandlerMenu) @@ (g2 :> {Op("consume", r1, None)}) @@
          (k :> CliMenu)

\* One reference, whose approval both goroutines try to consume.
UseMenu == (g1 :> {Op("consume", r1, None)}) @@ (g2 :> {Op("consume", r1, None)})
           @@ (k :> {Op("create", r1, p)})
=============================================================================
