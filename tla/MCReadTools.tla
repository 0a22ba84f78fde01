---------------------------- MODULE MCReadTools -----------------------------
(***************************************************************************)
(* Values of the constants of ReadTools for model checking.                *)
(***************************************************************************)
EXTENDS ReadTools

SomeLimits == {0, 1}
SomeCursors == {None, 1}

\* The default policy, and one that opens the listing of artifacts and lets
\* hunts target every client.
SomePolicies ==
    {[allowed |-> {3}, listAll |-> FALSE, targetAll |-> FALSE],
     [allowed |-> {1}, listAll |-> TRUE, targetAll |-> TRUE]}
=============================================================================
