--------------------------- MODULE MCResultReader ---------------------------
(***************************************************************************)
(* The instance of ResultReader for TLC.  A page holds two rows and three  *)
(* units of size, so that a row may fit in no page (4), two rows may be    *)
(* too large together (2 + 2), and a full page may be cut.  The reader     *)
(* starts with a cursor that names no row.                                 *)
(***************************************************************************)
EXTENDS ResultReader

TwoSources == {"s1", "s2"}
BeforeTheTop == {-1}
=============================================================================
