----------------------------- MODULE MCDownload -----------------------------
EXTENDS Download

CONSTANTS n1, n2

MCNames == {n1, n2}

(* Uploads of every length up to past the limit, declared exactly, larger *)
(* (a sparse file) or not at all. *)
MaxStored == MaxUploadBytes + 2

MCUploads ==
  {u \in [name: MCNames, declared: 0..MaxStored, located: BOOLEAN,
          stored: 0..MaxStored] :
     u.declared = 0 \/ u.declared >= u.stored}

(* With a second row: of the same or of the other name, shorter or longer. *)
Short == [name |-> n1, declared |-> 0, located |-> TRUE, stored |-> 3]

MCTables ==
  {<< >>} \cup {<<u>> : u \in MCUploads}
    \cup {<<Short, u>> : u \in {x \in MCUploads : x.declared = x.stored}}
    \cup {<<u, Short>> : u \in {x \in MCUploads : x.declared = x.stored}}

ASSUME MCDeclared == DeclaredCoversStored
=============================================================================
