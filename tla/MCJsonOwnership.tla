-------------------------- MODULE MCJsonOwnership ---------------------------
(* JsonOwnership on three objects, three documents and three handles: room  *)
(* for a root, a child and an iterator on one document, for a clone, for    *)
(* the two documents a conversion or a patch has in flight beside the one   *)
(* it reads, and for a full handle table.                                   *)
EXTENDS JsonOwnership, TLC

Symmetry == Permutations(Doc) \cup Permutations(Obj) \cup Permutations(Handle)

=============================================================================
