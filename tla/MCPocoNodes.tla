----------------------------- MODULE MCPocoNodes -----------------------------
(* Small instances of PocoNodes for TLC. Cells of one kind are interchangeable. *)
EXTENDS PocoNodes

Symmetry == Permutations(Element) \cup Permutations(Leaf) \cup Permutations(Attr)
=============================================================================
