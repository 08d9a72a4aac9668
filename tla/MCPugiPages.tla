----------------------------- MODULE MCPugiPages -----------------------------
(* Small instances of PugiPages for TLC. Cells of one kind are interchangeable. *)
EXTENDS PugiPages, TLC

Symmetry == Permutations(Document) \cup Permutations(Node) \cup Permutations(Page)
=============================================================================
