--------------------------- MODULE MCXercesDocument ---------------------------
(* Small instances of XercesDocument for TLC. Cells of one kind, and        *)
(* documents, are interchangeable.                                          *)
EXTENDS XercesDocument

Symmetry == Permutations(Document) \cup Permutations(Fragment)
            \cup Permutations(Element) \cup Permutations(Misc) \cup Permutations(Text)
=============================================================================
