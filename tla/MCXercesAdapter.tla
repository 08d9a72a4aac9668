--------------------------- MODULE MCXercesAdapter ---------------------------
(* Small instances of XercesAdapter for TLC. Cells, documents, texts and     *)
(* values are interchangeable; attribute names are ordered and are not.      *)
EXTENDS XercesAdapter

Symmetry == Permutations(Element) \cup Permutations(Document)
            \cup Permutations(Text) \cup Permutations(Value)
=============================================================================
