----------------------------- MODULE MCXercesPool -----------------------------
(* Small instances of XercesPool for TLC: blocks that hold a few nodes, and   *)
(* texts that lie in them or have blocks of their own.                        *)
EXTENDS XercesPool

Interchangeable == Permutations(Node) \cup Permutations(Buffer)
=============================================================================
