------------------------------ MODULE MCPugiCopy ------------------------------
(* Small instances of PugiCopy for TLC. There is no symmetry: the run checks  *)
(* liveness.                                                                  *)
EXTENDS PugiCopy
=============================================================================
