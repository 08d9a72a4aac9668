-------------------------- MODULE MCTinyXmlDocument --------------------------
(* Small instances of TinyXmlDocument for TLC. There is no symmetry: the     *)
(* run checks liveness.                                                      *)
EXTENDS TinyXmlDocument
=============================================================================
