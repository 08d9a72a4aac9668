-------------------------- MODULE MCXercesPlatform --------------------------
(* Two clients beside the adapter: enough for one to end while another goes  *)
(* on. Three managers of the library's own and a plugged-in one let either   *)
(* kind follow either.                                                       *)
EXTENDS XercesPlatform, TLC

=============================================================================
