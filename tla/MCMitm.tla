------------------------------- MODULE MCMitm -------------------------------
(* Two tunnels over two names and a cache of one leaf. *)
EXTENDS Mitm
=============================================================================
