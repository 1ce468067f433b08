----------------------------- MODULE MCNetSocket -----------------------------
(* Model of NetSocket: see the configurations for what each instance allows. *)
EXTENDS NetSocket
=============================================================================
