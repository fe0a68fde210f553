--------------------------- MODULE MCMapLifecycle ---------------------------
(* Instances of MapLifecycle for TLC. *)
EXTENDS MapLifecycle
=============================================================================
