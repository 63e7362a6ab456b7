------------------------------ MODULE MCNetHub ------------------------------
(***************************************************************************)
(* NetHub with three guests, whose sockets take one write each.            *)
(***************************************************************************)
EXTENDS NetHub
=============================================================================
