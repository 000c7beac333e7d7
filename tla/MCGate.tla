-------------------------------- MODULE MCGate --------------------------------
(* Gate on small instances. *)
EXTENDS Gate
===============================================================================
