------------------------------- MODULE MCTopUp -------------------------------
(* TopUp on small instances. *)
EXTENDS TopUp
===============================================================================
