---------------------------- MODULE MCSeatInventory ----------------------------
(* SeatInventory on small instances. *)
EXTENDS SeatInventory, TLC

\* Users, tokens and threads are interchangeable.
Symmetry == Permutations(Users) \cup Permutations(Tokens) \cup Permutations(Workers)
===============================================================================
