------------------------------ MODULE MCTransfer ------------------------------
(* Transfer on small instances. *)
EXTENDS Transfer, TLC

\* Everything but the numbers is interchangeable.
Symmetry == Permutations(Users) \cup Permutations(Tickets) \cup Permutations(ListingIds)
              \cup Permutations(TransferIds) \cup Permutations(Calls)
===============================================================================
