---------------------------- MODULE MCPurchaseSaga ----------------------------
(* PurchaseSaga on small instances. *)
EXTENDS PurchaseSaga, TLC

\* Everything but the numbers is interchangeable.
Symmetry == Permutations(Seats) \cup Permutations(Users) \cup Permutations(Tokens)
              \cup Permutations(Calls) \cup Permutations(TicketIds)
===============================================================================
