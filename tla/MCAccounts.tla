------------------------------ MODULE MCAccounts ------------------------------
(* Accounts on small instances. *)
EXTENDS Accounts, TLC

\* Everything but the numbers is interchangeable.
Symmetry == Permutations(Users) \cup Permutations(Emails) \cup Permutations(Tokens)
              \cup Permutations(Calls)
===============================================================================
