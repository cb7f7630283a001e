---------------------------- MODULE MCUserAccount ----------------------------
(* Instances of UserAccount small enough for TLC. *)
EXTENDS UserAccount, TLC

Symmetry == Permutations(Clients) \cup Permutations(Requests)
===============================================================================
