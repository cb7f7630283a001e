------------------------------ MODULE MCSession ------------------------------
(* Instances of Session small enough for TLC. *)
EXTENDS Session, TLC

Symmetry == Permutations(Clients) \cup Permutations(Requests)
            \cup Permutations(Visits) \cup Permutations(Keys)
===============================================================================
