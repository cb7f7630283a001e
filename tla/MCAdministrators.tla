--------------------------- MODULE MCAdministrators ---------------------------
(* Instances of Administrators small enough for TLC. *)
EXTENDS Administrators, TLC

EachAlike == Permutations(Users) \cup Permutations(Requests)
===============================================================================
