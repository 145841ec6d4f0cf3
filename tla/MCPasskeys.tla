---- MODULE MCPasskeys ----
(* Instances of Passkeys for TLC. *)
EXTENDS Passkeys, TLC

Symmetry == Permutations(Users) \cup Permutations(Challenges) \cup Permutations(Requests)
====
