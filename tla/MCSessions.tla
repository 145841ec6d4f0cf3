---- MODULE MCSessions ----
(* Instances of Sessions for TLC. *)
EXTENDS Sessions, TLC

(* Ids and requests are interchangeable: no action orders or names them. *)
Symmetry == Permutations(SessionIds) \cup Permutations(Requests) \cup Permutations(Users)
====
