---- MODULE MCWebClient ----
(* Instances of WebClient for TLC. *)
EXTENDS WebClient, TLC

Symmetry == Permutations(SessionIds) \cup Permutations(Requests) \cup Permutations(Tabs)
====
