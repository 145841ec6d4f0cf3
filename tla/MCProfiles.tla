---- MODULE MCProfiles ----
(***************************************************************************)
(* Profiles, with what is interchangeable declared so.  Slugs, skills and  *)
(* lists share nothing but the requests: a behaviour that works on all     *)
(* three shows no more than one that works on two.                         *)
(***************************************************************************)
EXTENDS Profiles, TLC

Symmetry == Permutations(Users) \cup Permutations(Items) \cup Permutations(Requests)

TwoAtMost ==
    \/ \A u \in Users : slug[u] = None
    \/ \A u \in Users, k \in Skills : skill[<<u, k>>] = None /\ EndorsersOf(u, k) = {}
    \/ \A i \in Items : item[i] = None
====
