---- MODULE MCStoredCodes ----
(***************************************************************************)
(* StoredCodes, with what is interchangeable declared so.  The two kinds   *)
(* of codes share nothing but ids and requests: a behaviour that makes     *)
(* both shows no more than two that make one each.  Three reset codes are  *)
(* one for each address and one too many.                                  *)
(***************************************************************************)
EXTENDS StoredCodes, TLC

Symmetry == Permutations(Requests) \cup Permutations(Rows) \cup Permutations(Addresses)

OneKind ==
    \/ /\ \A u \in Users : Of(u, "recovery", States) = {}
       /\ \A r \in Requests : ~Doing(r, "insert")
       /\ Cardinality({i \in Rows : sentTo[i] # NoRow}) <= 3
    \/ /\ \A i \in Rows : sentTo[i] = NoRow
       /\ \A r \in Requests : ~Doing(r, "limit")
====
