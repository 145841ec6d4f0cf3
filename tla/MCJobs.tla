---- MODULE MCJobs ----
(* Instances of Jobs for TLC: edits that change one field. *)
EXTENDS Jobs, TLC

SomeEdits == {[Keeping EXCEPT !.status = s] : s \in {"active", "completed"}}
               \cup {[Keeping EXCEPT !.complete = FALSE], [Keeping EXCEPT !.limit = 2]}

Symmetry == Permutations(Users) \cup Permutations(Requests) \cup Permutations(JobIds)
====
