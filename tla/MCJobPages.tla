---- MODULE MCJobPages ----
(* A small instance of JobPages for TLC: see MCJobPages.cfg. *)
EXTENDS JobPages, TLC

(* A client who goes back to the list of jobs, or from job to job; a client who
   reviews proposals and the freelancer who made them; and a client who leaves
   the form for a new job and returns. *)
SomeVisits == {{"jobs"}, {"job"}, {"review", "applications"}, {"post", "applications"}}

(* Proposals where no page shows them would only double the states: they change
   no job until they are accepted. *)
ShownProposals ==
    visits \cap ProposalPageKinds = {} => \A j \in JobIds : proposal[j] = "none"

(* Calls are only told apart by what they ask for. *)
Symmetry == Permutations(Calls)
====
