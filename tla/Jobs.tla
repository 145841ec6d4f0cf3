---- MODULE Jobs ----
(***************************************************************************)
(* Jobs and the proposals made for them (jobs.service.ts): a client drafts *)
(* a job, completes it, publishes it, may pause, edit or cancel it, and    *)
(* accepts a proposal; freelancers submit and withdraw proposals.          *)
(*                                                                         *)
(* Every handler reads, decides on what it read, and writes with further   *)
(* statements, none of them in a transaction.  As in Sessions, a handler   *)
(* is a request that takes one step per statement, requests interleave     *)
(* between steps, and a statement on a row that is gone rejects.           *)
(*                                                                         *)
(* Handlers that answer "Not your job" or "Not found" change nothing and   *)
(* are left out: clients act on their own jobs and freelancers on their    *)
(* own proposals.                                                          *)
(***************************************************************************)
EXTENDS Integers, FiniteSets

CONSTANTS
    Users,    \* user ids: every user may be client and freelancer
    JobIds,   \* the ids jobs may get
    Requests, \* the requests that can be in flight together
    Limits,   \* application limits clients choose
    Edits,    \* the bodies of PATCH /jobs/:id that clients send
    NoJob,    \* stands for "no such row"
    Nobody,   \* freelancerId is null
    Keep,     \* a field that an edit leaves alone
    MayAbort  \* TRUE when the process may stop or a statement may reject

VARIABLES
    used,     \* the job ids given out: randomUUID gives none twice
    job,      \* job id -> its row, or NoJob
    proposal, \* job id -> freelancer -> status of the proposal, or "none"
    req,      \* request -> what it is about to do, or Idle
    (* History, read by the properties and by no guard: *)
    topLimit, \* job id -> the largest application limit it has had
    reopened  \* jobs whose acceptances may conflict, see Hire and Reopen

tables  == <<used, job, proposal>>
history == <<topLimit, reopened>>
vars    == <<tables, req, history>>

-----------------------------------------------------------------------------
(* Rows and requests *)

Statuses == {"draft", "review", "active", "in_progress", "completed", "archived", "cancelled"}
Verdicts == {"shortlisted", "rejected", "accepted"}
ProposalStatuses == {"submitted", "withdrawn"} \cup Verdicts

(* complete: there are three acceptance criteria, and a milestone if the
   budget is by milestones.  hidden: visibility is 'hidden'. *)
Row(c, s, k, h, l, f) ==
    [client |-> c, status |-> s, complete |-> k, hidden |-> h, limit |-> l, freelancer |-> f]

Rows == [client : Users, status : Statuses, complete : BOOLEAN, hidden : BOOLEAN,
         limit : Limits, freelancer : Users \cup {Nobody}]

Edit == [status : Statuses \cup {Keep}, complete : BOOLEAN \cup {Keep},
         hidden : BOOLEAN \cup {Keep}, limit : Limits \cup {Keep}]

ASSUME JobsAssumption ==
    /\ IsFiniteSet(Users) /\ IsFiniteSet(Requests)
    /\ Limits \subseteq Nat \ {0}
    /\ Edits \subseteq Edit
    /\ NoJob \notin Rows
    /\ Nobody \notin Users
    /\ Keep \notin Statuses /\ Keep \notin BOOLEAN /\ Keep \notin Limits
    /\ MayAbort \in BOOLEAN

Exists   == {j \in JobIds : job[j] # NoJob}
Applicants(j) == {u \in Users : proposal[j][u] # "none"}
Accepted(j)   == {u \in Users : proposal[j][u] = "accepted"}

(* The statement a request will issue next.  A status stands for the update
   that writes it. *)
JobWrites      == {"publish", "cancelled", "archived", "remove", "edit", "pause", "resume"}
Decisions      == Verdicts \cup {"withdrawn", "hire"}
ProposalWrites == Decisions \cup {"count", "submit"}

Idle == [next |-> "idle"]
Keeping == [status |-> Keep, complete |-> Keep, hidden |-> Keep, limit |-> Keep]

(* user is the freelancer the request is about, limit the application limit
   that submitProposal read, edit what updateJob will write. *)
Request(w, j, u, l, e) == [next |-> w, job |-> j, user |-> u, limit |-> l, edit |-> e]
InFlight == [next : JobWrites \cup ProposalWrites, job : JobIds,
             user : Users \cup {Nobody}, limit : Nat, edit : Edit]

Doing(r, w)     == req[r].next = w
DoingOn(r, w, j) == req[r] # Idle /\ req[r].next = w /\ req[r].job = j

Done(r)    == [req EXCEPT ![r] = Idle]
Goto(r, w) == [req EXCEPT ![r].next = w]

Begin(r, request) ==
    /\ req[r] = Idle
    /\ req' = [req EXCEPT ![r] = request]
    /\ UNCHANGED <<tables, history>>

BeginOnJob(r, w, j) == Begin(r, Request(w, j, Nobody, 0, Keeping))

(* A handler's last statement on its job: it rejects when the job is gone. *)
UpdateJobRow(r, row) ==
    /\ job' = IF req[r].job \in Exists THEN [job EXCEPT ![req[r].job] = row] ELSE job
    /\ req' = Done(r)

SetStatus(x, s)   == Row(x.client, s, x.complete, x.hidden, x.limit, x.freelancer)
SetHidden(x, h)   == Row(x.client, x.status, x.complete, h, x.limit, x.freelancer)
SetFreelancer(x, u) == Row(x.client, "in_progress", x.complete, x.hidden, x.limit, u)

(* The job has or had a freelancer. *)
Filled(j) == Accepted(j) # {} \/ job[j].freelancer # Nobody

(* History: a status 'active' written to a job that is filled reopens it. *)
Reopen(j, s) ==
    reopened' = IF j \in Exists /\ s = "active" /\ Filled(j)
                THEN reopened \cup {j} ELSE reopened

-----------------------------------------------------------------------------
(* Handlers of the client *)

(* createJob and duplicateJob are one insert.  Any draft that duplicateJob
   makes from what it read is one createJob could have made. *)
CreateJob(u) ==
    \E j \in JobIds \ used, k, h \in BOOLEAN, l \in Limits :
        /\ used' = used \cup {j}
        /\ job' = [job EXCEPT ![j] = Row(u, "draft", k, h, l, Nobody)]
        /\ topLimit' = [topLimit EXCEPT ![j] = l]
        /\ UNCHANGED <<proposal, req, reopened>>

PublishRead(r, j) ==
    /\ j \in Exists
    /\ job[j].status = "draft"
    /\ job[j].complete
    /\ BeginOnJob(r, "publish", j)

Publish(r) ==
    /\ Doing(r, "publish")
    /\ UpdateJobRow(r, SetStatus(job[req[r].job], "active"))
    /\ Reopen(req[r].job, "active")
    /\ UNCHANGED <<used, proposal, topLimit>>

(* listActiveJobs first archives, in one updateMany, the active jobs whose
   deadline has passed: any of them, since time is not modelled. *)
ListActiveJobs ==
    \E late \in (SUBSET {j \in Exists : job[j].status = "active"}) \ {{}} :
        /\ job' = [j \in JobIds |-> IF j \in late THEN SetStatus(job[j], "archived") ELSE job[j]]
        /\ UNCHANGED <<used, proposal, req, history>>

(* updateJob checks nothing but the owner.  The status is written only if it
   differs from the one read; the other fields are written when present. *)
UpdateJobRead(r, j, e) ==
    /\ j \in Exists
    /\ Begin(r, Request("edit", j, Nobody, 0,
                [e EXCEPT !.status = IF e.status = job[j].status THEN Keep ELSE e.status]))

New(v, old) == IF v = Keep THEN old ELSE v

UpdateJob(r) ==
    /\ Doing(r, "edit")
    /\ LET j == req[r].job
           e == req[r].edit
           x == job[j]
       IN  /\ UpdateJobRow(r, Row(x.client, New(e.status, x.status), New(e.complete, x.complete),
                                  New(e.hidden, x.hidden), New(e.limit, x.limit), x.freelancer))
           /\ topLimit' = IF j \in Exists /\ e.limit # Keep /\ e.limit > topLimit[j]
                          THEN [topLimit EXCEPT ![j] = e.limit] ELSE topLimit
           /\ Reopen(j, e.status)
    /\ UNCHANGED <<used, proposal>>

(* What deleteJob does with a job that it read in each status. *)
DeleteBy == [s \in Statuses |->
    CASE s \in {"draft", "archived", "cancelled"}     -> "remove"
      [] s \in {"active", "review", "in_progress"}    -> "cancelled"
      [] s = "completed"                              -> "archived"]

DeleteJobRead(r, j) ==
    /\ j \in Exists
    /\ BeginOnJob(r, DeleteBy[job[j].status], j)

(* Mutant: the proposals stay. *)
RemoveJobOnly(r) ==
    /\ Doing(r, "remove")
    /\ job' = [job EXCEPT ![req[r].job] = NoJob]
    /\ req' = Done(r)
    /\ UNCHANGED <<used, proposal, history>>

(* The job goes whatever its status now is, and its proposals with it. *)
RemoveJob(r) ==
    /\ Doing(r, "remove")
    /\ job' = [job EXCEPT ![req[r].job] = NoJob]
    /\ proposal' = [proposal EXCEPT ![req[r].job] = [u \in Users |-> "none"]]
    /\ req' = Done(r)
    /\ UNCHANGED <<used, history>>

CancelOrArchive(r) ==
    /\ req[r].next \in {"cancelled", "archived"}
    /\ UpdateJobRow(r, SetStatus(job[req[r].job], req[r].next))
    /\ UNCHANGED <<used, proposal, history>>

PauseJobRead(r, j) ==
    /\ j \in Exists
    /\ job[j].status \in {"active", "review", "in_progress"}
    /\ BeginOnJob(r, "pause", j)

ResumeJobRead(r, j) ==
    /\ j \in Exists
    /\ job[j].hidden
    /\ BeginOnJob(r, "resume", j)

PauseOrResume(r) ==
    /\ req[r].next \in {"pause", "resume"}
    /\ UpdateJobRow(r, SetHidden(job[req[r].job], Doing(r, "pause")))
    /\ UNCHANGED <<used, proposal, history>>

(* updateProposalStatus: only an acceptance looks at the job's status, and
   none looks at the proposal's. *)
Accepting(j) == {r \in Requests : DoingOn(r, "accepted", j) \/ DoingOn(r, "hire", j)}

DecideRead(r, j, u, verdict) ==
    /\ j \in Exists
    /\ u \in Applicants(j)
    /\ verdict = "accepted" => job[j].status = "active"
    /\ req[r] = Idle
    /\ req' = [req EXCEPT ![r] = Request(verdict, j, u, 0, Keeping)]
    /\ reopened' = IF verdict = "accepted" /\ Accepting(j) # {}
                   THEN reopened \cup {j} ELSE reopened
    /\ UNCHANGED <<tables, topLimit>>

(* The update of the proposal; one that accepts goes on to the job. *)
WriteProposal(r) ==
    /\ req[r].next \in Verdicts \cup {"withdrawn"}
    /\ LET j == req[r].job
           u == req[r].user
           found == proposal[j][u] # "none"
       IN  /\ proposal' = IF found THEN [proposal EXCEPT ![j][u] = req[r].next] ELSE proposal
           /\ req' = IF found /\ Doing(r, "accepted") THEN Goto(r, "hire") ELSE Done(r)
    /\ UNCHANGED <<used, job, history>>

(* Mutant: the job gets its freelancer and stays open. *)
HireAndStayOpen(r) ==
    /\ Doing(r, "hire")
    /\ job' = IF req[r].job \in Exists
              THEN [job EXCEPT ![req[r].job].freelancer = req[r].user] ELSE job
    /\ req' = Done(r)
    /\ UNCHANGED <<used, proposal, history>>

(* The acceptance's second statement starts the job. *)
Hire(r) ==
    /\ Doing(r, "hire")
    /\ UpdateJobRow(r, SetFreelancer(job[req[r].job], req[r].user))
    /\ UNCHANGED <<used, proposal, history>>

-----------------------------------------------------------------------------
(* Handlers of freelancers *)

(* Mutant: clients may apply to their own jobs. *)
SubmitReadByAnybody(r, j, u) ==
    /\ j \in Exists
    /\ job[j].status = "active"
    /\ Begin(r, Request("count", j, u, job[j].limit, Keeping))

SubmitRead(r, j, u) ==
    /\ j \in Exists
    /\ job[j].status = "active"
    /\ job[j].client # u
    /\ Begin(r, Request("count", j, u, job[j].limit, Keeping))

(* Mutant: one too many. *)
CountProposalsUpTo(r) ==
    /\ Doing(r, "count")
    /\ req' = IF Cardinality(Applicants(req[r].job)) > req[r].limit
              THEN Done(r) ELSE Goto(r, "submit")
    /\ UNCHANGED <<tables, history>>

(* The limit is the one read with the job; withdrawn proposals count. *)
CountProposals(r) ==
    /\ Doing(r, "count")
    /\ req' = IF Cardinality(Applicants(req[r].job)) >= req[r].limit
              THEN Done(r) ELSE Goto(r, "submit")
    /\ UNCHANGED <<tables, history>>

(* The insert.  It rejects when the job is gone or the freelancer has a
   proposal already, and so does the look-up before it: what that look-up
   finds is still there unless the job is gone. *)
SubmitProposal(r) ==
    /\ Doing(r, "submit")
    /\ LET j == req[r].job
           u == req[r].user
       IN  proposal' = IF j \in Exists /\ proposal[j][u] = "none"
                       THEN [proposal EXCEPT ![j][u] = "submitted"] ELSE proposal
    /\ req' = Done(r)
    /\ UNCHANGED <<used, job, history>>

WithdrawRead(r, j, u) ==
    /\ j \in Exists
    /\ proposal[j][u] = "submitted"
    /\ Begin(r, Request("withdrawn", j, u, 0, Keeping))

-----------------------------------------------------------------------------
(* Failure: what was written stays.  An acceptance cut in two leaves the job
   open with a proposal accepted. *)
Abort(r) ==
    /\ MayAbort
    /\ req[r] # Idle
    /\ reopened' = IF Doing(r, "hire") THEN reopened \cup {req[r].job} ELSE reopened
    /\ req' = Done(r)
    /\ UNCHANGED <<tables, topLimit>>

-----------------------------------------------------------------------------
Init ==
    /\ used = {}
    /\ job = [j \in JobIds |-> NoJob]
    /\ proposal = [j \in JobIds |-> [u \in Users |-> "none"]]
    /\ req = [r \in Requests |-> Idle]
    /\ topLimit = [j \in JobIds |-> 0]
    /\ reopened = {}

Arrive(r) == \E j \in JobIds :
    \/ PublishRead(r, j)
    \/ \E e \in Edits : UpdateJobRead(r, j, e)
    \/ DeleteJobRead(r, j)
    \/ PauseJobRead(r, j)
    \/ ResumeJobRead(r, j)
    \/ \E u \in Users :
          \/ \E verdict \in Verdicts : DecideRead(r, j, u, verdict)
          \/ SubmitRead(r, j, u)
          \/ WithdrawRead(r, j, u)

Step(r) ==
    \/ Publish(r)
    \/ UpdateJob(r)
    \/ RemoveJob(r)
    \/ CancelOrArchive(r)
    \/ PauseOrResume(r)
    \/ WriteProposal(r)
    \/ Hire(r)
    \/ CountProposals(r)
    \/ SubmitProposal(r)

Next ==
    \/ \E u \in Users : CreateJob(u)
    \/ ListActiveJobs
    \/ \E r \in Requests : Arrive(r) \/ Step(r) \/ Abort(r)

Spec == Init /\ [][Next]_vars

-----------------------------------------------------------------------------
(* Properties *)

(* Every variable has its type, and what belongs to a job that is gone, its
   proposals, is gone with it. *)
TablesOK ==
    /\ used \subseteq JobIds
    /\ job \in [JobIds -> Rows \cup {NoJob}]
    /\ proposal \in [JobIds -> [Users -> ProposalStatuses \cup {"none"}]]
    /\ Exists \subseteq used
    /\ \A j \in JobIds \ Exists : Applicants(j) = {}

RequestsOK ==
    /\ req \in [Requests -> InFlight \cup {Idle}]
    /\ \A r \in Requests : req[r] # Idle =>
          /\ req[r].job \in used
          /\ req[r].next \in ProposalWrites => req[r].user \in Users

HistoryOK ==
    /\ topLimit \in [JobIds -> Nat]
    /\ reopened \subseteq used

TypeOK == TablesOK /\ RequestsOK /\ HistoryOK

(* Whoever a job was given to applied for it, and no client works on their
   own job.  (submitProposal refuses owners, and only that; the proposal
   accepted was read two statements before the job is written) *)
FreelancersApplied ==
    \A j \in Exists :
        /\ job[j].client \notin Applicants(j)
        /\ job[j].freelancer # Nobody => job[j].freelancer \in Applicants(j)

(* What a request knows of a job that is still there stays true. *)
RequestsAgree ==
    \A r \in Requests : req[r] # Idle /\ req[r].job \in Exists =>
        LET j == req[r].job IN
          /\ req[r].next \in {"count", "submit"} => req[r].user # job[j].client
          /\ req[r].next \in Decisions => req[r].user \in Applicants(j)

(* The submissions for j that have passed the check of the limit. *)
Admitted(j) == {r \in Requests : DoingOn(r, "submit", j)}

(* The cap on proposals is exceeded by the submissions in flight at most: a
   job never has as many more than its largest limit as there can be
   requests.  (submitProposal counts first and inserts later) *)
OverrunIsBounded ==
    \A j \in used :
        Cardinality(Applicants(j)) + Cardinality(Admitted(j)) < topLimit[j] + Cardinality(Requests)

(* The freelancers that j was, or is being, given to. *)
Hired(j) == Accepted(j) \cup {req[r].user : r \in Accepting(j)}
               \cup ({job[j].freelancer} \ {Nobody})

(* A job is given to one freelancer, as long as acceptances of its proposals
   do not overlap, none is cut in two, and no publish or edit makes the job
   active again once it is filled.  (updateProposalStatus, publishJob and
   updateJob) *)
OneFreelancerPerJob ==
    \A j \in Exists \ reopened : \A u, v \in Hired(j) : u = v

(* Why: in a job not reopened one acceptance is at work at a time; it finds
   the job unfilled, and leaves it filled and closed. *)
HiringAgrees ==
    \A j \in Exists \ reopened :
        /\ \A q, r \in Accepting(j) : q = r
        /\ \A r \in Requests : DoingOn(r, "accepted", j) => ~Filled(j)
        /\ \A r \in Requests : DoingOn(r, "hire", j) =>
              /\ job[j].freelancer = Nobody
              /\ Accepted(j) \subseteq {req[r].user}
        /\ Accepting(j) = {} /\ Filled(j) =>
              /\ job[j].status # "active"
              /\ Accepted(j) \subseteq {job[j].freelancer}

(* No submission in flight was let in by more than the largest limit. *)
LimitsAgree ==
    /\ \A j \in Exists : job[j].limit <= topLimit[j]
    /\ \A j \in used : topLimit[j] > 0
    /\ \A r \in Requests : Doing(r, "count") => req[r].limit <= topLimit[req[r].job]
====
