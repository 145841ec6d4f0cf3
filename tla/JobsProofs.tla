---- MODULE JobsProofs ----
(***************************************************************************)
(* Theorems about Jobs, for every set of users, jobs, requests, limits and *)
(* edits.                                                                  *)
(***************************************************************************)
EXTENDS Jobs, FiniteSetTheorems, TLAPS

(* The updates of a row keep its type, its client and, but for the
   acceptance, its freelancer. *)
LEMMA RowUpdates ==
    ASSUME NEW x \in Rows
    PROVE  /\ x.client \in Users /\ x.status \in Statuses /\ x.limit \in Limits
           /\ x.freelancer \in Users \cup {Nobody}
           /\ \A s \in Statuses :
                /\ SetStatus(x, s) \in Rows
                /\ SetStatus(x, s).client = x.client
                /\ SetStatus(x, s).status = s
                /\ SetStatus(x, s).limit = x.limit
                /\ SetStatus(x, s).freelancer = x.freelancer
           /\ \A h \in BOOLEAN :
                /\ SetHidden(x, h) \in Rows
                /\ SetHidden(x, h).client = x.client
                /\ SetHidden(x, h).status = x.status
                /\ SetHidden(x, h).limit = x.limit
                /\ SetHidden(x, h).freelancer = x.freelancer
           /\ \A u \in Users :
                /\ SetFreelancer(x, u) \in Rows
                /\ SetFreelancer(x, u).client = x.client
                /\ SetFreelancer(x, u).status = "in_progress"
                /\ SetFreelancer(x, u).limit = x.limit
                /\ SetFreelancer(x, u).freelancer = u
<1>1. /\ x.client \in Users /\ x.status \in Statuses /\ x.complete \in BOOLEAN
      /\ x.hidden \in BOOLEAN /\ x.limit \in Limits /\ x.freelancer \in Users \cup {Nobody}
  BY DEF Rows
<1>2. "in_progress" \in Statuses
  BY DEF Statuses
<1>3. QED
  BY <1>1, <1>2 DEF Rows, Row, SetStatus, SetHidden, SetFreelancer

LEMMA ExistingRow ==
    ASSUME TypeOK, NEW j \in Exists
    PROVE  j \in JobIds /\ job[j] \in Rows
BY DEF TypeOK, TablesOK, Exists

(* What updateJob writes. *)
Edited(x, e) == Row(x.client, New(e.status, x.status), New(e.complete, x.complete),
                    New(e.hidden, x.hidden), New(e.limit, x.limit), x.freelancer)

LEMMA EditedRow ==
    ASSUME NEW x \in Rows, NEW e \in Edit
    PROVE  /\ Edited(x, e) \in Rows
           /\ Edited(x, e).client = x.client
           /\ Edited(x, e).freelancer = x.freelancer
           /\ Edited(x, e).status = New(e.status, x.status)
           /\ Edited(x, e).limit = New(e.limit, x.limit)
<1>1. /\ x.client \in Users /\ x.status \in Statuses /\ x.complete \in BOOLEAN
      /\ x.hidden \in BOOLEAN /\ x.limit \in Limits /\ x.freelancer \in Users \cup {Nobody}
  BY DEF Rows
<1>2. /\ e.status \in Statuses \cup {Keep} /\ e.complete \in BOOLEAN \cup {Keep}
      /\ e.hidden \in BOOLEAN \cup {Keep} /\ e.limit \in Limits \cup {Keep}
  BY DEF Edit
<1>3. New(e.status, x.status) \in Statuses /\ New(e.limit, x.limit) \in Limits
  BY <1>1, <1>2 DEF New
<1>4. New(e.complete, x.complete) \in BOOLEAN
  BY <1>1, <1>2 DEF New
<1>5. New(e.hidden, x.hidden) \in BOOLEAN
  BY <1>1, <1>2 DEF New
<1>6. QED
  BY <1>1, <1>3, <1>4, <1>5 DEF Edited, Row, Rows

(* A handler's last statement changes one row, if it is there. *)
LEMMA UpdatedTable ==
    ASSUME TypeOK, NEW r \in Requests, NEW row, UpdateJobRow(r, row),
           req[r].job \in Exists => row \in Rows
    PROVE  /\ job' \in [JobIds -> Rows \cup {NoJob}]
           /\ Exists' = Exists
           /\ req[r].job \in Exists => job'[req[r].job] = row
           /\ \A j \in JobIds : j # req[r].job \/ j \notin Exists => job'[j] = job[j]
           /\ req' = Done(r)
<1>1. CASE req[r].job \in Exists
  <2>1. req[r].job \in JobIds
    BY <1>1 DEF Exists
  <2>2. job' = [job EXCEPT ![req[r].job] = row]
    BY <1>1 DEF UpdateJobRow
  <2>3. row \in Rows /\ row # NoJob
    BY <1>1, JobsAssumption
  <2>4. job' \in [JobIds -> Rows \cup {NoJob}] /\ job'[req[r].job] = row
    BY <2>1, <2>2, <2>3 DEF TypeOK, TablesOK
  <2>5. \A j \in JobIds : j # req[r].job => job'[j] = job[j]
    BY <2>2 DEF TypeOK, TablesOK
  <2>6. Exists' = Exists
    BY <1>1, <2>1, <2>3, <2>4, <2>5 DEF Exists
  <2>7. QED
    BY <1>1, <2>4, <2>5, <2>6 DEF UpdateJobRow
<1>2. CASE req[r].job \notin Exists
  BY <1>2 DEF UpdateJobRow, TypeOK, TablesOK, Exists
<1>3. QED
  BY <1>1, <1>2

-----------------------------------------------------------------------------
(* Requests *)

LEMMA RequestRecord ==
    ASSUME NEW w \in JobWrites \cup ProposalWrites, NEW j \in JobIds,
           NEW u \in Users \cup {Nobody}, NEW l \in Nat, NEW e \in Edit
    PROVE  /\ Request(w, j, u, l, e) \in InFlight
           /\ Request(w, j, u, l, e).next = w
           /\ Request(w, j, u, l, e).job = j
           /\ Request(w, j, u, l, e).user = u
           /\ Request(w, j, u, l, e).limit = l
           /\ Request(w, j, u, l, e).edit = e
BY DEF Request, InFlight

LEMMA KeepingIsAnEdit == Keeping \in Edit
BY DEF Keeping, Edit

LEMMA NotIdle ==
    ASSUME NEW r, NEW w \in JobWrites \cup ProposalWrites, req[r].next = w
    PROVE  req[r] # Idle
BY DEF Idle, JobWrites, ProposalWrites, Decisions, Verdicts

LEMMA RequestFields ==
    ASSUME TypeOK, NEW r \in Requests, req[r] # Idle
    PROVE  /\ req[r] \in InFlight
           /\ req[r].next \in JobWrites \cup ProposalWrites
           /\ req[r].job \in JobIds /\ req[r].job \in used
           /\ req[r].user \in Users \cup {Nobody}
           /\ req[r].next \in ProposalWrites => req[r].user \in Users
           /\ req[r].limit \in Nat
           /\ req[r].edit \in Edit
<1>1. req[r] \in InFlight
  BY DEF TypeOK, RequestsOK
<1>2. QED
  BY <1>1 DEF TypeOK, RequestsOK, InFlight

(* Requests keep their type when one of them changes. *)
LEMMA RequestsStayOK ==
    ASSUME RequestsOK, NEW r \in Requests, used \subseteq used',
           NEW q, req' = [req EXCEPT ![r] = q],
           \/ q = Idle
           \/ /\ q \in InFlight
              /\ q.job \in used'
              /\ q.next \in ProposalWrites => q.user \in Users
    PROVE  RequestsOK'
<1>1. req' \in [Requests -> InFlight \cup {Idle}]
  BY DEF RequestsOK
<1>2. ASSUME NEW p \in Requests, req'[p] # Idle
      PROVE  req'[p].job \in used' /\ (req'[p].next \in ProposalWrites => req'[p].user \in Users)
  <2>1. CASE p = r
    <3>1. req'[p] = q
      BY <2>1 DEF RequestsOK
    <3>2. QED
      BY <1>2, <3>1
  <2>2. CASE p # r
    <3>1. req'[p] = req[p]
      BY <2>2 DEF RequestsOK
    <3>2. QED
      BY <1>2, <3>1 DEF RequestsOK
  <2>3. QED
    BY <2>1, <2>2
<1>3. QED
  BY <1>1, <1>2 DEF RequestsOK

LEMMA DoneOK ==
    ASSUME RequestsOK, NEW r \in Requests, used' = used, req' = Done(r)
    PROVE  RequestsOK'
BY RequestsStayOK DEF Done

(* What one request's change leaves alone. *)
LEMMA OthersStay ==
    ASSUME TypeOK, NEW r \in Requests, NEW q, req' = [req EXCEPT ![r] = q]
    PROVE  /\ req'[r] = q
           /\ \A p \in Requests \ {r} : req'[p] = req[p]
BY DEF TypeOK, RequestsOK

(* Going on keeps everything but the next statement. *)
LEMMA GotoFields ==
    ASSUME TypeOK, NEW r \in Requests, req[r] # Idle,
           NEW w \in JobWrites \cup ProposalWrites, req' = Goto(r, w)
    PROVE  /\ req'[r] \in InFlight
           /\ req'[r].next = w
           /\ req'[r].job = req[r].job
           /\ req'[r].user = req[r].user
           /\ req'[r].limit = req[r].limit
           /\ \A p \in Requests \ {r} : req'[p] = req[p]
           /\ req' = [req EXCEPT ![r] = req'[r]]
<1>1. req[r] \in InFlight
  BY RequestFields
<1>2. req'[r] = [req[r] EXCEPT !.next = w]
  BY DEF Goto, TypeOK, RequestsOK
<1>3. QED
  BY <1>1, <1>2 DEF Goto, TypeOK, RequestsOK, InFlight

LEMMA GotoOK ==
    ASSUME TypeOK, NEW r \in Requests, req[r] # Idle, used' = used,
           NEW w \in ProposalWrites, req' = Goto(r, w),
           req[r].user \in Users
    PROVE  RequestsOK'
<1>1. /\ req'[r] \in InFlight
      /\ req'[r].job = req[r].job
      /\ req'[r].user = req[r].user
      /\ req' = [req EXCEPT ![r] = req'[r]]
  BY GotoFields
<1>2. req[r].job \in used'
  BY RequestFields
<1>3. QED
  BY <1>1, <1>2, RequestsStayOK DEF TypeOK

(* Only the request changes, and it is one about an existing job. *)
LEMMA BeginOK ==
    ASSUME TypeOK, NEW r \in Requests, NEW w \in JobWrites \cup ProposalWrites,
           NEW j \in Exists, NEW u \in Users \cup {Nobody}, NEW l \in Nat, NEW e \in Edit,
           w \in ProposalWrites => u \in Users,
           req' = [req EXCEPT ![r] = Request(w, j, u, l, e)],
           UNCHANGED tables
    PROVE  TablesOK' /\ RequestsOK'
<1>1. j \in JobIds /\ j \in used
  BY DEF Exists, TypeOK, TablesOK
<1>2. /\ Request(w, j, u, l, e) \in InFlight
      /\ Request(w, j, u, l, e).job = j
      /\ Request(w, j, u, l, e).next = w
      /\ Request(w, j, u, l, e).user = u
  BY <1>1, RequestRecord
<1>3. used' = used
  BY DEF tables
<1>4. RequestsOK'
  BY <1>1, <1>2, <1>3, RequestsStayOK DEF TypeOK
<1>5. TablesOK'
  BY DEF TypeOK, TablesOK, tables, Exists, Applicants
<1>6. QED
  BY <1>4, <1>5

-----------------------------------------------------------------------------
(* Types *)

(* A statement that updates a row of jobs, and nothing else of the tables. *)
LEMMA RowStepOK ==
    ASSUME TypeOK, NEW r \in Requests, NEW row, UpdateJobRow(r, row),
           req[r].job \in Exists => row \in Rows,
           UNCHANGED <<used, proposal>>
    PROVE  TablesOK' /\ RequestsOK' /\ Exists' = Exists
<1>1. /\ job' \in [JobIds -> Rows \cup {NoJob}]
      /\ Exists' = Exists
      /\ req' = Done(r)
  BY UpdatedTable
<1>2. TablesOK'
  BY <1>1 DEF TypeOK, TablesOK, Applicants
<1>3. RequestsOK'
  BY <1>1, DoneOK DEF TypeOK
<1>4. QED
  BY <1>1, <1>2, <1>3

(* A statement that changes one status of one existing proposal. *)
LEMMA ProposalStepOK ==
    ASSUME TypeOK, NEW j \in Exists, NEW u \in Users, NEW s \in ProposalStatuses,
           proposal' = [proposal EXCEPT ![j][u] = s], UNCHANGED <<used, job>>
    PROVE  /\ TablesOK'
           /\ Exists' = Exists
           /\ \A i \in JobIds, v \in Users :
                 proposal'[i][v] = IF i = j /\ v = u THEN s ELSE proposal[i][v]
<1>1. j \in JobIds
  BY DEF Exists
<1>2. proposal \in [JobIds -> [Users -> ProposalStatuses \cup {"none"}]]
  BY DEF TypeOK, TablesOK
<1>3. \A i \in JobIds, v \in Users :
         proposal'[i][v] = IF i = j /\ v = u THEN s ELSE proposal[i][v]
  BY <1>1, <1>2
<1>4. proposal' \in [JobIds -> [Users -> ProposalStatuses \cup {"none"}]]
  BY <1>1, <1>2
<1>5. Exists' = Exists
  BY DEF Exists
<1>6. \A i \in JobIds \ Exists' : Applicants(i)' = {}
  BY <1>3, <1>5 DEF TypeOK, TablesOK, Applicants
<1>7. QED
  BY <1>3, <1>4, <1>5, <1>6 DEF TypeOK, TablesOK

LEMMA TypeInit == Init => TypeOK
<1> SUFFICES ASSUME Init PROVE TypeOK
  OBVIOUS
<1>1. Exists = {}
  BY DEF Init, Exists
<1>2. \A j \in JobIds : Applicants(j) = {}
  BY DEF Init, Applicants
<1>3. TablesOK
  BY <1>1, <1>2 DEF Init, TablesOK
<1>4. RequestsOK
  BY DEF Init, RequestsOK, Idle
<1>5. QED
  BY <1>3, <1>4 DEF Init, TypeOK, HistoryOK

(* What a request that arrives goes to do, and what it found. *)
Arrival(r, w, j, u, l, e) ==
    /\ req' = [req EXCEPT ![r] = Request(w, j, u, l, e)]
    /\ w \in ProposalWrites => u \in Users
    /\ w \in {"count", "submit"} => w = "count" /\ u # job[j].client /\ l = job[j].limit
    /\ w \in Decisions => u \in Applicants(j) /\ w # "hire"
    /\ w = "accepted" =>
         /\ job[j].status = "active"
         /\ Accepting(j) = {} \/ j \in reopened'

(* The handlers' first steps change nothing but the request. *)
LEMMA ArriveOK ==
    ASSUME TypeOK, NEW r \in Requests, Arrive(r)
    PROVE  /\ TablesOK' /\ RequestsOK'
           /\ UNCHANGED tables /\ topLimit' = topLimit
           /\ reopened' = reopened \/ \E j \in Exists : reopened' = reopened \cup {j}
           /\ req[r] = Idle
           /\ \E j \in Exists, w \in JobWrites \cup ProposalWrites,
                 u \in Users \cup {Nobody}, l \in Nat, e \in Edit : Arrival(r, w, j, u, l, e)
<1> USE DEF JobWrites, ProposalWrites, Decisions, Verdicts
<1>1. PICK j \in JobIds :
        \/ PublishRead(r, j)
        \/ \E e \in Edits : UpdateJobRead(r, j, e)
        \/ DeleteJobRead(r, j)
        \/ PauseJobRead(r, j)
        \/ ResumeJobRead(r, j)
        \/ \E u \in Users :
              \/ \E verdict \in Verdicts : DecideRead(r, j, u, verdict)
              \/ SubmitRead(r, j, u)
              \/ WithdrawRead(r, j, u)
  BY DEF Arrive
<1>2. Keeping \in Edit /\ Nobody \in Users \cup {Nobody} /\ 0 \in Nat
  BY KeepingIsAnEdit
<1>3. CASE PublishRead(r, j) \/ PauseJobRead(r, j) \/ ResumeJobRead(r, j) \/ DeleteJobRead(r, j)
  <2>1. j \in Exists /\ job[j].status \in Statuses
    BY <1>3, ExistingRow, RowUpdates
       DEF PublishRead, PauseJobRead, ResumeJobRead, DeleteJobRead
  <2>2. DeleteBy[job[j].status] \in {"remove", "cancelled", "archived"}
    BY <2>1 DEF DeleteBy, Statuses
  <2>3. PICK w \in {"publish", "pause", "resume", "remove", "cancelled", "archived"} :
           BeginOnJob(r, w, j)
    BY <1>3, <2>2 DEF PublishRead, PauseJobRead, ResumeJobRead, DeleteJobRead
  <2>4. /\ req[r] = Idle
        /\ req' = [req EXCEPT ![r] = Request(w, j, Nobody, 0, Keeping)]
        /\ UNCHANGED <<tables, history>>
    BY <2>3 DEF BeginOnJob, Begin
  <2>5. w \in JobWrites \cup ProposalWrites /\ w \notin ProposalWrites
    OBVIOUS
  <2>6. TablesOK' /\ RequestsOK'
    BY <1>2, <2>1, <2>4, <2>5, BeginOK
  <2>7. Arrival(r, w, j, Nobody, 0, Keeping)
    BY <2>4, <2>5 DEF Arrival
  <2>8. QED
    BY <1>2, <2>1, <2>4, <2>5, <2>6, <2>7 DEF history
<1>4. CASE \E e \in Edits : UpdateJobRead(r, j, e)
  <2>1. PICK e \in Edits : UpdateJobRead(r, j, e)
    BY <1>4
  <2>2. j \in Exists /\ job[j].status \in Statuses
    BY <2>1, ExistingRow, RowUpdates DEF UpdateJobRead
  <2> DEFINE d == [e EXCEPT !.status = IF e.status = job[j].status THEN Keep ELSE e.status]
  <2>3. d \in Edit
    BY JobsAssumption DEF Edit
  <2>4. /\ req[r] = Idle
        /\ req' = [req EXCEPT ![r] = Request("edit", j, Nobody, 0, d)]
        /\ UNCHANGED <<tables, history>>
    BY <2>1 DEF UpdateJobRead, Begin
  <2> HIDE DEF d
  <2>5. TablesOK' /\ RequestsOK'
    BY <1>2, <2>2, <2>3, <2>4, BeginOK
  <2>6. Arrival(r, "edit", j, Nobody, 0, d)
    BY <2>4 DEF Arrival
  <2>7. QED
    BY <1>2, <2>2, <2>3, <2>4, <2>5, <2>6 DEF history
<1>5. CASE \E u \in Users, verdict \in Verdicts : DecideRead(r, j, u, verdict)
  <2> PICK u \in Users, verdict \in Verdicts : DecideRead(r, j, u, verdict)
    BY <1>5
  <2>1. /\ j \in Exists /\ u \in Applicants(j) /\ req[r] = Idle
        /\ req' = [req EXCEPT ![r] = Request(verdict, j, u, 0, Keeping)]
        /\ verdict = "accepted" => job[j].status = "active"
        /\ reopened' = IF verdict = "accepted" /\ Accepting(j) # {}
                       THEN reopened \cup {j} ELSE reopened
        /\ UNCHANGED <<tables, topLimit>>
    BY DEF DecideRead
  <2>2. TablesOK' /\ RequestsOK'
    BY <1>2, <2>1, BeginOK
  <2>3. Arrival(r, verdict, j, u, 0, Keeping)
    BY <2>1 DEF Arrival
  <2>4. QED
    BY <1>2, <2>1, <2>2, <2>3
<1>6. CASE \E u \in Users : SubmitRead(r, j, u)
  <2>1. PICK u \in Users : SubmitRead(r, j, u)
    BY <1>6
  <2>2. j \in Exists /\ job[j].limit \in Nat
    BY <2>1, ExistingRow, RowUpdates, JobsAssumption DEF SubmitRead
  <2>3. /\ req[r] = Idle /\ u # job[j].client
        /\ req' = [req EXCEPT ![r] = Request("count", j, u, job[j].limit, Keeping)]
        /\ UNCHANGED <<tables, history>>
    BY <2>1 DEF SubmitRead, Begin
  <2>4. TablesOK' /\ RequestsOK'
    BY <1>2, <2>2, <2>3, BeginOK
  <2>5. Arrival(r, "count", j, u, job[j].limit, Keeping)
    BY <2>3 DEF Arrival
  <2>6. QED
    BY <1>2, <2>2, <2>3, <2>4, <2>5 DEF history
<1>7. CASE \E u \in Users : WithdrawRead(r, j, u)
  <2>1. PICK u \in Users : WithdrawRead(r, j, u)
    BY <1>7
  <2>2. j \in Exists /\ u \in Applicants(j)
    BY <2>1 DEF WithdrawRead, Applicants
  <2>3. /\ req[r] = Idle
        /\ req' = [req EXCEPT ![r] = Request("withdrawn", j, u, 0, Keeping)]
        /\ UNCHANGED <<tables, history>>
    BY <2>1 DEF WithdrawRead, Begin
  <2>4. TablesOK' /\ RequestsOK'
    BY <1>2, <2>2, <2>3, BeginOK
  <2>5. Arrival(r, "withdrawn", j, u, 0, Keeping)
    BY <2>2, <2>3 DEF Arrival
  <2>6. QED
    BY <1>2, <2>2, <2>3, <2>4, <2>5 DEF history
<1>8. QED
  BY <1>1, <1>3, <1>4, <1>5, <1>6, <1>7

(* The statements that update a row of jobs. *)
RowStep(r) == Publish(r) \/ UpdateJob(r) \/ CancelOrArchive(r) \/ PauseOrResume(r) \/ Hire(r)

LEMMA RowStepEffect ==
    ASSUME TypeOK, NEW r \in Requests, RowStep(r)
    PROVE  /\ req[r] # Idle /\ ~Doing(r, "accepted")
           /\ req' = Done(r) /\ used' = used /\ proposal' = proposal
           /\ TablesOK' /\ RequestsOK' /\ HistoryOK' /\ Exists' = Exists
           /\ reopened \subseteq reopened'
           /\ \A j \in JobIds : topLimit[j] <= topLimit'[j]
           /\ \A j \in JobIds : j # req[r].job \/ j \notin Exists => job'[j] = job[j]
           /\ \A j \in Exists :
                /\ job'[j].client = job[j].client
                /\ job'[j].limit = job[j].limit \/ job'[j].limit <= topLimit'[j]
                /\ IF Hire(r) /\ j = req[r].job
                   THEN job'[j].freelancer = req[r].user /\ job'[j].status = "in_progress"
                   ELSE /\ job'[j].freelancer = job[j].freelancer
                        /\ job'[j].status = "active" =>
                             job[j].status = "active" \/ ~Filled(j) \/ j \in reopened'
<1> DEFINE j == req[r].job
<1> USE DEF JobWrites, ProposalWrites, Decisions, Verdicts, Statuses
<1>1. /\ req[r] # Idle /\ ~Doing(r, "accepted")
  BY NotIdle DEF RowStep, Doing, Publish, UpdateJob, CancelOrArchive, PauseOrResume, Hire
<1>2. /\ j \in used /\ req[r].edit \in Edit
      /\ req[r].next \in ProposalWrites => req[r].user \in Users
  BY <1>1, RequestFields
<1>3. j \in Exists => job[j] \in Rows
  BY ExistingRow
<1> HIDE DEF j
<1>4. CASE UpdateJob(r)
  <2> DEFINE e == req[r].edit
  <2>1. e \in Edit /\ e.limit \in Limits \cup {Keep} /\ Limits \subseteq Nat \ {0}
    BY <1>2, JobsAssumption DEF Edit
  <2>2. UpdateJobRow(r, Edited(job[j], e))
    BY <1>4 DEF UpdateJob, Edited, j
  <2>3. /\ topLimit' = IF j \in Exists /\ e.limit # Keep /\ e.limit > topLimit[j]
                       THEN [topLimit EXCEPT ![j] = e.limit] ELSE topLimit
        /\ Reopen(j, e.status) /\ UNCHANGED <<used, proposal>>
    BY <1>4 DEF UpdateJob, j
  <2>4. ~Hire(r)
    BY <1>4 DEF UpdateJob, Hire, Doing
  <2>5. j \in Exists =>
          /\ Edited(job[j], e) \in Rows
          /\ Edited(job[j], e).client = job[j].client
          /\ Edited(job[j], e).freelancer = job[j].freelancer
          /\ Edited(job[j], e).status = New(e.status, job[j].status)
          /\ Edited(job[j], e).limit = New(e.limit, job[j].limit)
    BY <1>3, <2>1, EditedRow
  <2> HIDE DEF e
  <2>6. /\ TablesOK' /\ RequestsOK' /\ Exists' = Exists
    BY <2>2, <2>3, <2>5, RowStepOK DEF j
  <2>7. /\ j \in Exists => job'[j] = Edited(job[j], e)
        /\ \A i \in JobIds : i # j \/ i \notin Exists => job'[i] = job[i]
        /\ req' = Done(r)
    BY <2>2, <2>5, UpdatedTable DEF j
  <2>8. /\ topLimit' \in [JobIds -> Nat]
        /\ \A i \in JobIds : topLimit[i] <= topLimit'[i]
        /\ j \in Exists /\ e.limit # Keep => e.limit <= topLimit'[j]
    <3>1. topLimit \in [JobIds -> Nat]
      BY DEF TypeOK, HistoryOK
    <3>2. CASE j \in Exists /\ e.limit # Keep /\ e.limit > topLimit[j]
      <4>1. j \in JobIds /\ e.limit \in Nat /\ topLimit' = [topLimit EXCEPT ![j] = e.limit]
        BY <2>1, <2>3, <3>2 DEF Exists
      <4>2. topLimit[j] \in Nat /\ topLimit[j] <= e.limit
        BY <3>1, <3>2, <4>1
      <4>3. /\ topLimit' \in [JobIds -> Nat] /\ topLimit'[j] = e.limit
            /\ \A i \in JobIds : i # j => topLimit'[i] = topLimit[i]
        BY <3>1, <4>1
      <4>4. QED
        BY <3>1, <4>1, <4>2, <4>3
    <3>3. CASE ~(j \in Exists /\ e.limit # Keep /\ e.limit > topLimit[j])
      <4>1. topLimit' = topLimit
        BY <2>3, <3>3
      <4>2. j \in Exists /\ e.limit # Keep => e.limit \in Nat /\ topLimit[j] \in Nat
        BY <2>1, <3>1 DEF Exists
      <4>3. QED
        BY <3>1, <3>3, <4>1, <4>2
    <3>4. QED
      BY <3>2, <3>3
  <2>9. reopened' \subseteq used /\ reopened \subseteq reopened'
        /\ (j \in Exists /\ e.status = "active" /\ Filled(j) => j \in reopened')
    BY <1>2, <2>3 DEF Reopen, TypeOK, HistoryOK
  <2>10. HistoryOK'
    BY <2>3, <2>8, <2>9 DEF HistoryOK
  <2>11. ASSUME NEW i \in Exists
         PROVE  /\ job'[i].client = job[i].client
                /\ job'[i].limit = job[i].limit \/ job'[i].limit <= topLimit'[i]
                /\ job'[i].freelancer = job[i].freelancer
                /\ job'[i].status = "active" =>
                     job[i].status = "active" \/ ~Filled(i) \/ i \in reopened'
    <3>1. CASE i = j
      BY <2>5, <2>7, <2>8, <2>9, <3>1 DEF New
    <3>2. CASE i # j
      BY <2>7, <3>2 DEF Exists
    <3>3. QED
      BY <3>1, <3>2
  <2>12. QED
    BY <1>1, <2>3, <2>4, <2>6, <2>7, <2>8, <2>9, <2>10, <2>11 DEF j
<1>5. ASSUME NEW row, UpdateJobRow(r, row), ~Hire(r),
             j \in Exists => /\ row \in Rows
                             /\ row.client = job[j].client
                             /\ row.limit = job[j].limit
                             /\ row.freelancer = job[j].freelancer
                             /\ row.status = "active" =>
                                  job[j].status = "active" \/ ~Filled(j) \/ j \in reopened',
             UNCHANGED <<used, proposal, topLimit>>,
             reopened \subseteq reopened', reopened' \subseteq used
      PROVE  /\ req' = Done(r) /\ TablesOK' /\ RequestsOK' /\ HistoryOK' /\ Exists' = Exists
             /\ \A i \in JobIds : topLimit[i] <= topLimit'[i]
             /\ \A i \in JobIds : i # j \/ i \notin Exists => job'[i] = job[i]
             /\ \A i \in Exists :
                  /\ job'[i].client = job[i].client
                  /\ job'[i].limit = job[i].limit
                  /\ job'[i].freelancer = job[i].freelancer
                  /\ job'[i].status = "active" =>
                       job[i].status = "active" \/ ~Filled(i) \/ i \in reopened'
  <2>1. /\ TablesOK' /\ RequestsOK' /\ Exists' = Exists
    BY <1>5, RowStepOK DEF j
  <2>2. /\ j \in Exists => job'[j] = row
        /\ \A i \in JobIds : i # j \/ i \notin Exists => job'[i] = job[i]
        /\ req' = Done(r)
    BY <1>5, UpdatedTable DEF j
  <2>3. HistoryOK' /\ \A i \in JobIds : topLimit[i] <= topLimit'[i]
    BY <1>5 DEF TypeOK, HistoryOK
  <2>4. ASSUME NEW i \in Exists
        PROVE  /\ job'[i].client = job[i].client
               /\ job'[i].limit = job[i].limit
               /\ job'[i].freelancer = job[i].freelancer
               /\ job'[i].status = "active" =>
                    job[i].status = "active" \/ ~Filled(i) \/ i \in reopened'
    <3>1. CASE i = j
      BY <1>5, <2>2, <3>1
    <3>2. CASE i # j
      BY <2>2, <3>2 DEF Exists
    <3>3. QED
      BY <3>1, <3>2
  <2>5. QED
    BY <2>1, <2>2, <2>3, <2>4
<1>6. CASE Publish(r)
  <2>1. /\ UpdateJobRow(r, SetStatus(job[j], "active")) /\ Reopen(j, "active")
        /\ UNCHANGED <<used, proposal, topLimit>> /\ ~Hire(r)
    BY <1>6 DEF Publish, Hire, Doing, j
  <2>2. /\ reopened \subseteq reopened' /\ reopened' \subseteq used
        /\ j \in Exists /\ Filled(j) => j \in reopened'
    BY <1>2, <2>1 DEF Reopen, TypeOK, HistoryOK
  <2>3. j \in Exists => /\ SetStatus(job[j], "active") \in Rows
                        /\ SetStatus(job[j], "active").client = job[j].client
                        /\ SetStatus(job[j], "active").limit = job[j].limit
                        /\ SetStatus(job[j], "active").freelancer = job[j].freelancer
    BY <1>3, RowUpdates
  <2>4. QED
    BY <1>1, <1>5, <2>1, <2>2, <2>3 DEF j
<1>7. CASE CancelOrArchive(r)
  <2> DEFINE s == req[r].next
  <2>1. /\ UpdateJobRow(r, SetStatus(job[j], s)) /\ s \in {"cancelled", "archived"}
        /\ UNCHANGED <<used, proposal, topLimit, reopened>> /\ ~Hire(r)
    BY <1>7 DEF CancelOrArchive, Hire, Doing, j, history
  <2>2. reopened \subseteq reopened' /\ reopened' \subseteq used
    BY <2>1 DEF TypeOK, HistoryOK
  <2> HIDE DEF s
  <2>3. j \in Exists => /\ SetStatus(job[j], s) \in Rows
                        /\ SetStatus(job[j], s).client = job[j].client
                        /\ SetStatus(job[j], s).status = s
                        /\ SetStatus(job[j], s).limit = job[j].limit
                        /\ SetStatus(job[j], s).freelancer = job[j].freelancer
    BY <1>3, <2>1, RowUpdates
  <2>4. QED
    BY <1>1, <1>5, <2>1, <2>2, <2>3 DEF j
<1>8. CASE PauseOrResume(r)
  <2> DEFINE h == Doing(r, "pause")
  <2>1. /\ UpdateJobRow(r, SetHidden(job[j], h)) /\ h \in BOOLEAN
        /\ UNCHANGED <<used, proposal, topLimit, reopened>> /\ ~Hire(r)
    BY <1>8 DEF PauseOrResume, Hire, Doing, j, history
  <2>2. reopened \subseteq reopened' /\ reopened' \subseteq used
    BY <2>1 DEF TypeOK, HistoryOK
  <2> HIDE DEF h
  <2>3. j \in Exists => /\ SetHidden(job[j], h) \in Rows
                        /\ SetHidden(job[j], h).client = job[j].client
                        /\ SetHidden(job[j], h).status = job[j].status
                        /\ SetHidden(job[j], h).limit = job[j].limit
                        /\ SetHidden(job[j], h).freelancer = job[j].freelancer
    BY <1>3, <2>1, RowUpdates
  <2>4. QED
    BY <1>1, <1>5, <2>1, <2>2, <2>3 DEF j
<1>9. CASE Hire(r)
  <2> DEFINE u == req[r].user
  <2>1. /\ UpdateJobRow(r, SetFreelancer(job[j], u)) /\ u \in Users
        /\ UNCHANGED <<used, proposal, topLimit, reopened>>
    BY <1>2, <1>9 DEF Hire, Doing, j, history
  <2> HIDE DEF u
  <2>2. j \in Exists => /\ SetFreelancer(job[j], u) \in Rows
                        /\ SetFreelancer(job[j], u).client = job[j].client
                        /\ SetFreelancer(job[j], u).status = "in_progress"
                        /\ SetFreelancer(job[j], u).limit = job[j].limit
                        /\ SetFreelancer(job[j], u).freelancer = u
    BY <1>3, <2>1, RowUpdates
  <2>3. /\ TablesOK' /\ RequestsOK' /\ Exists' = Exists
    BY <2>1, <2>2, RowStepOK DEF j
  <2>4. /\ j \in Exists => job'[j] = SetFreelancer(job[j], u)
        /\ \A i \in JobIds : i # j \/ i \notin Exists => job'[i] = job[i]
        /\ req' = Done(r)
    BY <2>1, <2>2, UpdatedTable DEF j
  <2>5. HistoryOK' /\ \A i \in JobIds : topLimit[i] <= topLimit'[i]
    BY <2>1 DEF TypeOK, HistoryOK
  <2>6. ASSUME NEW i \in Exists
        PROVE  /\ job'[i].client = job[i].client
               /\ job'[i].limit = job[i].limit
               /\ i = j => job'[i].freelancer = u /\ job'[i].status = "in_progress"
               /\ i # j => job'[i] = job[i]
    <3>1. CASE i = j
      BY <2>2, <2>4, <3>1
    <3>2. CASE i # j
      BY <2>4, <3>2 DEF Exists
    <3>3. QED
      BY <3>1, <3>2
  <2>7. QED
    BY <1>1, <1>9, <2>1, <2>3, <2>4, <2>5, <2>6 DEF j, u
<1>10. QED
  BY <1>4, <1>6, <1>7, <1>8, <1>9 DEF RowStep

LEMMA WriteProposalEffect ==
    ASSUME TypeOK, NEW r \in Requests, WriteProposal(r)
    PROVE  /\ TablesOK' /\ RequestsOK' /\ HistoryOK' /\ Exists' = Exists
           /\ UNCHANGED <<used, job, topLimit, reopened>>
           /\ req[r] # Idle /\ req[r].next \in Verdicts \cup {"withdrawn"}
           /\ req[r].job \in JobIds /\ req[r].user \in Users
           /\ IF req[r].user \in Applicants(req[r].job)
              THEN /\ req[r].job \in Exists
                   /\ \A i \in JobIds, v \in Users :
                         proposal'[i][v] = IF i = req[r].job /\ v = req[r].user
                                           THEN req[r].next ELSE proposal[i][v]
                   /\ req' = IF Doing(r, "accepted") THEN Goto(r, "hire") ELSE Done(r)
              ELSE proposal' = proposal /\ req' = Done(r)
<1> DEFINE j == req[r].job
           u == req[r].user
           s == req[r].next
<1>1. s \in Verdicts \cup {"withdrawn"} /\ s \in ProposalStatuses /\ s \in ProposalWrites
  BY DEF WriteProposal, ProposalStatuses, ProposalWrites, Decisions
<1>2. req[r] # Idle
  BY <1>1, NotIdle
<1>3. j \in JobIds /\ u \in Users
  BY <1>1, <1>2, RequestFields
<1>4. /\ proposal' = IF u \in Applicants(j) THEN [proposal EXCEPT ![j][u] = s] ELSE proposal
      /\ req' = IF u \in Applicants(j) /\ Doing(r, "accepted") THEN Goto(r, "hire") ELSE Done(r)
      /\ UNCHANGED <<used, job, topLimit, reopened>>
  BY <1>3 DEF WriteProposal, Applicants, history
<1> HIDE DEF j, u, s
<1>5. HistoryOK' /\ Exists' = Exists
  BY <1>4 DEF TypeOK, HistoryOK, Exists
<1>6. RequestsOK'
  <2>1. CASE req' = Done(r)
    BY <1>4, <2>1, DoneOK DEF TypeOK
  <2>2. CASE req' = Goto(r, "hire")
    BY <1>2, <1>3, <1>4, <2>2, GotoOK DEF ProposalWrites, Decisions, u
  <2>3. QED
    BY <1>4, <2>1, <2>2
<1>7. CASE u \in Applicants(j)
  <2>1. j \in Exists
    BY <1>3, <1>7 DEF TypeOK, TablesOK
  <2>2. /\ TablesOK'
        /\ \A i \in JobIds, v \in Users :
              proposal'[i][v] = IF i = j /\ v = u THEN s ELSE proposal[i][v]
    BY <1>1, <1>3, <1>4, <1>7, <2>1, ProposalStepOK
  <2>3. QED
    BY <1>1, <1>2, <1>3, <1>4, <1>5, <1>6, <1>7, <2>1, <2>2 DEF j, u, s
<1>8. CASE u \notin Applicants(j)
  <2>1. TablesOK'
    BY <1>4, <1>8 DEF TypeOK, TablesOK, Exists, Applicants
  <2>2. QED
    BY <1>1, <1>2, <1>3, <1>4, <1>5, <1>6, <1>8, <2>1 DEF j, u, s
<1>9. QED
  BY <1>7, <1>8

LEMMA SubmitEffect ==
    ASSUME TypeOK, NEW r \in Requests, SubmitProposal(r)
    PROVE  /\ TablesOK' /\ RequestsOK' /\ HistoryOK' /\ Exists' = Exists
           /\ UNCHANGED <<used, job, topLimit, reopened>> /\ req' = Done(r)
           /\ req[r] # Idle /\ Doing(r, "submit")
           /\ req[r].job \in JobIds /\ req[r].user \in Users
           /\ IF req[r].job \in Exists /\ req[r].user \notin Applicants(req[r].job)
              THEN \A i \in JobIds, v \in Users :
                      proposal'[i][v] = IF i = req[r].job /\ v = req[r].user
                                        THEN "submitted" ELSE proposal[i][v]
              ELSE proposal' = proposal
<1> DEFINE j == req[r].job
           u == req[r].user
<1>1. "submit" \in ProposalWrites /\ "submitted" \in ProposalStatuses /\ Doing(r, "submit")
  BY DEF SubmitProposal, ProposalStatuses, ProposalWrites
<1>2. req[r] # Idle
  BY <1>1, NotIdle DEF Doing
<1>3. j \in JobIds /\ u \in Users
  BY <1>1, <1>2, RequestFields DEF Doing
<1>4. /\ proposal' = IF j \in Exists /\ u \notin Applicants(j)
                     THEN [proposal EXCEPT ![j][u] = "submitted"] ELSE proposal
      /\ req' = Done(r)
      /\ UNCHANGED <<used, job, topLimit, reopened>>
  BY <1>3 DEF SubmitProposal, Applicants, history
<1> HIDE DEF j, u
<1>5. HistoryOK' /\ Exists' = Exists /\ RequestsOK'
  BY <1>4, DoneOK DEF TypeOK, HistoryOK, Exists
<1>6. CASE j \in Exists /\ u \notin Applicants(j)
  <2>1. /\ TablesOK'
        /\ \A i \in JobIds, v \in Users :
              proposal'[i][v] = IF i = j /\ v = u THEN "submitted" ELSE proposal[i][v]
    BY <1>1, <1>3, <1>4, <1>6, ProposalStepOK
  <2>2. QED
    BY <1>1, <1>2, <1>3, <1>4, <1>5, <1>6, <2>1 DEF j, u
<1>7. CASE ~(j \in Exists /\ u \notin Applicants(j))
  <2>1. TablesOK'
    BY <1>4, <1>7 DEF TypeOK, TablesOK, Exists, Applicants
  <2>2. QED
    BY <1>1, <1>2, <1>3, <1>4, <1>5, <1>7, <2>1 DEF j, u
<1>8. QED
  BY <1>6, <1>7

LEMMA CountEffect ==
    ASSUME TypeOK, NEW r \in Requests, CountProposals(r)
    PROVE  /\ TablesOK' /\ RequestsOK' /\ HistoryOK'
           /\ UNCHANGED <<tables, history>>
           /\ req[r] # Idle /\ Doing(r, "count") /\ req[r].user \in Users
           /\ \/ req' = Done(r)
              \/ /\ req' = Goto(r, "submit")
                 /\ ~(Cardinality(Applicants(req[r].job)) >= req[r].limit)
<1>1. "count" \in ProposalWrites /\ "submit" \in ProposalWrites /\ Doing(r, "count")
  BY DEF CountProposals, ProposalWrites
<1>2. req[r] # Idle
  BY <1>1, NotIdle DEF Doing
<1>3. req[r].user \in Users
  BY <1>1, <1>2, RequestFields DEF Doing
<1>4. /\ UNCHANGED <<tables, history>>
      /\ \/ req' = Done(r)
         \/ /\ req' = Goto(r, "submit")
            /\ ~(Cardinality(Applicants(req[r].job)) >= req[r].limit)
  BY DEF CountProposals
<1>5. used' = used
  BY <1>4 DEF tables
<1>6. RequestsOK'
  BY <1>1, <1>2, <1>3, <1>4, <1>5, DoneOK, GotoOK DEF TypeOK
<1>7. TablesOK' /\ HistoryOK'
  BY <1>4 DEF TypeOK, TablesOK, HistoryOK, tables, history, Exists, Applicants
<1>8. QED
  BY <1>1, <1>2, <1>3, <1>4, <1>6, <1>7

LEMMA RemoveEffect ==
    ASSUME TypeOK, NEW r \in Requests, RemoveJob(r)
    PROVE  /\ TablesOK' /\ RequestsOK' /\ HistoryOK'
           /\ UNCHANGED <<used, topLimit, reopened>> /\ req' = Done(r)
           /\ req[r] # Idle /\ Doing(r, "remove") /\ req[r].job \in JobIds
           /\ Exists' = Exists \ {req[r].job}
           /\ \A i \in JobIds \ {req[r].job} : job'[i] = job[i] /\ proposal'[i] = proposal[i]
           /\ proposal'[req[r].job] = [u \in Users |-> "none"]
<1>1. req[r] # Idle /\ Doing(r, "remove")
  BY NotIdle DEF RemoveJob, Doing, JobWrites
<1>2. PICK j \in JobIds : j = req[r].job
  BY <1>1, RequestFields
<1>3. /\ job' = [job EXCEPT ![j] = NoJob]
      /\ proposal' = [proposal EXCEPT ![j] = [u \in Users |-> "none"]]
      /\ UNCHANGED <<used, topLimit, reopened>> /\ req' = Done(r)
  BY <1>2 DEF RemoveJob, history
<1>4. \A i \in JobIds \ {j} : job'[i] = job[i] /\ proposal'[i] = proposal[i]
  BY <1>3 DEF TypeOK, TablesOK
<1>5. job'[j] = NoJob /\ proposal'[j] = [u \in Users |-> "none"]
  BY <1>2, <1>3 DEF TypeOK, TablesOK
<1>6. Exists' = Exists \ {j}
  BY <1>2, <1>4, <1>5 DEF Exists
<1>7. Applicants(j)' = {}
  BY <1>5 DEF Applicants
<1>8. \A i \in JobIds \ {j} : Applicants(i)' = Applicants(i)
  BY <1>4 DEF Applicants
<1>9. job' \in [JobIds -> Rows \cup {NoJob}]
  BY <1>3 DEF TypeOK, TablesOK
<1>10. proposal' \in [JobIds -> [Users -> ProposalStatuses \cup {"none"}]]
  BY <1>3 DEF TypeOK, TablesOK
<1>11. TablesOK'
  BY <1>3, <1>6, <1>7, <1>8, <1>9, <1>10 DEF TypeOK, TablesOK
<1>12. RequestsOK' /\ HistoryOK'
  BY <1>3, DoneOK DEF TypeOK, HistoryOK
<1>13. QED
  BY <1>1, <1>2, <1>3, <1>4, <1>5, <1>6, <1>11, <1>12

LEMMA CreateEffect ==
    ASSUME TypeOK, NEW u \in Users, CreateJob(u)
    PROVE  /\ TablesOK' /\ RequestsOK' /\ HistoryOK'
           /\ UNCHANGED <<proposal, req, reopened>>
           /\ \E j \in JobIds \ used, l \in Limits :
                /\ used' = used \cup {j} /\ Exists' = Exists \cup {j}
                /\ \A i \in JobIds \ {j} : job'[i] = job[i] /\ topLimit'[i] = topLimit[i]
                /\ job'[j].client = u /\ job'[j].freelancer = Nobody
                /\ job'[j].limit = l /\ topLimit'[j] = l
<1>1. PICK j \in JobIds \ used, k \in BOOLEAN, h \in BOOLEAN, l \in Limits :
        /\ used' = used \cup {j}
        /\ job' = [job EXCEPT ![j] = Row(u, "draft", k, h, l, Nobody)]
        /\ topLimit' = [topLimit EXCEPT ![j] = l]
        /\ UNCHANGED <<proposal, req, reopened>>
  BY DEF CreateJob
<1> DEFINE row == Row(u, "draft", k, h, l, Nobody)
<1>2. row \in Rows /\ row.client = u /\ row.freelancer = Nobody /\ row.limit = l
  BY DEF Row, Rows, Statuses
<1>3. job' = [job EXCEPT ![j] = row]
  BY <1>1
<1> HIDE DEF row
<1>4. row # NoJob
  BY <1>2, JobsAssumption
<1>5. /\ job' \in [JobIds -> Rows \cup {NoJob}] /\ job'[j] = row
      /\ \A i \in JobIds \ {j} : job'[i] = job[i]
  BY <1>2, <1>3 DEF TypeOK, TablesOK
<1>6. /\ topLimit' \in [JobIds -> Nat] /\ topLimit'[j] = l
      /\ \A i \in JobIds \ {j} : topLimit'[i] = topLimit[i]
  BY <1>1, JobsAssumption DEF TypeOK, HistoryOK
<1>7. Exists' = Exists \cup {j}
  BY <1>4, <1>5 DEF Exists
<1>8. TablesOK'
  BY <1>1, <1>5, <1>7 DEF TypeOK, TablesOK, Applicants
<1>9. RequestsOK' /\ HistoryOK'
  BY <1>1, <1>6 DEF TypeOK, RequestsOK, HistoryOK
<1>10. QED
  BY <1>1, <1>2, <1>5, <1>6, <1>7, <1>8, <1>9

LEMMA ListEffect ==
    ASSUME TypeOK, ListActiveJobs
    PROVE  /\ TablesOK' /\ RequestsOK' /\ HistoryOK' /\ Exists' = Exists
           /\ UNCHANGED <<used, proposal, req, history>>
           /\ \A j \in Exists :
                /\ job'[j].client = job[j].client
                /\ job'[j].limit = job[j].limit
                /\ job'[j].freelancer = job[j].freelancer
                /\ job'[j].status = "active" => job[j].status = "active"
<1>1. PICK late \in SUBSET Exists :
        /\ job' = [j \in JobIds |-> IF j \in late THEN SetStatus(job[j], "archived") ELSE job[j]]
        /\ UNCHANGED <<used, proposal, req, history>>
  BY DEF ListActiveJobs
<1>2. "archived" \in Statuses /\ "archived" # "active"
  BY DEF Statuses
<1>3. ASSUME NEW j \in JobIds
      PROVE  /\ job'[j] \in Rows \cup {NoJob}
             /\ job'[j] # NoJob <=> j \in Exists
             /\ j \in Exists =>
                  /\ job'[j].client = job[j].client
                  /\ job'[j].limit = job[j].limit
                  /\ job'[j].freelancer = job[j].freelancer
                  /\ job'[j].status = "active" => job[j].status = "active"
  <2>1. CASE j \in late
    <3>1. job[j] \in Rows /\ j \in Exists /\ job'[j] = SetStatus(job[j], "archived")
      BY <1>1, <2>1, ExistingRow
    <3>2. /\ SetStatus(job[j], "archived") \in Rows
          /\ SetStatus(job[j], "archived").client = job[j].client
          /\ SetStatus(job[j], "archived").status = "archived"
          /\ SetStatus(job[j], "archived").limit = job[j].limit
          /\ SetStatus(job[j], "archived").freelancer = job[j].freelancer
      BY <1>2, <3>1, RowUpdates
    <3>3. QED
      BY <1>2, <3>1, <3>2, JobsAssumption
  <2>2. CASE j \notin late
    BY <1>1, <2>2 DEF TypeOK, TablesOK, Exists
  <2>3. QED
    BY <2>1, <2>2
<1>4. Exists' = Exists
  BY <1>3 DEF Exists
<1>5. TablesOK'
  BY <1>1, <1>3, <1>4 DEF TypeOK, TablesOK, Applicants
<1>6. RequestsOK' /\ HistoryOK'
  BY <1>1 DEF TypeOK, RequestsOK, HistoryOK, history
<1>7. QED
  BY <1>1, <1>3, <1>4, <1>5, <1>6 DEF Exists

LEMMA AbortEffect ==
    ASSUME TypeOK, NEW r \in Requests, Abort(r)
    PROVE  /\ TablesOK' /\ RequestsOK' /\ HistoryOK'
           /\ UNCHANGED <<tables, topLimit>> /\ req' = Done(r) /\ req[r] # Idle
           /\ reopened \subseteq reopened'
           /\ Doing(r, "hire") => req[r].job \in reopened'
<1>1. /\ UNCHANGED <<tables, topLimit>> /\ req' = Done(r) /\ req[r] # Idle
      /\ reopened' = IF Doing(r, "hire") THEN reopened \cup {req[r].job} ELSE reopened
  BY DEF Abort
<1>2. req[r].job \in used
  BY <1>1, RequestFields
<1>3. HistoryOK'
  BY <1>1, <1>2 DEF TypeOK, HistoryOK, tables
<1>4. RequestsOK'
  BY <1>1, DoneOK DEF TypeOK, tables
<1>5. TablesOK'
  BY <1>1 DEF TypeOK, TablesOK, tables, Exists, Applicants
<1>6. QED
  BY <1>1, <1>3, <1>4, <1>5

LEMMA TypeStep == TypeOK /\ [Next]_vars => TypeOK'
<1> SUFFICES ASSUME TypeOK, [Next]_vars PROVE TypeOK'
  OBVIOUS
<1>1. ASSUME NEW u \in Users, CreateJob(u) PROVE TypeOK'
  BY <1>1, CreateEffect DEF TypeOK
<1>2. CASE ListActiveJobs
  BY <1>2, ListEffect DEF TypeOK
<1>3. ASSUME NEW r \in Requests, Arrive(r) PROVE TypeOK'
  <2>1. /\ TablesOK' /\ RequestsOK' /\ UNCHANGED tables /\ topLimit' = topLimit
        /\ reopened' = reopened \/ \E j \in Exists : reopened' = reopened \cup {j}
    BY <1>3, ArriveOK
  <2>2. Exists \subseteq used
    BY DEF TypeOK, TablesOK
  <2>3. HistoryOK'
    BY <2>1, <2>2 DEF TypeOK, HistoryOK, tables
  <2>4. QED
    BY <2>1, <2>3 DEF TypeOK
<1>4. ASSUME NEW r \in Requests, Step(r) PROVE TypeOK'
  <2>1. CASE RowStep(r)
    BY <2>1, RowStepEffect DEF TypeOK
  <2>2. CASE RemoveJob(r)
    BY <2>2, RemoveEffect DEF TypeOK
  <2>3. CASE WriteProposal(r)
    BY <2>3, WriteProposalEffect DEF TypeOK
  <2>4. CASE CountProposals(r)
    BY <2>4, CountEffect DEF TypeOK
  <2>5. CASE SubmitProposal(r)
    BY <2>5, SubmitEffect DEF TypeOK
  <2>6. QED
    BY <1>4, <2>1, <2>2, <2>3, <2>4, <2>5 DEF Step, RowStep
<1>5. ASSUME NEW r \in Requests, Abort(r) PROVE TypeOK'
  BY <1>5, AbortEffect DEF TypeOK
<1>6. CASE UNCHANGED vars
  BY <1>6 DEF TypeOK, TablesOK, RequestsOK, HistoryOK, vars, tables, history, Exists, Applicants
<1>7. QED
  BY <1>1, <1>2, <1>3, <1>4, <1>5, <1>6 DEF Next

(* All variables keep their types; a request is about a job that was there
   when it came; a job that is gone has no proposals (onDelete: Cascade). *)
THEOREM TypeCorrect == Spec => []TypeOK
<1>1. QED
  BY TypeInit, TypeStep, PTL DEF Spec

-----------------------------------------------------------------------------
(* Freelancers apply before they are hired *)

LEMMA DoneFields ==
    ASSUME TypeOK, NEW r \in Requests, req' = Done(r)
    PROVE  req'[r] = Idle /\ \A p \in Requests \ {r} : req'[p] = req[p]
BY OthersStay DEF Done

(* What the requests but r know stays true as long as jobs keep their
   clients, and existing jobs their applicants. *)
LEMMA AgreeKept ==
    ASSUME TypeOK, RequestsAgree, NEW r \in Requests,
           \A p \in Requests \ {r} : req'[p] = req[p],
           Exists' \subseteq Exists,
           \A j \in Exists' : /\ job'[j].client = job[j].client
                              /\ \A u \in Applicants(j) : proposal'[j][u] # "none",
           \/ req'[r] = Idle
           \/ \E j \in Exists', u \in Users :
                 /\ req'[r].job = j /\ req'[r].user = u
                 /\ req'[r].next \in {"count", "submit"} => u # job'[j].client
                 /\ req'[r].next \in Decisions => proposal'[j][u] # "none"
           \/ req'[r].job \notin Exists'
           \/ req'[r].next \notin {"count", "submit"} \cup Decisions
    PROVE  RequestsAgree'
<1> SUFFICES ASSUME NEW p \in Requests, req'[p] # Idle, NEW j \in Exists', req'[p].job = j
             PROVE  /\ req'[p].next \in {"count", "submit"} => req'[p].user # job'[j].client
                    /\ req'[p].next \in Decisions =>
                          req'[p].user \in Users /\ proposal'[j][req'[p].user] # "none"
  BY DEF RequestsAgree, Applicants
<1>1. CASE p = r
  BY <1>1
<1>2. CASE p # r
  <2>1. req'[p] = req[p] /\ j \in Exists /\ req[p].job = j
    BY <1>2
  <2>2. /\ req[p].next \in {"count", "submit"} => req[p].user # job[j].client
        /\ req[p].next \in Decisions => req[p].user \in Applicants(j)
    BY <2>1 DEF RequestsAgree
  <2>3. Applicants(j) \subseteq Users
    BY DEF Applicants
  <2>4. QED
    BY <2>1, <2>2, <2>3
<1>3. QED
  BY <1>1, <1>2

ApplicationInv == TypeOK /\ FreelancersApplied /\ RequestsAgree

LEMMA ApplicationInit == Init => ApplicationInv
<1> SUFFICES ASSUME Init PROVE ApplicationInv
  OBVIOUS
<1>1. Exists = {}
  BY DEF Init, Exists
<1>2. QED
  BY <1>1, TypeInit DEF ApplicationInv, FreelancersApplied, RequestsAgree

LEMMA ApplicationStep == ApplicationInv /\ [Next]_vars => ApplicationInv'
<1> SUFFICES ASSUME ApplicationInv, [Next]_vars PROVE FreelancersApplied' /\ RequestsAgree'
  BY TypeStep DEF ApplicationInv
<1> USE DEF ApplicationInv
<1>1. ASSUME NEW c \in Users, CreateJob(c) PROVE FreelancersApplied' /\ RequestsAgree'
  <2>1. PICK j \in JobIds \ used, l \in Limits :
          /\ used' = used \cup {j} /\ Exists' = Exists \cup {j}
          /\ \A i \in JobIds \ {j} : job'[i] = job[i] /\ topLimit'[i] = topLimit[i]
          /\ job'[j].client = c /\ job'[j].freelancer = Nobody
          /\ job'[j].limit = l /\ topLimit'[j] = l
    BY <1>1, CreateEffect
  <2>2. proposal' = proposal /\ req' = req
    BY <1>1, CreateEffect
  <2>3. j \notin Exists /\ Applicants(j) = {}
    BY DEF TypeOK, TablesOK
  <2>4. \A i \in JobIds : Applicants(i)' = Applicants(i)
    BY <2>2 DEF Applicants
  <2>5. FreelancersApplied'
    <3> SUFFICES ASSUME NEW i \in Exists'
                 PROVE  /\ job'[i].client \notin Applicants(i)'
                        /\ job'[i].freelancer # Nobody => job'[i].freelancer \in Applicants(i)'
      BY DEF FreelancersApplied
    <3>1. CASE i = j
      BY <2>1, <2>3, <2>4, <3>1
    <3>2. CASE i # j
      <4>1. i \in Exists /\ i \in JobIds /\ job'[i] = job[i]
        BY <2>1, <3>2 DEF Exists
      <4>2. QED
        BY <2>4, <4>1 DEF FreelancersApplied
    <3>3. QED
      BY <3>1, <3>2
  <2>6. RequestsAgree'
    <3> SUFFICES ASSUME NEW p \in Requests, req[p] # Idle, req[p].job \in Exists'
                 PROVE  /\ req[p].next \in {"count", "submit"} => req[p].user # job'[req[p].job].client
                        /\ req[p].next \in Decisions => req[p].user \in Applicants(req[p].job)
      BY <2>2, <2>4 DEF RequestsAgree, Exists, Applicants
    <3>1. req[p].job \in used /\ req[p].job # j
      BY RequestFields
    <3>2. req[p].job \in Exists /\ job'[req[p].job] = job[req[p].job]
      BY <2>1, <3>1 DEF Exists
    <3>3. QED
      BY <3>2 DEF RequestsAgree
  <2>7. QED
    BY <2>5, <2>6
<1>2. CASE ListActiveJobs
  <2>1. /\ Exists' = Exists /\ proposal' = proposal /\ req' = req
        /\ \A j \in Exists : /\ job'[j].client = job[j].client
                             /\ job'[j].freelancer = job[j].freelancer
    BY <1>2, ListEffect
  <2>2. \A i \in JobIds : Applicants(i)' = Applicants(i)
    BY <2>1 DEF Applicants
  <2>3. FreelancersApplied'
    BY <2>1, <2>2 DEF FreelancersApplied, Exists
  <2>4. RequestsAgree'
    BY <2>1, <2>2 DEF RequestsAgree, Exists, Applicants
  <2>5. QED
    BY <2>3, <2>4
<1>3. ASSUME NEW r \in Requests, Arrive(r) PROVE FreelancersApplied' /\ RequestsAgree'
  <2>1. UNCHANGED tables
    BY <1>3, ArriveOK
  <2>2. used' = used /\ job' = job /\ proposal' = proposal /\ Exists' = Exists
    BY <2>1 DEF tables, Exists
  <2>3. FreelancersApplied'
    BY <2>2 DEF FreelancersApplied, Applicants
  <2>4. PICK j \in Exists, w \in JobWrites \cup ProposalWrites,
             u \in Users \cup {Nobody}, l \in Nat, e \in Edit : Arrival(r, w, j, u, l, e)
    BY <1>3, ArriveOK
  <2>5. j \in JobIds
    BY DEF Exists
  <2>6. req'[r] = Request(w, j, u, l, e) /\ \A p \in Requests \ {r} : req'[p] = req[p]
    BY <2>4, OthersStay DEF Arrival
  <2>7. req'[r].next = w /\ req'[r].job = j /\ req'[r].user = u
    BY <2>5, <2>6, RequestRecord
  <2>8. /\ w \in {"count", "submit"} => u # job[j].client
        /\ w \in Decisions => u \in Applicants(j)
        /\ w \in ProposalWrites => u \in Users
    BY <2>4 DEF Arrival
  <2>9. \A i \in Exists : \A v \in Applicants(i) : proposal[i][v] # "none"
    BY DEF Applicants
  <2>10. w \in {"count", "submit"} \cup Decisions <=> w \in ProposalWrites
    BY DEF ProposalWrites
  <2>11. RequestsAgree'
    BY <2>2, <2>6, <2>7, <2>8, <2>9, <2>10, AgreeKept
  <2>12. QED
    BY <2>3, <2>11
<1>4. ASSUME NEW r \in Requests, RowStep(r) PROVE FreelancersApplied' /\ RequestsAgree'
  <2>1. /\ req[r] # Idle /\ req' = Done(r) /\ proposal' = proposal /\ Exists' = Exists
        /\ \A j \in Exists :
             /\ job'[j].client = job[j].client
             /\ \/ job'[j].freelancer = job[j].freelancer
                \/ Hire(r) /\ j = req[r].job /\ job'[j].freelancer = req[r].user
    BY <1>4, RowStepEffect
  <2>2. \A i \in JobIds : Applicants(i)' = Applicants(i)
    BY <2>1 DEF Applicants
  <2>3. FreelancersApplied'
    <3> SUFFICES ASSUME NEW j \in Exists
                 PROVE  /\ job'[j].client \notin Applicants(j)
                        /\ job'[j].freelancer # Nobody => job'[j].freelancer \in Applicants(j)
      BY <2>1, <2>2 DEF FreelancersApplied, Exists
    <3>1. CASE job'[j].freelancer = job[j].freelancer
      BY <2>1, <3>1 DEF FreelancersApplied
    <3>2. CASE Hire(r) /\ j = req[r].job /\ job'[j].freelancer = req[r].user
      <4>1. req[r].next \in Decisions
        BY <3>2 DEF Hire, Doing, Decisions
      <4>2. req[r].user \in Applicants(j)
        BY <2>1, <3>2, <4>1 DEF RequestsAgree
      <4>3. QED
        BY <2>1, <3>2, <4>2 DEF FreelancersApplied
    <3>3. QED
      BY <2>1, <3>1, <3>2
  <2>4. req'[r] = Idle /\ \A p \in Requests \ {r} : req'[p] = req[p]
    BY <2>1, DoneFields
  <2>5. \A j \in Exists : \A u \in Applicants(j) : proposal'[j][u] # "none"
    BY <2>1 DEF Applicants
  <2>6. RequestsAgree'
    BY <2>1, <2>4, <2>5, AgreeKept
  <2>7. QED
    BY <2>3, <2>6
<1>5. ASSUME NEW r \in Requests, RemoveJob(r) PROVE FreelancersApplied' /\ RequestsAgree'
  <2>1. /\ req' = Done(r)
        /\ Exists' = Exists \ {req[r].job}
        /\ \A i \in JobIds \ {req[r].job} : job'[i] = job[i] /\ proposal'[i] = proposal[i]
    BY <1>5, RemoveEffect
  <2>2. \A j \in Exists' : j \in Exists /\ j \in JobIds /\ job'[j] = job[j] /\ proposal'[j] = proposal[j]
    BY <2>1 DEF Exists
  <2>3. FreelancersApplied'
    BY <2>2 DEF FreelancersApplied, Applicants
  <2>4. req'[r] = Idle /\ \A p \in Requests \ {r} : req'[p] = req[p]
    BY <2>1, DoneFields
  <2>5. \A j \in Exists' : \A u \in Applicants(j) : proposal'[j][u] # "none"
    BY <2>2 DEF Applicants
  <2>6. RequestsAgree'
    BY <2>2, <2>4, <2>5, AgreeKept
  <2>7. QED
    BY <2>3, <2>6
<1>6. ASSUME NEW r \in Requests, WriteProposal(r) PROVE FreelancersApplied' /\ RequestsAgree'
  <2> DEFINE u == req[r].user
  <2>1. PICK j \in JobIds : j = req[r].job
    BY <1>6, WriteProposalEffect
  <2>2. /\ Exists' = Exists /\ job' = job
        /\ req[r] # Idle /\ req[r].next \in Verdicts \cup {"withdrawn"}
        /\ u \in Users
        /\ IF u \in Applicants(j)
           THEN /\ j \in Exists
                /\ \A i \in JobIds, v \in Users :
                      proposal'[i][v] = IF i = j /\ v = u THEN req[r].next ELSE proposal[i][v]
                /\ req' = IF Doing(r, "accepted") THEN Goto(r, "hire") ELSE Done(r)
           ELSE proposal' = proposal /\ req' = Done(r)
    BY <1>6, <2>1, WriteProposalEffect
  <2>3. req[r].next # "none"
    BY <2>2 DEF Verdicts
  <2>4. \A i \in JobIds, v \in Users : proposal'[i][v] # "none" <=> proposal[i][v] # "none"
    BY <2>2, <2>3 DEF Applicants
  <2>5. \A i \in JobIds : Applicants(i)' = Applicants(i)
    BY <2>4 DEF Applicants
  <2>6. FreelancersApplied'
    BY <2>2, <2>5 DEF FreelancersApplied, Exists
  <2>7. /\ \A p \in Requests \ {r} : req'[p] = req[p]
        /\ \/ req'[r] = Idle
           \/ /\ j \in Exists /\ u \in Applicants(j)
              /\ req'[r].job = j /\ req'[r].user = u /\ req'[r].next = "hire"
    <3>1. CASE req' = Done(r)
      BY <3>1, DoneFields
    <3>2. CASE req' # Done(r)
      <4>1. req' = Goto(r, "hire") /\ j \in Exists /\ u \in Applicants(j)
        BY <2>2, <3>2
      <4>2. "hire" \in JobWrites \cup ProposalWrites
        BY DEF ProposalWrites, Decisions
      <4>3. QED
        BY <2>1, <2>2, <4>1, <4>2, GotoFields
    <3>3. QED
      BY <3>1, <3>2
  <2>8. \A i \in Exists : \A v \in Applicants(i) : proposal'[i][v] # "none"
    BY <2>4 DEF Applicants, Exists
  <2>9. RequestsAgree'
    <3> HIDE DEF u
    <3>1. QED
      BY <2>2, <2>7, <2>8, AgreeKept
  <2>10. QED
    BY <2>6, <2>9
<1>7. ASSUME NEW r \in Requests, CountProposals(r) PROVE FreelancersApplied' /\ RequestsAgree'
  <2>1. UNCHANGED tables /\ req[r] # Idle /\ req[r].next = "count" /\ req[r].user \in Users
    BY <1>7, CountEffect DEF Doing
  <2>2. used' = used /\ job' = job /\ proposal' = proposal /\ Exists' = Exists
    BY <2>1 DEF tables, Exists
  <2>3. FreelancersApplied'
    BY <2>2 DEF FreelancersApplied, Applicants
  <2>4. /\ \A p \in Requests \ {r} : req'[p] = req[p]
        /\ \/ req'[r] = Idle
           \/ /\ req'[r].job = req[r].job /\ req'[r].user = req[r].user
              /\ req'[r].next = "submit"
    <3>1. CASE req' = Done(r)
      BY <3>1, DoneFields
    <3>2. CASE req' # Done(r)
      <4>1. req' = Goto(r, "submit")
        BY <1>7, <3>2, CountEffect
      <4>2. "submit" \in JobWrites \cup ProposalWrites
        BY DEF ProposalWrites
      <4>3. QED
        BY <2>1, <4>1, <4>2, GotoFields
    <3>3. QED
      BY <3>1, <3>2
  <2>5. \A i \in Exists : \A v \in Applicants(i) : proposal'[i][v] # "none"
    BY <2>2 DEF Applicants
  <2>6. req[r].job \in Exists => req[r].user # job[req[r].job].client
    BY <2>1 DEF RequestsAgree
  <2>7. "submit" \notin Decisions
    BY DEF Decisions, Verdicts
  <2>8. RequestsAgree'
    BY <2>1, <2>2, <2>4, <2>5, <2>6, <2>7, AgreeKept
  <2>9. QED
    BY <2>3, <2>8
<1>8. ASSUME NEW r \in Requests, SubmitProposal(r) PROVE FreelancersApplied' /\ RequestsAgree'
  <2> DEFINE u == req[r].user
  <2>1. PICK j \in JobIds : j = req[r].job
    BY <1>8, SubmitEffect
  <2>2. /\ Exists' = Exists /\ job' = job /\ req' = Done(r)
        /\ req[r] # Idle /\ req[r].next = "submit" /\ u \in Users
        /\ IF j \in Exists /\ u \notin Applicants(j)
           THEN \A i \in JobIds, v \in Users :
                   proposal'[i][v] = IF i = j /\ v = u THEN "submitted" ELSE proposal[i][v]
           ELSE proposal' = proposal
    BY <1>8, <2>1, SubmitEffect DEF Doing
  <2>3. \A i \in JobIds, v \in Users :
           /\ proposal[i][v] # "none" => proposal'[i][v] # "none"
           /\ proposal'[i][v] # "none" => proposal[i][v] # "none" \/ (i = j /\ v = u)
    BY <2>2
  <2>4. j \in Exists => u # job[j].client
    BY <2>1, <2>2 DEF RequestsAgree
  <2> HIDE DEF u
  <2>5. \A i \in Exists : \A v \in Applicants(i) : v \in Users /\ i \in JobIds /\ proposal'[i][v] # "none"
    BY <2>3 DEF Applicants, Exists
  <2>6. FreelancersApplied'
    <3> SUFFICES ASSUME NEW i \in Exists
                 PROVE  /\ job[i].client \notin Applicants(i)'
                        /\ job[i].freelancer # Nobody => job[i].freelancer \in Applicants(i)'
      BY <2>2 DEF FreelancersApplied
    <3>1. i \in JobIds /\ job[i].client \notin Applicants(i)
      BY DEF FreelancersApplied, Exists
    <3>2. job[i].client \notin Applicants(i)'
      BY <2>3, <2>4, <3>1 DEF Applicants
    <3>3. job[i].freelancer # Nobody => job[i].freelancer \in Applicants(i)
      BY DEF FreelancersApplied
    <3>4. job[i].freelancer # Nobody => job[i].freelancer \in Applicants(i)'
      BY <2>3, <3>1, <3>3 DEF Applicants
    <3>5. QED
      BY <3>2, <3>4
  <2>7. req'[r] = Idle /\ \A p \in Requests \ {r} : req'[p] = req[p]
    BY <2>2, DoneFields
  <2>8. RequestsAgree'
    BY <2>2, <2>5, <2>7, AgreeKept
  <2>9. QED
    BY <2>6, <2>8
<1>9. ASSUME NEW r \in Requests, Abort(r) PROVE FreelancersApplied' /\ RequestsAgree'
  <2>1. UNCHANGED tables /\ req' = Done(r)
    BY <1>9, AbortEffect
  <2>2. used' = used /\ job' = job /\ proposal' = proposal /\ Exists' = Exists
    BY <2>1 DEF tables, Exists
  <2>3. FreelancersApplied'
    BY <2>2 DEF FreelancersApplied, Applicants
  <2>4. req'[r] = Idle /\ \A p \in Requests \ {r} : req'[p] = req[p]
    BY <2>1, DoneFields
  <2>5. \A i \in Exists : \A v \in Applicants(i) : proposal'[i][v] # "none"
    BY <2>2 DEF Applicants
  <2>6. RequestsAgree'
    BY <2>2, <2>4, <2>5, AgreeKept
  <2>7. QED
    BY <2>3, <2>6
<1>10. CASE UNCHANGED vars
  BY <1>10 DEF FreelancersApplied, RequestsAgree, vars, tables, Exists, Applicants
<1>11. QED
  BY <1>1, <1>2, <1>3, <1>4, <1>5, <1>6, <1>7, <1>8, <1>9, <1>10 DEF Next, Step, RowStep

(* Nobody is hired who did not apply, and nobody applies to their own job,
   however requests interleave with edits and deletions of the job. *)
THEOREM HiredFreelancersApplied == Spec => []FreelancersApplied
<1>1. ApplicationInv => FreelancersApplied
  BY DEF ApplicationInv
<1>2. QED
  BY <1>1, ApplicationInit, ApplicationStep, PTL DEF Spec

-----------------------------------------------------------------------------
(* A job is given to one freelancer *)

(* HiringAgrees, for one job. *)
HiringOn(j) ==
    /\ \A q, r \in Accepting(j) : q = r
    /\ \A r \in Requests : DoingOn(r, "accepted", j) => ~Filled(j)
    /\ \A r \in Requests : DoingOn(r, "hire", j) =>
          /\ job[j].freelancer = Nobody
          /\ Accepted(j) \subseteq {req[r].user}
    /\ Accepting(j) = {} /\ Filled(j) =>
          /\ job[j].status # "active"
          /\ Accepted(j) \subseteq {job[j].freelancer}

LEMMA HiringOnEach == HiringAgrees <=> \A j \in Exists \ reopened : HiringOn(j)
BY DEF HiringAgrees, HiringOn

(* A step that ends at most an acceptance that has written nothing, accepts
   nobody, and does not make a filled job active. *)
LEMMA HiringKept ==
    ASSUME NEW j, HiringOn(j),
           Accepting(j)' \subseteq Accepting(j),
           \A p \in Accepting(j)' : req'[p] = req[p],
           Accepting(j)' = Accepting(j) \/ ~Filled(j),
           Accepted(j)' \subseteq Accepted(j),
           job'[j].freelancer = job[j].freelancer,
           job'[j].status = "active" => job[j].status = "active" \/ ~Filled(j)
    PROVE  HiringOn(j)'
<1>1. Filled(j)' => Filled(j)
  BY DEF Filled
<1>2. \A q, r \in Accepting(j)' : q = r
  BY DEF HiringOn
<1>3. ASSUME NEW r \in Requests, DoingOn(r, "accepted", j)' PROVE ~Filled(j)'
  <2>1. r \in Accepting(j)'
    BY <1>3 DEF Accepting
  <2>2. DoingOn(r, "accepted", j)
    BY <1>3, <2>1 DEF DoingOn
  <2>3. QED
    BY <1>1, <2>2 DEF HiringOn
<1>4. ASSUME NEW r \in Requests, DoingOn(r, "hire", j)'
      PROVE  job'[j].freelancer = Nobody /\ Accepted(j)' \subseteq {req'[r].user}
  <2>1. r \in Accepting(j)'
    BY <1>4 DEF Accepting
  <2>2. DoingOn(r, "hire", j) /\ req'[r] = req[r]
    BY <1>4, <2>1 DEF DoingOn
  <2>3. QED
    BY <2>2 DEF HiringOn
<1>5. ASSUME Accepting(j)' = {}, Filled(j)'
      PROVE  job'[j].status # "active" /\ Accepted(j)' \subseteq {job'[j].freelancer}
  BY <1>1, <1>5 DEF HiringOn
<1>6. QED
  BY <1>2, <1>3, <1>4, <1>5 DEF HiringOn

(* A request that neither starts nor goes on with an acceptance leaves the
   acceptances of others as they are. *)
LEMMA AcceptancesLeft ==
    ASSUME NEW j, NEW r \in Requests,
           \A p \in Requests \ {r} : req'[p] = req[p],
           req'[r] = Idle \/ req'[r].next \notin {"accepted", "hire"}
    PROVE  /\ Accepting(j)' = Accepting(j) \ {r}
           /\ \A p \in Accepting(j)' : req'[p] = req[p]
BY DEF Accepting, DoingOn, Idle

HiringInv == TypeOK /\ HiringAgrees

LEMMA HiringInit == Init => HiringInv
<1> SUFFICES ASSUME Init PROVE HiringInv
  OBVIOUS
<1>1. Exists = {}
  BY DEF Init, Exists
<1>2. QED
  BY <1>1, TypeInit DEF HiringInv, HiringAgrees

LEMMA HiringStep == HiringInv /\ [Next]_vars => HiringInv'
<1> SUFFICES ASSUME HiringInv, [Next]_vars, NEW j \in Exists', j \notin reopened'
             PROVE  HiringOn(j)'
  <2>1. (\A i \in Exists \ reopened : HiringOn(i))' => HiringAgrees'
    BY DEF HiringAgrees, HiringOn
  <2>2. QED
    BY <2>1, TypeStep DEF HiringInv
<1>a. TypeOK /\ \A i \in Exists \ reopened : HiringOn(i)
  BY HiringOnEach DEF HiringInv
<1>1. ASSUME NEW c \in Users, CreateJob(c) PROVE HiringOn(j)'
  <2>1. PICK n \in JobIds \ used, l \in Limits :
          /\ used' = used \cup {n} /\ Exists' = Exists \cup {n}
          /\ \A i \in JobIds \ {n} : job'[i] = job[i] /\ topLimit'[i] = topLimit[i]
          /\ job'[n].client = c /\ job'[n].freelancer = Nobody
          /\ job'[n].limit = l /\ topLimit'[n] = l
    BY <1>1, <1>a, CreateEffect
  <2>2. proposal' = proposal /\ req' = req /\ reopened' = reopened
    BY <1>1, <1>a, CreateEffect
  <2>3. Accepting(j)' = Accepting(j) /\ Accepted(j)' = Accepted(j)
    BY <2>2 DEF Accepting, DoingOn, Accepted
  <2>4. CASE j = n
    <3>1. Applicants(n) = {}
      BY <1>a DEF TypeOK, TablesOK
    <3>2. Accepted(n) = {}
      BY <3>1 DEF Accepted, Applicants
    <3>3. Accepting(n) = {}
      <4>1. \A r \in Requests : req[r] # Idle => req[r].job # n
        BY <1>a, RequestFields
      <4>2. QED
        BY <4>1 DEF Accepting, DoingOn
    <3>4. ~Filled(j)'
      BY <2>1, <2>3, <2>4, <3>2 DEF Filled
    <3>5. \A r \in Requests : ~DoingOn(r, "accepted", j)' /\ ~DoingOn(r, "hire", j)'
      BY <2>3, <2>4, <3>3 DEF Accepting
    <3>6. QED
      BY <2>3, <2>4, <3>3, <3>4, <3>5 DEF HiringOn
  <2>5. CASE j # n
    <3>1. j \in Exists \ reopened /\ job'[j] = job[j]
      BY <2>1, <2>2, <2>5 DEF Exists
    <3>2. QED
      BY <1>a, <2>2, <2>3, <3>1, HiringKept
  <2>6. QED
    BY <2>4, <2>5
<1>2. CASE ListActiveJobs
  <2>1. /\ Exists' = Exists /\ proposal' = proposal /\ req' = req /\ reopened' = reopened
        /\ \A i \in Exists : /\ job'[i].freelancer = job[i].freelancer
                             /\ job'[i].status = "active" => job[i].status = "active"
    BY <1>2, <1>a, ListEffect DEF history
  <2>2. Accepting(j)' = Accepting(j) /\ Accepted(j)' = Accepted(j)
    BY <2>1 DEF Accepting, DoingOn, Accepted
  <2>3. QED
    BY <1>a, <2>1, <2>2, HiringKept
<1>3. ASSUME NEW r \in Requests, Arrive(r) PROVE HiringOn(j)'
  <2>1. /\ UNCHANGED tables /\ req[r] = Idle
        /\ reopened' = reopened \/ \E i \in Exists : reopened' = reopened \cup {i}
    BY <1>3, <1>a, ArriveOK
  <2>2. /\ job' = job /\ proposal' = proposal /\ Exists' = Exists
        /\ j \in Exists \ reopened /\ j \in JobIds
    BY <2>1 DEF tables, Exists
  <2>3. PICK i \in Exists, w \in JobWrites \cup ProposalWrites,
             u \in Users \cup {Nobody}, l \in Nat, e \in Edit : Arrival(r, w, i, u, l, e)
    BY <1>3, <1>a, ArriveOK
  <2>4. /\ req'[r] = Request(w, i, u, l, e) /\ \A p \in Requests \ {r} : req'[p] = req[p]
        /\ w # "hire"
        /\ w = "accepted" => job[i].status = "active" /\ (Accepting(i) = {} \/ i \in reopened')
    BY <1>a, <2>3, OthersStay DEF Arrival, Decisions
  <2>5. req'[r].next = w /\ req'[r].job = i
    BY <2>4, RequestRecord DEF Exists
  <2>6. Accepted(j)' = Accepted(j) /\ (Filled(j)' <=> Filled(j))
    BY <2>2 DEF Accepted, Filled
  <2>7. r \notin Accepting(j)
    BY <2>1 DEF Accepting, DoingOn
  <2>8. CASE w = "accepted" /\ i = j
    <3>1. Accepting(j) = {} /\ job[j].status = "active"
      BY <2>4, <2>8
    <3>2. ~Filled(j)
      BY <1>a, <2>2, <3>1 DEF HiringOn
    <3>3. Accepting(j)' \subseteq {r}
      BY <2>4, <3>1 DEF Accepting, DoingOn
    <3>4. \A p \in Requests : ~DoingOn(p, "hire", j)'
      <4>1. ~DoingOn(r, "hire", j)'
        BY <2>4, <2>5 DEF DoingOn
      <4>2. \A p \in Requests \ {r} : p \notin Accepting(j)'
        BY <3>3
      <4>3. QED
        BY <4>1, <4>2 DEF Accepting
    <3>5. QED
      BY <2>6, <3>2, <3>3, <3>4 DEF HiringOn
  <2>9. CASE ~(w = "accepted" /\ i = j)
    <3>1. r \notin Accepting(j)'
      BY <2>4, <2>5, <2>9 DEF Accepting, DoingOn
    <3>2. /\ Accepting(j)' = Accepting(j)
          /\ \A p \in Accepting(j)' : req'[p] = req[p]
      BY <2>4, <2>7, <3>1 DEF Accepting, DoingOn
    <3>3. QED
      BY <1>a, <2>2, <2>6, <3>2, HiringKept
  <2>10. QED
    BY <2>8, <2>9
<1>4. ASSUME NEW r \in Requests, RowStep(r) PROVE HiringOn(j)'
  <2>1. /\ req[r] # Idle /\ ~Doing(r, "accepted")
        /\ req' = Done(r) /\ proposal' = proposal
        /\ Exists' = Exists /\ reopened \subseteq reopened'
        /\ \A i \in JobIds : i # req[r].job \/ i \notin Exists => job'[i] = job[i]
        /\ \A i \in Exists :
             IF Hire(r) /\ i = req[r].job
             THEN job'[i].freelancer = req[r].user /\ job'[i].status = "in_progress"
             ELSE /\ job'[i].freelancer = job[i].freelancer
                  /\ job'[i].status = "active" =>
                       job[i].status = "active" \/ ~Filled(i) \/ i \in reopened'
    BY <1>4, <1>a, RowStepEffect
  <2>2. j \in Exists \ reopened /\ HiringOn(j) /\ Accepted(j)' = Accepted(j)
    BY <1>a, <2>1 DEF Accepted
  <2>3. req'[r] = Idle /\ \A p \in Requests \ {r} : req'[p] = req[p]
    BY <1>a, <2>1, DoneFields
  <2>4. /\ Accepting(j)' = Accepting(j) \ {r}
        /\ \A p \in Accepting(j)' : req'[p] = req[p]
    BY <2>3, AcceptancesLeft
  <2>5. CASE Hire(r) /\ j = req[r].job
    <3>1. DoingOn(r, "hire", j)
      BY <2>1, <2>5 DEF DoingOn, Hire, Doing
    <3>2. r \in Accepting(j) /\ Accepted(j) \subseteq {req[r].user}
      BY <2>2, <3>1 DEF HiringOn, Accepting
    <3>3. Accepting(j)' = {}
      BY <2>2, <2>4, <3>2 DEF HiringOn
    <3>4. \A p \in Requests : ~DoingOn(p, "accepted", j)' /\ ~DoingOn(p, "hire", j)'
      BY <3>3 DEF Accepting
    <3>5. job'[j].freelancer = req[r].user /\ job'[j].status = "in_progress"
      BY <2>1, <2>2, <2>5
    <3>6. QED
      BY <2>2, <3>2, <3>3, <3>4, <3>5 DEF HiringOn
  <2>6. CASE ~(Hire(r) /\ j = req[r].job)
    <3>1. ~DoingOn(r, "hire", j)
      <4>1. Doing(r, "hire") => Hire(r)
        BY <1>4 DEF RowStep, Doing, Publish, UpdateJob, CancelOrArchive, PauseOrResume
      <4>2. QED
        BY <2>6, <4>1 DEF DoingOn, Doing
    <3>2. r \notin Accepting(j)
      BY <2>1, <3>1 DEF Accepting, DoingOn, Doing
    <3>3. Accepting(j)' = Accepting(j)
      BY <2>4, <3>2
    <3>4. /\ job'[j].freelancer = job[j].freelancer
          /\ job'[j].status = "active" => job[j].status = "active" \/ ~Filled(j)
      BY <2>1, <2>2, <2>6
    <3>5. QED
      BY <2>2, <2>4, <3>3, <3>4, HiringKept
  <2>7. QED
    BY <2>5, <2>6
<1>5. ASSUME NEW r \in Requests, RemoveJob(r) PROVE HiringOn(j)'
  <2>1. /\ reopened' = reopened /\ req' = Done(r) /\ Doing(r, "remove")
        /\ Exists' = Exists \ {req[r].job}
        /\ \A i \in JobIds \ {req[r].job} : job'[i] = job[i] /\ proposal'[i] = proposal[i]
    BY <1>5, <1>a, RemoveEffect
  <2>2. j \in Exists \ reopened /\ job'[j] = job[j] /\ proposal'[j] = proposal[j]
    BY <2>1 DEF Exists
  <2>3. req'[r] = Idle /\ \A p \in Requests \ {r} : req'[p] = req[p]
    BY <1>a, <2>1, DoneFields
  <2>4. /\ Accepting(j)' = Accepting(j) \ {r}
        /\ \A p \in Accepting(j)' : req'[p] = req[p]
    BY <2>3, AcceptancesLeft
  <2>5. r \notin Accepting(j)
    BY <2>1 DEF Accepting, DoingOn, Doing
  <2>6. Accepted(j)' = Accepted(j)
    BY <2>2 DEF Accepted
  <2>7. QED
    BY <1>a, <2>2, <2>4, <2>5, <2>6, HiringKept
<1>6. ASSUME NEW r \in Requests, WriteProposal(r) PROVE HiringOn(j)'
  <2> DEFINE u == req[r].user
  <2>1. PICK i \in JobIds : i = req[r].job
    BY <1>6, <1>a, WriteProposalEffect
  <2>2. /\ Exists' = Exists /\ job' = job /\ reopened' = reopened
        /\ req[r] # Idle /\ req[r].next \in Verdicts \cup {"withdrawn"} /\ u \in Users
        /\ IF u \in Applicants(i)
           THEN /\ \A k \in JobIds, v \in Users :
                      proposal'[k][v] = IF k = i /\ v = u THEN req[r].next ELSE proposal[k][v]
                /\ req' = IF Doing(r, "accepted") THEN Goto(r, "hire") ELSE Done(r)
           ELSE proposal' = proposal /\ req' = Done(r)
    BY <1>6, <1>a, <2>1, WriteProposalEffect
  <2>3. j \in Exists \ reopened /\ j \in JobIds /\ HiringOn(j) /\ job'[j] = job[j]
    BY <1>a, <2>2 DEF Exists
  <2> HIDE DEF u
  <2>4. CASE req' = Done(r)
    <3>1. req'[r] = Idle /\ \A p \in Requests \ {r} : req'[p] = req[p]
      BY <1>a, <2>4, DoneFields
    <3>2. /\ Accepting(j)' = Accepting(j) \ {r}
          /\ \A p \in Accepting(j)' : req'[p] = req[p]
      BY <3>1, AcceptancesLeft
    <3>3. Accepting(j)' = Accepting(j) \/ ~Filled(j)
      <4>1. CASE r \in Accepting(j)
        <5>1. DoingOn(r, "accepted", j)
          BY <2>2, <4>1 DEF Accepting, DoingOn, Verdicts
        <5>2. QED
          BY <2>3, <5>1 DEF HiringOn
      <4>2. CASE r \notin Accepting(j)
        BY <3>2, <4>2
      <4>3. QED
        BY <4>1, <4>2
    <3>4. Accepted(j)' \subseteq Accepted(j)
      <4>1. CASE proposal' = proposal
        BY <4>1 DEF Accepted
      <4>2. CASE proposal' # proposal
        <5>1. /\ \A v \in Users :
                    proposal'[j][v] = IF j = i /\ v = u THEN req[r].next ELSE proposal[j][v]
              /\ ~Doing(r, "accepted") \/ Goto(r, "hire") = Done(r)
          BY <2>2, <2>3, <2>4, <4>2
        <5>2. Goto(r, "hire") # Done(r)
          <6>1. "hire" \in JobWrites \cup ProposalWrites
            BY DEF ProposalWrites, Decisions
          <6>2. ASSUME req' = Goto(r, "hire") PROVE req'[r].next = "hire"
            BY <1>a, <2>2, <6>1, <6>2, GotoFields
          <6>3. Idle.next # "hire"
            BY DEF Idle
          <6>4. QED
            BY <2>4, <3>1, <6>2, <6>3
        <5>3. req[r].next # "accepted"
          BY <5>1, <5>2 DEF Doing
        <5>4. QED
          BY <5>1, <5>3 DEF Accepted
      <4>3. QED
        BY <4>1, <4>2
    <3>5. QED
      BY <2>3, <3>2, <3>3, <3>4, HiringKept
  <2>5. CASE req' # Done(r)
    <3>1. /\ u \in Applicants(i) /\ req' = Goto(r, "hire") /\ req[r].next = "accepted"
          /\ \A k \in JobIds, v \in Users :
                proposal'[k][v] = IF k = i /\ v = u THEN "accepted" ELSE proposal[k][v]
      BY <2>2, <2>5 DEF Doing
    <3>2. "hire" \in JobWrites \cup ProposalWrites
      BY DEF ProposalWrites, Decisions
    <3>3. /\ req'[r].next = "hire" /\ req'[r].job = i /\ req'[r].user = u /\ req'[r] \in InFlight
          /\ \A p \in Requests \ {r} : req'[p] = req[p]
      BY <1>a, <2>1, <2>2, <3>1, <3>2, GotoFields DEF u
    <3>4. req'[r] # Idle
      BY <3>3 DEF Idle
    <3>5. CASE j = i
      <4>1. DoingOn(r, "accepted", j)
        BY <2>1, <2>2, <3>1, <3>5 DEF DoingOn
      <4>2. ~Filled(j) /\ Accepting(j) = {r}
        BY <2>3, <4>1 DEF HiringOn, Accepting
      <4>3. Accepted(j) = {} /\ job[j].freelancer = Nobody
        BY <4>2 DEF Filled
      <4>4. Accepted(j)' \subseteq {u}
        BY <2>3, <3>1, <3>5, <4>3 DEF Accepted
      <4>5. \A p \in Requests \ {r} : ~DoingOn(p, "accepted", j)' /\ ~DoingOn(p, "hire", j)'
        BY <3>3, <4>2 DEF Accepting, DoingOn
      <4>6. ~DoingOn(r, "accepted", j)' /\ DoingOn(r, "hire", j)'
        BY <3>3, <3>4, <3>5 DEF DoingOn
      <4>7. Accepting(j)' = {r}
        BY <4>5, <4>6 DEF Accepting
      <4>8. QED
        BY <2>3, <3>3, <4>3, <4>4, <4>5, <4>6, <4>7 DEF HiringOn
    <3>6. CASE j # i
      <4>1. r \notin Accepting(j) /\ r \notin Accepting(j)'
        BY <2>1, <3>3, <3>6 DEF Accepting, DoingOn
      <4>2. /\ Accepting(j)' = Accepting(j)
            /\ \A p \in Accepting(j)' : req'[p] = req[p]
        BY <3>3, <4>1 DEF Accepting, DoingOn
      <4>3. Accepted(j)' = Accepted(j)
        BY <2>3, <3>1, <3>6 DEF Accepted
      <4>4. QED
        BY <2>3, <4>2, <4>3, HiringKept
    <3>7. QED
      BY <3>5, <3>6
  <2>6. QED
    BY <2>4, <2>5
<1>7. ASSUME NEW r \in Requests, CountProposals(r) PROVE HiringOn(j)'
  <2>1. /\ UNCHANGED <<tables, history>> /\ req[r] # Idle /\ Doing(r, "count")
        /\ req' = Done(r) \/ req' = Goto(r, "submit")
    BY <1>7, <1>a, CountEffect
  <2>2. /\ job' = job /\ proposal' = proposal /\ reopened' = reopened
        /\ j \in Exists \ reopened
    BY <2>1 DEF tables, history, Exists
  <2>3. /\ \A p \in Requests \ {r} : req'[p] = req[p]
        /\ req'[r] = Idle \/ req'[r].next = "submit"
    <3>1. "submit" \in JobWrites \cup ProposalWrites
      BY DEF ProposalWrites
    <3>2. QED
      BY <1>a, <2>1, <3>1, DoneFields, GotoFields
  <2>4. /\ Accepting(j)' = Accepting(j) \ {r}
        /\ \A p \in Accepting(j)' : req'[p] = req[p]
    BY <2>3, AcceptancesLeft
  <2>5. r \notin Accepting(j) /\ Accepted(j)' = Accepted(j)
    BY <2>1, <2>2 DEF Accepting, DoingOn, Doing, Accepted
  <2>6. QED
    BY <1>a, <2>2, <2>4, <2>5, HiringKept
<1>8. ASSUME NEW r \in Requests, SubmitProposal(r) PROVE HiringOn(j)'
  <2> DEFINE u == req[r].user
  <2>1. PICK i \in JobIds : i = req[r].job
    BY <1>8, <1>a, SubmitEffect
  <2>2. /\ Exists' = Exists /\ job' = job /\ reopened' = reopened /\ req' = Done(r)
        /\ Doing(r, "submit")
        /\ IF i \in Exists /\ u \notin Applicants(i)
           THEN \A k \in JobIds, v \in Users :
                   proposal'[k][v] = IF k = i /\ v = u THEN "submitted" ELSE proposal[k][v]
           ELSE proposal' = proposal
    BY <1>8, <1>a, <2>1, SubmitEffect
  <2> HIDE DEF u
  <2>3. j \in Exists \ reopened /\ j \in JobIds
    BY <2>2 DEF Exists
  <2>4. Accepted(j)' \subseteq Accepted(j)
    BY <2>2, <2>3 DEF Accepted
  <2>5. req'[r] = Idle /\ \A p \in Requests \ {r} : req'[p] = req[p]
    BY <1>a, <2>2, DoneFields
  <2>6. /\ Accepting(j)' = Accepting(j) \ {r}
        /\ \A p \in Accepting(j)' : req'[p] = req[p]
    BY <2>5, AcceptancesLeft
  <2>7. r \notin Accepting(j)
    BY <2>2 DEF Accepting, DoingOn, Doing
  <2>8. QED
    BY <1>a, <2>2, <2>3, <2>4, <2>6, <2>7, HiringKept
<1>9. ASSUME NEW r \in Requests, Abort(r) PROVE HiringOn(j)'
  <2>1. /\ UNCHANGED tables /\ req' = Done(r) /\ req[r] # Idle
        /\ reopened \subseteq reopened' /\ (Doing(r, "hire") => req[r].job \in reopened')
    BY <1>9, <1>a, AbortEffect
  <2>2. /\ job' = job /\ proposal' = proposal /\ j \in Exists \ reopened /\ HiringOn(j)
    BY <1>a, <2>1 DEF tables, Exists
  <2>3. req'[r] = Idle /\ \A p \in Requests \ {r} : req'[p] = req[p]
    BY <1>a, <2>1, DoneFields
  <2>4. /\ Accepting(j)' = Accepting(j) \ {r}
        /\ \A p \in Accepting(j)' : req'[p] = req[p]
    BY <2>3, AcceptancesLeft
  <2>5. r \notin Accepting(j) \/ ~Filled(j)
    <3>1. ~DoingOn(r, "hire", j)
      BY <2>1 DEF DoingOn, Doing
    <3>2. r \in Accepting(j) => DoingOn(r, "accepted", j)
      BY <3>1 DEF Accepting
    <3>3. QED
      BY <2>2, <3>2 DEF HiringOn
  <2>6. Accepting(j)' = Accepting(j) \/ ~Filled(j)
    BY <2>4, <2>5
  <2>7. Accepted(j)' = Accepted(j)
    BY <2>2 DEF Accepted
  <2>8. QED
    BY <2>2, <2>4, <2>6, <2>7, HiringKept
<1>10. CASE UNCHANGED vars
  <2>1. /\ job' = job /\ proposal' = proposal /\ req' = req /\ reopened' = reopened
        /\ j \in Exists \ reopened
    BY <1>10 DEF vars, tables, history, Exists
  <2>2. Accepting(j)' = Accepting(j) /\ Accepted(j)' = Accepted(j)
    BY <2>1 DEF Accepting, DoingOn, Accepted
  <2>3. QED
    BY <1>a, <2>1, <2>2, HiringKept
<1>11. QED
  BY <1>1, <1>2, <1>3, <1>4, <1>5, <1>6, <1>7, <1>8, <1>9, <1>10 DEF Next, Step, RowStep

(* A job is given to one freelancer, whatever is submitted, withdrawn,
   edited, paused or deleted meanwhile, unless acceptances overlap, one is
   cut in two, or the job is made active again. *)
THEOREM JobsHaveOneFreelancer == Spec => []OneFreelancerPerJob
<1>1. HiringInv => OneFreelancerPerJob
  <2> SUFFICES ASSUME HiringInv, NEW j \in Exists \ reopened, NEW u \in Hired(j), NEW v \in Hired(j)
               PROVE  u = v
    BY DEF OneFreelancerPerJob
  <2>1. HiringOn(j)
    BY HiringOnEach DEF HiringInv
  <2>2. CASE Accepting(j) = {}
    <3>1. Hired(j) = Accepted(j) \cup ({job[j].freelancer} \ {Nobody})
      BY <2>2 DEF Hired
    <3>2. Filled(j)
      BY <3>1 DEF Filled
    <3>3. Accepted(j) \subseteq {job[j].freelancer}
      BY <2>1, <2>2, <3>2 DEF HiringOn
    <3>4. QED
      BY <3>1, <3>3
  <2>3. CASE Accepting(j) # {}
    <3>1. PICK r \in Accepting(j) : Accepting(j) = {r}
      BY <2>1, <2>3 DEF HiringOn
    <3>2. job[j].freelancer = Nobody /\ Accepted(j) \subseteq {req[r].user}
      BY <2>1, <3>1 DEF HiringOn, Accepting, Filled
    <3>3. Hired(j) \subseteq {req[r].user}
      BY <3>1, <3>2 DEF Hired
    <3>4. QED
      BY <3>3
  <2>4. QED
    BY <2>2, <2>3
<1>2. QED
  BY <1>1, HiringInit, HiringStep, PTL DEF Spec

-----------------------------------------------------------------------------
(* The cap on proposals is exceeded by the requests in flight at most *)

OverrunOn(j) ==
    Cardinality(Applicants(j)) + Cardinality(Admitted(j)) < topLimit[j] + Cardinality(Requests)

OverrunInv == TypeOK /\ LimitsAgree /\ OverrunIsBounded

LEMMA CountsAreNumbers ==
    ASSUME NEW j
    PROVE  /\ IsFiniteSet(Applicants(j)) /\ Cardinality(Applicants(j)) \in Nat
           /\ IsFiniteSet(Admitted(j)) /\ Cardinality(Admitted(j)) \in Nat
           /\ Cardinality(Admitted(j)) <= Cardinality(Requests)
           /\ Cardinality(Requests) \in Nat
<1>1. Applicants(j) \in SUBSET Users /\ Admitted(j) \in SUBSET Requests
  BY DEF Applicants, Admitted
<1>2. QED
  BY <1>1, JobsAssumption, FS_Subset, FS_CardinalityType

(* Neither a proposal nor an admission more: the bound stays. *)
LEMMA OverrunKept ==
    ASSUME NEW j, OverrunOn(j), topLimit[j] \in Nat, topLimit'[j] \in Nat,
           topLimit[j] <= topLimit'[j],
           Applicants(j)' \subseteq Applicants(j), Admitted(j)' \subseteq Admitted(j)
    PROVE  OverrunOn(j)'
<1>1. /\ Cardinality(Applicants(j)') <= Cardinality(Applicants(j))
      /\ Cardinality(Applicants(j)') \in Nat
  BY CountsAreNumbers, FS_Subset, FS_CardinalityType
<1>2. /\ Cardinality(Admitted(j)') <= Cardinality(Admitted(j))
      /\ Cardinality(Admitted(j)') \in Nat
  BY CountsAreNumbers, FS_Subset, FS_CardinalityType
<1>3. QED
  BY <1>1, <1>2, CountsAreNumbers DEF OverrunOn

(* A request that does not go on to insert leaves the admissions of others. *)
LEMMA AdmissionsLeft ==
    ASSUME NEW j, NEW r \in Requests,
           \A p \in Requests \ {r} : req'[p] = req[p],
           req'[r] = Idle \/ req'[r].next # "submit"
    PROVE  Admitted(j)' = Admitted(j) \ {r}
BY DEF Admitted, DoingOn, Idle

(* Largest limits only grow, and nobody goes on with a limit above them. *)
LEMMA LimitsKept ==
    ASSUME TypeOK, TypeOK', LimitsAgree, used' = used, Exists' \subseteq Exists,
           \A j \in JobIds : topLimit[j] <= topLimit'[j],
           \A j \in Exists' : job'[j].limit = job[j].limit \/ job'[j].limit <= topLimit'[j],
           NEW r \in Requests,
           \A p \in Requests \ {r} : req'[p] = req[p],
           req'[r] = req[r] \/ req'[r].next # "count"
    PROVE  LimitsAgree'
<1>1. \A j \in JobIds : topLimit[j] \in Nat /\ topLimit'[j] \in Nat
  BY DEF TypeOK, HistoryOK
<1>2. ASSUME NEW j \in Exists' PROVE job'[j].limit <= topLimit'[j]
  <2>1. j \in JobIds /\ j \in Exists /\ job[j].limit <= topLimit[j]
    BY <1>2 DEF LimitsAgree, Exists
  <2>2. job[j].limit \in Nat
    BY <2>1, ExistingRow, RowUpdates, JobsAssumption
  <2>3. CASE job'[j].limit = job[j].limit
    BY <1>1, <2>1, <2>2, <2>3
  <2>4. QED
    BY <1>2, <2>3
<1>3. ASSUME NEW j \in used' PROVE topLimit'[j] > 0
  <2>1. j \in JobIds /\ topLimit[j] > 0
    BY <1>3 DEF LimitsAgree, TypeOK, TablesOK
  <2>2. QED
    BY <1>1, <2>1
<1>4. ASSUME NEW p \in Requests, Doing(p, "count")'
      PROVE  req'[p].limit <= topLimit'[req'[p].job]
  <2>1. req'[p] = req[p] /\ Doing(p, "count")
    BY <1>4 DEF Doing
  <2>2. PICK i \in JobIds : i = req[p].job /\ req[p].limit \in Nat
    BY <2>1, NotIdle, RequestFields DEF Doing, ProposalWrites
  <2>3. req[p].limit <= topLimit[i]
    BY <2>1, <2>2 DEF LimitsAgree
  <2>4. req[p].limit <= topLimit'[i]
    BY <1>1, <2>2, <2>3
  <2>5. QED
    BY <2>1, <2>2, <2>4
<1>5. QED
  BY <1>2, <1>3, <1>4 DEF LimitsAgree

LEMMA OverrunInit == Init => OverrunInv
<1> SUFFICES ASSUME Init PROVE OverrunInv
  OBVIOUS
<1>1. Exists = {} /\ used = {}
  BY DEF Init, Exists
<1>2. \A r \in Requests : ~Doing(r, "count")
  BY DEF Init, Idle, Doing
<1>3. QED
  BY <1>1, <1>2, TypeInit DEF OverrunInv, LimitsAgree, OverrunIsBounded

LEMMA LimitsStep == OverrunInv /\ [Next]_vars => LimitsAgree'
<1> SUFFICES ASSUME OverrunInv, [Next]_vars PROVE LimitsAgree'
  OBVIOUS
<1>a. TypeOK /\ TypeOK' /\ LimitsAgree
  BY TypeStep DEF OverrunInv
<1>b. \A j \in JobIds : topLimit[j] \in Nat /\ topLimit[j] <= topLimit[j]
  BY <1>a DEF TypeOK, HistoryOK
<1>1. ASSUME NEW c \in Users, CreateJob(c) PROVE LimitsAgree'
  <2>1. PICK n \in JobIds \ used, l \in Limits :
          /\ used' = used \cup {n} /\ Exists' = Exists \cup {n}
          /\ \A i \in JobIds \ {n} : job'[i] = job[i] /\ topLimit'[i] = topLimit[i]
          /\ job'[n].limit = l /\ topLimit'[n] = l
    BY <1>1, <1>a, CreateEffect
  <2>2. req' = req
    BY <1>1, <1>a, CreateEffect
  <2>3. l \in Nat /\ l > 0 /\ l <= l
    BY JobsAssumption
  <2>4. \A i \in Exists' : job'[i].limit <= topLimit'[i]
    BY <1>a, <2>1, <2>3 DEF LimitsAgree, Exists
  <2>5. \A i \in used' : topLimit'[i] > 0
    BY <1>a, <2>1, <2>3 DEF LimitsAgree, TypeOK, TablesOK
  <2>6. ASSUME NEW p \in Requests, Doing(p, "count")'
        PROVE  req'[p].limit <= topLimit'[req'[p].job]
    <3>1. Doing(p, "count")
      BY <2>2, <2>6 DEF Doing
    <3>2. req[p].job \in JobIds \ {n}
      BY <1>a, <2>1, <3>1, NotIdle, RequestFields DEF Doing, ProposalWrites
    <3>3. QED
      BY <1>a, <2>1, <2>2, <3>1, <3>2 DEF LimitsAgree
  <2>7. QED
    BY <2>4, <2>5, <2>6 DEF LimitsAgree
<1>2. CASE ListActiveJobs
  <2>1. /\ used' = used /\ Exists' = Exists /\ req' = req /\ topLimit' = topLimit
        /\ \A i \in Exists : job'[i].limit = job[i].limit
    BY <1>2, <1>a, ListEffect DEF history
  <2>2. QED
    BY <1>a, <2>1 DEF LimitsAgree, Doing
<1>3. ASSUME NEW r \in Requests, Arrive(r) PROVE LimitsAgree'
  <2>1. /\ used' = used /\ Exists' = Exists /\ job' = job /\ topLimit' = topLimit
    BY <1>3, <1>a, ArriveOK DEF tables, Exists
  <2>2. PICK i \in Exists, w \in JobWrites \cup ProposalWrites,
             u \in Users \cup {Nobody}, l \in Nat, e \in Edit : Arrival(r, w, i, u, l, e)
    BY <1>3, <1>a, ArriveOK
  <2>3. /\ req'[r] = Request(w, i, u, l, e) /\ \A p \in Requests \ {r} : req'[p] = req[p]
        /\ w = "count" => l = job[i].limit
    BY <1>a, <2>2, OthersStay DEF Arrival
  <2>4. req'[r].next = w /\ req'[r].job = i /\ req'[r].limit = l
    BY <2>3, RequestRecord DEF Exists
  <2>5. \A p \in Requests : Doing(p, "count")' => req'[p].limit <= topLimit'[req'[p].job]
    <3>1. Doing(r, "count")' => req'[r].limit <= topLimit'[req'[r].job]
      BY <1>a, <2>1, <2>3, <2>4 DEF LimitsAgree, Doing
    <3>2. \A p \in Requests \ {r} : Doing(p, "count")' => req'[p].limit <= topLimit'[req'[p].job]
      BY <1>a, <2>1, <2>3 DEF LimitsAgree, Doing
    <3>3. QED
      BY <3>1, <3>2
  <2>6. QED
    BY <1>a, <2>1, <2>5 DEF LimitsAgree
<1>4. ASSUME NEW r \in Requests, RowStep(r) PROVE LimitsAgree'
  <2>1. /\ used' = used /\ Exists' = Exists /\ req' = Done(r)
        /\ \A i \in JobIds : topLimit[i] <= topLimit'[i]
        /\ \A i \in Exists : job'[i].limit = job[i].limit \/ job'[i].limit <= topLimit'[i]
    BY <1>4, <1>a, RowStepEffect
  <2>2. \A p \in Requests \ {r} : req'[p] = req[p]
    BY <1>a, <2>1, DoneFields
  <2>3. req'[r].next # "count"
    BY <1>a, <2>1, DoneFields DEF Idle
  <2>4. QED
    BY <1>a, <2>1, <2>2, <2>3, LimitsKept
<1>5. ASSUME NEW r \in Requests, RemoveJob(r) \/ Abort(r) \/ SubmitProposal(r) PROVE LimitsAgree'
  <2>1. /\ used' = used /\ topLimit' = topLimit /\ req' = Done(r)
        /\ Exists' \subseteq Exists /\ \A i \in Exists' : job'[i] = job[i]
    <3>1. CASE RemoveJob(r)
      BY <3>1, <1>a, RemoveEffect DEF Exists
    <3>2. CASE Abort(r)
      BY <3>2, <1>a, AbortEffect DEF tables, Exists
    <3>3. CASE SubmitProposal(r)
      BY <3>3, <1>a, SubmitEffect
    <3>4. QED
      BY <1>5, <3>1, <3>2, <3>3
  <2>2. \A p \in Requests \ {r} : req'[p] = req[p]
    BY <1>a, <2>1, DoneFields
  <2>3. req'[r].next # "count"
    BY <1>a, <2>1, DoneFields DEF Idle
  <2>4. QED
    BY <1>a, <1>b, <2>1, <2>2, <2>3, LimitsKept
<1>6. ASSUME NEW r \in Requests, WriteProposal(r) \/ CountProposals(r) PROVE LimitsAgree'
  <2>1. /\ used' = used /\ topLimit' = topLimit /\ Exists' = Exists /\ job' = job /\ req[r] # Idle
        /\ \/ req' = Done(r)
           \/ \E w \in {"hire", "submit"} : req' = Goto(r, w)
    <3>1. CASE WriteProposal(r)
      BY <3>1, <1>a, WriteProposalEffect
    <3>2. CASE CountProposals(r)
      BY <3>2, <1>a, CountEffect DEF tables, history, Exists
    <3>3. QED
      BY <1>6, <3>1, <3>2
  <2>2. /\ \A p \in Requests \ {r} : req'[p] = req[p]
        /\ req'[r].next # "count"
    <3>1. CASE req' = Done(r)
      <4>1. req'[r] = Idle /\ \A p \in Requests \ {r} : req'[p] = req[p]
        BY <1>a, <3>1, DoneFields
      <4>2. QED
        BY <4>1 DEF Idle
    <3>2. ASSUME NEW w \in {"hire", "submit"}, req' = Goto(r, w)
          PROVE  req'[r].next # "count" /\ \A p \in Requests \ {r} : req'[p] = req[p]
      <4>1. w \in JobWrites \cup ProposalWrites
        BY DEF ProposalWrites, Decisions
      <4>2. QED
        BY <1>a, <2>1, <3>2, <4>1, GotoFields
    <3>3. QED
      BY <2>1, <3>1, <3>2
  <2>3. QED
    BY <1>a, <1>b, <2>1, <2>2, LimitsKept
<1>7. CASE UNCHANGED vars
  BY <1>7, <1>a DEF vars, tables, history, LimitsAgree, Doing, Exists
<1>8. QED
  BY <1>1, <1>2, <1>3, <1>4, <1>5, <1>6, <1>7 DEF Next, Step, RowStep

LEMMA OverrunStep == OverrunInv /\ [Next]_vars => OverrunInv'
<1> SUFFICES ASSUME OverrunInv, [Next]_vars, NEW j \in used' PROVE OverrunOn(j)'
  BY TypeStep, LimitsStep DEF OverrunInv, OverrunIsBounded, OverrunOn
<1>a. TypeOK /\ TypeOK' /\ LimitsAgree /\ j \in JobIds
  BY TypeStep DEF OverrunInv, TypeOK, TablesOK
<1>b. topLimit[j] \in Nat /\ topLimit'[j] \in Nat /\ topLimit[j] <= topLimit[j]
  BY <1>a DEF TypeOK, HistoryOK
<1>c. j \in used => OverrunOn(j)
  BY DEF OverrunInv, OverrunIsBounded, OverrunOn
<1>1. ASSUME NEW c \in Users, CreateJob(c) PROVE OverrunOn(j)'
  <2>1. PICK n \in JobIds \ used, l \in Limits :
          /\ used' = used \cup {n}
          /\ \A i \in JobIds \ {n} : topLimit'[i] = topLimit[i]
          /\ topLimit'[n] = l
    BY <1>1, <1>a, CreateEffect
  <2>2. proposal' = proposal /\ req' = req
    BY <1>1, <1>a, CreateEffect
  <2>3. Applicants(j)' = Applicants(j) /\ Admitted(j)' = Admitted(j)
    BY <2>2 DEF Applicants, Admitted, DoingOn
  <2>4. CASE j = n
    <3>1. Applicants(j) = {}
      BY <1>a, <2>1, <2>4 DEF TypeOK, TablesOK
    <3>2. Admitted(j) = {}
      <4>1. \A r \in Requests : req[r] # Idle => req[r].job # j
        BY <1>a, <2>1, <2>4, RequestFields
      <4>2. QED
        BY <4>1 DEF Admitted, DoingOn
    <3>3. topLimit'[j] > 0
      BY <2>1, <2>4, JobsAssumption
    <3>4. Cardinality(Applicants(j)') = 0 /\ Cardinality(Admitted(j)') = 0
      BY <2>3, <3>1, <3>2, FS_EmptySet
    <3>5. QED
      BY <1>b, <3>3, <3>4, CountsAreNumbers DEF OverrunOn
  <2>5. CASE j # n
    BY <1>a, <1>b, <1>c, <2>1, <2>3, <2>5, OverrunKept
  <2>6. QED
    BY <2>4, <2>5
<1>2. CASE ListActiveJobs
  <2>1. used' = used /\ proposal' = proposal /\ req' = req /\ topLimit' = topLimit
    BY <1>2, <1>a, ListEffect DEF history
  <2>2. Applicants(j)' = Applicants(j) /\ Admitted(j)' = Admitted(j)
    BY <2>1 DEF Applicants, Admitted, DoingOn
  <2>3. QED
    BY <1>b, <1>c, <2>1, <2>2, OverrunKept
<1>3. ASSUME NEW r \in Requests, Arrive(r) PROVE OverrunOn(j)'
  <2>1. used' = used /\ proposal' = proposal /\ topLimit' = topLimit
    BY <1>3, <1>a, ArriveOK DEF tables
  <2>2. PICK i \in Exists, w \in JobWrites \cup ProposalWrites,
             u \in Users \cup {Nobody}, l \in Nat, e \in Edit : Arrival(r, w, i, u, l, e)
    BY <1>3, <1>a, ArriveOK
  <2>3. /\ req'[r] = Request(w, i, u, l, e) /\ \A p \in Requests \ {r} : req'[p] = req[p]
        /\ w # "submit"
    BY <1>a, <2>2, OthersStay DEF Arrival
  <2>4. req'[r].next = w
    <3>1. i \in JobIds
      BY DEF Exists
    <3>2. Request(w, i, u, l, e).next = w
      BY <3>1, RequestRecord
    <3>3. QED
      BY <2>3, <3>2
  <2>5. Admitted(j)' = Admitted(j) \ {r}
    BY <2>3, <2>4, AdmissionsLeft
  <2>6. Applicants(j)' = Applicants(j)
    BY <2>1 DEF Applicants
  <2>7. QED
    BY <1>b, <1>c, <2>1, <2>5, <2>6, OverrunKept
<1>4. ASSUME NEW r \in Requests, RowStep(r) \/ RemoveJob(r) \/ Abort(r) PROVE OverrunOn(j)'
  <2>1. /\ used' = used /\ topLimit[j] <= topLimit'[j] /\ req' = Done(r)
        /\ Applicants(j)' \subseteq Applicants(j)
    <3>1. CASE RowStep(r)
      BY <3>1, <1>a, RowStepEffect DEF Applicants
    <3>2. CASE RemoveJob(r)
      BY <3>2, <1>a, <1>b, RemoveEffect DEF Applicants
    <3>3. CASE Abort(r)
      BY <3>3, <1>a, <1>b, AbortEffect DEF tables, Applicants
    <3>4. QED
      BY <1>4, <3>1, <3>2, <3>3
  <2>2. Admitted(j)' = Admitted(j) \ {r}
    BY <1>a, <2>1, DoneFields, AdmissionsLeft
  <2>3. QED
    BY <1>b, <1>c, <2>1, <2>2, OverrunKept
<1>5. ASSUME NEW r \in Requests, WriteProposal(r) PROVE OverrunOn(j)'
  <2>1. /\ used' = used /\ topLimit' = topLimit /\ req[r] # Idle
        /\ req[r].next \in Verdicts \cup {"withdrawn"}
        /\ req' = Done(r) \/ req' = Goto(r, "hire")
    BY <1>5, <1>a, WriteProposalEffect
  <2>2. Applicants(j)' = Applicants(j)
    <3>1. PICK i \in JobIds, u \in Users : i = req[r].job /\ u = req[r].user
      BY <1>5, <1>a, WriteProposalEffect
    <3>2. IF u \in Applicants(i)
          THEN \A v \in Users : proposal'[j][v] = IF j = i /\ v = u THEN req[r].next ELSE proposal[j][v]
          ELSE proposal' = proposal
      BY <1>5, <1>a, <3>1, WriteProposalEffect
    <3>3. req[r].next # "none"
      BY <2>1 DEF Verdicts
    <3>4. QED
      BY <3>2, <3>3 DEF Applicants
  <2>3. Admitted(j)' = Admitted(j) \ {r}
    <3>1. CASE req' = Done(r)
      BY <1>a, <3>1, DoneFields, AdmissionsLeft
    <3>2. CASE req' = Goto(r, "hire")
      <4>1. "hire" \in JobWrites \cup ProposalWrites
        BY DEF ProposalWrites, Decisions
      <4>2. req'[r].next = "hire" /\ \A p \in Requests \ {r} : req'[p] = req[p]
        BY <1>a, <2>1, <3>2, <4>1, GotoFields
      <4>3. QED
        BY <4>2, AdmissionsLeft
    <3>3. QED
      BY <2>1, <3>1, <3>2
  <2>4. QED
    BY <1>b, <1>c, <2>1, <2>2, <2>3, OverrunKept
<1>6. ASSUME NEW r \in Requests, CountProposals(r) PROVE OverrunOn(j)'
  <2>1. /\ UNCHANGED <<tables, history>> /\ req[r] # Idle /\ Doing(r, "count")
        /\ \/ req' = Done(r)
           \/ /\ req' = Goto(r, "submit")
              /\ ~(Cardinality(Applicants(req[r].job)) >= req[r].limit)
    BY <1>6, <1>a, CountEffect
  <2>2. /\ used' = used /\ topLimit' = topLimit /\ Applicants(j)' = Applicants(j)
    BY <2>1 DEF tables, history, Applicants
  <2>3. CASE req' = Done(r)
    <3>1. Admitted(j)' = Admitted(j) \ {r}
      BY <1>a, <2>3, DoneFields, AdmissionsLeft
    <3>2. QED
      BY <1>b, <1>c, <2>2, <3>1, OverrunKept
  <2>4. CASE req' # Done(r)
    <3>1. /\ req'[r].job = req[r].job /\ \A p \in Requests \ {r} : req'[p] = req[p]
      <4>1. "submit" \in JobWrites \cup ProposalWrites
        BY DEF ProposalWrites
      <4>2. QED
        BY <1>a, <2>1, <2>4, <4>1, GotoFields
    <3>2. CASE req[r].job = j
      <4>1. Cardinality(Applicants(j)) < topLimit[j]
        <5>1. req[r].limit \in Nat
          BY <1>a, <2>1, RequestFields
        <5>2. ~(Cardinality(Applicants(j)) >= req[r].limit) /\ req[r].limit <= topLimit[j]
          BY <1>a, <2>1, <2>4, <3>2 DEF LimitsAgree
        <5>3. QED
          BY <1>b, <5>1, <5>2, CountsAreNumbers
      <4>2. /\ Cardinality(Admitted(j)') <= Cardinality(Requests)
            /\ Cardinality(Admitted(j)') \in Nat
        <5>1. Admitted(j)' \in SUBSET Requests
          BY DEF Admitted
        <5>2. QED
          BY <5>1, JobsAssumption, FS_Subset, FS_CardinalityType
      <4>3. QED
        BY <1>b, <2>2, <4>1, <4>2, CountsAreNumbers DEF OverrunOn
    <3>3. CASE req[r].job # j
      <4>1. Admitted(j)' \subseteq Admitted(j)
        BY <3>1, <3>3 DEF Admitted, DoingOn
      <4>2. QED
        BY <1>b, <1>c, <2>2, <4>1, OverrunKept
    <3>4. QED
      BY <3>2, <3>3
  <2>5. QED
    BY <2>3, <2>4
<1>7. ASSUME NEW r \in Requests, SubmitProposal(r) PROVE OverrunOn(j)'
  <2>1. PICK i \in JobIds, u \in Users : i = req[r].job /\ u = req[r].user
    BY <1>7, <1>a, SubmitEffect
  <2>2. /\ used' = used /\ topLimit' = topLimit /\ req' = Done(r)
        /\ req[r] # Idle /\ Doing(r, "submit")
        /\ IF i \in Exists /\ u \notin Applicants(i)
           THEN \A v \in Users :
                   proposal'[j][v] = IF j = i /\ v = u THEN "submitted" ELSE proposal[j][v]
           ELSE proposal' = proposal
    BY <1>7, <1>a, <2>1, SubmitEffect
  <2>3. Admitted(j)' = Admitted(j) \ {r}
    BY <1>a, <2>2, DoneFields, AdmissionsLeft
  <2>4. CASE j = i /\ Applicants(j)' # Applicants(j)
    <3>1. r \in Admitted(j)
      BY <2>1, <2>2, <2>4 DEF Admitted, DoingOn, Doing
    <3>2. Applicants(j)' = Applicants(j) \cup {u} /\ u \notin Applicants(j)
      BY <2>2, <2>4 DEF Applicants
    <3>3. Cardinality(Applicants(j)') = Cardinality(Applicants(j)) + 1
      BY <3>2, CountsAreNumbers, FS_AddElement
    <3>4. Cardinality(Admitted(j)') = Cardinality(Admitted(j)) - 1
      BY <2>3, <3>1, CountsAreNumbers, FS_RemoveElement
    <3>5. QED
      BY <1>b, <1>c, <2>2, <3>3, <3>4, CountsAreNumbers DEF OverrunOn
  <2>5. CASE j # i \/ Applicants(j)' = Applicants(j)
    <3>1. Applicants(j)' = Applicants(j)
      BY <2>2, <2>5 DEF Applicants
    <3>2. QED
      BY <1>b, <1>c, <2>2, <2>3, <3>1, OverrunKept
  <2>6. QED
    BY <2>4, <2>5
<1>8. CASE UNCHANGED vars
  <2>1. used' = used /\ proposal' = proposal /\ req' = req /\ topLimit' = topLimit
    BY <1>8 DEF vars, tables, history
  <2>2. Applicants(j)' = Applicants(j) /\ Admitted(j)' = Admitted(j)
    BY <2>1 DEF Applicants, Admitted, DoingOn
  <2>3. QED
    BY <1>b, <1>c, <2>1, <2>2, OverrunKept
<1>9. QED
  BY <1>1, <1>2, <1>3, <1>4, <1>5, <1>6, <1>7, <1>8 DEF Next, Step, RowStep

(* However many freelancers apply at once and however often the client edits
   the limit, a job has fewer proposals than its largest limit and the number
   of requests together. *)
THEOREM JobsOverrunIsBounded == Spec => []OverrunIsBounded
<1>1. OverrunInv => OverrunIsBounded
  BY DEF OverrunInv
<1>2. QED
  BY <1>1, OverrunInit, OverrunStep, PTL DEF Spec
====
