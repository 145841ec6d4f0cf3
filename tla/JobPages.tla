---- MODULE JobPages ----
(***************************************************************************)
(* The web pages about jobs, in the tabs of one browser, and the API they  *)
(* call: the client's list of jobs, a job, the review of its proposals and *)
(* the form for a new job, and the freelancer's applications.              *)
(*                                                                         *)
(* A page shows what it read when it was opened and changes that by what   *)
(* its own calls answer.  A call travels, is served and is answered; calls *)
(* of other pages, and whatever else uses the API, come between.  A        *)
(* handler of the API is one step here: Jobs has its statements.           *)
(*                                                                         *)
(* Each job has one client and one applicant, and a page for either may be *)
(* in any tab.  A link within the application keeps the script running:    *)
(* what a page has begun goes on when another page is shown.               *)
(***************************************************************************)
EXTENDS FiniteSets

CONSTANTS
    JobIds,
    Tabs,
    Calls,   \* the calls that can be under way together
    Visits,  \* the kinds of pages that one user goes to: a set of such sets
    Stored,  \* the jobs that are there at first
    Texts,   \* what the form for a new job may hold
    Edited,  \* the statuses that PATCH /jobs/:id gives jobs
    Shared,  \* the jobs that are also changed from elsewhere
    Blank,   \* nothing has been typed
    None,    \* no row, page, call, modal or draft
    MayFail  \* TRUE when answers may be lost and tabs may crash

VARIABLES
    visits,   \* the kinds of pages that are used in this run
    used,     \* the job ids given out
    job,      \* job id -> its row, or None
    proposal, \* job id -> the status of the proposal for it, or "none"
    page,     \* tab -> the page in it, or None
    call,     \* call -> what it asks for, or None
    draft,    \* localStorage's frestell_job_draft, or None
    (* History, read by the properties and by no guard: *)
    owed,     \* the text last stored as the draft, until it is posted or given up
    careless  \* TRUE when the draft was used in a way that may lose it

api == <<visits, used, job, proposal>>
drafts == <<draft, owed, careless>>
jobPagesVars == <<api, page, call, drafts>>

-----------------------------------------------------------------------------
(* Rows, pages and calls *)

Statuses  == {"draft", "active", "in_progress", "completed", "archived", "cancelled"}
Verdicts  == {"shortlisted", "rejected", "accepted"}
ProposalStatuses == {"submitted", "withdrawn"} \cup Verdicts
Rows      == [status : Statuses, hidden : BOOLEAN]
Row(s, h) == [status |-> s, hidden |-> h]

JobPageKinds == {"jobs", "job"}
ProposalPageKinds == {"review", "applications"}
Kinds == JobPageKinds \cup ProposalPageKinds \cup {"post"}

(* What a page of lists or of a job shows, in rows; the form; and the modal
   that asks before a job is deleted. *)
Deletions == {"cancel", "archive", "permanent"}
Modals == [job : JobIds, type : Deletions, clean : BOOLEAN]
Views(ats, rows) ==
    [at : ats, of : JobIds \cup {None}, shown : [JobIds -> rows \cup {None}], loading : BOOLEAN,
     confirm : Modals \cup {None}, busy : BOOLEAN, clean : SUBSET JobIds]
JobViews == Views(JobPageKinds, Rows)
ProposalViews == Views(ProposalPageKinds, ProposalStatuses)
Forms == [at : {"post"}, text : Texts \cup {Blank}, restoring : BOOLEAN,
          saving : BOOLEAN, publishing : BOOLEAN]

(* What the pages ask of the API, and what asks about a job that is there. *)
Creations == {"save", "create"}
JobCalls  == {"delete", "pause", "resume", "duplicate"}
CallKinds == JobCalls \cup Creations \cup {"publish", "withdrawn"} \cup Verdicts
AllCalls  == [tab : Tabs \cup {None}, here : BOOLEAN, from : Kinds, kind : CallKinds,
              job : JobIds \cup {None}, type : Deletions \cup {None},
              stage : {"sent", "done", "refused"}, new : JobIds \cup {None},
              row : Rows \cup {None}, clean : BOOLEAN]

ASSUME JobPagesAssumption ==
    /\ Visits \subseteq SUBSET Kinds /\ Stored \subseteq JobIds
    /\ Edited \subseteq Statuses /\ Shared \subseteq JobIds
    /\ Blank \notin Texts /\ None \notin Texts \cup {Blank}
    /\ None \notin JobIds /\ None \notin Tabs
    /\ None \notin Rows /\ None \notin ProposalStatuses
    /\ None \notin Modals /\ None \notin JobViews /\ None \notin ProposalViews
    /\ None \notin Forms /\ None \notin AllCalls
    /\ MayFail \in BOOLEAN

(* clean: the jobs of which the page has heard all that has changed since it
   was read, in the order of the changes.  Not a job that has been changed by
   others, or by a request of a page that was left; not one about which an
   answer was lost, or was overtaken, on its way, by another change; and none
   after a reading that failed. *)
View(at, j) ==
    [at |-> at, of |-> j, shown |-> [i \in JobIds |-> None], loading |-> TRUE,
     confirm |-> None, busy |-> FALSE, clean |-> JobIds]

Form == [at |-> "post", text |-> Blank, restoring |-> draft # None,
         saving |-> FALSE, publishing |-> FALSE]

Viewing(t) == page[t] # None /\ page[t].at # "post"
Posting(t) == page[t] # None /\ page[t].at = "post"

(* What the API answers to the page p about job j. *)
Read(p, j) ==
    IF p.of \notin {None, j} THEN None
    ELSE IF p.at \in JobPageKinds THEN job[j]
    ELSE IF proposal[j] = "none" THEN None ELSE proposal[j]

(* tab: None when the script that waits is gone.  here: the page that made
   the call is still shown.  new, row: the job that was made.  clean: nothing
   else has changed the jobs the call is about since it was made or, once it
   is served, since then. *)
Call(t, kind, j, type, clean) ==
    [tab |-> t, here |-> TRUE, from |-> page[t].at, kind |-> kind, job |-> j, type |-> type,
     stage |-> "sent", new |-> None, row |-> None, clean |-> clean]

Pending == {c \in Calls : call[c] # None}
Is(c, stage) == c \in Pending /\ call[c].stage = stage
Own(t)  == {c \in Pending : call[c].tab = t /\ call[c].here}
Owner(c) == IF call[c].here THEN call[c].tab ELSE None

(* A page that was left still clears the draft, publishes what it has
   created, or goes to another page.  Nothing more comes of other answers. *)
Heeded(r) ==
    /\ r.tab # None
    /\ \/ r.here
       \/ r.stage = "done" /\ r.kind \in {"save", "create", "publish"}
       \/ r.stage = "done" /\ r.kind \in {"delete", "duplicate"} /\ r.from = "job"

Kept(r) == IF r.stage = "sent" \/ Heeded(r) THEN r ELSE None

-----------------------------------------------------------------------------
(* What a step of the API makes of the pages and calls of others *)

Changed(j) == j \in JobIds /\ (job'[j] # job[j] \/ proposal'[j] # proposal[j])

Seen(p, j) ==
    /\ p.shown[j] # None
    /\ IF p.at \in JobPageKinds THEN job'[j] # job[j] ELSE proposal'[j] # proposal[j]

Overtaken(p) ==
    LET k == {j \in p.clean : ~Seen(p, j)}
    IN  IF p.confirm # None /\ Changed(p.confirm.job)
        THEN [p EXCEPT !.clean = k, !.confirm.clean = FALSE]
        ELSE [p EXCEPT !.clean = k]

Spoil(me) ==
    page' = [t \in Tabs |->
        IF t # me /\ Viewing(t) /\ \E j \in JobIds : Seen(page[t], j)
        THEN Overtaken(page[t]) ELSE page[t]]

(* A request is overtaken by what others change.  An answer on its way is
   overtaken by what the page's own calls change too: the buttons of the
   review stay enabled, and of two verdicts on one proposal the first to be
   served may be the last to be heard of. *)
SpoiledCall(c, me) ==
    IF /\ c \in Pending
       /\ me = None \/ Owner(c) # me \/ call[c].stage # "sent"
       /\ Changed(call[c].job) \/ Changed(call[c].new)
    THEN [call[c] EXCEPT !.clean = FALSE] ELSE call[c]

(* The handler for c is done; new is the job it made. *)
Reply(c, ok, new) ==
    /\ Spoil(Owner(c))
    /\ call' = [q \in Calls |->
           IF q = c
           THEN Kept([call[c] EXCEPT !.stage = IF ok THEN "done" ELSE "refused", !.type = None,
                                     !.new = new, !.row = IF new = None THEN None ELSE job'[new]])
           ELSE SpoiledCall(q, Owner(c))]
    /\ UNCHANGED drafts

(* Somebody uses the API without these pages. *)
Elsewhere ==
    /\ Spoil(None)
    /\ call' = [q \in Calls |-> SpoiledCall(q, None)]
    /\ UNCHANGED <<visits, used, drafts>>

-----------------------------------------------------------------------------
(* Handlers of the API *)

Serves(c, kinds) == Is(c, "sent") /\ call[c].kind \in kinds
Exists(j) == job[j] # None
Open == {"active", "in_progress"}

SetJob(j, s, h) == job' = [job EXCEPT ![j] = Row(s, h)]

DeleteJob(c) ==
    /\ Serves(c, {"delete"})
    /\ LET j == call[c].job
           s == job[j].status
       IN  IF ~Exists(j) THEN UNCHANGED <<job, proposal>>
           ELSE IF s \in {"draft", "archived", "cancelled"}
           THEN /\ job' = [job EXCEPT ![j] = None]
                /\ proposal' = [proposal EXCEPT ![j] = "none"]
           ELSE /\ SetJob(j, IF s = "completed" THEN "archived" ELSE "cancelled", job[j].hidden)
                /\ UNCHANGED proposal
    /\ UNCHANGED <<visits, used>>
    /\ Reply(c, Exists(call[c].job), None)

PauseOrResumeJob(c) ==
    /\ Serves(c, {"pause", "resume"})
    /\ LET j  == call[c].job
           ok == Exists(j) /\ IF call[c].kind = "pause" THEN job[j].status \in Open ELSE job[j].hidden
       IN  /\ IF ok THEN SetJob(j, job[j].status, call[c].kind = "pause") ELSE UNCHANGED job
           /\ UNCHANGED <<visits, used, proposal>>
           /\ Reply(c, ok, None)

(* createJob; the form may ask for a hidden job, and duplicateJob takes that
   of the job it read. *)
Insert(c, j, h) ==
    /\ used' = used \cup {j}
    /\ SetJob(j, "draft", h)
    /\ UNCHANGED <<visits, proposal>>
    /\ Reply(c, TRUE, j)

CreateJob(c) ==
    /\ Serves(c, {"save", "create"})
    /\ \E j \in JobIds \ used, h \in BOOLEAN : Insert(c, j, h)

DuplicateJob(c) ==
    /\ Serves(c, {"duplicate"})
    /\ IF Exists(call[c].job)
       THEN \E j \in JobIds \ used : Insert(c, j, job[call[c].job].hidden)
       ELSE UNCHANGED api /\ Reply(c, FALSE, None)

(* The form has seen to it that the job is complete. *)
PublishJob(c) ==
    /\ Serves(c, {"publish"})
    /\ LET j  == call[c].job
           ok == Exists(j) /\ job[j].status = "draft"
       IN  /\ IF ok THEN SetJob(j, "active", job[j].hidden) ELSE UNCHANGED job
           /\ UNCHANGED <<visits, used, proposal>>
           /\ Reply(c, ok, None)

UpdateProposalStatus(c) ==
    /\ Serves(c, Verdicts)
    /\ LET j  == call[c].job
           v  == call[c].kind
           ok == proposal[j] # "none" /\ (v = "accepted" => job[j].status = "active")
       IN  /\ proposal' = IF ok THEN [proposal EXCEPT ![j] = v] ELSE proposal
           /\ IF ok /\ v = "accepted" THEN SetJob(j, "in_progress", job[j].hidden) ELSE UNCHANGED job
           /\ UNCHANGED <<visits, used>>
           /\ Reply(c, ok, None)

WithdrawProposal(c) ==
    /\ Serves(c, {"withdrawn"})
    /\ LET j  == call[c].job
           ok == proposal[j] = "submitted"
       IN  /\ proposal' = IF ok THEN [proposal EXCEPT ![j] = "withdrawn"] ELSE proposal
           /\ UNCHANGED <<visits, used, job>>
           /\ Reply(c, ok, None)

(* No page submits a proposal, or edits a job. *)
SubmitProposal(j) ==
    /\ j \in Shared /\ Exists(j) /\ job[j].status = "active" /\ proposal[j] = "none"
    /\ proposal' = [proposal EXCEPT ![j] = "submitted"]
    /\ UNCHANGED job
    /\ Elsewhere

UpdateJob(j, s) ==
    /\ j \in Shared /\ Exists(j) /\ job[j].status # s
    /\ SetJob(j, s, job[j].hidden)
    /\ UNCHANGED proposal
    /\ Elsewhere

(* The list of open jobs is read, and archives those past their deadline. *)
ListActiveJobs ==
    \E late \in (SUBSET {j \in Shared : Exists(j) /\ job[j].status = "active"}) \ {{}} :
        /\ job' = [j \in JobIds |-> IF j \in late THEN Row("archived", job[j].hidden) ELSE job[j]]
        /\ UNCHANGED proposal
        /\ Elsewhere

-----------------------------------------------------------------------------
(* Opening and leaving pages *)

New(at, j) == IF at = "post" THEN Form ELSE View(at, j)

(* A page shown in place of that in t, by a script that goes on. *)
Unmounted(t) ==
    [c \in Calls |-> IF c \in Own(t) THEN Kept([call[c] EXCEPT !.here = FALSE]) ELSE call[c]]

Dropped(t)   == [c \in Calls |->
    IF c \in Pending /\ call[c].tab = t
    THEN Kept([call[c] EXCEPT !.tab = None, !.here = FALSE]) ELSE call[c]]

(* Where two forms are in use, or one while a call of another that was left
   may still clear the draft, it is not said what becomes of it. *)
Crowded(t, at) ==
    at = "post" /\ \/ \E q \in Tabs \ {t} : Posting(q)
                   \/ \E c \in Pending : call[c].kind \in {"save", "create", "publish"}

Targets(at) == IF at \in {"job", "review"} THEN {j \in JobIds : Exists(j)} ELSE {None}

(* From then on it is not said what becomes of the draft. *)
Risk(run) ==
    /\ careless' = (careless \/ run)
    /\ owed' = IF careless' THEN None ELSE owed

(* A link, or router.push. *)
Navigate(t, at, j) ==
    /\ page' = [page EXCEPT ![t] = New(at, j)]
    /\ call' = Unmounted(t)
    /\ Risk(Crowded(t, at))
    /\ UNCHANGED <<api, draft>>

Follow(t) == \E at \in visits : \E j \in Targets(at) : Navigate(t, at, j)

Store(t) ==
    /\ draft' = page[t].text
    /\ careless' = (careless \/ page[t].restoring)
    /\ owed' = IF careless' THEN None ELSE IF page[t].text = Blank THEN owed ELSE page[t].text

(* The tab is loaded anew or closed: beforeunload stores what the form holds. *)
Unload(t) ==
    /\ page[t] # None
    /\ page' = [page EXCEPT ![t] = None]
    /\ call' = Dropped(t)
    /\ IF Posting(t) THEN Store(t) ELSE UNCHANGED drafts
    /\ UNCHANGED api

Crash(t) ==
    /\ MayFail /\ Posting(t)
    /\ page' = [page EXCEPT ![t] = None]
    /\ call' = Dropped(t)
    /\ UNCHANGED <<api, drafts>>

(* fetchJobs, fetchJob and the others.  (What another changes after the API
   has read the rows and before they are shown makes the page as stale as one
   changed just after.) *)
Fetched(p, seen, clean) == [p EXCEPT !.shown = seen, !.loading = FALSE, !.busy = FALSE, !.clean = clean]

Fetch(t) ==
    /\ Viewing(t) /\ page[t].loading
    /\ page' = [page EXCEPT ![t] = Fetched(@, [j \in JobIds |-> Read(@, j)], JobIds)]
    /\ UNCHANGED <<api, call, drafts>>

FetchFails(t) ==
    /\ MayFail
    /\ Viewing(t) /\ page[t].loading
    /\ page' = [page EXCEPT ![t] = Fetched(@, @.shown, {})]
    /\ UNCHANGED <<api, call, drafts>>

-----------------------------------------------------------------------------
(* The client's list of jobs, and a job *)

Free(c) == call[c] = None
Send(c, request) == Free(c) /\ call' = [call EXCEPT ![c] = request]

Type(s) == CASE s \in Open -> "cancel"
             [] s = "completed" -> "archive"
             [] OTHER -> "permanent"

(* Nothing behind an open modal can be pressed. *)
Pressable(t, j) ==
    /\ Viewing(t) /\ page[t].at \in JobPageKinds
    /\ page[t].confirm = None /\ page[t].shown[j] # None

AskToDelete(t, j) ==
    /\ Pressable(t, j)
    /\ page' = [page EXCEPT ![t].confirm =
           [job |-> j, type |-> Type(page[t].shown[j].status), clean |-> j \in page[t].clean]]
    /\ UNCHANGED <<api, call, drafts>>

(* Escape closes the modal even while its call is under way. *)
CloseModal(t) ==
    /\ Viewing(t) /\ page[t].confirm # None
    /\ page' = [page EXCEPT ![t].confirm = None]
    /\ UNCHANGED <<api, call, drafts>>

(* Mutant: the button can be pressed again while its call is under way. *)
ConfirmWhileBusy(t, c) ==
    /\ Viewing(t) /\ page[t].confirm # None
    /\ LET m == page[t].confirm IN Send(c, Call(t, "delete", m.job, m.type, m.clean))
    /\ page' = [page EXCEPT ![t].busy = TRUE]
    /\ UNCHANGED <<api, drafts>>

Confirm(t, c) ==
    /\ Viewing(t) /\ page[t].confirm # None /\ ~page[t].busy
    /\ LET m == page[t].confirm IN Send(c, Call(t, "delete", m.job, m.type, m.clean))
    /\ page' = [page EXCEPT ![t].busy = TRUE]
    /\ UNCHANGED <<api, drafts>>

PauseOrResume(t, j, c) ==
    /\ Pressable(t, j) /\ ~page[t].busy
    /\ page[t].shown[j].status \in Open
    /\ LET kind == IF page[t].shown[j].hidden THEN "resume" ELSE "pause"
       IN  Send(c, Call(t, kind, j, None, TRUE))
    /\ page' = [page EXCEPT ![t].busy = TRUE]
    /\ UNCHANGED <<api, drafts>>

Duplicate(t, j, c) ==
    /\ Pressable(t, j) /\ ~page[t].busy
    /\ page[t].shown[j].status \in {"draft", "active"}
    /\ Send(c, Call(t, "duplicate", j, None, TRUE))
    /\ UNCHANGED <<api, page, drafts>>

(* The review of proposals, and the freelancer's applications.  Nothing is
   disabled while a call is under way: two verdicts may overtake each other. *)
Decide(t, j, c, v) ==
    /\ Viewing(t) /\ page[t].shown[j] # None
    /\ \/ page[t].at = "review" /\ v \in {"shortlisted", "rejected"} /\ page[t].shown[j] = "submitted"
       \/ page[t].at = "review" /\ v \in {"accepted", "rejected"} /\ page[t].shown[j] = "shortlisted"
       \/ page[t].at = "applications" /\ v = "withdrawn" /\ page[t].shown[j] = "submitted"
    /\ Send(c, Call(t, v, j, None, TRUE))
    /\ UNCHANGED <<api, page, drafts>>

-----------------------------------------------------------------------------
(* The form for a new job *)

(* It can be changed while it is being saved. *)
Write(t) ==
    /\ Posting(t)
    /\ \E x \in Texts : page' = [page EXCEPT ![t].text = x]
    /\ Risk(page[t].saving \/ page[t].publishing)
    /\ UNCHANGED <<api, call, draft>>

(* Every 30 seconds, whether or not the user has said what to do with the
   draft that is there. *)
Autosave(t) ==
    /\ Posting(t)
    /\ Store(t)
    /\ UNCHANGED <<api, page, call>>

RestoreDraft(t) ==
    /\ Posting(t) /\ page[t].restoring /\ draft # None
    /\ page' = [page EXCEPT ![t].text = draft, ![t].restoring = FALSE]
    /\ Risk(page[t].saving \/ page[t].publishing)
    /\ UNCHANGED <<api, call, draft>>

DiscardDraft(t) ==
    /\ Posting(t) /\ page[t].restoring
    /\ page' = [page EXCEPT ![t].restoring = FALSE]
    /\ draft' = None /\ owed' = None
    /\ UNCHANGED <<api, call, careless>>

(* Mutant: the draft is removed before the job has been made. *)
ClearAndSaveDraft(t, c) ==
    /\ Posting(t) /\ page[t].text # Blank /\ ~page[t].saving
    /\ Send(c, Call(t, "save", None, None, TRUE))
    /\ page' = [page EXCEPT ![t].saving = TRUE]
    /\ draft' = None
    /\ UNCHANGED <<api, owed, careless>>

SaveDraft(t, c) ==
    /\ Posting(t) /\ page[t].text # Blank /\ ~page[t].saving
    /\ Send(c, Call(t, "save", None, None, TRUE))
    /\ page' = [page EXCEPT ![t].saving = TRUE]
    /\ UNCHANGED <<api, drafts>>

Publish(t, c) ==
    /\ Posting(t) /\ page[t].text # Blank /\ ~page[t].publishing
    /\ Send(c, Call(t, "create", None, None, TRUE))
    /\ page' = [page EXCEPT ![t].publishing = TRUE]
    /\ UNCHANGED <<api, drafts>>

-----------------------------------------------------------------------------
(* Answers *)

Over(c) == [call EXCEPT ![c] = None]
Answered(c, stage, kinds) == Is(c, stage) /\ call[c].kind \in kinds /\ call[c].tab # None
InPage(c) == call[c].here /\ UNCHANGED <<api, drafts>> /\ call' = Over(c)

(* The list closes whatever modal is open by now. *)
Deleted(c) ==
    /\ Answered(c, "done", {"delete"}) /\ call[c].from = "jobs" /\ InPage(c)
    /\ page' = [page EXCEPT ![call[c].tab] =
           [@ EXCEPT !.shown[call[c].job] = None, !.busy = FALSE, !.confirm = None]]

(* Mutant: the list takes the id of the copy for the copy. *)
IdDuplicated(c) ==
    /\ Answered(c, "done", {"duplicate"}) /\ call[c].from = "jobs" /\ InPage(c)
    /\ page' = [page EXCEPT ![call[c].tab] = [@ EXCEPT !.shown[call[c].new] = call[c].new]]

Learnt(known, j, clean) == IF clean THEN known \cup {j} ELSE known \ {j}

Taken(p, j, x, clean) == [p EXCEPT !.shown[j] = x, !.clean = Learnt(@, j, clean)]

Duplicated(c) ==
    /\ Answered(c, "done", {"duplicate"}) /\ call[c].from = "jobs" /\ InPage(c)
    /\ page' = [page EXCEPT ![call[c].tab] = Taken(@, call[c].new, call[c].row, call[c].clean)]

(* The page of a job goes to the list, or to the copy, from whatever page is
   shown by now. *)
GoOn(c) ==
    /\ Answered(c, "done", {"delete", "duplicate"}) /\ call[c].from = "job"
    /\ LET t  == call[c].tab
           at == IF call[c].kind = "delete" THEN "jobs" ELSE "job"
       IN  /\ page' = [page EXCEPT ![t] = View(at, call[c].new)]
           /\ call' = [Unmounted(t) EXCEPT ![c] = None]
    /\ UNCHANGED <<api, drafts>>

(* Mutant: the page is not read again. *)
PausedOrResumedUnread(c) ==
    /\ Answered(c, "done", {"pause", "resume"}) /\ InPage(c)
    /\ page' = [page EXCEPT ![call[c].tab].busy = FALSE]

PausedOrResumed(c) ==
    /\ Answered(c, "done", {"pause", "resume"}) /\ InPage(c)
    /\ page' = [page EXCEPT ![call[c].tab].loading = TRUE]

Decided(c) ==
    /\ Answered(c, "done", ProposalStatuses) /\ InPage(c)
    /\ page' = [page EXCEPT ![call[c].tab] = Taken(@, call[c].job, call[c].kind, call[c].clean)]

ClearDraft == draft' = None /\ owed' = None /\ UNCHANGED careless

Settled(p, kind) ==
    CASE kind = "save" -> [p EXCEPT !.saving = FALSE]
      [] kind \in {"create", "publish"} -> [p EXCEPT !.publishing = FALSE]
      [] kind = "delete" -> [p EXCEPT !.busy = FALSE, !.confirm = None]
      [] kind \in {"pause", "resume"} -> [p EXCEPT !.busy = FALSE]
      [] OTHER -> p

Settle(c) ==
    page' = IF call[c].here THEN [page EXCEPT ![call[c].tab] = Settled(@, call[c].kind)] ELSE page

Saved(c) ==
    /\ Answered(c, "done", {"save", "publish"})
    /\ ClearDraft
    /\ Settle(c)
    /\ call' = Over(c)
    /\ UNCHANGED api

Created(c) ==
    /\ Answered(c, "done", {"create"})
    /\ call' = [call EXCEPT ![c] =
           [@ EXCEPT !.kind = "publish", !.job = call[c].new, !.stage = "sent"]]
    /\ UNCHANGED <<api, page, drafts>>

Refused(c) ==
    /\ Is(c, "refused") /\ InPage(c)
    /\ Settle(c)

(* The request or its answer is lost. *)
Missed(p, j) == [p EXCEPT !.clean = @ \ {j}]

Lost(c) ==
    /\ MayFail /\ c \in Pending
    /\ page' = IF ~call[c].here THEN page
               ELSE [page EXCEPT ![call[c].tab] =
                   IF @.at = "post" THEN Settled(@, call[c].kind)
                   ELSE Missed(Settled(@, call[c].kind), call[c].job)]
    /\ call' = Over(c)
    /\ UNCHANGED <<api, drafts>>

-----------------------------------------------------------------------------
JobPagesInit ==
    /\ visits \in Visits
    /\ used = Stored
    /\ job \in {f \in [JobIds -> {None, Row("draft", FALSE), Row("active", FALSE)}] :
                  \A j \in JobIds : f[j] = None <=> j \notin Stored}
    /\ proposal = [j \in JobIds |-> "none"]
    /\ page = [t \in Tabs |-> None]
    /\ call = [c \in Calls |-> None]
    /\ draft = None /\ owed = None /\ careless = FALSE

Api(c) ==
    \/ DeleteJob(c) \/ PauseOrResumeJob(c) \/ CreateJob(c) \/ DuplicateJob(c) \/ PublishJob(c)
    \/ UpdateProposalStatus(c) \/ WithdrawProposal(c)

Others ==
    \/ \E j \in JobIds : SubmitProposal(j)
    \/ \E j \in JobIds, s \in Edited : UpdateJob(j, s)
    \/ ListActiveJobs

Press(t) ==
    \/ Follow(t) \/ Unload(t) \/ CloseModal(t)
    \/ \E j \in JobIds : AskToDelete(t, j)
    \/ \E c \in Calls : Confirm(t, c)
    \/ \E j \in JobIds, c \in Calls :
          PauseOrResume(t, j, c) \/ Duplicate(t, j, c) \/ \E v \in ProposalStatuses : Decide(t, j, c, v)

PressForm(t) ==
    \/ Write(t) \/ Autosave(t) \/ RestoreDraft(t) \/ DiscardDraft(t)
    \/ \E c \in Calls : SaveDraft(t, c) \/ Publish(t, c)

Answer(c) ==
    \/ Deleted(c) \/ Duplicated(c) \/ GoOn(c) \/ PausedOrResumed(c) \/ Decided(c)
    \/ Saved(c) \/ Created(c) \/ Refused(c) \/ Lost(c)

JobPagesNext ==
    \/ \E c \in Calls : Api(c) \/ Answer(c)
    \/ Others
    \/ \E t \in Tabs : Press(t) \/ PressForm(t) \/ Crash(t) \/ Fetch(t) \/ FetchFails(t)

JobPagesSpec == JobPagesInit /\ [][JobPagesNext]_jobPagesVars

-----------------------------------------------------------------------------
(* What waits for an answer on a page is asked from such a page, about a job
   unless it makes one; and what has been answered tells of the job made. *)
Asked(kind, from) ==
    /\ kind \in JobCalls => from \in JobPageKinds
    /\ kind \in Verdicts => from = "review"
    /\ kind = "withdrawn" => from = "applications"
    /\ kind \in Creations \cup {"publish"} => from = "post"

CallOK(r) ==
    /\ r \in AllCalls
    /\ Asked(r.kind, r.from)
    /\ IF r.kind \in Creations THEN r.job = None ELSE r.job \in used
    /\ r.new \in used \cup {None}
    /\ r.stage = "done" /\ r.kind \in Creations \cup {"duplicate"} => r.new # None /\ r.row # None
    /\ r.kind = "delete" => r.new = None /\ (r.stage = "sent" => r.type \in Deletions)
    /\ r.here => r.tab # None /\ page[r.tab] # None /\ page[r.tab].at = r.from

ViewOK(p) ==
    /\ IF p.at \in JobPageKinds THEN p \in JobViews ELSE p \in ProposalViews
    /\ p.of \in used \cup {None} /\ (p.at = "jobs" => p.of = None)
    /\ \A j \in JobIds : p.shown[j] # None => j \in used /\ (p.at \in JobPageKinds => p.of \in {None, j})
    /\ p.confirm # None => p.at \in JobPageKinds /\ p.confirm.job \in used

RowsOK ==
    /\ visits \subseteq Kinds /\ used \subseteq JobIds
    /\ job \in [JobIds -> Rows \cup {None}]
    /\ \A j \in JobIds : Exists(j) => j \in used
    /\ proposal \in [JobIds -> ProposalStatuses \cup {"none"}]
    /\ \A j \in JobIds : proposal[j] # "none" => Exists(j)

PagesOK ==
    /\ DOMAIN page = Tabs
    /\ \A t \in Tabs : Viewing(t) => ViewOK(page[t])
    /\ \A t \in Tabs : Posting(t) => page[t] \in Forms

CallsOK ==
    /\ DOMAIN call = Calls
    /\ \A c \in Pending : CallOK(call[c])

DraftsOK == draft \in Texts \cup {Blank, None} /\ owed \in Texts \cup {None} /\ careless \in BOOLEAN

(* The state of the pages has its type: a list of jobs shows rows, a list of
   proposals statuses, and whoever waits for an answer is a tab that shows
   the page which asked. *)
JobPagesTypeOK == RowsOK /\ PagesOK /\ CallsOK /\ DraftsOK

(* A page that waits for nothing shows a job or a proposal as it is stored,
   whatever its calls were and in whatever order they were served: every
   handler of a page brings the page up to date.  (The list leaves out a job
   it has just cancelled or archived.)  It may not for a job that others have
   changed since it was read; or about which an answer was lost; or of which
   the page heard last an answer that another change had overtaken, as where
   two verdicts on one proposal are answered out of order: "shortlisted" is
   shown then while "rejected" is stored.  Nor for any after a reading that
   failed.  It is true again of a job, even so, with the next answer about it
   that nothing overtakes, and of all with the next reading. *)
ShownIsTrue ==
    \A t \in Tabs : Viewing(t) /\ ~page[t].loading /\ Own(t) = {} =>
        \A j \in page[t].clean : page[t].shown[j] # None =>
            page[t].shown[j] = IF page[t].at \in JobPageKinds THEN job[j] ELSE proposal[j]

(* One request cancels, archives or removes a job, as its status then is.  A
   client who is asked only to cancel or archive a job does not remove it, in
   whatever order buttons are pressed, modals closed and opened again and
   requests served, as long as the page has heard of all that changed the job:
   the button cannot be pressed twice.  Where it has not, "cancel" does remove
   a job that is cancelled already: when, since the page read the job, somebody
   else has cancelled it, or the client's own request has, from a page that was
   left; or when the answer to the first "cancel" was lost, or a reading of the
   page failed. *)
CancelKeepsJob ==
    [][\A j \in JobIds : job[j] # None /\ job'[j] = None =>
          \E c \in Pending : /\ call[c].kind = "delete" /\ call[c].job = j
                             /\ call[c].stage = "sent" /\ call'[c] # call[c]
                             /\ call[c].type = "permanent" \/ ~call[c].clean]_jobPagesVars

(* What the form for a new job has last put away as its draft is still there
   until the job was made or the draft discarded, through crashes, lost
   answers and pages left with a call under way; unless two forms share the
   one draft, or one writes before its user has said what to do with the
   draft found. *)
OwnDraftIsKept == ~careless /\ owed # None => draft = owed
====
