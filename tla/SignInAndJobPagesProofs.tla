---- MODULE SignInAndJobPagesProofs ----
(***************************************************************************)
(* Theorems about two modules that have nothing but this file in common.   *)
(* About SignIn: for every set of users, addresses, requests and secrets,  *)
(* and every threshold.  About JobPages: for every set of jobs, tabs,      *)
(* calls and texts.                                                        *)
(***************************************************************************)
EXTENDS SignIn, JobPages, FiniteSetTheorems, TLAPS

(* The part of TypeOK that is about the requests in flight. *)
RequestsOK ==
    /\ req \in [Requests -> InFlight \cup {Idle}]
    /\ \A r \in Requests : req[r].next \in {"enable", "disable"} => req[r].token \in Secrets

(* What a new request record holds. *)
LEMMA RequestRecord ==
    ASSUME NEW w \in Statements, NEW u \in Users, NEW a \in Addresses
    PROVE  /\ Request(w, u, a) \in InFlight
           /\ Request(w, u, a).next = w
           /\ Request(w, u, a).user = u
           /\ Request(w, u, a).token = NoSecret
BY DEF Request, InFlight

(* A request at a statement is in flight, for a user and an address. *)
LEMMA RequestFields ==
    ASSUME RequestsOK, NEW r \in Requests, NEW w \in Statements, Doing(r, w)
    PROVE  /\ req[r] \in InFlight
           /\ req[r].next = w
           /\ req[r].user \in Users
           /\ req[r].address \in Addresses
           /\ req[r].count \in Nat
           /\ w \in {"enable", "disable"} => req[r].token \in Secrets
<1>1. req[r].next # "idle"
  BY DEF Doing, Statements, Counting
<1>2. req[r] # Idle
  BY <1>1 DEF Idle
<1>3. req[r] \in InFlight
  BY <1>2 DEF RequestsOK
<1>4. QED
  BY <1>3 DEF RequestsOK, InFlight, Doing

(* Requests keep their type when one of them changes. *)
LEMMA RequestsStayOK ==
    ASSUME RequestsOK, NEW r \in Requests, NEW q, req' = [req EXCEPT ![r] = q],
           q = Idle \/ (q \in InFlight /\ (q.next \in {"enable", "disable"} => q.token \in Secrets))
    PROVE  RequestsOK'
<1>1. req' \in [Requests -> InFlight \cup {Idle}]
  BY DEF RequestsOK
<1>2. ASSUME NEW p \in Requests, req'[p].next \in {"enable", "disable"}
      PROVE  req'[p].token \in Secrets
  <2>1. CASE p = r
    <3>1. req'[p] = q
      BY <2>1 DEF RequestsOK
    <3>2. q # Idle
      BY <1>2, <3>1 DEF Idle
    <3> QED
      BY <1>2, <3>1, <3>2
  <2>2. CASE p # r
    <3>1. req'[p] = req[p]
      BY <2>2 DEF RequestsOK
    <3> QED
      BY <1>2, <3>1 DEF RequestsOK
  <2> QED
    BY <2>1, <2>2
<1> QED
  BY <1>1, <1>2 DEF RequestsOK

LEMMA DoneOK ==
    ASSUME RequestsOK, NEW r \in Requests, req' = Done(r)
    PROVE  RequestsOK'
BY RequestsStayOK DEF Done

(* Going on to another statement keeps the rest of the record. *)
LEMMA GotoFields ==
    ASSUME RequestsOK, NEW r \in Requests, req[r] # Idle,
           NEW w \in Statements, req' = Goto(r, w)
    PROVE  /\ req'[r] \in InFlight
           /\ req'[r].next = w
           /\ req'[r].user = req[r].user
           /\ req'[r].count = req[r].count
           /\ \A q \in Requests \ {r} : req'[q] = req[q]
           /\ w \notin {"enable", "disable"} => RequestsOK'
<1>1. req[r] \in InFlight
  BY DEF RequestsOK
<1>2. req'[r] = [req[r] EXCEPT !.next = w]
  BY DEF Goto, RequestsOK
<1>3. /\ req'[r] \in InFlight
      /\ req'[r].next = w
      /\ req'[r].user = req[r].user
      /\ req'[r].count = req[r].count
  BY <1>1, <1>2 DEF InFlight
<1>4. req' = [req EXCEPT ![r] = req'[r]]
  BY DEF Goto, RequestsOK
<1>5. w \notin {"enable", "disable"} => RequestsOK'
  BY <1>3, <1>4, RequestsStayOK
<1>6. QED
  BY <1>3, <1>5 DEF Goto, RequestsOK

LEMMA NotIdle ==
    ASSUME NEW r \in Requests, NEW w \in Statements, Doing(r, w)
    PROVE  req[r] # Idle
BY DEF Doing, Idle, Statements, Counting

(* A step that writes nothing leaves the requests in order. *)
LEMMA ContinueOK ==
    ASSUME RequestsOK, NEW r \in Requests, NEW w \in Statements, Doing(r, w),
           NEW W \in SUBSET {"fail", "second", "clear", "answer"}, Continue(r, W)
    PROVE  RequestsOK'
<1>1. PICK x \in W : req' = IF x = "answer" THEN Done(r) ELSE Goto(r, x)
  BY DEF Continue
<1>2. CASE x = "answer"
  BY <1>1, <1>2, DoneOK
<1>3. CASE x # "answer"
  <2>1. x \in Statements /\ x \notin {"enable", "disable"}
    BY <1>3 DEF Statements
  <2>2. req[r] # Idle
    BY NotIdle
  <2> QED
    BY <1>1, <1>3, <2>1, <2>2, GotoFields
<1> QED
  BY <1>2, <1>3

(* The same, for the step that follows a check. *)
LEMMA BeginOK ==
    ASSUME RequestsOK, NEW r \in Requests, NEW w \in Statements \ {"enable", "disable"},
           NEW u \in Users, NEW a \in Addresses, Begin(r, Request(w, u, a))
    PROVE  RequestsOK'
<1>1. Request(w, u, a) \in InFlight /\ Request(w, u, a).next = w
  BY RequestRecord
<1>2. req' = [req EXCEPT ![r] = Request(w, u, a)]
  BY DEF Begin
<1> QED
  BY <1>1, <1>2, RequestsStayOK

-----------------------------------------------------------------------------
(* Each step of a request keeps the requests in order. *)
LEMMA ArriveRequests ==
    ASSUME TypeOK, NEW r \in Requests, Arrive(r)
    PROVE  RequestsOK' /\ UNCHANGED <<lockout, totp, history>>
<1> RequestsOK
  BY DEF TypeOK, RequestsOK
<1>1. PICK u \in Users, a \in Addresses :
        \/ Login(r, u, a) \/ UseRecoveryCode(r, u, a)
        \/ \E w \in {"enable", "disable"} : SettingRead(r, u, a, w)
  BY DEF Arrive
<1>2. CASE Login(r, u, a)
  <2>1. PICK w \in {"fail", "check"} : Begin(r, Request(w, u, a))
    BY <1>2 DEF Login
  <2>2. w \in Statements \ {"enable", "disable"}
    BY DEF Statements
  <2>3. RequestsOK'
    BY <2>1, <2>2, BeginOK
  <2> QED
    BY <2>1, <2>3 DEF Begin
<1>3. CASE UseRecoveryCode(r, u, a)
  <2>1. "clear" \in Statements \ {"enable", "disable"}
    BY DEF Statements
  <2>2. Begin(r, Request("clear", u, a))
    BY <1>3 DEF UseRecoveryCode
  <2>3. RequestsOK'
    BY <2>1, <2>2, BeginOK
  <2> QED
    BY <2>2, <2>3 DEF Begin
<1>4. ASSUME NEW w \in {"enable", "disable"}, SettingRead(r, u, a, w)
      PROVE  RequestsOK' /\ UNCHANGED <<lockout, totp, history>>
  <2>1. w \in Statements
    BY DEF Statements
  <2> DEFINE q == [Request(w, u, a) EXCEPT !.token = secret[u]]
  <2>2. secret[u] \in Secrets
    BY <1>4 DEF SettingRead, TypeOK
  <2>3. q \in InFlight /\ q.next = w /\ q.token = secret[u]
    BY <2>1, <2>2 DEF Request, InFlight
  <2>4. Begin(r, q)
    BY <1>4 DEF SettingRead
  <2>5. req' = [req EXCEPT ![r] = q]
    BY <2>4 DEF Begin
  <2>6. RequestsOK'
    <3> HIDE DEF q
    <3> QED
      BY <2>2, <2>3, <2>5, RequestsStayOK
  <2> QED
    BY <2>4, <2>6 DEF Begin
<1> QED
  BY <1>1, <1>2, <1>3, <1>4

LEMMA CheckRequests ==
    ASSUME TypeOK, NEW r \in Requests,
           CheckPassword(r) \/ CheckSentCode(r) \/ \E code \in Secrets : CheckTotp(r, code)
    PROVE  RequestsOK' /\ UNCHANGED <<lockout, totp, history>>
<1> RequestsOK
  BY DEF TypeOK, RequestsOK
<1> "check" \in Statements /\ "second" \in Statements
  BY DEF Statements
<1>1. PICK w \in {"check", "second"}, W \in SUBSET {"fail", "second", "clear", "answer"} :
        Doing(r, w) /\ Continue(r, W)
  <2>1. CASE CheckPassword(r)
    <3>1. {"fail", IF enabled[req[r].user] THEN "second" ELSE "clear"} \in SUBSET {"fail", "second", "clear", "answer"}
      OBVIOUS
    <3> QED
      BY <2>1, <3>1 DEF CheckPassword
  <2>2. CASE CheckSentCode(r)
    BY <2>2 DEF CheckSentCode
  <2>3. ASSUME NEW code \in Secrets, CheckTotp(r, code)
        PROVE  \E w \in {"check", "second"}, W \in SUBSET {"fail", "second", "clear", "answer"} :
                  Doing(r, w) /\ Continue(r, W)
    <3>1. {IF Passes(req[r].user, code) THEN "clear" ELSE "answer"} \in SUBSET {"fail", "second", "clear", "answer"}
      OBVIOUS
    <3> QED
      BY <2>3, <3>1 DEF CheckTotp
  <2> QED
    BY <2>1, <2>2, <2>3
<1>2. RequestsOK'
  BY <1>1, ContinueOK
<1> QED
  BY <1>1, <1>2 DEF Continue

(* The steps that end a request. *)
LEMMA EndRequests ==
    ASSUME TypeOK, NEW r \in Requests,
           WriteCount(r) \/ LockAccount(r) \/ ClearLockout(r) \/ Enable(r) \/ Disable(r) \/ Abort(r)
    PROVE  RequestsOK'
<1> RequestsOK
  BY DEF TypeOK, RequestsOK
<1>1. CASE req' = Done(r)
  BY <1>1, DoneOK
<1>2. CASE req' # Done(r)
  <2>1. Doing(r, "write") /\ req' = Goto(r, "lock")
    BY <1>2 DEF WriteCount, LockAccount, ClearLockout, Enable, Disable, Abort
  <2>2. "write" \in Statements /\ "lock" \in Statements
    BY DEF Statements, Counting
  <2>3. req[r] # Idle
    BY <2>1, <2>2, NotIdle
  <2> QED
    BY <2>1, <2>2, <2>3, GotoFields
<1> QED
  BY <1>1, <1>2

LEMMA RecordRequests ==
    ASSUME TypeOK, NEW r \in Requests, RecordFailure(r)
    PROVE  RequestsOK'
<1> RequestsOK
  BY DEF TypeOK, RequestsOK
<1>1. Doing(r, "fail") /\ req' = Goto(r, "read")
  BY DEF RecordFailure
<1>2. "fail" \in Statements /\ "read" \in Statements
  BY DEF Statements
<1>3. req[r] # Idle
  BY <1>1, <1>2, NotIdle
<1> QED
  BY <1>1, <1>2, <1>3, GotoFields

(* What a request holds once it has read the count. *)
LEMMA ReadFields ==
    ASSUME TypeOK, NEW r \in Requests, ReadCount(r)
    PROVE  /\ req'[r] \in InFlight
           /\ req'[r].next = "write"
           /\ req'[r].user = req[r].user
           /\ req'[r].count = failed[req[r].user]
           /\ req' = [req EXCEPT ![r] = req'[r]]
<1>1. RequestsOK /\ Doing(r, "read") /\ "read" \in Statements
  BY DEF TypeOK, RequestsOK, ReadCount, Statements
<1>2. req[r] \in InFlight /\ req[r].user \in Users
  BY <1>1, RequestFields
<1>3. failed[req[r].user] \in Nat
  BY <1>2 DEF TypeOK
<1>4. req' = [req EXCEPT ![r] = [req[r] EXCEPT !.next = "write", !.count = failed[req[r].user]]]
  BY DEF ReadCount
<1>5. req'[r] = [req[r] EXCEPT !.next = "write", !.count = failed[req[r].user]]
  BY <1>4 DEF TypeOK
<1>6. "write" \in Statements
  BY DEF Statements, Counting
<1>7. /\ req'[r] \in InFlight
      /\ req'[r].next = "write"
      /\ req'[r].user = req[r].user
      /\ req'[r].count = failed[req[r].user]
  BY <1>2, <1>3, <1>5, <1>6 DEF InFlight
<1> QED
  BY <1>4, <1>5, <1>7

LEMMA ReadRequests ==
    ASSUME TypeOK, NEW r \in Requests, ReadCount(r)
    PROVE  RequestsOK'
<1>1. RequestsOK
  BY DEF TypeOK, RequestsOK
<1> QED
  BY <1>1, ReadFields, RequestsStayOK

-----------------------------------------------------------------------------
(* The types of the other variables. *)
LEMMA CountTypes ==
    ASSUME TypeOK, NEW r \in Requests,
           RecordFailure(r) \/ ReadCount(r) \/ WriteCount(r) \/ LockAccount(r) \/ ClearLockout(r)
    PROVE  TypeOK'
<1> RequestsOK
  BY DEF TypeOK, RequestsOK
<1> {"fail", "read", "write", "lock", "clear"} \subseteq Statements
  BY DEF Statements, Counting
<1>1. PICK w \in {"fail", "read", "write", "lock", "clear"} : Doing(r, w)
  BY DEF RecordFailure, ReadCount, WriteCount, LockAccount, ClearLockout
<1>2. req[r].user \in Users /\ req[r].address \in Addresses /\ req[r].count \in Nat
  BY <1>1, RequestFields
<1>3. RequestsOK'
  BY RecordRequests, ReadRequests, EndRequests
<1>4. UNCHANGED <<totp, cut, proven, unsettled>>
  BY DEF RecordFailure, ReadCount, WriteCount, LockAccount, ClearLockout, history, totp
<1>5. overlapped' \subseteq Users
  BY <1>2 DEF TypeOK, RecordFailure, ReadCount, WriteCount, LockAccount, ClearLockout, history
<1>6. lock' \in [Users -> Locks]
  BY <1>2 DEF TypeOK, Locks, RecordFailure, ReadCount, WriteCount, LockAccount, ClearLockout, lockout
<1>7. failed' \in [Users -> Nat]
  BY <1>2 DEF TypeOK, RecordFailure, ReadCount, WriteCount, LockAccount, ClearLockout, lockout
<1>8. guesses' \in [Users -> Nat]
  BY <1>2 DEF TypeOK, RecordFailure, ReadCount, WriteCount, LockAccount, ClearLockout, history, CountGuess
<1>9. recent' \in [Addresses -> 0 .. Threshold]
  <2>1. CASE RecordFailure(r)
    <3>1. recent[req[r].address] \in 0 .. Threshold /\ Threshold \in Nat
      BY <1>2, SignInAssumption DEF TypeOK
    <3>2. (IF recent[req[r].address] < Threshold THEN recent[req[r].address] + 1
           ELSE recent[req[r].address]) \in 0 .. Threshold
      BY <3>1
    <3> QED
      BY <1>2, <2>1, <3>2 DEF TypeOK, RecordFailure
  <2>2. CASE ~RecordFailure(r)
    BY <2>2 DEF TypeOK, ReadCount, WriteCount, LockAccount, ClearLockout, lockout
  <2> QED
    BY <2>1, <2>2
<1> QED
  BY <1>3, <1>4, <1>5, <1>6, <1>7, <1>8, <1>9 DEF TypeOK, RequestsOK, totp

LEMMA FactorTypes ==
    ASSUME TypeOK, NEW r \in Requests, Enable(r) \/ Disable(r) \/ Abort(r)
    PROVE  TypeOK'
<1> RequestsOK
  BY DEF TypeOK, RequestsOK
<1> {"enable", "disable", "lock"} \subseteq Statements
  BY DEF Statements, Counting
<1>1. RequestsOK'
  BY EndRequests
<1>2. \A w \in {"enable", "disable", "lock"} : Doing(r, w) => req[r].user \in Users
  BY RequestFields
<1>3. Doing(r, "enable") => req[r].token \in Secrets
  BY DEF RequestsOK, Doing
<1>4. UNCHANGED <<lockout, guesses, overlapped>>
  BY DEF Enable, Disable, Abort
<1>5. cut' \subseteq Users /\ unsettled' \subseteq Users
  BY <1>2 DEF TypeOK, Enable, Disable, Abort
<1>6. secret' \in [Users -> Secrets \cup {NoSecret}] /\ enabled' \in [Users -> BOOLEAN]
  BY <1>2 DEF TypeOK, Enable, Disable, Abort, totp
<1>7. proven' \in [Users -> Secrets \cup {NoSecret}]
  BY <1>2, <1>3 DEF TypeOK, Enable, Disable, Abort
<1> QED
  BY <1>1, <1>4, <1>5, <1>6, <1>7 DEF TypeOK, RequestsOK, lockout

LEMMA TypeInit == Init => TypeOK
<1> SUFFICES ASSUME Init PROVE TypeOK
  OBVIOUS
<1>1. Idle.next \notin {"enable", "disable"}
  BY DEF Idle
<1>2. 0 \in 0 .. Threshold
  BY SignInAssumption
<1> QED
  BY <1>1, <1>2 DEF Init, TypeOK, Locks

LEMMA TypeNext == TypeOK /\ [Next]_vars => TypeOK'
<1> SUFFICES ASSUME TypeOK, [Next]_vars PROVE TypeOK'
  OBVIOUS
<1>1. ASSUME NEW r \in Requests, Arrive(r) PROVE TypeOK'
  BY <1>1, ArriveRequests DEF TypeOK, RequestsOK, lockout, totp, history
<1>2. ASSUME NEW r \in Requests, Step(r) PROVE TypeOK'
  <2>1. CASE CheckPassword(r) \/ CheckSentCode(r) \/ \E code \in Secrets : CheckTotp(r, code)
    BY <2>1, CheckRequests DEF TypeOK, RequestsOK, lockout, totp, history
  <2> QED
    BY <1>2, <2>1, CountTypes, FactorTypes DEF Step
<1>3. ASSUME NEW r \in Requests, Abort(r) PROVE TypeOK'
  BY <1>3, FactorTypes
<1>4. ASSUME NEW u \in Users, LockRunsOut(u) PROVE TypeOK'
  BY <1>4 DEF LockRunsOut, TypeOK, Locks, totp, history
<1>5. ASSUME NEW u \in Users, NEW s \in Secrets, GenerateSecret(u, s) PROVE TypeOK'
  BY <1>5 DEF GenerateSecret, TypeOK, lockout
<1>6. ASSUME NEW a \in Addresses, WindowMoves(a) PROVE TypeOK'
  <2>1. PICK n \in 0 .. recent[a] - 1 : recent' = [recent EXCEPT ![a] = n]
    BY <1>6 DEF WindowMoves
  <2>2. n \in 0 .. Threshold
    BY <2>1, SignInAssumption DEF TypeOK
  <2> QED
    BY <1>6, <2>1, <2>2 DEF WindowMoves, TypeOK, totp, history
<1>7. CASE UNCHANGED vars
  BY <1>7 DEF TypeOK, vars, lockout, totp, history
<1> QED
  BY <1>1, <1>2, <1>3, <1>4, <1>5, <1>6, <1>7 DEF Next

(* Every variable keeps its type, through every interleaving of sign-ins and
   of the handlers of the second factor. *)
THEOREM TypeCorrect == Spec => []TypeOK
BY TypeInit, TypeNext, PTL DEF Spec

-----------------------------------------------------------------------------
(* Failures are counted exactly.  CountIsExact speaks of the count alone;   *)
(* what makes it inductive is CountingAgrees, about what requests have read. *)
CountInv == TypeOK /\ CountIsExact /\ CountingAgrees

(* A step leaves the counting alone: counts do not change, and a request is
   as it was, or is not counting any more, and if it was to lock the account
   the account is one that a failure kept from being locked. *)
LeavesCounting ==
    /\ UNCHANGED <<failed, guesses, overlapped>>
    /\ cut \subseteq cut'
    /\ \A q \in Requests :
          \/ req'[q] = req[q]
          \/ /\ req'[q].next \notin Counting
             /\ Doing(q, "lock") => req[q].user \in cut'

LEMMA LeavesCountingKeeps ==
    ASSUME CountIsExact, CountingAgrees, LeavesCounting
    PROVE  CountIsExact' /\ CountingAgrees'
<1>1. \A u \in Users : \A q \in CountingFor(u)' : q \in CountingFor(u) /\ req'[q] = req[q]
  BY DEF LeavesCounting, CountingFor
<1>2. CountingAgrees'
  BY <1>1 DEF CountingAgrees, LeavesCounting, Doing
<1>3. ASSUME NEW u \in Users, u \notin overlapped', u \notin cut'
      PROVE  /\ failed'[u] = guesses'[u]
             /\ failed'[u] < Threshold \/ \E r \in CountingFor(u)' : Doing(r, "lock")'
  <2>1. failed[u] = guesses[u] /\ (failed[u] < Threshold \/ \E r \in CountingFor(u) : Doing(r, "lock"))
    BY <1>3 DEF CountIsExact, LeavesCounting
  <2>2. ASSUME NEW r \in CountingFor(u), Doing(r, "lock")
        PROVE  r \in CountingFor(u)' /\ Doing(r, "lock")'
    <3>1. r \in Requests /\ req[r].user = u
      BY DEF CountingFor
    <3>2. req'[r] = req[r]
      BY <1>3, <2>2, <3>1 DEF LeavesCounting
    <3> QED
      BY <2>2, <3>1, <3>2 DEF CountingFor, Doing, Counting
  <2> QED
    BY <2>1, <2>2 DEF LeavesCounting
<1>4. CountIsExact'
  BY <1>3 DEF CountIsExact
<1> QED
  BY <1>2, <1>4

LEMMA ArriveLeaves ==
    ASSUME TypeOK, NEW r \in Requests, Arrive(r)
    PROVE  LeavesCounting /\ req[r] = Idle
<1>1. PICK u \in Users, a \in Addresses :
        \/ Login(r, u, a) \/ UseRecoveryCode(r, u, a)
        \/ \E w \in {"enable", "disable"} : SettingRead(r, u, a, w)
  BY DEF Arrive
<1>2. \E q : req' = [req EXCEPT ![r] = q] /\ q.next \notin Counting /\ req[r] = Idle
  <2>1. CASE Login(r, u, a)
    <3>1. PICK w \in {"fail", "check"} : Begin(r, Request(w, u, a))
      BY <2>1 DEF Login
    <3>2. w \in Statements /\ w \notin Counting
      BY DEF Statements, Counting
    <3>3. Request(w, u, a).next = w
      BY <3>2, RequestRecord
    <3> QED
      BY <3>1, <3>2, <3>3 DEF Begin
  <2>2. CASE UseRecoveryCode(r, u, a)
    <3>1. "clear" \in Statements /\ "clear" \notin Counting
      BY DEF Statements, Counting
    <3>2. Request("clear", u, a).next = "clear"
      BY <3>1, RequestRecord
    <3> QED
      BY <2>2, <3>1, <3>2 DEF UseRecoveryCode, Begin
  <2>3. ASSUME NEW w \in {"enable", "disable"}, SettingRead(r, u, a, w)
        PROVE  \E q : req' = [req EXCEPT ![r] = q] /\ q.next \notin Counting /\ req[r] = Idle
    <3> DEFINE q == [Request(w, u, a) EXCEPT !.token = secret[u]]
    <3>1. q.next = w
      BY DEF Request
    <3>2. req' = [req EXCEPT ![r] = q] /\ req[r] = Idle
      BY <2>3 DEF SettingRead, Begin
    <3>3. w \notin Counting
      BY DEF Counting
    <3> HIDE DEF q
    <3> QED
      BY <3>1, <3>2, <3>3
  <2> QED
    BY <1>1, <2>1, <2>2, <2>3
<1>3. UNCHANGED <<lockout, history>>
  BY ArriveRequests
<1>4. ~Doing(r, "lock")
  BY <1>2 DEF Doing, Idle
<1>5. \A q \in Requests : req'[q] = req[q] \/ (q = r /\ req'[q].next \notin Counting)
  BY <1>2 DEF TypeOK
<1> QED
  BY <1>2, <1>3, <1>4, <1>5 DEF LeavesCounting, lockout, history

(* A request that goes on from one statement to another, or is done. *)
LEMMA GoesOn ==
    ASSUME RequestsOK, NEW r \in Requests, NEW w \in Statements, Doing(r, w),
           NEW W \in SUBSET (Statements \cup {"answer"}),
           \E x \in W : req' = IF x = "answer" THEN Done(r) ELSE Goto(r, x)
    PROVE  /\ \A q \in Requests \ {r} : req'[q] = req[q]
           /\ req'[r].next \in W \cup {"idle"}
           /\ req'[r].next = "idle" \/ (req'[r].user = req[r].user /\ req'[r].count = req[r].count)
<1>1. PICK x \in W : req' = IF x = "answer" THEN Done(r) ELSE Goto(r, x)
  OBVIOUS
<1>2. CASE x = "answer"
  BY <1>1, <1>2 DEF Done, Idle, RequestsOK
<1>3. CASE x # "answer"
  <2>1. req[r] # Idle /\ x \in Statements
    BY <1>3, NotIdle
  <2> QED
    BY <1>1, <1>3, <2>1, GotoFields
<1> QED
  BY <1>2, <1>3

LEMMA QuietLeaves ==
    ASSUME TypeOK, NEW r \in Requests,
           \/ CheckPassword(r) \/ CheckSentCode(r) \/ \E code \in Secrets : CheckTotp(r, code)
           \/ RecordFailure(r) \/ Enable(r) \/ Disable(r)
    PROVE  LeavesCounting
<1> RequestsOK
  BY DEF TypeOK, RequestsOK
<1> DEFINE W == {"fail", "read", "second", "clear", "answer"}
<1>1. PICK w \in {"check", "second", "fail", "enable", "disable"} :
        Doing(r, w) /\ \E x \in W : req' = IF x = "answer" THEN Done(r) ELSE Goto(r, x)
  BY DEF CheckPassword, CheckSentCode, CheckTotp, Continue, RecordFailure, Enable, Disable
<1>2. w \in Statements /\ W \subseteq Statements \cup {"answer"} /\ w # "lock"
      /\ (W \cup {"idle"}) \cap Counting = {}
  BY DEF Statements, Counting
<1>3. /\ \A q \in Requests \ {r} : req'[q] = req[q]
      /\ req'[r].next \in W \cup {"idle"}
  <2> HIDE DEF W
  <2> QED
    BY <1>1, <1>2, GoesOn
<1>4. UNCHANGED <<failed, guesses, overlapped, cut>>
  BY DEF CheckPassword, CheckSentCode, CheckTotp, Continue, RecordFailure, Enable, Disable,
         lockout, history
<1>5. ~Doing(r, "lock")
  BY <1>1, <1>2 DEF Doing
<1> HIDE DEF W
<1> QED
  BY <1>2, <1>3, <1>4, <1>5 DEF LeavesCounting

LEMMA AbortLeaves ==
    ASSUME TypeOK, NEW r \in Requests, Abort(r)
    PROVE  LeavesCounting
<1>1. /\ \A q \in Requests \ {r} : req'[q] = req[q]
      /\ req'[r].next = "idle"
  BY DEF Abort, Done, Idle, TypeOK
<1>2. "idle" \notin Counting
  BY DEF Counting
<1>3. UNCHANGED <<failed, guesses, overlapped>>
  BY DEF Abort, lockout
<1>4. cut \subseteq cut' /\ (Doing(r, "lock") => req[r].user \in cut')
  BY DEF Abort
<1> QED
  BY <1>1, <1>2, <1>3, <1>4 DEF LeavesCounting

-----------------------------------------------------------------------------
(* The statements that count. *)
LEMMA ReadKeeps ==
    ASSUME CountInv, NEW r \in Requests, ReadCount(r)
    PROVE  CountIsExact' /\ CountingAgrees'
<1> TypeOK /\ CountIsExact /\ CountingAgrees
  BY DEF CountInv
<1>0. PICK v \in Users : v = req[r].user
  <2>1. "read" \in Statements /\ Doing(r, "read")
    BY DEF Statements, ReadCount
  <2> QED
    BY <2>1, RequestFields DEF TypeOK, RequestsOK
<1>1. /\ req'[r].next = "write"
      /\ req'[r].user = v
      /\ req'[r].count = failed[v]
      /\ req' = [req EXCEPT ![r] = req'[r]]
  BY <1>0, ReadFields
<1>2. \A q \in Requests \ {r} : req'[q] = req[q]
  BY <1>1 DEF TypeOK
<1>3. UNCHANGED <<failed, guesses, cut>> /\ Doing(r, "read")
  BY DEF ReadCount, lockout
<1>4. overlapped' = IF CountingFor(v) # {} THEN overlapped \cup {v} ELSE overlapped
  BY <1>0 DEF ReadCount
<1>5. r \notin CountingFor(v)
  BY <1>3 DEF CountingFor, Counting, Doing
<1>6. \A u \in Users \ {v} : CountingFor(u)' = CountingFor(u)
  BY <1>0, <1>1, <1>2, <1>3 DEF CountingFor, Counting, Doing
<1>7. CountingFor(v)' = CountingFor(v) \cup {r}
  BY <1>1, <1>2 DEF CountingFor, Counting
<1>8. ASSUME NEW u \in Users, u \notin overlapped'
      PROVE  \A p \in CountingFor(u)' :
               /\ \A q \in CountingFor(u)' : q = p
               /\ Doing(p, "write")' => req'[p].count = failed'[u]
  <2>1. u \notin overlapped
    BY <1>4, <1>8
  <2>2. CASE u = v
    <3>1. CountingFor(v)' = {r}
      BY <1>4, <1>7, <1>8, <2>2
    <3> QED
      BY <1>1, <1>3, <2>2, <3>1
  <2>3. CASE u # v
    <3>1. \A p \in CountingFor(u) : p # r /\ p \in Requests
      BY <1>3 DEF CountingFor, Counting, Doing
    <3> QED
      BY <1>2, <1>3, <1>6, <2>1, <2>3, <3>1 DEF CountingAgrees, Doing
  <2> QED
    BY <2>2, <2>3
<1>9. CountingAgrees'
  BY <1>8 DEF CountingAgrees
<1>10. ASSUME NEW u \in Users, u \notin overlapped', u \notin cut'
       PROVE  /\ failed'[u] = guesses'[u]
              /\ failed'[u] < Threshold \/ \E p \in CountingFor(u)' : Doing(p, "lock")'
  <2>1. u \notin overlapped /\ u \notin cut
    BY <1>3, <1>4, <1>10
  <2>2. failed[u] = guesses[u] /\ (failed[u] < Threshold \/ \E p \in CountingFor(u) : Doing(p, "lock"))
    BY <2>1 DEF CountIsExact
  <2>3. \A p \in CountingFor(u) : Doing(p, "lock") => p \in CountingFor(u)' /\ Doing(p, "lock")'
    BY <1>2, <1>3, <1>6, <1>7 DEF CountingFor, Doing
  <2> QED
    BY <1>3, <2>2, <2>3
<1>11. CountIsExact'
  BY <1>10 DEF CountIsExact
<1> QED
  BY <1>9, <1>11

LEMMA WriteKeeps ==
    ASSUME CountInv, NEW r \in Requests, WriteCount(r)
    PROVE  CountIsExact' /\ CountingAgrees'
<1> TypeOK /\ CountIsExact /\ CountingAgrees /\ RequestsOK
  BY DEF CountInv, TypeOK, RequestsOK
<1> DEFINE n == req[r].count + 1
<1>1. "write" \in Statements /\ "lock" \in Statements /\ Doing(r, "write")
  BY DEF Statements, Counting, WriteCount
<1>0. PICK v \in Users : v = req[r].user
  BY <1>1, RequestFields
<1>2. n \in Nat /\ r \in CountingFor(v)
  <2>1. req[r].user \in Users /\ req[r].count \in Nat
    BY <1>1, RequestFields
  <2> QED
    BY <1>0, <1>1, <2>1 DEF CountingFor, Counting, Doing
<1>3. /\ \A q \in Requests \ {r} : req'[q] = req[q]
      /\ IF n >= Threshold THEN req'[r].next = "lock" /\ req'[r].user = v
         ELSE req'[r].next = "idle"
  <2>1. CASE n >= Threshold
    <3>1. req' = Goto(r, "lock")
      BY <2>1 DEF WriteCount
    <3>2. req[r] # Idle
      BY <1>1, NotIdle
    <3> QED
      BY <1>0, <1>1, <2>1, <3>1, <3>2, GotoFields
  <2>2. CASE ~(n >= Threshold)
    <3>1. req' = Done(r)
      BY <2>2 DEF WriteCount
    <3> QED
      BY <2>2, <3>1 DEF Done, Idle, TypeOK
  <2> QED
    BY <2>1, <2>2
<1>4. UNCHANGED <<overlapped, cut>>
  BY DEF WriteCount
<1>5. failed' = [failed EXCEPT ![v] = n]
  BY <1>0 DEF WriteCount
<1>6. v \notin cut => guesses' = [guesses EXCEPT ![v] = guesses[v] + 1]
  BY <1>0 DEF WriteCount, CountGuess
<1>7. \A u \in Users \ {v} : guesses'[u] = guesses[u]
  BY <1>0 DEF WriteCount, CountGuess, TypeOK
<1>8. \A u \in Users \ {v} : CountingFor(u)' = CountingFor(u) /\ r \notin CountingFor(u)
  BY <1>0, <1>3 DEF CountingFor, Counting
<1>9. v \notin overlapped => CountingFor(v) = {r} /\ req[r].count = failed[v]
  BY <1>1, <1>2 DEF CountingAgrees
<1>10. v \notin overlapped => CountingFor(v)' \subseteq {r} /\ ~Doing(r, "write")'
  BY <1>3, <1>9 DEF CountingFor, Doing
<1>11. ASSUME NEW u \in Users, u \notin overlapped'
       PROVE  \A p \in CountingFor(u)' :
                /\ \A q \in CountingFor(u)' : q = p
                /\ Doing(p, "write")' => req'[p].count = failed'[u]
  <2>1. CASE u = v
    BY <1>4, <1>10, <1>11, <2>1
  <2>2. CASE u # v
    <3>1. failed'[u] = failed[u]
      BY <1>5, <2>2 DEF TypeOK
    <3>2. \A p \in CountingFor(u) : req'[p] = req[p]
      BY <1>3, <1>8, <2>2 DEF CountingFor
    <3> QED
      BY <1>4, <1>8, <1>11, <2>2, <3>1, <3>2 DEF CountingAgrees, Doing
  <2> QED
    BY <2>1, <2>2
<1>12. CountingAgrees'
  BY <1>11 DEF CountingAgrees
<1>13. ASSUME NEW u \in Users, u \notin overlapped', u \notin cut'
       PROVE  /\ failed'[u] = guesses'[u]
              /\ failed'[u] < Threshold \/ \E p \in CountingFor(u)' : Doing(p, "lock")'
  <2>1. failed[u] = guesses[u] /\ (failed[u] < Threshold \/ \E p \in CountingFor(u) : Doing(p, "lock"))
    BY <1>4, <1>13 DEF CountIsExact
  <2>2. CASE u = v
    <3>1. failed'[u] = n
      BY <1>2, <1>5, <2>2 DEF TypeOK
    <3>2. guesses'[u] = guesses[v] + 1
      BY <1>2, <1>4, <1>6, <1>13, <2>2 DEF TypeOK
    <3>3. n = guesses[v] + 1
      BY <1>4, <1>9, <1>13, <2>1, <2>2
    <3>4. CASE n >= Threshold
      <4>1. r \in CountingFor(u)' /\ Doing(r, "lock")'
        BY <1>3, <2>2, <3>4 DEF CountingFor, Counting, Doing
      <4> QED
        BY <3>1, <3>2, <3>3, <4>1
    <3>5. CASE ~(n >= Threshold)
      <4>1. n < Threshold
        BY <1>2, <3>5, SignInAssumption
      <4> HIDE DEF n
      <4> QED
        BY <3>1, <3>2, <3>3, <4>1
    <3> QED
      BY <3>4, <3>5
  <2>3. CASE u # v
    <3>1. failed'[u] = failed[u] /\ guesses'[u] = guesses[u]
      BY <1>5, <1>7, <2>3 DEF TypeOK
    <3>2. \A p \in CountingFor(u) : req'[p] = req[p]
      BY <1>3, <1>8, <2>3 DEF CountingFor
    <3> QED
      BY <1>8, <2>1, <2>3, <3>1, <3>2 DEF Doing
  <2> QED
    BY <2>2, <2>3
<1>14. CountIsExact'
  BY <1>13 DEF CountIsExact
<1> QED
  BY <1>12, <1>14

(* The account is locked or unlocked: its count and its guesses start again. *)
LEMMA ResetKeeps ==
    ASSUME CountInv, NEW r \in Requests, LockAccount(r) \/ ClearLockout(r)
    PROVE  CountIsExact' /\ CountingAgrees'
<1> TypeOK /\ CountIsExact /\ CountingAgrees /\ RequestsOK
  BY DEF CountInv, TypeOK, RequestsOK
<1>0. PICK v \in Users : v = req[r].user
  <2>1. "lock" \in Statements /\ "clear" \in Statements
    BY DEF Statements, Counting
  <2>2. Doing(r, "lock") \/ Doing(r, "clear")
    BY DEF LockAccount, ClearLockout
  <2> QED
    BY <2>1, <2>2, RequestFields
<1>1. /\ \A q \in Requests \ {r} : req'[q] = req[q]
      /\ req'[r].next = "idle"
      /\ cut' = cut
  BY DEF LockAccount, ClearLockout, Done, Idle, TypeOK
<1>2. CASE ClearLockout(r) /\ lock[v] = "null"
  <2>1. LeavesCounting
    BY <1>0, <1>1, <1>2 DEF LeavesCounting, ClearLockout, Counting, Doing
  <2> QED
    BY <2>1, LeavesCountingKeeps
<1>3. CASE ~(ClearLockout(r) /\ lock[v] = "null")
  <2>1. /\ failed' = [failed EXCEPT ![v] = 0]
        /\ guesses' = [guesses EXCEPT ![v] = 0]
        /\ overlapped \subseteq overlapped'
    BY <1>0, <1>3 DEF LockAccount, ClearLockout
  <2>2. v \notin overlapped' => CountingFor(v)' = {}
    <3>1. CASE LockAccount(r)
      <4>1. r \in CountingFor(v)
        BY <1>0, <3>1 DEF LockAccount, CountingFor, Counting, Doing
      <4>2. v \notin overlapped => CountingFor(v) = {r}
        BY <4>1 DEF CountingAgrees
      <4> QED
        BY <1>1, <2>1, <4>2 DEF CountingFor, Counting
    <3>2. CASE ClearLockout(r)
      <4>1. v \notin overlapped' => CountingFor(v) = {}
        BY <1>0, <1>3, <3>2 DEF ClearLockout
      <4> QED
        BY <1>1, <4>1 DEF CountingFor, Counting
    <3> QED
      BY <3>1, <3>2
  <2>4. \A u \in Users \ {v} : failed'[u] = failed[u] /\ guesses'[u] = guesses[u]
    BY <2>1 DEF TypeOK
  <2>5. failed'[v] = 0 /\ guesses'[v] = 0
    BY <2>1 DEF TypeOK
  <2>6. \A u \in Users \ {v} : CountingFor(u)' = CountingFor(u)
        /\ \A p \in CountingFor(u) : req'[p] = req[p]
    <3>1. \A u \in Users \ {v} : r \notin CountingFor(u)
      BY <1>0 DEF CountingFor
    <3> QED
      BY <1>1, <3>1 DEF CountingFor, Counting
  <2>7. CountingAgrees'
    BY <2>1, <2>2, <2>4, <2>6 DEF CountingAgrees, Doing
  <2>8. ASSUME NEW u \in Users, u \notin overlapped', u \notin cut'
        PROVE  /\ failed'[u] = guesses'[u]
               /\ failed'[u] < Threshold \/ \E p \in CountingFor(u)' : Doing(p, "lock")'
    <3>1. CASE u = v
      BY <2>5, <3>1, SignInAssumption
    <3>2. CASE u # v
      <4>1. failed[u] = guesses[u] /\ (failed[u] < Threshold \/ \E p \in CountingFor(u) : Doing(p, "lock"))
        BY <1>1, <2>1, <2>8 DEF CountIsExact
      <4> QED
        BY <2>4, <2>6, <3>2, <4>1 DEF Doing
    <3> QED
      BY <3>1, <3>2
  <2>9. CountIsExact'
    BY <2>8 DEF CountIsExact
  <2> QED
    BY <2>7, <2>9
<1> QED
  BY <1>2, <1>3

LEMMA CountInit == Init => CountInv
<1> SUFFICES ASSUME Init PROVE CountInv
  OBVIOUS
<1>1. \A u \in Users : CountingFor(u) = {}
  BY DEF Init, CountingFor, Counting, Idle
<1>2. 0 < Threshold
  BY SignInAssumption
<1> QED
  BY <1>1, <1>2, TypeInit DEF Init, CountInv, CountIsExact, CountingAgrees

LEMMA CountNext == CountInv /\ [Next]_vars => CountInv'
<1> SUFFICES ASSUME CountInv, [Next]_vars PROVE CountIsExact' /\ CountingAgrees'
  BY TypeNext DEF CountInv
<1> TypeOK /\ CountIsExact /\ CountingAgrees
  BY DEF CountInv
<1>1. ASSUME NEW r \in Requests, Arrive(r) PROVE LeavesCounting
  BY <1>1, ArriveLeaves
<1>2. ASSUME NEW r \in Requests, Abort(r) PROVE LeavesCounting
  BY <1>2, AbortLeaves
<1>3. ASSUME \/ \E u \in Users : LockRunsOut(u) \/ \E s \in Secrets : GenerateSecret(u, s)
             \/ \E a \in Addresses : WindowMoves(a)
             \/ UNCHANGED vars
      PROVE  LeavesCounting
  BY <1>3 DEF LeavesCounting, LockRunsOut, GenerateSecret, WindowMoves, lockout, history, vars
<1>4. ASSUME NEW r \in Requests, Step(r) PROVE CountIsExact' /\ CountingAgrees'
  BY <1>4, QuietLeaves, LeavesCountingKeeps, ReadKeeps, WriteKeeps, ResetKeeps DEF Step
<1> QED
  BY <1>1, <1>2, <1>3, <1>4, LeavesCountingKeeps DEF Next

(* However sign-ins interleave, the count of an account is the number of
   wrong passwords since its last lock or unlocking, and the lock is not
   missed at the threshold, unless failures overlapped or were cut. *)
THEOREM CountsAreExact == Spec => []CountIsExact
<1>1. CountInv => CountIsExact
  BY DEF CountInv
<1> QED
  BY <1>1, CountInit, CountNext, PTL DEF Spec

-----------------------------------------------------------------------------
(* A factor that is on is proven.  What makes it inductive is EnablingAgrees: *)
(* the secret whose code enable has checked is still the one in force.        *)
FactorInv == TypeOK /\ FactorIsProven /\ EnablingAgrees

(* A step that touches no factor, and starts no request to enable one. *)
LeavesFactor ==
    /\ UNCHANGED <<totp, proven, unsettled>>
    /\ \A q \in Requests : req'[q] = req[q] \/ req'[q].next # "enable"

LEMMA LeavesFactorKeeps ==
    ASSUME FactorIsProven, EnablingAgrees, LeavesFactor
    PROVE  FactorIsProven' /\ EnablingAgrees'
<1>1. \A u \in Users : \A q \in Enabling(u)' : q \in Enabling(u) /\ req'[q] = req[q]
  BY DEF LeavesFactor, Enabling, Doing
<1> QED
  BY <1>1 DEF LeavesFactor, FactorIsProven, EnablingAgrees, totp

LEMMA ArriveKeepsFactor ==
    ASSUME FactorInv, NEW r \in Requests, Arrive(r)
    PROVE  FactorIsProven' /\ EnablingAgrees'
<1> TypeOK /\ FactorIsProven /\ EnablingAgrees
  BY DEF FactorInv
<1>1. PICK u \in Users, a \in Addresses :
        \/ Login(r, u, a) \/ UseRecoveryCode(r, u, a)
        \/ \E w \in {"enable", "disable"} : SettingRead(r, u, a, w)
  BY DEF Arrive
<1>2. UNCHANGED <<totp, history>>
  BY ArriveRequests
<1>3. CASE Login(r, u, a) \/ UseRecoveryCode(r, u, a)
  <2>1. PICK w \in {"fail", "check", "clear"} : Begin(r, Request(w, u, a))
    BY <1>3 DEF Login, UseRecoveryCode
  <2>2. Request(w, u, a).next = w
    <3>1. w \in Statements
      BY DEF Statements
    <3> QED
      BY <3>1, RequestRecord
  <2>3. LeavesFactor
    BY <1>2, <2>1, <2>2 DEF LeavesFactor, Begin, TypeOK, history
  <2> QED
    BY <2>3, LeavesFactorKeeps
<1>4. ASSUME NEW w \in {"enable", "disable"}, SettingRead(r, u, a, w)
      PROVE  FactorIsProven' /\ EnablingAgrees'
  <2> DEFINE q == [Request(w, u, a) EXCEPT !.token = secret[u]]
  <2>1. q.next = w /\ q.user = u /\ q.token = secret[u]
    BY DEF Request
  <2>2. req' = [req EXCEPT ![r] = q]
    BY <1>4 DEF SettingRead, Begin
  <2>3. req'[r].next = w /\ req'[r].user = u /\ req'[r].token = secret[u]
    <3> HIDE DEF q
    <3> QED
      BY <2>1, <2>2 DEF TypeOK
  <2>4. \A p \in Requests \ {r} : req'[p] = req[p]
    <3> HIDE DEF q
    <3> QED
      BY <2>2 DEF TypeOK
  <2>5. FactorIsProven'
    BY <1>2 DEF FactorIsProven, totp, history
  <2>6. ASSUME NEW v \in Users, v \notin unsettled', NEW p \in Requests,
               req'[p].next = "enable", req'[p].user = v
        PROVE  req'[p].token = secret'[v]
    <3>1. CASE p = r
      BY <1>2, <2>3, <2>6, <3>1 DEF totp
    <3>2. CASE p # r
      <4>1. req'[p] = req[p]
        BY <2>4, <3>2
      <4> QED
        BY <1>2, <2>6, <4>1 DEF EnablingAgrees, Enabling, Doing, totp, history
    <3> QED
      BY <3>1, <3>2
  <2>7. EnablingAgrees'
    BY <2>6 DEF EnablingAgrees, Enabling, Doing
  <2> QED
    BY <2>5, <2>7
<1> QED
  BY <1>1, <1>3, <1>4

(* Every other step of a request that does not write a factor. *)
LEMMA StepLeavesFactor ==
    ASSUME TypeOK, NEW r \in Requests, Step(r), ~Enable(r), ~Disable(r)
    PROVE  LeavesFactor
<1> RequestsOK
  BY DEF TypeOK, RequestsOK
<1>1. CASE ReadCount(r)
  <2>1. req'[r].next = "write" /\ req' = [req EXCEPT ![r] = req'[r]]
    BY <1>1, ReadFields
  <2>2. \A q \in Requests : req'[q] = req[q] \/ req'[q].next # "enable"
    BY <2>1 DEF TypeOK
  <2> QED
    BY <1>1, <2>2 DEF LeavesFactor, ReadCount
<1>2. CASE ~ReadCount(r)
  <2> DEFINE W == {"fail", "read", "lock", "second", "clear", "answer"}
  <2>1. PICK w \in {"check", "second", "fail", "write", "lock", "clear"} :
          Doing(r, w) /\ \E x \in W : req' = IF x = "answer" THEN Done(r) ELSE Goto(r, x)
    BY <1>2 DEF Step, CheckPassword, CheckSentCode, CheckTotp, Continue, RecordFailure,
                WriteCount, LockAccount, ClearLockout
  <2>2. w \in Statements /\ W \subseteq Statements \cup {"answer"} /\ "enable" \notin W \cup {"idle"}
    BY DEF Statements, Counting
  <2>3. /\ \A q \in Requests \ {r} : req'[q] = req[q]
        /\ req'[r].next \in W \cup {"idle"}
    <3> HIDE DEF W
    <3> QED
      BY <2>1, <2>2, GoesOn
  <2>4. UNCHANGED <<totp, proven, unsettled>>
    BY <1>2 DEF Step, CheckPassword, CheckSentCode, CheckTotp, Continue, RecordFailure,
                WriteCount, LockAccount, ClearLockout, history
  <2> HIDE DEF W
  <2> QED
    BY <2>2, <2>3, <2>4 DEF LeavesFactor
<1> QED
  BY <1>1, <1>2

LEMMA EnableKeeps ==
    ASSUME FactorInv, NEW r \in Requests, Enable(r)
    PROVE  FactorIsProven' /\ EnablingAgrees'
<1> TypeOK /\ FactorIsProven /\ EnablingAgrees /\ RequestsOK
  BY DEF FactorInv, TypeOK, RequestsOK
<1>1. Doing(r, "enable") /\ "enable" \in Statements
  BY DEF Enable, Statements
<1>2. PICK v \in Users : v = req[r].user
  BY <1>1, RequestFields
<1>3. req[r].token \in Secrets
  BY <1>1 DEF RequestsOK, Doing
<1>4. v \notin unsettled => req[r].token = secret[v]
  BY <1>1, <1>2 DEF EnablingAgrees, Enabling
<1>5. /\ enabled' = [enabled EXCEPT ![v] = TRUE]
      /\ proven' = [proven EXCEPT ![v] = req[r].token]
      /\ UNCHANGED <<secret, unsettled>>
  BY <1>2 DEF Enable
<1>6. \A q \in Requests : req'[q] = req[q] \/ req'[q].next # "enable"
  BY DEF Enable, Done, Idle, TypeOK
<1>7. FactorIsProven'
  BY <1>3, <1>4, <1>5, SignInAssumption DEF FactorIsProven, TypeOK
<1>8. EnablingAgrees'
  BY <1>5, <1>6 DEF EnablingAgrees, Enabling, Doing
<1> QED
  BY <1>7, <1>8

LEMMA DisableKeeps ==
    ASSUME FactorInv, NEW r \in Requests, Disable(r)
    PROVE  FactorIsProven' /\ EnablingAgrees'
<1> TypeOK /\ FactorIsProven /\ EnablingAgrees /\ RequestsOK
  BY DEF FactorInv, TypeOK, RequestsOK
<1>1. Doing(r, "disable") /\ "disable" \in Statements
  BY DEF Disable, Statements
<1>2. PICK v \in Users : v = req[r].user
  BY <1>1, RequestFields
<1>3. /\ secret' = [secret EXCEPT ![v] = NoSecret]
      /\ enabled' = [enabled EXCEPT ![v] = FALSE]
      /\ unsettled' = IF Enabling(v) # {} THEN unsettled \cup {v} ELSE unsettled \ {v}
      /\ UNCHANGED proven
  BY <1>2 DEF Disable
<1>4. \A q \in Requests : req'[q] = req[q] \/ req'[q].next # "enable"
  BY DEF Disable, Done, Idle, TypeOK
<1>5. FactorIsProven'
  BY <1>3 DEF FactorIsProven, TypeOK
<1>6. ASSUME NEW u \in Users, u \notin unsettled', NEW q \in Requests,
             req'[q].next = "enable", req'[q].user = u
      PROVE  req'[q].token = secret'[u]
  <2>1. req'[q] = req[q]
    BY <1>4, <1>6
  <2>2. q \in Enabling(u)
    BY <1>6, <2>1 DEF Enabling, Doing
  <2>3. u # v /\ u \notin unsettled
    BY <1>3, <1>6, <2>2
  <2>4. secret'[u] = secret[u]
    BY <1>3, <2>3 DEF TypeOK
  <2> QED
    BY <2>1, <2>2, <2>3, <2>4 DEF EnablingAgrees
<1>7. EnablingAgrees'
  BY <1>6 DEF EnablingAgrees, Enabling, Doing
<1> QED
  BY <1>5, <1>7

LEMMA GenerateKeeps ==
    ASSUME FactorInv, NEW u \in Users, NEW s \in Secrets, GenerateSecret(u, s)
    PROVE  FactorIsProven' /\ EnablingAgrees'
<1> TypeOK /\ FactorIsProven /\ EnablingAgrees
  BY DEF FactorInv
<1>1. /\ secret' = [secret EXCEPT ![u] = s]
      /\ unsettled' = IF enabled[u] \/ Enabling(u) # {} THEN unsettled \cup {u} ELSE unsettled
      /\ UNCHANGED <<enabled, req, proven>>
  BY DEF GenerateSecret
<1>2. \A v \in Users \ {u} : secret'[v] = secret[v]
  BY <1>1 DEF TypeOK
<1>3. \A v \in Users \ unsettled' :
        /\ v \notin unsettled
        /\ v = u => ~enabled[u] /\ Enabling(u) = {}
  BY <1>1
<1>4. FactorIsProven'
  BY <1>1, <1>2, <1>3 DEF FactorIsProven
<1>5. \A v \in Users : Enabling(v)' = Enabling(v)
  BY <1>1 DEF Enabling, Doing
<1>6. EnablingAgrees'
  BY <1>1, <1>2, <1>3, <1>5 DEF EnablingAgrees
<1> QED
  BY <1>4, <1>6

LEMMA FactorInit == Init => FactorInv
<1> SUFFICES ASSUME Init PROVE FactorInv
  OBVIOUS
<1>1. \A u \in Users : Enabling(u) = {}
  BY DEF Init, Enabling, Doing, Idle
<1> QED
  BY <1>1, TypeInit DEF Init, FactorInv, FactorIsProven, EnablingAgrees

LEMMA FactorNext == FactorInv /\ [Next]_vars => FactorInv'
<1> SUFFICES ASSUME FactorInv, [Next]_vars PROVE FactorIsProven' /\ EnablingAgrees'
  BY TypeNext DEF FactorInv
<1> TypeOK /\ FactorIsProven /\ EnablingAgrees
  BY DEF FactorInv
<1>1. ASSUME NEW r \in Requests, Arrive(r) PROVE FactorIsProven' /\ EnablingAgrees'
  BY <1>1, ArriveKeepsFactor
<1>2. ASSUME NEW r \in Requests, Step(r) PROVE FactorIsProven' /\ EnablingAgrees'
  BY <1>2, StepLeavesFactor, LeavesFactorKeeps, EnableKeeps, DisableKeeps
<1>3. ASSUME NEW r \in Requests, Abort(r) PROVE LeavesFactor
  BY <1>3 DEF Abort, LeavesFactor, Done, Idle, TypeOK
<1>4. ASSUME \/ \E u \in Users : LockRunsOut(u)
             \/ \E a \in Addresses : WindowMoves(a)
             \/ UNCHANGED vars
      PROVE  LeavesFactor
  BY <1>4 DEF LeavesFactor, LockRunsOut, WindowMoves, history, vars
<1>5. ASSUME NEW u \in Users, NEW s \in Secrets, GenerateSecret(u, s)
      PROVE  FactorIsProven' /\ EnablingAgrees'
  BY <1>5, GenerateKeeps
<1> QED
  BY <1>1, <1>2, <1>3, <1>4, <1>5, LeavesFactorKeeps DEF Next

(* A second factor that is on can be passed by its owner: its secret is the
   one that was proven when it was switched on, unless it was replaced while
   on, or replaced or removed between the check of enable and its write. *)
THEOREM FactorsAreProven == Spec => []FactorIsProven
<1>1. FactorInv => FactorIsProven
  BY DEF FactorInv
<1> QED
  BY <1>1, FactorInit, FactorNext, PTL DEF Spec

-----------------------------------------------------------------------------
(* However failures overlap, there is a bound on the wrong passwords between *)
(* two locks.  The argument: the profile of the requests, for each count how *)
(* many of them will write a greater one, goes up in the lexicographic order *)
(* with each wrong password that is counted and does not lock, and never     *)
(* goes down until the account is locked or unlocked.                        *)
At(q, r, u, w) == q[r].next = w /\ q[r].user = u
Locking(q, u)  == {r \in Requests : At(q, r, u, "lock")}

(* With requests q and count n, the requests of which what they write next is
   greater than v: they lock the account, have read v or more, or will. *)
Reached(q, n, u, v) == {r \in Requests :
    \/ At(q, r, u, "lock")
    \/ n >= v /\ (At(q, r, u, "write") => q[r].count >= v)}
Profile(q, n, u) == [v \in Counts |-> Cardinality(Reached(q, n, u, v))]

Less(p, q) == \E v \in Counts :
    /\ p[v] < q[v]
    /\ \A w \in Counts : w < v => p[w] = q[w]
Below(p) == {q \in Profiles : Less(q, p)}

GuessesWithin(u) ==
    guesses[u] <= Cardinality(Below(Profile(req, failed[u], u))) + Cardinality(Locking(req, u))
GuessesInv == TypeOK /\ \A u \in Users \ cut : GuessesWithin(u)

-----------------------------------------------------------------------------
(* Facts about profiles. *)
LEMMA RequestsFinite ==
    ASSUME NEW S \in SUBSET Requests
    PROVE  /\ IsFiniteSet(S)
           /\ Cardinality(S) \in 0 .. Cardinality(Requests)
           /\ Cardinality(Requests) \in Nat
<1>1. IsFiniteSet(Requests)
  BY SignInAssumption
<1>2. IsFiniteSet(S) /\ Cardinality(S) <= Cardinality(Requests)
  BY <1>1, FS_Subset
<1>3. Cardinality(S) \in Nat /\ Cardinality(Requests) \in Nat
  BY <1>1, <1>2, FS_CardinalityType
<1> QED
  BY <1>2, <1>3

LEMMA CountsType == Counts \subseteq Nat \ {0} /\ IsFiniteSet(Counts)
<1>1. Threshold - 1 \in Int /\ 1 \in Int
  BY SignInAssumption
<1>2. IsFiniteSet(Counts)
  BY <1>1, FS_Interval DEF Counts
<1>3. Counts \subseteq Nat \ {0}
  BY <1>1 DEF Counts
<1> QED
  BY <1>2, <1>3

LEMMA ProfilesType ==
    ASSUME NEW p \in Profiles
    PROVE  /\ p \in [Counts -> Nat]
           /\ \A v \in Counts : p[v] \in 0 .. Cardinality(Requests)
<1>1. Cardinality(Requests) \in Nat
  BY RequestsFinite
<1> QED
  BY <1>1 DEF Profiles

(* There are finitely many: a profile is a set of pairs. *)
LEMMA ProfilesFinite == IsFiniteSet(Profiles) /\ Cardinality(Profiles) \in Nat
<1> DEFINE K == 0 .. Cardinality(Requests)
           G == [p \in Profiles |-> {<<v, p[v]>> : v \in Counts}]
<1>1. Cardinality(Requests) \in Int
  BY RequestsFinite
<1>2. IsFiniteSet(K)
  BY <1>1, FS_Interval
<1>3. IsFiniteSet(Counts \X K)
  BY <1>2, CountsType, FS_Product
<1>4. IsFiniteSet(SUBSET (Counts \X K))
  BY <1>3, FS_SUBSET
<1>5. ASSUME NEW p \in Profiles
      PROVE  {<<v, p[v]>> : v \in Counts} \in SUBSET (Counts \X K)
  BY DEF Profiles
<1>6. G \in [Profiles -> SUBSET (Counts \X K)]
  BY <1>5
<1>7. ASSUME NEW p \in Profiles, NEW q \in Profiles, G[p] = G[q]
      PROVE  p = q
  <2>1. ASSUME NEW v \in Counts PROVE p[v] = q[v]
    <3>1. <<v, p[v]>> \in G[q]
      BY <1>7
    <3>2. PICK w \in Counts : <<v, p[v]>> = <<w, q[w]>>
      BY <3>1
    <3> QED
      BY <3>2
  <2> QED
    BY <2>1 DEF Profiles
<1>8. G \in Injection(Profiles, SUBSET (Counts \X K))
  <2>1. \A p, q \in Profiles : G[p] = G[q] => p = q
    BY <1>7
  <2> HIDE DEF G, K
  <2> QED
    BY <1>6, <2>1 DEF Injection, IsInjective
<1>9. IsFiniteSet(Profiles)
  <2> HIDE DEF G, K
  <2> QED
    BY <1>4, <1>8, FS_Injection
<1> QED
  BY <1>9, FS_CardinalityType

LEMMA BelowFinite ==
    ASSUME NEW p
    PROVE  IsFiniteSet(Below(p)) /\ Cardinality(Below(p)) \in Nat
<1>1. Below(p) \in SUBSET Profiles
  BY DEF Below
<1>2. IsFiniteSet(Below(p))
  BY <1>1, ProfilesFinite, FS_Subset
<1> QED
  BY <1>2, FS_CardinalityType

LEMMA LessIsIrreflexive ==
    ASSUME NEW p \in Profiles
    PROVE  ~Less(p, p)
BY ProfilesType DEF Less

LEMMA LessIsTransitive ==
    ASSUME NEW p \in Profiles, NEW q \in Profiles, NEW s \in Profiles, Less(p, q), Less(q, s)
    PROVE  Less(p, s)
<1>1. PICK v \in Counts : p[v] < q[v] /\ \A w \in Counts : w < v => p[w] = q[w]
  BY DEF Less
<1>2. PICK x \in Counts : q[x] < s[x] /\ \A w \in Counts : w < x => q[w] = s[w]
  BY DEF Less
<1>3. \A w \in Counts : p[w] \in Nat /\ q[w] \in Nat /\ s[w] \in Nat /\ w \in Nat
  BY ProfilesType, CountsType
<1>4. CASE v < x
  BY <1>1, <1>2, <1>3, <1>4 DEF Less
<1>5. CASE v = x
  BY <1>1, <1>2, <1>3, <1>5 DEF Less
<1>6. CASE x < v
  BY <1>1, <1>2, <1>3, <1>6 DEF Less
<1> QED
  BY <1>3, <1>4, <1>5, <1>6

(* No profile is below itself: at most all the others are. *)
LEMMA BelowIsProper ==
    ASSUME NEW p \in Profiles
    PROVE  Cardinality(Below(p)) <= Cardinality(Profiles) - 1
<1>1. Below(p) \in SUBSET (Profiles \ {p})
  BY LessIsIrreflexive DEF Below
<1>2. IsFiniteSet(Profiles \ {p}) /\ Cardinality(Profiles \ {p}) = Cardinality(Profiles) - 1
  BY ProfilesFinite, FS_RemoveElement
<1> QED
  BY <1>1, <1>2, FS_Subset

LEMMA BelowGrows ==
    ASSUME NEW p \in Profiles, NEW q \in Profiles, Less(p, q)
    PROVE  Cardinality(Below(p)) + 1 <= Cardinality(Below(q))
<1>1. Below(p) \cup {p} \in SUBSET Below(q)
  BY LessIsTransitive DEF Below
<1>2. p \notin Below(p)
  BY LessIsIrreflexive DEF Below
<1>3. IsFiniteSet(Below(p)) /\ IsFiniteSet(Below(q))
  BY BelowFinite
<1>4. Cardinality(Below(p) \cup {p}) = Cardinality(Below(p)) + 1
  BY <1>2, <1>3, FS_AddElement
<1>5. Cardinality(Below(p) \cup {p}) <= Cardinality(Below(q))
  BY <1>1, <1>3, FS_Subset
<1> QED
  BY <1>4, <1>5

(* A profile that is nowhere less than another is not below it. *)
LEMMA PointwiseIsBelow ==
    ASSUME NEW p \in Profiles, NEW q \in Profiles, \A v \in Counts : p[v] <= q[v]
    PROVE  p = q \/ Less(p, q)
<1> SUFFICES ASSUME p # q PROVE Less(p, q)
  OBVIOUS
<1> DEFINE D == {v \in Counts : p[v] # q[v]}
<1>1. D # {} /\ D \subseteq Nat
  <2>1. p \in [Counts -> Nat] /\ q \in [Counts -> Nat]
    BY ProfilesType
  <2>2. \E v \in Counts : p[v] # q[v]
    BY <2>1
  <2> QED
    BY <2>2, CountsType
<1>2. PICK v \in D : \A w \in D : ~(<<w, v>> \in OpToRel(<, Nat))
  <2> HIDE DEF D
  <2> QED
    BY <1>1, WFMin, NatLessThanWellFounded
<1>3. \A w \in D : ~(w < v)
  BY <1>1, <1>2 DEF OpToRel
<1>4. p[v] < q[v]
  BY ProfilesType
<1> QED
  BY <1>3, <1>4 DEF Less

LEMMA BelowKeeps ==
    ASSUME NEW p \in Profiles, NEW q \in Profiles, \A v \in Counts : p[v] <= q[v]
    PROVE  Cardinality(Below(p)) <= Cardinality(Below(q))
<1>1. Cardinality(Below(p)) \in Nat /\ Cardinality(Below(q)) \in Nat
  BY BelowFinite
<1>2. CASE p = q
  BY <1>1, <1>2
<1>3. CASE Less(p, q)
  BY <1>1, <1>3, BelowGrows
<1> QED
  BY <1>2, <1>3, PointwiseIsBelow

LEMMA ProfileType ==
    ASSUME NEW q \in [Requests -> InFlight \cup {Idle}], NEW n \in Nat, NEW u \in Users
    PROVE  Profile(q, n, u) \in Profiles
<1>1. ASSUME NEW v \in Counts
      PROVE  Cardinality(Reached(q, n, u, v)) \in 0 .. Cardinality(Requests)
  <2>1. Reached(q, n, u, v) \in SUBSET Requests
    BY DEF Reached
  <2> QED
    BY <2>1, RequestsFinite
<1>2. ASSUME NEW v \in Counts, NEW w \in Counts, v <= w
      PROVE  Cardinality(Reached(q, n, u, w)) <= Cardinality(Reached(q, n, u, v))
  <2>1. ASSUME NEW r \in Reached(q, n, u, w) PROVE r \in Reached(q, n, u, v)
    <3>1. v \in Nat /\ w \in Nat /\ r \in Requests
      BY CountsType DEF Reached
    <3>2. At(q, r, u, "write") => q[r].count \in Nat
      BY <3>1 DEF At, InFlight, Idle
    <3> QED
      BY <1>2, <3>1, <3>2 DEF Reached
  <2>2. Reached(q, n, u, v) \in SUBSET Requests
    BY DEF Reached
  <2> QED
    BY <2>1, <2>2, RequestsFinite, FS_Subset
<1> QED
  BY <1>1, <1>2 DEF Profile, Profiles

(* Where no request falls behind and none stops locking, the bound only grows. *)
LEMMA NoneFallsBehind ==
    ASSUME TypeOK, TypeOK', NEW u \in Users, GuessesWithin(u),
           guesses'[u] = guesses[u],
           Locking(req, u) \subseteq Locking(req', u),
           \A v \in Counts : Reached(req, failed[u], u, v) \subseteq Reached(req', failed'[u], u, v)
    PROVE  GuessesWithin(u)'
<1> DEFINE p == Profile(req, failed[u], u)
           q == Profile(req', failed'[u], u)
<1>1. p \in Profiles /\ q \in Profiles
  BY ProfileType DEF TypeOK
<1>2. ASSUME NEW v \in Counts PROVE p[v] <= q[v]
  <2>1. Reached(req', failed'[u], u, v) \in SUBSET Requests
    BY DEF Reached
  <2>2. Cardinality(Reached(req, failed[u], u, v)) <= Cardinality(Reached(req', failed'[u], u, v))
    BY <2>1, RequestsFinite, FS_Subset
  <2> QED
    BY <2>2 DEF Profile
<1>3. Cardinality(Below(p)) <= Cardinality(Below(q))
  <2> HIDE DEF p, q
  <2> QED
    BY <1>1, <1>2, BelowKeeps
<1>4. Cardinality(Locking(req, u)) <= Cardinality(Locking(req', u))
  <2>1. Locking(req', u) \in SUBSET Requests
    BY DEF Locking
  <2> QED
    BY <2>1, RequestsFinite, FS_Subset
<1>5. /\ Cardinality(Below(p)) \in Nat /\ Cardinality(Below(q)) \in Nat
      /\ Cardinality(Locking(req, u)) \in Nat /\ Cardinality(Locking(req', u)) \in Nat
  <2>1. Locking(req, u) \in SUBSET Requests /\ Locking(req', u) \in SUBSET Requests
    BY DEF Locking
  <2> QED
    BY <2>1, RequestsFinite, BelowFinite
<1>6. guesses[u] \in Nat
  BY DEF TypeOK
<1>7. guesses[u] <= Cardinality(Below(p)) + Cardinality(Locking(req, u))
  BY DEF GuessesWithin
<1>8. guesses'[u] <= Cardinality(Below(q)) + Cardinality(Locking(req', u))
  <2> HIDE DEF p, q
  <2> QED
    BY <1>3, <1>4, <1>5, <1>6, <1>7
<1> QED
  BY <1>8 DEF GuessesWithin

(* A count that starts again is within any bound. *)
LEMMA NoGuesses ==
    ASSUME NEW u \in Users, guesses'[u] = 0
    PROVE  GuessesWithin(u)'
<1>1. Locking(req', u) \in SUBSET Requests
  BY DEF Locking
<1>2. Cardinality(Locking(req', u)) \in Nat
  BY <1>1, RequestsFinite
<1>3. Cardinality(Below(Profile(req', failed'[u], u))) \in Nat
  BY BelowFinite
<1> QED
  BY <1>2, <1>3 DEF GuessesWithin

(* What another user's request does, or one that does not count. *)
LEMMA OthersDoNotFallBehind ==
    ASSUME TypeOK, TypeOK', NEW u \in Users, GuessesWithin(u),
           guesses'[u] = guesses[u], failed'[u] = failed[u],
           \A r \in Requests : \/ req'[r] = req[r]
                               \/ /\ ~At(req, r, u, "lock")
                                  /\ ~At(req', r, u, "write")
    PROVE  GuessesWithin(u)'
<1>1. Locking(req, u) \subseteq Locking(req', u)
  BY DEF Locking, At
<1>2. ASSUME NEW v \in Counts
      PROVE  Reached(req, failed[u], u, v) \subseteq Reached(req', failed'[u], u, v)
  BY DEF Reached, At
<1> QED
  BY <1>1, <1>2, NoneFallsBehind

LEMMA LeavesCountingKeepsGuesses ==
    ASSUME GuessesInv, TypeOK', LeavesCounting, NEW u \in Users \ cut'
    PROVE  GuessesWithin(u)'
<1>1. GuessesWithin(u) /\ guesses'[u] = guesses[u] /\ failed'[u] = failed[u]
  BY DEF GuessesInv, LeavesCounting
<1>2. ASSUME NEW r \in Requests, req'[r] # req[r]
      PROVE  ~At(req, r, u, "lock") /\ ~At(req', r, u, "write")
  BY <1>2 DEF LeavesCounting, At, Doing, Counting
<1> QED
  BY <1>1, <1>2, OthersDoNotFallBehind DEF GuessesInv

(* A request that reads the count reads the count. *)
LEMMA ReadKeepsGuesses ==
    ASSUME GuessesInv, TypeOK', NEW r \in Requests, ReadCount(r), NEW u \in Users \ cut'
    PROVE  GuessesWithin(u)'
<1> TypeOK
  BY DEF GuessesInv
<1>1. /\ guesses'[u] = guesses[u] /\ failed'[u] = failed[u]
      /\ GuessesWithin(u)
      /\ req[r].next = "read"
  BY DEF ReadCount, GuessesInv, lockout, Doing
<1>2. /\ req'[r].next = "write" /\ req'[r].user = req[r].user
      /\ req'[r].count = failed[req[r].user]
      /\ \A p \in Requests \ {r} : req'[p] = req[p]
  BY ReadFields DEF TypeOK
<1>3. Locking(req, u) \subseteq Locking(req', u)
  BY <1>1, <1>2 DEF Locking, At
<1>4. ASSUME NEW v \in Counts
      PROVE  Reached(req, failed[u], u, v) \subseteq Reached(req', failed'[u], u, v)
  <2>1. \A p \in Requests \ {r} : p \in Reached(req, failed[u], u, v) => p \in Reached(req', failed'[u], u, v)
    BY <1>1, <1>2 DEF Reached, At
  <2>2. r \in Reached(req, failed[u], u, v) => r \in Reached(req', failed'[u], u, v)
    BY <1>1, <1>2 DEF Reached, At
  <2> QED
    BY <2>1, <2>2 DEF Reached
<1> QED
  BY <1>1, <1>3, <1>4, NoneFallsBehind

LEMMA ResetKeepsGuesses ==
    ASSUME GuessesInv, TypeOK', NEW r \in Requests, LockAccount(r) \/ ClearLockout(r),
           NEW u \in Users \ cut'
    PROVE  GuessesWithin(u)'
<1> TypeOK
  BY DEF GuessesInv
<1>1. /\ \A q \in Requests \ {r} : req'[q] = req[q]
      /\ req'[r].next = "idle"
      /\ cut' = cut
  BY DEF LockAccount, ClearLockout, Done, Idle, TypeOK
<1>2. GuessesWithin(u)
  BY <1>1 DEF GuessesInv
<1>3. CASE guesses'[u] = 0
  BY <1>3, NoGuesses
<1>4. CASE guesses'[u] # 0
  <2>1. \/ req[r].user # u
        \/ ClearLockout(r) /\ lock[u] = "null"
    BY <1>4 DEF LockAccount, ClearLockout, TypeOK
  <2>2. guesses'[u] = guesses[u] /\ failed'[u] = failed[u]
    BY <2>1 DEF LockAccount, ClearLockout, TypeOK
  <2>3. ~At(req, r, u, "lock") /\ ~At(req', r, u, "write")
    BY <1>1, <2>1 DEF At, ClearLockout, Doing
  <2> QED
    BY <1>1, <1>2, <2>2, <2>3, OthersDoNotFallBehind
<1> QED
  BY <1>3, <1>4

(* What a write of the count leaves. *)
LEMMA WriteFields ==
    ASSUME TypeOK, NEW r \in Requests, WriteCount(r)
    PROVE  LET u == req[r].user
               n == req[r].count + 1
           IN  /\ req[r].next = "write" /\ u \in Users /\ req[r].count \in Nat
               /\ \A q \in Requests \ {r} : req'[q] = req[q]
               /\ IF n >= Threshold THEN req'[r].next = "lock" /\ req'[r].user = u
                  ELSE req'[r].next = "idle"
               /\ failed' = [failed EXCEPT ![u] = n]
               /\ cut' = cut
               /\ u \notin cut => guesses' = [guesses EXCEPT ![u] = @ + 1]
               /\ \A v \in Users \ {u} : guesses'[v] = guesses[v]
<1> RequestsOK
  BY DEF TypeOK, RequestsOK
<1> DEFINE u == req[r].user
           n == req[r].count + 1
<1>1. Doing(r, "write") /\ "write" \in Statements /\ "lock" \in Statements
  BY DEF WriteCount, Statements, Counting
<1>2. req[r].next = "write" /\ u \in Users /\ req[r].count \in Nat /\ req[r] # Idle
  BY <1>1, RequestFields, NotIdle
<1>3. /\ \A q \in Requests \ {r} : req'[q] = req[q]
      /\ IF n >= Threshold THEN req'[r].next = "lock" /\ req'[r].user = u
         ELSE req'[r].next = "idle"
  <2>1. CASE n >= Threshold
    <3>1. req' = Goto(r, "lock")
      BY <2>1 DEF WriteCount
    <3> QED
      BY <1>1, <1>2, <2>1, <3>1, GotoFields
  <2>2. CASE ~(n >= Threshold)
    <3>1. req' = Done(r)
      BY <2>2 DEF WriteCount
    <3> QED
      BY <2>2, <3>1 DEF Done, Idle, TypeOK
  <2> QED
    BY <2>1, <2>2
<1>4. /\ failed' = [failed EXCEPT ![u] = n]
      /\ cut' = cut
      /\ u \notin cut => guesses' = [guesses EXCEPT ![u] = @ + 1]
      /\ \A v \in Users \ {u} : guesses'[v] = guesses[v]
  BY <1>2 DEF WriteCount, CountGuess, TypeOK
<1> QED
  BY <1>2, <1>3, <1>4

(* A wrong password that brings the count to the threshold: one more request
   is about to lock the account. *)
LEMMA LastGuess ==
    ASSUME GuessesInv, TypeOK', NEW r \in Requests, WriteCount(r),
           NEW u \in Users \ cut, u = req[r].user, req[r].count + 1 >= Threshold
    PROVE  GuessesWithin(u)'
<1> TypeOK
  BY DEF GuessesInv
<1> DEFINE n == req[r].count + 1
           p == Profile(req, failed[u], u)
           q == Profile(req', failed'[u], u)
<1>1. /\ req[r].next = "write" /\ u \in Users /\ req[r].count \in Nat /\ n \in Nat
      /\ \A s \in Requests \ {r} : req'[s] = req[s]
      /\ req'[r].next = "lock" /\ req'[r].user = u
  BY WriteFields
<1>2. failed'[u] = n /\ guesses'[u] = guesses[u] + 1
  BY WriteFields DEF TypeOK
<1>3. p \in Profiles /\ q \in Profiles
  BY <1>1, ProfileType DEF TypeOK
<1>4. ASSUME NEW v \in Counts PROVE p[v] <= q[v]
  <2>1. n >= v /\ v \in Nat
    BY <1>1, SignInAssumption DEF Counts
  <2>2. Reached(req, failed[u], u, v) \subseteq Reached(req', failed'[u], u, v)
    BY <1>1, <1>2, <2>1 DEF Reached, At
  <2>3. Reached(req', failed'[u], u, v) \in SUBSET Requests
    BY DEF Reached
  <2>4. Cardinality(Reached(req, failed[u], u, v)) <= Cardinality(Reached(req', failed'[u], u, v))
    BY <2>2, <2>3, RequestsFinite, FS_Subset
  <2> QED
    BY <2>4 DEF Profile
<1>5. Cardinality(Below(p)) <= Cardinality(Below(q))
  <2> HIDE DEF p, q
  <2> QED
    BY <1>3, <1>4, BelowKeeps
<1>6. Cardinality(Locking(req', u)) = Cardinality(Locking(req, u)) + 1
  <2>1. Locking(req', u) = Locking(req, u) \cup {r} /\ r \notin Locking(req, u)
    BY <1>1 DEF Locking, At
  <2>2. Locking(req, u) \in SUBSET Requests
    BY DEF Locking
  <2> QED
    BY <2>1, <2>2, RequestsFinite, FS_AddElement
<1>7. /\ Cardinality(Below(p)) \in Nat /\ Cardinality(Below(q)) \in Nat
      /\ Cardinality(Locking(req, u)) \in Nat
  <2>1. Locking(req, u) \in SUBSET Requests
    BY DEF Locking
  <2> QED
    BY <2>1, RequestsFinite, BelowFinite
<1>8. guesses[u] \in Nat /\ guesses[u] <= Cardinality(Below(p)) + Cardinality(Locking(req, u))
  BY <1>1 DEF TypeOK, GuessesInv, GuessesWithin
<1>9. guesses'[u] <= Cardinality(Below(q)) + Cardinality(Locking(req', u))
  <2> HIDE DEF p, q
  <2> QED
    BY <1>2, <1>5, <1>6, <1>7, <1>8
<1> QED
  BY <1>9 DEF GuessesWithin

(* A wrong password that does not: the writer leaves behind the least count
   that it could have reached, and nobody falls below that count. *)
LEMMA OneMoreGuess ==
    ASSUME GuessesInv, TypeOK', NEW r \in Requests, WriteCount(r),
           NEW u \in Users \ cut, u = req[r].user, ~(req[r].count + 1 >= Threshold)
    PROVE  GuessesWithin(u)'
<1> TypeOK
  BY DEF GuessesInv
<1> DEFINE n == req[r].count + 1
           p == Profile(req, failed[u], u)
           q == Profile(req', failed'[u], u)
           m == IF req[r].count <= failed[u] THEN n ELSE failed[u] + 1
<1>1. /\ req[r].next = "write" /\ u \in Users /\ req[r].count \in Nat
      /\ \A s \in Requests \ {r} : req'[s] = req[s]
      /\ req'[r].next = "idle"
  BY WriteFields
<1>2. failed'[u] = n /\ guesses'[u] = guesses[u] + 1
  BY WriteFields DEF TypeOK
<1>3. p \in Profiles /\ q \in Profiles
  BY <1>1, ProfileType DEF TypeOK
<1>4. failed[u] \in Nat /\ m \in Counts /\ n \in Counts /\ m <= n
  BY <1>1, SignInAssumption DEF TypeOK, Counts
<1>5. ASSUME NEW v \in Counts, v <= m
      PROVE  Reached(req, failed[u], u, v) \subseteq Reached(req', failed'[u], u, v)
  <2>1. v \in Nat /\ n >= v
    BY <1>1, <1>4, <1>5, CountsType
  <2> QED
    BY <1>1, <1>2, <2>1 DEF Reached, At
<1>6. ASSUME NEW v \in Counts, v < m
      PROVE  Reached(req', failed'[u], u, v) \subseteq Reached(req, failed[u], u, v)
  <2>1. v \in Nat /\ failed[u] >= v /\ req[r].count >= v
    BY <1>1, <1>4, <1>6, CountsType
  <2> QED
    BY <1>1, <2>1 DEF Reached, At
<1>7. r \in Reached(req', failed'[u], u, m) /\ r \notin Reached(req, failed[u], u, m)
  <2>1. ~(failed[u] >= m /\ req[r].count >= m)
    BY <1>1, <1>4
  <2>2. r \notin Reached(req, failed[u], u, m)
    BY <1>1, <2>1 DEF Reached, At
  <2>3. r \in Reached(req', failed'[u], u, m)
    BY <1>1, <1>2, <1>4, CountsType DEF Reached, At
  <2> QED
    BY <2>2, <2>3
<1>8. Cardinality(Reached(req, failed[u], u, m)) < Cardinality(Reached(req', failed'[u], u, m))
  <2> DEFINE A == Reached(req, failed[u], u, m)
             B == Reached(req', failed'[u], u, m)
  <2>1. A \subseteq B /\ A # B
    BY <1>4, <1>5, <1>7
  <2>2. A \in SUBSET Requests /\ B \in SUBSET Requests
    BY DEF Reached
  <2>3. IsFiniteSet(B) /\ Cardinality(A) \in Nat /\ Cardinality(B) \in Nat
    <3> HIDE DEF A, B
    <3> QED
      BY <2>2, RequestsFinite
  <2>4. Cardinality(A) <= Cardinality(B) /\ Cardinality(A) # Cardinality(B)
    <3> HIDE DEF A, B
    <3> QED
      BY <2>1, <2>3, FS_Subset
  <2> HIDE DEF A, B
  <2>5. Cardinality(A) < Cardinality(B)
    BY <2>3, <2>4
  <2> QED
    BY <2>5 DEF A, B
<1>9. Less(p, q)
  <2>1. p[m] < q[m]
    BY <1>4, <1>8 DEF Profile
  <2>2. ASSUME NEW v \in Counts, v < m PROVE p[v] = q[v]
    <3>1. v <= m
      <4>1. v \in Nat /\ m \in Nat
        BY <1>4, CountsType
      <4> HIDE DEF m
      <4> QED
        BY <2>2, <4>1
    <3>2. Reached(req, failed[u], u, v) = Reached(req', failed'[u], u, v)
      BY <1>5, <1>6, <2>2, <3>1
    <3> QED
      BY <3>2 DEF Profile
  <2> HIDE DEF p, q, m
  <2> QED
    BY <1>4, <2>1, <2>2 DEF Less
<1>10. Cardinality(Below(p)) + 1 <= Cardinality(Below(q))
  <2> HIDE DEF p, q
  <2> QED
    BY <1>3, <1>9, BelowGrows
<1>11. Locking(req', u) = Locking(req, u)
  BY <1>1 DEF Locking, At
<1>12. /\ Cardinality(Below(p)) \in Nat /\ Cardinality(Below(q)) \in Nat
       /\ Cardinality(Locking(req, u)) \in Nat
  <2>1. Locking(req, u) \in SUBSET Requests
    BY DEF Locking
  <2> QED
    BY <2>1, RequestsFinite, BelowFinite
<1>13. guesses[u] \in Nat /\ guesses[u] <= Cardinality(Below(p)) + Cardinality(Locking(req, u))
  BY <1>1 DEF TypeOK, GuessesInv, GuessesWithin
<1>14. guesses'[u] <= Cardinality(Below(q)) + Cardinality(Locking(req', u))
  <2> HIDE DEF p, q
  <2> QED
    BY <1>2, <1>10, <1>11, <1>12, <1>13
<1> QED
  BY <1>14 DEF GuessesWithin

LEMMA WriteKeepsGuesses ==
    ASSUME GuessesInv, TypeOK', NEW r \in Requests, WriteCount(r), NEW u \in Users \ cut'
    PROVE  GuessesWithin(u)'
<1> TypeOK
  BY DEF GuessesInv
<1>1. /\ \A q \in Requests \ {r} : req'[q] = req[q]
      /\ req[r].next = "write" /\ req'[r].next # "write"
      /\ cut' = cut
  BY WriteFields
<1>2. CASE u = req[r].user
  BY <1>1, <1>2, LastGuess, OneMoreGuess
<1>3. CASE u # req[r].user
  <2>1. guesses'[u] = guesses[u] /\ failed'[u] = failed[u]
    BY <1>3, WriteFields DEF TypeOK
  <2>2. ~At(req, r, u, "lock") /\ ~At(req', r, u, "write")
    BY <1>1 DEF At
  <2> QED
    BY <1>1, <2>1, <2>2, OthersDoNotFallBehind DEF GuessesInv
<1> QED
  BY <1>2, <1>3

LEMMA GuessesInit == Init => GuessesInv
<1> SUFFICES ASSUME Init, NEW u \in Users PROVE GuessesWithin(u)
  BY TypeInit DEF GuessesInv
<1>1. Locking(req, u) \in SUBSET Requests
  BY DEF Locking
<1>2. Cardinality(Locking(req, u)) \in Nat
  BY <1>1, RequestsFinite
<1>3. Cardinality(Below(Profile(req, failed[u], u))) \in Nat
  BY BelowFinite
<1>4. guesses[u] = 0
  BY DEF Init
<1> QED
  BY <1>2, <1>3, <1>4 DEF GuessesWithin

LEMMA GuessesNext == GuessesInv /\ [Next]_vars => GuessesInv'
<1> SUFFICES ASSUME GuessesInv, [Next]_vars, NEW u \in Users \ cut' PROVE GuessesWithin(u)'
  BY TypeNext DEF GuessesInv
<1> TypeOK /\ TypeOK'
  BY TypeNext DEF GuessesInv
<1>1. ASSUME NEW r \in Requests, Arrive(r) \/ Abort(r) PROVE LeavesCounting
  BY <1>1, ArriveLeaves, AbortLeaves
<1>2. ASSUME \/ \E v \in Users : LockRunsOut(v) \/ \E s \in Secrets : GenerateSecret(v, s)
             \/ \E a \in Addresses : WindowMoves(a)
             \/ UNCHANGED vars
      PROVE  LeavesCounting
  BY <1>2 DEF LeavesCounting, LockRunsOut, GenerateSecret, WindowMoves, lockout, history, vars
<1>3. ASSUME NEW r \in Requests, Step(r) PROVE GuessesWithin(u)'
  BY <1>3, QuietLeaves, LeavesCountingKeepsGuesses, ReadKeepsGuesses, WriteKeepsGuesses,
     ResetKeepsGuesses DEF Step
<1> QED
  BY <1>1, <1>2, <1>3, LeavesCountingKeepsGuesses DEF Next

LEMMA GuessesWithinBound == GuessesInv => GuessesAreBounded
<1> SUFFICES ASSUME GuessesInv, NEW u \in Users \ cut
             PROVE  guesses[u] <= Cardinality(Profiles) - 1 + Cardinality(Requests)
  BY DEF GuessesAreBounded
<1> DEFINE p == Profile(req, failed[u], u)
<1>1. p \in Profiles /\ guesses[u] \in Nat
  BY ProfileType DEF GuessesInv, TypeOK
<1>2. Cardinality(Below(p)) \in Nat /\ Cardinality(Below(p)) <= Cardinality(Profiles) - 1
  <2> HIDE DEF p
  <2> QED
    BY <1>1, BelowFinite, BelowIsProper
<1>3. /\ Cardinality(Locking(req, u)) \in 0 .. Cardinality(Requests)
      /\ Cardinality(Requests) \in Nat
  <2>1. Locking(req, u) \in SUBSET Requests
    BY DEF Locking
  <2> QED
    BY <2>1, RequestsFinite
<1>4. guesses[u] <= Cardinality(Below(p)) + Cardinality(Locking(req, u))
  BY DEF GuessesInv, GuessesWithin
<1> HIDE DEF p
<1> QED
  BY <1>1, <1>2, <1>3, <1>4, ProfilesFinite

(* However many failures overlap, and in whatever order they read, write and
   lock, the wrong passwords between two locks of an account are at most one
   for each profile but the first and one for each request, for any threshold
   and any number of requests at a time. *)
THEOREM GuessesBounded == Spec => []GuessesAreBounded
BY GuessesInit, GuessesNext, GuessesWithinBound, PTL DEF Spec

-----------------------------------------------------------------------------
(* The pages about jobs: rows, pages and calls. *)
LEMMA RowFields ==
    ASSUME NEW s \in Statuses, NEW h \in BOOLEAN
    PROVE  Row(s, h) \in Rows /\ Row(s, h).status = s /\ Row(s, h).hidden = h
BY DEF Row, Rows

LEMMA SetJobOK ==
    ASSUME RowsOK, NEW j \in used, NEW s \in Statuses, NEW h \in BOOLEAN,
           SetJob(j, s, h), UNCHANGED <<visits, used, proposal>>
    PROVE  /\ RowsOK'
           /\ job'[j] = Row(s, h) /\ job'[j] \in Rows /\ job'[j].status = s
           /\ \A i \in JobIds : i # j => job'[i] = job[i]
<1>1. j \in JobIds /\ Row(s, h) \in Rows /\ Row(s, h) # None /\ Row(s, h).status = s
  BY RowFields, JobPagesAssumption DEF RowsOK
<1>2. job' = [job EXCEPT ![j] = Row(s, h)]
  BY DEF SetJob
<1>3. job' \in [JobIds -> Rows \cup {None}] /\ job'[j] = Row(s, h)
  BY <1>1, <1>2 DEF RowsOK
<1>4. \A i \in JobIds : i # j => job'[i] = job[i]
  BY <1>2 DEF RowsOK
<1>5. RowsOK'
  BY <1>1, <1>3, <1>4 DEF RowsOK, Exists
<1> QED
  BY <1>1, <1>3, <1>4, <1>5

(* What a call about a job that is there may name. *)
LEMMA CallNames ==
    ASSUME JobPagesTypeOK, NEW c \in Calls, Is(c, "sent")
    PROVE  /\ call[c] \in AllCalls /\ CallOK(call[c]) /\ c \in Pending
           /\ call[c].kind \notin Creations => call[c].job \in used /\ call[c].job \in JobIds
           /\ call[c].kind \in Creations => call[c].job = None
BY DEF JobPagesTypeOK, CallsOK, CallOK, Is, Pending, RowsOK

LEMMA RowOf ==
    ASSUME RowsOK, NEW j \in JobIds, Exists(j)
    PROVE  job[j] \in Rows /\ job[j].status \in Statuses /\ job[j].hidden \in BOOLEAN /\ j \in used
BY DEF RowsOK, Exists, Rows

-----------------------------------------------------------------------------
(* What serving a call does to the rows: it changes those of the job it is
   about and of the job it makes, and these only if it is not refused. *)
Makes == Creations \cup {"duplicate"}

ServedAs(c, ok, new) ==
    /\ visits' = visits
    /\ new \notin used /\ used' = used \cup ({new} \ {None})
    /\ new # None <=> ok /\ call[c].kind \in Makes
    /\ new # None => job'[new] \in Rows
    /\ \A j \in JobIds : job'[j] # job[j] \/ proposal'[j] # proposal[j] =>
          ok /\ (j = call[c].job \/ j = new)
    /\ call[c].kind \notin {"delete"} \cup ProposalStatuses => proposal' = proposal
    /\ ok /\ call[c].kind \in ProposalStatuses => proposal'[call[c].job] = call[c].kind
    /\ call[c].kind \in {"pause", "resume", "duplicate"} =>
          \A j \in used : Exists(j) => job'[j] \in Rows /\ job'[j].status = job[j].status
    /\ call[c].kind \in Makes => \A j \in used : job'[j] = job[j]
    /\ \A j \in used : ~Exists(j) => job'[j] = None

Served(c) ==
    \E ok \in BOOLEAN, new \in JobIds \cup {None} :
        Is(c, "sent") /\ Reply(c, ok, new) /\ RowsOK' /\ ServedAs(c, ok, new)

LEMMA NoneIsUnused == ASSUME RowsOK PROVE None \notin used
BY JobPagesAssumption DEF RowsOK

(* A handler that makes nothing and changes the job it is about, or nothing. *)
LEMMA ServesOne ==
    ASSUME JobPagesTypeOK, NEW c \in Calls, Is(c, "sent"), call[c].kind \notin Creations,
           NEW ok \in BOOLEAN, Reply(c, ok, None), RowsOK',
           UNCHANGED <<visits, used>>,
           ~(ok /\ call[c].kind \in Makes),
           \A j \in JobIds : j # call[c].job => job'[j] = job[j] /\ proposal'[j] = proposal[j],
           ~ok => UNCHANGED <<job, proposal>>,
           call[c].kind \notin {"delete"} \cup ProposalStatuses => proposal' = proposal,
           ok /\ call[c].kind \in ProposalStatuses => proposal'[call[c].job] = call[c].kind,
           call[c].kind \in {"pause", "resume", "duplicate"} /\ Exists(call[c].job) =>
               job'[call[c].job] \in Rows /\ job'[call[c].job].status = job[call[c].job].status,
           ~Exists(call[c].job) => job'[call[c].job] = None
    PROVE  Served(c)
<1> RowsOK /\ used \subseteq JobIds
  BY DEF JobPagesTypeOK, RowsOK
<1>1. None \notin used
  BY NoneIsUnused
<1>2. \A j \in used : ~Exists(j) => job'[j] = None
  BY DEF Exists
<1>3. call[c].kind \in {"pause", "resume", "duplicate"} =>
          \A j \in used : Exists(j) => job'[j] \in Rows /\ job'[j].status = job[j].status
  BY RowOf
<1>5. call[c].kind \in Makes => \A j \in used : job'[j] = job[j]
  OBVIOUS
<1>4. ServedAs(c, ok, None)
  BY <1>1, <1>2, <1>3, <1>5 DEF ServedAs
<1> QED
  BY <1>4 DEF Served

LEMMA ServeDelete ==
    ASSUME JobPagesTypeOK, NEW c \in Calls, DeleteJob(c)
    PROVE  Served(c) /\ call[c].kind = "delete"
<1> RowsOK
  BY DEF JobPagesTypeOK
<1>1. Is(c, "sent") /\ call[c].kind = "delete" /\ call[c].kind \notin Creations
  BY DEF DeleteJob, Serves, Creations
<1>2. PICK j \in used : j = call[c].job /\ j \in JobIds
  BY <1>1, CallNames
<1>3. Exists(j) \in BOOLEAN /\ Reply(c, Exists(j), None) /\ UNCHANGED <<visits, used>>
  BY <1>2 DEF DeleteJob, Exists
<1>4. /\ RowsOK' /\ (\A i \in JobIds : i # j => job'[i] = job[i] /\ proposal'[i] = proposal[i])
      /\ (~Exists(j) => UNCHANGED <<job, proposal>>)
  <2>1. CASE ~Exists(j)
    <3>1. UNCHANGED <<job, proposal>>
      BY <1>2, <2>1 DEF DeleteJob
    <3> QED
      BY <1>3, <3>1 DEF RowsOK, Exists
  <2>2. CASE Exists(j) /\ job[j].status \in {"draft", "archived", "cancelled"}
    <3>1. /\ job' = [job EXCEPT ![j] = None]
          /\ proposal' = [proposal EXCEPT ![j] = "none"]
      BY <1>2, <2>2 DEF DeleteJob
    <3>2. job' \in [JobIds -> Rows \cup {None}] /\ job'[j] = None
      BY <1>2, <3>1 DEF RowsOK
    <3>3. proposal' \in [JobIds -> ProposalStatuses \cup {"none"}] /\ proposal'[j] = "none"
      BY <1>2, <3>1 DEF RowsOK
    <3>4. \A i \in JobIds : i # j => job'[i] = job[i] /\ proposal'[i] = proposal[i]
      BY <3>1 DEF RowsOK
    <3> QED
      BY <1>3, <2>2, <3>2, <3>3, <3>4 DEF RowsOK, Exists
  <2>3. CASE Exists(j) /\ job[j].status \notin {"draft", "archived", "cancelled"}
    <3>1. /\ SetJob(j, IF job[j].status = "completed" THEN "archived" ELSE "cancelled", job[j].hidden)
          /\ UNCHANGED proposal
      BY <1>2, <2>3 DEF DeleteJob
    <3>2. PICK s \in Statuses : SetJob(j, s, job[j].hidden)
      BY <3>1 DEF Statuses
    <3>3. job[j].hidden \in BOOLEAN
      BY <1>2, <2>3, RowOf
    <3> QED
      BY <1>3, <2>3, <3>1, <3>2, <3>3, SetJobOK
  <2> QED
    BY <2>1, <2>2, <2>3
<1>5. ~Exists(j) => job'[j] = None
  BY <1>4 DEF Exists
<1>6. call[c].kind \notin Makes /\ call[c].kind \notin ProposalStatuses /\ "delete" \in {"delete"} \cup ProposalStatuses
  BY <1>1 DEF Makes, Creations, ProposalStatuses, Verdicts
<1> QED
  BY <1>1, <1>2, <1>3, <1>4, <1>5, <1>6, ServesOne

LEMMA ServePauseOrResume ==
    ASSUME JobPagesTypeOK, NEW c \in Calls, PauseOrResumeJob(c)
    PROVE  Served(c) /\ call[c].kind \in {"pause", "resume"}
<1> RowsOK
  BY DEF JobPagesTypeOK
<1>1. Is(c, "sent") /\ call[c].kind \in {"pause", "resume"} /\ call[c].kind \notin Creations
  BY DEF PauseOrResumeJob, Serves, Creations
<1>2. PICK j \in used : j = call[c].job /\ j \in JobIds
  BY <1>1, CallNames
<1>3. PICK ok \in BOOLEAN :
          /\ ok => Exists(j)
          /\ IF ok THEN SetJob(j, job[j].status, call[c].kind = "pause") ELSE UNCHANGED job
          /\ Reply(c, ok, None)
  BY <1>2 DEF PauseOrResumeJob, Exists
<1>4. UNCHANGED <<visits, used, proposal>>
  BY DEF PauseOrResumeJob
<1>5. /\ RowsOK' /\ (\A i \in JobIds : i # j => job'[i] = job[i] /\ proposal'[i] = proposal[i])
      /\ (~ok => UNCHANGED <<job, proposal>>)
      /\ (Exists(j) => job'[j] \in Rows /\ job'[j].status = job[j].status)
      /\ (~Exists(j) => job'[j] = None)
  <2>1. CASE ~ok
    BY <1>2, <1>3, <1>4, <2>1, RowOf DEF RowsOK, Exists
  <2>2. CASE ok
    <3>1. job[j].status \in Statuses /\ (call[c].kind = "pause") \in BOOLEAN
      BY <1>2, <1>3, <2>2, RowOf
    <3> QED
      BY <1>2, <1>3, <1>4, <2>2, <3>1, SetJobOK
  <2> QED
    BY <2>1, <2>2
<1>6. call[c].kind \notin Makes /\ call[c].kind \notin ProposalStatuses
  BY <1>1 DEF Makes, Creations, ProposalStatuses, Verdicts
<1> QED
  BY <1>1, <1>2, <1>3, <1>4, <1>5, <1>6, ServesOne

(* A handler that makes a job. *)
LEMMA InsertServes ==
    ASSUME JobPagesTypeOK, NEW c \in Calls, Is(c, "sent"), call[c].kind \in Makes,
           NEW j \in JobIds \ used, NEW h \in BOOLEAN, Insert(c, j, h)
    PROVE  Served(c)
<1> RowsOK
  BY DEF JobPagesTypeOK
<1>1. /\ used' = used \cup {j} /\ visits' = visits /\ proposal' = proposal
      /\ job' = [job EXCEPT ![j] = Row("draft", h)] /\ Reply(c, TRUE, j)
  BY DEF Insert, SetJob
<1>2. Row("draft", h) \in Rows
  BY RowFields DEF Statuses
<1>3. job' \in [JobIds -> Rows \cup {None}] /\ job'[j] \in Rows /\ job'[j] # None
  BY <1>1, <1>2, JobPagesAssumption DEF RowsOK
<1>4. \A i \in JobIds : i # j => job'[i] = job[i]
  BY <1>1 DEF RowsOK
<1>5. RowsOK'
  BY <1>1, <1>3, <1>4 DEF RowsOK, Exists
<1>6. call[c].kind \notin ProposalStatuses /\ call[c].kind \notin {"pause", "resume"}
  BY DEF Makes, Creations, ProposalStatuses, Verdicts
<1>7. \A i \in used : Exists(i) => job'[i] \in Rows /\ job'[i].status = job[i].status
  BY <1>4, RowOf DEF RowsOK
<1>8. \A i \in used : ~Exists(i) => job'[i] = None
  BY <1>4 DEF RowsOK, Exists
<1>9. j # None
  BY JobPagesAssumption
<1>10. ServedAs(c, TRUE, j)
  <2>1. \A i \in used : job'[i] = job[i]
    BY <1>4 DEF RowsOK
  <2> QED
    BY <1>1, <1>3, <1>4, <1>6, <1>7, <1>8, <1>9, <2>1 DEF ServedAs
<1> QED
  BY <1>1, <1>5, <1>10 DEF Served

LEMMA ServeCreate ==
    ASSUME JobPagesTypeOK, NEW c \in Calls, CreateJob(c)
    PROVE  Served(c) /\ call[c].kind \in Creations
<1>1. Is(c, "sent") /\ call[c].kind \in Makes /\ call[c].kind \in Creations
  BY DEF CreateJob, Serves, Makes, Creations
<1>2. PICK j \in JobIds \ used, h \in BOOLEAN : Insert(c, j, h)
  BY DEF CreateJob
<1> QED
  BY <1>1, <1>2, InsertServes

LEMMA ServeDuplicate ==
    ASSUME JobPagesTypeOK, NEW c \in Calls, DuplicateJob(c)
    PROVE  Served(c) /\ call[c].kind = "duplicate"
<1> RowsOK
  BY DEF JobPagesTypeOK
<1>1. Is(c, "sent") /\ call[c].kind = "duplicate" /\ call[c].kind \in Makes /\ call[c].kind \notin Creations
  BY DEF DuplicateJob, Serves, Makes, Creations
<1>2. PICK i \in used : i = call[c].job /\ i \in JobIds
  BY <1>1, CallNames
<1>3. CASE Exists(i)
  <2>1. PICK j \in JobIds \ used : Insert(c, j, job[i].hidden)
    BY <1>2, <1>3 DEF DuplicateJob
  <2>2. job[i].hidden \in BOOLEAN
    BY <1>2, <1>3, RowOf
  <2> QED
    BY <1>1, <2>1, <2>2, InsertServes
<1>4. CASE ~Exists(i)
  <2>1. UNCHANGED <<visits, used, job, proposal>> /\ Reply(c, FALSE, None)
    BY <1>2, <1>4 DEF DuplicateJob, api
  <2>2. RowsOK' /\ job'[i] = None
    BY <1>4, <2>1 DEF RowsOK, Exists
  <2> QED
    BY <1>1, <1>2, <1>4, <2>1, <2>2, ServesOne
<1> QED
  BY <1>1, <1>3, <1>4

LEMMA ServePublish ==
    ASSUME JobPagesTypeOK, NEW c \in Calls, PublishJob(c)
    PROVE  Served(c) /\ call[c].kind = "publish"
<1> RowsOK
  BY DEF JobPagesTypeOK
<1>1. Is(c, "sent") /\ call[c].kind = "publish" /\ call[c].kind \notin Creations
  BY DEF PublishJob, Serves, Creations
<1>2. PICK j \in used : j = call[c].job /\ j \in JobIds
  BY <1>1, CallNames
<1>3. PICK ok \in BOOLEAN :
          /\ ok => Exists(j)
          /\ IF ok THEN SetJob(j, "active", job[j].hidden) ELSE UNCHANGED job
          /\ Reply(c, ok, None)
  BY <1>2 DEF PublishJob, Exists
<1>4. UNCHANGED <<visits, used, proposal>>
  BY DEF PublishJob
<1>5. /\ RowsOK' /\ (\A i \in JobIds : i # j => job'[i] = job[i] /\ proposal'[i] = proposal[i])
      /\ (~ok => UNCHANGED <<job, proposal>>)
      /\ (~Exists(j) => job'[j] = None)
  <2>1. CASE ~ok
    BY <1>2, <1>3, <1>4, <2>1 DEF RowsOK, Exists
  <2>2. CASE ok
    <3>1. job[j].hidden \in BOOLEAN /\ "active" \in Statuses
      BY <1>2, <1>3, <2>2, RowOf DEF Statuses
    <3> QED
      BY <1>2, <1>3, <1>4, <2>2, <3>1, SetJobOK
  <2> QED
    BY <2>1, <2>2
<1>6. call[c].kind \notin Makes /\ call[c].kind \notin ProposalStatuses
  BY <1>1 DEF Makes, Creations, ProposalStatuses, Verdicts
<1> QED
  BY <1>1, <1>2, <1>3, <1>4, <1>5, <1>6, ServesOne

LEMMA ServeUpdateProposal ==
    ASSUME JobPagesTypeOK, NEW c \in Calls, UpdateProposalStatus(c)
    PROVE  Served(c) /\ call[c].kind \in Verdicts
<1> RowsOK
  BY DEF JobPagesTypeOK
<1>1. Is(c, "sent") /\ call[c].kind \in Verdicts /\ call[c].kind \notin Creations /\ call[c].kind \in ProposalStatuses
  BY DEF UpdateProposalStatus, Serves, Creations, ProposalStatuses, Verdicts
<1>2. PICK j \in used : j = call[c].job /\ j \in JobIds
  BY <1>1, CallNames
<1>3. PICK v \in ProposalStatuses : v = call[c].kind
  BY <1>1
<1>4. PICK ok \in BOOLEAN :
          /\ ok => proposal[j] # "none"
          /\ proposal' = IF ok THEN [proposal EXCEPT ![j] = v] ELSE proposal
          /\ IF ok /\ v = "accepted" THEN SetJob(j, "in_progress", job[j].hidden) ELSE UNCHANGED job
          /\ Reply(c, ok, None)
  BY <1>2, <1>3 DEF UpdateProposalStatus
<1>5. UNCHANGED <<visits, used>>
  BY DEF UpdateProposalStatus
<1>6. ok => Exists(j) /\ job[j] \in Rows /\ job[j].hidden \in BOOLEAN
  BY <1>2, <1>4, RowOf DEF RowsOK
<1>7. /\ job' \in [JobIds -> Rows \cup {None}] /\ (\A i \in JobIds : i # j => job'[i] = job[i])
      /\ ok => job'[j] \in Rows
      /\ ~ok => job' = job
  <2>1. CASE ok /\ v = "accepted"
    <3>1. Row("in_progress", job[j].hidden) \in Rows
      BY <1>6, <2>1, RowFields DEF Statuses
    <3>2. job' = [job EXCEPT ![j] = Row("in_progress", job[j].hidden)]
      BY <1>4, <2>1 DEF SetJob
    <3> QED
      BY <1>2, <2>1, <3>1, <3>2 DEF RowsOK
  <2>2. CASE ~(ok /\ v = "accepted")
    BY <1>4, <1>6, <2>2 DEF RowsOK
  <2> QED
    BY <2>1, <2>2
<1>8. /\ proposal' \in [JobIds -> ProposalStatuses \cup {"none"}]
      /\ \A i \in JobIds : i # j => proposal'[i] = proposal[i]
      /\ ok => proposal'[j] = v
      /\ ~ok => proposal' = proposal
  BY <1>2, <1>4 DEF RowsOK
<1>9. \A i \in JobIds : (job'[i] # None) = Exists(i)
  BY <1>6, <1>7, JobPagesAssumption DEF Exists
<1>10. RowsOK'
  <2>1. \A i \in JobIds : proposal'[i] # "none" => Exists(i)
    BY <1>6, <1>8 DEF RowsOK
  <2> QED
    BY <1>5, <1>7, <1>8, <1>9, <2>1 DEF RowsOK, Exists
<1>11. call[c].kind \notin Makes /\ call[c].kind \notin {"pause", "resume", "duplicate"}
  BY <1>1 DEF Makes, Creations, Verdicts
<1>12. ~Exists(j) => job'[j] = None
  BY <1>2, <1>9
<1> QED
  BY <1>1, <1>2, <1>3, <1>4, <1>5, <1>7, <1>8, <1>10, <1>11, <1>12, ServesOne

LEMMA ServeWithdraw ==
    ASSUME JobPagesTypeOK, NEW c \in Calls, WithdrawProposal(c)
    PROVE  Served(c) /\ call[c].kind = "withdrawn"
<1> RowsOK
  BY DEF JobPagesTypeOK
<1>1. Is(c, "sent") /\ call[c].kind = "withdrawn" /\ call[c].kind \notin Creations /\ call[c].kind \in ProposalStatuses
  BY DEF WithdrawProposal, Serves, Creations, ProposalStatuses
<1>2. PICK j \in used : j = call[c].job /\ j \in JobIds
  BY <1>1, CallNames
<1>3. PICK ok \in BOOLEAN :
          /\ ok => proposal[j] = "submitted"
          /\ proposal' = IF ok THEN [proposal EXCEPT ![j] = "withdrawn"] ELSE proposal
          /\ Reply(c, ok, None)
  BY <1>2 DEF WithdrawProposal
<1>4. UNCHANGED <<visits, used, job>>
  BY DEF WithdrawProposal
<1>5. /\ proposal' \in [JobIds -> ProposalStatuses \cup {"none"}]
      /\ \A i \in JobIds : i # j => proposal'[i] = proposal[i]
      /\ ok => proposal'[j] = "withdrawn"
      /\ ~ok => proposal' = proposal
  BY <1>1, <1>2, <1>3 DEF RowsOK
<1>6. RowsOK'
  BY <1>3, <1>4, <1>5 DEF RowsOK, Exists
<1>7. call[c].kind \notin Makes /\ call[c].kind \notin {"pause", "resume", "duplicate"}
  BY <1>1 DEF Makes, Creations
<1>8. ~Exists(j) => job'[j] = None
  BY <1>4 DEF Exists
<1> QED
  BY <1>1, <1>2, <1>3, <1>4, <1>5, <1>6, <1>7, <1>8, ServesOne

LEMMA ApiServes ==
    ASSUME JobPagesTypeOK, NEW c \in Calls, Api(c)
    PROVE  Served(c)
BY ServeDelete, ServePauseOrResume, ServeCreate, ServeDuplicate, ServePublish,
   ServeUpdateProposal, ServeWithdraw DEF Api

(* Whoever else uses the API makes and removes no job. *)
OthersAct ==
    /\ Elsewhere /\ RowsOK' /\ UNCHANGED <<visits, used>>
    /\ \A j \in JobIds : Exists(j) => job'[j] \in Rows
    /\ \A j \in JobIds : ~Exists(j) => job'[j] = None

LEMMA OthersServed ==
    ASSUME JobPagesTypeOK, Others
    PROVE  OthersAct
<1> RowsOK
  BY DEF JobPagesTypeOK
<1>1. Elsewhere /\ UNCHANGED <<visits, used>>
  BY DEF Others, SubmitProposal, UpdateJob, ListActiveJobs, Elsewhere
<1>2. ASSUME NEW j \in JobIds, SubmitProposal(j) PROVE OthersAct
  <2>1. Exists(j) /\ job' = job /\ proposal' = [proposal EXCEPT ![j] = "submitted"]
    BY <1>2 DEF SubmitProposal
  <2>2. /\ proposal' \in [JobIds -> ProposalStatuses \cup {"none"}]
        /\ \A i \in JobIds : i # j => proposal'[i] = proposal[i]
    BY <2>1 DEF RowsOK, ProposalStatuses
  <2> QED
    BY <1>1, <2>1, <2>2 DEF OthersAct, RowsOK, Exists
<1>3. ASSUME NEW j \in JobIds, NEW s \in Edited, UpdateJob(j, s) PROVE OthersAct
  <2>1. Exists(j) /\ SetJob(j, s, job[j].hidden) /\ proposal' = proposal
    BY <1>3 DEF UpdateJob
  <2>2. j \in used /\ s \in Statuses /\ job[j].hidden \in BOOLEAN
    BY <2>1, RowOf, JobPagesAssumption
  <2>3. /\ RowsOK' /\ job'[j] \in Rows
        /\ \A i \in JobIds : i # j => job'[i] = job[i]
    BY <1>1, <2>1, <2>2, SetJobOK
  <2> QED
    BY <1>1, <2>1, <2>3, RowOf DEF OthersAct, Exists
<1>4. CASE ListActiveJobs
  <2>1. PICK late \in SUBSET {j \in Shared : Exists(j) /\ job[j].status = "active"} :
            job' = [j \in JobIds |-> IF j \in late THEN Row("archived", job[j].hidden) ELSE job[j]]
    BY <1>4 DEF ListActiveJobs
  <2>2. proposal' = proposal
    BY <1>4 DEF ListActiveJobs
  <2>3. \A j \in JobIds : j \in late => Exists(j)
    BY <2>1
  <2>4. \A j \in JobIds : j \in late => Row("archived", job[j].hidden) \in Rows
    BY <2>3, RowOf, RowFields DEF Statuses
  <2>5. \A j \in JobIds : (j \in late => job'[j] \in Rows) /\ (j \notin late => job'[j] = job[j])
    BY <2>1, <2>4
  <2>6. job' \in [JobIds -> Rows \cup {None}]
    BY <2>1, <2>5 DEF RowsOK
  <2>7. \A j \in JobIds : (Exists(j) => job'[j] \in Rows) /\ (~Exists(j) => job'[j] = None)
    BY <2>3, <2>5, RowOf DEF Exists
  <2>8. RowsOK'
    BY <1>1, <2>2, <2>6, <2>7, JobPagesAssumption DEF RowsOK, Exists
  <2> QED
    BY <1>1, <2>7, <2>8 DEF OthersAct
<1> QED
  BY <1>2, <1>3, <1>4 DEF Others

-----------------------------------------------------------------------------
(* What a step of the API leaves of the pages: each is what it was, but may be *)
(* clean of less, and is not clean of what it shows and has changed.           *)
PageStays(p, q) ==
    /\ q # None /\ q.at = p.at /\ q.of = p.of /\ q.shown = p.shown
    /\ q.loading = p.loading /\ q.busy = p.busy
    /\ q.clean \subseteq p.clean
    /\ q.confirm = None <=> p.confirm = None
    /\ p.confirm # None => /\ q.confirm.job = p.confirm.job /\ q.confirm.type = p.confirm.type
                           /\ q.confirm.clean => p.confirm.clean
    /\ IF p.at \in JobPageKinds THEN q \in JobViews ELSE q \in ProposalViews

PagesStay(me) ==
    /\ PagesOK'
    /\ \A t \in Tabs :
          /\ page'[t] = None <=> page[t] = None
          /\ Posting(t) => page'[t] = page[t]
          /\ page[t] # None => page'[t].at = page[t].at
          /\ Viewing(t) => PageStays(page[t], page'[t])
          /\ t = me => page'[t] = page[t]
          /\ Viewing(t) /\ t # me => \A j \in JobIds : Seen(page[t], j) =>
                /\ j \notin page'[t].clean
                /\ page[t].confirm # None /\ Changed(page[t].confirm.job) => ~page'[t].confirm.clean

LEMMA ViewNotNone ==
    ASSUME NEW p, p \in JobViews \/ p \in ProposalViews
    PROVE  p # None
BY JobPagesAssumption

LEMMA SameIsStays ==
    ASSUME PagesOK, NEW t \in Tabs, Viewing(t)
    PROVE  PageStays(page[t], page[t])
BY ViewNotNone DEF PagesOK, ViewOK, PageStays, Viewing

LEMMA OvertakenStays ==
    ASSUME NEW p, IF p.at \in JobPageKinds THEN p \in JobViews ELSE p \in ProposalViews
    PROVE  /\ PageStays(p, Overtaken(p)) /\ \A j \in JobIds : Seen(p, j) => j \notin Overtaken(p).clean
           /\ p.confirm # None /\ Changed(p.confirm.job) => ~Overtaken(p).confirm.clean
<1>1. PICK m : m = p.confirm
  OBVIOUS
<1>2. m \in Modals \cup {None}
  BY <1>1 DEF JobViews, ProposalViews, Views
<1>5. PICK k : k = {j \in p.clean : ~Seen(p, j)}
  OBVIOUS
<1>6. k \subseteq p.clean /\ k \in SUBSET JobIds /\ \A j \in JobIds : Seen(p, j) => j \notin k
  BY <1>5 DEF JobViews, ProposalViews, Views
<1>3. CASE m # None /\ Changed(m.job)
  <2>1. PICK n : n = [m EXCEPT !.clean = FALSE]
    OBVIOUS
  <2>2. n \in Modals /\ n.job = m.job /\ n.type = m.type /\ n.clean = FALSE
    BY <1>2, <1>3, <2>1 DEF Modals
  <2>3. n # None
    BY <2>2, JobPagesAssumption
  <2>4. Overtaken(p) = [p EXCEPT !.clean = k, !.confirm = n]
    BY <1>1, <1>3, <1>5, <2>1 DEF Overtaken, JobViews, ProposalViews, Views
  <2>5. PICK q : q = Overtaken(p)
    OBVIOUS
  <2>6. CASE p \in JobViews
    <3>1. /\ q \in JobViews /\ q.at = p.at /\ q.of = p.of /\ q.shown = p.shown
          /\ q.loading = p.loading /\ q.busy = p.busy /\ q.clean = k /\ q.confirm = n
      BY <1>6, <2>2, <2>4, <2>5, <2>6 DEF JobViews, Views
    <3>2. p.at \in JobPageKinds
      BY <2>6 DEF JobViews, Views
    <3> QED
      BY <1>1, <1>3, <1>6, <2>2, <2>3, <2>5, <3>1, <3>2, ViewNotNone DEF PageStays
  <2>7. CASE p \in ProposalViews
    <3>1. /\ q \in ProposalViews /\ q.at = p.at /\ q.of = p.of /\ q.shown = p.shown
          /\ q.loading = p.loading /\ q.busy = p.busy /\ q.clean = k /\ q.confirm = n
      BY <1>6, <2>2, <2>4, <2>5, <2>7 DEF ProposalViews, Views
    <3>2. p.at \notin JobPageKinds
      BY <2>7 DEF ProposalViews, Views, ProposalPageKinds, JobPageKinds
    <3> QED
      BY <1>1, <1>3, <1>6, <2>2, <2>3, <2>5, <3>1, <3>2, ViewNotNone DEF PageStays
  <2> QED
    BY <2>6, <2>7
<1>4. CASE ~(m # None /\ Changed(m.job))
  <2>1. PICK q : q = Overtaken(p)
    OBVIOUS
  <2>2. q = [p EXCEPT !.clean = k]
    BY <1>1, <1>4, <1>5, <2>1 DEF Overtaken
  <2>3. CASE p \in JobViews
    <3>1. /\ q \in JobViews /\ q.at = p.at /\ q.of = p.of /\ q.shown = p.shown
          /\ q.loading = p.loading /\ q.busy = p.busy /\ q.clean = k /\ q.confirm = p.confirm
      BY <1>6, <2>2, <2>3 DEF JobViews, Views
    <3>2. p.at \in JobPageKinds
      BY <2>3 DEF JobViews, Views
    <3> QED
      BY <1>1, <1>4, <1>6, <2>1, <3>1, <3>2, ViewNotNone DEF PageStays
  <2>4. CASE p \in ProposalViews
    <3>1. /\ q \in ProposalViews /\ q.at = p.at /\ q.of = p.of /\ q.shown = p.shown
          /\ q.loading = p.loading /\ q.busy = p.busy /\ q.clean = k /\ q.confirm = p.confirm
      BY <1>6, <2>2, <2>4 DEF ProposalViews, Views
    <3>2. p.at \notin JobPageKinds
      BY <2>4 DEF ProposalViews, Views, ProposalPageKinds, JobPageKinds
    <3> QED
      BY <1>1, <1>4, <1>6, <2>1, <3>1, <3>2, ViewNotNone DEF PageStays
  <2> QED
    BY <2>3, <2>4
<1> QED
  BY <1>3, <1>4

(* A view that stays is good, as no job id is taken back. *)
LEMMA StayingView ==
    ASSUME NEW p, NEW q, ViewOK(p), PageStays(p, q), used \subseteq used'
    PROVE  /\ IF q.at \in JobPageKinds THEN q \in JobViews ELSE q \in ProposalViews
           /\ q.of \in used' \cup {None} /\ (q.at = "jobs" => q.of = None)
           /\ \A j \in JobIds : q.shown[j] # None => j \in used' /\ (q.at \in JobPageKinds => q.of \in {None, j})
           /\ q.confirm # None => q.at \in JobPageKinds /\ q.confirm.job \in used'
BY DEF ViewOK, PageStays

LEMMA SpoiledPages ==
    ASSUME PagesOK, used \subseteq used', NEW me, Spoil(me)
    PROVE  PagesStay(me)
<1>1. DOMAIN page' = Tabs
  BY DEF Spoil
<1>2. ASSUME NEW t \in Tabs, ~(t # me /\ Viewing(t) /\ \E j \in JobIds : Seen(page[t], j))
      PROVE  page'[t] = page[t]
  BY <1>2 DEF Spoil
<1>3. ASSUME NEW t \in Tabs, t # me, Viewing(t), \E j \in JobIds : Seen(page[t], j)
      PROVE  /\ PageStays(page[t], page'[t]) /\ \A j \in JobIds : Seen(page[t], j) => j \notin page'[t].clean
             /\ page[t].confirm # None /\ Changed(page[t].confirm.job) => ~page'[t].confirm.clean
  <2>1. page'[t] = Overtaken(page[t])
    BY <1>3 DEF Spoil
  <2>2. IF page[t].at \in JobPageKinds THEN page[t] \in JobViews ELSE page[t] \in ProposalViews
    BY <1>3 DEF PagesOK, ViewOK
  <2> QED
    BY <2>1, <2>2, OvertakenStays
<1>4. \A t \in Tabs : Viewing(t) => PageStays(page[t], page'[t])
  BY <1>2, <1>3, SameIsStays
<1>5. ASSUME NEW t \in Tabs
      PROVE  /\ page'[t] = None <=> page[t] = None
             /\ page[t] # None => page'[t].at = page[t].at
             /\ ~Viewing(t) => page'[t] = page[t]
             /\ t = me => page'[t] = page[t]
  <2>1. CASE Viewing(t)
    BY <1>2, <1>4, <2>1 DEF PageStays, Viewing
  <2>2. CASE ~Viewing(t)
    BY <1>2, <2>2
  <2> QED
    BY <2>1, <2>2
<1>6. PagesOK'
  <2>1. ASSUME NEW t \in Tabs, Viewing(t)'
        PROVE  ViewOK(page[t])'
    <3>1. Viewing(t)
      BY <1>5, <2>1 DEF Viewing
    <3>2. ViewOK(page[t]) /\ PageStays(page[t], page'[t])
      BY <1>4, <3>1 DEF PagesOK
    <3> QED
      BY <3>2, StayingView DEF ViewOK
  <2>2. ASSUME NEW t \in Tabs, Posting(t)'
        PROVE  page'[t] \in Forms
    <3>1. Posting(t) /\ ~Viewing(t)
      BY <1>5, <2>2 DEF Posting, Viewing
    <3> QED
      BY <1>5, <3>1 DEF PagesOK
  <2> QED
    BY <1>1, <2>1, <2>2 DEF PagesOK
<1> QED
  BY <1>2, <1>3, <1>4, <1>5, <1>6 DEF PagesStay, Posting, Viewing

-----------------------------------------------------------------------------
(* What a step of the API leaves of the calls: the one that is served is       *)
(* answered, or dropped with the script that waited for it; the others are     *)
(* what they were, but may be clean no more.                                   *)
CallStays(r, q) ==
    /\ q \in AllCalls /\ q.tab = r.tab /\ q.here = r.here /\ q.from = r.from /\ q.kind = r.kind
    /\ q.job = r.job /\ q.type = r.type /\ q.stage = r.stage /\ q.new = r.new /\ q.row = r.row
    /\ q.clean => r.clean

Waits(q, me) ==
    /\ call[q] = None <=> call'[q] = None
    /\ call[q] # None => CallStays(call[q], call'[q])
    /\ call[q] # None /\ (me = None \/ Owner(q) # me \/ call[q].stage # "sent") =>
          (Changed(call[q].job) \/ Changed(call[q].new) => ~call'[q].clean)

Replied(c, ok, new) ==
    /\ call'[c] = None => ~call[c].here
    /\ call'[c] # None =>
          /\ call'[c] \in AllCalls
          /\ call'[c].tab = call[c].tab /\ call'[c].here = call[c].here
          /\ call'[c].from = call[c].from /\ call'[c].kind = call[c].kind
          /\ call'[c].job = call[c].job /\ call'[c].clean = call[c].clean
          /\ call'[c].stage = (IF ok THEN "done" ELSE "refused")
          /\ call'[c].new = new
          /\ call'[c].row = (IF new = None THEN None ELSE job'[new])

LEMMA CallNotNone == ASSUME NEW r \in AllCalls PROVE r # None
BY JobPagesAssumption

LEMMA SpoiledCallWaits ==
    ASSUME CallsOK, NEW q \in Calls, NEW me, call'[q] = SpoiledCall(q, me)
    PROVE  Waits(q, me)
<1>1. CASE q \notin Pending
  <2>1. call[q] = None /\ call'[q] = None
    BY <1>1 DEF SpoiledCall, Pending
  <2> QED
    BY <2>1 DEF Waits
<1>2. CASE q \in Pending
  <2>1. PICK r : r = call[q]
    OBVIOUS
  <2>2. r \in AllCalls /\ r # None
    BY <1>2, <2>1, CallNotNone DEF CallsOK, CallOK
  <2>3. PICK s : s = [r EXCEPT !.clean = FALSE]
    OBVIOUS
  <2>4. CallStays(r, s) /\ ~s.clean
    BY <2>2, <2>3 DEF CallStays, AllCalls
  <2>5. CallStays(r, r)
    BY <2>2 DEF CallStays
  <2>6. \/ call'[q] = r /\ ~((me = None \/ Owner(q) # me \/ r.stage # "sent")
                              /\ (Changed(r.job) \/ Changed(r.new)))
        \/ call'[q] = s
    BY <1>2, <2>1, <2>3 DEF SpoiledCall
  <2>7. CASE call'[q] = s
    <3>1. call'[q] # None
      BY <2>4, <2>7, CallNotNone DEF CallStays
    <3> QED
      BY <2>1, <2>2, <2>4, <2>7, <3>1 DEF Waits
  <2>8. CASE call'[q] = r /\ ~((me = None \/ Owner(q) # me \/ r.stage # "sent")
                               /\ (Changed(r.job) \/ Changed(r.new)))
    BY <2>1, <2>2, <2>5, <2>8 DEF Waits
  <2> QED
    BY <2>6, <2>7, <2>8
<1> QED
  BY <1>1, <1>2

LEMMA ReplyCalls ==
    ASSUME CallsOK, RowsOK', NEW c \in Calls, Is(c, "sent"),
           NEW ok \in BOOLEAN, NEW new \in JobIds \cup {None}, Reply(c, ok, new),
           new # None => job'[new] \in Rows
    PROVE  /\ DOMAIN call' = Calls
           /\ \A q \in Calls \ {c} : Waits(q, Owner(c))
           /\ Replied(c, ok, new)
<1>1. PICK r : r = call[c]
  OBVIOUS
<1>2. c \in Pending /\ r \in AllCalls /\ r # None /\ (r.here => r.tab # None)
  BY <1>1, CallNotNone DEF CallsOK, CallOK, Is, Pending
<1>3. PICK g \in {"done", "refused"} : g = IF ok THEN "done" ELSE "refused"
  OBVIOUS
<1>4. PICK w \in Rows \cup {None} : w = IF new = None THEN None ELSE job'[new]
  OBVIOUS
<1>5. PICK s : s = [r EXCEPT !.stage = g, !.type = None, !.new = new, !.row = w]
  OBVIOUS
<1>6. /\ s \in AllCalls /\ s.tab = r.tab /\ s.here = r.here /\ s.from = r.from /\ s.kind = r.kind
      /\ s.job = r.job /\ s.clean = r.clean /\ s.stage = g /\ s.new = new /\ s.row = w
  BY <1>2, <1>5 DEF AllCalls
<1>7. call'[c] = Kept(s)
  BY <1>1, <1>3, <1>4, <1>5 DEF Reply
<1>8. Kept(s) = s \/ (Kept(s) = None /\ ~s.here)
  BY <1>2, <1>6 DEF Kept, Heeded
<1>9. Replied(c, ok, new)
  BY <1>1, <1>3, <1>4, <1>6, <1>7, <1>8, CallNotNone DEF Replied
<1>10. DOMAIN call' = Calls /\ \A q \in Calls \ {c} : call'[q] = SpoiledCall(q, Owner(c))
  BY DEF Reply
<1> QED
  BY <1>9, <1>10, SpoiledCallWaits

LEMMA WaitingCallOK ==
    ASSUME CallsOK, PagesOK, used \subseteq used', NEW me, PagesStay(me), NEW m, NEW q \in Calls,
           Waits(q, m), call'[q] # None
    PROVE  CallOK(call[q])'
<1>1. call[q] # None /\ CallOK(call[q]) /\ CallStays(call[q], call'[q])
  BY DEF Waits, CallsOK, Pending
<1>2. call[q].tab \in Tabs \cup {None}
  BY <1>1 DEF CallOK, AllCalls
<1>3. call'[q].here => /\ call'[q].tab # None /\ page'[call'[q].tab] # None
                       /\ page'[call'[q].tab].at = call'[q].from
  BY <1>1, <1>2 DEF CallOK, CallStays, PagesStay
<1> QED
  BY <1>1, <1>3 DEF CallOK, CallStays

LEMMA ServedTypes ==
    ASSUME JobPagesTypeOK, NEW c \in Calls, Served(c)
    PROVE  JobPagesTypeOK'
<1> RowsOK /\ PagesOK /\ CallsOK /\ DraftsOK
  BY DEF JobPagesTypeOK
<1>1. PICK ok \in BOOLEAN, new \in JobIds \cup {None} :
          Is(c, "sent") /\ Reply(c, ok, new) /\ RowsOK' /\ ServedAs(c, ok, new)
  BY DEF Served
<1>2. used \subseteq used' /\ (new # None => job'[new] \in Rows /\ new \in used')
  BY <1>1 DEF ServedAs
<1>3. PagesStay(Owner(c))
  BY <1>1, <1>2, SpoiledPages DEF Reply
<1>4. /\ DOMAIN call' = Calls
      /\ \A q \in Calls \ {c} : Waits(q, Owner(c))
      /\ Replied(c, ok, new)
  BY <1>1, <1>2, ReplyCalls
<1>5. ASSUME call'[c] # None PROVE CallOK(call[c])'
  <2>1. CallOK(call[c]) /\ call[c].tab \in Tabs \cup {None}
    BY <1>1 DEF CallsOK, CallOK, Is, Pending, AllCalls
  <2>2. call'[c].here => /\ call'[c].tab # None /\ page'[call'[c].tab] # None
                         /\ page'[call'[c].tab].at = call'[c].from
    BY <1>3, <1>4, <1>5, <2>1 DEF CallOK, Replied, PagesStay
  <2>3. /\ Asked(call'[c].kind, call'[c].from)
        /\ IF call'[c].kind \in Creations THEN call'[c].job = None ELSE call'[c].job \in used'
    BY <1>2, <1>4, <1>5, <2>1 DEF CallOK, Replied
  <2>4. /\ call'[c].new \in used' \cup {None}
        /\ call'[c].stage = "done" /\ call'[c].kind \in Makes => call'[c].new # None /\ call'[c].row # None
        /\ call'[c].kind = "delete" => call'[c].new = None
        /\ call'[c].stage # "sent"
    <3>1. new # None => job'[new] # None
      BY <1>2, JobPagesAssumption
    <3>2. "delete" \notin Makes
      BY DEF Makes, Creations
    <3> QED
      BY <1>1, <1>2, <1>4, <1>5, <3>1, <3>2 DEF Replied, ServedAs
  <2> QED
    BY <1>4, <1>5, <2>2, <2>3, <2>4 DEF CallOK, Replied, Makes
<1>6. \A q \in Calls \ {c} : call'[q] # None => CallOK(call[q])'
  BY <1>2, <1>3, <1>4, WaitingCallOK
<1>7. CallsOK'
  BY <1>4, <1>5, <1>6 DEF CallsOK, Pending
<1>8. DraftsOK'
  BY <1>1 DEF Reply, DraftsOK, drafts
<1> QED
  BY <1>1, <1>3, <1>7, <1>8 DEF JobPagesTypeOK, PagesStay

LEMMA OthersEffect ==
    ASSUME JobPagesTypeOK, Others
    PROVE  OthersAct /\ PagesStay(None) /\ DOMAIN call' = Calls /\ \A q \in Calls : Waits(q, None)
<1> PagesOK /\ CallsOK
  BY DEF JobPagesTypeOK
<1>1. OthersAct
  BY OthersServed
<1>2. PagesStay(None)
  BY <1>1, SpoiledPages DEF OthersAct, Elsewhere
<1>3. DOMAIN call' = Calls /\ \A q \in Calls : call'[q] = SpoiledCall(q, None)
  BY <1>1 DEF OthersAct, Elsewhere
<1> QED
  BY <1>1, <1>2, <1>3, SpoiledCallWaits

LEMMA OthersTypes ==
    ASSUME JobPagesTypeOK, Others
    PROVE  JobPagesTypeOK'
<1> RowsOK /\ PagesOK /\ CallsOK /\ DraftsOK
  BY DEF JobPagesTypeOK
<1>1. OthersAct /\ PagesStay(None) /\ DOMAIN call' = Calls /\ \A q \in Calls : Waits(q, None)
  BY OthersEffect
<1>2. \A q \in Calls : call'[q] # None => CallOK(call[q])'
  BY <1>1, WaitingCallOK DEF OthersAct
<1>3. CallsOK'
  BY <1>1, <1>2 DEF CallsOK, Pending
<1>4. DraftsOK'
  BY <1>1 DEF OthersAct, Elsewhere, DraftsOK, drafts
<1> QED
  BY <1>1, <1>3, <1>4 DEF JobPagesTypeOK, PagesStay, OthersAct

-----------------------------------------------------------------------------
(* The steps of the pages.  One page changes at most, and stays where it is or *)
(* is replaced.                                                                *)
Puts(t, p) ==
    /\ page' = [page EXCEPT ![t] = p]
    /\ UNCHANGED api

LEMMA PutsPages ==
    ASSUME PagesOK, NEW t \in Tabs, NEW p, Puts(t, p)
    PROVE  DOMAIN page' = Tabs /\ page'[t] = p /\ \A q \in Tabs : q # t => page'[q] = page[q]
BY DEF Puts, PagesOK

GoodPage(p) == p # None /\ IF p.at = "post" THEN p \in Forms ELSE ViewOK(p)

LEMMA PageIsGood ==
    ASSUME PagesOK, NEW t \in Tabs, page[t] # None
    PROVE  GoodPage(page[t])
BY DEF PagesOK, GoodPage, Viewing, Posting

LEMMA PutsOK ==
    ASSUME RowsOK, PagesOK, NEW t \in Tabs, NEW p, Puts(t, p), p = None \/ GoodPage(p)
    PROVE  RowsOK' /\ PagesOK'
<1>1. DOMAIN page' = Tabs /\ page'[t] = p /\ \A q \in Tabs : q # t => page'[q] = page[q]
  BY PutsPages
<1>2. /\ RowsOK' /\ used' = used
  BY DEF Puts, api, RowsOK, Exists
<1>3. \A q \in Tabs : page'[q] # None => GoodPage(page'[q])
  BY <1>1, PageIsGood
<1>4. ASSUME NEW q \in Tabs, Viewing(q)' PROVE ViewOK(page[q])'
  <2>1. ViewOK(page'[q])
    BY <1>3, <1>4 DEF GoodPage, Viewing
  <2> QED
    BY <1>2, <2>1 DEF ViewOK
<1>5. ASSUME NEW q \in Tabs, Posting(q)' PROVE page'[q] \in Forms
  BY <1>3, <1>5 DEF GoodPage, Posting
<1> QED
  BY <1>1, <1>2, <1>4, <1>5 DEF PagesOK

(* A page that is put in the place of itself, while calls begin and end. *)
LEMMA UpdateTypes ==
    ASSUME JobPagesTypeOK, NEW t \in Tabs, page[t] # None, NEW p, Puts(t, p), GoodPage(p), p.at = page[t].at,
           DraftsOK', DOMAIN call' = Calls,
           \A q \in Calls : call'[q] \in {None, call[q]} \/ CallOK(call'[q])
    PROVE  JobPagesTypeOK'
<1> RowsOK /\ PagesOK /\ CallsOK
  BY DEF JobPagesTypeOK
<1>1. RowsOK' /\ PagesOK' /\ used' = used
  BY PutsOK DEF Puts, api
<1>2. \A q \in Tabs : page[q] # None => page'[q] # None /\ page'[q].at = page[q].at
  BY PutsPages DEF GoodPage
<1>3. ASSUME NEW q \in Calls, call'[q] # None PROVE CallOK(call[q])'
  <2>1. CallOK(call'[q])
    BY <1>3 DEF CallsOK, Pending
  <2>2. call'[q].here => call'[q].tab \in Tabs
    BY <2>1 DEF CallOK, AllCalls
  <2> QED
    BY <1>1, <1>2, <2>1, <2>2 DEF CallOK
<1>4. CallsOK'
  BY <1>3 DEF CallsOK, Pending
<1> QED
  BY <1>1, <1>4 DEF JobPagesTypeOK

(* A step of calls and drafts alone. *)
LEMMA CallsTypes ==
    ASSUME JobPagesTypeOK, UNCHANGED <<api, page>>, DraftsOK', DOMAIN call' = Calls,
           \A q \in Calls : call'[q] \in {None, call[q]} \/ CallOK(call'[q])
    PROVE  JobPagesTypeOK'
<1> RowsOK /\ PagesOK /\ CallsOK
  BY DEF JobPagesTypeOK
<1>1. RowsOK' /\ PagesOK' /\ used' = used
  BY DEF api, RowsOK, PagesOK, Exists, Viewing, Posting, ViewOK
<1>2. ASSUME NEW q \in Calls, call'[q] # None PROVE CallOK(call[q])'
  <2>1. CallOK(call'[q])
    BY <1>2 DEF CallsOK, Pending
  <2> QED
    BY <1>1, <2>1 DEF CallOK
<1>3. CallsOK'
  BY <1>2 DEF CallsOK, Pending
<1> QED
  BY <1>1, <1>3 DEF JobPagesTypeOK

(* A page that is left: its calls are heard of by the script that goes on, or
   by nobody. *)
Left(t, r, q) ==
    /\ r = None => q = None
    /\ q # None => /\ q \in AllCalls /\ q.from = r.from /\ q.kind = r.kind /\ q.job = r.job
                   /\ q.type = r.type /\ q.stage = r.stage /\ q.new = r.new /\ q.row = r.row
                   /\ q.clean = r.clean
                   /\ q.here => q = r /\ r.tab # t
    /\ r # None /\ r.here /\ r.tab # t => q = r

Leaves(t) == DOMAIN call' = Calls /\ \A c \in Calls : Left(t, call[c], call'[c])

LEMMA KeptIs == ASSUME NEW r PROVE Kept(r) \in {r, None}
BY DEF Kept

LEMMA UnmountedCalls ==
    ASSUME CallsOK, NEW t \in Tabs, NEW c \in Calls
    PROVE  Left(t, call[c], Unmounted(t)[c])
<1>1. call[c] # None => call[c] \in AllCalls
  BY DEF CallsOK, CallOK, Pending
<1>2. CASE c \notin Own(t)
  <2>1. Unmounted(t)[c] = call[c]
    BY <1>2 DEF Unmounted
  <2> QED
    BY <1>1, <1>2, <2>1 DEF Left, Own, Pending
<1>3. CASE c \in Own(t)
  <2>1. PICK s : s = [call[c] EXCEPT !.here = FALSE]
    OBVIOUS
  <2>2. Unmounted(t)[c] \in {s, None} /\ call[c] # None /\ call[c].tab = t
    BY <1>3, <2>1, KeptIs DEF Unmounted, Own, Pending
  <2>3. Left(t, call[c], s)
    BY <1>1, <2>1, <2>2 DEF AllCalls, Left
  <2> QED
    BY <2>2, <2>3 DEF Left
<1> QED
  BY <1>2, <1>3

LEMMA UnmountedLeaves ==
    ASSUME CallsOK, NEW t \in Tabs, call' = Unmounted(t)
    PROVE  Leaves(t)
BY UnmountedCalls DEF Leaves, Unmounted

LEMMA DroppedLeaves ==
    ASSUME CallsOK, NEW t \in Tabs, call' = Dropped(t)
    PROVE  Leaves(t)
<1>1. DOMAIN call' = Calls
  BY DEF Dropped
<1>2. ASSUME NEW c \in Calls PROVE Left(t, call[c], call'[c])
  <2>1. call[c] # None => call[c] \in AllCalls
    BY DEF CallsOK, CallOK, Pending
  <2>2. CASE ~(c \in Pending /\ call[c].tab = t)
    <3>1. call'[c] = call[c]
      BY <2>2 DEF Dropped
    <3> QED
      BY <2>1, <2>2, <3>1 DEF Left, Pending
  <2>3. CASE c \in Pending /\ call[c].tab = t
    <3>1. PICK s : s = [call[c] EXCEPT !.tab = None, !.here = FALSE]
      OBVIOUS
    <3>2. call'[c] \in {s, None} /\ call[c] # None /\ call[c].tab = t
      BY <2>3, <3>1, KeptIs DEF Dropped, Pending
    <3>3. Left(t, call[c], s)
      BY <2>1, <3>1, <3>2 DEF AllCalls, Left
    <3> QED
      BY <3>2, <3>3 DEF Left
  <2> QED
    BY <2>2, <2>3
<1> QED
  BY <1>1, <1>2 DEF Leaves

LEMMA LeaveTypes ==
    ASSUME JobPagesTypeOK, NEW t \in Tabs, NEW p, Puts(t, p), p = None \/ GoodPage(p),
           Leaves(t), DraftsOK'
    PROVE  JobPagesTypeOK'
<1> RowsOK /\ PagesOK /\ CallsOK
  BY DEF JobPagesTypeOK
<1>1. RowsOK' /\ PagesOK' /\ used' = used
  BY PutsOK DEF Puts, api
<1>2. \A q \in Tabs : q # t => page'[q] = page[q]
  BY PutsPages
<1>3. ASSUME NEW q \in Calls, call'[q] # None PROVE CallOK(call[q])'
  <2>1. call[q] # None /\ CallOK(call[q])
    BY <1>3 DEF CallsOK, Pending, Leaves, Left
  <2>2. call'[q].here => /\ call'[q].tab # None /\ page'[call'[q].tab] # None
                         /\ page'[call'[q].tab].at = call'[q].from
    <3>1. call[q].tab \in Tabs \cup {None}
      BY <2>1 DEF CallOK, AllCalls
    <3> QED
      BY <1>2, <1>3, <2>1, <3>1 DEF CallOK, Leaves, Left
  <2> QED
    BY <1>1, <1>3, <2>1, <2>2 DEF CallOK, Leaves, Left
<1>4. CallsOK'
  BY <1>3 DEF CallsOK, Pending, Leaves, Left
<1> QED
  BY <1>1, <1>4 DEF JobPagesTypeOK

-----------------------------------------------------------------------------
(* Fresh pages, and views whose fields are changed. *)
Shows(at) == [JobIds -> (IF at \in JobPageKinds THEN Rows ELSE ProposalStatuses) \cup {None}]

TheView(at, of, s, l, m, b, k) ==
    [at |-> at, of |-> of, shown |-> s, loading |-> l, confirm |-> m, busy |-> b, clean |-> k]

LEMMA ViewFields ==
    ASSUME NEW p, ViewOK(p)
    PROVE  /\ p = TheView(p.at, p.of, p.shown, p.loading, p.confirm, p.busy, p.clean)
           /\ p.at \in Kinds \ {"post"} /\ p.of \in used \cup {None} /\ p.of \in JobIds \cup {None}
           /\ p.shown \in Shows(p.at)
           /\ p.loading \in BOOLEAN /\ p.busy \in BOOLEAN /\ p.clean \in SUBSET JobIds
           /\ p.confirm \in Modals \cup {None}
<1>1. CASE p.at \in JobPageKinds
  BY <1>1 DEF ViewOK, JobViews, Views, TheView, Shows, Kinds, JobPageKinds
<1>2. CASE p.at \notin JobPageKinds
  BY <1>2 DEF ViewOK, ProposalViews, Views, TheView, Shows, Kinds, ProposalPageKinds
<1> QED
  BY <1>1, <1>2

LEMMA TheViewGood ==
    ASSUME NEW at \in Kinds \ {"post"}, NEW of \in used \cup {None}, used \subseteq JobIds,
           NEW s \in Shows(at), NEW l \in BOOLEAN, NEW m \in Modals \cup {None},
           NEW b \in BOOLEAN, NEW k \in SUBSET JobIds,
           at = "jobs" => of = None,
           \A j \in JobIds : s[j] # None => j \in used /\ (at \in JobPageKinds => of \in {None, j}),
           m # None => at \in JobPageKinds /\ m.job \in used
    PROVE  GoodPage(TheView(at, of, s, l, m, b, k)) /\ ViewOK(TheView(at, of, s, l, m, b, k))
<1>1. PICK p : p = TheView(at, of, s, l, m, b, k)
  OBVIOUS
<1>2. /\ p.at = at /\ p.of = of /\ p.shown = s /\ p.loading = l /\ p.confirm = m
      /\ p.busy = b /\ p.clean = k
  BY <1>1 DEF TheView
<1>3. CASE at \in JobPageKinds
  <2>1. p \in JobViews
    BY <1>1, <1>3 DEF TheView, Shows, JobViews, Views
  <2> QED
    BY <1>1, <1>2, <1>3, <2>1, ViewNotNone DEF ViewOK, GoodPage
<1>4. CASE at \notin JobPageKinds
  <2>1. at \in ProposalPageKinds
    BY <1>4 DEF Kinds
  <2>2. p \in ProposalViews
    BY <1>1, <1>4, <2>1 DEF TheView, Shows, ProposalViews, Views
  <2> QED
    BY <1>1, <1>2, <1>4, <2>2, ViewNotNone DEF ViewOK, GoodPage
<1> QED
  BY <1>3, <1>4

(* A page as it is shown at first. *)
Fresh(p) ==
    /\ GoodPage(p)
    /\ p.at = "post" => p = Form
    /\ p.at # "post" => /\ p.shown = [i \in JobIds |-> None]
                        /\ p.loading = TRUE /\ p.confirm = None /\ p.busy = FALSE /\ p.clean = JobIds

LEMMA FreshView ==
    ASSUME RowsOK, NEW at \in Kinds \ {"post"}, NEW j \in used \cup {None}, at = "jobs" => j = None
    PROVE  Fresh(View(at, j))
<1>1. PICK s : s = [i \in JobIds |-> None]
  OBVIOUS
<1>2. s \in Shows(at) /\ \A i \in JobIds : s[i] = None
  BY <1>1 DEF Shows
<1>5. PICK k \in SUBSET JobIds, l \in BOOLEAN, b \in BOOLEAN : k = JobIds /\ l = TRUE /\ b = FALSE
  OBVIOUS
<1>3. View(at, j) = TheView(at, j, s, l, None, b, k)
  BY <1>1, <1>5 DEF View, TheView
<1>6. PICK m \in Modals \cup {None} : m = None
  OBVIOUS
<1>7. GoodPage(TheView(at, j, s, l, m, b, k))
  <2>1. used \subseteq JobIds
    BY DEF RowsOK
  <2> QED
    BY <1>2, <1>6, <2>1, TheViewGood
<1>4. GoodPage(View(at, j))
  BY <1>3, <1>6, <1>7
<1> QED
  BY <1>4 DEF Fresh, View

LEMMA FreshForm ==
    ASSUME DraftsOK
    PROVE  Fresh(Form)
<1>1. Form \in Forms /\ Form.at = "post"
  BY DEF Form, Forms
<1> QED
  BY <1>1, JobPagesAssumption DEF Fresh, GoodPage

(* The page in t is left for another, or closed. *)
Replaces(t) ==
    /\ Leaves(t)
    /\ \E p : Puts(t, p) /\ (p = None \/ Fresh(p))

LEMMA NavigateEffect ==
    ASSUME JobPagesTypeOK, NEW t \in Tabs, NEW at \in Kinds, NEW j \in used \cup {None}, at = "jobs" => j = None,
           Navigate(t, at, j)
    PROVE  Replaces(t) /\ DraftsOK'
<1> RowsOK /\ DraftsOK /\ CallsOK
  BY DEF JobPagesTypeOK
<1>1. Fresh(New(at, j))
  BY FreshView, FreshForm DEF New
<1>2. Puts(t, New(at, j)) /\ Leaves(t)
  BY UnmountedLeaves DEF Navigate, Puts
<1>3. DraftsOK'
  BY DEF Navigate, Risk, DraftsOK, Crowded
<1> QED
  BY <1>1, <1>2, <1>3 DEF Replaces

LEMMA FollowEffect ==
    ASSUME JobPagesTypeOK, NEW t \in Tabs, Follow(t)
    PROVE  Replaces(t) /\ DraftsOK'
<1> RowsOK
  BY DEF JobPagesTypeOK
<1>1. PICK at \in visits : \E j \in Targets(at) : Navigate(t, at, j)
  BY DEF Follow
<1>2. PICK j \in Targets(at) : Navigate(t, at, j)
  BY <1>1
<1>3. at \in Kinds /\ j \in used \cup {None} /\ (at = "jobs" => j = None)
  BY DEF RowsOK, Targets
<1> QED
  BY <1>2, <1>3, NavigateEffect

(* What is put away as the draft is a text. *)
LEMMA StoreTypes ==
    ASSUME JobPagesTypeOK, NEW t \in Tabs, Posting(t), Store(t)
    PROVE  DraftsOK'
<1>1. page[t].text \in Texts \cup {Blank} /\ page[t].restoring \in BOOLEAN
  BY DEF JobPagesTypeOK, PagesOK, Forms
<1> QED
  BY <1>1 DEF JobPagesTypeOK, DraftsOK, Store

LEMMA UnloadEffect ==
    ASSUME JobPagesTypeOK, NEW t \in Tabs, Unload(t) \/ Crash(t)
    PROVE  Replaces(t) /\ DraftsOK' /\ page'[t] = None
<1> CallsOK /\ PagesOK
  BY DEF JobPagesTypeOK
<1>1. Puts(t, None) /\ Leaves(t)
  BY DroppedLeaves DEF Unload, Crash, Puts
<1>2. DraftsOK'
  BY StoreTypes DEF Unload, Crash, JobPagesTypeOK, DraftsOK, drafts
<1> QED
  BY <1>1, <1>2, PutsPages DEF Replaces

LEMMA GoOnEffect ==
    ASSUME JobPagesTypeOK, NEW c \in Calls, GoOn(c)
    PROVE  /\ call[c].tab \in Tabs /\ Replaces(call[c].tab) /\ DraftsOK'
           /\ c \in Pending /\ call'[c] = None /\ page'[call[c].tab].at # "post"
<1> RowsOK /\ CallsOK /\ DraftsOK /\ PagesOK
  BY DEF JobPagesTypeOK
<1>1. /\ c \in Pending /\ call[c].stage = "done" /\ call[c].kind \in {"delete", "duplicate"}
      /\ call[c].tab # None /\ CallOK(call[c])
  BY DEF GoOn, Answered, Is, CallsOK
<1>2. PICK t \in Tabs : t = call[c].tab
  BY <1>1 DEF CallOK, AllCalls
<1>3. PICK at : at = IF call[c].kind = "delete" THEN "jobs" ELSE "job"
  OBVIOUS
<1>4. at \in Kinds \ {"post"} /\ call[c].new \in used \cup {None} /\ (at = "jobs" => call[c].new = None)
  BY <1>1, <1>3 DEF Kinds, JobPageKinds, CallOK
<1>5. Fresh(View(at, call[c].new))
  BY <1>4, FreshView
<1>6. Puts(t, View(at, call[c].new)) /\ call' = [Unmounted(t) EXCEPT ![c] = None] /\ UNCHANGED drafts
  BY <1>2, <1>3 DEF GoOn, Puts
<1>7. PICK f : f = Unmounted(t)
  OBVIOUS
<1>8. DOMAIN f = Calls
  BY <1>7 DEF Unmounted
<1>9. DOMAIN call' = Calls /\ call'[c] = None /\ \A q \in Calls : q # c => call'[q] = f[q]
  BY <1>6, <1>7, <1>8
<1>10. Leaves(t)
  <2>1. \A q \in Calls : q # c => Left(t, call[q], call'[q])
    BY <1>7, <1>9, UnmountedCalls
  <2>2. Left(t, call[c], call'[c])
    BY <1>2, <1>9 DEF Left
  <2> QED
    BY <1>9, <2>1, <2>2 DEF Leaves
<1>11. DraftsOK'
  BY <1>6 DEF DraftsOK, drafts
<1>12. page'[t].at = at
  BY <1>6, PutsPages DEF View
<1> QED
  BY <1>1, <1>2, <1>4, <1>5, <1>6, <1>9, <1>10, <1>11, <1>12 DEF Replaces

LEMMA ReplacesTypes ==
    ASSUME JobPagesTypeOK, NEW t \in Tabs, Replaces(t), DraftsOK'
    PROVE  JobPagesTypeOK'
<1>1. PICK p : Puts(t, p) /\ (p = None \/ Fresh(p))
  BY DEF Replaces
<1> QED
  BY <1>1, LeaveTypes DEF Replaces, Fresh

-----------------------------------------------------------------------------
(* A view whose fields change, and the calls it begins and ends. *)
Becomes(t, s, l, m, b, k) ==
    /\ Viewing(t)
    /\ Puts(t, TheView(page[t].at, page[t].of, s, l, m, b, k))

LEMMA BecomesFields ==
    ASSUME PagesOK, NEW t \in Tabs, NEW s, NEW l, NEW m, NEW b, NEW k, Becomes(t, s, l, m, b, k)
    PROVE  /\ UNCHANGED api /\ \A q \in Tabs : q # t => page'[q] = page[q]
           /\ page'[t].at = page[t].at /\ page'[t].of = page[t].of
           /\ page'[t].shown = s /\ page'[t].loading = l /\ page'[t].confirm = m
           /\ page'[t].busy = b /\ page'[t].clean = k
BY PutsPages DEF Becomes, TheView, Puts

Begins(c, r) == call[c] = None /\ call' = [call EXCEPT ![c] = r]
Ends(c) == c \in Pending /\ call' = [call EXCEPT ![c] = None]

LEMMA BeginsCalls ==
    ASSUME CallsOK, NEW c \in Calls, NEW r, Begins(c, r)
    PROVE  DOMAIN call' = Calls /\ call'[c] = r /\ call[c] = None
           /\ \A q \in Calls : q # c => call'[q] = call[q]
BY DEF Begins, CallsOK

LEMMA EndsCalls ==
    ASSUME CallsOK, NEW c \in Calls, Ends(c)
    PROVE  DOMAIN call' = Calls /\ call'[c] = None /\ call[c] # None
           /\ \A q \in Calls : q # c => call'[q] = call[q]
BY DEF Ends, CallsOK, Pending

GoodCalls ==
    \/ UNCHANGED call
    \/ \E c \in Calls : Ends(c)
    \/ \E c \in Calls : \E r : Begins(c, r) /\ CallOK(r)

LEMMA GoodCallsType ==
    ASSUME CallsOK, GoodCalls
    PROVE  DOMAIN call' = Calls /\ \A q \in Calls : call'[q] \in {None, call[q]} \/ CallOK(call'[q])
<1>1. CASE UNCHANGED call
  BY <1>1 DEF CallsOK
<1>2. CASE \E c \in Calls : Ends(c)
  BY <1>2, EndsCalls
<1>3. CASE \E c \in Calls : \E r : Begins(c, r) /\ CallOK(r)
  BY <1>3, BeginsCalls
<1> QED
  BY <1>1, <1>2, <1>3 DEF GoodCalls

LEMMA BecomesTypes ==
    ASSUME JobPagesTypeOK, NEW t \in Tabs, NEW s \in Shows(page[t].at), NEW l \in BOOLEAN,
           NEW m \in Modals \cup {None}, NEW b \in BOOLEAN, NEW k \in SUBSET JobIds,
           \A j \in JobIds : s[j] # None => j \in used /\ (page[t].at \in JobPageKinds => page[t].of \in {None, j}),
           m # None => page[t].at \in JobPageKinds /\ m.job \in used,
           Becomes(t, s, l, m, b, k), GoodCalls, UNCHANGED drafts
    PROVE  JobPagesTypeOK'
<1> CallsOK /\ PagesOK /\ RowsOK
  BY DEF JobPagesTypeOK
<1>1. ViewOK(page[t]) /\ page[t] # None
  BY DEF PagesOK, Becomes, Viewing
<1>2. PICK p : p = TheView(page[t].at, page[t].of, s, l, m, b, k)
  OBVIOUS
<1>3. /\ page[t].at \in Kinds \ {"post"} /\ page[t].of \in used \cup {None}
      /\ (page[t].at = "jobs" => page[t].of = None) /\ used \subseteq JobIds
  BY <1>1, ViewFields DEF ViewOK, RowsOK
<1>4. GoodPage(p)
  BY <1>2, <1>3, TheViewGood
<1>5. Puts(t, p) /\ p.at = page[t].at
  BY <1>2 DEF Becomes, TheView
<1>6. DraftsOK'
  BY DEF JobPagesTypeOK, DraftsOK, drafts
<1> QED
  BY <1>1, <1>4, <1>5, <1>6, GoodCallsType, UpdateTypes

LEMMA FormTypes ==
    ASSUME JobPagesTypeOK, NEW t \in Tabs, Posting(t), NEW p \in Forms, Puts(t, p), GoodCalls, DraftsOK'
    PROVE  JobPagesTypeOK'
<1> CallsOK
  BY DEF JobPagesTypeOK
<1>1. p.at = "post" /\ page[t].at = "post" /\ page[t] # None /\ GoodPage(p)
  BY JobPagesAssumption DEF Forms, Posting, GoodPage
<1> QED
  BY <1>1, GoodCallsType, UpdateTypes

LEMMA ViewingFields ==
    ASSUME JobPagesTypeOK, NEW t \in Tabs, Viewing(t)
    PROVE  /\ ViewOK(page[t]) /\ page[t].shown \in Shows(page[t].at)
           /\ page[t].loading \in BOOLEAN /\ page[t].busy \in BOOLEAN /\ page[t].clean \in SUBSET JobIds
           /\ page[t].confirm \in Modals \cup {None}
           /\ page[t].at \in Kinds \ {"post"}
           /\ page[t].confirm # None => page[t].at \in JobPageKinds /\ page[t].confirm.job \in used
           /\ \A j \in JobIds : page[t].shown[j] # None => j \in used /\ (page[t].at \in JobPageKinds => page[t].of \in {None, j})
<1>1. ViewOK(page[t])
  BY DEF JobPagesTypeOK, PagesOK
<1> QED
  BY <1>1, ViewFields DEF ViewOK

(* What is shown stays, and the modal is open as before or closed. *)
LEMMA SameShownTypes ==
    ASSUME JobPagesTypeOK, NEW t \in Tabs, NEW l \in BOOLEAN, NEW m \in {page[t].confirm, None},
           NEW b \in BOOLEAN, NEW k \in SUBSET JobIds,
           Becomes(t, page[t].shown, l, m, b, k), GoodCalls, UNCHANGED drafts
    PROVE  JobPagesTypeOK'
<1>1. Viewing(t)
  BY DEF Becomes
<1>2. PICK s : s = page[t].shown
  OBVIOUS
<1>3. /\ s \in Shows(page[t].at) /\ m \in Modals \cup {None}
      /\ m # None => page[t].at \in JobPageKinds /\ m.job \in used
      /\ \A j \in JobIds : s[j] # None => j \in used /\ (page[t].at \in JobPageKinds => page[t].of \in {None, j})
  BY <1>1, <1>2, ViewingFields
<1>4. Becomes(t, s, l, m, b, k)
  BY <1>2
<1> QED
  BY <1>3, <1>4, BecomesTypes

(* Each way in which a view is changed. *)
LEMMA FetchedView ==
    ASSUME NEW p, ViewOK(p), NEW s, NEW k
    PROVE  Fetched(p, s, k) = TheView(p.at, p.of, s, FALSE, p.confirm, FALSE, k)
<1>1. \E at, of, v, l, c, y, n : p = TheView(at, of, v, l, c, y, n)
  BY ViewFields
<1>2. PICK at, of, v, l, c, y, n : p = TheView(at, of, v, l, c, y, n)
  BY <1>1
<1>3. /\ p.at = at /\ p.of = of /\ p.shown = v /\ p.loading = l /\ p.confirm = c /\ p.busy = y /\ p.clean = n
  BY <1>2 DEF TheView
<1>4. PICK R : R = [at : {at}, of : {of}, shown : {v, s}, loading : {l, FALSE}, confirm : {c},
                    busy : {y, FALSE}, clean : {n, k}]
  OBVIOUS
<1>5. p \in R
  BY <1>2, <1>4 DEF TheView
<1>6. \A q \in R : q = TheView(q.at, q.of, q.shown, q.loading, q.confirm, q.busy, q.clean)
  BY <1>4 DEF TheView
<1> QED
  <2>1. PICK q : q = Fetched(p, s, k)
    OBVIOUS
  <2>2. q \in R /\ q.at = at /\ q.of = of /\ q.shown = s /\ q.loading = FALSE /\ q.confirm = c /\ q.busy = FALSE /\ q.clean = k
    BY <1>2, <1>3, <1>4, <1>5, <2>1 DEF Fetched
  <2> QED
    BY <1>3, <1>6, <2>1, <2>2

LEMMA ModalView ==
    ASSUME NEW p, ViewOK(p), NEW m
    PROVE  [p EXCEPT !.confirm = m] = TheView(p.at, p.of, p.shown, p.loading, m, p.busy, p.clean)
<1>1. \E at, of, v, l, c, y, n : p = TheView(at, of, v, l, c, y, n)
  BY ViewFields
<1>2. PICK at, of, v, l, c, y, n : p = TheView(at, of, v, l, c, y, n)
  BY <1>1
<1>3. /\ p.at = at /\ p.of = of /\ p.shown = v /\ p.loading = l /\ p.confirm = c /\ p.busy = y /\ p.clean = n
  BY <1>2 DEF TheView
<1> QED
  BY <1>2, <1>3 DEF TheView

LEMMA BusyView ==
    ASSUME NEW p, ViewOK(p), NEW b
    PROVE  [p EXCEPT !.busy = b] = TheView(p.at, p.of, p.shown, p.loading, p.confirm, b, p.clean)
<1>1. \E at, of, v, l, c, y, n : p = TheView(at, of, v, l, c, y, n)
  BY ViewFields
<1>2. PICK at, of, v, l, c, y, n : p = TheView(at, of, v, l, c, y, n)
  BY <1>1
<1>3. /\ p.at = at /\ p.of = of /\ p.shown = v /\ p.loading = l /\ p.confirm = c /\ p.busy = y /\ p.clean = n
  BY <1>2 DEF TheView
<1> QED
  BY <1>2, <1>3 DEF TheView

LEMMA LoadingView ==
    ASSUME NEW p, ViewOK(p), NEW l
    PROVE  [p EXCEPT !.loading = l] = TheView(p.at, p.of, p.shown, l, p.confirm, p.busy, p.clean)
<1>1. \E at, of, v, g, c, y, n : p = TheView(at, of, v, g, c, y, n)
  BY ViewFields
<1>2. PICK at, of, v, g, c, y, n : p = TheView(at, of, v, g, c, y, n)
  BY <1>1
<1>3. /\ p.at = at /\ p.of = of /\ p.shown = v /\ p.loading = g /\ p.confirm = c /\ p.busy = y /\ p.clean = n
  BY <1>2 DEF TheView
<1> QED
  BY <1>2, <1>3 DEF TheView

LEMMA CleanView ==
    ASSUME NEW p, ViewOK(p), NEW k
    PROVE  [p EXCEPT !.clean = k] = TheView(p.at, p.of, p.shown, p.loading, p.confirm, p.busy, k)
<1>1. \E at, of, v, l, c, y, n : p = TheView(at, of, v, l, c, y, n)
  BY ViewFields
<1>2. PICK at, of, v, l, c, y, n : p = TheView(at, of, v, l, c, y, n)
  BY <1>1
<1>3. /\ p.at = at /\ p.of = of /\ p.shown = v /\ p.loading = l /\ p.confirm = c /\ p.busy = y /\ p.clean = n
  BY <1>2 DEF TheView
<1> QED
  BY <1>2, <1>3 DEF TheView

LEMMA ShownView ==
    ASSUME NEW p, ViewOK(p), NEW s, NEW k
    PROVE  [p EXCEPT !.shown = s, !.clean = k] = TheView(p.at, p.of, s, p.loading, p.confirm, p.busy, k)
<1>1. \E at, of, v, l, c, y, n : p = TheView(at, of, v, l, c, y, n)
  BY ViewFields
<1>2. PICK at, of, v, l, c, y, n : p = TheView(at, of, v, l, c, y, n)
  BY <1>1
<1>3. /\ p.at = at /\ p.of = of /\ p.shown = v /\ p.loading = l /\ p.confirm = c /\ p.busy = y /\ p.clean = n
  BY <1>2 DEF TheView
<1>4. PICK R : R = [at : {at}, of : {of}, shown : {v, s}, loading : {l}, confirm : {c},
                    busy : {y}, clean : {n, k}]
  OBVIOUS
<1>5. p \in R
  BY <1>2, <1>4 DEF TheView
<1>6. \A q \in R : q = TheView(q.at, q.of, q.shown, q.loading, q.confirm, q.busy, q.clean)
  BY <1>4 DEF TheView
<1> QED
  <2>1. PICK q : q = [p EXCEPT !.shown = s, !.clean = k]
    OBVIOUS
  <2>2. q \in R /\ q.at = at /\ q.of = of /\ q.shown = s /\ q.loading = l /\ q.confirm = c /\ q.busy = y /\ q.clean = k
    BY <1>2, <1>3, <1>4, <1>5, <2>1
  <2> QED
    BY <1>3, <1>6, <2>1, <2>2

LEMMA SettledModal ==
    ASSUME NEW p, ViewOK(p), NEW b, NEW m
    PROVE  [p EXCEPT !.busy = b, !.confirm = m] = TheView(p.at, p.of, p.shown, p.loading, m, b, p.clean)
<1>1. \E at, of, v, l, c, y, n : p = TheView(at, of, v, l, c, y, n)
  BY ViewFields
<1>2. PICK at, of, v, l, c, y, n : p = TheView(at, of, v, l, c, y, n)
  BY <1>1
<1>3. /\ p.at = at /\ p.of = of /\ p.shown = v /\ p.loading = l /\ p.confirm = c /\ p.busy = y /\ p.clean = n
  BY <1>2 DEF TheView
<1>4. PICK R : R = [at : {at}, of : {of}, shown : {v}, loading : {l}, confirm : {c, m},
                    busy : {y, b}, clean : {n}]
  OBVIOUS
<1>5. p \in R
  BY <1>2, <1>4 DEF TheView
<1>6. \A q \in R : q = TheView(q.at, q.of, q.shown, q.loading, q.confirm, q.busy, q.clean)
  BY <1>4 DEF TheView
<1> QED
  <2>1. PICK q : q = [p EXCEPT !.busy = b, !.confirm = m]
    OBVIOUS
  <2>2. q \in R /\ q.at = at /\ q.of = of /\ q.shown = v /\ q.loading = l /\ q.confirm = m /\ q.busy = b /\ q.clean = n
    BY <1>2, <1>3, <1>4, <1>5, <2>1
  <2> QED
    BY <1>3, <1>6, <2>1, <2>2

LEMMA DeletedView ==
    ASSUME NEW p, ViewOK(p), NEW s, NEW b, NEW m
    PROVE  [p EXCEPT !.shown = s, !.busy = b, !.confirm = m] = TheView(p.at, p.of, s, p.loading, m, b, p.clean)
<1>1. \E at, of, v, l, c, y, n : p = TheView(at, of, v, l, c, y, n)
  BY ViewFields
<1>2. PICK at, of, v, l, c, y, n : p = TheView(at, of, v, l, c, y, n)
  BY <1>1
<1>3. /\ p.at = at /\ p.of = of /\ p.shown = v /\ p.loading = l /\ p.confirm = c /\ p.busy = y /\ p.clean = n
  BY <1>2 DEF TheView
<1>4. PICK R : R = [at : {at}, of : {of}, shown : {v, s}, loading : {l}, confirm : {c, m},
                    busy : {y, b}, clean : {n}]
  OBVIOUS
<1>5. p \in R
  BY <1>2, <1>4 DEF TheView
<1>6. \A q \in R : q = TheView(q.at, q.of, q.shown, q.loading, q.confirm, q.busy, q.clean)
  BY <1>4 DEF TheView
<1> QED
  <2>1. PICK q : q = [p EXCEPT !.shown = s, !.busy = b, !.confirm = m]
    OBVIOUS
  <2>2. q \in R /\ q.at = at /\ q.of = of /\ q.shown = s /\ q.loading = l /\ q.confirm = m /\ q.busy = b /\ q.clean = n
    BY <1>2, <1>3, <1>4, <1>5, <2>1
  <2> QED
    BY <1>3, <1>6, <2>1, <2>2

-----------------------------------------------------------------------------
(* What each step of a page does. *)
LEMMA FetchEffect ==
    ASSUME JobPagesTypeOK, NEW t \in Tabs, Fetch(t)
    PROVE  /\ page[t].loading /\ UNCHANGED <<call, drafts>>
           /\ Becomes(t, [j \in JobIds |-> Read(page[t], j)], FALSE, page[t].confirm, FALSE, JobIds)
<1>1. Viewing(t) /\ page[t].loading /\ UNCHANGED <<api, call, drafts>>
  BY DEF Fetch
<1>2. PICK s : s = [j \in JobIds |-> Read(page[t], j)]
  OBVIOUS
<1>3. page' = [page EXCEPT ![t] = Fetched(page[t], s, JobIds)]
  BY <1>2 DEF Fetch
<1>4. Fetched(page[t], s, JobIds) = TheView(page[t].at, page[t].of, s, FALSE, page[t].confirm, FALSE, JobIds)
  <2>1. ViewOK(page[t])
    BY <1>1, ViewingFields
  <2> QED
    BY <2>1, FetchedView
<1> QED
  BY <1>1, <1>2, <1>3, <1>4 DEF Becomes, Puts

LEMMA ReadType ==
    ASSUME RowsOK, NEW p, ViewOK(p), NEW j \in JobIds
    PROVE  /\ Read(p, j) \in (IF p.at \in JobPageKinds THEN Rows ELSE ProposalStatuses) \cup {None}
           /\ Read(p, j) # None => j \in used /\ p.of \in {None, j}
           /\ Read(p, j) # None => Read(p, j) = IF p.at \in JobPageKinds THEN job[j] ELSE proposal[j]
           /\ p.at \in JobPageKinds /\ Read(p, j) = None /\ p.of \in {None, j} => job[j] = None
BY DEF RowsOK, Exists, Read

LEMMA FetchTypes ==
    ASSUME JobPagesTypeOK, NEW t \in Tabs, Fetch(t)
    PROVE  JobPagesTypeOK'
<1> RowsOK
  BY DEF JobPagesTypeOK
<1>1. PICK s : s = [j \in JobIds |-> Read(page[t], j)]
  OBVIOUS
<1>2. Becomes(t, s, FALSE, page[t].confirm, FALSE, JobIds) /\ UNCHANGED <<call, drafts>> /\ Viewing(t)
  BY <1>1, FetchEffect DEF Becomes
<1>3. s \in Shows(page[t].at) /\ \A j \in JobIds : s[j] # None => j \in used /\ (page[t].at \in JobPageKinds => page[t].of \in {None, j})
  BY <1>1, <1>2, ViewingFields, ReadType DEF Shows
<1>4. PICK k \in SUBSET JobIds, l \in BOOLEAN : k = JobIds /\ l = FALSE
  OBVIOUS
<1>5. Becomes(t, s, l, page[t].confirm, l, k)
  BY <1>2, <1>4
<1> QED
  BY <1>2, <1>3, <1>5, ViewingFields, BecomesTypes DEF GoodCalls

LEMMA FetchFailsEffect ==
    ASSUME JobPagesTypeOK, NEW t \in Tabs, FetchFails(t)
    PROVE  /\ page[t].loading /\ UNCHANGED <<call, drafts>> /\ JobPagesTypeOK'
           /\ Becomes(t, page[t].shown, FALSE, page[t].confirm, FALSE, {})
<1>1. Viewing(t) /\ page[t].loading /\ UNCHANGED <<api, call, drafts>>
  BY DEF FetchFails
<1>2. page' = [page EXCEPT ![t] = Fetched(page[t], page[t].shown, {})]
  BY DEF FetchFails
<1>3. Fetched(page[t], page[t].shown, {})
        = TheView(page[t].at, page[t].of, page[t].shown, FALSE, page[t].confirm, FALSE, {})
  <2>1. ViewOK(page[t])
    BY <1>1, ViewingFields
  <2> QED
    BY <2>1, FetchedView
<1>4. Becomes(t, page[t].shown, FALSE, page[t].confirm, FALSE, {})
  BY <1>1, <1>2, <1>3 DEF Becomes, Puts
<1>5. PICK k \in SUBSET JobIds, l \in BOOLEAN : k = {} /\ l = FALSE
  OBVIOUS
<1>6. Becomes(t, page[t].shown, l, page[t].confirm, l, k)
  BY <1>4, <1>5
<1>7. JobPagesTypeOK'
  BY <1>1, <1>6, SameShownTypes DEF GoodCalls
<1> QED
  BY <1>1, <1>4, <1>7

LEMMA PressableFields ==
    ASSUME JobPagesTypeOK, NEW t \in Tabs, NEW j \in JobIds, Pressable(t, j)
    PROVE  /\ Viewing(t) /\ page[t].at \in JobPageKinds /\ page[t].confirm = None
           /\ page[t].shown[j] \in Rows /\ page[t].shown[j] # None /\ j \in used
BY ViewingFields DEF Pressable, Shows

LEMMA AskEffect ==
    ASSUME JobPagesTypeOK, NEW t \in Tabs, NEW j \in JobIds, AskToDelete(t, j)
    PROVE  /\ page[t].shown[j] # None /\ page[t].at \in JobPageKinds
           /\ UNCHANGED <<call, drafts>> /\ JobPagesTypeOK'
           /\ \E m \in Modals :
                 /\ m.job = j /\ m.type = Type(page[t].shown[j].status) /\ m.clean = (j \in page[t].clean)
                 /\ Becomes(t, page[t].shown, page[t].loading, m, page[t].busy, page[t].clean)
<1>1. /\ Viewing(t) /\ page[t].at \in JobPageKinds /\ page[t].shown[j] # None /\ j \in used
      /\ UNCHANGED <<api, call, drafts>>
  BY PressableFields DEF AskToDelete
<1>2. PICK m : m = [job |-> j, type |-> Type(page[t].shown[j].status), clean |-> j \in page[t].clean]
  OBVIOUS
<1>3. m \in Modals /\ m.job = j /\ m.type = Type(page[t].shown[j].status) /\ m.clean = (j \in page[t].clean)
  <2>1. Type(page[t].shown[j].status) \in Deletions
    BY DEF Type, Deletions
  <2> QED
    BY <1>1, <1>2, <2>1, ViewingFields DEF Modals
<1>4. page' = [page EXCEPT ![t] = [page[t] EXCEPT !.confirm = m]]
  BY <1>2 DEF AskToDelete
<1>5. [page[t] EXCEPT !.confirm = m]
        = TheView(page[t].at, page[t].of, page[t].shown, page[t].loading, m, page[t].busy, page[t].clean)
  BY <1>1, ViewingFields, ModalView
<1>6. Becomes(t, page[t].shown, page[t].loading, m, page[t].busy, page[t].clean)
  BY <1>1, <1>4, <1>5 DEF Becomes, Puts
<1>7. JobPagesTypeOK'
  BY <1>1, <1>3, <1>6, ViewingFields, BecomesTypes DEF GoodCalls
<1> QED
  BY <1>1, <1>3, <1>6, <1>7

LEMMA CloseEffect ==
    ASSUME JobPagesTypeOK, NEW t \in Tabs, CloseModal(t)
    PROVE  /\ UNCHANGED <<call, drafts>> /\ JobPagesTypeOK'
           /\ Becomes(t, page[t].shown, page[t].loading, None, page[t].busy, page[t].clean)
<1>1. Viewing(t) /\ UNCHANGED <<api, call, drafts>>
  BY DEF CloseModal
<1>2. page' = [page EXCEPT ![t] = [page[t] EXCEPT !.confirm = None]]
  BY DEF CloseModal
<1>3. [page[t] EXCEPT !.confirm = None]
        = TheView(page[t].at, page[t].of, page[t].shown, page[t].loading, None, page[t].busy, page[t].clean)
  BY <1>1, ViewingFields, ModalView
<1>4. Becomes(t, page[t].shown, page[t].loading, None, page[t].busy, page[t].clean)
  BY <1>1, <1>2, <1>3 DEF Becomes, Puts
<1>5. page[t].loading \in BOOLEAN /\ page[t].busy \in BOOLEAN /\ page[t].clean \in SUBSET JobIds
  BY <1>1, ViewingFields
<1>6. JobPagesTypeOK'
  BY <1>1, <1>4, <1>5, SameShownTypes DEF GoodCalls
<1> QED
  BY <1>1, <1>4, <1>6

-----------------------------------------------------------------------------
(* Calls that pages make. *)
LEMMA AsksCall ==
    ASSUME JobPagesTypeOK, NEW t \in Tabs, page[t] # None, page[t].at \in Kinds, NEW kind \in CallKinds,
           Asked(kind, page[t].at), NEW j \in used \cup {None}, (kind \in Creations) <=> (j = None),
           NEW type \in Deletions \cup {None}, kind = "delete" => type \in Deletions,
           NEW k \in BOOLEAN
    PROVE  /\ CallOK(Call(t, kind, j, type, k)) /\ Call(t, kind, j, type, k).tab = t
           /\ Call(t, kind, j, type, k).here /\ Call(t, kind, j, type, k).from = page[t].at
           /\ Call(t, kind, j, type, k).kind = kind /\ Call(t, kind, j, type, k).job = j
           /\ Call(t, kind, j, type, k).type = type /\ Call(t, kind, j, type, k).stage = "sent"
           /\ Call(t, kind, j, type, k).clean = k
<1>1. PICK r : r = Call(t, kind, j, type, k)
  OBVIOUS
<1>2. /\ r.tab = t /\ r.here /\ r.from = page[t].at /\ r.kind = kind
      /\ r.job = j /\ r.type = type /\ r.stage = "sent" /\ r.clean = k /\ r.new = None /\ r.row = None
  BY <1>1 DEF Call
<1>3. j \in JobIds \cup {None}
  BY DEF JobPagesTypeOK, RowsOK
<1>4. r \in AllCalls
  BY <1>1, <1>3 DEF Call, AllCalls
<1>5. t # None
  BY JobPagesAssumption
<1>6. CallOK(r)
  BY <1>2, <1>4, <1>5 DEF CallOK
<1> QED
  BY <1>1, <1>2, <1>6

Asks(t, c, kind, j, type, k) ==
    \E r : /\ Begins(c, r) /\ CallOK(r) /\ r.tab = t /\ r.here /\ r.from = page[t].at /\ r.kind = kind
           /\ r.job = j /\ r.type = type /\ r.stage = "sent" /\ r.clean = k

LEMMA AsksGood == ASSUME NEW t, NEW c \in Calls, NEW kind, NEW j, NEW type, NEW k, Asks(t, c, kind, j, type, k)
                  PROVE  GoodCalls
BY DEF Asks, GoodCalls

LEMMA ConfirmEffect ==
    ASSUME JobPagesTypeOK, NEW t \in Tabs, NEW c \in Calls, Confirm(t, c)
    PROVE  /\ page[t].confirm # None /\ ~page[t].busy /\ page[t].at \in JobPageKinds
           /\ Asks(t, c, "delete", page[t].confirm.job, page[t].confirm.type, page[t].confirm.clean)
           /\ Becomes(t, page[t].shown, page[t].loading, page[t].confirm, TRUE, page[t].clean)
           /\ UNCHANGED drafts /\ JobPagesTypeOK'
<1>1. Viewing(t) /\ page[t].confirm # None /\ ~page[t].busy /\ UNCHANGED <<api, drafts>>
  BY DEF Confirm
<1>2. PICK m \in Modals : m = page[t].confirm
  BY <1>1, ViewingFields
<1>3. /\ m.job \in used /\ m.type \in Deletions /\ m.clean \in BOOLEAN
      /\ page[t].at \in JobPageKinds /\ page[t].at \in Kinds /\ page[t] # None
  BY <1>1, <1>2, ViewingFields DEF Modals, Viewing
<1>4. Begins(c, Call(t, "delete", m.job, m.type, m.clean))
  BY <1>2 DEF Confirm, Begins, Send, Free
<1>5. "delete" \in CallKinds /\ Asked("delete", page[t].at) /\ "delete" \notin Creations
  BY <1>3 DEF CallKinds, JobCalls, Asked, Verdicts, Creations
<1>6. m.job # None
  BY <1>3, JobPagesAssumption DEF JobPagesTypeOK, RowsOK
<1>7. Asks(t, c, "delete", m.job, m.type, m.clean)
  BY <1>3, <1>4, <1>5, <1>6, AsksCall DEF Asks
<1>8. page' = [page EXCEPT ![t] = [page[t] EXCEPT !.busy = TRUE]]
  BY DEF Confirm
<1>9. [page[t] EXCEPT !.busy = TRUE]
        = TheView(page[t].at, page[t].of, page[t].shown, page[t].loading, page[t].confirm, TRUE, page[t].clean)
  <2>1. ViewOK(page[t])
    BY <1>1, ViewingFields
  <2> QED
    BY <2>1, BusyView
<1>10. Becomes(t, page[t].shown, page[t].loading, page[t].confirm, TRUE, page[t].clean)
  BY <1>1, <1>8, <1>9 DEF Becomes, Puts
<1>11. JobPagesTypeOK'
  <2>1. GoodCalls
    BY <1>7, AsksGood
  <2>2. PICK b \in BOOLEAN : b = TRUE
    OBVIOUS
  <2>3. Becomes(t, page[t].shown, page[t].loading, page[t].confirm, b, page[t].clean)
    BY <1>10, <2>2
  <2>4. page[t].loading \in BOOLEAN /\ page[t].clean \in SUBSET JobIds /\ UNCHANGED drafts
    BY <1>1, ViewingFields
  <2> QED
    BY <2>1, <2>3, <2>4, SameShownTypes
<1> QED
  BY <1>1, <1>2, <1>3, <1>7, <1>10, <1>11

LEMMA PauseOrResumeEffect ==
    ASSUME JobPagesTypeOK, NEW t \in Tabs, NEW c \in Calls, NEW j \in JobIds, PauseOrResume(t, j, c)
    PROVE  /\ page[t].shown[j] # None /\ ~page[t].busy /\ page[t].at \in JobPageKinds
           /\ \E kind \in {"pause", "resume"} : Asks(t, c, kind, j, None, TRUE)
           /\ Becomes(t, page[t].shown, page[t].loading, page[t].confirm, TRUE, page[t].clean)
           /\ UNCHANGED drafts /\ JobPagesTypeOK'
<1>1. /\ Viewing(t) /\ page[t].shown[j] # None /\ ~page[t].busy /\ UNCHANGED <<api, drafts>>
      /\ page[t].at \in JobPageKinds /\ j \in used
  BY PressableFields DEF PauseOrResume
<1>2. PICK kind \in {"pause", "resume"} : Begins(c, Call(t, kind, j, None, TRUE))
  BY DEF PauseOrResume, Begins, Send, Free
<1>3. kind \in CallKinds /\ Asked(kind, page[t].at) /\ kind \notin Creations /\ kind # "delete"
  BY <1>1 DEF CallKinds, JobCalls, Asked, Verdicts, Creations
<1>4. j # None /\ page[t].at \in Kinds /\ page[t] # None
  BY <1>1, JobPagesAssumption, ViewingFields DEF Viewing
<1>5. Asks(t, c, kind, j, None, TRUE)
  <2>1. PICK k \in BOOLEAN : k = TRUE
    OBVIOUS
  <2>2. Asks(t, c, kind, j, None, k)
    BY <1>1, <1>2, <1>3, <1>4, <2>1, AsksCall DEF Asks
  <2> QED
    BY <2>1, <2>2
<1>8. page' = [page EXCEPT ![t] = [page[t] EXCEPT !.busy = TRUE]]
  BY DEF PauseOrResume
<1>9. [page[t] EXCEPT !.busy = TRUE]
        = TheView(page[t].at, page[t].of, page[t].shown, page[t].loading, page[t].confirm, TRUE, page[t].clean)
  <2>1. ViewOK(page[t])
    BY <1>1, ViewingFields
  <2> QED
    BY <2>1, BusyView
<1>10. Becomes(t, page[t].shown, page[t].loading, page[t].confirm, TRUE, page[t].clean)
  BY <1>1, <1>8, <1>9 DEF Becomes, Puts
<1>11. JobPagesTypeOK'
  <2>1. GoodCalls
    BY <1>5, AsksGood
  <2>2. PICK b \in BOOLEAN : b = TRUE
    OBVIOUS
  <2>3. Becomes(t, page[t].shown, page[t].loading, page[t].confirm, b, page[t].clean)
    BY <1>10, <2>2
  <2>4. page[t].loading \in BOOLEAN /\ page[t].clean \in SUBSET JobIds /\ UNCHANGED drafts
    BY <1>1, ViewingFields
  <2> QED
    BY <2>1, <2>3, <2>4, SameShownTypes
<1> QED
  BY <1>1, <1>5, <1>10, <1>11

LEMMA DuplicateEffect ==
    ASSUME JobPagesTypeOK, NEW t \in Tabs, NEW c \in Calls, NEW j \in JobIds, Duplicate(t, j, c)
    PROVE  /\ Viewing(t) /\ page[t].shown[j] # None /\ ~page[t].busy /\ page[t].at \in JobPageKinds
           /\ Asks(t, c, "duplicate", j, None, TRUE)
           /\ UNCHANGED <<api, page, drafts>> /\ JobPagesTypeOK'
<1>1. /\ Viewing(t) /\ page[t].shown[j] # None /\ ~page[t].busy /\ UNCHANGED <<api, page, drafts>>
      /\ page[t].at \in JobPageKinds /\ j \in used
  BY PressableFields DEF Duplicate
<1>2. Begins(c, Call(t, "duplicate", j, None, TRUE))
  BY DEF Duplicate, Begins, Send, Free
<1>3. "duplicate" \in CallKinds /\ Asked("duplicate", page[t].at) /\ "duplicate" \notin Creations
  BY <1>1 DEF CallKinds, JobCalls, Asked, Verdicts, Creations
<1>4. j # None /\ page[t].at \in Kinds /\ page[t] # None
  BY <1>1, JobPagesAssumption, ViewingFields DEF Viewing
<1>5. Asks(t, c, "duplicate", j, None, TRUE)
  <2>1. PICK k \in BOOLEAN : k = TRUE
    OBVIOUS
  <2>2. Asks(t, c, "duplicate", j, None, k)
    BY <1>1, <1>2, <1>3, <1>4, <2>1, AsksCall DEF Asks
  <2> QED
    BY <2>1, <2>2
<1>6. JobPagesTypeOK'
  <2>1. CallsOK /\ DraftsOK'
    BY <1>1 DEF JobPagesTypeOK, DraftsOK, drafts
  <2> QED
    BY <1>1, <1>5, <2>1, AsksGood, GoodCallsType, CallsTypes
<1> QED
  BY <1>1, <1>5, <1>6

LEMMA DecideEffect ==
    ASSUME JobPagesTypeOK, NEW t \in Tabs, NEW c \in Calls, NEW j \in JobIds,
           NEW v \in ProposalStatuses, Decide(t, j, c, v)
    PROVE  /\ Viewing(t) /\ page[t].shown[j] # None /\ page[t].at \notin JobPageKinds
           /\ Asks(t, c, v, j, None, TRUE)
           /\ UNCHANGED <<api, page, drafts>> /\ JobPagesTypeOK'
<1>1. /\ Viewing(t) /\ page[t].shown[j] # None /\ UNCHANGED <<api, page, drafts>>
      /\ (page[t].at = "review" /\ v \in Verdicts) \/ (page[t].at = "applications" /\ v = "withdrawn")
  BY DEF Decide, Verdicts
<1>2. Begins(c, Call(t, v, j, None, TRUE))
  BY DEF Decide, Begins, Send, Free
<1>3. v \in CallKinds /\ Asked(v, page[t].at) /\ v \notin Creations /\ v # "delete"
  BY <1>1 DEF CallKinds, JobCalls, Asked, Verdicts, Creations
<1>4. j # None /\ page[t].at \in Kinds /\ page[t] # None /\ j \in used /\ page[t].at \notin JobPageKinds
  BY <1>1, JobPagesAssumption, ViewingFields DEF Viewing, JobPageKinds
<1>5. Asks(t, c, v, j, None, TRUE)
  <2>1. PICK k \in BOOLEAN : k = TRUE
    OBVIOUS
  <2>2. None \in Deletions \cup {None} /\ j \in used \cup {None} /\ (v \in Creations <=> j = None)
    BY <1>3, <1>4
  <2>3. PICK r : r = Call(t, v, j, None, k)
    OBVIOUS
  <2>4. /\ CallOK(r) /\ r.tab = t /\ r.here /\ r.from = page[t].at /\ r.kind = v
        /\ r.job = j /\ r.type = None /\ r.stage = "sent" /\ r.clean = k
    <3>1. page[t] # None /\ page[t].at \in Kinds /\ Asked(v, page[t].at) /\ v \in CallKinds
      BY <1>3, <1>4
    <3>2. PICK type \in Deletions \cup {None} : type = None
      OBVIOUS
    <3>3. v = "delete" => type \in Deletions
      BY <1>3
    <3>4. r = Call(t, v, j, type, k)
      BY <2>3, <3>2
    <3> HIDE DEF Asked
    <3> QED
      BY <2>2, <3>1, <3>2, <3>3, <3>4, AsksCall
  <2>5. Asks(t, c, v, j, None, k)
    BY <1>2, <2>1, <2>3, <2>4 DEF Asks
  <2> QED
    BY <2>1, <2>5
<1>6. JobPagesTypeOK'
  <2>1. CallsOK /\ DraftsOK'
    BY <1>1 DEF JobPagesTypeOK, DraftsOK, drafts
  <2> QED
    BY <1>1, <1>5, <2>1, AsksGood, GoodCallsType, CallsTypes
<1> QED
  BY <1>1, <1>4, <1>5, <1>6

(* The form's buttons. *)
Reforms(t, p) == Posting(t) /\ p \in Forms /\ Puts(t, p)

LEMMA PostingFields ==
    ASSUME JobPagesTypeOK, NEW t \in Tabs, Posting(t)
    PROVE  /\ page[t] \in Forms /\ page[t] # None /\ page[t].at = "post" /\ "post" \in Kinds
           /\ page[t].text \in Texts \cup {Blank} /\ page[t].restoring \in BOOLEAN
           /\ page[t].saving \in BOOLEAN /\ page[t].publishing \in BOOLEAN
BY DEF JobPagesTypeOK, PagesOK, Forms, Posting, Kinds

LEMMA SendFormEffect ==
    ASSUME JobPagesTypeOK, NEW t \in Tabs, NEW c \in Calls, SaveDraft(t, c) \/ Publish(t, c)
    PROVE  /\ \E kind \in Creations : Asks(t, c, kind, None, None, TRUE)
           /\ \E p : Reforms(t, p) /\ p.text = page[t].text /\ p.restoring = page[t].restoring
           /\ UNCHANGED drafts /\ JobPagesTypeOK'
<1>1. Posting(t) /\ UNCHANGED <<api, drafts>>
  BY DEF SaveDraft, Publish
<1>2. PICK kind \in Creations : Begins(c, Call(t, kind, None, None, TRUE))
  BY DEF SaveDraft, Publish, Begins, Send, Free, Creations
<1>3. kind \in CallKinds /\ Asked(kind, page[t].at) /\ kind # "delete"
  BY <1>1, PostingFields DEF CallKinds, JobCalls, Asked, Verdicts, Creations
<1>4. Asks(t, c, kind, None, None, TRUE)
  <2>1. PICK k \in BOOLEAN : k = TRUE
    OBVIOUS
  <2>2. PICK r : r = Call(t, kind, None, None, k)
    OBVIOUS
  <2>3. Begins(c, r)
    BY <1>2, <2>1, <2>2
  <2>4. page[t] # None /\ page[t].at \in Kinds
    BY <1>1, PostingFields
  <2>5. /\ CallOK(r) /\ r.tab = t /\ r.here /\ r.from = page[t].at /\ r.kind = kind
        /\ r.job = None /\ r.type = None /\ r.stage = "sent" /\ r.clean = k
    BY <1>3, <2>2, <2>4, AsksCall
  <2>6. Asks(t, c, kind, None, None, k)
    BY <2>3, <2>5 DEF Asks
  <2> QED
    BY <2>1, <2>6
<1>5. PICK p : /\ page' = [page EXCEPT ![t] = p]
               /\ p = [page[t] EXCEPT !.saving = TRUE] \/ p = [page[t] EXCEPT !.publishing = TRUE]
  BY DEF SaveDraft, Publish
<1>6. p \in Forms /\ p.text = page[t].text /\ p.restoring = page[t].restoring
  BY <1>1, <1>5, PostingFields DEF Forms
<1>7. Reforms(t, p)
  BY <1>1, <1>5, <1>6 DEF Reforms, Puts
<1>8. JobPagesTypeOK'
  BY <1>1, <1>4, <1>7, AsksGood, FormTypes DEF Reforms, JobPagesTypeOK, DraftsOK, drafts
<1> QED
  BY <1>1, <1>4, <1>6, <1>7, <1>8
-----------------------------------------------------------------------------
(* What each step of a form does. *)
SameText(t, p) == p.text = page[t].text /\ p.restoring = page[t].restoring

LEMMA WriteEffect ==
    ASSUME JobPagesTypeOK, NEW t \in Tabs, Write(t)
    PROVE  /\ \E p : Reforms(t, p) /\ p.text \in Texts /\ p.restoring = page[t].restoring
           /\ UNCHANGED <<call, draft>> /\ (\E run \in BOOLEAN : Risk(run)) /\ JobPagesTypeOK'
<1>1. Posting(t) /\ UNCHANGED <<api, call, draft>>
  BY DEF Write
<1>2. PICK x \in Texts : page' = [page EXCEPT ![t].text = x]
  BY DEF Write
<1>3. PICK p : p = [page[t] EXCEPT !.text = x]
  OBVIOUS
<1>4. p \in Forms /\ p.text = x /\ p.restoring = page[t].restoring
  BY <1>1, <1>3, PostingFields DEF Forms
<1>5. Reforms(t, p)
  BY <1>1, <1>2, <1>3, <1>4 DEF Reforms, Puts
<1>6. PICK run \in BOOLEAN : Risk(run)
  BY <1>1, PostingFields DEF Write
<1>7. DraftsOK'
  BY <1>1, <1>6 DEF Risk, JobPagesTypeOK, DraftsOK
<1> QED
  BY <1>1, <1>4, <1>5, <1>6, <1>7, FormTypes DEF Reforms, GoodCalls

LEMMA AutosaveEffect ==
    ASSUME JobPagesTypeOK, NEW t \in Tabs, Autosave(t)
    PROVE  Posting(t) /\ Store(t) /\ UNCHANGED <<api, page, call>> /\ JobPagesTypeOK'
<1>1. Posting(t) /\ Store(t) /\ UNCHANGED <<api, page, call>> /\ CallsOK
  BY DEF Autosave, JobPagesTypeOK
<1>2. DraftsOK'
  BY <1>1, StoreTypes
<1> QED
  BY <1>1, <1>2, GoodCallsType, CallsTypes DEF GoodCalls

LEMMA RestoreEffect ==
    ASSUME JobPagesTypeOK, NEW t \in Tabs, RestoreDraft(t)
    PROVE  /\ \E p : Reforms(t, p) /\ p.text = draft
           /\ UNCHANGED <<call, draft>> /\ (\E run \in BOOLEAN : Risk(run)) /\ JobPagesTypeOK'
<1>1. Posting(t) /\ draft # None /\ UNCHANGED <<api, call, draft>>
  BY DEF RestoreDraft
<1>2. PICK p : p = [page[t] EXCEPT !.text = draft, !.restoring = FALSE]
  OBVIOUS
<1>3. draft \in Texts \cup {Blank}
  BY <1>1 DEF JobPagesTypeOK, DraftsOK
<1>4. p \in Forms /\ p.text = draft
  BY <1>1, <1>2, <1>3, PostingFields DEF Forms
<1>5. Reforms(t, p)
  BY <1>1, <1>2, <1>4 DEF RestoreDraft, Reforms, Puts
<1>6. PICK run \in BOOLEAN : Risk(run)
  BY <1>1, PostingFields DEF RestoreDraft
<1>7. DraftsOK'
  BY <1>1, <1>6 DEF Risk, JobPagesTypeOK, DraftsOK
<1> QED
  BY <1>1, <1>4, <1>5, <1>6, <1>7, FormTypes DEF Reforms, GoodCalls

LEMMA DiscardEffect ==
    ASSUME JobPagesTypeOK, NEW t \in Tabs, DiscardDraft(t)
    PROVE  /\ \E p : Reforms(t, p)
           /\ ClearDraft /\ UNCHANGED call /\ JobPagesTypeOK'
<1>1. Posting(t) /\ ClearDraft /\ UNCHANGED <<api, call>>
  BY DEF DiscardDraft, ClearDraft
<1>2. PICK p : p = [page[t] EXCEPT !.restoring = FALSE]
  OBVIOUS
<1>3. p \in Forms
  BY <1>1, <1>2, PostingFields DEF Forms
<1>4. Reforms(t, p)
  BY <1>1, <1>2, <1>3 DEF DiscardDraft, Reforms, Puts
<1>5. DraftsOK'
  BY <1>1 DEF ClearDraft, JobPagesTypeOK, DraftsOK
<1> QED
  BY <1>1, <1>3, <1>4, <1>5, FormTypes DEF Reforms, GoodCalls

-----------------------------------------------------------------------------
(* What each answer does. *)
LEMMA OwnCall ==
    ASSUME JobPagesTypeOK, NEW c \in Pending, call[c].here
    PROVE  /\ CallOK(call[c]) /\ c \in Calls /\ call[c].tab \in Tabs /\ call[c].tab # None
           /\ page[call[c].tab] # None /\ page[call[c].tab].at = call[c].from
           /\ (call[c].from # "post" => Viewing(call[c].tab))
           /\ (call[c].from = "post" => Posting(call[c].tab))
<1>1. CallOK(call[c]) /\ c \in Calls
  BY DEF JobPagesTypeOK, CallsOK, Pending
<1> QED
  BY <1>1 DEF CallOK, AllCalls, Viewing, Posting

LEMMA DeletedEffect ==
    ASSUME JobPagesTypeOK, NEW c \in Calls, Deleted(c)
    PROVE  /\ Ends(c) /\ UNCHANGED drafts /\ call[c].tab \in Tabs /\ c \in Own(call[c].tab)
           /\ call[c].kind = "delete" /\ call[c].stage = "done" /\ call[c].job \in JobIds
           /\ page[call[c].tab].at = "jobs"
           /\ \E s : /\ s = [page[call[c].tab].shown EXCEPT ![call[c].job] = None]
                     /\ Becomes(call[c].tab, s, page[call[c].tab].loading, None, FALSE, page[call[c].tab].clean)
           /\ JobPagesTypeOK'
<1>1. /\ c \in Pending /\ call[c].kind = "delete" /\ call[c].stage = "done" /\ call[c].from = "jobs"
      /\ call[c].here /\ UNCHANGED api /\ UNCHANGED drafts /\ Ends(c)
  BY DEF Deleted, Answered, Is, InPage, Over, Ends
<1>2. PICK t \in Tabs : t = call[c].tab
  BY <1>1, OwnCall
<1>3. Viewing(t) /\ page[t].at = "jobs" /\ CallOK(call[c])
  BY <1>1, <1>2, OwnCall
<1>4. call[c].job \in JobIds /\ call[c].job \in used
  BY <1>1, <1>3 DEF CallOK, Creations, JobPagesTypeOK, RowsOK
<1>5. PICK s : s = [page[t].shown EXCEPT ![call[c].job] = None]
  OBVIOUS
<1>6. /\ s \in Shows(page[t].at)
      /\ \A j \in JobIds : s[j] # None => j \in used /\ (page[t].at \in JobPageKinds => page[t].of \in {None, j})
  BY <1>3, <1>4, <1>5, ViewingFields DEF Shows
<1>7. page' = [page EXCEPT ![t] = [page[t] EXCEPT !.shown = s, !.busy = FALSE, !.confirm = None]]
  BY <1>2, <1>5 DEF Deleted
<1>8. [page[t] EXCEPT !.shown = s, !.busy = FALSE, !.confirm = None]
         = TheView(page[t].at, page[t].of, s, page[t].loading, None, FALSE, page[t].clean)
  <2>1. ViewOK(page[t])
    BY <1>3, ViewingFields
  <2> QED
    BY <2>1, DeletedView
<1>9. Becomes(t, s, page[t].loading, None, FALSE, page[t].clean)
  BY <1>1, <1>3, <1>7, <1>8 DEF Becomes, Puts
<1>10. JobPagesTypeOK'
  <2>1. PICK m \in Modals \cup {None}, b \in BOOLEAN : m = None /\ b = FALSE
    OBVIOUS
  <2>2. Becomes(t, s, page[t].loading, m, b, page[t].clean)
    BY <1>9, <2>1
  <2>3. page[t].loading \in BOOLEAN /\ page[t].clean \in SUBSET JobIds
    BY <1>3, ViewingFields
  <2>4. GoodCalls
    BY <1>1 DEF GoodCalls
  <2> QED
    BY <1>1, <1>6, <2>1, <2>2, <2>3, <2>4, BecomesTypes
<1> QED
  BY <1>1, <1>2, <1>3, <1>4, <1>5, <1>9, <1>10 DEF Own

(* A row or a status that is added or replaced, from an answer. *)
LEMMA LearntJobs ==
    ASSUME NEW known \in SUBSET JobIds, NEW j \in JobIds, NEW k
    PROVE  /\ Learnt(known, j, k) \in SUBSET JobIds
           /\ \A i \in Learnt(known, j, k) : IF i = j THEN k ELSE i \in known
BY DEF Learnt

LEMMA TakenView ==
    ASSUME NEW p, ViewOK(p), NEW j, NEW x, NEW k \in BOOLEAN
    PROVE  Taken(p, j, x, k)
             = TheView(p.at, p.of, [p.shown EXCEPT ![j] = x], p.loading, p.confirm, p.busy, Learnt(p.clean, j, k))
<1>1. \E at, of, v, l, c, y, n : p = TheView(at, of, v, l, c, y, n)
  BY ViewFields
<1>2. PICK at, of, v, l, c, y, n : p = TheView(at, of, v, l, c, y, n)
  BY <1>1
<1>3. /\ p.at = at /\ p.of = of /\ p.shown = v /\ p.loading = l /\ p.confirm = c /\ p.busy = y /\ p.clean = n
  BY <1>2 DEF TheView
<1>5. PICK s : s = [v EXCEPT ![j] = x]
  OBVIOUS
<1>6. PICK b : b = Learnt(n, j, k)
  OBVIOUS
<1>7. Taken(p, j, x, k) = [p EXCEPT !.shown = s, !.clean = b]
  BY <1>2, <1>3, <1>5, <1>6 DEF TheView, Taken
<1>8. [p EXCEPT !.shown = s, !.clean = b] = TheView(p.at, p.of, s, p.loading, p.confirm, p.busy, b)
  BY ShownView
<1> QED
  BY <1>3, <1>5, <1>6, <1>7, <1>8

LEMMA TakenTypes ==
    ASSUME JobPagesTypeOK, NEW t \in Tabs, NEW j \in used, page[t].at \in JobPageKinds => page[t].of \in {None, j}, Viewing(t),
           NEW x \in (IF page[t].at \in JobPageKinds THEN Rows ELSE ProposalStatuses),
           NEW k \in BOOLEAN, Puts(t, Taken(page[t], j, x, k)),
           UNCHANGED drafts, GoodCalls
    PROVE  /\ JobPagesTypeOK'
           /\ \E s : /\ s = [page[t].shown EXCEPT ![j] = x]
                     /\ Becomes(t, s, page[t].loading, page[t].confirm, page[t].busy, Learnt(page[t].clean, j, k))
<1>1. PICK s : s = [page[t].shown EXCEPT ![j] = x]
  OBVIOUS
<1>3. j \in JobIds
  BY DEF JobPagesTypeOK, RowsOK
<1>2. PICK n \in SUBSET JobIds : n = Learnt(page[t].clean, j, k)
  BY <1>3, ViewingFields, LearntJobs
<1>4. /\ s \in Shows(page[t].at)
      /\ \A i \in JobIds : s[i] # None => i \in used /\ (page[t].at \in JobPageKinds => page[t].of \in {None, i})
  BY <1>1, <1>3, ViewingFields DEF Shows
<1>5. ViewOK(page[t])
  BY ViewingFields
<1>6. Taken(page[t], j, x, k)
         = TheView(page[t].at, page[t].of, s, page[t].loading, page[t].confirm, page[t].busy, n)
  BY <1>1, <1>2, <1>5, TakenView
<1>7. Becomes(t, s, page[t].loading, page[t].confirm, page[t].busy, n)
  BY <1>6 DEF Becomes
<1>8. JobPagesTypeOK'
  <2>1. /\ page[t].loading \in BOOLEAN /\ page[t].busy \in BOOLEAN /\ page[t].confirm \in Modals \cup {None}
        /\ page[t].confirm # None => page[t].at \in JobPageKinds /\ page[t].confirm.job \in used
    BY ViewingFields
  <2> QED
    BY <1>4, <1>7, <2>1, BecomesTypes
<1> QED
  BY <1>1, <1>2, <1>7, <1>8

LEMMA DuplicatedEffect ==
    ASSUME JobPagesTypeOK, NEW c \in Calls, Duplicated(c)
    PROVE  /\ Ends(c) /\ UNCHANGED drafts /\ call[c].tab \in Tabs /\ c \in Own(call[c].tab)
           /\ call[c].kind = "duplicate" /\ call[c].stage = "done" /\ call[c].new \in JobIds
           /\ page[call[c].tab].at = "jobs" /\ call[c].row # None
           /\ \E s : /\ s = [page[call[c].tab].shown EXCEPT ![call[c].new] = call[c].row]
                     /\ Becomes(call[c].tab, s, page[call[c].tab].loading, page[call[c].tab].confirm,
                                page[call[c].tab].busy, Learnt(page[call[c].tab].clean, call[c].new, call[c].clean))
           /\ JobPagesTypeOK'
<1>1. /\ c \in Pending /\ call[c].kind = "duplicate" /\ call[c].stage = "done" /\ call[c].from = "jobs"
      /\ call[c].here /\ UNCHANGED api /\ UNCHANGED drafts /\ Ends(c)
  BY DEF Duplicated, Answered, Is, InPage, Over, Ends
<1>2. PICK t \in Tabs : t = call[c].tab
  BY <1>1, OwnCall
<1>3. Viewing(t) /\ page[t].at = "jobs" /\ CallOK(call[c])
  BY <1>1, <1>2, OwnCall
<1>4. /\ call[c].new \in used /\ call[c].new \in JobIds /\ call[c].row \in Rows /\ call[c].row # None
      /\ call[c].clean \in BOOLEAN
  BY <1>1, <1>3 DEF CallOK, AllCalls, JobPagesTypeOK, RowsOK
<1>5. page[t].of = None /\ page[t].at \in JobPageKinds
  BY <1>3, ViewingFields DEF ViewOK, JobPageKinds
<1>6. Puts(t, Taken(page[t], call[c].new, call[c].row, call[c].clean))
  BY <1>1, <1>2 DEF Duplicated, Puts
<1>7. GoodCalls
  BY <1>1 DEF GoodCalls
<1>8. /\ JobPagesTypeOK'
      /\ \E s : /\ s = [page[t].shown EXCEPT ![call[c].new] = call[c].row]
                /\ Becomes(t, s, page[t].loading, page[t].confirm, page[t].busy, Learnt(page[t].clean, call[c].new, call[c].clean))
  <2>1. PICK j \in used, x \in Rows, k \in BOOLEAN : j = call[c].new /\ x = call[c].row /\ k = call[c].clean
    BY <1>4
  <2>2. Puts(t, Taken(page[t], j, x, k))
    BY <1>6, <2>1
  <2>3. /\ JobPagesTypeOK'
        /\ \E s : /\ s = [page[t].shown EXCEPT ![j] = x]
                  /\ Becomes(t, s, page[t].loading, page[t].confirm, page[t].busy, Learnt(page[t].clean, j, k))
    BY <1>1, <1>3, <1>5, <1>7, <2>2, TakenTypes
  <2> QED
    BY <2>1, <2>3
<1> QED
  BY <1>1, <1>2, <1>3, <1>4, <1>8 DEF Own

LEMMA DecidedEffect ==
    ASSUME JobPagesTypeOK, NEW c \in Calls, Decided(c)
    PROVE  /\ Ends(c) /\ UNCHANGED drafts /\ call[c].tab \in Tabs /\ c \in Own(call[c].tab)
           /\ call[c].kind \in ProposalStatuses /\ call[c].stage = "done" /\ call[c].job \in JobIds
           /\ page[call[c].tab].at \notin JobPageKinds
           /\ \E s : /\ s = [page[call[c].tab].shown EXCEPT ![call[c].job] = call[c].kind]
                     /\ Becomes(call[c].tab, s, page[call[c].tab].loading, page[call[c].tab].confirm,
                                page[call[c].tab].busy, Learnt(page[call[c].tab].clean, call[c].job, call[c].clean))
           /\ JobPagesTypeOK'
<1>1. /\ c \in Pending /\ call[c].kind \in ProposalStatuses /\ call[c].stage = "done"
      /\ call[c].here /\ UNCHANGED api /\ UNCHANGED drafts /\ Ends(c)
  BY DEF Decided, Answered, Is, InPage, Over, Ends
<1>2. PICK t \in Tabs : t = call[c].tab
  BY <1>1, OwnCall
<1>3. CallOK(call[c]) /\ page[t].at = call[c].from
  BY <1>1, <1>2, OwnCall
<1>4. call[c].kind \in CallKinds /\ call[c].clean \in BOOLEAN
  BY <1>3 DEF CallOK, AllCalls
<1>5. call[c].from \in {"review", "applications"} /\ call[c].kind \notin Creations
  BY <1>1, <1>3, <1>4 DEF CallOK, Asked, ProposalStatuses, CallKinds, JobCalls, Creations, Verdicts
<1>6. Viewing(t) /\ page[t].at \notin JobPageKinds
  BY <1>1, <1>2, <1>3, <1>5, OwnCall DEF JobPageKinds
<1>7. call[c].job \in used /\ call[c].job \in JobIds
  BY <1>3, <1>5 DEF CallOK, JobPagesTypeOK, RowsOK
<1>8. Puts(t, Taken(page[t], call[c].job, call[c].kind, call[c].clean))
  BY <1>1, <1>2 DEF Decided, Puts
<1>9. GoodCalls
  BY <1>1 DEF GoodCalls
<1>10. /\ JobPagesTypeOK'
       /\ \E s : /\ s = [page[t].shown EXCEPT ![call[c].job] = call[c].kind]
                 /\ Becomes(t, s, page[t].loading, page[t].confirm, page[t].busy, Learnt(page[t].clean, call[c].job, call[c].clean))
  <2>1. PICK j \in used, x \in ProposalStatuses, k \in BOOLEAN :
            j = call[c].job /\ x = call[c].kind /\ k = call[c].clean
    BY <1>1, <1>4, <1>7
  <2>2. Puts(t, Taken(page[t], j, x, k))
    BY <1>8, <2>1
  <2>3. /\ JobPagesTypeOK'
        /\ \E s : /\ s = [page[t].shown EXCEPT ![j] = x]
                  /\ Becomes(t, s, page[t].loading, page[t].confirm, page[t].busy, Learnt(page[t].clean, j, k))
    BY <1>1, <1>6, <1>9, <2>2, TakenTypes
  <2> QED
    BY <2>1, <2>3
<1> QED
  BY <1>1, <1>2, <1>6, <1>7, <1>10 DEF Own

LEMMA PausedEffect ==
    ASSUME JobPagesTypeOK, NEW c \in Calls, PausedOrResumed(c)
    PROVE  /\ Ends(c) /\ UNCHANGED drafts /\ call[c].tab \in Tabs /\ c \in Own(call[c].tab)
           /\ call[c].kind \in {"pause", "resume"} /\ call[c].stage = "done"
           /\ page[call[c].tab].at \in JobPageKinds
           /\ Becomes(call[c].tab, page[call[c].tab].shown, TRUE, page[call[c].tab].confirm,
                      page[call[c].tab].busy, page[call[c].tab].clean)
           /\ JobPagesTypeOK'
<1>1. /\ c \in Pending /\ call[c].kind \in {"pause", "resume"} /\ call[c].stage = "done"
      /\ call[c].here /\ UNCHANGED api /\ UNCHANGED drafts /\ Ends(c)
  BY DEF PausedOrResumed, Answered, Is, InPage, Over, Ends
<1>2. PICK t \in Tabs : t = call[c].tab
  BY <1>1, OwnCall
<1>3. CallOK(call[c]) /\ page[t].at = call[c].from
  BY <1>1, <1>2, OwnCall
<1>4. call[c].from \in JobPageKinds
  BY <1>1, <1>3 DEF CallOK, Asked, JobCalls
<1>5. Viewing(t) /\ page[t].at \in JobPageKinds
  BY <1>1, <1>2, <1>3, <1>4, OwnCall DEF JobPageKinds
<1>6. PICK l \in BOOLEAN : l = TRUE
  OBVIOUS
<1>7. page' = [page EXCEPT ![t] = [page[t] EXCEPT !.loading = l]]
  BY <1>2, <1>6 DEF PausedOrResumed
<1>8. [page[t] EXCEPT !.loading = l]
         = TheView(page[t].at, page[t].of, page[t].shown, l, page[t].confirm, page[t].busy, page[t].clean)
  <2>1. ViewOK(page[t])
    BY <1>5, ViewingFields
  <2> QED
    BY <2>1, LoadingView
<1>9. Becomes(t, page[t].shown, l, page[t].confirm, page[t].busy, page[t].clean)
  BY <1>1, <1>5, <1>7, <1>8 DEF Becomes, Puts
<1>10. JobPagesTypeOK'
  <2>1. GoodCalls
    BY <1>1 DEF GoodCalls
  <2>2. page[t].busy \in BOOLEAN /\ page[t].clean \in SUBSET JobIds
    BY <1>5, ViewingFields
  <2> QED
    BY <1>1, <1>9, <2>1, <2>2, SameShownTypes
<1> QED
  BY <1>1, <1>2, <1>5, <1>6, <1>9, <1>10 DEF Own

(* What an answer that fails leaves of a page. *)
LEMMA SettledForm ==
    ASSUME NEW p \in Forms, NEW kind \in Creations \cup {"publish"}
    PROVE  /\ Settled(p, kind) \in Forms
           /\ Settled(p, kind).text = p.text /\ Settled(p, kind).restoring = p.restoring
<1>1. CASE kind = "save"
  BY <1>1 DEF Settled, Forms
<1>2. CASE kind \in {"create", "publish"}
  BY <1>2 DEF Settled, Forms
<1> QED
  BY <1>1, <1>2 DEF Creations

LEMMA SettledView ==
    ASSUME NEW p, ViewOK(p), NEW kind \in CallKinds \ (Creations \cup {"publish"})
    PROVE  \E m \in {p.confirm, None}, b \in BOOLEAN :
              /\ Settled(p, kind) = TheView(p.at, p.of, p.shown, p.loading, m, b, p.clean)
              /\ ViewOK(Settled(p, kind))
              /\ kind = "delete" => m = None
              /\ kind # "delete" => m = p.confirm
              /\ b = IF kind \in {"delete", "pause", "resume"} THEN FALSE ELSE p.busy
<1>1. /\ p.busy \in BOOLEAN /\ p.clean \in SUBSET JobIds /\ p.loading \in BOOLEAN
      /\ p.confirm \in Modals \cup {None}
      /\ p = TheView(p.at, p.of, p.shown, p.loading, p.confirm, p.busy, p.clean)
  BY ViewFields
<1>2. kind # "save" /\ kind \notin {"create", "publish"}
  BY DEF Creations
<1>3. PICK b \in BOOLEAN : b = IF kind \in {"delete", "pause", "resume"} THEN FALSE ELSE p.busy
  BY <1>1
<1>4. PICK m \in {p.confirm, None} : (kind = "delete" => m = None) /\ (kind # "delete" => m = p.confirm)
  OBVIOUS
<1>5. Settled(p, kind) = TheView(p.at, p.of, p.shown, p.loading, m, b, p.clean)
  <2>1. CASE kind = "delete"
    <3>1. Settled(p, kind) = [p EXCEPT !.busy = b, !.confirm = m]
      BY <1>2, <1>3, <1>4, <2>1 DEF Settled
    <3> QED
      BY <3>1, SettledModal
  <2>2. CASE kind \in {"pause", "resume"}
    <3>1. Settled(p, kind) = [p EXCEPT !.busy = b] /\ m = p.confirm
      BY <1>2, <1>3, <1>4, <2>2 DEF Settled
    <3> QED
      BY <3>1, BusyView
  <2>3. CASE kind \notin {"delete", "pause", "resume"}
    <3>1. Settled(p, kind) = p /\ m = p.confirm /\ b = p.busy
      BY <1>2, <1>3, <1>4, <2>3 DEF Settled
    <3> QED
      BY <1>1, <3>1
  <2> QED
    BY <2>1, <2>2, <2>3
<1>6. ViewOK(TheView(p.at, p.of, p.shown, p.loading, m, b, p.clean))
  BY <1>1, <1>4 DEF ViewOK, TheView, JobViews, ProposalViews, Views
<1> QED
  BY <1>3, <1>4, <1>5, <1>6

(* Nothing becomes of the page, or the form is as it was but for its buttons. *)
FormSettles(c) ==
    \/ ~call[c].here /\ UNCHANGED page
    \/ call[c].here /\ \E p : Reforms(call[c].tab, p) /\ SameText(call[c].tab, p)

LEMMA FormKinds ==
    ASSUME JobPagesTypeOK, NEW c \in Pending
    PROVE  /\ c \in Calls /\ CallOK(call[c]) /\ call[c].kind \in CallKinds
           /\ call[c].kind \in Creations \cup {"publish"} <=> call[c].from = "post"
<1>1. c \in Calls /\ CallOK(call[c]) /\ call[c].kind \in CallKinds
  BY DEF JobPagesTypeOK, CallsOK, Pending, CallOK, AllCalls
<1> QED
  BY <1>1 DEF CallOK, Asked, CallKinds, JobCalls, JobPageKinds

LEMMA SettleForm ==
    ASSUME JobPagesTypeOK, NEW c \in Pending, call[c].kind \in Creations \cup {"publish"},
           Settle(c), UNCHANGED api
    PROVE  FormSettles(c)
<1>1. CASE ~call[c].here
  BY <1>1 DEF Settle, FormSettles
<1>2. CASE call[c].here
  <2>1. PICK t \in Tabs : t = call[c].tab
    BY <1>2, OwnCall
  <2>2. Posting(t) /\ page[t] \in Forms
    BY <1>2, <2>1, OwnCall, FormKinds, PostingFields
  <2>3. PICK p \in Forms : p = Settled(page[t], call[c].kind) /\ p.text = page[t].text /\ p.restoring = page[t].restoring
    BY <2>2, SettledForm
  <2>4. Reforms(t, p) /\ SameText(t, p)
    BY <1>2, <2>1, <2>2, <2>3 DEF Settle, Reforms, Puts, SameText
  <2> QED
    BY <1>2, <2>1, <2>4 DEF FormSettles
<1> QED
  BY <1>1, <1>2

LEMMA SettleFormTypes ==
    ASSUME JobPagesTypeOK, NEW c \in Pending, FormSettles(c), Ends(c), DraftsOK', UNCHANGED api
    PROVE  JobPagesTypeOK'
<1>1. c \in Calls /\ GoodCalls /\ CallsOK
  BY FormKinds DEF GoodCalls, JobPagesTypeOK
<1>2. CASE UNCHANGED page
  BY <1>1, <1>2, GoodCallsType, CallsTypes
<1>3. CASE call[c].here /\ \E p : Reforms(call[c].tab, p)
  <2>1. PICK t \in Tabs : t = call[c].tab
    BY <1>3, OwnCall
  <2>2. PICK p : Reforms(t, p)
    BY <1>3, <2>1
  <2> QED
    BY <1>1, <2>2, FormTypes DEF Reforms
<1> QED
  BY <1>2, <1>3 DEF FormSettles

LEMMA SavedEffect ==
    ASSUME JobPagesTypeOK, NEW c \in Calls, Saved(c)
    PROVE  /\ Ends(c) /\ UNCHANGED api /\ ClearDraft /\ FormSettles(c) /\ call[c].kind \in Creations \cup {"publish"}
           /\ JobPagesTypeOK'
<1>1. c \in Pending /\ call[c].kind \in Creations \cup {"publish"} /\ Settle(c) /\ Ends(c) /\ UNCHANGED api /\ ClearDraft
  BY DEF Saved, Answered, Is, Over, Ends, Creations
<1>2. FormSettles(c)
  BY <1>1, SettleForm
<1>3. DraftsOK'
  BY <1>1 DEF ClearDraft, JobPagesTypeOK, DraftsOK
<1> QED
  BY <1>1, <1>2, <1>3, SettleFormTypes

LEMMA CreatedEffect ==
    ASSUME JobPagesTypeOK, NEW c \in Calls, Created(c)
    PROVE  /\ call[c].kind = "create" /\ c \in Pending /\ UNCHANGED <<api, page, drafts>>
           /\ call'[c] # None /\ call'[c].kind = "publish" /\ call'[c].here = call[c].here
           /\ call'[c].tab = call[c].tab /\ call'[c].from = call[c].from
           /\ \A q \in Calls : q # c => call'[q] = call[q]
           /\ JobPagesTypeOK'
<1> CallsOK
  BY DEF JobPagesTypeOK
<1>1. c \in Pending /\ call[c].kind = "create" /\ call[c].stage = "done" /\ UNCHANGED <<api, page, drafts>>
  BY DEF Created, Answered, Is
<1>2. CallOK(call[c])
  BY <1>1, FormKinds
<1>3. PICK r : r = [call[c] EXCEPT !.kind = "publish", !.job = call[c].new, !.stage = "sent"]
  OBVIOUS
<1>4. call[c].new \in used /\ call[c].new \in JobIds
  BY <1>1, <1>2 DEF CallOK, Creations, JobPagesTypeOK, RowsOK
<1>5. /\ r \in AllCalls /\ r.kind = "publish" /\ r.job = call[c].new /\ r.stage = "sent" /\ r.tab = call[c].tab
      /\ r.here = call[c].here /\ r.from = call[c].from /\ r.new = call[c].new
  BY <1>2, <1>3, <1>4 DEF CallOK, AllCalls, CallKinds
<1>6. Asked("publish", r.from) /\ "publish" \notin Creations \cup {"delete", "duplicate"}
  BY <1>1, <1>2, <1>5 DEF CallOK, Asked, Creations, JobCalls, Verdicts
<1>7. CallOK(r)
  BY <1>2, <1>4, <1>5, <1>6 DEF CallOK
<1>8. call' = [call EXCEPT ![c] = r]
  BY <1>3 DEF Created
<1>9. DOMAIN call' = Calls /\ call'[c] = r /\ \A q \in Calls : q # c => call'[q] = call[q]
  BY <1>8 DEF CallsOK
<1>10. DraftsOK'
  BY <1>1 DEF JobPagesTypeOK, DraftsOK, drafts
<1>11. JobPagesTypeOK'
  BY <1>1, <1>7, <1>9, <1>10, CallsTypes
<1> QED
  BY <1>1, <1>5, <1>7, <1>9, <1>11, CallNotNone DEF CallOK

(* A view whose call fails: the page that asked may ask again. *)
ViewSettles(c, k) ==
    \E m \in {page[call[c].tab].confirm, None}, b \in BOOLEAN :
        /\ Becomes(call[c].tab, page[call[c].tab].shown, page[call[c].tab].loading, m, b, k)
        /\ call[c].kind = "delete" => m = None
        /\ call[c].kind # "delete" => m = page[call[c].tab].confirm
        /\ b = IF call[c].kind \in {"delete", "pause", "resume"} THEN FALSE ELSE page[call[c].tab].busy

LEMMA SettleView ==
    ASSUME JobPagesTypeOK, NEW c \in Pending, call[c].here,
           call[c].kind \notin Creations \cup {"publish"},
           NEW t \in Tabs, t = call[c].tab, NEW k \in SUBSET JobIds,
           \/ k = page[t].clean /\ Puts(t, Settled(page[t], call[c].kind))
           \/ Puts(t, [Settled(page[t], call[c].kind) EXCEPT !.clean = k]),
           Ends(c), UNCHANGED drafts
    PROVE  ViewSettles(c, k) /\ c \in Own(t) /\ Viewing(t) /\ JobPagesTypeOK'
<1>1. c \in Calls /\ call[c].kind \in CallKinds /\ call[c].from # "post"
  BY FormKinds
<1>2. Viewing(t) /\ ViewOK(page[t]) /\ page[t].loading \in BOOLEAN
  BY <1>1, OwnCall, ViewingFields
<1>3. PICK q : q = Settled(page[t], call[c].kind)
  OBVIOUS
<1>4. PICK m \in {page[t].confirm, None}, b \in BOOLEAN :
          /\ q = TheView(page[t].at, page[t].of, page[t].shown, page[t].loading, m, b, page[t].clean)
          /\ ViewOK(q)
          /\ call[c].kind = "delete" => m = None
          /\ call[c].kind # "delete" => m = page[t].confirm
          /\ b = IF call[c].kind \in {"delete", "pause", "resume"} THEN FALSE ELSE page[t].busy
  <2>1. PICK p : p = page[t]
    OBVIOUS
  <2>4. PICK kind \in CallKinds \ (Creations \cup {"publish"}) : kind = call[c].kind
    BY <1>1
  <2>2. ViewOK(p)
    BY <1>2, <2>1
  <2>3. \E m \in {p.confirm, None}, b \in BOOLEAN :
              /\ Settled(p, kind) = TheView(p.at, p.of, p.shown, p.loading, m, b, p.clean)
              /\ ViewOK(Settled(p, kind))
              /\ kind = "delete" => m = None
              /\ kind # "delete" => m = p.confirm
              /\ b = IF kind \in {"delete", "pause", "resume"} THEN FALSE ELSE p.busy
    BY <2>2, SettledView
  <2> QED
    BY <1>3, <2>1, <2>3, <2>4
<1>5. /\ q.at = page[t].at /\ q.of = page[t].of /\ q.shown = page[t].shown /\ q.loading = page[t].loading
      /\ q.confirm = m /\ q.busy = b
  BY <1>4 DEF TheView
<1>6. Becomes(t, page[t].shown, page[t].loading, m, b, k)
  <2>1. CASE k = page[t].clean /\ Puts(t, q)
    BY <1>2, <1>4, <2>1 DEF Becomes
  <2>2. CASE Puts(t, [q EXCEPT !.clean = k])
    <3>1. [q EXCEPT !.clean = k] = TheView(q.at, q.of, q.shown, q.loading, q.confirm, q.busy, k)
      <4>1. ViewOK(q)
        BY <1>4
      <4> QED
        BY <4>1, CleanView
    <3>2. [q EXCEPT !.clean = k] = TheView(page[t].at, page[t].of, page[t].shown, page[t].loading, m, b, k)
      BY <1>5, <3>1
    <3> QED
      BY <1>2, <2>2, <3>2 DEF Becomes
  <2> QED
    BY <1>3, <2>1, <2>2
<1>7. GoodCalls
  BY <1>1 DEF GoodCalls
<1>8. JobPagesTypeOK'
  BY <1>2, <1>6, <1>7, SameShownTypes
<1>9. ViewSettles(c, k)
  BY <1>4, <1>6 DEF ViewSettles
<1> QED
  BY <1>1, <1>2, <1>8, <1>9 DEF Own

LEMMA SettledClean ==
    ASSUME JobPagesTypeOK, NEW c \in Pending, call[c].kind \notin Creations \cup {"publish"},
           NEW t \in Tabs, Viewing(t)
    PROVE  Settled(page[t], call[c].kind).clean = page[t].clean
<1>1. PICK p : p = page[t]
  OBVIOUS
<1>2. PICK kind \in CallKinds \ (Creations \cup {"publish"}) : kind = call[c].kind
  BY FormKinds
<1>3. ViewOK(p)
  BY <1>1, ViewingFields
<1>4. \E m \in {p.confirm, None}, b \in BOOLEAN :
          Settled(p, kind) = TheView(p.at, p.of, p.shown, p.loading, m, b, p.clean)
  BY <1>3, SettledView
<1>5. Settled(p, kind).clean = p.clean
  BY <1>4 DEF TheView
<1> QED
  BY <1>1, <1>2, <1>5

(* An answer that is lost, or refuses what was asked. *)
LEMMA FailsEffect ==
    ASSUME JobPagesTypeOK, NEW c \in Calls, Refused(c) \/ Lost(c)
    PROVE  /\ c \in Pending /\ Ends(c) /\ UNCHANGED <<api, drafts>>
           /\ JobPagesTypeOK'
           /\ \/ ~call[c].here /\ UNCHANGED page
              \/ /\ call[c].here /\ call[c].kind \in Creations \cup {"publish"} /\ FormSettles(c)
              \/ /\ call[c].here /\ call[c].kind \notin Creations \cup {"publish"} /\ Viewing(call[c].tab)
                 /\ \/ ViewSettles(c, page[call[c].tab].clean) /\ call[c].stage = "refused"
                    \/ ViewSettles(c, page[call[c].tab].clean \ {call[c].job})
<1>1. /\ c \in Pending /\ Ends(c) /\ UNCHANGED api /\ UNCHANGED drafts
      /\ Refused(c) => call[c].stage = "refused" /\ call[c].here
  BY DEF Refused, Lost, InPage, Is, Over, Ends
<1>2. DraftsOK'
  BY <1>1 DEF JobPagesTypeOK, DraftsOK, drafts
<1>3. CASE ~call[c].here
  <2>1. UNCHANGED page
    BY <1>1, <1>3 DEF Lost
  <2>2. FormSettles(c)
    BY <1>3, <2>1 DEF FormSettles
  <2>3. JobPagesTypeOK'
    BY <1>1, <1>2, <2>2, SettleFormTypes
  <2> QED
    BY <1>1, <1>3, <2>1, <2>3
<1>4. CASE call[c].here /\ call[c].kind \in Creations \cup {"publish"}
  <2>1. page[call[c].tab].at = "post"
    BY <1>1, <1>4, OwnCall, FormKinds
  <2>2. Settle(c)
    BY <1>4, <2>1 DEF Refused, Lost, Settle
  <2>3. FormSettles(c)
    BY <1>1, <1>4, <2>2, SettleForm
  <2>4. JobPagesTypeOK'
    BY <1>1, <1>2, <2>3, SettleFormTypes
  <2> QED
    BY <1>1, <1>4, <2>3, <2>4
<1>5. CASE call[c].here /\ call[c].kind \notin Creations \cup {"publish"}
  <2>1. PICK t \in Tabs : t = call[c].tab
    BY <1>1, <1>5, OwnCall
  <2>2. page[t].at # "post" /\ Viewing(t)
    BY <1>1, <1>5, <2>1, OwnCall, FormKinds
  <2>3. page[t].clean \in SUBSET JobIds
    BY <2>2, ViewingFields
  <2>4. CASE Refused(c)
    <3>1. Puts(t, Settled(page[t], call[c].kind))
      BY <1>1, <1>5, <2>1, <2>4 DEF Refused, Settle, Puts
    <3>2. PICK k \in SUBSET JobIds : k = page[t].clean
      BY <2>3
    <3>3. ViewSettles(c, k) /\ JobPagesTypeOK'
      BY <1>1, <1>5, <2>1, <3>1, <3>2, SettleView
    <3> QED
      BY <1>1, <1>5, <2>1, <2>2, <2>4, <3>2, <3>3
  <2>5. CASE Lost(c)
    <3>1. PICK q : q = Settled(page[t], call[c].kind)
      OBVIOUS
    <3>5. q.clean = page[t].clean
      BY <1>1, <1>5, <2>2, <3>1, SettledClean
    <3>7. Puts(t, Missed(q, call[c].job))
      BY <1>1, <1>5, <2>1, <2>2, <2>5, <3>1 DEF Lost, Puts
    <3>6. Puts(t, [q EXCEPT !.clean = q.clean \ {call[c].job}])
      BY <3>7 DEF Missed
    <3>2. PICK k \in SUBSET JobIds : k = page[t].clean \ {call[c].job}
      BY <2>3
    <3>3. Puts(t, [Settled(page[t], call[c].kind) EXCEPT !.clean = k])
      BY <3>1, <3>2, <3>5, <3>6
    <3>4. ViewSettles(c, k) /\ JobPagesTypeOK'
      BY <1>1, <1>5, <2>1, <3>3, SettleView
    <3> QED
      BY <1>1, <1>5, <2>1, <2>2, <3>2, <3>4
  <2> QED
    BY <2>4, <2>5
<1> QED
  BY <1>3, <1>4, <1>5

-----------------------------------------------------------------------------
(* The type invariant. *)
LEMMA JobPagesTypeInit == JobPagesInit => JobPagesTypeOK
<1> SUFFICES ASSUME JobPagesInit PROVE JobPagesTypeOK
  OBVIOUS
<1>1. Row("draft", FALSE) \in Rows /\ Row("active", FALSE) \in Rows
  BY RowFields DEF Statuses
<1>2. RowsOK
  <2>1. visits \subseteq Kinds /\ used = Stored /\ used \subseteq JobIds
    BY JobPagesAssumption DEF JobPagesInit
  <2>2. job \in [JobIds -> Rows \cup {None}]
    BY <1>1 DEF JobPagesInit
  <2>3. \A j \in JobIds : job[j] = None <=> j \notin Stored
    BY DEF JobPagesInit
  <2> QED
    BY <2>1, <2>2, <2>3 DEF JobPagesInit, RowsOK, Exists
<1>3. PagesOK /\ CallsOK /\ DraftsOK
  BY DEF JobPagesInit, PagesOK, CallsOK, DraftsOK, Viewing, Posting, Pending
<1> QED
  BY <1>2, <1>3 DEF JobPagesTypeOK

LEMMA PressTypes ==
    ASSUME JobPagesTypeOK, NEW t \in Tabs, Press(t) \/ PressForm(t) \/ Crash(t) \/ Fetch(t) \/ FetchFails(t)
    PROVE  JobPagesTypeOK'
<1>1. CASE Follow(t)
  BY <1>1, FollowEffect, ReplacesTypes
<1>2. CASE Unload(t) \/ Crash(t)
  BY <1>2, UnloadEffect, ReplacesTypes
<1>3. CASE CloseModal(t) \/ \E j \in JobIds : AskToDelete(t, j)
  BY <1>3, CloseEffect, AskEffect
<1>4. CASE \E c \in Calls : Confirm(t, c)
  BY <1>4, ConfirmEffect
<1>5. ASSUME NEW j \in JobIds, NEW c \in Calls,
             PauseOrResume(t, j, c) \/ Duplicate(t, j, c) \/ \E v \in ProposalStatuses : Decide(t, j, c, v)
      PROVE  JobPagesTypeOK'
  BY <1>5, PauseOrResumeEffect, DuplicateEffect, DecideEffect
<1>6. CASE Write(t) \/ Autosave(t) \/ RestoreDraft(t) \/ DiscardDraft(t)
  BY <1>6, WriteEffect, AutosaveEffect, RestoreEffect, DiscardEffect
<1>7. ASSUME NEW c \in Calls, SaveDraft(t, c) \/ Publish(t, c)
      PROVE  JobPagesTypeOK'
  BY <1>7, SendFormEffect
<1>8. CASE Fetch(t) \/ FetchFails(t)
  BY <1>8, FetchTypes, FetchFailsEffect
<1> QED
  BY <1>1, <1>2, <1>3, <1>4, <1>5, <1>6, <1>7, <1>8 DEF Press, PressForm

LEMMA AnswerTypes ==
    ASSUME JobPagesTypeOK, NEW c \in Calls, Answer(c)
    PROVE  JobPagesTypeOK'
<1>1. CASE GoOn(c)
  <2>1. PICK t \in Tabs : t = call[c].tab /\ Replaces(t)
    BY <1>1, GoOnEffect
  <2>2. DraftsOK'
    BY <1>1, GoOnEffect
  <2> QED
    BY <2>1, <2>2, ReplacesTypes
<1> QED
  BY <1>1, DeletedEffect, DuplicatedEffect, PausedEffect, DecidedEffect, SavedEffect, CreatedEffect,
     FailsEffect DEF Answer

LEMMA JobPagesTypeStep ==
    ASSUME JobPagesTypeOK, [JobPagesNext]_jobPagesVars
    PROVE  JobPagesTypeOK'
<1>1. CASE UNCHANGED jobPagesVars
  <2>1. UNCHANGED <<visits, used, job, proposal>> /\ UNCHANGED page /\ UNCHANGED call /\ UNCHANGED <<draft, owed, careless>>
    BY <1>1 DEF jobPagesVars, api, drafts
  <2>2. RowsOK' /\ PagesOK' /\ DraftsOK'
    BY <2>1 DEF JobPagesTypeOK, RowsOK, PagesOK, DraftsOK, Exists, Viewing, Posting, ViewOK
  <2>3. CallsOK'
    BY <2>1 DEF JobPagesTypeOK, CallsOK, CallOK, Pending
  <2> QED
    BY <2>2, <2>3 DEF JobPagesTypeOK
<1>2. ASSUME NEW c \in Calls, Api(c) \/ Answer(c) PROVE JobPagesTypeOK'
  BY <1>2, ApiServes, ServedTypes, AnswerTypes
<1>3. CASE Others
  BY <1>3, OthersTypes
<1>4. ASSUME NEW t \in Tabs, Press(t) \/ PressForm(t) \/ Crash(t) \/ Fetch(t) \/ FetchFails(t)
      PROVE  JobPagesTypeOK'
  BY <1>4, PressTypes
<1> QED
  BY <1>1, <1>2, <1>3, <1>4 DEF JobPagesNext

(* In every run of the pages about jobs, a list of jobs shows rows, a list of
   proposals statuses, and whoever waits for an answer is a tab that shows the
   page which asked. *)
THEOREM JobPagesTypeCorrect == JobPagesSpec => []JobPagesTypeOK
<1>1. JobPagesTypeOK /\ [JobPagesNext]_jobPagesVars => JobPagesTypeOK'
  BY JobPagesTypeStep
<1> QED
  BY <1>1, JobPagesTypeInit, PTL DEF JobPagesSpec

-----------------------------------------------------------------------------
(* The draft.  While it is not used carelessly there is one form, and as long *)
(* as a draft is owed the form has another text to store, or asks first.       *)
OneForm == \A t, q \in Tabs : Posting(t) /\ Posting(q) => t = q
NotBlank == \A t \in Tabs : Posting(t) => page[t].restoring \/ page[t].text # Blank
SavedDraft == ~careless => OneForm /\ (owed # None => draft = owed /\ NotBlank)

(* Forms neither appear nor change. *)
FormsStay ==
    \A t \in Tabs : Posting(t)' => Posting(t) /\ page'[t].text = page[t].text /\ page'[t].restoring = page[t].restoring

LEMMA QuietDraft ==
    ASSUME SavedDraft, FormsStay, UNCHANGED drafts
    PROVE  SavedDraft'
<1>1. draft' = draft /\ owed' = owed /\ careless' = careless
  BY DEF drafts
<1>2. OneForm => OneForm'
  BY DEF OneForm, FormsStay
<1>3. NotBlank => NotBlank'
  BY DEF NotBlank, FormsStay
<1> QED
  BY <1>1, <1>2, <1>3 DEF SavedDraft

LEMMA BecomesForms ==
    ASSUME JobPagesTypeOK, NEW t \in Tabs, NEW s, NEW l, NEW m, NEW b, NEW k, Becomes(t, s, l, m, b, k)
    PROVE  FormsStay
<1>1. PagesOK /\ page[t].at # "post"
  BY DEF JobPagesTypeOK, Becomes, Viewing
<1>2. page'[t].at = page[t].at /\ \A q \in Tabs : q # t => page'[q] = page[q]
  BY <1>1, BecomesFields
<1> QED
  BY <1>1, <1>2 DEF FormsStay, Posting

LEMMA SamePagesForms == ASSUME UNCHANGED page PROVE FormsStay
BY DEF FormsStay, Posting

(* At most the form in t changes. *)
LEMMA ReformsForms ==
    ASSUME JobPagesTypeOK, NEW t \in Tabs, NEW p, Reforms(t, p)
    PROVE  /\ Posting(t) /\ Posting(t)' /\ page'[t] = p
           /\ \A q \in Tabs : q # t => page'[q] = page[q] /\ (Posting(q)' <=> Posting(q))
           /\ OneForm => OneForm'
           /\ OneForm => \A q \in Tabs : Posting(q)' => q = t
           /\ SameText(t, p) => FormsStay
<1>1. PagesOK /\ Posting(t) /\ p.at = "post" /\ p # None
  BY JobPagesAssumption DEF JobPagesTypeOK, Reforms, Forms
<1>2. page'[t] = p /\ \A q \in Tabs : q # t => page'[q] = page[q]
  BY <1>1, PutsPages DEF Reforms
<1> QED
  BY <1>1, <1>2 DEF Posting, OneForm, SameText, FormsStay

LEMMA StayForms ==
    ASSUME NEW me, PagesStay(me)
    PROVE  FormsStay
BY DEF PagesStay, FormsStay, Posting

LEMMA ApiDraft ==
    ASSUME JobPagesTypeOK, SavedDraft, Others \/ \E c \in Calls : Api(c)
    PROVE  SavedDraft'
<1> RowsOK /\ PagesOK
  BY DEF JobPagesTypeOK
<1>1. CASE Others
  BY <1>1, OthersEffect, StayForms, QuietDraft DEF OthersAct, Elsewhere, drafts
<1>2. ASSUME NEW c \in Calls, Api(c) PROVE SavedDraft'
  <2>1. PICK ok \in BOOLEAN, new \in JobIds \cup {None} : Reply(c, ok, new) /\ ServedAs(c, ok, new)
    BY <1>2, ApiServes DEF Served
  <2>2. used \subseteq used' /\ Spoil(Owner(c)) /\ UNCHANGED drafts
    BY <2>1 DEF ServedAs, Reply
  <2>3. PagesStay(Owner(c))
    BY <2>2, SpoiledPages
  <2> QED
    BY <2>2, <2>3, StayForms, QuietDraft
<1> QED
  BY <1>1, <1>2

(* A page that is left. *)
LEMMA FollowDraft ==
    ASSUME JobPagesTypeOK, SavedDraft, NEW t \in Tabs, Follow(t)
    PROVE  SavedDraft'
<1> PagesOK /\ DraftsOK /\ RowsOK
  BY DEF JobPagesTypeOK
<1>1. PICK at \in visits : \E j \in Targets(at) : Navigate(t, at, j)
  BY DEF Follow
<1>2. PICK j \in Targets(at) : Navigate(t, at, j)
  BY <1>1
<1>3. PICK p : p = New(at, j)
  OBVIOUS
<1>4. /\ Puts(t, p) /\ draft' = draft /\ careless' = (careless \/ Crowded(t, at))
      /\ owed' = IF careless' THEN None ELSE owed
  BY <1>2, <1>3 DEF Navigate, Puts, Risk
<1>5. page'[t] = p /\ \A q \in Tabs : q # t => page'[q] = page[q]
  BY <1>4, PutsPages
<1>6. CASE at = "post"
  <2>1. p.restoring = (draft # None)
    BY <1>3, <1>6 DEF New, Form
  <2> SUFFICES ASSUME ~careless' PROVE OneForm' /\ (owed' # None => draft' = owed' /\ NotBlank')
    BY DEF SavedDraft
  <2>2. ~careless /\ ~Crowded(t, at) /\ owed' = owed
    BY <1>4
  <2>3. \A q \in Tabs : q # t => ~Posting(q)
    BY <1>6, <2>2 DEF Crowded
  <2>4. \A q \in Tabs : Posting(q)' => q = t
    BY <1>5, <2>3 DEF Posting
  <2>5. OneForm'
    BY <2>4 DEF OneForm
  <2>6. owed # None => draft = owed
    BY <2>2 DEF SavedDraft
  <2>7. owed # None => NotBlank'
    BY <1>5, <2>1, <2>4, <2>6 DEF NotBlank
  <2> QED
    BY <1>4, <2>2, <2>5, <2>6, <2>7
<1>7. CASE at # "post"
  <2>1. p.at = at
    BY <1>3, <1>7 DEF New, View
  <2>2. FormsStay
    BY <1>5, <1>7, <2>1 DEF FormsStay, Posting
  <2>3. OneForm => OneForm'
    BY <2>2 DEF OneForm, FormsStay
  <2>4. NotBlank => NotBlank'
    BY <2>2 DEF NotBlank, FormsStay
  <2> QED
    BY <1>4, <2>3, <2>4 DEF SavedDraft
<1> QED
  BY <1>6, <1>7

LEMMA StoreDraft ==
    ASSUME JobPagesTypeOK, SavedDraft, NEW t \in Tabs, Posting(t), Store(t), ~careless'
    PROVE  /\ OneForm /\ ~page[t].restoring
           /\ owed' # None => draft' = owed' /\ page[t].text # Blank
<1>1. /\ draft' = page[t].text
      /\ careless' = (careless \/ page[t].restoring)
      /\ owed' = IF careless' THEN None ELSE IF page[t].text = Blank THEN owed ELSE page[t].text
  BY DEF Store
<1>2. page[t].restoring \in BOOLEAN /\ careless \in BOOLEAN
  BY PostingFields DEF JobPagesTypeOK, DraftsOK
<1>3. ~careless /\ ~page[t].restoring
  BY <1>1, <1>2
<1>4. OneForm /\ (owed # None => page[t].restoring \/ page[t].text # Blank)
  BY <1>3 DEF SavedDraft, NotBlank
<1> QED
  BY <1>1, <1>3, <1>4

LEMMA UnloadDraft ==
    ASSUME JobPagesTypeOK, SavedDraft, NEW t \in Tabs, Unload(t) \/ Crash(t)
    PROVE  SavedDraft'
<1> PagesOK
  BY DEF JobPagesTypeOK
<1>1. Puts(t, None)
  BY DEF Unload, Crash, Puts
<1>2. page'[t] = None /\ \A q \in Tabs : q # t => page'[q] = page[q]
  BY <1>1, PutsPages
<1>3. FormsStay
  BY <1>2 DEF FormsStay, Posting
<1>4. CASE UNCHANGED drafts
  BY <1>3, <1>4, QuietDraft
<1>5. CASE Posting(t) /\ Store(t)
  <2> SUFFICES ASSUME ~careless' PROVE OneForm' /\ (owed' # None => draft' = owed' /\ NotBlank')
    BY DEF SavedDraft
  <2>1. OneForm /\ (owed' # None => draft' = owed')
    BY <1>5, StoreDraft
  <2>2. \A q \in Tabs : ~Posting(q)'
    BY <1>2, <1>5, <2>1 DEF OneForm, Posting
  <2> QED
    BY <2>1, <2>2 DEF OneForm, NotBlank
<1> QED
  BY <1>4, <1>5 DEF Unload, Crash

(* What is done in the form. *)
LEMMA FormDraft ==
    ASSUME JobPagesTypeOK, SavedDraft, NEW t \in Tabs, PressForm(t)
    PROVE  SavedDraft'
<1> DraftsOK
  BY DEF JobPagesTypeOK
<1>1. ASSUME NEW run \in BOOLEAN, NEW p, Risk(run), Reforms(t, p), draft' = draft,
             ~careless' /\ owed # None => p.restoring \/ p.text # Blank
      PROVE  SavedDraft'
  <2> SUFFICES ASSUME ~careless' PROVE OneForm' /\ (owed' # None => draft' = owed' /\ NotBlank')
    BY DEF SavedDraft
  <2>1. ~careless /\ owed' = owed
    BY <1>1 DEF Risk, DraftsOK
  <2>2. OneForm /\ (owed # None => draft = owed /\ NotBlank)
    BY <2>1 DEF SavedDraft
  <2>3. OneForm' /\ page'[t] = p /\ \A q \in Tabs : Posting(q)' => q = t
    BY <1>1, <2>2, ReformsForms
  <2>4. owed # None => NotBlank'
    BY <1>1, <2>3 DEF NotBlank
  <2> QED
    BY <1>1, <2>1, <2>2, <2>3, <2>4
<1>2. CASE Write(t)
  <2>1. PICK p : Reforms(t, p) /\ p.text \in Texts
    BY <1>2, WriteEffect
  <2>2. PICK run \in BOOLEAN : Risk(run)
    BY <1>2, WriteEffect
  <2>3. draft' = draft /\ p.text # Blank
    BY <1>2, <2>1, JobPagesAssumption DEF Write
  <2> QED
    BY <1>1, <2>1, <2>2, <2>3
<1>3. CASE RestoreDraft(t)
  <2>1. PICK p : Reforms(t, p) /\ p.text = draft
    BY <1>3, RestoreEffect
  <2>2. PICK run \in BOOLEAN : Risk(run)
    BY <1>3, RestoreEffect
  <2>3. draft' = draft
    BY <1>3 DEF RestoreDraft
  <2>4. ~careless' /\ owed # None => p.text # Blank
    <3>1. ~careless' => ~careless
      BY <2>2 DEF Risk, DraftsOK
    <3>2. ~careless /\ owed # None => draft = owed /\ owed \in Texts
      BY DEF SavedDraft, DraftsOK
    <3> QED
      BY <2>1, <3>1, <3>2, JobPagesAssumption
  <2> QED
    BY <1>1, <2>1, <2>2, <2>3, <2>4
<1>4. CASE Autosave(t)
  <2>1. Posting(t) /\ Store(t) /\ page' = page
    BY <1>4, AutosaveEffect
  <2> SUFFICES ASSUME ~careless' PROVE OneForm' /\ (owed' # None => draft' = owed' /\ NotBlank')
    BY DEF SavedDraft
  <2>2. OneForm /\ (owed' # None => draft' = owed' /\ page[t].text # Blank)
    BY <2>1, StoreDraft
  <2>3. OneForm' /\ (owed' # None => NotBlank')
    BY <2>1, <2>2 DEF OneForm, NotBlank, Posting
  <2> QED
    BY <2>2, <2>3
<1>5. CASE DiscardDraft(t)
  <2>1. PICK p : Reforms(t, p)
    BY <1>5, DiscardEffect
  <2>2. owed' = None /\ careless' = careless
    BY <1>5, DiscardEffect DEF ClearDraft
  <2>3. OneForm => OneForm'
    BY <2>1, ReformsForms
  <2> QED
    BY <2>2, <2>3 DEF SavedDraft
<1>6. ASSUME NEW c \in Calls, SaveDraft(t, c) \/ Publish(t, c)
      PROVE  SavedDraft'
  <2>1. PICK p : Reforms(t, p) /\ p.text = page[t].text /\ p.restoring = page[t].restoring
    BY <1>6, SendFormEffect
  <2>2. FormsStay
    BY <2>1, ReformsForms DEF SameText
  <2>3. UNCHANGED drafts
    BY <1>6, SendFormEffect
  <2> QED
    BY <2>2, <2>3, QuietDraft
<1> QED
  BY <1>2, <1>3, <1>4, <1>5, <1>6 DEF PressForm

LEMMA SettlesForms ==
    ASSUME JobPagesTypeOK, NEW c \in Pending, FormSettles(c)
    PROVE  FormsStay
<1>1. CASE UNCHANGED page
  BY <1>1, SamePagesForms
<1>2. CASE call[c].here /\ \E p : Reforms(call[c].tab, p) /\ SameText(call[c].tab, p)
  <2>1. PICK t \in Tabs : t = call[c].tab
    BY <1>2, OwnCall
  <2>2. PICK p : Reforms(t, p) /\ SameText(t, p)
    BY <1>2, <2>1
  <2> QED
    BY <2>2, ReformsForms
<1> QED
  BY <1>1, <1>2 DEF FormSettles

(* The steps of pages that leave the forms and the draft alone. *)
LEMMA ViewForms ==
    ASSUME JobPagesTypeOK, NEW t \in Tabs, Press(t) \/ Fetch(t) \/ FetchFails(t)
    PROVE  \/ Follow(t) \/ Unload(t)
           \/ FormsStay /\ UNCHANGED drafts
<1>1. ASSUME NEW c \in Calls, Confirm(t, c) PROVE FormsStay /\ UNCHANGED drafts
  <2>1. Becomes(t, page[t].shown, page[t].loading, page[t].confirm, TRUE, page[t].clean) /\ UNCHANGED drafts
    BY <1>1, ConfirmEffect
  <2> QED
    BY <2>1, BecomesForms
<1>2. ASSUME NEW j \in JobIds, NEW c \in Calls, PauseOrResume(t, j, c) PROVE FormsStay /\ UNCHANGED drafts
  <2>1. Becomes(t, page[t].shown, page[t].loading, page[t].confirm, TRUE, page[t].clean) /\ UNCHANGED drafts
    BY <1>2, PauseOrResumeEffect
  <2> QED
    BY <2>1, BecomesForms
<1>3. ASSUME NEW j \in JobIds, NEW c \in Calls,
             Duplicate(t, j, c) \/ \E v \in ProposalStatuses : Decide(t, j, c, v)
      PROVE  FormsStay /\ UNCHANGED drafts
  <2>1. UNCHANGED page /\ UNCHANGED drafts
    BY <1>3, DuplicateEffect, DecideEffect
  <2> QED
    BY <2>1, SamePagesForms
<1>4. ASSUME NEW j \in JobIds, AskToDelete(t, j) PROVE FormsStay /\ UNCHANGED drafts
  <2>1. PICK m \in Modals : Becomes(t, page[t].shown, page[t].loading, m, page[t].busy, page[t].clean)
    BY <1>4, AskEffect
  <2>2. UNCHANGED drafts
    BY <1>4, AskEffect
  <2> QED
    BY <2>1, <2>2, BecomesForms
<1>5. CASE CloseModal(t)
  <2>1. Becomes(t, page[t].shown, page[t].loading, None, page[t].busy, page[t].clean) /\ UNCHANGED drafts
    BY <1>5, CloseEffect
  <2> QED
    BY <2>1, BecomesForms
<1>6. CASE Fetch(t)
  <2>1. Becomes(t, [j \in JobIds |-> Read(page[t], j)], FALSE, page[t].confirm, FALSE, JobIds) /\ UNCHANGED drafts
    BY <1>6, FetchEffect
  <2> QED
    BY <2>1, BecomesForms
<1>7. CASE FetchFails(t)
  <2>1. Becomes(t, page[t].shown, FALSE, page[t].confirm, FALSE, {}) /\ UNCHANGED drafts
    BY <1>7, FetchFailsEffect
  <2> QED
    BY <2>1, BecomesForms
<1> QED
  BY <1>1, <1>2, <1>3, <1>4, <1>5, <1>6, <1>7 DEF Press

LEMMA AnswerForms ==
    ASSUME JobPagesTypeOK, NEW c \in Calls, Answer(c)
    PROVE  FormsStay /\ (ClearDraft \/ UNCHANGED drafts)
<1> PagesOK
  BY DEF JobPagesTypeOK
<1>1. CASE Deleted(c)
  <2>1. PICK t \in Tabs : t = call[c].tab
    BY <1>1, DeletedEffect
  <2>2. PICK s : Becomes(t, s, page[t].loading, None, FALSE, page[t].clean)
    BY <1>1, <2>1, DeletedEffect
  <2>3. UNCHANGED drafts
    BY <1>1, DeletedEffect
  <2> QED
    BY <2>2, <2>3, BecomesForms
<1>2. CASE Duplicated(c)
  <2>1. PICK t \in Tabs : t = call[c].tab
    BY <1>2, DuplicatedEffect
  <2>2. PICK s : Becomes(t, s, page[t].loading, page[t].confirm, page[t].busy, Learnt(page[t].clean, call[c].new, call[c].clean))
    BY <1>2, <2>1, DuplicatedEffect
  <2>3. UNCHANGED drafts
    BY <1>2, DuplicatedEffect
  <2> QED
    BY <2>2, <2>3, BecomesForms
<1>3. CASE Decided(c)
  <2>1. PICK t \in Tabs : t = call[c].tab
    BY <1>3, DecidedEffect
  <2>2. PICK s : Becomes(t, s, page[t].loading, page[t].confirm, page[t].busy, Learnt(page[t].clean, call[c].job, call[c].clean))
    BY <1>3, <2>1, DecidedEffect
  <2>3. UNCHANGED drafts
    BY <1>3, DecidedEffect
  <2> QED
    BY <2>2, <2>3, BecomesForms
<1>4. CASE PausedOrResumed(c)
  <2>1. PICK t \in Tabs : t = call[c].tab
    BY <1>4, PausedEffect
  <2>2. Becomes(t, page[t].shown, TRUE, page[t].confirm, page[t].busy, page[t].clean)
    BY <1>4, <2>1, PausedEffect
  <2>3. UNCHANGED drafts
    BY <1>4, PausedEffect
  <2> QED
    BY <2>2, <2>3, BecomesForms
<1>5. CASE GoOn(c)
  <2>1. PICK t \in Tabs : t = call[c].tab
    BY <1>5, GoOnEffect
  <2>2. Replaces(t) /\ page'[t].at # "post" /\ UNCHANGED drafts
    BY <1>5, <2>1, GoOnEffect DEF GoOn
  <2>3. \A q \in Tabs : q # t => page'[q] = page[q]
    BY <2>2, PutsPages DEF Replaces
  <2> QED
    BY <2>2, <2>3 DEF FormsStay, Posting
<1>6. CASE Saved(c)
  <2>1. FormSettles(c) /\ ClearDraft /\ c \in Pending
    BY <1>6, SavedEffect DEF Ends
  <2> QED
    BY <2>1, SettlesForms
<1>7. CASE Created(c)
  <2>1. UNCHANGED page /\ UNCHANGED drafts
    BY <1>7, CreatedEffect
  <2> QED
    BY <2>1, SamePagesForms
<1>8. CASE Refused(c) \/ Lost(c)
  <2>1. c \in Pending /\ UNCHANGED drafts
    BY <1>8, FailsEffect
  <2>2. CASE ~call[c].here /\ UNCHANGED page
    BY <2>1, <2>2, SamePagesForms
  <2>3. CASE call[c].here /\ FormSettles(c)
    BY <2>1, <2>3, SettlesForms
  <2>4. CASE call[c].here /\ \E k : ViewSettles(c, k)
    <3>1. PICK t \in Tabs : t = call[c].tab
      BY <2>1, <2>4, OwnCall
    <3>2. PICK m, b, k : Becomes(t, page[t].shown, page[t].loading, m, b, k)
      BY <2>4, <3>1 DEF ViewSettles
    <3> QED
      BY <2>1, <3>2, BecomesForms
  <2> QED
    BY <1>8, <2>2, <2>3, <2>4, FailsEffect
<1> QED
  BY <1>1, <1>2, <1>3, <1>4, <1>5, <1>6, <1>7, <1>8 DEF Answer

LEMMA SavedDraftStep ==
    ASSUME JobPagesTypeOK, SavedDraft, [JobPagesNext]_jobPagesVars
    PROVE  SavedDraft'
<1>1. CASE UNCHANGED jobPagesVars
  BY <1>1, SamePagesForms, QuietDraft DEF jobPagesVars
<1>2. CASE Others \/ \E c \in Calls : Api(c)
  BY <1>2, ApiDraft
<1>3. ASSUME NEW c \in Calls, Answer(c) PROVE SavedDraft'
  <2>1. FormsStay /\ (ClearDraft \/ UNCHANGED drafts)
    BY <1>3, AnswerForms
  <2>2. CASE ClearDraft
    <3>1. owed' = None /\ careless' = careless
      BY <2>2 DEF ClearDraft
    <3>2. OneForm => OneForm'
      BY <2>1 DEF OneForm, FormsStay
    <3> QED
      BY <3>1, <3>2 DEF SavedDraft
  <2> QED
    BY <2>1, <2>2, QuietDraft
<1>4. ASSUME NEW t \in Tabs, Press(t) \/ PressForm(t) \/ Crash(t) \/ Fetch(t) \/ FetchFails(t)
      PROVE  SavedDraft'
  <2>1. CASE Press(t) \/ Fetch(t) \/ FetchFails(t)
    BY <2>1, ViewForms, FollowDraft, UnloadDraft, QuietDraft
  <2> QED
    BY <1>4, <2>1, FormDraft, UnloadDraft
<1> QED
  BY <1>1, <1>2, <1>3, <1>4 DEF JobPagesNext

(* What the form for a new job has last put away as its draft is there until
   the job is made or the draft discarded: for any number of tabs, jobs, calls
   and texts. *)
THEOREM TheDraftIsKept == JobPagesSpec => []OwnDraftIsKept
<1>1. JobPagesInit => SavedDraft
  BY DEF JobPagesInit, SavedDraft, OneForm, Posting
<1>2. JobPagesTypeOK /\ SavedDraft /\ [JobPagesNext]_jobPagesVars => SavedDraft'
  BY SavedDraftStep
<1>3. SavedDraft => OwnDraftIsKept
  BY DEF SavedDraft, OwnDraftIsKept
<1> QED
  BY <1>1, <1>2, <1>3, JobPagesTypeCorrect, PTL DEF JobPagesSpec

-----------------------------------------------------------------------------
(* What is shown.  A row that differs from the one stored is one that an      *)
(* answer on its way will replace; one job is changed at a time by a page;    *)
(* and the modal asks what fits the job as it is stored.                      *)
Actual(p, j) == IF p.at \in JobPageKinds THEN job[j] ELSE proposal[j]
DoneAbout(t, j, kinds) == \E c \in Own(t) : call[c].stage = "done" /\ call[c].job = j /\ call[c].kind \in kinds
Deleting(t) == \E c \in Own(t) : call[c].stage = "done" /\ call[c].kind = "delete"
Changing == {"delete", "pause", "resume"}
Mending == Changing \cup ProposalStatuses
OnJobs(t) == Viewing(t) /\ page[t].at \in JobPageKinds
Busying(t) == {c \in Own(t) : call[c].kind \in Changing}

ShownAt(t) ==
    Viewing(t) /\ ~page[t].loading =>
        \A j \in page[t].clean : page[t].shown[j] # None =>
            page[t].shown[j] = Actual(page[t], j) \/ DoneAbout(t, j, Mending)

BusyAt(t) ==
    OnJobs(t) =>
        /\ \A c, d \in Busying(t) : c = d
        /\ Busying(t) # {} => page[t].busy /\ ~page[t].loading
        /\ page[t].loading /\ ~page[t].busy =>
              Own(t) = {} /\ page[t].confirm = None /\ \A j \in JobIds : page[t].shown[j] = None

StatusAt(t) ==
    OnJobs(t) =>
        \A j \in page[t].clean : page[t].shown[j] # None =>
            DoneAbout(t, j, {"delete"}) \/ (Exists(j) /\ job[j].status = page[t].shown[j].status)

ModalAt(t) ==
    OnJobs(t) /\ page[t].confirm # None =>
        /\ page[t].shown[page[t].confirm.job] # None \/ ~Exists(page[t].confirm.job)
        /\ page[t].confirm.clean /\ Exists(page[t].confirm.job) =>
              Type(job[page[t].confirm.job].status) = page[t].confirm.type \/ Deleting(t)

Truth(t) == ShownAt(t) /\ BusyAt(t) /\ StatusAt(t) /\ ModalAt(t)

(* What an answer tells is so. *)
CopiesTrue ==
    \A c \in Pending : call[c].stage = "done" /\ call[c].clean /\ call[c].kind = "duplicate" =>
        job[call[c].new] = call[c].row

VerdictsTrue ==
    \A c \in Pending : call[c].stage = "done" /\ call[c].clean /\ call[c].kind \in ProposalStatuses =>
        proposal[call[c].job] = call[c].kind

DeletesTrue ==
    \A c \in Pending :
        call[c].stage = "sent" /\ call[c].clean /\ call[c].kind = "delete" /\ Exists(call[c].job) =>
            Type(job[call[c].job].status) = call[c].type

PagesTrue == CopiesTrue /\ VerdictsTrue /\ DeletesTrue /\ \A t \in Tabs : Truth(t)

-----------------------------------------------------------------------------
(* Steps of the API.  The calls of a page stay what they are until served. *)
OwnStays(t) ==
    \A d \in Calls :
        /\ d \in Own(t)' => d \in Own(t) /\ call'[d].kind = call[d].kind
        /\ d \in Own(t) /\ call[d].stage = "done" =>
              d \in Own(t)' /\ call'[d].stage = "done" /\ call'[d].kind = call[d].kind
              /\ call'[d].job = call[d].job

LEMMA WaitsOwn ==
    ASSUME NEW m, NEW d \in Calls, Waits(d, m), NEW t
    PROVE  /\ d \in Own(t)' <=> d \in Own(t)
           /\ d \in Own(t) => call'[d].kind = call[d].kind /\ call'[d].job = call[d].job
                              /\ call'[d].stage = call[d].stage
BY DEF Waits, CallStays, Own, Pending

LEMMA StaysDone ==
    ASSUME NEW t, OwnStays(t)
    PROVE  /\ \A j, kinds : DoneAbout(t, j, kinds) => DoneAbout(t, j, kinds)'
           /\ Deleting(t) => Deleting(t)'
<1>1. Own(t) \subseteq Calls
  BY DEF Own, Pending
<1> QED
  BY <1>1 DEF DoneAbout, Deleting, OwnStays

LEMMA StaysBusy ==
    ASSUME NEW t, OwnStays(t), Viewing(t), Viewing(t)', PageStays(page[t], page'[t]), BusyAt(t)
    PROVE  BusyAt(t)'
<1>1. Own(t)' \subseteq Calls
  BY DEF Own, Pending
<1>2. Own(t)' \subseteq Own(t) /\ Busying(t)' \subseteq Busying(t)
  BY <1>1 DEF OwnStays, Busying
<1> QED
  BY <1>2 DEF BusyAt, PageStays, OnJobs

(* The pages that did not ask. *)
LEMMA OthersTruth ==
    ASSUME JobPagesTypeOK, NEW me, PagesStay(me), NEW t \in Tabs, t # me, OwnStays(t),
           \A j \in used : ~Exists(j) => job'[j] = None, Truth(t)
    PROVE  Truth(t)'
<1>1. CASE ~Viewing(t)
  <2>1. ~Viewing(t)'
    BY <1>1 DEF PagesStay, Viewing
  <2> QED
    BY <2>1 DEF Truth, ShownAt, BusyAt, StatusAt, ModalAt, OnJobs
<1>2. CASE Viewing(t)
  <2> PICK p : p = page[t]
    OBVIOUS
  <2> PICK q : q = page'[t]
    OBVIOUS
  <2>1. PageStays(p, q) /\ Viewing(t)'
    BY <1>2 DEF PagesStay, Viewing
  <2>2. \A j \in JobIds : Seen(p, j) =>
                /\ j \notin q.clean
                /\ p.confirm # None /\ Changed(p.confirm.job) => ~q.confirm.clean
    BY <1>2 DEF PagesStay
  <2>3. \A j \in JobIds : p.shown[j] # None => j \in used
    BY <1>2, ViewingFields
  <2>4. /\ \A j, kinds : DoneAbout(t, j, kinds) => DoneAbout(t, j, kinds)'
        /\ Deleting(t) => Deleting(t)'
    BY StaysDone
  <2>10. q.clean \subseteq JobIds
    BY <2>1 DEF PageStays, JobViews, ProposalViews, Views
  <2>5. \A j \in q.clean : p.shown[j] # None => Actual(q, j)' = Actual(p, j)
    BY <2>1, <2>2, <2>10 DEF Seen, Actual, PageStays
  <2>6. ShownAt(t)'
    BY <1>2, <2>1, <2>4, <2>5 DEF Truth, ShownAt, PageStays
  <2>7. BusyAt(t)'
    BY <1>2, <2>1, StaysBusy DEF Truth
  <2>8. StatusAt(t)'
    <3> SUFFICES ASSUME OnJobs(t)', NEW j \in q.clean, q.shown[j] # None, ~DoneAbout(t, j, {"delete"})'
                 PROVE  Exists(j)' /\ job'[j].status = q.shown[j].status
      BY DEF StatusAt
    <3>1. OnJobs(t) /\ j \in p.clean /\ j \in JobIds /\ p.shown[j] # None /\ q.shown = p.shown /\ p.at \in JobPageKinds
      BY <1>2, <2>1, <2>10 DEF PageStays, OnJobs
    <3>2. Exists(j) /\ job[j].status = p.shown[j].status
      BY <2>4, <3>1 DEF Truth, StatusAt
    <3>3. job'[j] = job[j]
      BY <2>2, <3>1 DEF Seen
    <3> QED
      BY <3>1, <3>2, <3>3 DEF Exists
  <2>9. ModalAt(t)'
    <3> SUFFICES ASSUME OnJobs(t)', q.confirm # None
                 PROVE  /\ q.shown[q.confirm.job] # None \/ ~Exists(q.confirm.job)'
                        /\ q.confirm.clean /\ Exists(q.confirm.job)' =>
                              Type(job'[q.confirm.job].status) = q.confirm.type \/ Deleting(t)'
      BY DEF ModalAt
    <3>1. /\ OnJobs(t) /\ p.confirm # None /\ q.shown = p.shown /\ p.at \in JobPageKinds
          /\ q.confirm.job = p.confirm.job /\ q.confirm.type = p.confirm.type /\ (q.confirm.clean => p.confirm.clean)
      BY <1>2, <2>1 DEF PageStays, OnJobs
    <3>2. PICK i : i = p.confirm.job
      OBVIOUS
    <3>3. i \in used /\ i \in JobIds
      BY <1>2, <3>1, <3>2, ViewingFields DEF JobPagesTypeOK, RowsOK
    <3>4. /\ p.shown[i] # None \/ ~Exists(i)
          /\ p.confirm.clean /\ Exists(i) => Type(job[i].status) = p.confirm.type \/ Deleting(t)
      BY <3>1, <3>2 DEF Truth, ModalAt
    <3>5. ~Exists(i) => ~Exists(i)'
      BY <3>3 DEF Exists
    <3>6. q.confirm.clean /\ Exists(i)' => job'[i] = job[i]
      BY <2>2, <3>1, <3>2, <3>3, <3>4, <3>5 DEF Seen, Changed
    <3> QED
      BY <2>4, <3>1, <3>2, <3>4, <3>5, <3>6 DEF Exists
  <2> QED
    BY <2>6, <2>7, <2>8, <2>9 DEF Truth
<1> QED
  BY <1>1, <1>2

LEMMA ServedOwnStays ==
    ASSUME NEW c \in Calls, Is(c, "sent"), NEW ok \in BOOLEAN, NEW new, Replied(c, ok, new), NEW m,
           \A q \in Calls \ {c} : Waits(q, m), NEW t
    PROVE  OwnStays(t)
<1>1. ASSUME NEW d \in Calls, d # c
      PROVE  /\ d \in Own(t)' => d \in Own(t) /\ call'[d].kind = call[d].kind
             /\ d \in Own(t) /\ call[d].stage = "done" =>
                   d \in Own(t)' /\ call'[d].stage = "done" /\ call'[d].kind = call[d].kind
                   /\ call'[d].job = call[d].job
  BY <1>1, WaitsOwn
<1>2. c \in Own(t)' => c \in Own(t) /\ call'[c].kind = call[c].kind
  BY DEF Replied, Own, Pending, Is
<1>3. call[c].stage # "done"
  BY DEF Is
<1> QED
  BY <1>1, <1>2, <1>3 DEF OwnStays

(* The page that asked: what its own call has changed, the answer will mend. *)
LEMMA AskerTruth ==
    ASSUME JobPagesTypeOK, NEW c \in Calls, Is(c, "sent"), NEW ok \in BOOLEAN,
           NEW new \in JobIds \cup {None}, Replied(c, ok, new), ServedAs(c, ok, new),
           NEW t \in Tabs, c \in Own(t), PagesStay(t), OwnStays(t), Truth(t)
    PROVE  Truth(t)'
<1> PICK p : p = page[t]
  OBVIOUS
<1>1. page'[t] = p /\ c \in Pending /\ call[c].here /\ call[c].tab = t /\ call[c].stage = "sent"
  BY DEF PagesStay, Own, Is
<1>2. CallOK(call[c]) /\ p.at = call[c].from /\ p # None /\ call[c].kind \in CallKinds
  BY <1>1, OwnCall, FormKinds
<1>3. CASE ~Viewing(t)
  <2>1. ~Viewing(t)'
    BY <1>1, <1>3 DEF Viewing
  <2> QED
    BY <2>1 DEF Truth, ShownAt, BusyAt, StatusAt, ModalAt, OnJobs
<1>4. CASE Viewing(t)
  <2>1. call[c].from # "post" /\ Viewing(t)'
    BY <1>1, <1>2, <1>4 DEF Viewing
  <2>2. /\ call[c].kind \in Mending \cup {"duplicate"}
        /\ p.at \in JobPageKinds => call[c].kind \in Changing \cup {"duplicate"}
    BY <1>2, <2>1 DEF CallOK, Asked, CallKinds, JobCalls, Mending, Changing, ProposalStatuses, JobPageKinds
  <2>3. call'[c] # None /\ c \in Own(t)' /\ call'[c].kind = call[c].kind /\ call'[c].job = call[c].job
        /\ call'[c].stage = IF ok THEN "done" ELSE "refused"
    BY <1>1 DEF Replied, Own, Pending
  <2>4. /\ \A j, kinds : DoneAbout(t, j, kinds) => DoneAbout(t, j, kinds)'
        /\ Deleting(t) => Deleting(t)'
    BY StaysDone
  <2>5. /\ \A j \in JobIds : p.shown[j] # None => j \in used
        /\ p.confirm # None => p.confirm.job \in used
        /\ used \subseteq JobIds /\ p.clean \subseteq JobIds
    BY <1>4, ViewingFields DEF JobPagesTypeOK, RowsOK
  <2>6. \A j \in used : job'[j] # job[j] \/ proposal'[j] # proposal[j] =>
            ok /\ j = call[c].job /\ (call[c].kind = "duplicate" => proposal' = proposal)
    BY <2>5 DEF ServedAs, ProposalStatuses, Verdicts
  <2>7. call[c].kind = "duplicate" => \A j \in used : job'[j] = job[j] /\ proposal'[j] = proposal[j]
    BY <2>6 DEF ServedAs, Makes
  <2>8. \A j \in used : job'[j] # job[j] \/ proposal'[j] # proposal[j] => DoneAbout(t, j, Mending)'
    <3>1. ASSUME NEW j \in used, job'[j] # job[j] \/ proposal'[j] # proposal[j]
          PROVE  /\ c \in Own(t)' /\ call'[c].stage = "done" /\ call'[c].job = j /\ call'[c].kind \in Mending
      BY <2>2, <2>3, <2>6, <2>7, <3>1
    <3> QED
      BY <3>1 DEF DoneAbout
  <2>9. ASSUME OnJobs(t), NEW j \in used, job'[j] # job[j], call[c].kind # "delete"
        PROVE  Exists(j) => Exists(j)' /\ job'[j].status = job[j].status
    <3>1. call[c].kind \in {"pause", "resume", "duplicate"}
      BY <2>2, <2>9 DEF OnJobs, Changing
    <3> QED
      BY <2>9, <3>1, JobPagesAssumption DEF ServedAs, Exists
  <2>10. ASSUME NEW j \in used, job'[j] # job[j], call[c].kind = "delete"
         PROVE  DoneAbout(t, j, {"delete"})' /\ Deleting(t)'
    <3>1. /\ c \in Own(t)' /\ call'[c].stage = "done" /\ call'[c].job = j /\ call'[c].kind = "delete"
      BY <2>3, <2>6, <2>10
    <3> QED
      BY <3>1 DEF DoneAbout, Deleting
  <2>11. ShownAt(t)'
    <3> SUFFICES ASSUME ~p.loading, NEW j \in p.clean, p.shown[j] # None, ~DoneAbout(t, j, Mending)'
                 PROVE  p.shown[j] = Actual(p, j)'
      BY <1>1 DEF ShownAt
    <3>1. p.shown[j] = Actual(p, j)
      BY <1>4, <2>4 DEF Truth, ShownAt
    <3>2. job'[j] = job[j] /\ proposal'[j] = proposal[j]
      BY <2>5, <2>8
    <3> QED
      BY <3>1, <3>2 DEF Actual
  <2>12. BusyAt(t)'
    <3>1. PageStays(page[t], page'[t])
      BY <1>4 DEF PagesStay
    <3> QED
      BY <1>4, <2>1, <3>1, StaysBusy DEF Truth
  <2>13. StatusAt(t)'
    <3> SUFFICES ASSUME OnJobs(t)', NEW j \in p.clean, p.shown[j] # None, ~DoneAbout(t, j, {"delete"})'
                 PROVE  Exists(j)' /\ job'[j].status = p.shown[j].status
      BY <1>1 DEF StatusAt
    <3>1. OnJobs(t)
      BY <1>1, <1>4 DEF OnJobs
    <3>2. Exists(j) /\ job[j].status = p.shown[j].status
      BY <2>4, <3>1 DEF Truth, StatusAt
    <3>3. CASE job'[j] = job[j]
      BY <3>2, <3>3 DEF Exists
    <3>4. CASE job'[j] # job[j]
      BY <2>5, <2>9, <2>10, <3>1, <3>2, <3>4
    <3> QED
      BY <3>3, <3>4
  <2>14. ModalAt(t)'
    <3> SUFFICES ASSUME OnJobs(t)', p.confirm # None
                 PROVE  /\ p.shown[p.confirm.job] # None \/ ~Exists(p.confirm.job)'
                        /\ p.confirm.clean /\ Exists(p.confirm.job)' =>
                              Type(job'[p.confirm.job].status) = p.confirm.type \/ Deleting(t)'
      BY <1>1 DEF ModalAt
    <3>1. OnJobs(t)
      BY <1>1, <1>4 DEF OnJobs
    <3>2. PICK i : i = p.confirm.job
      OBVIOUS
    <3>3. /\ i \in used
          /\ p.shown[i] # None \/ ~Exists(i)
          /\ p.confirm.clean /\ Exists(i) => Type(job[i].status) = p.confirm.type \/ Deleting(t)
      BY <2>5, <3>1, <3>2 DEF Truth, ModalAt
    <3>4. ~Exists(i) => ~Exists(i)'
      BY <3>3 DEF Exists, ServedAs
    <3>5. CASE job'[i] = job[i]
      BY <2>4, <3>2, <3>3, <3>4, <3>5
    <3>6. CASE job'[i] # job[i] /\ call[c].kind = "delete"
      BY <2>10, <3>2, <3>3, <3>4, <3>6
    <3>7. CASE job'[i] # job[i] /\ call[c].kind # "delete"
      <4>1. Exists(i) => job'[i].status = job[i].status
        BY <2>9, <3>1, <3>3, <3>7
      <4> QED
        BY <2>4, <3>2, <3>3, <3>4, <4>1
    <3> QED
      BY <3>5, <3>6, <3>7
  <2> QED
    BY <2>11, <2>12, <2>13, <2>14 DEF Truth
<1> QED
  BY <1>3, <1>4

(* What answers on their way tell: of calls that wait, ... *)
LEMMA WaitingTrue ==
    ASSUME JobPagesTypeOK, NEW m, NEW q \in Calls, Waits(q, m), call'[q] # None, call'[q].clean,
           CopiesTrue, VerdictsTrue
    PROVE  /\ call'[q].stage = "done" /\ call'[q].kind = "duplicate" => job'[call'[q].new] = call'[q].row
           /\ call'[q].stage = "done" /\ call'[q].kind \in ProposalStatuses =>
                 proposal'[call'[q].job] = call'[q].kind
<1>1. q \in Pending /\ CallStays(call[q], call'[q]) /\ CallOK(call[q])
  BY DEF Waits, JobPagesTypeOK, CallsOK, Pending
<1>2. call[q].stage = "done" => ~Changed(call[q].job) /\ ~Changed(call[q].new)
  BY <1>1 DEF Waits, CallStays, Pending
<1>3. ASSUME call[q].stage = "done", call[q].kind = "duplicate" PROVE job'[call[q].new] = call[q].row
  <2>1. call[q].new \in JobIds
    BY <1>1, <1>3 DEF CallOK, JobPagesTypeOK, RowsOK
  <2> QED
    BY <1>1, <1>2, <1>3, <2>1 DEF CopiesTrue, Changed, CallStays
<1>4. ASSUME call[q].stage = "done", call[q].kind \in ProposalStatuses
      PROVE  proposal'[call[q].job] = call[q].kind
  <2>1. call[q].job \in JobIds
    BY <1>1, <1>4 DEF CallOK, JobPagesTypeOK, RowsOK, Creations, ProposalStatuses, Verdicts
  <2> QED
    BY <1>1, <1>2, <1>4, <2>1 DEF VerdictsTrue, Changed, CallStays
<1> QED
  BY <1>1, <1>3, <1>4 DEF CallStays

(* ... and of a job that one of them is to delete. *)
LEMMA WaitingDelete ==
    ASSUME JobPagesTypeOK, NEW m, NEW q \in Calls, Waits(q, m), m = None \/ Owner(q) # m,
           DeletesTrue, call'[q] # None, call'[q].clean, call'[q].stage = "sent", call'[q].kind = "delete",
           job'[call'[q].job] # None
    PROVE  Type(job'[call'[q].job].status) = call'[q].type
<1>1. q \in Pending /\ CallStays(call[q], call'[q]) /\ CallOK(call[q])
  BY DEF Waits, JobPagesTypeOK, CallsOK, Pending
<1>2. ~Changed(call[q].job)
  BY <1>1 DEF Waits, Pending
<1>3. call[q].kind = "delete" /\ call[q].job \in JobIds
  BY <1>1 DEF CallStays, CallOK, JobPagesTypeOK, RowsOK, Creations
<1>4. job'[call[q].job] = job[call[q].job]
  BY <1>2, <1>3 DEF Changed
<1> QED
  BY <1>1, <1>3, <1>4 DEF DeletesTrue, CallStays, Exists

LEMMA OthersPagesTrue ==
    ASSUME JobPagesTypeOK, PagesTrue, Others
    PROVE  PagesTrue'
<1>1. OthersAct /\ PagesStay(None) /\ \A q \in Calls : Waits(q, None)
  BY OthersEffect
<1>2. \A j \in used : ~Exists(j) => job'[j] = None
  BY <1>1 DEF OthersAct, JobPagesTypeOK, RowsOK
<1>3. \A t \in Tabs : OwnStays(t)
  BY <1>1, WaitsOwn DEF OwnStays
<1>4. \A t \in Tabs : t # None
  BY JobPagesAssumption
<1>5. \A t \in Tabs : Truth(t)'
  BY <1>1, <1>2, <1>3, <1>4, OthersTruth DEF PagesTrue
<1>6. CopiesTrue' /\ VerdictsTrue'
  BY <1>1, WaitingTrue DEF PagesTrue, CopiesTrue, VerdictsTrue, Pending
<1>7. DeletesTrue'
  <2>1. ASSUME NEW q \in Calls, call'[q] # None, call'[q].clean, call'[q].stage = "sent",
               call'[q].kind = "delete", job'[call'[q].job] # None
        PROVE  Type(job'[call'[q].job].status) = call'[q].type
    <3>1. Waits(q, None)
      BY <1>1
    <3> QED
      BY <2>1, <3>1, WaitingDelete DEF PagesTrue
  <2> QED
    BY <2>1 DEF DeletesTrue, Pending, Exists
<1> QED
  BY <1>5, <1>6, <1>7 DEF PagesTrue

LEMMA ServedPagesTrue ==
    ASSUME JobPagesTypeOK, PagesTrue, NEW c \in Calls, Served(c)
    PROVE  PagesTrue'
<1> RowsOK /\ PagesOK /\ CallsOK
  BY DEF JobPagesTypeOK
<1>1. PICK ok \in BOOLEAN, new \in JobIds \cup {None} :
          Is(c, "sent") /\ Reply(c, ok, new) /\ RowsOK' /\ ServedAs(c, ok, new)
  BY DEF Served
<1>2. used \subseteq used' /\ (new # None => job'[new] \in Rows)
  BY <1>1 DEF ServedAs
<1>3. PagesStay(Owner(c))
  BY <1>1, <1>2, SpoiledPages DEF Reply
<1>4. (\A q \in Calls \ {c} : Waits(q, Owner(c))) /\ Replied(c, ok, new)
  BY <1>1, <1>2, ReplyCalls
<1>5. c \in Pending /\ call[c].stage = "sent" /\ CallOK(call[c])
  BY <1>1 DEF Is, CallsOK
<1>6. ASSUME NEW t \in Tabs PROVE Truth(t)'
  <2>1. OwnStays(t)
    <3> PICK m : m = Owner(c)
      OBVIOUS
    <3>1. \A q \in Calls \ {c} : Waits(q, m)
      BY <1>4
    <3> QED
      BY <1>1, <1>4, <3>1, ServedOwnStays
  <2>2. \A j \in used : ~Exists(j) => job'[j] = None
    BY <1>1 DEF ServedAs
  <2>3. CASE t # Owner(c)
    BY <1>3, <2>1, <2>2, <2>3, OthersTruth DEF PagesTrue
  <2>4. CASE t = Owner(c)
    <3>1. c \in Own(t) /\ PagesStay(t)
      BY <1>3, <1>5, <2>4, JobPagesAssumption DEF Owner, Own
    <3> QED
      BY <1>1, <1>4, <2>1, <3>1, AskerTruth DEF PagesTrue
  <2> QED
    BY <2>3, <2>4
<1>7. ASSUME call'[c] # None, call'[c].stage = "done"
      PROVE  /\ call'[c].kind = "duplicate" => job'[call'[c].new] = call'[c].row
             /\ call'[c].kind \in ProposalStatuses => proposal'[call'[c].job] = call'[c].kind
  <2>1. ok /\ call'[c].kind = call[c].kind /\ call'[c].job = call[c].job /\ call'[c].new = new
        /\ call'[c].row = (IF new = None THEN None ELSE job'[new])
    BY <1>4, <1>7 DEF Replied
  <2>2. call[c].kind = "duplicate" => new # None
    BY <1>1, <2>1 DEF ServedAs, Makes
  <2> QED
    BY <1>1, <2>1, <2>2 DEF ServedAs
<1>8. CopiesTrue' /\ VerdictsTrue'
  <2>1. \A q \in Calls : call'[q] # None /\ call'[q].clean =>
          /\ call'[q].stage = "done" /\ call'[q].kind = "duplicate" => job'[call'[q].new] = call'[q].row
          /\ call'[q].stage = "done" /\ call'[q].kind \in ProposalStatuses =>
                proposal'[call'[q].job] = call'[q].kind
    BY <1>4, <1>7, WaitingTrue DEF PagesTrue
  <2> QED
    BY <2>1 DEF CopiesTrue, VerdictsTrue, Pending
<1>9. ASSUME NEW q \in Calls, call'[q] # None, call'[q].clean, call'[q].stage = "sent",
             call'[q].kind = "delete", job'[call'[q].job] # None
      PROVE  Type(job'[call'[q].job].status) = call'[q].type
  <2>1. q # c
    BY <1>4, <1>9 DEF Replied
  <2>2. Waits(q, Owner(c))
    BY <1>4, <2>1
  <2>3. CASE Owner(c) = None \/ Owner(q) # Owner(c)
    BY <1>9, <2>2, <2>3, WaitingDelete DEF PagesTrue
  <2>4. CASE Owner(c) # None /\ Owner(q) = Owner(c)
    <3>1. q \in Pending /\ CallStays(call[q], call'[q]) /\ call[q].here /\ call[c].here /\ call[q].tab = call[c].tab
      BY <1>9, <2>2, <2>4 DEF Waits, Pending, Owner
    <3>2. PICK t \in Tabs : t = call[c].tab
      BY <1>5, <3>1, OwnCall
    <3>3. page[t].at = call[q].from /\ page[t].at = call[c].from /\ CallOK(call[q])
      BY <1>5, <3>1, <3>2, OwnCall
    <3>4. call[q].kind = "delete" /\ call[q].job = call'[q].job /\ call[q].job \in used
          /\ call[q].clean /\ call[q].stage = "sent" /\ call[q].type = call'[q].type
      BY <1>9, <3>1, <3>3 DEF CallStays, CallOK, Creations
    <3>5. page[t].at \in JobPageKinds
      BY <3>3, <3>4 DEF CallOK, Asked, JobCalls
    <3>6. OnJobs(t)
      BY <1>5, <3>1, <3>2, <3>5, OwnCall DEF OnJobs, JobPageKinds
    <3>7. call[c].kind \in Changing \cup {"duplicate"}
      BY <1>5, <3>3, <3>5, FormKinds DEF CallOK, Asked, CallKinds, JobCalls, Changing, JobPageKinds
    <3>8. call[c].kind \notin Changing
      <4>1. BusyAt(t)
        BY DEF PagesTrue, Truth
      <4>2. q \in Busying(t)
        BY <3>1, <3>2, <3>4 DEF Busying, Own, Changing
      <4>3. call[c].kind \in Changing => c \in Busying(t)
        BY <1>5, <3>1, <3>2 DEF Busying, Own
      <4> QED
        BY <2>1, <3>6, <4>1, <4>2, <4>3 DEF BusyAt
    <3>9. job'[call[q].job] = job[call[q].job]
      BY <1>1, <3>4, <3>7, <3>8 DEF ServedAs, Makes
    <3> QED
      BY <1>9, <3>1, <3>4, <3>9 DEF PagesTrue, DeletesTrue, Exists
  <2> QED
    BY <2>3, <2>4
<1>10. DeletesTrue'
  BY <1>9 DEF DeletesTrue, Pending, Exists
<1> QED
  BY <1>6, <1>8, <1>10 DEF PagesTrue

-----------------------------------------------------------------------------
(* Steps of the pages.  A step changes what one tab shows and has under way.  *)
SameTab(q) ==
    /\ page'[q] = page[q] /\ Own(q)' = Own(q)
    /\ \A d \in Own(q) : call'[d] = call[d]

(* No step of a page answers a call; and it asks for no deletion that does
   not fit the job. *)
CallsKeep ==
    \A d \in Calls : call'[d] # None =>
        \/ /\ call[d] # None /\ call'[d].kind = call[d].kind /\ call'[d].job = call[d].job
           /\ call'[d].type = call[d].type /\ call'[d].stage = call[d].stage
           /\ call'[d].new = call[d].new /\ call'[d].row = call[d].row /\ call'[d].clean = call[d].clean
        \/ /\ call'[d].stage = "sent"
           /\ call'[d].kind = "delete" /\ call'[d].clean /\ Exists(call'[d].job) =>
                 Type(job[call'[d].job].status) = call'[d].type

StepTrue(t) ==
    /\ UNCHANGED api /\ CallsKeep /\ Truth(t)'
    /\ \A q \in Tabs : q # t => SameTab(q)

LEMMA SameTabTruth ==
    ASSUME NEW q, SameTab(q), UNCHANGED api, Truth(q)
    PROVE  Truth(q)'
<1>1. UNCHANGED <<job, proposal>> /\ (Viewing(q)' <=> Viewing(q)) /\ (OnJobs(q)' <=> OnJobs(q))
  BY DEF api, SameTab, Viewing, OnJobs
<1>2. \A j, kinds : DoneAbout(q, j, kinds)' <=> DoneAbout(q, j, kinds)
  BY DEF SameTab, DoneAbout
<1>3. Deleting(q)' <=> Deleting(q)
  BY DEF SameTab, Deleting
<1>4. Busying(q)' = Busying(q)
  BY DEF SameTab, Busying
<1>5. ShownAt(q)'
  BY <1>1, <1>2 DEF Truth, ShownAt, SameTab, Actual
<1>6. BusyAt(q)'
  BY <1>1, <1>4 DEF Truth, BusyAt, SameTab
<1>7. StatusAt(q)'
  BY <1>1, <1>2 DEF Truth, StatusAt, SameTab, Exists
<1>8. ModalAt(q)'
  BY <1>1, <1>3 DEF Truth, ModalAt, SameTab, Exists
<1> QED
  BY <1>5, <1>6, <1>7, <1>8 DEF Truth

LEMMA CallsKeepTrue ==
    ASSUME UNCHANGED api, CallsKeep, CopiesTrue, VerdictsTrue, DeletesTrue
    PROVE  CopiesTrue' /\ VerdictsTrue' /\ DeletesTrue'
<1>1. UNCHANGED <<job, proposal>>
  BY DEF api
<1>2. CopiesTrue'
  BY <1>1 DEF CopiesTrue, CallsKeep, Pending
<1>3. VerdictsTrue'
  BY <1>1 DEF VerdictsTrue, CallsKeep, Pending
<1>4. DeletesTrue'
  BY <1>1 DEF DeletesTrue, CallsKeep, Pending, Exists
<1> QED
  BY <1>2, <1>3, <1>4

LEMMA StepPagesTrue ==
    ASSUME PagesTrue, NEW t, StepTrue(t)
    PROVE  PagesTrue'
<1>1. CopiesTrue' /\ VerdictsTrue' /\ DeletesTrue'
  BY CallsKeepTrue DEF PagesTrue, StepTrue
<1>2. \A q \in Tabs : Truth(q)'
  BY SameTabTruth DEF PagesTrue, StepTrue
<1> QED
  BY <1>1, <1>2 DEF PagesTrue

(* Tabs without a list, and pages just opened. *)
LEMMA NoViewTruth ==
    ASSUME NEW t, ~Viewing(t)'
    PROVE  Truth(t)'
BY DEF Truth, ShownAt, BusyAt, StatusAt, ModalAt, OnJobs

LEMMA LeavesOwn ==
    ASSUME JobPagesTypeOK, NEW t \in Tabs, Leaves(t)
    PROVE  /\ Own(t)' = {} /\ CallsKeep
           /\ \A q \in Tabs : q # t => Own(q)' = Own(q) /\ \A d \in Own(q) : call'[d] = call[d]
<1>1. \A d \in Calls : Left(t, call[d], call'[d])
  BY DEF Leaves
<1>2. Own(t)' = {}
  BY <1>1 DEF Left, Own, Pending
<1>3. ASSUME NEW q \in Tabs, q # t
      PROVE  Own(q)' = Own(q) /\ \A d \in Own(q) : call'[d] = call[d]
  <2>1. \A d \in Own(q) : call'[d] = call[d]
    BY <1>1, <1>3 DEF Left, Own, Pending
  <2>2. \A d \in Own(q)' : call'[d] = call[d]
    BY <1>1 DEF Left, Own, Pending
  <2>3. Own(q)' \subseteq Own(q)
    BY <2>2 DEF Own, Pending
  <2>4. Own(q) \subseteq Own(q)'
    BY <2>1 DEF Own, Pending
  <2> QED
    BY <2>1, <2>3, <2>4
<1>4. CallsKeep
  BY <1>1 DEF Left, CallsKeep
<1> QED
  BY <1>2, <1>3, <1>4

LEMMA ReplacesTrue ==
    ASSUME JobPagesTypeOK, NEW t \in Tabs, Replaces(t)
    PROVE  StepTrue(t)
<1> PagesOK
  BY DEF JobPagesTypeOK
<1>1. PICK p : Puts(t, p) /\ (p = None \/ Fresh(p))
  BY DEF Replaces
<1>2. UNCHANGED api /\ page'[t] = p /\ \A q \in Tabs : q # t => page'[q] = page[q]
  BY <1>1, PutsPages DEF Puts
<1>3. /\ Own(t)' = {} /\ CallsKeep
      /\ \A q \in Tabs : q # t => Own(q)' = Own(q) /\ \A d \in Own(q) : call'[d] = call[d]
  BY LeavesOwn DEF Replaces
<1>4. Truth(t)'
  <2>1. CASE Viewing(t)'
    <3>1. /\ p.at # "post" /\ p.shown = [i \in JobIds |-> None]
          /\ p.loading = TRUE /\ p.confirm = None /\ p.busy = FALSE /\ p.clean = JobIds
      BY <1>1, <1>2, <2>1 DEF Viewing, Fresh
    <3>2. \A i \in JobIds : p.shown[i] = None
      BY <3>1
    <3>3. Busying(t)' = {}
      BY <1>3 DEF Busying
    <3> QED
      BY <1>2, <1>3, <3>1, <3>2, <3>3 DEF Truth, ShownAt, BusyAt, StatusAt, ModalAt
  <2> QED
    BY <2>1, NoViewTruth
<1> QED
  BY <1>2, <1>3, <1>4 DEF StepTrue, SameTab

(* Calls that begin and end. *)
LEMMA AsksOwn ==
    ASSUME JobPagesTypeOK, NEW t \in Tabs, NEW c \in Calls, NEW kind, NEW j, NEW type, NEW k,
           Asks(t, c, kind, j, type, k)
    PROVE  /\ c \notin Pending /\ Own(t)' = Own(t) \cup {c} /\ c \notin Own(t)
           /\ \A q \in Tabs : q # t => Own(q)' = Own(q)
           /\ \A d \in Pending : call'[d] = call[d]
           /\ \A d \in Calls : d # c => call'[d] = call[d]
           /\ call'[c] # None /\ call'[c].kind = kind /\ call'[c].job = j /\ call'[c].type = type
           /\ call'[c].stage = "sent" /\ call'[c].clean = k
<1> CallsOK
  BY DEF JobPagesTypeOK
<1>1. PICK r : /\ Begins(c, r) /\ CallOK(r) /\ r.tab = t /\ r.here /\ r.from = page[t].at /\ r.kind = kind
               /\ r.job = j /\ r.type = type /\ r.stage = "sent" /\ r.clean = k
  BY DEF Asks
<1>2. /\ call'[c] = r /\ call[c] = None /\ \A d \in Calls : d # c => call'[d] = call[d]
  BY <1>1, BeginsCalls
<1>3. r # None
  BY <1>1, CallNotNone DEF CallOK
<1>4. \A q \in Tabs : Own(q)' = IF q = t THEN Own(q) \cup {c} ELSE Own(q)
  BY <1>1, <1>2, <1>3 DEF Own, Pending
<1> QED
  BY <1>1, <1>2, <1>3, <1>4 DEF Pending, Own

LEMMA AsksKeep ==
    ASSUME JobPagesTypeOK, NEW t \in Tabs, NEW c \in Calls, NEW kind, NEW j, NEW type, NEW k,
           Asks(t, c, kind, j, type, k),
           kind = "delete" /\ k /\ Exists(j) => Type(job[j].status) = type
    PROVE  CallsKeep
BY AsksOwn DEF CallsKeep

LEMMA EndsOwn ==
    ASSUME JobPagesTypeOK, NEW c \in Calls, Ends(c)
    PROVE  /\ \A q : Own(q)' = Own(q) \ {c}
           /\ \A d \in Calls : d # c => call'[d] = call[d]
           /\ CallsKeep
<1> CallsOK
  BY DEF JobPagesTypeOK
<1>1. /\ call'[c] = None /\ \A d \in Calls : d # c => call'[d] = call[d]
  BY EndsCalls
<1>2. \A q : Own(q)' = Own(q) \ {c}
  BY <1>1 DEF Own, Pending
<1> QED
  BY <1>1, <1>2 DEF CallsKeep

(* A call that ends is nobody's, or that of one tab. *)
LEMMA EndsElsewhere ==
    ASSUME JobPagesTypeOK, NEW c \in Calls, Ends(c), NEW t, call[c].here => call[c].tab = t
    PROVE  \A q \in Tabs : q # t => Own(q)' = Own(q) /\ \A d \in Own(q) : call'[d] = call[d]
<1>1. \A q \in Tabs : q # t => c \notin Own(q)
  BY DEF Own
<1> QED
  BY <1>1, EndsOwn DEF Own, Pending

(* A view turns into another, and nothing else is turned. *)
SameTabs(t) == UNCHANGED api /\ \A q \in Tabs : q # t => page'[q] = page[q]

LEMMA BecomesTabs ==
    ASSUME JobPagesTypeOK, NEW t \in Tabs, NEW s, NEW l, NEW m, NEW b, NEW k, Becomes(t, s, l, m, b, k)
    PROVE  /\ SameTabs(t) /\ Viewing(t) /\ (OnJobs(t)' => OnJobs(t)) /\ UNCHANGED <<job, proposal>>
           /\ page'[t].at = page[t].at /\ page'[t].of = page[t].of /\ page'[t].shown = s
           /\ page'[t].loading = l /\ page'[t].confirm = m /\ page'[t].busy = b /\ page'[t].clean = k
<1>1. PagesOK /\ Viewing(t)
  BY DEF JobPagesTypeOK, Becomes
<1>2. /\ UNCHANGED api /\ \A q \in Tabs : q # t => page'[q] = page[q]
      /\ page'[t].at = page[t].at /\ page'[t].of = page[t].of /\ page'[t].shown = s
      /\ page'[t].loading = l /\ page'[t].confirm = m /\ page'[t].busy = b /\ page'[t].clean = k
  BY <1>1, BecomesFields
<1> QED
  BY <1>1, <1>2 DEF SameTabs, OnJobs, api

Turned(t, s, l, m, b, k) ==
    /\ SameTabs(t) /\ Viewing(t) /\ (OnJobs(t)' => OnJobs(t)) /\ UNCHANGED <<job, proposal>>
    /\ page'[t].at = page[t].at /\ page'[t].of = page[t].of /\ page'[t].shown = s
    /\ page'[t].loading = l /\ page'[t].confirm = m /\ page'[t].busy = b /\ page'[t].clean = k

LEMMA BecomesTurned ==
    ASSUME JobPagesTypeOK, NEW t \in Tabs, NEW s, NEW l, NEW m, NEW b, NEW k, Becomes(t, s, l, m, b, k)
    PROVE  Turned(t, s, l, m, b, k)
BY BecomesTabs DEF Turned

LEMMA StaysTurned ==
    ASSUME NEW t \in Tabs, Viewing(t), UNCHANGED page, UNCHANGED api
    PROVE  Turned(t, page[t].shown, page[t].loading, page[t].confirm, page[t].busy, page[t].clean)
BY DEF Turned, SameTabs, api, OnJobs, Viewing

(* What is shown stays, and so do the answers that will mend it. *)
DoneStays(t, kinds) ==
    \A d \in Own(t) : call[d].stage = "done" /\ call[d].kind \in kinds => d \in Own(t)' /\ call'[d] = call[d]

LEMMA DoneStaysAbout ==
    ASSUME NEW t, NEW kinds, DoneStays(t, kinds), NEW j
    PROVE  DoneAbout(t, j, kinds) => DoneAbout(t, j, kinds)'
BY DEF DoneStays, DoneAbout

MendsStay(t, j, kinds) == DoneAbout(t, j, kinds) => DoneAbout(t, j, kinds)'

LEMMA SameShownTruth ==
    ASSUME JobPagesTypeOK, NEW t \in Tabs, NEW l, NEW m, NEW b, NEW k,
           Turned(t, page[t].shown, l, m, b, k),
           \A j \in k : j \in page[t].clean /\ MendsStay(t, j, {"delete"}),
           \A j \in k : ~l => ~page[t].loading /\ MendsStay(t, j, Mending),
           m # None => m = page[t].confirm /\ DoneStays(t, {"delete"}),
           BusyAt(t)', Truth(t)
    PROVE  Truth(t)'
<1> PICK p : p = page[t]
  OBVIOUS
<1> PICK q : q = page'[t]
  OBVIOUS
<1>1. /\ Viewing(t) /\ UNCHANGED <<job, proposal>> /\ q.at = p.at
      /\ q.shown = p.shown /\ q.loading = l /\ q.confirm = m /\ q.clean = k
  BY DEF Turned
<1>2. ShownAt(t)'
  <2> SUFFICES ASSUME ~l, NEW j \in k, p.shown[j] # None
               PROVE  p.shown[j] = Actual(p, j) \/ DoneAbout(t, j, Mending)'
    BY <1>1 DEF ShownAt, Actual
  <2>1. p.shown[j] = Actual(p, j) \/ DoneAbout(t, j, Mending)
    BY <1>1 DEF Truth, ShownAt
  <2> QED
    BY <2>1 DEF MendsStay
<1>3. StatusAt(t)'
  <2> SUFFICES ASSUME OnJobs(t)', NEW j \in k, p.shown[j] # None
               PROVE  DoneAbout(t, j, {"delete"})' \/ (Exists(j) /\ job[j].status = p.shown[j].status)
    BY <1>1 DEF StatusAt, Exists
  <2>1. OnJobs(t)
    BY <1>1 DEF OnJobs
  <2>2. DoneAbout(t, j, {"delete"}) \/ (Exists(j) /\ job[j].status = p.shown[j].status)
    BY <2>1 DEF Truth, StatusAt
  <2>3. DoneAbout(t, j, {"delete"}) => DoneAbout(t, j, {"delete"})'
    BY DEF MendsStay
  <2> QED
    BY <2>2, <2>3
<1>4. ModalAt(t)'
  <2> SUFFICES ASSUME OnJobs(t)', m # None
               PROVE  /\ p.shown[m.job] # None \/ ~Exists(m.job)
                      /\ m.clean /\ Exists(m.job) => Type(job[m.job].status) = m.type \/ Deleting(t)'
    BY <1>1 DEF ModalAt, Exists
  <2>1. OnJobs(t) /\ m = p.confirm
    BY <1>1 DEF OnJobs
  <2>2. Deleting(t) => Deleting(t)'
    BY DEF Deleting, DoneStays
  <2> QED
    BY <2>1, <2>2 DEF Truth, ModalAt
<1> QED
  BY <1>2, <1>3, <1>4 DEF Truth

(* Each step of a view. *)
LEMMA SameCallsOwn ==
    ASSUME UNCHANGED call
    PROVE  /\ CallsKeep
           /\ \A q : Own(q)' = Own(q) /\ (\A d \in Own(q) : call'[d] = call[d]) /\ Busying(q)' = Busying(q)
           /\ \A q, kinds : DoneStays(q, kinds)
           /\ \A q, j, kinds : DoneAbout(q, j, kinds)' <=> DoneAbout(q, j, kinds)
           /\ \A q : Deleting(q)' <=> Deleting(q)
<1>1. \A q : Own(q)' = Own(q) /\ \A d \in Own(q) : call'[d] = call[d]
  BY DEF Own, Pending
<1> QED
  BY <1>1 DEF CallsKeep, Busying, DoneStays, DoneAbout, Deleting

LEMMA FetchTrue ==
    ASSUME JobPagesTypeOK, NEW t \in Tabs, Fetch(t), Truth(t)
    PROVE  StepTrue(t)
<1> PICK p : p = page[t]
  OBVIOUS
<1> PICK q : q = page'[t]
  OBVIOUS
<1>1. PICK s : s = [j \in JobIds |-> Read(p, j)]
  OBVIOUS
<1>2. p.loading /\ UNCHANGED call /\ Becomes(t, s, FALSE, p.confirm, FALSE, JobIds)
  BY <1>1, FetchEffect
<1>3. /\ SameTabs(t) /\ Viewing(t) /\ (OnJobs(t)' => OnJobs(t)) /\ UNCHANGED <<job, proposal>>
      /\ q.at = p.at /\ q.of = p.of /\ q.shown = s
      /\ q.loading = FALSE /\ q.confirm = p.confirm /\ q.busy = FALSE /\ q.clean = JobIds
  BY <1>2, BecomesTabs
<1>4. /\ CallsKeep
      /\ \A r : Own(r)' = Own(r) /\ (\A d \in Own(r) : call'[d] = call[d]) /\ Busying(r)' = Busying(r)
      /\ Deleting(t)' <=> Deleting(t)
  BY <1>2, SameCallsOwn
<1>5. RowsOK /\ ViewOK(p)
  BY <1>3, ViewingFields DEF JobPagesTypeOK
<1>6. \A j \in JobIds :
          /\ s[j] = Read(p, j)
          /\ s[j] # None => s[j] = Actual(p, j)
          /\ p.at \in JobPageKinds /\ s[j] = None /\ p.of \in {None, j} => job[j] = None
  BY <1>1, <1>5, ReadType DEF Actual
<1>7. ShownAt(t)'
  BY <1>3, <1>6 DEF ShownAt, Actual
<1>8. BusyAt(t)'
  <2>1. OnJobs(t) => Busying(t) = {}
    BY <1>2 DEF Truth, BusyAt
  <2> QED
    BY <1>3, <1>4, <2>1 DEF BusyAt
<1>9. StatusAt(t)'
  <2>1. OnJobs(t) => \A j \in JobIds : s[j] # None => job[j] = s[j]
    BY <1>6 DEF OnJobs, Actual
  <2> QED
    BY <1>3, <2>1 DEF StatusAt, Exists
<1>10. ModalAt(t)'
  <2> SUFFICES ASSUME OnJobs(t)', p.confirm # None
               PROVE  /\ s[p.confirm.job] # None \/ ~Exists(p.confirm.job)
                      /\ p.confirm.clean /\ Exists(p.confirm.job) =>
                            Type(job[p.confirm.job].status) = p.confirm.type \/ Deleting(t)
    BY <1>3, <1>4 DEF ModalAt, Exists
  <2>1. OnJobs(t) /\ p.at \in JobPageKinds
    BY <1>3 DEF OnJobs
  <2>2. PICK i : i = p.confirm.job
    OBVIOUS
  <2>3. /\ i \in JobIds /\ (p.shown[i] # None \/ ~Exists(i))
        /\ p.confirm.clean /\ Exists(i) => Type(job[i].status) = p.confirm.type \/ Deleting(t)
    BY <1>5, <2>1, <2>2 DEF Truth, ModalAt, ViewOK, RowsOK
  <2>4. p.shown[i] # None => p.of \in {None, i}
    BY <1>5, <2>1, <2>3 DEF ViewOK
  <2>5. s[i] # None \/ ~Exists(i)
    BY <1>6, <2>1, <2>3, <2>4 DEF Exists
  <2> QED
    BY <2>2, <2>3, <2>5
<1> QED
  BY <1>3, <1>4, <1>7, <1>8, <1>9, <1>10 DEF StepTrue, SameTabs, SameTab, Truth, api

LEMMA FetchFailsTrue ==
    ASSUME JobPagesTypeOK, NEW t \in Tabs, FetchFails(t), Truth(t)
    PROVE  StepTrue(t)
<1>1. page[t].loading /\ UNCHANGED call
  BY FetchFailsEffect
<1>2. PICK b \in BOOLEAN : b = FALSE
  OBVIOUS
<1>8. PICK k : k = {}
  OBVIOUS
<1>3. Becomes(t, page[t].shown, b, page[t].confirm, b, k)
  BY <1>2, <1>8, FetchFailsEffect
<1>4. /\ SameTabs(t) /\ (OnJobs(t)' => OnJobs(t))
      /\ page'[t].loading = FALSE /\ page'[t].busy = FALSE
  <2> PICK s : s = page[t].shown
    OBVIOUS
  <2> PICK m : m = page[t].confirm
    OBVIOUS
  <2>1. Becomes(t, s, b, m, b, k)
    BY <1>3
  <2> QED
    BY <1>2, <2>1, BecomesTabs
<1>5. /\ CallsKeep
      /\ \A r : Own(r)' = Own(r) /\ (\A d \in Own(r) : call'[d] = call[d]) /\ Busying(r)' = Busying(r)
      /\ \A kinds : DoneStays(t, kinds)
  BY <1>1, SameCallsOwn
<1>6. BusyAt(t)'
  <2>1. OnJobs(t) => Busying(t) = {}
    BY <1>1 DEF Truth, BusyAt
  <2> QED
    BY <1>4, <1>5, <2>1 DEF BusyAt
<1>7. Truth(t)'
  <2>1. Turned(t, page[t].shown, b, page[t].confirm, b, k)
    BY <1>3, BecomesTurned
  <2> QED
    BY <1>5, <1>6, <1>8, <2>1, SameShownTruth
<1> QED
  BY <1>4, <1>5, <1>7 DEF StepTrue, SameTabs, SameTab

LEMMA AskTrue ==
    ASSUME JobPagesTypeOK, NEW t \in Tabs, NEW j \in JobIds, AskToDelete(t, j), Truth(t)
    PROVE  StepTrue(t)
<1> PICK p : p = page[t]
  OBVIOUS
<1> PICK q : q = page'[t]
  OBVIOUS
<1>1. p.shown[j] # None /\ p.at \in JobPageKinds /\ UNCHANGED call
  BY AskEffect
<1>2. PICK m \in Modals :
          /\ m.job = j /\ m.type = Type(p.shown[j].status) /\ m.clean = (j \in p.clean)
          /\ Becomes(t, p.shown, p.loading, m, p.busy, p.clean)
  BY AskEffect
<1>3. /\ SameTabs(t) /\ Viewing(t) /\ (OnJobs(t)' => OnJobs(t)) /\ UNCHANGED <<job, proposal>>
      /\ q.at = p.at /\ q.shown = p.shown /\ q.loading = p.loading /\ q.confirm = m /\ q.busy = p.busy /\ q.clean = p.clean
  <2> PICK s : s = p.shown
    OBVIOUS
  <2>1. Becomes(t, s, p.loading, m, p.busy, p.clean)
    BY <1>2
  <2> QED
    BY <2>1, BecomesTabs
<1>4. /\ CallsKeep
      /\ \A r : Own(r)' = Own(r) /\ (\A d \in Own(r) : call'[d] = call[d]) /\ Busying(r)' = Busying(r)
      /\ \A i, kinds : DoneAbout(t, i, kinds)' <=> DoneAbout(t, i, kinds)
      /\ Deleting(t)' <=> Deleting(t)
  BY <1>1, SameCallsOwn
<1>5. ShownAt(t)'
  BY <1>3, <1>4 DEF Truth, ShownAt, Actual
<1>6. BusyAt(t)'
  BY <1>1, <1>3, <1>4 DEF Truth, BusyAt
<1>7. StatusAt(t)'
  BY <1>3, <1>4 DEF Truth, StatusAt, Exists
<1>8. ModalAt(t)'
  <2> SUFFICES ASSUME OnJobs(t), j \in p.clean
               PROVE  Type(job[j].status) = m.type \/ Deleting(t)
    BY <1>1, <1>2, <1>3, <1>4 DEF ModalAt, Exists
  <2>1. DoneAbout(t, j, {"delete"}) \/ job[j].status = p.shown[j].status
    BY <1>1 DEF Truth, StatusAt
  <2>2. DoneAbout(t, j, {"delete"}) => Deleting(t)
    BY DEF DoneAbout, Deleting
  <2> QED
    BY <1>2, <2>1, <2>2
<1> QED
  BY <1>3, <1>4, <1>5, <1>6, <1>7, <1>8 DEF StepTrue, SameTabs, SameTab, Truth

LEMMA CloseTrue ==
    ASSUME JobPagesTypeOK, NEW t \in Tabs, CloseModal(t), Truth(t)
    PROVE  StepTrue(t)
<1>1. UNCHANGED call /\ Becomes(t, page[t].shown, page[t].loading, None, page[t].busy, page[t].clean)
  BY CloseEffect
<1>2. /\ SameTabs(t) /\ Viewing(t) /\ (OnJobs(t)' => OnJobs(t))
      /\ page'[t].shown = page[t].shown /\ page'[t].loading = page[t].loading
      /\ page'[t].busy = page[t].busy /\ page'[t].confirm = None
  <2> PICK s : s = page[t].shown
    OBVIOUS
  <2> PICK l, b, k : l = page[t].loading /\ b = page[t].busy /\ k = page[t].clean
    OBVIOUS
  <2>1. Becomes(t, s, l, None, b, k)
    BY <1>1
  <2> QED
    BY <2>1, BecomesTabs
<1>3. /\ CallsKeep
      /\ \A r : Own(r)' = Own(r) /\ (\A d \in Own(r) : call'[d] = call[d]) /\ Busying(r)' = Busying(r)
      /\ \A kinds : DoneStays(t, kinds)
  BY <1>1, SameCallsOwn
<1>4. BusyAt(t)'
  BY <1>2, <1>3 DEF Truth, BusyAt
<1>5. Truth(t)'
  <2>3. PICK l, b, k, m : l = page[t].loading /\ b = page[t].busy /\ k = page[t].clean /\ m = None
    OBVIOUS
  <2>1. Turned(t, page[t].shown, l, m, b, k)
    BY <1>1, <2>3, BecomesTurned
  <2>2. /\ \A j \in k : j \in page[t].clean /\ MendsStay(t, j, {"delete"})
        /\ \A j \in k : ~l => ~page[t].loading /\ MendsStay(t, j, Mending)
        /\ m # None => m = page[t].confirm /\ DoneStays(t, {"delete"})
    BY <1>3, <2>3, DoneStaysAbout DEF MendsStay
  <2> QED
    BY <1>4, <2>1, <2>2, SameShownTruth
<1> QED
  BY <1>2, <1>3, <1>5 DEF StepTrue, SameTabs, SameTab

(* A page asks: what it shows stays. *)
LEMMA AsksTrue ==
    ASSUME JobPagesTypeOK, NEW t \in Tabs, NEW c \in Calls, NEW kind, NEW j, NEW type, NEW k, NEW b,
           Asks(t, c, kind, j, type, k),
           kind = "delete" /\ k /\ Exists(j) => Type(job[j].status) = type,
           Turned(t, page[t].shown, page[t].loading, page[t].confirm, b, page[t].clean),
           OnJobs(t) => /\ page[t].loading => page[t].busy
                        /\ kind \in Changing => b /\ ~page[t].busy
                        /\ kind \notin Changing => b = page[t].busy,
           Truth(t)
    PROVE  StepTrue(t)
<1>1. /\ c \notin Own(t) /\ Own(t)' = Own(t) \cup {c}
      /\ \A q \in Tabs : q # t => Own(q)' = Own(q)
      /\ \A d \in Pending : call'[d] = call[d]
      /\ call'[c].kind = kind
  BY AsksOwn
<1>2. CallsKeep
  BY AsksKeep
<1>3. \A kinds : DoneStays(t, kinds)
  BY <1>1 DEF DoneStays, Own
<1>4. /\ SameTabs(t) /\ (OnJobs(t)' => OnJobs(t)) /\ page'[t].loading = page[t].loading
      /\ page'[t].busy = b
  BY DEF Turned
<1>5. BusyAt(t)'
  <2> SUFFICES ASSUME OnJobs(t)'
               PROVE  /\ \A d, e \in Busying(t)' : d = e
                      /\ Busying(t)' # {} => page'[t].busy /\ ~page'[t].loading
                      /\ page'[t].loading => page'[t].busy
    BY DEF BusyAt
  <2>1. OnJobs(t)
    BY <1>4
  <2>2. CASE kind \in Changing
    <3>1. Busying(t) = {} /\ ~page[t].loading
      BY <2>1, <2>2 DEF Truth, BusyAt
    <3>2. Busying(t)' = {c}
      BY <1>1, <2>2, <3>1 DEF Busying, Own
    <3> QED
      BY <1>4, <2>1, <2>2, <3>1, <3>2
  <2>3. CASE kind \notin Changing
    <3>1. Busying(t)' = Busying(t)
      BY <1>1, <2>3 DEF Busying, Own
    <3> QED
      BY <1>4, <2>1, <2>3, <3>1 DEF Truth, BusyAt
  <2> QED
    BY <2>2, <2>3
<1>6. Truth(t)'
  <2>1. PICK l, m, n : l = page[t].loading /\ m = page[t].confirm /\ n = page[t].clean
    OBVIOUS
  <2>2. Turned(t, page[t].shown, l, m, b, n)
    BY <2>1
  <2>3. /\ \A i \in n : i \in page[t].clean /\ MendsStay(t, i, {"delete"})
        /\ \A i \in n : ~l => ~page[t].loading /\ MendsStay(t, i, Mending)
        /\ m # None => m = page[t].confirm /\ DoneStays(t, {"delete"})
    BY <1>3, <2>1, DoneStaysAbout DEF MendsStay
  <2> QED
    BY <1>5, <2>2, <2>3, SameShownTruth
<1> QED
  BY <1>1, <1>2, <1>4, <1>6 DEF StepTrue, SameTabs, SameTab, Own

LEMMA ConfirmTrue ==
    ASSUME JobPagesTypeOK, NEW t \in Tabs, NEW c \in Calls, Confirm(t, c), Truth(t)
    PROVE  StepTrue(t)
<1>1. /\ page[t].confirm # None /\ ~page[t].busy /\ page[t].at \in JobPageKinds
      /\ Asks(t, c, "delete", page[t].confirm.job, page[t].confirm.type, page[t].confirm.clean)
  BY ConfirmEffect
<1>2. PICK b \in BOOLEAN : b = TRUE
  OBVIOUS
<1>3. Becomes(t, page[t].shown, page[t].loading, page[t].confirm, b, page[t].clean)
  BY <1>2, ConfirmEffect
<1>4. Turned(t, page[t].shown, page[t].loading, page[t].confirm, b, page[t].clean) /\ OnJobs(t)
  BY <1>1, <1>3, BecomesTurned DEF Turned, OnJobs
<1>5. PICK j, type, k : j = page[t].confirm.job /\ type = page[t].confirm.type /\ k = page[t].confirm.clean
  OBVIOUS
<1>6. Asks(t, c, "delete", j, type, k)
  BY <1>1, <1>5
<1>7. ~page[t].loading /\ Busying(t) = {}
  BY <1>1, <1>4 DEF Truth, BusyAt
<1>8. ~Deleting(t)
  BY <1>7 DEF Deleting, Busying, Changing
<1>9. k /\ Exists(j) => Type(job[j].status) = type
  BY <1>1, <1>4, <1>5, <1>8 DEF Truth, ModalAt
<1>10. "delete" \in Changing
  BY DEF Changing
<1> QED
  BY <1>1, <1>2, <1>4, <1>6, <1>7, <1>9, <1>10, AsksTrue

LEMMA PauseOrResumeTrue ==
    ASSUME JobPagesTypeOK, NEW t \in Tabs, NEW c \in Calls, NEW j \in JobIds, PauseOrResume(t, j, c), Truth(t)
    PROVE  StepTrue(t)
<1>1. page[t].shown[j] # None /\ ~page[t].busy /\ page[t].at \in JobPageKinds
  BY PauseOrResumeEffect
<1>2. PICK b \in BOOLEAN : b = TRUE
  OBVIOUS
<1>3. PICK kind \in {"pause", "resume"}, k \in BOOLEAN : Asks(t, c, kind, j, None, k)
  BY PauseOrResumeEffect
<1>4. Becomes(t, page[t].shown, page[t].loading, page[t].confirm, b, page[t].clean)
  BY <1>2, PauseOrResumeEffect
<1>5. Turned(t, page[t].shown, page[t].loading, page[t].confirm, b, page[t].clean) /\ OnJobs(t)
  BY <1>1, <1>4, BecomesTurned DEF Turned, OnJobs
<1>6. ~page[t].loading
  BY <1>1, <1>5 DEF Truth, BusyAt
<1>7. kind \in Changing /\ kind # "delete"
  BY DEF Changing
<1> QED
  BY <1>1, <1>2, <1>3, <1>5, <1>6, <1>7, AsksTrue

LEMMA DuplicateTrue ==
    ASSUME JobPagesTypeOK, NEW t \in Tabs, NEW c \in Calls, NEW j \in JobIds, Duplicate(t, j, c), Truth(t)
    PROVE  StepTrue(t)
<1>1. /\ page[t].shown[j] # None /\ ~page[t].busy /\ page[t].at \in JobPageKinds /\ Viewing(t)
      /\ UNCHANGED page /\ UNCHANGED api
  BY DuplicateEffect
<1>2. PICK k \in BOOLEAN : Asks(t, c, "duplicate", j, None, k)
  BY DuplicateEffect
<1>3. Turned(t, page[t].shown, page[t].loading, page[t].confirm, page[t].busy, page[t].clean) /\ OnJobs(t)
  BY <1>1, StaysTurned DEF OnJobs
<1>4. ~page[t].loading
  BY <1>1, <1>3 DEF Truth, BusyAt
<1>5. "duplicate" \notin Changing
  BY DEF Changing
<1> QED
  BY <1>1, <1>2, <1>3, <1>4, <1>5, AsksTrue

LEMMA DecideTrue ==
    ASSUME JobPagesTypeOK, NEW t \in Tabs, NEW c \in Calls, NEW j \in JobIds, NEW v \in ProposalStatuses,
           Decide(t, j, c, v), Truth(t)
    PROVE  StepTrue(t)
<1>1. page[t].at \notin JobPageKinds /\ Viewing(t) /\ UNCHANGED page /\ UNCHANGED api
  BY DecideEffect
<1>2. PICK k \in BOOLEAN : Asks(t, c, v, j, None, k)
  BY DecideEffect
<1>3. Turned(t, page[t].shown, page[t].loading, page[t].confirm, page[t].busy, page[t].clean) /\ ~OnJobs(t)
  BY <1>1, StaysTurned DEF OnJobs
<1>4. v # "delete"
  BY DEF ProposalStatuses, Verdicts
<1> QED
  BY <1>2, <1>3, <1>4, AsksTrue

(* An answer comes to the page that asked. *)
LEMMA EndsDone ==
    ASSUME JobPagesTypeOK, NEW c \in Calls, Ends(c), NEW t
    PROVE  /\ \A j, kinds : DoneAbout(t, j, kinds) =>
                 DoneAbout(t, j, kinds)' \/ (call[c].stage = "done" /\ call[c].job = j /\ call[c].kind \in kinds)
           /\ Deleting(t) => Deleting(t)' \/ (call[c].stage = "done" /\ call[c].kind = "delete")
           /\ \A kinds : ~(call[c].stage = "done" /\ call[c].kind \in kinds) => DoneStays(t, kinds)
<1>1. Own(t)' = Own(t) \ {c} /\ \A d \in Own(t) : d # c => call'[d] = call[d]
  BY EndsOwn DEF Own, Pending
<1> QED
  BY <1>1 DEF DoneAbout, Deleting, DoneStays

LEMMA EndsBusy ==
    ASSUME JobPagesTypeOK, NEW c \in Calls, Ends(c), NEW t \in Tabs, c \in Own(t), BusyAt(t),
           NEW s, NEW l, NEW m, NEW b, NEW k, Turned(t, s, l, m, b, k),
           call[c].kind \in Changing => l = page[t].loading \/ b = page[t].busy,
           call[c].kind \notin Changing => l = page[t].loading /\ b = page[t].busy
    PROVE  BusyAt(t)'
<1>1. Own(t)' = Own(t) \ {c} /\ \A d \in Own(t) : d # c => call'[d] = call[d]
  BY EndsOwn DEF Own, Pending
<1>2. Busying(t)' = Busying(t) \ {c}
  BY <1>1 DEF Busying
<1> SUFFICES ASSUME OnJobs(t)'
             PROVE  /\ \A d, e \in Busying(t)' : d = e
                    /\ Busying(t)' # {} => b /\ ~l
                    /\ l => b
  BY DEF BusyAt, Turned
<1>3. /\ OnJobs(t) /\ (\A d, e \in Busying(t) : d = e)
      /\ Busying(t) # {} => page[t].busy /\ ~page[t].loading
      /\ page[t].loading => page[t].busy
  BY DEF Turned, BusyAt
<1>4. CASE call[c].kind \in Changing
  <2>1. c \in Busying(t)
    BY <1>4 DEF Busying
  <2>2. Busying(t)' = {}
    BY <1>2, <1>3, <2>1
  <2> QED
    BY <1>3, <1>4, <2>1, <2>2
<1>5. CASE call[c].kind \notin Changing
  BY <1>2, <1>3, <1>5
<1> QED
  BY <1>4, <1>5

LEMMA EndsStep ==
    ASSUME JobPagesTypeOK, NEW c \in Calls, Ends(c), NEW t \in Tabs, c \in Own(t), Truth(t)',
           SameTabs(t)
    PROVE  StepTrue(t)
<1>1. call[c].here => call[c].tab = t
  BY DEF Own
<1>2. \A q \in Tabs : q # t => Own(q)' = Own(q) /\ \A d \in Own(q) : call'[d] = call[d]
  BY <1>1, EndsElsewhere
<1> QED
  BY <1>2, EndsOwn DEF StepTrue, SameTabs, SameTab

LEMMA DeletedTrue ==
    ASSUME JobPagesTypeOK, NEW c \in Calls, Deleted(c), NEW t \in Tabs, t = call[c].tab, Truth(t)
    PROVE  StepTrue(t)
<1>1. /\ Ends(c) /\ c \in Own(t) /\ call[c].kind = "delete" /\ call[c].stage = "done" /\ call[c].job \in JobIds
  BY DeletedEffect
<1>2. PICK s : /\ s = [page[t].shown EXCEPT ![call[c].job] = None]
               /\ Becomes(t, s, page[t].loading, None, FALSE, page[t].clean)
  BY DeletedEffect
<1>3. PICK l, m, b, k : l = page[t].loading /\ m = None /\ b = FALSE /\ k = page[t].clean
  OBVIOUS
<1>4. Turned(t, s, l, m, b, k)
  BY <1>2, <1>3, BecomesTurned
<1>5. \A j \in JobIds : s[j] # None => j # call[c].job /\ s[j] = page[t].shown[j]
  <2>1. page[t].shown \in Shows(page[t].at)
    BY <1>4, ViewingFields DEF Turned
  <2> QED
    BY <1>1, <1>2, <2>1 DEF Shows
<1>6. \A j, kinds : j # call[c].job /\ DoneAbout(t, j, kinds) => DoneAbout(t, j, kinds)'
  BY <1>1, EndsDone
<1>11. k \subseteq JobIds
  BY <1>3, <1>4, ViewingFields DEF Turned
<1>7. ShownAt(t)'
  BY <1>3, <1>4, <1>5, <1>6, <1>11 DEF Truth, ShownAt, Turned, Actual
<1>8. BusyAt(t)'
  BY <1>1, <1>3, <1>4, EndsBusy DEF Truth, Changing
<1>9. StatusAt(t)'
  BY <1>3, <1>4, <1>5, <1>6, <1>11 DEF Truth, StatusAt, Turned, Exists
<1>10. ModalAt(t)'
  BY <1>3, <1>4 DEF ModalAt, Turned
<1> QED
  BY <1>1, <1>4, <1>7, <1>8, <1>9, <1>10, EndsStep DEF Truth, Turned

(* An answer that is taken into what is shown, and is as stored. *)
LEMMA TakenTrue ==
    ASSUME JobPagesTypeOK, NEW c \in Calls, Ends(c), NEW t \in Tabs, c \in Own(t), Truth(t),
           NEW i \in JobIds, NEW x, x # None, NEW k,
           NEW s, s = [page[t].shown EXCEPT ![i] = x],
           Turned(t, s, page[t].loading, page[t].confirm, page[t].busy, k),
           call[c].kind \notin Changing, k \subseteq JobIds,
           \A j \in k : IF j = i THEN x = Actual(page[t], i) ELSE j \in page[t].clean,
           call[c].kind \in ProposalStatuses => i = call[c].job
    PROVE  StepTrue(t)
<1>1. page[t].shown \in Shows(page[t].at)
  BY ViewingFields DEF Turned
<1>2. s[i] = x /\ \A j \in JobIds : j # i => s[j] = page[t].shown[j]
  BY <1>1 DEF Shows
<1>3. \A j : j # i /\ DoneAbout(t, j, Mending) => DoneAbout(t, j, Mending)'
  <2>1. PICK kinds : kinds = Mending
    OBVIOUS
  <2>2. call[c].kind \in kinds => i = call[c].job
    BY <2>1 DEF Mending
  <2>3. \A j : j # i /\ DoneAbout(t, j, kinds) => DoneAbout(t, j, kinds)'
    BY <2>2, EndsDone
  <2> QED
    BY <2>1, <2>3
<1>4. /\ \A j : DoneAbout(t, j, {"delete"}) => DoneAbout(t, j, {"delete"})'
      /\ Deleting(t) => Deleting(t)'
  <2>1. call[c].kind # "delete"
    BY DEF Changing
  <2>2. PICK kinds : kinds = {"delete"}
    OBVIOUS
  <2>5. ~(call[c].stage = "done" /\ call[c].kind \in kinds)
    BY <2>1, <2>2
  <2>3. \A j : DoneAbout(t, j, kinds) => DoneAbout(t, j, kinds)'
    BY <2>5, EndsDone, DoneStaysAbout
  <2>4. Deleting(t) => Deleting(t)'
    BY <2>1, EndsDone
  <2> QED
    BY <2>2, <2>3, <2>4
<1>5. ShownAt(t)'
  BY <1>2, <1>3 DEF Truth, ShownAt, Turned, Actual
<1>6. BusyAt(t)'
  <2>1. PICK l, m, b : l = page[t].loading /\ m = page[t].confirm /\ b = page[t].busy
    OBVIOUS
  <2>2. Turned(t, s, l, m, b, k)
    BY <2>1
  <2> QED
    BY <2>1, <2>2, EndsBusy DEF Truth
<1>7. StatusAt(t)'
  <2> SUFFICES ASSUME OnJobs(t), NEW j \in k, s[j] # None, ~DoneAbout(t, j, {"delete"})'
               PROVE  Exists(j) /\ job[j].status = s[j].status
    BY DEF StatusAt, Turned, Exists
  <2>1. CASE j = i
    BY <1>2, <2>1 DEF OnJobs, Actual, Exists
  <2>2. CASE j # i
    BY <1>2, <1>4, <2>2 DEF Truth, StatusAt
  <2> QED
    BY <2>1, <2>2
<1>8. ModalAt(t)'
  <2> SUFFICES ASSUME OnJobs(t), page[t].confirm # None
               PROVE  /\ s[page[t].confirm.job] # None \/ ~Exists(page[t].confirm.job)
                      /\ page[t].confirm.clean /\ Exists(page[t].confirm.job) =>
                            Type(job[page[t].confirm.job].status) = page[t].confirm.type \/ Deleting(t)'
    BY DEF ModalAt, Turned, Exists
  <2>1. PICK j : j = page[t].confirm.job
    OBVIOUS
  <2>2. j \in JobIds
    BY <2>1, ViewingFields DEF OnJobs, JobPagesTypeOK, RowsOK
  <2>3. /\ page[t].shown[j] # None \/ ~Exists(j)
        /\ page[t].confirm.clean /\ Exists(j) => Type(job[j].status) = page[t].confirm.type \/ Deleting(t)
    BY <2>1 DEF Truth, ModalAt
  <2> QED
    BY <1>2, <1>4, <2>1, <2>2, <2>3
<1> QED
  BY <1>5, <1>6, <1>7, <1>8, EndsStep DEF Truth, Turned

LEMMA DuplicatedTrue ==
    ASSUME JobPagesTypeOK, NEW c \in Calls, Duplicated(c), NEW t \in Tabs, t = call[c].tab, Truth(t), CopiesTrue
    PROVE  StepTrue(t)
<1>1. /\ Ends(c) /\ c \in Own(t) /\ call[c].kind = "duplicate" /\ call[c].stage = "done" /\ call[c].new \in JobIds
      /\ page[t].at \in JobPageKinds /\ call[c].row # None
  BY DuplicatedEffect DEF JobPageKinds
<1>2. PICK s : /\ s = [page[t].shown EXCEPT ![call[c].new] = call[c].row]
               /\ Becomes(t, s, page[t].loading, page[t].confirm, page[t].busy, Learnt(page[t].clean, call[c].new, call[c].clean))
  BY DuplicatedEffect
<1>3. PICK k : k = Learnt(page[t].clean, call[c].new, call[c].clean)
  OBVIOUS
<1>4. Turned(t, s, page[t].loading, page[t].confirm, page[t].busy, k)
  BY <1>2, <1>3, BecomesTurned
<1>5. PICK i \in JobIds : i = call[c].new
  BY <1>1
<1>6. PICK x : x = call[c].row
  OBVIOUS
<1>7. x # None /\ s = [page[t].shown EXCEPT ![i] = x]
  BY <1>1, <1>2, <1>5, <1>6
<1>8. page[t].clean \in SUBSET JobIds /\ call[c].clean \in BOOLEAN
  <2>1. Viewing(t) /\ c \in Pending
    BY <1>1, <1>4 DEF Turned, Own
  <2> QED
    BY <2>1, ViewingFields, FormKinds DEF CallOK, AllCalls
<1>12. call[c].clean => x = Actual(page[t], i)
  BY <1>1, <1>5, <1>6 DEF CopiesTrue, Actual, Own
<1>9. k \subseteq JobIds /\ \A j \in k : IF j = i THEN x = Actual(page[t], i) ELSE j \in page[t].clean
  BY <1>3, <1>5, <1>8, <1>12, LearntJobs
<1>10. call[c].kind \notin Changing /\ (call[c].kind \in ProposalStatuses => i = call[c].job)
  BY <1>1 DEF Changing, ProposalStatuses, Verdicts
<1>11. Ends(c) /\ c \in Own(t)
  BY <1>1
<1> QED
  BY <1>4, <1>7, <1>9, <1>10, <1>11, TakenTrue

LEMMA DecidedTrue ==
    ASSUME JobPagesTypeOK, NEW c \in Calls, Decided(c), NEW t \in Tabs, t = call[c].tab, Truth(t), VerdictsTrue
    PROVE  StepTrue(t)
<1>1. /\ Ends(c) /\ c \in Own(t) /\ call[c].kind \in ProposalStatuses /\ call[c].stage = "done"
      /\ call[c].job \in JobIds /\ page[t].at \notin JobPageKinds
  BY DecidedEffect
<1>2. PICK s : /\ s = [page[t].shown EXCEPT ![call[c].job] = call[c].kind]
               /\ Becomes(t, s, page[t].loading, page[t].confirm, page[t].busy, Learnt(page[t].clean, call[c].job, call[c].clean))
  BY DecidedEffect
<1>3. PICK k : k = Learnt(page[t].clean, call[c].job, call[c].clean)
  OBVIOUS
<1>4. Turned(t, s, page[t].loading, page[t].confirm, page[t].busy, k)
  BY <1>2, <1>3, BecomesTurned
<1>5. PICK i \in JobIds : i = call[c].job
  BY <1>1
<1>6. PICK x : x = call[c].kind
  OBVIOUS
<1>7. x # None /\ s = [page[t].shown EXCEPT ![i] = x]
  BY <1>1, <1>2, <1>5, <1>6, JobPagesAssumption
<1>8. page[t].clean \in SUBSET JobIds /\ call[c].clean \in BOOLEAN
  <2>1. Viewing(t) /\ c \in Pending
    BY <1>1, <1>4 DEF Turned, Own
  <2> QED
    BY <2>1, ViewingFields, FormKinds DEF CallOK, AllCalls
<1>12. call[c].clean => x = Actual(page[t], i)
  BY <1>1, <1>5, <1>6 DEF VerdictsTrue, Actual, Own
<1>9. k \subseteq JobIds /\ \A j \in k : IF j = i THEN x = Actual(page[t], i) ELSE j \in page[t].clean
  BY <1>3, <1>5, <1>8, <1>12, LearntJobs
<1>10. call[c].kind \notin Changing /\ (call[c].kind \in ProposalStatuses => i = call[c].job)
  BY <1>1, <1>5 DEF Changing, ProposalStatuses, Verdicts
<1>11. Ends(c) /\ c \in Own(t)
  BY <1>1
<1> QED
  BY <1>4, <1>7, <1>9, <1>10, <1>11, TakenTrue

LEMMA PausedTrue ==
    ASSUME JobPagesTypeOK, NEW c \in Calls, PausedOrResumed(c), NEW t \in Tabs, t = call[c].tab, Truth(t)
    PROVE  StepTrue(t)
<1>1. Ends(c) /\ c \in Own(t) /\ call[c].kind \in {"pause", "resume"}
  BY PausedEffect
<1>2. PICK l, m, b, k : l = TRUE /\ m = page[t].confirm /\ b = page[t].busy /\ k = page[t].clean
  OBVIOUS
<1>3. Becomes(t, page[t].shown, l, m, b, k)
  BY <1>2, PausedEffect
<1>4. Turned(t, page[t].shown, l, m, b, k)
  BY <1>3, BecomesTurned
<1>5. DoneStays(t, {"delete"})
  <2>1. ~(call[c].stage = "done" /\ call[c].kind \in {"delete"})
    BY <1>1
  <2> QED
    BY <1>1, <2>1, EndsDone
<1>6. BusyAt(t)'
  <2>1. PICK s : s = page[t].shown
    OBVIOUS
  <2>2. Turned(t, s, l, m, b, k)
    BY <1>4, <2>1
  <2>3. b = page[t].busy /\ call[c].kind \in Changing
    BY <1>1, <1>2 DEF Changing
  <2> QED
    BY <1>1, <2>2, <2>3, EndsBusy DEF Truth
<1>7. Truth(t)'
  <2>1. /\ \A j \in k : j \in page[t].clean /\ MendsStay(t, j, {"delete"})
        /\ l
        /\ m # None => m = page[t].confirm /\ DoneStays(t, {"delete"})
    BY <1>2, <1>5, DoneStaysAbout DEF MendsStay
  <2> QED
    BY <1>4, <1>6, <2>1, SameShownTruth
<1> QED
  BY <1>1, <1>4, <1>7, EndsStep DEF Turned

LEMMA SettlesTrue ==
    ASSUME JobPagesTypeOK, NEW c \in Calls, Ends(c), NEW t \in Tabs, c \in Own(t), Truth(t),
           NEW k, ViewSettles(c, k), k \subseteq page[t].clean,
           call[c].stage = "refused" \/ call[c].job \notin k
    PROVE  StepTrue(t)
<1>1. t = call[c].tab /\ (call[c].kind \in {"delete", "pause", "resume"} <=> call[c].kind \in Changing)
  BY DEF Own, Changing
<1>2. PICK m \in {page[t].confirm, None}, b \in BOOLEAN :
          /\ Becomes(t, page[t].shown, page[t].loading, m, b, k)
          /\ call[c].kind = "delete" => m = None
          /\ call[c].kind # "delete" => m = page[t].confirm
          /\ b = IF call[c].kind \in {"delete", "pause", "resume"} THEN FALSE ELSE page[t].busy
  BY <1>1 DEF ViewSettles
<1>3. PICK l : l = page[t].loading
  OBVIOUS
<1>4. Turned(t, page[t].shown, l, m, b, k)
  BY <1>2, <1>3, BecomesTurned
<1>5. /\ \A j \in k : \A kinds : MendsStay(t, j, kinds)
      /\ m # None => DoneStays(t, {"delete"})
  <2>1. m # None => ~(call[c].stage = "done" /\ call[c].kind \in {"delete"})
    BY <1>2
  <2>2. ASSUME NEW j \in k, NEW kinds PROVE MendsStay(t, j, kinds)
    <3>1. ~(call[c].stage = "done" /\ call[c].kind \in kinds) \/ j # call[c].job
      OBVIOUS
    <3> QED
      BY <3>1, EndsDone, DoneStaysAbout DEF MendsStay
  <2> QED
    BY <2>1, <2>2, EndsDone
<1>6. BusyAt(t)'
  <2>1. PICK s : s = page[t].shown
    OBVIOUS
  <2>2. Turned(t, s, l, m, b, k)
    BY <1>4, <2>1
  <2>3. call[c].kind \notin Changing => b = page[t].busy
    BY <1>1, <1>2
  <2> QED
    BY <1>3, <2>2, <2>3, EndsBusy DEF Truth
<1>7. Truth(t)'
  <2>1. /\ \A j \in k : j \in page[t].clean /\ MendsStay(t, j, {"delete"})
        /\ \A j \in k : ~l => ~page[t].loading /\ MendsStay(t, j, Mending)
        /\ m # None => m = page[t].confirm /\ DoneStays(t, {"delete"})
    BY <1>3, <1>5
  <2> QED
    BY <1>4, <1>6, <2>1, SameShownTruth
<1> QED
  BY <1>4, <1>7, EndsStep DEF Turned

(* Steps that touch no list: of forms, and of pages that were left. *)
LEMMA QuietPagesTrue ==
    ASSUME PagesTrue, UNCHANGED api, CallsKeep, \A q \in Tabs : SameTab(q) \/ ~Viewing(q)'
    PROVE  PagesTrue'
<1>1. CopiesTrue' /\ VerdictsTrue' /\ DeletesTrue'
  BY CallsKeepTrue DEF PagesTrue
<1>2. ASSUME NEW q \in Tabs PROVE Truth(q)'
  <2>1. Truth(q)
    BY DEF PagesTrue
  <2> QED
    BY <2>1, SameTabTruth, NoViewTruth
<1> QED
  BY <1>1, <1>2 DEF PagesTrue

LEMMA ReformsTabs ==
    ASSUME JobPagesTypeOK, NEW t \in Tabs, NEW p, Reforms(t, p)
    PROVE  UNCHANGED api /\ ~Viewing(t)' /\ \A q \in Tabs : q # t => page'[q] = page[q]
<1>1. Posting(t)' /\ \A q \in Tabs : q # t => page'[q] = page[q]
  BY ReformsForms
<1> QED
  BY <1>1 DEF Reforms, Puts, Viewing, Posting

LEMMA FormStepsTrue ==
    ASSUME JobPagesTypeOK, PagesTrue, NEW t \in Tabs, PressForm(t)
    PROVE  PagesTrue'
<1>1. CASE Write(t) \/ RestoreDraft(t) \/ DiscardDraft(t)
  <2>1. PICK p : Reforms(t, p) /\ UNCHANGED call
    BY <1>1, WriteEffect, RestoreEffect, DiscardEffect
  <2>2. UNCHANGED api /\ ~Viewing(t)' /\ \A q \in Tabs : q # t => page'[q] = page[q]
    BY <2>1, ReformsTabs
  <2>3. CallsKeep /\ \A q \in Tabs : Own(q)' = Own(q) /\ \A d \in Own(q) : call'[d] = call[d]
    BY <2>1, SameCallsOwn
  <2>4. \A q \in Tabs : SameTab(q) \/ ~Viewing(q)'
    BY <2>2, <2>3 DEF SameTab
  <2> QED
    BY <2>2, <2>3, <2>4, QuietPagesTrue
<1>2. CASE Autosave(t)
  <2>1. UNCHANGED <<api, page, call>>
    BY <1>2, AutosaveEffect
  <2>2. CallsKeep /\ \A q \in Tabs : Own(q)' = Own(q) /\ \A d \in Own(q) : call'[d] = call[d]
    BY <2>1, SameCallsOwn
  <2>3. \A q \in Tabs : SameTab(q)
    BY <2>1, <2>2 DEF SameTab
  <2> QED
    BY <2>1, <2>2, <2>3, QuietPagesTrue
<1>3. ASSUME NEW c \in Calls, SaveDraft(t, c) \/ Publish(t, c) PROVE PagesTrue'
  <2>1. PICK p : Reforms(t, p)
    BY <1>3, SendFormEffect
  <2>2. UNCHANGED api /\ ~Viewing(t)' /\ \A q \in Tabs : q # t => page'[q] = page[q]
    BY <2>1, ReformsTabs
  <2>3. PICK kind \in Creations, k \in BOOLEAN : Asks(t, c, kind, None, None, k)
    BY <1>3, SendFormEffect
  <2>4. kind # "delete"
    BY DEF Creations
  <2>5. CallsKeep
    BY <2>3, <2>4, AsksKeep
  <2>6. \A q \in Tabs : q # t => Own(q)' = Own(q) /\ \A d \in Own(q) : call'[d] = call[d]
    <3>1. /\ \A q \in Tabs : q # t => Own(q)' = Own(q)
          /\ \A d \in Pending : call'[d] = call[d]
      BY <2>3, AsksOwn
    <3> QED
      BY <3>1 DEF Own
  <2>7. \A q \in Tabs : SameTab(q) \/ ~Viewing(q)'
    BY <2>2, <2>6 DEF SameTab
  <2> QED
    BY <2>2, <2>5, <2>7, QuietPagesTrue
<1> QED
  BY <1>1, <1>2, <1>3 DEF PressForm

LEMMA FormSettlesTrue ==
    ASSUME JobPagesTypeOK, PagesTrue, NEW c \in Calls, Ends(c), FormSettles(c), UNCHANGED api
    PROVE  PagesTrue'
<1>1. c \in Pending /\ CallsKeep
  BY EndsOwn DEF Ends
<1>2. CASE ~call[c].here /\ UNCHANGED page
  <2>1. \A q \in Tabs : Own(q)' = Own(q) /\ \A d \in Own(q) : call'[d] = call[d]
    <3>1. \A q \in Tabs : c \notin Own(q)
      BY <1>2 DEF Own
    <3> QED
      BY <3>1, EndsOwn DEF Own, Pending
  <2>2. \A q \in Tabs : SameTab(q)
    BY <1>2, <2>1 DEF SameTab
  <2> QED
    BY <1>1, <2>2, QuietPagesTrue
<1>3. CASE call[c].here /\ \E p : Reforms(call[c].tab, p)
  <2>1. PICK t \in Tabs : t = call[c].tab
    BY <1>1, <1>3, OwnCall
  <2>2. PICK p : Reforms(t, p)
    BY <1>3, <2>1
  <2>3. ~Viewing(t)' /\ \A q \in Tabs : q # t => page'[q] = page[q]
    BY <2>2, ReformsTabs
  <2>4. \A q \in Tabs : q # t => Own(q)' = Own(q) /\ \A d \in Own(q) : call'[d] = call[d]
    BY <2>1, EndsElsewhere
  <2>5. \A q \in Tabs : SameTab(q) \/ ~Viewing(q)'
    BY <2>3, <2>4 DEF SameTab
  <2> QED
    BY <1>1, <2>5, QuietPagesTrue
<1> QED
  BY <1>2, <1>3 DEF FormSettles

LEMMA CreatedTrue ==
    ASSUME JobPagesTypeOK, PagesTrue, NEW c \in Calls, Created(c)
    PROVE  PagesTrue'
<1>1. /\ call[c].kind = "create" /\ c \in Pending /\ UNCHANGED <<api, page>>
      /\ call'[c] # None /\ call'[c].kind = "publish" /\ call'[c].here = call[c].here
      /\ call'[c].tab = call[c].tab /\ call'[c].from = call[c].from
      /\ \A q \in Calls : q # c => call'[q] = call[q]
  BY CreatedEffect
<1>2. call'[c].stage = "sent"
  BY DEF Created, Answered, Is, Pending, JobPagesTypeOK, CallsOK, CallOK, AllCalls
<1>3. CallsKeep
  BY <1>1, <1>2 DEF CallsKeep
<1>4. \A q \in Tabs : Own(q)' = Own(q)
  BY <1>1 DEF Own, Pending
<1>5. \A q \in Tabs : c \in Own(q) => ~Viewing(q)'
  <2>1. ASSUME NEW q \in Tabs, c \in Own(q) PROVE ~Viewing(q)'
    <3>1. call[c].here /\ call[c].tab = q
      BY <2>1 DEF Own
    <3>2. call[c].from = "post"
      BY <1>1, FormKinds DEF Creations
    <3>3. page[q].at = "post"
      BY <1>1, <3>1, <3>2, OwnCall
    <3> QED
      BY <1>1, <3>3 DEF Viewing
  <2> QED
    BY <2>1
<1>6. \A q \in Tabs : SameTab(q) \/ ~Viewing(q)'
  <2>1. ASSUME NEW q \in Tabs, c \notin Own(q) PROVE SameTab(q)
    <3>1. \A d \in Own(q) : call'[d] = call[d]
      BY <1>1, <2>1 DEF Own, Pending
    <3> QED
      BY <1>1, <1>4, <3>1 DEF SameTab
  <2> QED
    BY <1>5, <2>1
<1> QED
  BY <1>1, <1>3, <1>6, QuietPagesTrue

LEMMA FailsTrue ==
    ASSUME JobPagesTypeOK, PagesTrue, NEW c \in Calls, Refused(c) \/ Lost(c)
    PROVE  PagesTrue'
<1>1. c \in Pending /\ Ends(c) /\ UNCHANGED api
  BY FailsEffect
<1>2. CASE ~call[c].here /\ UNCHANGED page
  BY <1>1, <1>2, FormSettlesTrue DEF FormSettles
<1>3. CASE FormSettles(c)
  BY <1>1, <1>3, FormSettlesTrue
<1>4. CASE /\ call[c].here
           /\ \/ ViewSettles(c, page[call[c].tab].clean) /\ call[c].stage = "refused"
              \/ ViewSettles(c, page[call[c].tab].clean \ {call[c].job})
  <2>1. PICK t \in Tabs : t = call[c].tab
    BY <1>1, <1>4, OwnCall
  <2>2. PICK k : ViewSettles(c, k) /\ k \subseteq page[t].clean /\ (call[c].stage = "refused" \/ call[c].job \notin k)
    <3>1. CASE ViewSettles(c, page[t].clean) /\ call[c].stage = "refused"
      BY <3>1
    <3>2. CASE ViewSettles(c, page[t].clean \ {call[c].job})
      BY <3>2
    <3> QED
      BY <1>4, <2>1, <3>1, <3>2
  <2>3. c \in Own(t) /\ Truth(t)
    BY <1>1, <1>4, <2>1 DEF Own, PagesTrue
  <2>4. StepTrue(t)
    BY <1>1, <2>2, <2>3, SettlesTrue
  <2> QED
    BY <2>4, StepPagesTrue
<1> QED
  BY <1>2, <1>3, <1>4, FailsEffect

LEMMA AnswersTrue ==
    ASSUME JobPagesTypeOK, PagesTrue, NEW c \in Calls, Answer(c)
    PROVE  PagesTrue'
<1> CopiesTrue /\ VerdictsTrue /\ \A t \in Tabs : Truth(t)
  BY DEF PagesTrue
<1>1. CASE Deleted(c)
  <2>1. PICK t \in Tabs : t = call[c].tab
    BY <1>1, DeletedEffect
  <2>2. StepTrue(t)
    BY <1>1, <2>1, DeletedTrue
  <2> QED
    BY <2>2, StepPagesTrue
<1>2. CASE Duplicated(c)
  <2>1. PICK t \in Tabs : t = call[c].tab
    BY <1>2, DuplicatedEffect
  <2>2. StepTrue(t)
    BY <1>2, <2>1, DuplicatedTrue
  <2> QED
    BY <2>2, StepPagesTrue
<1>3. CASE GoOn(c)
  <2>1. PICK t \in Tabs : t = call[c].tab /\ Replaces(t)
    BY <1>3, GoOnEffect
  <2>2. StepTrue(t)
    BY <2>1, ReplacesTrue
  <2> QED
    BY <2>2, StepPagesTrue
<1>4. CASE PausedOrResumed(c)
  <2>1. PICK t \in Tabs : t = call[c].tab
    BY <1>4, PausedEffect
  <2>2. StepTrue(t)
    BY <1>4, <2>1, PausedTrue
  <2> QED
    BY <2>2, StepPagesTrue
<1>5. CASE Decided(c)
  <2>1. PICK t \in Tabs : t = call[c].tab
    BY <1>5, DecidedEffect
  <2>2. StepTrue(t)
    BY <1>5, <2>1, DecidedTrue
  <2> QED
    BY <2>2, StepPagesTrue
<1>6. CASE Saved(c)
  <2>1. Ends(c) /\ FormSettles(c) /\ UNCHANGED api
    BY <1>6, SavedEffect
  <2> QED
    BY <2>1, FormSettlesTrue
<1>7. CASE Created(c)
  BY <1>7, CreatedTrue
<1>8. CASE Refused(c) \/ Lost(c)
  BY <1>8, FailsTrue
<1> QED
  BY <1>1, <1>2, <1>3, <1>4, <1>5, <1>6, <1>7, <1>8 DEF Answer

LEMMA PressesTrue ==
    ASSUME JobPagesTypeOK, PagesTrue, NEW t \in Tabs, Press(t) \/ Crash(t) \/ Fetch(t) \/ FetchFails(t)
    PROVE  PagesTrue'
<1> Truth(t)
  BY DEF PagesTrue
<1> SUFFICES StepTrue(t)
  BY StepPagesTrue
<1>1. CASE Follow(t) \/ Unload(t) \/ Crash(t)
  BY <1>1, FollowEffect, UnloadEffect, ReplacesTrue
<1>2. CASE CloseModal(t) \/ \E j \in JobIds : AskToDelete(t, j)
  BY <1>2, CloseTrue, AskTrue
<1>3. CASE \E c \in Calls : Confirm(t, c)
  BY <1>3, ConfirmTrue
<1>4. ASSUME NEW j \in JobIds, NEW c \in Calls,
             PauseOrResume(t, j, c) \/ Duplicate(t, j, c) \/ \E v \in ProposalStatuses : Decide(t, j, c, v)
      PROVE  StepTrue(t)
  BY <1>4, PauseOrResumeTrue, DuplicateTrue, DecideTrue
<1>5. CASE Fetch(t) \/ FetchFails(t)
  BY <1>5, FetchTrue, FetchFailsTrue
<1> QED
  BY <1>1, <1>2, <1>3, <1>4, <1>5 DEF Press

LEMMA PagesTrueStep ==
    ASSUME JobPagesTypeOK, PagesTrue, [JobPagesNext]_jobPagesVars
    PROVE  PagesTrue'
<1>1. CASE UNCHANGED jobPagesVars
  <2>1. UNCHANGED api /\ UNCHANGED page /\ UNCHANGED call
    BY <1>1 DEF jobPagesVars
  <2>2. CallsKeep /\ \A q \in Tabs : Own(q)' = Own(q) /\ \A d \in Own(q) : call'[d] = call[d]
    BY <2>1, SameCallsOwn
  <2>3. \A q \in Tabs : SameTab(q)
    BY <2>1, <2>2 DEF SameTab
  <2> QED
    BY <2>1, <2>2, <2>3, QuietPagesTrue
<1>2. CASE Others
  BY <1>2, OthersPagesTrue
<1>3. ASSUME NEW c \in Calls, Api(c) PROVE PagesTrue'
  BY <1>3, ApiServes, ServedPagesTrue
<1>4. ASSUME NEW c \in Calls, Answer(c) PROVE PagesTrue'
  BY <1>4, AnswersTrue
<1>5. ASSUME NEW t \in Tabs, Press(t) \/ PressForm(t) \/ Crash(t) \/ Fetch(t) \/ FetchFails(t)
      PROVE  PagesTrue'
  BY <1>5, PressesTrue, FormStepsTrue
<1> QED
  BY <1>1, <1>2, <1>3, <1>4, <1>5 DEF JobPagesNext

LEMMA PagesTrueInit ==
    ASSUME JobPagesInit
    PROVE  PagesTrue
<1>1. Pending = {} /\ \A t \in Tabs : page[t] = None
  BY DEF JobPagesInit, Pending
<1>2. \A t \in Tabs : Truth(t)
  BY <1>1 DEF Truth, ShownAt, BusyAt, StatusAt, ModalAt, OnJobs, Viewing
<1> QED
  BY <1>1, <1>2 DEF PagesTrue, CopiesTrue, VerdictsTrue, DeletesTrue

(* In every run, a page that waits for nothing shows a job or a proposal as it
   is stored: for any number of tabs, jobs and calls, in whatever order the
   calls are served.  Excused is one that others have changed since the page
   read it, one about which an answer was lost, one of which the page heard
   last an answer that another change had overtaken (of two verdicts, the one
   that was served first), and all of them after a reading that failed. *)
THEOREM WhatIsShownIsTrue == JobPagesSpec => []ShownIsTrue
<1>1. JobPagesInit => PagesTrue
  BY PagesTrueInit
<1>2. JobPagesTypeOK /\ PagesTrue /\ [JobPagesNext]_jobPagesVars => PagesTrue'
  BY PagesTrueStep
<1>3. PagesTrue => ShownIsTrue
  <2>1. \A t, j : Own(t) = {} => ~DoneAbout(t, j, Mending)
    BY DEF DoneAbout
  <2> QED
    BY <2>1 DEF PagesTrue, Truth, ShownAt, ShownIsTrue, Actual
<1> QED
  BY <1>1, <1>2, <1>3, JobPagesTypeCorrect, PTL DEF JobPagesSpec

-----------------------------------------------------------------------------
(* Jobs that are removed. *)
LEMMA SetJobKeeps ==
    ASSUME RowsOK, NEW j \in JobIds, NEW s \in Statuses, NEW h \in BOOLEAN, SetJob(j, s, h)
    PROVE  \A i \in JobIds : Exists(i) => job'[i] # None
<1>1. Row(s, h) # None
  BY RowFields, JobPagesAssumption
<1> QED
  BY <1>1 DEF SetJob, RowsOK, Exists

LEMMA OthersKeep ==
    ASSUME JobPagesTypeOK, Others
    PROVE  \A i \in JobIds : Exists(i) => job'[i] # None
BY OthersServed, JobPagesAssumption DEF OthersAct

LEMMA ServedKeep ==
    ASSUME JobPagesTypeOK, NEW c \in Calls, Api(c), ~DeleteJob(c)
    PROVE  \A i \in JobIds : Exists(i) => job'[i] # None
<1> RowsOK
  BY DEF JobPagesTypeOK
<1>0. \A i \in JobIds : Exists(i) => job[i].status \in Statuses /\ job[i].hidden \in BOOLEAN
  BY RowOf
<1>1. CASE PauseOrResumeJob(c)
  <2>1. PICK j \in JobIds : j = call[c].job
    BY <1>1, CallNames DEF PauseOrResumeJob, Serves, Creations
  <2>2. job' = job \/ (Exists(j) /\ SetJob(j, job[j].status, call[c].kind = "pause"))
    BY <1>1, <2>1 DEF PauseOrResumeJob
  <2>3. PICK h \in BOOLEAN : h = (call[c].kind = "pause")
    OBVIOUS
  <2> QED
    BY <1>0, <2>2, <2>3, SetJobKeeps DEF Exists
<1>2. CASE CreateJob(c) \/ DuplicateJob(c)
  <2>1. job' = job \/ \E j \in JobIds \ used, h \in BOOLEAN : SetJob(j, "draft", h)
    <3>1. CASE CreateJob(c)
      BY <3>1 DEF CreateJob, Insert
    <3>2. CASE DuplicateJob(c)
      <4>1. PICK j \in JobIds : j = call[c].job
        BY <3>2, CallNames DEF DuplicateJob, Serves, Creations
      <4> QED
        BY <1>0, <3>2, <4>1 DEF DuplicateJob, Insert, api
    <3> QED
      BY <1>2, <3>1, <3>2
  <2>2. "draft" \in Statuses
    BY DEF Statuses
  <2> QED
    BY <2>1, <2>2, SetJobKeeps DEF Exists
<1>3. CASE PublishJob(c)
  <2>1. PICK j \in JobIds : j = call[c].job
    BY <1>3, CallNames DEF PublishJob, Serves, Creations
  <2>2. job' = job \/ (Exists(j) /\ SetJob(j, "active", job[j].hidden))
    BY <1>3, <2>1 DEF PublishJob
  <2>3. "active" \in Statuses
    BY DEF Statuses
  <2> QED
    BY <1>0, <2>2, <2>3, SetJobKeeps DEF Exists
<1>4. CASE UpdateProposalStatus(c)
  <2>1. PICK j \in JobIds : j = call[c].job
    BY <1>4, CallNames DEF UpdateProposalStatus, Serves, Creations, Verdicts
  <2>2. job' = job \/ (Exists(j) /\ SetJob(j, "in_progress", job[j].hidden))
    BY <1>4, <2>1 DEF UpdateProposalStatus, RowsOK
  <2>3. "in_progress" \in Statuses
    BY DEF Statuses
  <2> QED
    BY <1>0, <2>2, <2>3, SetJobKeeps DEF Exists
<1>5. CASE WithdrawProposal(c)
  BY <1>5 DEF WithdrawProposal, Exists
<1> QED
  BY <1>1, <1>2, <1>3, <1>4, <1>5 DEF Api

LEMMA DeleteKeeps ==
    ASSUME JobPagesTypeOK, DeletesTrue, NEW c \in Calls, DeleteJob(c),
           NEW i \in JobIds, Exists(i), job'[i] = None
    PROVE  /\ c \in Pending /\ call[c].kind = "delete" /\ call[c].job = i /\ call[c].stage = "sent"
           /\ call'[c] # call[c] /\ (call[c].type = "permanent" \/ ~call[c].clean)
<1> RowsOK
  BY DEF JobPagesTypeOK
<1>1. c \in Pending /\ call[c].kind = "delete" /\ call[c].stage = "sent"
  BY DEF DeleteJob, Serves, Is
<1>2. PICK j \in JobIds : j = call[c].job
  BY <1>1, CallNames DEF DeleteJob, Serves, Creations
<1>3. Exists(j) => job[j].status \in Statuses /\ job[j].hidden \in BOOLEAN
  BY RowOf
<1>4. Exists(j) /\ j = i /\ job[j].status \in {"draft", "archived", "cancelled"}
  <2>1. CASE ~Exists(j)
    BY <1>2, <2>1 DEF DeleteJob, Exists
  <2>2. CASE Exists(j) /\ job[j].status \notin {"draft", "archived", "cancelled"}
    <3>1. PICK s \in Statuses : SetJob(j, s, job[j].hidden)
      BY <1>2, <2>2 DEF DeleteJob, Statuses
    <3> QED
      BY <1>3, <2>2, <3>1, SetJobKeeps
  <2>3. CASE Exists(j) /\ job[j].status \in {"draft", "archived", "cancelled"}
    <3>1. job' = [job EXCEPT ![j] = None]
      BY <1>2, <2>3 DEF DeleteJob
    <3> QED
      BY <2>3, <3>1 DEF RowsOK, Exists
  <2> QED
    BY <2>1, <2>2, <2>3
<1>5. Type(job[j].status) = "permanent"
  BY <1>4 DEF Type, Open
<1>6. call[c].clean => call[c].type = "permanent"
  BY <1>1, <1>2, <1>4, <1>5 DEF DeletesTrue
<1>7. call'[c] # call[c]
  <2>1. PICK ok \in BOOLEAN, new \in JobIds \cup {None} : Reply(c, ok, new) /\ RowsOK' /\ ServedAs(c, ok, new)
    BY ServeDelete DEF Served
  <2>2. Is(c, "sent") /\ CallsOK /\ (new # None => job'[new] \in Rows)
    BY <2>1 DEF DeleteJob, Serves, JobPagesTypeOK, ServedAs
  <2>3. Replied(c, ok, new)
    BY <2>1, <2>2, ReplyCalls
  <2> QED
    BY <1>1, <2>3 DEF Replied, Pending
<1> QED
  BY <1>1, <1>2, <1>4, <1>6, <1>7

LEMMA PagesKeepRows ==
    ASSUME JobPagesTypeOK, NEW c \in Calls, Answer(c)
    PROVE  job' = job
BY DEF Answer, Deleted, Duplicated, GoOn, PausedOrResumed, Decided, Saved, Created, Refused, Lost, InPage, api

LEMMA PressesKeepRows ==
    ASSUME NEW t \in Tabs, Press(t) \/ PressForm(t) \/ Crash(t) \/ Fetch(t) \/ FetchFails(t)
    PROVE  job' = job
<1>1. CASE Press(t)
  BY <1>1 DEF Press, Follow, Navigate, Unload, CloseModal, AskToDelete, Confirm, PauseOrResume, Duplicate,
              Decide, api
<1>2. CASE PressForm(t)
  BY <1>2 DEF PressForm, Write, Autosave, RestoreDraft, DiscardDraft, SaveDraft, Publish, api
<1> QED
  BY <1>1, <1>2 DEF Crash, Fetch, FetchFails, api

(* In every run, a client who is asked only to cancel or archive a job does not
   remove it, for any number of tabs, jobs and calls, as long as the page has
   heard of all that changed the job.  Excused is a job that, since the page
   read it, somebody else has changed or the client's own request from a page
   that was left; one about which an answer to the page was lost; and any after
   a reading of the page that failed. *)
THEOREM NoJobIsRemovedUnasked == JobPagesSpec => CancelKeepsJob
<1>1. JobPagesInit => PagesTrue
  BY PagesTrueInit
<1>2. JobPagesTypeOK /\ PagesTrue /\ [JobPagesNext]_jobPagesVars => PagesTrue'
  BY PagesTrueStep
<1>3. ASSUME JobPagesTypeOK, PagesTrue, [JobPagesNext]_jobPagesVars,
             NEW j \in JobIds, job[j] # None, job'[j] = None
      PROVE  \E c \in Pending : /\ call[c].kind = "delete" /\ call[c].job = j
                                /\ call[c].stage = "sent" /\ call'[c] # call[c]
                                /\ call[c].type = "permanent" \/ ~call[c].clean
  <2>1. job' # job /\ Exists(j) /\ ~(\A i \in JobIds : Exists(i) => job'[i] # None)
    BY <1>3 DEF Exists
  <2>2. JobPagesNext
    BY <1>3, <2>1 DEF jobPagesVars, api
  <2>3. PICK c \in Calls : DeleteJob(c)
    BY <1>3, <2>1, <2>2, ServedKeep, OthersKeep, PagesKeepRows, PressesKeepRows DEF JobPagesNext
  <2>4. DeletesTrue
    BY <1>3 DEF PagesTrue
  <2> QED
    BY <1>3, <2>1, <2>3, <2>4, DeleteKeeps
<1>4. JobPagesTypeOK /\ PagesTrue /\ [JobPagesNext]_jobPagesVars =>
        [\A j \in JobIds : job[j] # None /\ job'[j] = None =>
          \E c \in Pending : /\ call[c].kind = "delete" /\ call[c].job = j
                             /\ call[c].stage = "sent" /\ call'[c] # call[c]
                             /\ call[c].type = "permanent" \/ ~call[c].clean]_jobPagesVars
  BY <1>3
<1> QED
  BY <1>1, <1>2, <1>4, JobPagesTypeCorrect, PTL DEF JobPagesSpec, CancelKeepsJob
====
