---- MODULE SignIn ----
(***************************************************************************)
(* What stands between a password and a session: the login handler         *)
(* (auth.service.ts) with the lock of an account and the window of an      *)
(* address (login-rate-limit.service.ts), and the second factor it asks    *)
(* for (twofactor.service.ts).                                             *)
(*                                                                         *)
(* As in Sessions, a handler is a request that takes one step per          *)
(* statement.  Whether a password, an e-mailed code or a recovery code is  *)
(* good is the environment's choice: OtpStore and StoredCodes say when the *)
(* codes are.  A TOTP code is the secret that it was computed from.        *)
(* Time is a choice too: a lock may run out and a window may move on at    *)
(* any moment.                                                             *)
(***************************************************************************)
EXTENDS Integers, FiniteSets

CONSTANTS
    Users,     \* users with a password
    Addresses, \* client addresses
    Requests,  \* the requests that can be in flight together
    Secrets,   \* the TOTP secrets that may be generated
    Threshold, \* LOGIN_LOCKOUT_THRESHOLD
    MaxCount,  \* bound: a greater failedAttempts is not read.  It grows past
               \* the threshold when a lock is lost, or overlaps a failure
    NoSecret,  \* totpSecret is null
    MayAbort   \* TRUE when the process may stop or a statement may reject

VARIABLES
    failed,  \* user -> failedAttempts
    lock,    \* user -> lockedUntil: null, in the future, or in the past
    recent,  \* address -> its failures in the window, Threshold for more
    secret,  \* user -> totpSecret
    enabled, \* user -> totpEnabled
    req,     \* request -> what it is about to do, or Idle
    (* History, read by the properties and by no guard: *)
    guesses,    \* user -> wrong passwords counted since the account was last
                \* locked or unlocked, or its lock lost
    overlapped, \* users with two failures counted at once, or one during a
                \* sign-in that unlocked the account
    cut,        \* users whose account a failure kept from being locked
    proven,     \* user -> the secret whose code switched the factor on last
    unsettled   \* users whose secret was replaced or removed while the factor
                \* was on or being switched on

lockout == <<failed, lock, recent>>
totp    == <<secret, enabled>>
history == <<guesses, overlapped, cut, proven, unsettled>>
vars    == <<lockout, totp, req, history>>

ASSUME SignInAssumption ==
    /\ Threshold \in Nat \ {0} /\ MaxCount \in Nat
    /\ NoSecret \notin Secrets
    /\ IsFiniteSet(Requests)
    /\ MayAbort \in BOOLEAN

-----------------------------------------------------------------------------
Locks == {"null", "future", "past"}

(* The statement a request will issue next. *)
Counting  == {"write", "lock"}
Statements == Counting \cup {"check", "second", "fail", "read", "clear", "enable", "disable"}

Idle == [next |-> "idle"]

(* count is the failedAttempts that the request read, token the secret its
   TOTP code comes from. *)
Request(w, u, a) == [next |-> w, user |-> u, address |-> a, count |-> 0, token |-> NoSecret]
InFlight == [next : Statements, user : Users, address : Addresses,
             count : Nat, token : Secrets \cup {NoSecret}]

Doing(r, w) == req[r].next = w
Done(r)     == [req EXCEPT ![r] = Idle]
Goto(r, w)  == [req EXCEPT ![r].next = w]

Begin(r, request) ==
    /\ req[r] = Idle
    /\ req' = [req EXCEPT ![r] = request]
    /\ UNCHANGED <<lockout, totp, history>>

(* A step that writes nothing: the request goes on, or has its answer. *)
Continue(r, W) ==
    /\ \E w \in W : req' = IF w = "answer" THEN Done(r) ELSE Goto(r, w)
    /\ UNCHANGED <<lockout, totp, history>>

(* The requests that have read u's failedAttempts and will write it. *)
CountingFor(u) == {r \in Requests : req[r].next \in Counting /\ req[r].user = u}
CountGuess(u)  == guesses' = IF u \in cut THEN guesses ELSE [guesses EXCEPT ![u] = @ + 1]
Enabling(u)    == {r \in Requests : Doing(r, "enable") /\ req[r].user = u}

-----------------------------------------------------------------------------
(* login *)

(* isLocked.  An attempt that is turned away is recorded as a failure. *)
Login(r, u, a) ==
    Begin(r, Request(IF lock[u] = "future" \/ recent[a] >= Threshold THEN "fail" ELSE "check", u, a))

(* The row is read and the password checked against it.  The row says also
   whether a second factor is asked for. *)
CheckPassword(r) ==
    /\ Doing(r, "check")
    /\ Continue(r, {"fail", IF enabled[req[r].user] THEN "second" ELSE "clear"})

(* A recovery code or an e-mailed code passes or not, and a body with no code
   does not.  Nobody counts what does not pass. *)
CheckSentCode(r) ==
    /\ Doing(r, "second")
    /\ Continue(r, {"clear", "answer"})

(* A TOTP code passes when the row, read again, has no secret or no factor
   any more, or has the secret of the code. *)
Passes(u, code) == secret[u] \in {NoSecret, code} \/ ~enabled[u]

CheckTotp(r, code) ==
    /\ Doing(r, "second")
    /\ Continue(r, {IF Passes(req[r].user, code) THEN "clear" ELSE "answer"})

(* recordAttempt: the window of the address is written as soon as the
   attempt's row is; then the user is read... *)
RecordFailure(r) ==
    /\ Doing(r, "fail")
    /\ LET a == req[r].address IN
         recent' = [recent EXCEPT ![a] = IF @ < Threshold THEN @ + 1 ELSE @]
    /\ req' = Goto(r, "read")
    /\ UNCHANGED <<failed, lock, totp, history>>

ReadCount(r) ==
    /\ Doing(r, "read")
    /\ LET u == req[r].user IN
         /\ failed[u] <= MaxCount
         /\ req' = [req EXCEPT ![r] = [@ EXCEPT !.next = "write", !.count = failed[u]]]
         /\ overlapped' = IF CountingFor(u) # {} THEN overlapped \cup {u} ELSE overlapped
    /\ UNCHANGED <<lockout, totp, guesses, cut, proven, unsettled>>

(* Mutants of the count: it starts again at each failure; the threshold is
   passed before it locks. *)
WriteOne(r) ==
    /\ Doing(r, "write")
    /\ failed' = [failed EXCEPT ![req[r].user] = 1]
    /\ req' = IF Threshold = 1 THEN Goto(r, "lock") ELSE Done(r)
    /\ CountGuess(req[r].user)
    /\ UNCHANGED <<lock, recent, totp, overlapped, cut, proven, unsettled>>
WriteCountLate(r) ==
    /\ Doing(r, "write")
    /\ LET u == req[r].user
           n == req[r].count + 1
       IN  /\ failed' = [failed EXCEPT ![u] = n]
           /\ req' = IF n > Threshold THEN Goto(r, "lock") ELSE Done(r)
           /\ CountGuess(u)
    /\ UNCHANGED <<lock, recent, totp, overlapped, cut, proven, unsettled>>

(* ...one more than what was read is written... *)
WriteCount(r) ==
    /\ Doing(r, "write")
    /\ LET u == req[r].user
           n == req[r].count + 1
       IN  /\ failed' = [failed EXCEPT ![u] = n]
           /\ req' = IF n >= Threshold THEN Goto(r, "lock") ELSE Done(r)
           /\ CountGuess(u)
    /\ UNCHANGED <<lock, recent, totp, overlapped, cut, proven, unsettled>>

(* ...and at the threshold the account is locked and the count starts again. *)
LockAccount(r) ==
    /\ Doing(r, "lock")
    /\ LET u == req[r].user IN
         /\ lock' = [lock EXCEPT ![u] = "future"]
         /\ failed' = [failed EXCEPT ![u] = 0]
         /\ guesses' = [guesses EXCEPT ![u] = 0]
    /\ req' = Done(r)
    /\ UNCHANGED <<recent, totp, overlapped, cut, proven, unsettled>>

(* clearLockout, before the session is created: the account is unlocked, and
   its count starts again, only if it has been locked. *)
ClearLockout(r) ==
    /\ Doing(r, "clear")
    /\ LET u == req[r].user IN
         IF lock[u] = "null" THEN UNCHANGED <<failed, lock, guesses, overlapped>>
         ELSE /\ lock' = [lock EXCEPT ![u] = "null"]
              /\ failed' = [failed EXCEPT ![u] = 0]
              /\ guesses' = [guesses EXCEPT ![u] = 0]
              /\ overlapped' = IF CountingFor(u) # {} THEN overlapped \cup {u} ELSE overlapped
    /\ req' = Done(r)
    /\ UNCHANGED <<recent, totp, cut, proven, unsettled>>

(* recovery-codes/use with a code that use() found and marked: it looks at no
   lock, and unlocks. *)
UseRecoveryCode(r, u, a) == Begin(r, Request("clear", u, a))

-----------------------------------------------------------------------------
(* The second factor's settings *)

(* generateSecret is one update, whatever the state of the factor. *)
GenerateSecret(u, s) ==
    /\ s # secret[u]
    /\ secret' = [secret EXCEPT ![u] = s]
    /\ unsettled' = IF enabled[u] \/ Enabling(u) # {} THEN unsettled \cup {u} ELSE unsettled
    /\ UNCHANGED <<lockout, enabled, req, guesses, overlapped, cut, proven>>

(* Mutants: a user without a secret is let through; any code is good. *)
SettingReadWithoutSecret(r, u, a, w) == Begin(r, [Request(w, u, a) EXCEPT !.token = secret[u]])
SettingReadUnchecked(r, u, a, w) ==
    /\ secret[u] # NoSecret
    /\ \E s \in Secrets : Begin(r, [Request(w, u, a) EXCEPT !.token = s])

(* enable and disable read the secret and check a code of it... *)
SettingRead(r, u, a, w) ==
    /\ secret[u] # NoSecret
    /\ Begin(r, [Request(w, u, a) EXCEPT !.token = secret[u]])

(* ...and write without looking at the secret again. *)
Enable(r) ==
    /\ Doing(r, "enable")
    /\ enabled' = [enabled EXCEPT ![req[r].user] = TRUE]
    /\ proven' = [proven EXCEPT ![req[r].user] = req[r].token]
    /\ req' = Done(r)
    /\ UNCHANGED <<lockout, secret, guesses, overlapped, cut, unsettled>>

Disable(r) ==
    /\ Doing(r, "disable")
    /\ LET u == req[r].user IN
         /\ secret' = [secret EXCEPT ![u] = NoSecret]
         /\ enabled' = [enabled EXCEPT ![u] = FALSE]
         /\ unsettled' = IF Enabling(u) # {} THEN unsettled \cup {u} ELSE unsettled \ {u}
    /\ req' = Done(r)
    /\ UNCHANGED <<lockout, guesses, overlapped, cut, proven>>

-----------------------------------------------------------------------------
(* Time and failure *)

LockRunsOut(u) ==
    /\ lock[u] = "future"
    /\ lock' = [lock EXCEPT ![u] = "past"]
    /\ UNCHANGED <<failed, recent, totp, req, history>>

(* Failures leave the window; a restart empties it. *)
WindowMoves(a) ==
    /\ \E n \in 0 .. recent[a] - 1 : recent' = [recent EXCEPT ![a] = n]
    /\ UNCHANGED <<failed, lock, totp, req, history>>

(* The process stops, or the statement rejects: what was written stays. *)
Abort(r) ==
    /\ MayAbort
    /\ req[r] # Idle
    /\ cut' = IF Doing(r, "lock") THEN cut \cup {req[r].user} ELSE cut
    /\ req' = Done(r)
    /\ UNCHANGED <<lockout, totp, guesses, overlapped, proven, unsettled>>

-----------------------------------------------------------------------------
Init ==
    /\ failed = [u \in Users |-> 0]
    /\ lock = [u \in Users |-> "null"]
    /\ recent = [a \in Addresses |-> 0]
    /\ secret = [u \in Users |-> NoSecret]
    /\ enabled = [u \in Users |-> FALSE]
    /\ req = [r \in Requests |-> Idle]
    /\ guesses = [u \in Users |-> 0]
    /\ overlapped = {}
    /\ cut = {}
    /\ proven = [u \in Users |-> NoSecret]
    /\ unsettled = {}

Arrive(r) == \E u \in Users, a \in Addresses :
    \/ Login(r, u, a)
    \/ UseRecoveryCode(r, u, a)
    \/ \E w \in {"enable", "disable"} : SettingRead(r, u, a, w)

Step(r) ==
    \/ CheckPassword(r)
    \/ CheckSentCode(r)
    \/ \E code \in Secrets : CheckTotp(r, code)
    \/ RecordFailure(r)
    \/ ReadCount(r)
    \/ WriteCount(r)
    \/ LockAccount(r)
    \/ ClearLockout(r)
    \/ Enable(r)
    \/ Disable(r)

Next ==
    \/ \E r \in Requests : Arrive(r) \/ Step(r) \/ Abort(r)
    \/ \E u \in Users : LockRunsOut(u) \/ \E s \in Secrets : GenerateSecret(u, s)
    \/ \E a \in Addresses : WindowMoves(a)

Spec == Init /\ [][Next]_vars

-----------------------------------------------------------------------------
(* Properties *)

(* Every variable has its type, and only enable and disable carry a secret. *)
TypeOK ==
    /\ failed \in [Users -> Nat]
    /\ lock \in [Users -> Locks]
    /\ recent \in [Addresses -> 0 .. Threshold]
    /\ secret \in [Users -> Secrets \cup {NoSecret}]
    /\ enabled \in [Users -> BOOLEAN]
    /\ req \in [Requests -> InFlight \cup {Idle}]
    /\ \A r \in Requests : req[r].next \in {"enable", "disable"} => req[r].token \in Secrets
    /\ guesses \in [Users -> Nat]
    /\ overlapped \subseteq Users /\ cut \subseteq Users /\ unsettled \subseteq Users
    /\ proven \in [Users -> Secrets \cup {NoSecret}]

(* Unless failures overlap, no wrong password goes uncounted and none is
   counted twice, and the account is locked at the threshold: the failures
   since the last lock or unlocking, sign-ins in between or not, are the
   count, and stay below the threshold until the lock is written or lost.
   (checkLockout and clearLockout) *)
CountIsExact ==
    \A u \in Users \ (overlapped \cup cut) :
        /\ failed[u] = guesses[u]
        /\ failed[u] < Threshold \/ \E r \in CountingFor(u) : Doing(r, "lock")

(* Why: one request at a time counts for u, and what it read is the count. *)
CountingAgrees ==
    \A u \in Users \ overlapped : \A r \in CountingFor(u) :
        /\ \A q \in CountingFor(u) : q = r
        /\ Doing(r, "write") => req[r].count = failed[u]

(* What k requests can be about to write: for each count below the threshold,
   how many of them will write a greater one.  There are C(T+k-1, k). *)
Counts   == 1 .. Threshold - 1
Profiles == {p \in [Counts -> 0 .. Cardinality(Requests)] :
                \A v, w \in Counts : v <= w => p[w] <= p[v]}

(* Failures that overlap overwrite each other's counts, but not for ever: a
   count that one of them takes back was put there by another, which has left
   what it had read behind.  No profile of the requests comes twice before the
   account is locked, and at the threshold each request can fail once more:
   k failures at a time let C(T+k-1, k) - 1 + k wrong passwords in instead of
   T.  (checkLockout reads and writes in two statements) *)
GuessesAreBounded ==
    \A u \in Users \ cut :
        guesses[u] <= Cardinality(Profiles) - 1 + Cardinality(Requests)

(* A second factor that is on asks for the secret its owner has proven to
   have, unless the secret was replaced while the factor was on, or replaced
   or removed while it was being switched on.  (generateSecret, enable and
   disable) *)
FactorIsProven ==
    \A u \in Users \ unsettled : enabled[u] =>
        secret[u] # NoSecret /\ secret[u] = proven[u]

(* Why: the code that enable has checked is of the secret still in force. *)
EnablingAgrees ==
    \A u \in Users \ unsettled : \A r \in Enabling(u) : req[r].token = secret[u]
====
