---- MODULE Accounts ----
(***************************************************************************)
(* How an account gets its address and proves it: registration, the        *)
(* six-digit code that verifies the address, the timer that removes an     *)
(* account still unverified after 15 minutes, and the change of the        *)
(* address (auth.service.ts).  Accounts made by a passkey                  *)
(* (passkey.service.ts) or by Google (google-oauth.strategy.ts) have no    *)
(* code and no timer.                                                      *)
(*                                                                         *)
(* A handler takes one step for what it reads and one for each write that  *)
(* follows.  Codes are few, so two users may draw the same one.  A change  *)
(* code is named by the address it was mailed to, as it is compared within *)
(* one row only.                                                           *)
(***************************************************************************)
EXTENDS Integers, FiniteSets

CONSTANTS
    Ids,      \* the ids accounts may get: none is given twice
    Emails,   \* the addresses people give
    Codes,    \* the verification codes that may be drawn
    Requests, \* the requests that can be in flight together
    None,     \* no account yet, no code, no change
    Gone,     \* an account that was removed
    MayFail   \* TRUE when the process may stop or a statement may reject

VARIABLES
    user,     \* id -> the row, None before it is made, Gone when removed
    timers,   \* ids whose 15-minute timer is pending
    cleaning, \* ids whose timer has read an unverified account
    req,      \* request -> what it is about to do, or Idle
    (* History, read by the properties and by no guard but that of drawn: *)
    drawn,      \* <<code, address>>: the verification codes drawn for an address
    proven,     \* <<id, address>>: who acted for id had a code mailed to address
    registered, \* ids made by register
    untimed,    \* ids whose timer was lost with the process or a failure
    raced       \* ids verified between the timer's read and its delete

history == <<drawn, proven, registered, untimed, raced>>
vars    == <<user, timers, cleaning, req, history>>

(* The address of an account made by a passkey: unlike any other. *)
Placeholder == "placeholder"

Rows == [email : Emails \cup {Placeholder}, verified : BOOLEAN,
         code : Codes \cup {None}, change : Emails \cup {None}]

Account(e, v, c) == [email |-> e, verified |-> v, code |-> c, change |-> None]

ASSUME AccountsAssumption ==
    /\ None \notin Ids \cup Emails \cup Codes \cup Rows
    /\ Gone \notin Rows /\ None # Gone
    /\ Placeholder \notin Emails
    /\ MayFail \in BOOLEAN

Accounts == {i \in Ids : user[i] \notin {None, Gone}}
Free(e)  == \A i \in Accounts : user[i].email # e

Idle == [next |-> "idle", id |-> None, email |-> None, code |-> None]
InFlight == [next : {"create", "mail", "verify", "resend", "change", "confirm"},
             id : Ids \cup {None}, email : Emails, code : Codes \cup {None}]

Doing(r, w) == req[r].next = w
Done(r)     == [req EXCEPT ![r] = Idle]
Begin(r, w, i, e, c) ==
    /\ req[r] = Idle
    /\ req' = [req EXCEPT ![r] = [next |-> w, id |-> i, email |-> e, code |-> c]]

(* Accounts of which a request is about to mail the first code. *)
BeingMade == {i \in Ids : \E r \in Requests : Doing(r, "mail") /\ req[r].id = i}

-----------------------------------------------------------------------------
(* register *)

Register(r, e) ==
    /\ Free(e)
    /\ Begin(r, "create", None, e, None)
    /\ UNCHANGED <<user, timers, cleaning, history>>

(* The address is unique: the slower of two registrations rejects. *)
CreateUser(r) ==
    /\ Doing(r, "create")
    /\ LET e == req[r].email IN
         IF ~Free(e) THEN req' = Done(r) /\ UNCHANGED <<user, registered, drawn>>
         ELSE \E i \in Ids, c \in Codes :
                /\ user[i] = None
                /\ user' = [user EXCEPT ![i] = Account(e, FALSE, c)]
                /\ registered' = registered \cup {i}
                /\ drawn' = drawn \cup {<<c, e>>}
                /\ req' = [req EXCEPT ![r] = [next |-> "mail", id |-> i, email |-> e, code |-> c]]
    /\ UNCHANGED <<timers, cleaning, proven, untimed, raced>>

(* The log is written and the mails are sent before the timer is set. *)
SetTimer(r) ==
    /\ Doing(r, "mail")
    /\ timers' = timers \cup {req[r].id}
    /\ req' = Done(r)
    /\ UNCHANGED <<user, cleaning, history>>

(* Mutant: these accounts get a timer as well. *)
CreateByPasskeyTimed(i) ==
    /\ user[i] = None
    /\ user' = [user EXCEPT ![i] = Account(Placeholder, FALSE, None)]
    /\ timers' = timers \cup {i}
    /\ UNCHANGED <<cleaning, req, history>>

(* verifySignup of a passkey: no address, nothing proven, no timer. *)
CreateByPasskey(i) ==
    /\ user[i] = None
    /\ user' = [user EXCEPT ![i] = Account(Placeholder, FALSE, None)]
    /\ UNCHANGED <<timers, cleaning, req, history>>

(* validate of a Google profile nobody has: Google vouches for the address. *)
CreateByGoogle(i, e) ==
    /\ user[i] = None /\ Free(e)
    /\ user' = [user EXCEPT ![i] = Account(e, TRUE, None)]
    /\ proven' = proven \cup {<<i, e>>}
    /\ UNCHANGED <<timers, cleaning, req, drawn, registered, untimed, raced>>

-----------------------------------------------------------------------------
(* The timer *)

(* Mutant: the timer removes the verified accounts and leaves the others. *)
TimerFiresForVerified(i) ==
    /\ i \in timers
    /\ timers' = timers \ {i}
    /\ cleaning' = IF i \in Accounts /\ user[i].verified THEN cleaning \cup {i} ELSE cleaning
    /\ UNCHANGED <<user, req, history>>

TimerFires(i) ==
    /\ i \in timers
    /\ timers' = timers \ {i}
    /\ cleaning' = IF i \in Accounts /\ ~user[i].verified THEN cleaning \cup {i} ELSE cleaning
    /\ UNCHANGED <<user, req, history>>

(* The account is deleted by its id, whatever has become of it. *)
CleanUp(i) ==
    /\ i \in cleaning
    /\ cleaning' = cleaning \ {i}
    /\ user' = [user EXCEPT ![i] = Gone]
    /\ UNCHANGED <<timers, req, history>>

-----------------------------------------------------------------------------
(* verifyEmail and resendVerification *)

(* Somebody who reads the mail of e sends code c back, drawn for e at some
   time: an unverified account with that code is found, whoever's it is. *)
FindByCode(r, i, c, e) ==
    /\ <<c, e>> \in drawn
    /\ i \in Accounts /\ ~user[i].verified /\ user[i].code = c
    /\ Begin(r, "verify", i, e, c)
    /\ UNCHANGED <<user, timers, cleaning, history>>

(* The account is updated by its id; the update rejects when it is gone. *)
Verify(r) ==
    /\ Doing(r, "verify")
    /\ LET i == req[r].id IN
         IF i \notin Accounts THEN UNCHANGED <<user, proven, raced>>
         ELSE /\ user' = [user EXCEPT ![i].verified = TRUE, ![i].code = None]
              /\ proven' = proven \cup {<<i, req[r].email>>}
              /\ raced' = IF i \in cleaning THEN raced \cup {i} ELSE raced
    /\ req' = Done(r)
    /\ UNCHANGED <<timers, cleaning, drawn, registered, untimed>>

Resend(r, e) ==
    /\ \E i \in Accounts, c \in Codes :
          /\ user[i].email = e /\ ~user[i].verified
          /\ Begin(r, "resend", i, e, c)
    /\ UNCHANGED <<user, timers, cleaning, history>>

(* The new code is mailed to the address the account was found by. *)
ReplaceCode(r) ==
    /\ Doing(r, "resend")
    /\ LET i == req[r].id IN
         IF i \notin Accounts THEN UNCHANGED <<user, drawn>>
         ELSE /\ user' = [user EXCEPT ![i].code = req[r].code]
              /\ drawn' = drawn \cup {<<req[r].code, req[r].email>>}
    /\ req' = Done(r)
    /\ UNCHANGED <<timers, cleaning, proven, registered, untimed, raced>>

-----------------------------------------------------------------------------
(* requestEmailChange and confirmEmailChange *)

RequestChange(r, i, e) ==
    /\ i \in Accounts /\ user[i].email # e /\ Free(e)
    /\ Begin(r, "change", i, e, None)
    /\ UNCHANGED <<user, timers, cleaning, history>>

(* A new request replaces an open one. *)
OpenChange(r) ==
    /\ Doing(r, "change")
    /\ LET i == req[r].id IN
         user' = IF i \in Accounts THEN [user EXCEPT ![i].change = req[r].email] ELSE user
    /\ req' = Done(r)
    /\ UNCHANGED <<timers, cleaning, history>>

ExpireChange(i) ==
    /\ i \in Accounts /\ user[i].change # None
    /\ user' = [user EXCEPT ![i].change = None]
    /\ UNCHANGED <<timers, cleaning, req, history>>

(* Mutant: the address sent is not compared with the one the code is for. *)
ConfirmAnyAddress(r, i, o, e) ==
    /\ i \in Accounts /\ user[i].change = o
    /\ Free(e)
    /\ Begin(r, "confirm", i, e, None)
    /\ proven' = proven \cup {<<i, o>>}
    /\ UNCHANGED <<user, timers, cleaning, drawn, registered, untimed, raced>>

(* The code that was mailed to o, sent with the address e. *)
ConfirmChange(r, i, o, e) ==
    /\ i \in Accounts /\ user[i].change = o
    /\ o = e
    /\ Free(e)
    /\ Begin(r, "confirm", i, e, None)
    /\ proven' = proven \cup {<<i, o>>}
    /\ UNCHANGED <<user, timers, cleaning, drawn, registered, untimed, raced>>

(* The update closes whatever change is open now.  It rejects when the
   account is gone or the address was taken meanwhile.  It does not verify. *)
ChangeAddress(r) ==
    /\ Doing(r, "confirm")
    /\ LET i == req[r].id
           e == req[r].email
       IN  user' = IF i \in Accounts /\ \A j \in Accounts \ {i} : user[j].email # e
                   THEN [user EXCEPT ![i].email = e, ![i].change = None] ELSE user
    /\ req' = Done(r)
    /\ UNCHANGED <<timers, cleaning, history>>

-----------------------------------------------------------------------------
(* Failure *)

(* The account a request has made and set no timer for yet. *)
MadeBy(r) == IF Doing(r, "mail") THEN {req[r].id} ELSE {}

Abort(r) ==
    /\ MayFail
    /\ req[r] # Idle
    /\ req' = Done(r)
    /\ untimed' = untimed \cup MadeBy(r)
    /\ UNCHANGED <<user, timers, cleaning, drawn, proven, registered, raced>>

(* The timer's read or its delete rejects: it logs that, and is not set
   again. *)
TimerFails(i) ==
    /\ MayFail
    /\ i \in timers \cup cleaning
    /\ timers' = timers \ {i}
    /\ cleaning' = cleaning \ {i}
    /\ untimed' = untimed \cup {i}
    /\ UNCHANGED <<user, req, drawn, proven, registered, raced>>

(* Timers do not outlive the process. *)
Restart ==
    /\ MayFail
    /\ untimed' = untimed \cup timers \cup cleaning \cup BeingMade
    /\ timers' = {}
    /\ cleaning' = {}
    /\ req' = [r \in Requests |-> Idle]
    /\ UNCHANGED <<user, drawn, proven, registered, raced>>

-----------------------------------------------------------------------------
Init ==
    /\ user = [i \in Ids |-> None]
    /\ timers = {} /\ cleaning = {}
    /\ req = [r \in Requests |-> Idle]
    /\ drawn = {} /\ proven = {} /\ registered = {} /\ untimed = {} /\ raced = {}

Arrive(r) ==
    \/ \E e \in Emails : Register(r, e) \/ Resend(r, e)
    \/ \E i \in Ids, e \in Emails :
          \/ RequestChange(r, i, e)
          \/ \E c \in Codes : FindByCode(r, i, c, e)
          \/ \E o \in Emails : ConfirmChange(r, i, o, e)

Step(r) ==
    \/ CreateUser(r)
    \/ SetTimer(r)
    \/ Verify(r)
    \/ ReplaceCode(r)
    \/ OpenChange(r)
    \/ ChangeAddress(r)

Next ==
    \/ \E r \in Requests : Arrive(r) \/ Step(r) \/ Abort(r)
    \/ \E i \in Ids :
          \/ TimerFires(i) \/ CleanUp(i) \/ TimerFails(i)
          \/ ExpireChange(i)
          \/ CreateByPasskey(i) \/ \E e \in Emails : CreateByGoogle(i, e)
    \/ Restart

Spec == Init /\ [][Next]_vars

(* A handler that was begun goes on, and so does a timer. *)
Fairness ==
    /\ \A r \in Requests : WF_vars(Step(r))
    /\ \A i \in Ids : WF_vars(TimerFires(i)) /\ WF_vars(CleanUp(i))

LiveSpec == Spec /\ Fairness

-----------------------------------------------------------------------------
(* Properties *)

(* Every variable has its type, and what is timed or being cleaned exists or
   did. *)
TypeOK ==
    /\ user \in [Ids -> Rows \cup {None, Gone}]
    /\ req \in [Requests -> InFlight \cup {Idle}]
    /\ \A r \in Requests :
          /\ req[r].next \in {"mail", "verify", "resend"} => req[r].code \in Codes
          /\ req[r].next \in {"mail", "verify", "resend", "change", "confirm"} =>
                req[r].id \in Ids /\ user[req[r].id] # None
    /\ timers \subseteq registered /\ cleaning \subseteq registered
    /\ drawn \subseteq Codes \X Emails
    /\ proven \subseteq Ids \X Emails
    /\ registered \subseteq {i \in Ids : user[i] # None}
    /\ untimed \subseteq registered /\ raced \subseteq registered

(* An account made by register and not verified has its clean-up ahead, at
   every moment, unless that was lost with the process or with a failure.
   (the setTimeout at the end of register) *)
UnverifiedHaveTimers ==
    \A i \in registered \ untimed :
        i \in Accounts /\ ~user[i].verified => i \in timers \cup cleaning \cup BeingMade

(* Addresses for which a code was drawn that another address got too. *)
Ambiguous == {e \in Emails : \E f \in Emails \ {e}, c \in Codes : {<<c, e>>, <<c, f>>} \subseteq drawn}

(* Who has verified an account, or changed its address, had a code that was
   mailed to the address it has now, whatever was requested, changed and
   resent meanwhile, unless two addresses got the same code.
   (verifyEmail looks for the code alone, confirmEmailChange for code and
   address) *)
AddressesAreProven ==
    \A i \in Accounts :
        (user[i].verified \/ i \notin registered) /\ user[i].email \in Emails \ Ambiguous =>
            <<i, user[i].email>> \in proven

(* No account is removed once it is verified, but one that was verified
   between the read of its timer and the delete.  (the timer of register) *)
VerifiedStay ==
    [][\A i \in Accounts : user[i].verified /\ user'[i] = Gone => i \in raced]_vars

(* An account made by register is verified, or removed in the end, unless its
   timer was lost. *)
UnverifiedGo ==
    \A i \in Ids :
        (i \in Accounts /\ i \in registered /\ ~user[i].verified) ~>
            (i \notin Accounts \/ user[i].verified \/ i \in untimed)
====
