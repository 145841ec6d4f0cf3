---- MODULE Passkeys ----
(***************************************************************************)
(* Passkeys (passkey.service.ts) and the challenges they answer            *)
(* (challenge-store.ts): registration by a signed-in user, sign-up of a    *)
(* new user, and sign-in.                                                  *)
(*                                                                         *)
(* A challenge is taken from a map in memory at the start of a handler and *)
(* removed at its end; what is between are statements that others          *)
(* interleave with.  The browser has a challenge answered once, but the    *)
(* answer may reach the API late and more than once: the person sends it   *)
(* again, or the network does.                                             *)
(***************************************************************************)
EXTENDS Integers, FiniteSets

CONSTANTS
    Users,      \* the ids users may have: none is given twice
    Keys,       \* the credentials that authenticators may make
    Counting,   \* those whose authenticator counts its signatures
    Challenges, \* the challenge ids that may be issued: none is given twice
    Requests,   \* the requests that can be in flight together
    Nobody,     \* a challenge for nobody in particular; no user
    None,       \* no challenge stored, no answer, no key
    MayFail     \* TRUE when the process may stop or a statement may reject

VARIABLES
    store,  \* challenge -> who it was issued to, None when not in the map
    answer, \* challenge -> what the browser made of it, None before
    key,    \* credential -> its row, or None
    users,  \* the users that exist
    req,    \* request -> what it is about to do, or Idle
    (* History, read by the properties and by no guard but Issue's: *)
    issued,    \* challenge -> who it was issued to
    successes, \* challenge -> how often it bought a key or a session, zero
               \* when it is doubtful
    doubtful,  \* challenges that two requests had taken at once, or that a
               \* failure left in the map after their use
    signedUp,  \* user -> the challenge of the sign-up that made it, or None
    keyless,   \* users who removed a key, or whose sign-up a failure ended
               \* before the key was made
    crossed    \* keys with two sign-ins at once

history == <<issued, successes, doubtful, signedUp, keyless, crossed>>
vars    == <<store, answer, key, users, req, history>>

Owners  == Users \cup {Nobody}
Row(u, n) == [user |-> u, count |-> n]
AllRows == [user : Users, count : Nat]

(* What the authenticator signed: a new credential, or its count. *)
Answer(w, k, n) == [kind |-> w, key |-> k, count |-> n]
Answers == [kind : {"create", "get"}, key : Keys, count : Nat]
Signed(w, k) == {c \in Challenges : answer[c] # None /\ answer[c].kind = w /\ answer[c].key = k}

ASSUME PasskeysAssumption ==
    /\ IsFiniteSet(Challenges) /\ IsFiniteSet(Requests)
    /\ Counting \subseteq Keys
    /\ Nobody \notin Users
    /\ None \notin Owners \cup Challenges
    /\ None \notin Answers /\ None \notin AllRows
    /\ MayFail \in BOOLEAN

Request(w, o, c, n) == [next |-> w, user |-> o, challenge |-> c, count |-> n]
Idle == Request("idle", Nobody, None, 0)
InFlight == [next : {"newUser", "createKey", "find", "update", "drop"},
             user : Owners, challenge : Challenges, count : Nat]

Doing(r, w)  == req[r].next = w
Done(r)      == [req EXCEPT ![r] = Idle]
KeyOf(r)     == answer[req[r].challenge].key
Holding(c)   == {r \in Requests : req[r].challenge = c}
SigningIn(k) == {r \in Requests : Doing(r, "update") /\ KeyOf(r) = k}

Doubt(S) ==
    /\ doubtful' = doubtful \cup S
    /\ successes' = [c \in Challenges |-> IF c \in S THEN 0 ELSE successes[c]]

-----------------------------------------------------------------------------
(* Challenges *)

(* The authenticator makes a new credential, or signs with one it has made,
   and counts if it is one that counts. *)
NextAnswer(k) ==
    IF Signed("create", k) = {} THEN Answer("create", k, 0)
    ELSE Answer("get", k, IF k \in Counting THEN Cardinality(Signed("get", k)) + 1 ELSE 0)

(* generateRegistrationOptions for a user, generateSignupOptions and
   generateAuthenticationOptions for nobody; the browser has the challenge
   answered. *)
Issue(c, o, k) ==
    /\ issued[c] = None
    /\ o = Nobody \/ o \in users
    /\ store' = [store EXCEPT ![c] = o]
    /\ issued' = [issued EXCEPT ![c] = o]
    /\ answer' = [answer EXCEPT ![c] = NextAnswer(k)]
    /\ UNCHANGED <<key, users, req, successes, doubtful, signedUp, keyless, crossed>>

(* get after five minutes, or the cleanup of every minute. *)
Expire(c) ==
    /\ store[c] # None
    /\ store' = [store EXCEPT ![c] = None]
    /\ UNCHANGED <<answer, key, users, req, history>>

(* A handler takes the challenge of an answer out of the map, to the next
   await, and leaves it there. *)
Take(r, c, w, o) ==
    /\ req[r] = Idle
    /\ store[c] # None /\ answer[c] # None
    /\ req' = [req EXCEPT ![r] = Request(w, o, c, 0)]
    /\ Doubt(IF Holding(c) # {} THEN {c} ELSE {})
    /\ UNCHANGED <<store, answer, key, users, issued, signedUp, keyless, crossed>>

(* Mutant: the challenge is left to expire. *)
Keep(r) ==
    /\ Doing(r, "drop")
    /\ req' = Done(r)
    /\ UNCHANGED <<store, answer, key, users, history>>

Drop(r) ==
    /\ Doing(r, "drop")
    /\ store' = [store EXCEPT ![req[r].challenge] = None]
    /\ req' = Done(r)
    /\ UNCHANGED <<answer, key, users, history>>

Succeed(r) ==
    LET c == req[r].challenge IN
      successes' = IF c \in doubtful THEN successes ELSE [successes EXCEPT ![c] = @ + 1]

-----------------------------------------------------------------------------
(* Registration and sign-up *)

(* Mutant: the challenge may be another user's. *)
RegisterForAnyone(r, u, c) ==
    /\ u \in users
    /\ answer[c] # None /\ answer[c].kind = "create"
    /\ Take(r, c, "createKey", u)

(* verifyRegistration: the challenge was issued to this user. *)
VerifyRegistration(r, u, c) ==
    /\ u \in users
    /\ store[c] = u
    /\ answer[c] # None /\ answer[c].kind = "create"
    /\ Take(r, c, "createKey", u)

(* Mutant: the user is forgotten. *)
SignupWithoutUser(r, c) ==
    /\ answer[c] # None /\ answer[c].kind = "create"
    /\ Take(r, c, "createKey", Nobody)

(* verifySignup: any challenge will do... *)
VerifySignup(r, c) ==
    /\ answer[c] # None /\ answer[c].kind = "create"
    /\ Take(r, c, "newUser", Nobody)

(* ...the user is made first... *)
CreateUser(r) ==
    /\ Doing(r, "newUser")
    /\ \E u \in Users \ users :
          /\ users' = users \cup {u}
          /\ signedUp' = [signedUp EXCEPT ![u] = req[r].challenge]
          /\ req' = [req EXCEPT ![r] = Request("createKey", u, req[r].challenge, 0)]
    /\ UNCHANGED <<store, answer, key, issued, successes, doubtful, keyless, crossed>>

(* ...and then its key, as for a registration.  Credentials are unique: the
   insert rejects one that exists, and leaves the challenge and the user. *)
CreateKey(r) ==
    /\ Doing(r, "createKey")
    /\ IF key[KeyOf(r)] # None THEN req' = Done(r) /\ UNCHANGED <<key, successes>>
       ELSE /\ key' = [key EXCEPT ![KeyOf(r)] = Row(req[r].user, 0)]
            /\ Succeed(r)
            /\ req' = [req EXCEPT ![r] = Request("drop", Nobody, req[r].challenge, 0)]
    /\ UNCHANGED <<store, answer, users, issued, doubtful, signedUp, keyless, crossed>>

(* Mutant: the key may be another user's. *)
DeleteAnyKey(u, k) ==
    /\ key[k] # None
    /\ key' = [key EXCEPT ![k] = None]
    /\ keyless' = keyless \cup {u}
    /\ UNCHANGED <<store, answer, users, req, issued, successes, doubtful, signedUp, crossed>>

(* deletePasskey of one's own key, the last one too. *)
DeleteKey(u, k) ==
    /\ key[k] # None /\ key[k].user = u
    /\ key' = [key EXCEPT ![k] = None]
    /\ keyless' = keyless \cup {u}
    /\ UNCHANGED <<store, answer, users, req, issued, successes, doubtful, signedUp, crossed>>

-----------------------------------------------------------------------------
(* Sign-in *)

(* verifyAuthentication: any challenge will do... *)
VerifyAuthentication(r, c) ==
    /\ answer[c] # None /\ answer[c].kind = "get"
    /\ Take(r, c, "find", Nobody)

(* ...the key is read, and the signature's count must be greater than the
   row's, unless both are zero (verifyAuthenticationResponse)... *)
FindKey(r) ==
    /\ Doing(r, "find")
    /\ LET k == KeyOf(r)
           n == answer[req[r].challenge].count
       IN  IF key[k] = None \/ (n <= key[k].count /\ {n, key[k].count} # {0})
           THEN req' = Done(r) /\ UNCHANGED crossed
           ELSE /\ req' = [req EXCEPT ![r] = Request("update", Nobody, req[r].challenge, n)]
                /\ crossed' = IF SigningIn(k) # {} THEN crossed \cup {k} ELSE crossed
    /\ UNCHANGED <<store, answer, key, users, issued, successes, doubtful, signedUp, keyless>>

(* ...and written, whatever the row has now.  The session is created for the
   user that was read, and none when the row has been deleted. *)
UpdateKey(r) ==
    /\ Doing(r, "update")
    /\ IF key[KeyOf(r)] = None THEN req' = Done(r) /\ UNCHANGED <<key, successes>>
       ELSE /\ key' = [key EXCEPT ![KeyOf(r)] = Row(key[KeyOf(r)].user, req[r].count)]
            /\ Succeed(r)
            /\ req' = [req EXCEPT ![r] = Request("drop", Nobody, req[r].challenge, 0)]
    /\ UNCHANGED <<store, answer, users, issued, doubtful, signedUp, keyless, crossed>>

-----------------------------------------------------------------------------
(* Failure *)

(* What it leaves when the request ends here. *)
CutBy(r)  == IF Doing(r, "createKey") /\ signedUp[req[r].user] = req[r].challenge THEN {req[r].user} ELSE {}
KeptBy(r) == IF Doing(r, "drop") THEN {req[r].challenge} ELSE {}

(* A statement rejects, or what follows it throws. *)
Abort(r) ==
    /\ MayFail
    /\ req[r] # Idle
    /\ req' = Done(r)
    /\ keyless' = keyless \cup CutBy(r)
    /\ Doubt(KeptBy(r))
    /\ UNCHANGED <<store, answer, key, users, issued, signedUp, crossed>>

(* A restart ends every request and forgets the challenges. *)
Restart ==
    /\ MayFail
    /\ req' = [r \in Requests |-> Idle]
    /\ store' = [c \in Challenges |-> None]
    /\ keyless' = keyless \cup UNION {CutBy(r) : r \in Requests}
    /\ UNCHANGED <<answer, key, users, issued, successes, doubtful, signedUp, crossed>>

-----------------------------------------------------------------------------
Init ==
    /\ store = [c \in Challenges |-> None]
    /\ answer = [c \in Challenges |-> None]
    /\ key = [k \in Keys |-> None]
    /\ \E u \in Users : users = {u}
    /\ req = [r \in Requests |-> Idle]
    /\ issued = [c \in Challenges |-> None]
    /\ successes = [c \in Challenges |-> 0]
    /\ signedUp = [u \in Users |-> None]
    /\ doubtful = {} /\ keyless = {} /\ crossed = {}

Arrive(r) == \E c \in Challenges :
    \/ VerifySignup(r, c)
    \/ VerifyAuthentication(r, c)
    \/ \E u \in Users : VerifyRegistration(r, u, c)

Step(r) ==
    \/ CreateUser(r)
    \/ CreateKey(r)
    \/ FindKey(r)
    \/ UpdateKey(r)
    \/ Drop(r)

Next ==
    \/ \E r \in Requests : Arrive(r) \/ Step(r) \/ Abort(r)
    \/ \E c \in Challenges :
          \/ \E o \in Owners, k \in Keys : Issue(c, o, k)
          \/ Expire(c)
    \/ \E u \in Users, k \in Keys : DeleteKey(u, k)
    \/ Restart

Spec == Init /\ [][Next]_vars

-----------------------------------------------------------------------------
(* Properties *)

(* Every variable has its type; a key and a request are for users that
   exist, and a challenge that was taken has been answered. *)
TypeOK ==
    /\ store \in [Challenges -> Owners \cup {None}]
    /\ issued \in [Challenges -> Owners \cup {None}]
    /\ answer \in [Challenges -> Answers \cup {None}]
    /\ key \in [Keys -> AllRows \cup {None}]
    /\ users \subseteq Users
    /\ req \in [Requests -> InFlight \cup {Idle}]
    /\ \A r \in Requests :
          /\ req[r] # Idle => answer[req[r].challenge] # None
          /\ Doing(r, "createKey") => req[r].user \in users
    /\ \A k \in Keys : key[k] # None => key[k].user \in users
    /\ successes \in [Challenges -> Nat]
    /\ doubtful \subseteq Challenges
    /\ signedUp \in [Users -> Challenges \cup {None}]
    /\ keyless \subseteq Users
    /\ crossed \subseteq Keys

(* A challenge buys one key or one session, unless two requests had taken it
   before either removed it, or a failure kept it after its use. (the get and
   the delete of the three verify handlers) *)
ChallengesAreUsedOnce ==
    \A c \in Challenges \ doubtful :
        successes[c] + Cardinality({r \in Holding(c) : ~Doing(r, "drop")}) <= 1

(* The key of a user signed a challenge that was issued to this user, or the
   one that the user signed up with. (verifyRegistration compares users,
   verifySignup and the unique credential do not let a key change hands) *)
KeysAreTheirOwners ==
    \A k \in Keys : key[k] # None =>
        \E c \in Signed("create", k) : issued[c] = key[k].user \/ signedUp[key[k].user] = c

(* Who signed up with a passkey can sign in: the key is there, unless its
   user removed it, or a failure came between the two inserts, or the answer
   was sent twice before its challenge was removed.  Such a user has no
   address either, and no clean-up. (verifySignup) *)
SignUpsHaveKeys ==
    \A u \in users \ keyless :
        \/ signedUp[u] \in doubtful \cup {None}
        \/ \E k \in Keys : key[k] # None /\ key[k].user = u
        \/ \E r \in Requests : Doing(r, "createKey") /\ req[r].user = u

(* The count of a key never falls back, so an old signature is not taken
   again, unless two sign-ins with this key overlapped. (verifyAuthentication
   reads, compares and writes it in two statements) *)
CountsGrow ==
    [][\A k \in Keys \ crossed :
          key[k] # None /\ key'[k] # None => key'[k].count >= key[k].count]_vars
====
