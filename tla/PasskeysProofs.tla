---- MODULE PasskeysProofs ----
(***************************************************************************)
(* Theorems about Passkeys, for every set of users and credentials, and    *)
(* every finite set of challenges and requests.                            *)
(***************************************************************************)
EXTENDS Passkeys, FiniteSetTheorems, TLAPS

(* TypeOK, with what a challenge that was not issued has: nothing. *)
UnissuedAreBlank ==
    \A c \in Challenges :
        /\ issued[c] = None => store[c] = None /\ answer[c] = None /\ successes[c] = 0
        /\ store[c] # None => store[c] = issued[c]

Base == TypeOK /\ UnissuedAreBlank

RequestsOK ==
    /\ req \in [Requests -> InFlight \cup {Idle}]
    /\ \A r \in Requests :
          /\ req[r] # Idle => answer[req[r].challenge] # None
          /\ Doing(r, "createKey") => req[r].user \in users

(* What was answered stays answered. *)
AnswersStay == \A c \in Challenges : answer[c] # None => answer'[c] = answer[c]

Statements == {"newUser", "createKey", "find", "update", "drop"}

LEMMA RequestRecord ==
    ASSUME NEW w \in Statements, NEW o \in Owners, NEW c \in Challenges, NEW n \in Nat
    PROVE  /\ Request(w, o, c, n) \in InFlight
           /\ Request(w, o, c, n).next = w
           /\ Request(w, o, c, n).user = o
           /\ Request(w, o, c, n).challenge = c
           /\ Request(w, o, c, n).count = n
BY DEF Request, InFlight, Statements

LEMMA IdleRecord == Idle.next = "idle" /\ Idle.challenge = None /\ Idle.user = Nobody
BY DEF Idle, Request

LEMMA FieldsOf ==
    ASSUME TypeOK, NEW r \in Requests, req[r].next # "idle"
    PROVE  /\ req[r] \in InFlight
           /\ req[r] # Idle
           /\ req[r].challenge \in Challenges
           /\ req[r].user \in Owners
           /\ req[r].count \in Nat
           /\ answer[req[r].challenge] \in Answers
           /\ KeyOf(r) \in Keys
           /\ req[r].next = "createKey" => req[r].user \in users /\ req[r].user \in Users
<1>1. req[r] # Idle
  BY IdleRecord
<1>2. req[r] \in InFlight
  BY <1>1 DEF TypeOK
<1>3. req[r].challenge \in Challenges /\ req[r].user \in Owners /\ req[r].count \in Nat
  BY <1>2 DEF InFlight
<1>4. answer[req[r].challenge] \in Answers
  BY <1>1, <1>3 DEF TypeOK
<1>5. KeyOf(r) \in Keys
  BY <1>4 DEF KeyOf, Answers
<1> QED
  BY <1>1, <1>2, <1>3, <1>4, <1>5 DEF TypeOK, Doing

LEMMA NotIdle ==
    ASSUME TypeOK, NEW r \in Requests
    PROVE  /\ req[r] # Idle <=> req[r].next # "idle"
           /\ req[r] # Idle <=> req[r].next \in Statements
<1>1. req[r] = Idle => req[r].next = "idle"
  BY IdleRecord
<1>2. req[r] # Idle => req[r].next \in Statements /\ req[r].next # "idle"
  BY DEF TypeOK, InFlight, Statements
<1> QED
  BY <1>1, <1>2 DEF Statements

(* Requests stay in order when one of them changes. *)
LEMMA RequestsStay ==
    ASSUME TypeOK, AnswersStay, users \subseteq users', NEW r \in Requests, NEW q,
           req' = [req EXCEPT ![r] = q],
           \/ q = Idle
           \/ /\ q \in InFlight /\ answer'[q.challenge] # None
              /\ q.next = "createKey" => q.user \in users'
    PROVE  RequestsOK' /\ req'[r] = q /\ \A p \in Requests \ {r} : req'[p] = req[p]
<1>1. req'[r] = q /\ \A p \in Requests \ {r} : req'[p] = req[p]
  BY DEF TypeOK
<1>2. req' \in [Requests -> InFlight \cup {Idle}]
  BY DEF TypeOK
<1>3. ASSUME NEW p \in Requests
      PROVE  /\ req'[p] # Idle => answer'[req'[p].challenge] # None
             /\ Doing(p, "createKey")' => req'[p].user \in users'
  <2>1. CASE p = r
    BY <1>1, <2>1, IdleRecord DEF Doing
  <2>2. CASE p # r
    <3>1. req'[p] = req[p]
      BY <1>1, <2>2
    <3>2. req[p] # Idle => req[p].challenge \in Challenges /\ answer[req[p].challenge] # None
      BY NotIdle, FieldsOf DEF TypeOK
    <3> QED
      BY <3>1, <3>2 DEF Doing, AnswersStay, TypeOK
  <2> QED
    BY <2>1, <2>2
<1> QED
  BY <1>1, <1>2, <1>3 DEF RequestsOK

LEMMA DoneStay ==
    ASSUME TypeOK, AnswersStay, users \subseteq users', NEW r \in Requests, req' = Done(r)
    PROVE  /\ RequestsOK' /\ req'[r] = Idle /\ req'[r].next = "idle" /\ req'[r].challenge = None
           /\ \A p \in Requests \ {r} : req'[p] = req[p]
BY RequestsStay, IdleRecord DEF Done

GoesOn(r, w, o, c, n) == req' = [req EXCEPT ![r] = Request(w, o, c, n)]

LEMMA GoOnStay ==
    ASSUME TypeOK, AnswersStay, users \subseteq users', NEW r \in Requests,
           NEW w \in Statements, NEW o \in Owners, NEW c \in Challenges, NEW n \in Nat,
           answer'[c] # None, w = "createKey" => o \in users',
           GoesOn(r, w, o, c, n)
    PROVE  /\ RequestsOK'
           /\ req'[r].next = w /\ req'[r].user = o /\ req'[r].challenge = c /\ req'[r].count = n
           /\ \A p \in Requests \ {r} : req'[p] = req[p]
<1> DEFINE q == Request(w, o, c, n)
<1>1. q \in InFlight /\ q.next = w /\ q.user = o /\ q.challenge = c /\ q.count = n
  BY RequestRecord
<1>2. req' = [req EXCEPT ![r] = q]
  BY DEF GoesOn
<1>3. answer'[q.challenge] # None /\ (q.next = "createKey" => q.user \in users')
  BY <1>1
<1> HIDE DEF q
<1>4. RequestsOK' /\ req'[r] = q /\ \A p \in Requests \ {r} : req'[p] = req[p]
  BY <1>1, <1>2, <1>3, RequestsStay
<1> QED
  BY <1>1, <1>4

(* What a handler that takes a challenge begins with. *)
LEMMA TakeFields ==
    ASSUME TypeOK, NEW r \in Requests, NEW c \in Challenges, NEW w \in Statements, NEW o \in Owners,
           w = "createKey" => o \in users, Take(r, c, w, o)
    PROVE  /\ RequestsOK'
           /\ req'[r].next = w /\ req'[r].user = o /\ req'[r].challenge = c
           /\ \A p \in Requests \ {r} : req'[p] = req[p]
           /\ req[r].next = "idle" /\ req[r].challenge = None
           /\ UNCHANGED <<store, answer, key, users, issued, signedUp, keyless, crossed>>
<1>1. UNCHANGED <<store, answer, key, users, issued, signedUp, keyless, crossed>>
  BY DEF Take
<1>2. AnswersStay /\ users \subseteq users'
  BY <1>1 DEF AnswersStay
<1>3. answer'[c] # None /\ GoesOn(r, w, o, c, 0) /\ req[r] = Idle
  BY <1>1 DEF Take, GoesOn
<1>4. /\ RequestsOK'
      /\ req'[r].next = w /\ req'[r].user = o /\ req'[r].challenge = c
      /\ \A p \in Requests \ {r} : req'[p] = req[p]
  <2>1. 0 \in Nat /\ (w = "createKey" => o \in users')
    BY <1>1
  <2> QED
    BY <1>2, <1>3, <2>1, GoOnStay
<1> QED
  BY <1>1, <1>3, <1>4, IdleRecord

(* The three handlers are of one form. *)
LEMMA ArriveTakes ==
    ASSUME TypeOK, NEW r \in Requests, Arrive(r)
    PROVE  \E c \in Challenges, w \in {"newUser", "createKey", "find"}, o \in Owners :
              /\ Take(r, c, w, o)
              /\ w = "createKey" => o \in users /\ store[c] = o
              /\ w \in {"newUser", "createKey"} => answer[c].kind = "create"
              /\ w # "createKey" => o = Nobody
<1>1. Nobody \in Owners /\ Users \subseteq Owners
  BY DEF Owners
<1> QED
  BY <1>1 DEF Arrive, VerifySignup, VerifyAuthentication, VerifyRegistration

(* The other variables. *)
RestOK ==
    /\ store \in [Challenges -> Owners \cup {None}]
    /\ issued \in [Challenges -> Owners \cup {None}]
    /\ answer \in [Challenges -> Answers \cup {None}]
    /\ key \in [Keys -> AllRows \cup {None}]
    /\ users \subseteq Users
    /\ \A k \in Keys : key[k] # None => key[k].user \in users
    /\ successes \in [Challenges -> Nat]
    /\ doubtful \subseteq Challenges
    /\ signedUp \in [Users -> Challenges \cup {None}]
    /\ keyless \subseteq Users
    /\ crossed \subseteq Keys

LEMMA TypeParts ==
    /\ TypeOK => RequestsOK /\ RestOK
    /\ RequestsOK' /\ RestOK' => TypeOK'
BY DEF TypeOK, RequestsOK, RestOK

LEMMA DoubtTypes ==
    ASSUME TypeOK, NEW S \in SUBSET Challenges, Doubt(S)
    PROVE  /\ doubtful' = doubtful \cup S /\ doubtful' \subseteq Challenges
           /\ successes' \in [Challenges -> Nat]
           /\ \A c \in S : successes'[c] = 0
           /\ \A c \in Challenges \ S : successes'[c] = successes[c]
BY DEF Doubt, TypeOK

LEMMA SucceedTypes ==
    ASSUME TypeOK, NEW r \in Requests, NEW c \in Challenges, c = req[r].challenge, Succeed(r)
    PROVE  /\ successes' \in [Challenges -> Nat]
           /\ \A d \in Challenges \ {c} : successes'[d] = successes[d]
           /\ c \notin doubtful => successes'[c] = successes[c] + 1
           /\ c \in doubtful => successes'[c] = successes[c]
BY DEF Succeed, TypeOK

LEMMA SignedFinite ==
    ASSUME NEW w, NEW k
    PROVE  Cardinality(Signed(w, k)) \in Nat
<1>1. Signed(w, k) \subseteq Challenges
  BY DEF Signed
<1> QED
  BY <1>1, PasskeysAssumption, FS_Subset, FS_CardinalityType

(* The answer to a challenge, and the other challenges. *)
LEMMA IssueFields ==
    ASSUME Base, NEW c \in Challenges, NEW o \in Owners, NEW k \in Keys, Issue(c, o, k)
    PROVE  /\ issued[c] = None /\ store[c] = None /\ answer[c] = None /\ successes[c] = 0
           /\ store'[c] = o /\ issued'[c] = o /\ o # None
           /\ answer'[c] \in Answers /\ answer'[c].key = k
           /\ answer'[c].kind = "create" => Signed("create", k) = {}
           /\ \A d \in Challenges \ {c} :
                 store'[d] = store[d] /\ issued'[d] = issued[d] /\ answer'[d] = answer[d]
           /\ AnswersStay
           /\ store' \in [Challenges -> Owners \cup {None}]
           /\ issued' \in [Challenges -> Owners \cup {None}]
           /\ answer' \in [Challenges -> Answers \cup {None}]
           /\ UNCHANGED <<key, users, req, successes, doubtful, signedUp, keyless, crossed>>
<1> TypeOK /\ UnissuedAreBlank
  BY DEF Base
<1>1. issued[c] = None /\ store[c] = None /\ answer[c] = None /\ successes[c] = 0
  BY DEF Issue, UnissuedAreBlank
<1>2. o # None
  BY PasskeysAssumption
<1> DEFINE a == NextAnswer(k)
<1>3. a \in Answers /\ a.key = k /\ (a.kind = "create" => Signed("create", k) = {})
  <2>1. CASE Signed("create", k) = {}
    <3>1. a = Answer("create", k, 0)
      BY <2>1 DEF NextAnswer
    <3> QED
      BY <2>1, <3>1 DEF Answer, Answers
  <2>2. CASE Signed("create", k) # {}
    <3>1. PICK n \in Nat : a = Answer("get", k, n)
      BY <2>2, SignedFinite DEF NextAnswer
    <3> QED
      BY <3>1 DEF Answer, Answers
  <2> QED
    BY <2>1, <2>2
<1>4. /\ answer' = [answer EXCEPT ![c] = a]
      /\ store' = [store EXCEPT ![c] = o]
      /\ issued' = [issued EXCEPT ![c] = o]
      /\ UNCHANGED <<key, users, req, successes, doubtful, signedUp, keyless, crossed>>
  BY DEF Issue
<1> HIDE DEF a
<1>5. /\ answer'[c] = a /\ store'[c] = o /\ issued'[c] = o
      /\ \A d \in Challenges \ {c} :
            store'[d] = store[d] /\ issued'[d] = issued[d] /\ answer'[d] = answer[d]
  BY <1>4 DEF TypeOK
<1>6. /\ store' \in [Challenges -> Owners \cup {None}]
      /\ issued' \in [Challenges -> Owners \cup {None}]
      /\ answer' \in [Challenges -> Answers \cup {None}]
  BY <1>3, <1>4 DEF TypeOK
<1>7. AnswersStay
  BY <1>1, <1>5 DEF AnswersStay
<1> QED
  BY <1>1, <1>2, <1>3, <1>4, <1>5, <1>6, <1>7

LEMMA CreateUserFields ==
    ASSUME TypeOK, NEW r \in Requests, CreateUser(r)
    PROVE  \E u \in Users \ users, c \in Challenges :
              /\ c = req[r].challenge /\ req[r].next = "newUser"
              /\ users' = users \cup {u}
              /\ signedUp' \in [Users -> Challenges \cup {None}]
              /\ signedUp'[u] = c /\ \A v \in Users \ {u} : signedUp'[v] = signedUp[v]
              /\ req'[r].next = "createKey" /\ req'[r].user = u /\ req'[r].challenge = c
              /\ \A p \in Requests \ {r} : req'[p] = req[p]
              /\ RequestsOK'
              /\ UNCHANGED <<store, answer, key, issued, successes, doubtful, keyless, crossed>>
<1>1. PICK u \in Users \ users :
        /\ users' = users \cup {u}
        /\ signedUp' = [signedUp EXCEPT ![u] = req[r].challenge]
        /\ req' = [req EXCEPT ![r] = Request("createKey", u, req[r].challenge, 0)]
  BY DEF CreateUser
<1>2. req[r].next = "newUser" /\ UNCHANGED <<store, answer, key, issued, successes, doubtful, keyless, crossed>>
  BY DEF CreateUser, Doing
<1>3. PICK c \in Challenges : c = req[r].challenge /\ answer[c] # None
  BY <1>2, FieldsOf, PasskeysAssumption
<1>4. AnswersStay /\ users \subseteq users'
  BY <1>1, <1>2 DEF AnswersStay
<1>5. u \in Owners /\ "createKey" \in Statements
  BY DEF Owners, Statements
<1>6. /\ RequestsOK'
      /\ req'[r].next = "createKey" /\ req'[r].user = u /\ req'[r].challenge = c
      /\ \A p \in Requests \ {r} : req'[p] = req[p]
  <2>1. GoesOn(r, "createKey", u, c, 0)
    BY <1>1, <1>3 DEF GoesOn
  <2>2. answer'[c] # None /\ u \in users' /\ 0 \in Nat
    BY <1>1, <1>2, <1>3
  <2> QED
    BY <1>4, <1>5, <2>1, <2>2, GoOnStay
<1>7. /\ signedUp' \in [Users -> Challenges \cup {None}]
      /\ signedUp'[u] = c /\ \A v \in Users \ {u} : signedUp'[v] = signedUp[v]
  BY <1>1, <1>3 DEF TypeOK
<1> QED
  BY <1>1, <1>2, <1>3, <1>6, <1>7

(* The steps of a request that has its challenge and its key. *)
KeySteps(r) == CreateKey(r) \/ FindKey(r) \/ UpdateKey(r) \/ Drop(r)

LEMMA KeyStepFields ==
    ASSUME TypeOK, NEW r \in Requests, KeySteps(r)
    PROVE  /\ req[r].challenge \in Challenges /\ KeyOf(r) \in Keys /\ req[r].next \in Statements
           /\ RequestsOK'
           /\ \A p \in Requests \ {r} : req'[p] = req[p]
           /\ UNCHANGED <<answer, users, issued, doubtful, signedUp, keyless>>
           /\ \/ req'[r] = Idle /\ req'[r].next = "idle" /\ req'[r].challenge = None
              \/ /\ req'[r].challenge = req[r].challenge
                 /\ \/ (CreateKey(r) \/ UpdateKey(r)) /\ req'[r].next = "drop"
                    \/ FindKey(r) /\ req'[r].next = "update"
                                  /\ req'[r].count = answer[req[r].challenge].count
<1>1. req[r].next \in {"createKey", "find", "update", "drop"}
  BY DEF KeySteps, CreateKey, FindKey, UpdateKey, Drop, Doing
<1>2. PICK c \in Challenges : c = req[r].challenge /\ answer[c] \in Answers
  BY <1>1, FieldsOf
<1>3. KeyOf(r) \in Keys
  BY <1>1, FieldsOf
<1>4. UNCHANGED <<answer, users, issued, doubtful, signedUp, keyless>>
  BY DEF KeySteps, CreateKey, FindKey, UpdateKey, Drop, history
<1>5. AnswersStay /\ users \subseteq users'
  BY <1>4 DEF AnswersStay
<1>6. answer[c].count \in Nat
  BY <1>2 DEF Answers
<1>7. CASE req' = Done(r)
  BY <1>1, <1>2, <1>3, <1>4, <1>5, <1>7, DoneStay DEF Statements
<1>8. ASSUME CreateKey(r) \/ UpdateKey(r), req' # Done(r)
      PROVE  /\ RequestsOK'
             /\ \A p \in Requests \ {r} : req'[p] = req[p]
             /\ req'[r].challenge = c /\ req'[r].next = "drop"
  <2>1. GoesOn(r, "drop", Nobody, c, 0)
    BY <1>2, <1>8 DEF CreateKey, UpdateKey, GoesOn
  <2>2. "drop" \in Statements /\ Nobody \in Owners /\ answer'[c] # None /\ "drop" # "createKey" /\ 0 \in Nat
    BY <1>2, <1>4, PasskeysAssumption DEF Statements, Owners
  <2> QED
    BY <1>5, <2>1, <2>2, GoOnStay
<1>9. ASSUME FindKey(r), req' # Done(r)
      PROVE  /\ RequestsOK'
             /\ \A p \in Requests \ {r} : req'[p] = req[p]
             /\ req'[r].challenge = c /\ req'[r].next = "update"
             /\ req'[r].count = answer[c].count
  <2>1. GoesOn(r, "update", Nobody, c, answer[c].count)
    BY <1>2, <1>9 DEF FindKey, GoesOn
  <2>2. "update" \in Statements /\ Nobody \in Owners /\ answer'[c] # None /\ "update" # "createKey"
    BY <1>2, <1>4, PasskeysAssumption DEF Statements, Owners
  <2> QED
    BY <1>5, <1>6, <2>1, <2>2, GoOnStay
<1>10. CASE Drop(r)
  BY <1>7, <1>10 DEF Drop
<1> QED
  BY <1>1, <1>2, <1>3, <1>4, <1>7, <1>8, <1>9, <1>10 DEF KeySteps, Statements

LEMMA KeyStepRest ==
    ASSUME TypeOK, NEW r \in Requests, KeySteps(r)
    PROVE  /\ store' \in [Challenges -> Owners \cup {None}]
           /\ \A c \in Challenges : store'[c] = store[c] \/ store'[c] = None
           /\ key' \in [Keys -> AllRows \cup {None}]
           /\ \A k \in Keys : key'[k] # None => key'[k].user \in users
           /\ successes' \in [Challenges -> Nat]
           /\ \A c \in Challenges \ {req[r].challenge} : successes'[c] = successes[c]
           /\ crossed' \subseteq Keys
<1>1. req[r].next \in {"createKey", "find", "update", "drop"}
  BY DEF KeySteps, CreateKey, FindKey, UpdateKey, Drop, Doing
<1>2. PICK c \in Challenges, k \in Keys : c = req[r].challenge /\ k = KeyOf(r)
  BY <1>1, FieldsOf
<1>3. CASE CreateKey(r)
  <2>1. store' = store /\ crossed' = crossed /\ req[r].next = "createKey"
    BY <1>3 DEF CreateKey, Doing
  <2>2. successes' \in [Challenges -> Nat] /\ \A d \in Challenges \ {c} : successes'[d] = successes[d]
    <3>1. CASE Succeed(r)
      BY <1>2, <3>1, SucceedTypes
    <3>2. CASE successes' = successes
      BY <3>2 DEF TypeOK
    <3> QED
      BY <1>3, <3>1, <3>2 DEF CreateKey
  <2>3. /\ key' \in [Keys -> AllRows \cup {None}]
        /\ \A j \in Keys : key'[j] # None => key'[j].user \in users
    <3>1. CASE key' = key
      BY <3>1 DEF TypeOK
    <3>2. CASE key' = [key EXCEPT ![k] = Row(req[r].user, 0)]
      <4> DEFINE f == Row(req[r].user, 0)
      <4>1. f \in AllRows /\ f.user \in users
        BY <2>1, FieldsOf DEF Row, AllRows
      <4> HIDE DEF f
      <4> QED
        BY <3>2, <4>1 DEF TypeOK, f
    <3> QED
      BY <1>2, <1>3, <3>1, <3>2 DEF CreateKey
  <2> QED
    BY <1>2, <2>1, <2>2, <2>3 DEF TypeOK
<1>4. CASE FindKey(r)
  <2>1. store' = store /\ key' = key /\ successes' = successes /\ crossed' \subseteq Keys
    BY <1>2, <1>4 DEF FindKey, TypeOK
  <2> QED
    BY <2>1 DEF TypeOK
<1>5. CASE UpdateKey(r)
  <2>1. store' = store /\ crossed' = crossed /\ req[r].next = "update"
    BY <1>5 DEF UpdateKey, Doing
  <2>2. successes' \in [Challenges -> Nat] /\ \A d \in Challenges \ {c} : successes'[d] = successes[d]
    <3>1. CASE Succeed(r)
      BY <1>2, <3>1, SucceedTypes
    <3>2. CASE successes' = successes
      BY <3>2 DEF TypeOK
    <3> QED
      BY <1>5, <3>1, <3>2 DEF UpdateKey
  <2>3. /\ key' \in [Keys -> AllRows \cup {None}]
        /\ \A j \in Keys : key'[j] # None => key'[j].user \in users
    <3>1. CASE key' = key
      BY <3>1 DEF TypeOK
    <3>2. CASE key[k] # None /\ key' = [key EXCEPT ![k] = Row(key[k].user, req[r].count)]
      <4> DEFINE f == Row(key[k].user, req[r].count)
      <4>1. f \in AllRows /\ f.user \in users
        <5>1. key[k] \in AllRows /\ key[k].user \in users /\ req[r].count \in Nat
          BY <2>1, <3>2, FieldsOf DEF TypeOK
        <5> QED
          BY <5>1 DEF Row, AllRows
      <4> HIDE DEF f
      <4> QED
        BY <3>2, <4>1 DEF TypeOK, f
    <3> QED
      BY <1>2, <1>5, <3>1, <3>2 DEF UpdateKey
  <2> QED
    BY <1>2, <2>1, <2>2, <2>3 DEF TypeOK
<1>6. CASE Drop(r)
  <2>1. store' = [store EXCEPT ![c] = None]
    BY <1>2, <1>6 DEF Drop
  <2>2. key' = key /\ successes' = successes /\ crossed' = crossed
    BY <1>6 DEF Drop, history
  <2> QED
    BY <2>1, <2>2 DEF TypeOK
<1> QED
  BY <1>3, <1>4, <1>5, <1>6 DEF KeySteps

(* What ends a request early. *)
LEMMA AbortFields ==
    ASSUME TypeOK, NEW r \in Requests, Abort(r)
    PROVE  /\ RequestsOK' /\ req'[r].next = "idle" /\ req'[r].challenge = None
           /\ \A p \in Requests \ {r} : req'[p] = req[p]
           /\ KeptBy(r) \in SUBSET Challenges /\ Doubt(KeptBy(r))
           /\ CutBy(r) \in SUBSET Users /\ keyless' = keyless \cup CutBy(r)
           /\ req[r].next # "idle"
           /\ UNCHANGED <<store, answer, key, users, issued, signedUp, crossed>>
<1>1. req[r].next # "idle" /\ req' = Done(r) /\ Doubt(KeptBy(r)) /\ keyless' = keyless \cup CutBy(r)
  BY NotIdle DEF Abort
<1>2. UNCHANGED <<store, answer, key, users, issued, signedUp, crossed>>
  BY DEF Abort
<1>3. KeptBy(r) \in SUBSET Challenges /\ CutBy(r) \in SUBSET Users
  BY <1>1, FieldsOf DEF KeptBy, CutBy, Doing
<1>4. AnswersStay /\ users \subseteq users'
  BY <1>2 DEF AnswersStay
<1> QED
  BY <1>1, <1>2, <1>3, <1>4, DoneStay

LEMMA RestartFields ==
    ASSUME TypeOK, Restart
    PROVE  /\ RequestsOK' /\ \A r \in Requests : req'[r] = Idle /\ req'[r].next = "idle"
           /\ store' \in [Challenges -> Owners \cup {None}] /\ \A c \in Challenges : store'[c] = None
           /\ keyless' = keyless \cup UNION {CutBy(r) : r \in Requests} /\ keyless' \subseteq Users
           /\ UNCHANGED <<answer, key, users, issued, successes, doubtful, signedUp, crossed>>
<1>1. ASSUME NEW r \in Requests
      PROVE  CutBy(r) \subseteq Users
  BY FieldsOf DEF CutBy, Doing
<1>2. /\ req' = [r \in Requests |-> Idle] /\ store' = [c \in Challenges |-> None]
      /\ keyless' = keyless \cup UNION {CutBy(r) : r \in Requests}
      /\ UNCHANGED <<answer, key, users, issued, successes, doubtful, signedUp, crossed>>
  BY DEF Restart
<1>3. RequestsOK' /\ \A r \in Requests : req'[r] = Idle /\ req'[r].next = "idle"
  BY <1>2, IdleRecord DEF RequestsOK, Doing
<1> QED
  BY <1>1, <1>2, <1>3 DEF TypeOK

LEMMA DeleteFields ==
    ASSUME TypeOK, NEW u \in Users, NEW k \in Keys, DeleteKey(u, k)
    PROVE  /\ key[k] # None /\ key[k].user = u /\ key'[k] = None
           /\ key' \in [Keys -> AllRows \cup {None}]
           /\ \A j \in Keys \ {k} : key'[j] = key[j]
           /\ keyless' = keyless \cup {u}
           /\ UNCHANGED <<store, answer, users, req, issued, successes, doubtful, signedUp, crossed>>
<1>1. key[k] # None /\ key[k].user = u /\ keyless' = keyless \cup {u}
  BY DEF DeleteKey
<1>2. UNCHANGED <<store, answer, users, req, issued, successes, doubtful, signedUp, crossed>>
  BY DEF DeleteKey
<1>3. key' = [key EXCEPT ![k] = None]
  BY DEF DeleteKey
<1> QED
  BY <1>1, <1>2, <1>3 DEF TypeOK

LEMMA BaseInit == Init => Base
<1> SUFFICES ASSUME Init PROVE Base
  OBVIOUS
<1>1. PICK u \in Users : users = {u}
  BY DEF Init
<1>2. TypeOK
  BY <1>1, IdleRecord DEF Init, TypeOK, Doing
<1>3. UnissuedAreBlank
  BY DEF Init, UnissuedAreBlank
<1> QED
  BY <1>2, <1>3 DEF Base

LEMMA BaseArrive ==
    ASSUME Base, NEW r \in Requests, Arrive(r)
    PROVE  Base'
<1> TypeOK /\ UnissuedAreBlank
  BY DEF Base
<1>1. PICK c \in Challenges, w \in {"newUser", "createKey", "find"}, o \in Owners :
        Take(r, c, w, o) /\ (w = "createKey" => o \in users)
  BY ArriveTakes
<1>2. /\ RequestsOK'
      /\ UNCHANGED <<store, answer, key, users, issued, signedUp, keyless, crossed>>
  BY <1>1, TakeFields DEF Statements
<1> DEFINE S == IF Holding(c) # {} THEN {c} ELSE {}
<1>3. Doubt(S) /\ S \in SUBSET Challenges
  BY <1>1 DEF Take
<1> HIDE DEF S
<1>4. /\ doubtful' \subseteq Challenges /\ successes' \in [Challenges -> Nat]
      /\ \A d \in Challenges : successes'[d] = 0 \/ successes'[d] = successes[d]
  BY <1>3, DoubtTypes
<1>5. RestOK'
  BY <1>2, <1>4 DEF TypeOK, RestOK
<1>6. UnissuedAreBlank'
  BY <1>2, <1>4 DEF UnissuedAreBlank
<1> QED
  BY <1>2, <1>5, <1>6, TypeParts DEF Base

LEMMA BaseKeySteps ==
    ASSUME Base, NEW r \in Requests, KeySteps(r)
    PROVE  Base'
<1> TypeOK /\ UnissuedAreBlank
  BY DEF Base
<1>1. /\ RequestsOK'
      /\ UNCHANGED <<answer, users, issued, doubtful, signedUp, keyless>>
  BY KeyStepFields
<1>2. PICK c \in Challenges : c = req[r].challenge /\ answer[c] # None
  <2>1. req[r].next \in Statements
    BY KeyStepFields
  <2> QED
    BY <2>1, NotIdle, FieldsOf, PasskeysAssumption
<1>3. RestOK'
  BY <1>1, KeyStepRest DEF TypeOK, RestOK
<1>4. UnissuedAreBlank'
  BY <1>1, <1>2, KeyStepRest DEF UnissuedAreBlank
<1> QED
  BY <1>1, <1>3, <1>4, TypeParts DEF Base

LEMMA BaseNext == Base /\ [Next]_vars => Base'
<1> SUFFICES ASSUME Base, [Next]_vars PROVE Base'
  OBVIOUS
<1> TypeOK /\ UnissuedAreBlank
  BY DEF Base
<1>1. ASSUME NEW r \in Requests, CreateUser(r)
      PROVE  Base'
  <2>1. PICK u \in Users \ users, c \in Challenges :
          /\ users' = users \cup {u}
          /\ signedUp' \in [Users -> Challenges \cup {None}]
          /\ RequestsOK'
          /\ UNCHANGED <<store, answer, key, issued, successes, doubtful, keyless, crossed>>
    BY <1>1, CreateUserFields
  <2>2. RestOK'
    BY <2>1 DEF TypeOK, RestOK
  <2>3. UnissuedAreBlank'
    BY <2>1 DEF UnissuedAreBlank
  <2> QED
    BY <2>1, <2>2, <2>3, TypeParts DEF Base
<1>2. ASSUME NEW r \in Requests, Abort(r)
      PROVE  Base'
  <2>1. /\ RequestsOK'
        /\ KeptBy(r) \in SUBSET Challenges /\ Doubt(KeptBy(r))
        /\ keyless' \subseteq Users
        /\ UNCHANGED <<store, answer, key, users, issued, signedUp, crossed>>
    BY <1>2, AbortFields DEF TypeOK
  <2>2. /\ doubtful' \subseteq Challenges /\ successes' \in [Challenges -> Nat]
        /\ \A d \in Challenges : successes'[d] = 0 \/ successes'[d] = successes[d]
    BY <2>1, DoubtTypes
  <2>3. RestOK'
    BY <2>1, <2>2 DEF TypeOK, RestOK
  <2>4. UnissuedAreBlank'
    BY <2>1, <2>2 DEF UnissuedAreBlank
  <2> QED
    BY <2>1, <2>3, <2>4, TypeParts DEF Base
<1>3. ASSUME NEW c \in Challenges, NEW o \in Owners, NEW k \in Keys, Issue(c, o, k)
      PROVE  Base'
  <2>1. /\ store'[c] = o /\ issued'[c] = o /\ o # None
        /\ \A d \in Challenges \ {c} :
              store'[d] = store[d] /\ issued'[d] = issued[d] /\ answer'[d] = answer[d]
        /\ AnswersStay
        /\ store' \in [Challenges -> Owners \cup {None}]
        /\ issued' \in [Challenges -> Owners \cup {None}]
        /\ answer' \in [Challenges -> Answers \cup {None}]
        /\ UNCHANGED <<key, users, req, successes, doubtful, signedUp, keyless, crossed>>
    BY <1>3, IssueFields
  <2>2. RestOK'
    BY <2>1 DEF TypeOK, RestOK
  <2>3. RequestsOK'
    <3>1. ASSUME NEW r \in Requests, req[r] # Idle
          PROVE  answer'[req[r].challenge] # None
      BY <2>1, <3>1, FieldsOf, NotIdle DEF AnswersStay, TypeOK
    <3> QED
      BY <2>1, <3>1 DEF TypeOK, RequestsOK, Doing
  <2>4. UnissuedAreBlank'
    BY <2>1 DEF UnissuedAreBlank
  <2> QED
    BY <2>2, <2>3, <2>4, TypeParts DEF Base
<1>4. ASSUME NEW c \in Challenges, Expire(c)
      PROVE  Base'
  <2>1. store' = [store EXCEPT ![c] = None]
    BY <1>4 DEF Expire
  <2>2. UNCHANGED <<answer, key, users, req, issued, successes, doubtful, signedUp, keyless, crossed>>
    BY <1>4 DEF Expire, history
  <2>3. RestOK' /\ RequestsOK'
    BY <2>1, <2>2 DEF TypeOK, RestOK, RequestsOK, Doing
  <2>4. UnissuedAreBlank'
    BY <2>1, <2>2 DEF UnissuedAreBlank, TypeOK
  <2> QED
    BY <2>3, <2>4, TypeParts DEF Base
<1>5. ASSUME NEW u \in Users, NEW k \in Keys, DeleteKey(u, k)
      PROVE  Base'
  <2>1. /\ key'[k] = None
        /\ key' \in [Keys -> AllRows \cup {None}]
        /\ \A j \in Keys \ {k} : key'[j] = key[j]
        /\ keyless' = keyless \cup {u}
        /\ UNCHANGED <<store, answer, users, req, issued, successes, doubtful, signedUp, crossed>>
    BY <1>5, DeleteFields
  <2>2. RestOK' /\ RequestsOK'
    BY <2>1 DEF TypeOK, RestOK, RequestsOK, Doing
  <2>3. UnissuedAreBlank'
    BY <2>1 DEF UnissuedAreBlank
  <2> QED
    BY <2>2, <2>3, TypeParts DEF Base
<1>6. CASE Restart
  <2>1. /\ RequestsOK'
        /\ store' \in [Challenges -> Owners \cup {None}] /\ \A c \in Challenges : store'[c] = None
        /\ keyless' \subseteq Users
        /\ UNCHANGED <<answer, key, users, issued, successes, doubtful, signedUp, crossed>>
    BY <1>6, RestartFields
  <2>2. RestOK'
    BY <2>1 DEF TypeOK, RestOK
  <2>3. UnissuedAreBlank'
    BY <2>1 DEF UnissuedAreBlank
  <2> QED
    BY <2>1, <2>2, <2>3, TypeParts DEF Base
<1>7. CASE UNCHANGED vars
  BY <1>7 DEF vars, history, Base, TypeOK, UnissuedAreBlank, Doing
<1> QED
  BY <1>1, <1>2, <1>3, <1>4, <1>5, <1>6, <1>7, BaseArrive, BaseKeySteps DEF Next, Step, KeySteps

(* Every variable has its type in every reachable state; in particular the
   challenge of a request in flight has been answered. *)
THEOREM TypeCorrect == Spec => []TypeOK
<1>1. Base => TypeOK
  BY DEF Base
<1> QED
  BY <1>1, BaseInit, BaseNext, PTL DEF Spec

LEMMA BaseAlways == Spec => []Base
BY BaseInit, BaseNext, PTL DEF Spec

(***************************************************************************)
(* What the steps of a request with its key do, each in its two outcomes.  *)
(***************************************************************************)

LEMMA CreateKeyFields ==
    ASSUME TypeOK, NEW r \in Requests, CreateKey(r)
    PROVE  /\ req[r].next = "createKey" /\ UNCHANGED <<store, crossed>>
           /\ \/ /\ key[KeyOf(r)] # None /\ UNCHANGED <<key, successes>>
                 /\ req'[r].next = "idle" /\ req'[r].challenge = None
              \/ /\ key[KeyOf(r)] = None /\ Succeed(r)
                 /\ key'[KeyOf(r)] # None /\ key'[KeyOf(r)].user = req[r].user /\ key'[KeyOf(r)].count = 0
                 /\ \A j \in Keys \ {KeyOf(r)} : key'[j] = key[j]
                 /\ req'[r].next = "drop" /\ req'[r].challenge = req[r].challenge
<1>1. req[r].next = "createKey" /\ UNCHANGED <<store, crossed>>
  BY DEF CreateKey, Doing
<1>2. PICK k \in Keys, c \in Challenges : k = KeyOf(r) /\ c = req[r].challenge
  BY <1>1, FieldsOf
<1>3. CASE key[k] # None
  <2>1. req' = Done(r) /\ UNCHANGED <<key, successes>>
    BY <1>2, <1>3 DEF CreateKey
  <2>2. req'[r] = Idle
    BY <2>1 DEF TypeOK, Done
  <2> QED
    BY <1>1, <1>2, <1>3, <2>1, <2>2, IdleRecord
<1>4. CASE key[k] = None
  <2> DEFINE f == Row(req[r].user, 0)
  <2>1. key' = [key EXCEPT ![k] = f] /\ Succeed(r) /\ GoesOn(r, "drop", Nobody, c, 0)
    BY <1>2, <1>4 DEF CreateKey, GoesOn
  <2>2. f \in AllRows /\ f.user = req[r].user /\ f.count = 0
    BY <1>1, FieldsOf DEF Row, AllRows
  <2> HIDE DEF f
  <2>3. key'[k] = f /\ key'[k] # None /\ \A j \in Keys \ {k} : key'[j] = key[j]
    BY <2>1, <2>2, PasskeysAssumption DEF TypeOK
  <2>4. req'[r] = Request("drop", Nobody, c, 0)
    BY <2>1 DEF GoesOn, TypeOK
  <2>5. "drop" \in Statements /\ Nobody \in Owners /\ 0 \in Nat
    BY DEF Statements, Owners
  <2>6. req'[r].next = "drop" /\ req'[r].challenge = c
    BY <2>4, <2>5, RequestRecord
  <2> QED
    BY <1>1, <1>2, <1>4, <2>1, <2>2, <2>3, <2>6
<1> QED
  BY <1>3, <1>4

LEMMA UpdateKeyFields ==
    ASSUME TypeOK, NEW r \in Requests, UpdateKey(r)
    PROVE  /\ req[r].next = "update" /\ UNCHANGED <<store, crossed>>
           /\ \/ /\ key[KeyOf(r)] = None /\ UNCHANGED <<key, successes>>
                 /\ req'[r].next = "idle" /\ req'[r].challenge = None
              \/ /\ key[KeyOf(r)] # None /\ Succeed(r)
                 /\ key'[KeyOf(r)] # None /\ key'[KeyOf(r)].user = key[KeyOf(r)].user
                 /\ key'[KeyOf(r)].count = req[r].count
                 /\ \A j \in Keys \ {KeyOf(r)} : key'[j] = key[j]
                 /\ req'[r].next = "drop" /\ req'[r].challenge = req[r].challenge
<1>1. req[r].next = "update" /\ UNCHANGED <<store, crossed>>
  BY DEF UpdateKey, Doing
<1>2. PICK k \in Keys, c \in Challenges : k = KeyOf(r) /\ c = req[r].challenge
  BY <1>1, FieldsOf
<1>3. CASE key[k] = None
  <2>1. req' = Done(r) /\ UNCHANGED <<key, successes>>
    BY <1>2, <1>3 DEF UpdateKey
  <2>2. req'[r] = Idle
    BY <2>1 DEF TypeOK, Done
  <2> QED
    BY <1>1, <1>2, <1>3, <2>1, <2>2, IdleRecord
<1>4. CASE key[k] # None
  <2> DEFINE f == Row(key[k].user, req[r].count)
  <2>1. key' = [key EXCEPT ![k] = f] /\ Succeed(r) /\ GoesOn(r, "drop", Nobody, c, 0)
    BY <1>2, <1>4 DEF UpdateKey, GoesOn
  <2>2. f \in AllRows /\ f.user = key[k].user /\ f.count = req[r].count
    <3>1. key[k] \in AllRows /\ req[r].count \in Nat
      BY <1>1, <1>4, FieldsOf DEF TypeOK
    <3> QED
      BY <3>1 DEF Row, AllRows
  <2> HIDE DEF f
  <2>3. key'[k] = f /\ key'[k] # None /\ \A j \in Keys \ {k} : key'[j] = key[j]
    BY <2>1, <2>2, PasskeysAssumption DEF TypeOK
  <2>4. req'[r] = Request("drop", Nobody, c, 0)
    BY <2>1 DEF GoesOn, TypeOK
  <2>5. "drop" \in Statements /\ Nobody \in Owners /\ 0 \in Nat
    BY DEF Statements, Owners
  <2>6. req'[r].next = "drop" /\ req'[r].challenge = c
    BY <2>4, <2>5, RequestRecord
  <2> QED
    BY <1>1, <1>2, <1>4, <2>1, <2>2, <2>3, <2>6
<1> QED
  BY <1>3, <1>4

LEMMA FindKeyFields ==
    ASSUME TypeOK, NEW r \in Requests, FindKey(r)
    PROVE  /\ req[r].next = "find" /\ UNCHANGED <<store, key, successes>>
           /\ \/ req'[r].next = "idle" /\ req'[r].challenge = None /\ crossed' = crossed
              \/ /\ key[KeyOf(r)] # None
                 /\ req'[r].next = "update" /\ req'[r].challenge = req[r].challenge
                 /\ req'[r].count \in Nat /\ req'[r].count >= key[KeyOf(r)].count
                 /\ crossed \subseteq crossed'
                 /\ SigningIn(KeyOf(r)) # {} => KeyOf(r) \in crossed'
<1>1. req[r].next = "find" /\ UNCHANGED <<store, key, successes>>
  BY DEF FindKey, Doing
<1>2. PICK k \in Keys, c \in Challenges : k = KeyOf(r) /\ c = req[r].challenge
  BY <1>1, FieldsOf
<1>3. PICK n \in Nat : n = answer[c].count
  BY <1>1, <1>2, FieldsOf DEF Answers
<1>4. CASE req' = Done(r) /\ crossed' = crossed
  <2>1. req'[r] = Idle
    BY <1>4 DEF TypeOK, Done
  <2> QED
    BY <1>1, <1>4, <2>1, IdleRecord
<1>5. CASE /\ key[k] # None /\ ~(n <= key[k].count /\ {n, key[k].count} # {0})
           /\ GoesOn(r, "update", Nobody, c, n)
           /\ crossed' = IF SigningIn(k) # {} THEN crossed \cup {k} ELSE crossed
  <2>1. key[k].count \in Nat
    BY <1>5 DEF TypeOK, AllRows
  <2>2. n >= key[k].count
    BY <1>5, <2>1
  <2>3. req'[r] = Request("update", Nobody, c, n)
    BY <1>5 DEF GoesOn, TypeOK
  <2>4. "update" \in Statements /\ Nobody \in Owners
    BY DEF Statements, Owners
  <2>5. req'[r].next = "update" /\ req'[r].challenge = c /\ req'[r].count = n
    BY <2>3, <2>4, RequestRecord
  <2>6. crossed \subseteq crossed' /\ (SigningIn(k) # {} => k \in crossed')
    BY <1>5
  <2> QED
    BY <1>1, <1>2, <1>5, <2>2, <2>5, <2>6
<1> QED
  BY <1>2, <1>3, <1>4, <1>5 DEF FindKey, GoesOn

LEMMA DropFields ==
    ASSUME TypeOK, NEW r \in Requests, Drop(r)
    PROVE  /\ req[r].next = "drop" /\ req[r].challenge \in Challenges
           /\ store'[req[r].challenge] = None
           /\ \A d \in Challenges : store'[d] = store[d] \/ store'[d] = None
           /\ req'[r].next = "idle" /\ req'[r].challenge = None
           /\ UNCHANGED <<key, successes, crossed>>
<1>1. req[r].next = "drop" /\ UNCHANGED <<key, successes, crossed>>
  BY DEF Drop, Doing, history
<1>2. PICK c \in Challenges : c = req[r].challenge
  BY <1>1, FieldsOf
<1>3. req' = Done(r) /\ store' = [store EXCEPT ![c] = None]
  BY <1>2 DEF Drop
<1>4. req'[r] = Idle
  BY <1>3 DEF Done, TypeOK
<1> QED
  BY <1>1, <1>2, <1>3, <1>4, IdleRecord DEF TypeOK

(***************************************************************************)
(* One use of a challenge.                                                 *)
(***************************************************************************)

(* A request that has taken the challenge and has not used it. *)
Using(r, c) == req[r].challenge = c /\ ~Doing(r, "drop")

OnceOf(c) ==
    /\ successes[c] <= 1
    /\ successes[c] = 1 => store[c] = None \/ \E r \in Requests : req[r].challenge = c /\ Doing(r, "drop")
    /\ successes[c] = 1 => \A r \in Requests : ~Using(r, c)
    /\ \A r, p \in Requests : Using(r, c) /\ Using(p, c) => r = p

Once == \A c \in Challenges \ doubtful : OnceOf(c)

(* OnceOf, step by step: the challenge was given up to doubt, or nothing that
   holds it moved, or it moved in one of the ways below. *)
LEMMA OnceKept ==
    ASSUME TypeOK, NEW c \in Challenges, OnceOf(c),
           successes'[c] = successes[c], store'[c] = store[c] \/ store'[c] = None,
           \A r \in Requests :
              /\ Using(r, c)' => Using(r, c)
              /\ req[r].challenge = c /\ Doing(r, "drop") =>
                    (req[r].challenge = c /\ Doing(r, "drop"))' \/ store'[c] = None
    PROVE  OnceOf(c)'
BY DEF OnceOf, TypeOK

LEMMA OnceUsed ==
    ASSUME TypeOK, TypeOK', NEW c \in Challenges, OnceOf(c), NEW r \in Requests,
           Using(r, c), Succeed(r), req[r].challenge = c, c \notin doubtful,
           req'[r].challenge = c, req'[r].next = "drop",
           \A p \in Requests \ {r} : req'[p] = req[p]
    PROVE  OnceOf(c)'
<1>1. successes[c] \in Nat /\ successes[c] = 0
  <2>1. successes[c] \in Nat
    BY DEF TypeOK
  <2>2. successes[c] <= 1 /\ successes[c] # 1
    BY DEF OnceOf
  <2> QED
    BY <2>1, <2>2
<1>2. successes'[c] = 1
  BY <1>1, SucceedTypes
<1>3. \A p \in Requests : ~Using(p, c)'
  BY DEF OnceOf, Using, Doing
<1> QED
  BY <1>2, <1>3 DEF OnceOf, Doing
LEMMA OnceInit == Init => Once
<1> SUFFICES ASSUME Init, NEW c \in Challenges PROVE OnceOf(c)
  BY DEF Once
<1>1. c # None
  BY PasskeysAssumption
<1> QED
  BY <1>1, IdleRecord DEF Init, OnceOf, Using

(* Every step maps a challenge in one of the ways above. *)
LEMMA OnceKeySteps ==
    ASSUME Base, Once, NEW r \in Requests, KeySteps(r), Base', NEW c \in Challenges \ doubtful
    PROVE  OnceOf(c)'
<1> TypeOK /\ TypeOK' /\ OnceOf(c) /\ c # None /\ c \in Challenges
  BY PasskeysAssumption DEF Base, Once
<1>1. \A p \in Requests \ {r} : req'[p] = req[p]
  BY KeyStepFields
<1>2. ASSUME UNCHANGED successes, store'[c] = store[c] \/ store'[c] = None,
             req'[r].challenge = None \/ (req'[r].challenge = req[r].challenge /\ req'[r].next # "drop"),
             req[r].next = "drop" => store'[req[r].challenge] = None,
             req[r].next # "drop" \/ req'[r].challenge = None
      PROVE  OnceOf(c)'
  <2>1. ASSUME NEW p \in Requests
        PROVE  /\ Using(p, c)' => Using(p, c)
               /\ req[p].challenge = c /\ Doing(p, "drop") =>
                     (req[p].challenge = c /\ Doing(p, "drop"))' \/ store'[c] = None
    BY <1>1, <1>2 DEF Using, Doing
  <2> QED
    BY <1>2, <2>1, OnceKept
<1>3. ASSUME req[r].next # "drop", Succeed(r), UNCHANGED store,
             req[r].challenge \in Challenges,
             req'[r].next = "drop", req'[r].challenge = req[r].challenge
      PROVE  OnceOf(c)'
  <2>1. CASE req[r].challenge = c
    <3>1. Using(r, c)
      BY <1>3, <2>1 DEF Using, Doing
    <3> QED
      BY <1>1, <1>3, <2>1, <3>1, OnceUsed
  <2>2. CASE req[r].challenge # c
    <3>1. successes'[c] = successes[c]
      BY <1>3, <2>2, SucceedTypes
    <3>2. ASSUME NEW p \in Requests
          PROVE  /\ Using(p, c)' => Using(p, c)
                 /\ req[p].challenge = c /\ Doing(p, "drop") =>
                       (req[p].challenge = c /\ Doing(p, "drop"))' \/ store'[c] = None
      BY <1>1, <1>3, <2>2 DEF Using, Doing
    <3> QED
      BY <1>3, <3>1, <3>2, OnceKept
  <2> QED
    BY <2>1, <2>2
<1>4. req[r].challenge \in Challenges
  BY KeyStepFields
<1>5. CASE CreateKey(r)
  BY <1>2, <1>3, <1>4, <1>5, CreateKeyFields
<1>6. CASE UpdateKey(r)
  BY <1>2, <1>3, <1>4, <1>6, UpdateKeyFields
<1>7. CASE FindKey(r)
  BY <1>2, <1>7, FindKeyFields
<1>8. CASE Drop(r)
  BY <1>2, <1>8, DropFields
<1> QED
  BY <1>5, <1>6, <1>7, <1>8 DEF KeySteps

LEMMA OnceNext == Base /\ Base' /\ Once /\ [Next]_vars => Once'
<1> SUFFICES ASSUME Base, Base', Once, [Next]_vars PROVE Once'
  OBVIOUS
<1> TypeOK /\ TypeOK' /\ UnissuedAreBlank
  BY DEF Base
<1> USE DEF Using, Doing
<1>1. ASSUME NEW r \in Requests, Arrive(r)
      PROVE  Once'
  <2>1. PICK c \in Challenges, w \in {"newUser", "createKey", "find"}, o \in Owners :
          Take(r, c, w, o) /\ (w = "createKey" => o \in users)
    BY <1>1, ArriveTakes
  <2>2. /\ req'[r].next = w /\ req'[r].challenge = c
        /\ \A p \in Requests \ {r} : req'[p] = req[p]
        /\ req[r].next = "idle" /\ req[r].challenge = None
        /\ UNCHANGED <<store, answer, key, users, issued, signedUp, keyless, crossed>>
    BY <2>1, TakeFields DEF Statements
  <2> DEFINE S == IF Holding(c) # {} THEN {c} ELSE {}
  <2>3. Doubt(S) /\ S \in SUBSET Challenges /\ store[c] # None
    BY <2>1 DEF Take
  <2>4. Holding(c) # {} => c \in S
    OBVIOUS
  <2> HIDE DEF S
  <2>5. ASSUME NEW d \in Challenges \ doubtful'
        PROVE  OnceOf(d)'
    <3>1. d \notin doubtful /\ d \notin S /\ successes'[d] = successes[d] /\ OnceOf(d) /\ d # None
      BY <2>3, <2>5, DoubtTypes, PasskeysAssumption DEF Once
    <3>2. CASE d # c
      BY <2>2, <3>1, <3>2, OnceKept
    <3>3. CASE d = c
      <4>1. \A p \in Requests : req[p].challenge # c
        BY <2>4, <3>1, <3>3 DEF Holding
      <4>2. successes[c] # 1
        BY <2>3, <3>1, <3>3, <4>1 DEF OnceOf
      <4> QED
        BY <2>2, <3>1, <3>3, <4>1, <4>2 DEF OnceOf
    <3> QED
      BY <3>2, <3>3
  <2> QED
    BY <2>5 DEF Once
<1>2. ASSUME NEW r \in Requests, KeySteps(r)
      PROVE  Once'
  BY <1>2, OnceKeySteps, KeyStepFields DEF Once
<1>3. ASSUME NEW r \in Requests, CreateUser(r)
      PROVE  Once'
  <2>1. /\ req'[r].next = "createKey" /\ req'[r].challenge = req[r].challenge /\ req[r].next = "newUser"
        /\ \A p \in Requests \ {r} : req'[p] = req[p]
        /\ UNCHANGED <<store, successes, doubtful>>
    BY <1>3, CreateUserFields
  <2> QED
    BY <2>1, OnceKept DEF Once
<1>4. ASSUME NEW r \in Requests, Abort(r)
      PROVE  Once'
  <2>1. /\ req'[r].next = "idle" /\ req'[r].challenge = None
        /\ \A p \in Requests \ {r} : req'[p] = req[p]
        /\ KeptBy(r) \in SUBSET Challenges /\ Doubt(KeptBy(r))
        /\ UNCHANGED store
    BY <1>4, AbortFields
  <2>2. ASSUME NEW d \in Challenges \ doubtful'
        PROVE  OnceOf(d)'
    <3>1. d \notin doubtful /\ d \notin KeptBy(r) /\ successes'[d] = successes[d] /\ OnceOf(d) /\ d # None
      BY <2>1, <2>2, DoubtTypes, PasskeysAssumption DEF Once
    <3>2. ~(req[r].challenge = d /\ Doing(r, "drop"))
      BY <3>1 DEF KeptBy
    <3> QED
      BY <2>1, <3>1, <3>2, OnceKept
  <2> QED
    BY <2>2 DEF Once
<1>5. ASSUME NEW c \in Challenges, NEW o \in Owners, NEW k \in Keys, Issue(c, o, k)
      PROVE  Once'
  <2>1. /\ successes[c] = 0
        /\ \A d \in Challenges \ {c} : store'[d] = store[d]
        /\ UNCHANGED <<req, successes, doubtful>>
    BY <1>5, IssueFields
  <2>2. ASSUME NEW d \in Challenges \ doubtful'
        PROVE  OnceOf(d)'
    <3>1. OnceOf(d)
      BY <2>1 DEF Once
    <3>2. CASE d = c
      BY <2>1, <3>1, <3>2 DEF OnceOf
    <3>3. CASE d # c
      BY <2>1, <3>1, <3>3, OnceKept
    <3> QED
      BY <3>2, <3>3
  <2> QED
    BY <2>2 DEF Once
<1>6. ASSUME NEW c \in Challenges, Expire(c)
      PROVE  Once'
  <2>1. store' = [store EXCEPT ![c] = None] /\ UNCHANGED <<req, successes, doubtful>>
    BY <1>6 DEF Expire, history
  <2>2. \A d \in Challenges : store'[d] = store[d] \/ store'[d] = None
    BY <2>1 DEF TypeOK
  <2> QED
    BY <2>1, <2>2, OnceKept DEF Once
<1>7. ASSUME NEW u \in Users, NEW k \in Keys, DeleteKey(u, k)
      PROVE  Once'
  <2>1. UNCHANGED <<store, req, successes, doubtful>>
    BY <1>7, DeleteFields
  <2> QED
    BY <2>1, OnceKept DEF Once
<1>8. CASE Restart
  <2>1. /\ \A r \in Requests : req'[r] = Idle
        /\ \A c \in Challenges : store'[c] = None
        /\ UNCHANGED <<successes, doubtful>>
    BY <1>8, RestartFields
  <2>2. ASSUME NEW c \in Challenges, NEW r \in Requests
        PROVE  req'[r].challenge # c
    BY <2>1, IdleRecord, PasskeysAssumption
  <2> QED
    BY <2>1, <2>2, OnceKept DEF Once
<1>9. CASE UNCHANGED vars
  BY <1>9 DEF vars, history, Once, OnceOf
<1> QED
  BY <1>1, <1>2, <1>3, <1>4, <1>5, <1>6, <1>7, <1>8, <1>9 DEF Next, Step, KeySteps

LEMMA OnceIsUse ==
    ASSUME Base, Once
    PROVE  ChallengesAreUsedOnce
<1> SUFFICES ASSUME NEW c \in Challenges \ doubtful
             PROVE  successes[c] + Cardinality({r \in Holding(c) : ~Doing(r, "drop")}) <= 1
  BY DEF ChallengesAreUsedOnce
<1> DEFINE A == {r \in Holding(c) : ~Doing(r, "drop")}
<1>1. A = {r \in Requests : Using(r, c)}
  BY DEF Holding, Using
<1>2. OnceOf(c) /\ successes[c] \in Nat
  BY DEF Once, Base, TypeOK
<1>3. CASE A = {}
  BY <1>2, <1>3, FS_EmptySet DEF OnceOf
<1>4. CASE A # {}
  <2>1. PICK r \in Requests : Using(r, c)
    BY <1>1, <1>4
  <2>2. A = {r}
    BY <1>1, <1>2, <2>1 DEF OnceOf
  <2>3. Cardinality(A) = 1
    BY <2>2, FS_Singleton
  <2>4. successes[c] <= 1 /\ successes[c] # 1
    BY <1>2, <2>1 DEF OnceOf
  <2> QED
    BY <1>2, <2>3, <2>4
<1> QED
  BY <1>3, <1>4

LEMMA OnceAlways == Spec => []Once
<1>1. Base /\ [Next]_vars /\ Once => Once'
  BY BaseNext, OnceNext
<1> QED
  BY <1>1, OnceInit, BaseAlways, PTL DEF Spec

(* A challenge buys one key or one session, for every number of requests,
   unless it was taken twice at once or a failure kept it. *)
THEOREM EachChallengeIsUsedOnce == Spec => []ChallengesAreUsedOnce
BY OnceIsUse, OnceAlways, BaseAlways, PTL

(***************************************************************************)
(* Keys and their users.                                                   *)
(***************************************************************************)

OwnedBy(c, u) == issued[c] = u \/ signedUp[u] = c

KeyOwned(k, u) == \E c \in Signed("create", k) : OwnedBy(c, u)

Made(r) ==
    /\ req[r].next \in {"newUser", "createKey"} => answer[req[r].challenge].kind = "create"
    /\ req[r].next = "createKey" => OwnedBy(req[r].challenge, req[r].user)

Owned == KeysAreTheirOwners /\ \A r \in Requests : Made(r)

(* What was recorded stays recorded. *)
HistoryStays ==
    /\ AnswersStay
    /\ \A c \in Challenges : issued[c] # None => issued'[c] = issued[c]
    /\ \A u \in users : signedUp'[u] = signedUp[u]

LEMMA OwnedStays ==
    ASSUME TypeOK, HistoryStays, NEW c \in Challenges, NEW u \in users, OwnedBy(c, u)
    PROVE  OwnedBy(c, u)'
<1>1. u # None
  BY PasskeysAssumption DEF TypeOK, Owners
<1> QED
  BY <1>1 DEF OwnedBy, HistoryStays

LEMMA KeyOwnedStays ==
    ASSUME TypeOK, HistoryStays, NEW k \in Keys, NEW u \in users, KeyOwned(k, u)
    PROVE  KeyOwned(k, u)'
<1>1. PICK c \in Challenges : c \in Signed("create", k) /\ OwnedBy(c, u)
  BY DEF KeyOwned, Signed
<1>2. OwnedBy(c, u)'
  BY <1>1, OwnedStays
<1>3. (c \in Signed("create", k))'
  BY <1>1 DEF Signed, HistoryStays, AnswersStay
<1> QED
  BY <1>2, <1>3 DEF KeyOwned

LEMMA OwnedStep ==
    ASSUME Base, Owned, HistoryStays,
           \A k \in Keys : key'[k] # None =>
              \E u \in users : /\ key'[k].user = u
                               /\ KeyOwned(k, u)' \/ (key[k] # None /\ key[k].user = u),
           \A r \in Requests : req'[r] = req[r] \/ Made(r)'
    PROVE  Owned'
<1> TypeOK
  BY DEF Base
<1>1. ASSUME NEW k \in Keys, key'[k] # None
      PROVE  \E c \in Signed("create", k)' : OwnedBy(c, key[k].user)'
  <2>1. PICK u \in users : /\ key'[k].user = u
                           /\ KeyOwned(k, u)' \/ (key[k] # None /\ key[k].user = u)
    BY <1>1
  <2>2. KeyOwned(k, u)'
    <3>1. CASE key[k] # None /\ key[k].user = u
      <4>1. KeyOwned(k, u)
        BY <3>1 DEF Owned, KeysAreTheirOwners, KeyOwned, OwnedBy
      <4> QED
        BY <4>1, KeyOwnedStays
    <3> QED
      BY <2>1, <3>1
  <2> QED
    BY <2>1, <2>2 DEF KeyOwned, OwnedBy
<1>2. KeysAreTheirOwners'
  BY <1>1 DEF KeysAreTheirOwners, OwnedBy
<1>3. ASSUME NEW r \in Requests
      PROVE  Made(r)'
  <2>1. CASE req'[r] = req[r] /\ req[r].next \notin {"newUser", "createKey"}
    BY <2>1 DEF Made
  <2>2. CASE req'[r] = req[r] /\ req[r].next \in {"newUser", "createKey"}
    <3>1. PICK c \in Challenges : c = req[r].challenge /\ answer[c] \in Answers /\ answer[c] # None
      BY <2>2, FieldsOf, PasskeysAssumption
    <3>2. Made(r)
      BY DEF Owned
    <3>3. answer'[c] = answer[c]
      BY <3>1 DEF HistoryStays, AnswersStay
    <3>4. CASE req[r].next = "newUser"
      BY <2>2, <3>1, <3>2, <3>3, <3>4 DEF Made
    <3>5. CASE req[r].next = "createKey"
      <4>1. PICK u \in users : u = req[r].user
        BY <3>5, FieldsOf
      <4>2. OwnedBy(c, u)
        BY <3>1, <3>2, <3>5, <4>1 DEF Made
      <4>3. OwnedBy(c, u)'
        BY <4>2, OwnedStays
      <4> QED
        BY <2>2, <3>1, <3>2, <3>3, <3>5, <4>1, <4>3 DEF Made, OwnedBy
    <3> QED
      BY <2>2, <3>4, <3>5
  <2> QED
    BY <2>1, <2>2
<1> QED
  BY <1>2, <1>3 DEF Owned

LEMMA OwnedInit == Init => Owned
BY IdleRecord DEF Init, Owned, KeysAreTheirOwners, Made

LEMMA OwnedNext == Base /\ Owned /\ [Next]_vars => Owned'
<1> SUFFICES ASSUME Base, Owned, [Next]_vars PROVE Owned'
  OBVIOUS
<1> TypeOK /\ UnissuedAreBlank
  BY DEF Base
<1>0. ASSUME UNCHANGED key
      PROVE  \A k \in Keys : key'[k] # None =>
                \E u \in users : /\ key'[k].user = u
                                 /\ KeyOwned(k, u)' \/ (key[k] # None /\ key[k].user = u)
  BY <1>0 DEF TypeOK
<1>1. ASSUME NEW r \in Requests, Arrive(r)
      PROVE  Owned'
  <2>1. PICK c \in Challenges, w \in {"newUser", "createKey", "find"}, o \in Owners :
          /\ Take(r, c, w, o)
          /\ w = "createKey" => o \in users /\ store[c] = o
          /\ w \in {"newUser", "createKey"} => answer[c].kind = "create"
    BY <1>1, ArriveTakes
  <2>2. /\ req'[r].next = w /\ req'[r].challenge = c /\ req'[r].user = o
        /\ \A p \in Requests \ {r} : req'[p] = req[p]
        /\ UNCHANGED <<store, answer, key, users, issued, signedUp, keyless, crossed>>
    BY <2>1, TakeFields DEF Statements
  <2>3. HistoryStays
    BY <2>2 DEF HistoryStays, AnswersStay
  <2>4. w = "createKey" => issued[c] = o
    <3>1. w = "createKey" => store[c] # None
      BY <2>1, PasskeysAssumption DEF TypeOK, Owners
    <3> QED
      BY <2>1, <3>1 DEF UnissuedAreBlank
  <2>5. Made(r)'
    BY <2>1, <2>2, <2>4 DEF Made, OwnedBy
  <2> QED
    BY <1>0, <2>2, <2>3, <2>5, OwnedStep
<1>2. ASSUME NEW r \in Requests, KeySteps(r)
      PROVE  Owned'
  <2>1. /\ \A p \in Requests \ {r} : req'[p] = req[p]
        /\ UNCHANGED <<answer, users, issued, doubtful, signedUp, keyless>>
        /\ req'[r].next \in {"idle", "drop", "update"}
    BY <1>2, KeyStepFields
  <2>2. HistoryStays
    BY <2>1 DEF HistoryStays, AnswersStay
  <2>3. Made(r)'
    BY <2>1 DEF Made
  <2>4. PICK k \in Keys : k = KeyOf(r)
    BY <1>2, KeyStepFields
  <2>5. ASSUME NEW j \in Keys, key'[j] # None
        PROVE  \E u \in users : /\ key'[j].user = u
                                /\ KeyOwned(j, u)' \/ (key[j] # None /\ key[j].user = u)
    <3>1. CASE key'[j] = key[j]
      BY <2>5, <3>1 DEF TypeOK
    <3>2. CASE UpdateKey(r) /\ j = k /\ key[k] # None
      <4>1. key'[k].user = key[k].user
        BY <2>4, <2>5, <3>2, UpdateKeyFields
      <4> QED
        BY <3>2, <4>1 DEF TypeOK
    <3>3. CASE CreateKey(r) /\ j = k /\ key[k] = None
      <4>1. key'[k].user = req[r].user /\ req[r].next = "createKey"
        BY <2>4, <2>5, <3>3, CreateKeyFields
      <4>2. PICK u \in users, c \in Challenges :
              u = req[r].user /\ c = req[r].challenge /\ answer[c] \in Answers
        BY <4>1, FieldsOf
      <4>3. Made(r)
        BY DEF Owned
      <4>4. answer[c].kind = "create" /\ answer[c].key = k /\ answer[c] # None /\ OwnedBy(c, u)
        BY <2>4, <4>1, <4>2, <4>3, PasskeysAssumption DEF Made, KeyOf
      <4>5. c \in Signed("create", k)
        BY <4>4 DEF Signed
      <4>6. KeyOwned(k, u)
        BY <4>4, <4>5 DEF KeyOwned
      <4> QED
        BY <2>2, <3>3, <4>1, <4>2, <4>6, KeyOwnedStays
    <3> QED
      BY <1>2, <2>4, <2>5, <3>1, <3>2, <3>3, CreateKeyFields, UpdateKeyFields, FindKeyFields, DropFields
         DEF KeySteps
  <2> QED
    BY <2>1, <2>2, <2>3, <2>5, OwnedStep
<1>3. ASSUME NEW r \in Requests, CreateUser(r)
      PROVE  Owned'
  <2>1. PICK u \in Users \ users, c \in Challenges :
          /\ c = req[r].challenge /\ req[r].next = "newUser"
          /\ signedUp'[u] = c /\ \A v \in Users \ {u} : signedUp'[v] = signedUp[v]
          /\ req'[r].next = "createKey" /\ req'[r].user = u /\ req'[r].challenge = c
          /\ \A p \in Requests \ {r} : req'[p] = req[p]
          /\ UNCHANGED <<store, answer, key, issued>>
    BY <1>3, CreateUserFields
  <2>2. HistoryStays
    BY <2>1 DEF HistoryStays, AnswersStay, TypeOK
  <2>3. answer[c].kind = "create"
    BY <2>1 DEF Owned, Made
  <2>4. Made(r)'
    BY <2>1, <2>3 DEF Made, OwnedBy
  <2> QED
    BY <1>0, <2>1, <2>2, <2>4, OwnedStep
<1>4. ASSUME NEW r \in Requests, Abort(r)
      PROVE  Owned'
  <2>1. /\ req'[r].next = "idle"
        /\ \A p \in Requests \ {r} : req'[p] = req[p]
        /\ UNCHANGED <<answer, key, users, issued, signedUp>>
    BY <1>4, AbortFields
  <2>2. HistoryStays /\ Made(r)'
    BY <2>1 DEF HistoryStays, AnswersStay, Made
  <2> QED
    BY <1>0, <2>1, <2>2, OwnedStep
<1>5. ASSUME NEW c \in Challenges, NEW o \in Owners, NEW k \in Keys, Issue(c, o, k)
      PROVE  Owned'
  <2>1. /\ issued[c] = None
        /\ \A d \in Challenges \ {c} : issued'[d] = issued[d]
        /\ AnswersStay
        /\ UNCHANGED <<key, users, req, signedUp>>
    BY <1>5, IssueFields
  <2>2. HistoryStays
    BY <2>1 DEF HistoryStays
  <2> QED
    BY <1>0, <2>1, <2>2, OwnedStep
<1>6. ASSUME NEW c \in Challenges, Expire(c)
      PROVE  Owned'
  <2>1. UNCHANGED <<answer, key, users, req, issued, signedUp>>
    BY <1>6 DEF Expire, history
  <2>2. HistoryStays
    BY <2>1 DEF HistoryStays, AnswersStay
  <2> QED
    BY <1>0, <2>1, <2>2, OwnedStep
<1>7. ASSUME NEW u \in Users, NEW k \in Keys, DeleteKey(u, k)
      PROVE  Owned'
  <2>1. /\ key'[k] = None
        /\ \A j \in Keys \ {k} : key'[j] = key[j]
        /\ UNCHANGED <<answer, users, req, issued, signedUp>>
    BY <1>7, DeleteFields
  <2>2. HistoryStays
    BY <2>1 DEF HistoryStays, AnswersStay
  <2>3. \A j \in Keys : key'[j] # None =>
                \E v \in users : /\ key'[j].user = v
                                 /\ KeyOwned(j, v)' \/ (key[j] # None /\ key[j].user = v)
    BY <2>1 DEF TypeOK
  <2> QED
    BY <2>1, <2>2, <2>3, OwnedStep
<1>8. CASE Restart
  <2>1. /\ \A r \in Requests : req'[r] = Idle /\ req'[r].next = "idle"
        /\ UNCHANGED <<answer, key, users, issued, signedUp>>
    BY <1>8, RestartFields
  <2>2. HistoryStays /\ \A r \in Requests : Made(r)'
    BY <2>1 DEF HistoryStays, AnswersStay, Made
  <2> QED
    BY <1>0, <2>1, <2>2, OwnedStep
<1>9. CASE UNCHANGED vars
  BY <1>9 DEF vars, history, Owned, KeysAreTheirOwners, Made, OwnedBy, Signed
<1> QED
  BY <1>1, <1>2, <1>3, <1>4, <1>5, <1>6, <1>7, <1>8, <1>9 DEF Next, Step, KeySteps

LEMMA OwnedAlways == Spec => []Owned
<1>1. Base /\ [Next]_vars /\ Owned => Owned'
  BY OwnedNext
<1> QED
  BY <1>1, OwnedInit, BaseAlways, PTL DEF Spec

(* A key never comes to be another user's than the one who had the challenge
   that made it. *)
THEOREM EachKeyIsItsOwners == Spec => []KeysAreTheirOwners
<1>1. Owned => KeysAreTheirOwners
  BY DEF Owned
<1> QED
  BY <1>1, OwnedAlways, PTL

(***************************************************************************)
(* A key is made of the one challenge that its authenticator made it for,  *)
(* and uses it up.                                                         *)
(***************************************************************************)

OneCreate == \A k \in Keys : \A c, d \in Signed("create", k) : c = d

KeysSucceeded ==
    \A k \in Keys : key[k] # None => \A c \in Signed("create", k) \ doubtful : successes[c] >= 1

Created == OneCreate /\ KeysSucceeded

LEMMA CreatedStep ==
    ASSUME Base, Base', Created, UNCHANGED answer, doubtful \subseteq doubtful',
           \A c \in Challenges \ doubtful' : successes'[c] >= successes[c],
           \A k \in Keys : key'[k] # None =>
              key[k] # None \/ \A c \in Signed("create", k) \ doubtful : successes'[c] >= 1
    PROVE  Created'
<1>1. \A k \in Keys : Signed("create", k)' = Signed("create", k) /\ Signed("create", k) \subseteq Challenges
  BY DEF Signed
<1>2. OneCreate'
  BY <1>1 DEF OneCreate, Created
<1>3. ASSUME NEW k \in Keys, key'[k] # None, NEW c \in Signed("create", k)' \ doubtful'
      PROVE  successes'[c] >= 1
  <2>1. c \in Challenges \ doubtful' /\ c \in Signed("create", k) \ doubtful
    BY <1>1, <1>3
  <2>2. successes[c] \in Nat /\ successes'[c] \in Nat /\ successes'[c] >= successes[c]
    BY <2>1 DEF Base, TypeOK
  <2>3. CASE key[k] # None
    <3>1. successes[c] >= 1
      BY <2>1, <2>3 DEF Created, KeysSucceeded
    <3> QED
      BY <2>2, <3>1
  <2>4. CASE \A d \in Signed("create", k) \ doubtful : successes'[d] >= 1
    BY <2>1, <2>4
  <2> QED
    BY <1>3, <2>3, <2>4
<1>4. KeysSucceeded'
  BY <1>3 DEF KeysSucceeded
<1> QED
  BY <1>2, <1>4 DEF Created

LEMMA CreatedInit == Init => Created
BY DEF Init, Created, OneCreate, KeysSucceeded, Signed

LEMMA SucceedGrows ==
    ASSUME Base, NEW r \in Requests, Succeed(r) \/ UNCHANGED successes, req[r].challenge \in Challenges
    PROVE  \A c \in Challenges : successes'[c] >= successes[c]
<1> TypeOK
  BY DEF Base
<1> SUFFICES ASSUME NEW c \in Challenges PROVE successes'[c] >= successes[c]
  OBVIOUS
<1>1. successes[c] \in Nat
  BY DEF TypeOK
<1>2. successes'[c] = successes[c] \/ successes'[c] = successes[c] + 1
  BY SucceedTypes
<1> QED
  BY <1>1, <1>2

LEMMA DoubtGrows ==
    ASSUME TypeOK, NEW S \in SUBSET Challenges, Doubt(S)
    PROVE  /\ doubtful \subseteq doubtful'
           /\ \A c \in Challenges \ doubtful' : successes'[c] >= successes[c]
<1>1. doubtful' = doubtful \cup S /\ \A c \in Challenges \ S : successes'[c] = successes[c]
  BY DoubtTypes
<1>2. ASSUME NEW c \in Challenges \ doubtful'
      PROVE  successes'[c] >= successes[c]
  <2>1. successes[c] \in Nat /\ successes'[c] = successes[c]
    BY <1>1, <1>2 DEF TypeOK
  <2> QED
    BY <2>1
<1> QED
  BY <1>1, <1>2

LEMMA SameGrows ==
    ASSUME TypeOK, UNCHANGED successes
    PROVE  \A c \in Challenges : successes'[c] >= successes[c]
<1>1. \A c \in Challenges : successes[c] \in Nat
  BY DEF TypeOK
<1> QED
  BY <1>1

LEMMA CreatedKeySteps ==
    ASSUME Base, Base', Owned, Created, NEW r \in Requests, KeySteps(r)
    PROVE  Created'
<1> TypeOK
  BY DEF Base
<1>1. UNCHANGED <<answer, doubtful>> /\ req[r].challenge \in Challenges
  BY KeyStepFields
<1>2. Succeed(r) \/ UNCHANGED successes
  BY CreateKeyFields, UpdateKeyFields, FindKeyFields, DropFields DEF KeySteps
<1>3. \A c \in Challenges : successes'[c] >= successes[c]
  BY <1>1, <1>2, SucceedGrows
<1>4. ASSUME NEW k \in Keys, key'[k] # None, key[k] = None
      PROVE  \A c \in Signed("create", k) \ doubtful : successes'[c] >= 1
  <2>1. CreateKey(r) /\ k = KeyOf(r) /\ Succeed(r) /\ req[r].next = "createKey"
    <3>1. KeyOf(r) \in Keys
      BY KeyStepFields
    <3> QED
      BY <1>4, <3>1, CreateKeyFields, UpdateKeyFields, FindKeyFields, DropFields DEF KeySteps
  <2>2. PICK d \in Challenges : d = req[r].challenge /\ answer[d] \in Answers
    BY <2>1, FieldsOf
  <2>3. d \in Signed("create", k)
    <3>1. Made(r)
      BY DEF Owned
    <3> QED
      BY <2>1, <2>2, <3>1, PasskeysAssumption DEF Made, KeyOf, Signed
  <2>4. ASSUME NEW c \in Signed("create", k) \ doubtful
        PROVE  successes'[c] >= 1
    <3>1. c = d
      BY <2>3 DEF Created, OneCreate
    <3>2. successes[c] \in Nat /\ successes'[c] = successes[c] + 1
      BY <2>1, <2>2, <3>1, SucceedTypes DEF TypeOK
    <3> QED
      BY <3>2
  <2> QED
    BY <2>4
<1> QED
  BY <1>1, <1>3, <1>4, CreatedStep

LEMMA CreatedNext == Base /\ Base' /\ Owned /\ Created /\ [Next]_vars => Created'
<1> SUFFICES ASSUME Base, Base', Owned, Created, [Next]_vars PROVE Created'
  OBVIOUS
<1> TypeOK
  BY DEF Base
<1>1. ASSUME NEW r \in Requests, Arrive(r)
      PROVE  Created'
  <2>1. PICK c \in Challenges, w \in {"newUser", "createKey", "find"}, o \in Owners :
          Take(r, c, w, o)
    BY <1>1, ArriveTakes
  <2>2. UNCHANGED <<answer, key>> /\ Doubt(IF Holding(c) # {} THEN {c} ELSE {})
    BY <2>1 DEF Take
  <2>3. Doubt({c}) \/ Doubt({})
    BY <2>2
  <2>4. /\ doubtful \subseteq doubtful'
        /\ \A d \in Challenges \ doubtful' : successes'[d] >= successes[d]
    BY <2>3, DoubtGrows
  <2> QED
    BY <2>2, <2>4, CreatedStep
<1>2. ASSUME NEW r \in Requests, CreateUser(r)
      PROVE  Created'
  <2>1. UNCHANGED <<answer, key, successes, doubtful>>
    BY <1>2, CreateUserFields
  <2> QED
    BY <2>1, SameGrows, CreatedStep
<1>3. ASSUME NEW r \in Requests, Abort(r)
      PROVE  Created'
  <2>1. UNCHANGED <<answer, key>> /\ KeptBy(r) \in SUBSET Challenges /\ Doubt(KeptBy(r))
    BY <1>3, AbortFields
  <2> QED
    BY <2>1, DoubtGrows, CreatedStep
<1>4. ASSUME NEW c \in Challenges, NEW o \in Owners, NEW k \in Keys, Issue(c, o, k)
      PROVE  Created'
  <2>1. /\ answer[c] = None /\ answer'[c] \in Answers /\ answer'[c].key = k
        /\ answer'[c].kind = "create" => Signed("create", k) = {}
        /\ \A d \in Challenges \ {c} : answer'[d] = answer[d]
        /\ UNCHANGED <<key, successes, doubtful>>
    BY <1>4, IssueFields
  <2>2. ASSUME NEW j \in Keys, NEW d \in Signed("create", j)'
        PROVE  d \in Signed("create", j) \/ (d = c /\ j = k /\ Signed("create", k) = {})
    BY <2>1, <2>2 DEF Signed
  <2>3. OneCreate'
    <3>1. ASSUME NEW j \in Keys, NEW d \in Signed("create", j)', NEW e \in Signed("create", j)'
          PROVE  d = e
      BY <2>2, <3>1 DEF Created, OneCreate
    <3> QED
      BY <3>1 DEF OneCreate
  <2>4. KeysSucceeded'
    <3>1. ASSUME NEW j \in Keys, key'[j] # None, NEW d \in Signed("create", j)' \ doubtful'
          PROVE  successes'[d] >= 1
      <4>1. Signed("create", j) # {}
        BY <2>1, <3>1 DEF Owned, KeysAreTheirOwners
      <4>2. d \in Signed("create", j) \ doubtful
        BY <2>1, <2>2, <3>1, <4>1
      <4> QED
        BY <2>1, <3>1, <4>2 DEF Created, KeysSucceeded
    <3> QED
      BY <3>1 DEF KeysSucceeded
  <2> QED
    BY <2>3, <2>4 DEF Created
<1>5. ASSUME NEW c \in Challenges, Expire(c)
      PROVE  Created'
  <2>1. UNCHANGED <<answer, key, successes, doubtful>>
    BY <1>5 DEF Expire, history
  <2> QED
    BY <2>1, SameGrows, CreatedStep
<1>6. ASSUME NEW u \in Users, NEW k \in Keys, DeleteKey(u, k)
      PROVE  Created'
  <2>1. /\ key'[k] = None /\ \A j \in Keys \ {k} : key'[j] = key[j]
        /\ UNCHANGED <<answer, successes, doubtful>>
    BY <1>6, DeleteFields
  <2> QED
    BY <2>1, SameGrows, CreatedStep
<1>7. CASE Restart
  <2>1. UNCHANGED <<answer, key, successes, doubtful>>
    BY <1>7, RestartFields
  <2> QED
    BY <2>1, SameGrows, CreatedStep
<1>8. CASE UNCHANGED vars
  <2>1. UNCHANGED <<answer, key, successes, doubtful>>
    BY <1>8 DEF vars, history
  <2> QED
    BY <2>1, SameGrows, CreatedStep
<1> QED
  BY <1>1, <1>2, <1>3, <1>4, <1>5, <1>6, <1>7, <1>8, CreatedKeySteps DEF Next, Step, KeySteps

LEMMA CreatedAlways == Spec => []Created
<1>1. Base /\ Base' /\ Owned /\ [Next]_vars /\ Created => Created'
  BY CreatedNext
<1> QED
  BY <1>1, CreatedInit, BaseAlways, OwnedAlways, PTL DEF Spec

(***************************************************************************)
(* Users who signed up with a passkey.                                     *)
(***************************************************************************)

HasKey(u) == \E k \in Keys : key[k] # None /\ key[k].user = u

Making(r, u) == Doing(r, "createKey") /\ req[r].user = u /\ req[r].challenge = signedUp[u]

SignedUpOK ==
    \A u \in users \ keyless :
        \/ signedUp[u] \in doubtful \cup {None}
        \/ HasKey(u)
        \/ \E r \in Requests : Making(r, u)

(* Most steps leave the user its key and the request its sign-up. *)
LEMMA SignedUpStep ==
    ASSUME Base, SignedUpOK, users' = users, keyless \subseteq keyless', doubtful \subseteq doubtful',
           UNCHANGED signedUp,
           \A u \in users \ keyless' : HasKey(u) => HasKey(u)',
           \A u \in users \ keyless', r \in Requests :
              Making(r, u) => Making(r, u)' \/ HasKey(u)' \/ signedUp[u] \in doubtful'
    PROVE  SignedUpOK'
BY DEF SignedUpOK

LEMMA MakingStays ==
    ASSUME TypeOK, NEW u \in users, NEW r \in Requests, Making(r, u),
           req'[r] = req[r], UNCHANGED signedUp
    PROVE  Making(r, u)'
BY DEF Making, Doing

LEMMA SignedUpKeySteps ==
    ASSUME Base, Once, Owned, Created, SignedUpOK, NEW r \in Requests, KeySteps(r)
    PROVE  SignedUpOK'
<1> TypeOK
  BY DEF Base
<1>1. /\ UNCHANGED <<users, signedUp, keyless, doubtful>>
      /\ \A p \in Requests \ {r} : req'[p] = req[p]
  BY KeyStepFields
<1>2. PICK k \in Keys : k = KeyOf(r)
  BY KeyStepFields
<1>3. ASSUME NEW u \in users, HasKey(u)
      PROVE  HasKey(u)'
  <2>1. PICK j \in Keys : key[j] # None /\ key[j].user = u
    BY <1>3 DEF HasKey
  <2>2. key'[j] # None /\ key'[j].user = u
    BY <1>2, <2>1, CreateKeyFields, UpdateKeyFields, FindKeyFields, DropFields DEF KeySteps
  <2> QED
    BY <2>2 DEF HasKey
<1>4. ASSUME NEW u \in users, Making(r, u), signedUp[u] \notin doubtful
      PROVE  HasKey(u)'
  <2>1. CreateKey(r) /\ req[r].next = "createKey" /\ req[r].user = u
    BY <1>4 DEF Making, KeySteps, FindKey, UpdateKey, Drop, Doing
  <2>2. PICK c \in Challenges : c = req[r].challenge /\ answer[c] \in Answers
    BY <2>1, FieldsOf
  <2>3. c \notin doubtful /\ c \in Signed("create", k)
    <3>1. Made(r)
      BY DEF Owned
    <3> QED
      BY <1>2, <1>4, <2>1, <2>2, <3>1, PasskeysAssumption DEF Making, Made, KeyOf, Signed
  <2>4. successes[c] # 1 /\ successes[c] <= 1 /\ successes[c] \in Nat
    BY <2>1, <2>2, <2>3 DEF Once, OnceOf, Using, Doing, TypeOK
  <2>5. key[k] = None
    <3>1. key[k] # None => successes[c] >= 1
      BY <2>3 DEF Created, KeysSucceeded
    <3> QED
      BY <2>4, <3>1
  <2>6. key'[k] # None /\ key'[k].user = u
    BY <1>2, <2>1, <2>5, CreateKeyFields
  <2> QED
    BY <2>6 DEF HasKey
<1>5. ASSUME NEW u \in users \ keyless', NEW p \in Requests, Making(p, u)
      PROVE  Making(p, u)' \/ HasKey(u)' \/ signedUp[u] \in doubtful'
  <2>1. CASE p = r
    BY <1>1, <1>4, <1>5, <2>1
  <2>2. CASE p # r
    BY <1>1, <1>5, <2>2, MakingStays
  <2> QED
    BY <2>1, <2>2
<1> QED
  BY <1>1, <1>3, <1>5, SignedUpStep

LEMMA SignedUpInit == Init => SignedUpOK
BY DEF Init, SignedUpOK

LEMMA SignedUpNext == Base /\ Once /\ Owned /\ Created /\ SignedUpOK /\ [Next]_vars => SignedUpOK'
<1> SUFFICES ASSUME Base, Once, Owned, Created, SignedUpOK, [Next]_vars PROVE SignedUpOK'
  OBVIOUS
<1> TypeOK
  BY DEF Base
<1>1. ASSUME NEW r \in Requests, Arrive(r)
      PROVE  SignedUpOK'
  <2>1. PICK c \in Challenges, w \in {"newUser", "createKey", "find"}, o \in Owners :
          Take(r, c, w, o) /\ (w = "createKey" => o \in users)
    BY <1>1, ArriveTakes
  <2>2. /\ \A p \in Requests \ {r} : req'[p] = req[p]
        /\ req[r].next = "idle"
        /\ UNCHANGED <<key, users, signedUp, keyless>>
    BY <2>1, TakeFields DEF Statements
  <2>3. doubtful \subseteq doubtful'
    BY <2>1 DEF Take, Doubt
  <2>4. \A u \in users, p \in Requests : Making(p, u) => Making(p, u)'
    BY <2>2, MakingStays DEF Making, Doing
  <2>5. \A u \in users : HasKey(u) => HasKey(u)'
    BY <2>2 DEF HasKey
  <2> QED
    BY <2>2, <2>3, <2>4, <2>5, SignedUpStep
<1>2. ASSUME NEW r \in Requests, CreateUser(r)
      PROVE  SignedUpOK'
  <2>1. PICK u \in Users \ users, c \in Challenges :
          /\ c = req[r].challenge /\ req[r].next = "newUser"
          /\ users' = users \cup {u}
          /\ signedUp'[u] = c /\ \A v \in Users \ {u} : signedUp'[v] = signedUp[v]
          /\ req'[r].next = "createKey" /\ req'[r].user = u /\ req'[r].challenge = c
          /\ \A p \in Requests \ {r} : req'[p] = req[p]
          /\ UNCHANGED <<key, doubtful, keyless>>
    BY <1>2, CreateUserFields
  <2>2. Making(r, u)'
    BY <2>1 DEF Making, Doing
  <2>3. ASSUME NEW v \in users \ keyless
        PROVE  \/ signedUp'[v] \in doubtful' \cup {None}
               \/ HasKey(v)'
               \/ \E p \in Requests : Making(p, v)'
    <3>1. v \in Users \ {u} /\ signedUp'[v] = signedUp[v]
      BY <2>1 DEF TypeOK
    <3>2. ASSUME NEW p \in Requests, Making(p, v)
          PROVE  Making(p, v)'
      <4>1. p # r
        BY <2>1, <3>2 DEF Making, Doing
      <4> QED
        BY <2>1, <3>1, <3>2, <4>1 DEF Making, Doing
    <3>3. HasKey(v) => HasKey(v)'
      BY <2>1 DEF HasKey
    <3> QED
      BY <2>1, <3>1, <3>2, <3>3 DEF SignedUpOK
  <2> QED
    BY <2>1, <2>2, <2>3 DEF SignedUpOK
<1>3. ASSUME NEW r \in Requests, Abort(r)
      PROVE  SignedUpOK'
  <2>1. /\ \A p \in Requests \ {r} : req'[p] = req[p]
        /\ KeptBy(r) \in SUBSET Challenges /\ Doubt(KeptBy(r))
        /\ CutBy(r) \in SUBSET Users /\ keyless' = keyless \cup CutBy(r)
        /\ UNCHANGED <<key, users, signedUp>>
    BY <1>3, AbortFields
  <2>2. doubtful \subseteq doubtful'
    BY <2>1 DEF Doubt
  <2>3. ASSUME NEW u \in users \ keyless', NEW p \in Requests, Making(p, u)
        PROVE  Making(p, u)'
    <3>1. p # r
      BY <2>1, <2>3 DEF Making, CutBy
    <3> QED
      BY <2>1, <2>3, <3>1, MakingStays
  <2>4. \A u \in users : HasKey(u) => HasKey(u)'
    BY <2>1 DEF HasKey
  <2> QED
    BY <2>1, <2>2, <2>3, <2>4, SignedUpStep
<1>4. ASSUME NEW c \in Challenges, NEW o \in Owners, NEW k \in Keys, Issue(c, o, k)
      PROVE  SignedUpOK'
  <2>1. UNCHANGED <<key, users, req, doubtful, signedUp, keyless>>
    BY <1>4, IssueFields
  <2> QED
    BY <2>1 DEF SignedUpOK, HasKey, Making, Doing
<1>5. ASSUME NEW c \in Challenges, Expire(c)
      PROVE  SignedUpOK'
  <2>1. UNCHANGED <<key, users, req, doubtful, signedUp, keyless>>
    BY <1>5 DEF Expire, history
  <2> QED
    BY <2>1 DEF SignedUpOK, HasKey, Making, Doing
<1>6. ASSUME NEW u \in Users, NEW k \in Keys, DeleteKey(u, k)
      PROVE  SignedUpOK'
  <2>1. /\ key[k].user = u
        /\ \A j \in Keys \ {k} : key'[j] = key[j]
        /\ keyless' = keyless \cup {u}
        /\ UNCHANGED <<users, req, doubtful, signedUp>>
    BY <1>6, DeleteFields
  <2>2. \A v \in users \ keyless' : HasKey(v) => HasKey(v)'
    BY <2>1 DEF HasKey
  <2>3. \A v \in users, p \in Requests : Making(p, v) => Making(p, v)'
    BY <2>1 DEF Making, Doing
  <2> QED
    BY <2>1, <2>2, <2>3, SignedUpStep
<1>7. CASE Restart
  <2>1. /\ keyless' = keyless \cup UNION {CutBy(r) : r \in Requests}
        /\ UNCHANGED <<key, users, doubtful, signedUp>>
    BY <1>7, RestartFields
  <2>2. ASSUME NEW u \in users \ keyless', NEW p \in Requests
        PROVE  ~Making(p, u)
    <3>1. u \notin CutBy(p)
      BY <2>1, <2>2
    <3> QED
      BY <3>1 DEF Making, CutBy
  <2>3. \A u \in users : HasKey(u) => HasKey(u)'
    BY <2>1 DEF HasKey
  <2> QED
    BY <2>1, <2>2, <2>3, SignedUpStep
<1>8. CASE UNCHANGED vars
  BY <1>8 DEF vars, history, SignedUpOK, HasKey, Making, Doing
<1> QED
  BY <1>1, <1>2, <1>3, <1>4, <1>5, <1>6, <1>7, <1>8, SignedUpKeySteps DEF Next, Step, KeySteps

(* Who signs up with a passkey gets it, however the requests interleave,
   unless a failure, an overlap or the user itself took it. *)
THEOREM SignUpsLeaveKeys == Spec => []SignUpsHaveKeys
<1>1. SignedUpOK => SignUpsHaveKeys
  BY DEF SignedUpOK, SignUpsHaveKeys, HasKey, Making
<1>2. Base /\ Once /\ Owned /\ Created /\ [Next]_vars /\ SignedUpOK => SignedUpOK'
  BY SignedUpNext
<1> QED
  BY <1>1, <1>2, SignedUpInit, BaseAlways, OnceAlways, OwnedAlways, CreatedAlways, PTL DEF Spec

(***************************************************************************)
(* The counts of keys.                                                     *)
(***************************************************************************)

CountOf(k) ==
    /\ \A r, p \in SigningIn(k) : r = p
    /\ key[k] # None => \A r \in SigningIn(k) : req[r].count >= key[k].count

CountsOK == \A k \in Keys \ crossed : CountOf(k)

(* Nothing comes to sign in with the key, and its row stays or is new. *)
LEMMA CountStays ==
    ASSUME TypeOK, TypeOK', NEW k \in Keys, CountOf(k),
           key'[k] # None => (key[k] # None /\ key'[k].count = key[k].count) \/ key'[k].count = 0,
           \A r \in Requests : (r \in SigningIn(k))' => r \in SigningIn(k) /\ req'[r] = req[r]
    PROVE  CountOf(k)'
<1>1. \A r \in SigningIn(k)' : r \in SigningIn(k) /\ req'[r] = req[r]
  BY DEF SigningIn
<1>2. ASSUME key'[k] # None, NEW r \in SigningIn(k)'
      PROVE  req'[r].count >= key'[k].count
  <2>1. r \in Requests /\ r \in SigningIn(k) /\ req'[r] = req[r] /\ req[r].next = "update"
    BY <1>1, <1>2 DEF SigningIn, Doing
  <2>2. req[r].count \in Nat
    BY <2>1, FieldsOf
  <2>3. CASE key'[k].count = 0
    BY <2>1, <2>2, <2>3
  <2>4. CASE key[k] # None /\ key'[k].count = key[k].count
    <3>1. req[r].count >= key[k].count
      BY <2>1, <2>4 DEF CountOf
    <3> QED
      BY <2>1, <2>4, <3>1
  <2> QED
    BY <1>2, <2>3, <2>4
<1> QED
  BY <1>1, <1>2 DEF CountOf

LEMMA SigningInStays ==
    ASSUME TypeOK, AnswersStay, NEW k \in Keys, NEW r \in Requests, req'[r] = req[r],
           (r \in SigningIn(k))'
    PROVE  r \in SigningIn(k)
<1>1. req[r].next = "update"
  BY DEF SigningIn, Doing
<1>2. req[r].challenge \in Challenges /\ answer[req[r].challenge] # None
  BY <1>1, FieldsOf, PasskeysAssumption
<1> QED
  BY <1>1, <1>2 DEF SigningIn, Doing, KeyOf, AnswersStay

LEMMA CountsKeySteps ==
    ASSUME Base, Base', CountsOK, NEW r \in Requests, KeySteps(r)
    PROVE  CountsOK'
<1> TypeOK /\ TypeOK'
  BY DEF Base
<1>1. UNCHANGED answer /\ \A p \in Requests \ {r} : req'[p] = req[p]
  BY KeyStepFields
<1>2. AnswersStay
  BY <1>1 DEF AnswersStay
<1>3. PICK j \in Keys, c \in Challenges : j = KeyOf(r) /\ c = req[r].challenge
  BY KeyStepFields
<1>4. crossed \subseteq crossed'
  BY CreateKeyFields, UpdateKeyFields, FindKeyFields, DropFields DEF KeySteps
<1>5. ASSUME NEW k \in Keys \ crossed', req'[r].next # "update",
             key'[k] # None => (key[k] # None /\ key'[k].count = key[k].count) \/ key'[k].count = 0
      PROVE  CountOf(k)'
  <2>1. ASSUME NEW p \in Requests, (p \in SigningIn(k))'
        PROVE  p \in SigningIn(k) /\ req'[p] = req[p]
    <3>1. p # r
      BY <1>5, <2>1 DEF SigningIn, Doing
    <3> QED
      BY <1>1, <1>2, <2>1, <3>1, SigningInStays
  <2>2. CountOf(k)
    BY <1>4, <1>5 DEF CountsOK
  <2> QED
    BY <1>5, <2>1, <2>2, CountStays
<1>6. CASE CreateKey(r)
  <2>1. ASSUME NEW k \in Keys \ crossed'
        PROVE  CountOf(k)'
    <3>1. req'[r].next # "update"
      BY <1>6, CreateKeyFields
    <3>2. key'[k] = key[k] \/ key'[k].count = 0
      BY <1>3, <1>6, CreateKeyFields
    <3> QED
      BY <1>5, <3>1, <3>2
  <2> QED
    BY <2>1 DEF CountsOK
<1>7. CASE UpdateKey(r)
  <2>1. ASSUME NEW k \in Keys \ crossed'
        PROVE  CountOf(k)'
    <3>1. req'[r].next # "update" /\ req[r].next = "update" /\ crossed' = crossed
      BY <1>7, UpdateKeyFields
    <3>2. CASE key'[k] = key[k]
      BY <1>5, <3>1, <3>2
    <3>3. CASE key'[k] # key[k]
      <4>1. k = j
        BY <1>3, <1>7, <3>3, UpdateKeyFields
      <4>2. r \in SigningIn(k)
        BY <1>3, <3>1, <4>1 DEF SigningIn, Doing
      <4>3. CountOf(k)
        BY <3>1 DEF CountsOK
      <4>4. ASSUME NEW p \in SigningIn(k)'
            PROVE  FALSE
        <5>1. p \in Requests /\ (p \in SigningIn(k))' /\ p # r
          BY <3>1, <4>4 DEF SigningIn, Doing
        <5>2. p \in SigningIn(k)
          BY <1>1, <1>2, <5>1, SigningInStays
        <5> QED
          BY <4>2, <4>3, <5>1, <5>2 DEF CountOf
      <4> QED
        BY <4>4 DEF CountOf
    <3> QED
      BY <3>2, <3>3
  <2> QED
    BY <2>1 DEF CountsOK
<1>8. CASE FindKey(r)
  <2>1. UNCHANGED key
    BY <1>8, FindKeyFields
  <2>2. ASSUME NEW k \in Keys \ crossed'
        PROVE  CountOf(k)'
    <3>1. CASE req'[r].next # "update"
      BY <1>5, <2>1, <3>1
    <3>2. CASE req'[r].next = "update"
      <4>1. /\ key[j] # None /\ req'[r].challenge = c
            /\ req'[r].count \in Nat /\ req'[r].count >= key[j].count
            /\ SigningIn(j) # {} => j \in crossed'
        BY <1>3, <1>8, <3>2, FindKeyFields
      <4>2. KeyOf(r)' = j
        BY <1>1, <1>3, <4>1 DEF KeyOf
      <4>3. CASE k # j
        <5>1. ASSUME NEW p \in Requests, (p \in SigningIn(k))'
              PROVE  p \in SigningIn(k) /\ req'[p] = req[p]
          <6>1. p # r
            BY <4>2, <4>3, <5>1 DEF SigningIn
          <6> QED
            BY <1>1, <1>2, <5>1, <6>1, SigningInStays
        <5>2. CountOf(k)
          BY <1>4 DEF CountsOK
        <5> QED
          BY <2>1, <5>1, <5>2, CountStays
      <4>4. CASE k = j
        <5>1. ASSUME NEW p \in SigningIn(k)'
              PROVE  p = r
          <6>1. p \in Requests /\ (p \in SigningIn(k))'
            BY <5>1 DEF SigningIn
          <6>2. SigningIn(k) = {}
            BY <4>1, <4>4
          <6> QED
            BY <1>1, <1>2, <6>1, <6>2, SigningInStays
        <5> QED
          BY <2>1, <4>1, <4>4, <5>1 DEF CountOf
      <4> QED
        BY <4>3, <4>4
    <3> QED
      BY <3>1, <3>2
  <2> QED
    BY <2>2 DEF CountsOK
<1>9. CASE Drop(r)
  <2>1. UNCHANGED key /\ req'[r].next # "update"
    BY <1>9, DropFields
  <2> QED
    BY <1>5, <2>1 DEF CountsOK
<1> QED
  BY <1>6, <1>7, <1>8, <1>9 DEF KeySteps

(* The other steps bring no sign-in to where it writes. *)
LEMMA CountsStep ==
    ASSUME Base, Base', CountsOK, AnswersStay, UNCHANGED crossed,
           \A k \in Keys : key'[k] = key[k] \/ key'[k] = None,
           \A r \in Requests : req'[r] = req[r] \/ req'[r].next # "update"
    PROVE  CountsOK'
<1> TypeOK /\ TypeOK'
  BY DEF Base
<1>1. ASSUME NEW k \in Keys \ crossed'
      PROVE  CountOf(k)'
  <2>1. ASSUME NEW p \in Requests, (p \in SigningIn(k))'
        PROVE  p \in SigningIn(k) /\ req'[p] = req[p]
    <3>1. req'[p] = req[p]
      BY <2>1 DEF SigningIn, Doing
    <3> QED
      BY <2>1, <3>1, SigningInStays
  <2>2. CountOf(k)
    BY DEF CountsOK
  <2> QED
    BY <2>1, <2>2, CountStays
<1> QED
  BY <1>1 DEF CountsOK

LEMMA CountsInit == Init => CountsOK
BY IdleRecord DEF Init, CountsOK, CountOf, SigningIn, Doing

LEMMA CountsNext == Base /\ Base' /\ CountsOK /\ [Next]_vars => CountsOK'
<1> SUFFICES ASSUME Base, Base', CountsOK, [Next]_vars PROVE CountsOK'
  OBVIOUS
<1> TypeOK
  BY DEF Base
<1>1. ASSUME NEW r \in Requests, Arrive(r)
      PROVE  CountsOK'
  <2>1. PICK c \in Challenges, w \in {"newUser", "createKey", "find"}, o \in Owners :
          Take(r, c, w, o) /\ (w = "createKey" => o \in users)
    BY <1>1, ArriveTakes
  <2>2. /\ req'[r].next = w
        /\ \A p \in Requests \ {r} : req'[p] = req[p]
        /\ UNCHANGED <<answer, key, crossed>>
    BY <2>1, TakeFields DEF Statements
  <2> QED
    BY <2>2, CountsStep DEF AnswersStay
<1>2. ASSUME NEW r \in Requests, CreateUser(r)
      PROVE  CountsOK'
  <2>1. /\ req'[r].next = "createKey"
        /\ \A p \in Requests \ {r} : req'[p] = req[p]
        /\ UNCHANGED <<answer, key, crossed>>
    BY <1>2, CreateUserFields
  <2> QED
    BY <2>1, CountsStep DEF AnswersStay
<1>3. ASSUME NEW r \in Requests, Abort(r)
      PROVE  CountsOK'
  <2>1. /\ req'[r].next = "idle"
        /\ \A p \in Requests \ {r} : req'[p] = req[p]
        /\ UNCHANGED <<answer, key, crossed>>
    BY <1>3, AbortFields
  <2> QED
    BY <2>1, CountsStep DEF AnswersStay
<1>4. ASSUME NEW c \in Challenges, NEW o \in Owners, NEW k \in Keys, Issue(c, o, k)
      PROVE  CountsOK'
  <2>1. AnswersStay /\ UNCHANGED <<key, req, crossed>>
    BY <1>4, IssueFields
  <2> QED
    BY <2>1, CountsStep
<1>5. ASSUME NEW c \in Challenges, Expire(c)
      PROVE  CountsOK'
  <2>1. UNCHANGED <<answer, key, req, crossed>>
    BY <1>5 DEF Expire, history
  <2> QED
    BY <2>1, CountsStep DEF AnswersStay
<1>6. ASSUME NEW u \in Users, NEW k \in Keys, DeleteKey(u, k)
      PROVE  CountsOK'
  <2>1. /\ key'[k] = None
        /\ \A j \in Keys \ {k} : key'[j] = key[j]
        /\ UNCHANGED <<answer, req, crossed>>
    BY <1>6, DeleteFields
  <2> QED
    BY <2>1, CountsStep DEF AnswersStay
<1>7. CASE Restart
  <2>1. /\ \A r \in Requests : req'[r].next = "idle"
        /\ UNCHANGED <<answer, key, crossed>>
    BY <1>7, RestartFields
  <2> QED
    BY <2>1, CountsStep DEF AnswersStay
<1>8. CASE UNCHANGED vars
  <2>1. UNCHANGED <<answer, key, req, crossed>>
    BY <1>8 DEF vars, history
  <2> QED
    BY <2>1, CountsStep DEF AnswersStay
<1> QED
  BY <1>1, <1>2, <1>3, <1>4, <1>5, <1>6, <1>7, <1>8, CountsKeySteps DEF Next, Step, KeySteps

CountGrows ==
    \A k \in Keys \ crossed :
        key[k] # None /\ key'[k] # None => key'[k].count >= key[k].count

LEMMA CountsWhenNext == Base /\ CountsOK /\ [Next]_vars => CountGrows
<1> SUFFICES ASSUME Base, CountsOK, [Next]_vars, NEW k \in Keys \ crossed,
                    key[k] # None, key'[k] # None
             PROVE  key'[k].count >= key[k].count
  BY DEF CountGrows
<1> TypeOK
  BY DEF Base
<1>1. key[k].count \in Nat
  BY DEF TypeOK, AllRows
<1>2. CASE key'[k] = key[k]
  BY <1>1, <1>2
<1>3. ASSUME NEW r \in Requests, KeySteps(r), key'[k] # key[k]
      PROVE  key'[k].count >= key[k].count
  <2>1. KeyOf(r) \in Keys
    BY <1>3, KeyStepFields
  <2>2. UpdateKey(r) /\ k = KeyOf(r) /\ key'[k].count = req[r].count /\ req[r].next = "update"
    BY <1>3, <2>1, CreateKeyFields, UpdateKeyFields, FindKeyFields, DropFields DEF KeySteps
  <2>3. r \in SigningIn(k)
    BY <2>2 DEF SigningIn, Doing
  <2>4. req[r].count >= key[k].count
    BY <2>3 DEF CountsOK, CountOf
  <2> QED
    BY <2>2, <2>4
<1>4. ASSUME NEW r \in Requests, Arrive(r)
      PROVE  key' = key
  BY <1>4 DEF Arrive, VerifySignup, VerifyAuthentication, VerifyRegistration, Take
<1>5. ASSUME NEW r \in Requests, Abort(r) \/ CreateUser(r)
      PROVE  key' = key
  BY <1>5 DEF Abort, CreateUser
<1>6. ASSUME NEW c \in Challenges, Expire(c) \/ \E o \in Owners, j \in Keys : Issue(c, o, j)
      PROVE  key' = key
  BY <1>6 DEF Issue, Expire
<1>7. ASSUME NEW u \in Users, NEW j \in Keys, DeleteKey(u, j)
      PROVE  key'[k] = key[k]
  BY <1>7, DeleteFields
<1>8. CASE Restart \/ UNCHANGED vars
  BY <1>2, <1>8 DEF Restart, vars
<1> QED
  BY <1>2, <1>3, <1>4, <1>5, <1>6, <1>7, <1>8 DEF Next, Step, KeySteps

(* The count of a key never falls back but where sign-ins with it overlap,
   for any number of sign-ins and keys. *)
THEOREM CountsOnlyGrow == Spec => CountsGrow
<1>1. Base /\ Base' /\ [Next]_vars /\ CountsOK => CountsOK'
  BY CountsNext
<1>2. Spec => []CountsOK
  BY <1>1, CountsInit, BaseAlways, PTL DEF Spec
<1>3. Base /\ CountsOK /\ [Next]_vars => [CountGrows]_vars
  BY CountsWhenNext
<1>4. Spec => [][CountGrows]_vars
  BY <1>2, <1>3, BaseAlways, PTL DEF Spec
<1> QED
  BY <1>4 DEF CountsGrow, CountGrows
====
