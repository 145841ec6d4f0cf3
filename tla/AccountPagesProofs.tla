---- MODULE AccountPagesProofs ----
(***************************************************************************)
(* Theorems about AccountPages, for any number of calls under way, any     *)
(* secrets and link tokens, and any pages and buttons that are used.       *)
(***************************************************************************)
EXTENDS AccountPages, TLAPS

-----------------------------------------------------------------------------
(* Types.  What a call will do with its answer, and what the answer is, makes
   the types inductive. *)

Stops == Screens \ {"security", "google"}

CallOK(r) ==
    /\ r.kind = "me" => r.answer \in Users \cup {None} /\ r.then \in {"dashboard", "close", None}
    /\ r.kind = "login" /\ r.stage = "done" => r.answer \in Users
    /\ r.kind = "generate" /\ r.stage = "done" => r.answer \in Secrets
    /\ r.kind \in {"register", "send"} => r.then \in Stops \cup {None}
    /\ r.kind = "use" /\ r.here => r.then \in Stops \cup {"me"}
    /\ r.kind \in {"use", "send"} /\ r.stage = "sent" => r.key \in Uses
    /\ r.kind \in {"enable", "disable"} /\ r.stage = "sent" => r.key \in Secrets

PagesOK == AccountPagesTypeOK /\ \A c \in Pending : CallOK(call[c])

(* What becomes of a call when pages are left: it ends, or goes on for nobody. *)
Onward(x, r) ==
    \/ x = None
    \/ x = r
    \/ /\ x \in Requests /\ ~x.here
       /\ x.kind = r.kind /\ x.key = r.key /\ x.signed = r.signed
       /\ x.stage = r.stage /\ x.answer = r.answer /\ x.then \in {r.then, None}
       /\ x.stage = "sent" \/ Heeded(x)

(* The calls other than those of S are not new. *)
CallsOn(S) ==
    /\ call' = [q \in Calls |-> call'[q]]
    /\ \A q \in Calls \ S : call'[q] = None \/ (q \in Pending /\ Onward(call'[q], call[q]))

LEMMA PendingCall ==
    ASSUME PagesOK, NEW q \in Pending
    PROVE  /\ q \in Calls /\ call[q] # None /\ call[q] \in Requests /\ CallOK(call[q])
           /\ call[q].kind \in Kinds /\ call[q].stage \in {"sent", "done", "refused"}
           /\ call[q].here \in BOOLEAN /\ call[q].live \in BOOLEAN /\ call[q].signed \in BOOLEAN
           /\ call[q].here => call[q].live /\ screen # None
           /\ call[q].stage = "done" => Exists
<1>1. q \in Calls /\ call[q] # None
  BY DEF Pending
<1>2. call[q] \in Requests
  BY <1>1 DEF PagesOK, AccountPagesTypeOK
<1> QED
  BY <1>1, <1>2 DEF PagesOK, AccountPagesTypeOK, CallsOK, Requests

LEMMA LeftCall ==
    ASSUME PagesOK, NEW q \in Calls
    PROVE  Left[q] = None \/ (q \in Pending /\ Onward(Left[q], call[q]) /\ ~Left[q].here)
<1>1. CASE q \in Pending
  <2> DEFINE x == [call[q] EXCEPT !.here = FALSE]
  <2>1. call[q] \in Requests
    BY <1>1, PendingCall
  <2>2. /\ x \in Requests /\ x.here = FALSE
        /\ x.kind = call[q].kind /\ x.key = call[q].key /\ x.signed = call[q].signed
        /\ x.stage = call[q].stage /\ x.answer = call[q].answer /\ x.then = call[q].then
    BY <2>1 DEF Requests
  <2>3. Left[q] = Kept(x)
    BY <1>1 DEF Left
  <2> HIDE DEF x
  <2>4. Left[q] = None \/ (Left[q] = x /\ (x.stage = "sent" \/ Heeded(x)))
    BY <2>3 DEF Kept
  <2> QED
    BY <1>1, <2>2, <2>4 DEF Onward
<1>2. CASE q \notin Pending
  BY <1>2 DEF Left
<1> QED
  BY <1>1, <1>2

LEMMA GoneCall ==
    ASSUME PagesOK, NEW q \in Calls
    PROVE  Gone[q] = None \/ /\ q \in Pending /\ Onward(Gone[q], call[q]) /\ ~Gone[q].here
                             /\ Gone[q].kind \notin {"me", "login", "logout"}
<1>1. CASE q \in Pending /\ call[q].kind \notin {"me", "login", "logout"}
  <2> DEFINE x == [call[q] EXCEPT !.here = FALSE, !.live = FALSE, !.then = None]
  <2>1. call[q] \in Requests
    BY <1>1, PendingCall
  <2>2. /\ x \in Requests /\ x.here = FALSE
        /\ x.kind = call[q].kind /\ x.key = call[q].key /\ x.signed = call[q].signed
        /\ x.stage = call[q].stage /\ x.answer = call[q].answer /\ x.then = None
    BY <2>1 DEF Requests
  <2>3. Gone[q] = Kept(x)
    BY <1>1 DEF Gone
  <2> HIDE DEF x
  <2>4. Gone[q] = None \/ (Gone[q] = x /\ (x.stage = "sent" \/ Heeded(x)))
    BY <2>3 DEF Kept
  <2> QED
    BY <1>1, <2>2, <2>4 DEF Onward
<1>2. CASE ~(q \in Pending /\ call[q].kind \notin {"me", "login", "logout"})
  BY <1>2 DEF Gone
<1> QED
  BY <1>1, <1>2

(* No call is new when a page is left, nor when one is answered. *)
LEMMA PushCalls ==
    ASSUME PagesOK, NEW c \in Calls, call' = Left \/ call' = [Left EXCEPT ![c] = None]
    PROVE  CallsOn({}) /\ \A q \in Calls : call'[q] # None => ~call'[q].here
<1>1. /\ call' = [q \in Calls |-> call'[q]]
      /\ \A q \in Calls : call'[q] \in {Left[q], None}
  BY DEF Left
<1> QED
  BY <1>1, LeftCall DEF CallsOn

LEMMA GoneCalls ==
    ASSUME PagesOK, call' = Gone
    PROVE  /\ CallsOn({})
           /\ \A q \in Calls : call'[q] # None =>
                 ~call'[q].here /\ call'[q].kind \notin {"me", "login", "logout"}
<1>1. /\ call' = [q \in Calls |-> call'[q]]
      /\ \A q \in Calls : call'[q] = Gone[q]
  BY DEF Gone
<1> QED
  BY <1>1, GoneCall DEF CallsOn

LEMMA OverCalls ==
    ASSUME PagesOK, NEW c \in Calls, call' = Over(c)
    PROVE  CallsOn({}) /\ call'[c] = None /\ \A q \in Calls \ {c} : call'[q] = call[q]
<1>1. /\ call' = [q \in Calls |-> call'[q]] /\ call'[c] = None
      /\ \A q \in Calls \ {c} : call'[q] = call[q]
  BY DEF Over, PagesOK, AccountPagesTypeOK
<1> QED
  BY <1>1 DEF CallsOn, Onward, Pending

LEMMA SameCalls ==
    ASSUME PagesOK, call' = call
    PROVE  CallsOn({})
<1>1. call' = [q \in Calls |-> call'[q]]
  BY DEF PagesOK, AccountPagesTypeOK
<1> QED
  BY <1>1 DEF CallsOn, Onward, Pending

(* A call that is made. *)
LEMMA RequestIs ==
    ASSUME PagesOK, NEW kind \in Kinds, NEW key \in Secrets \cup Uses \cup {"login", "second", "password", None},
           NEW then \in Screens \cup {"me", "set", "close", "disconnect", "leave", None}
    PROVE  LET r == Request(kind, key, then) IN
           /\ r \in Requests /\ r.kind = kind /\ r.key = key /\ r.then = then /\ r.signed = token
           /\ r.live /\ r.here /\ r.stage = "sent" /\ r.answer = None
BY DEF Request, Requests, PagesOK, AccountPagesTypeOK

LEMMA SendCalls ==
    ASSUME PagesOK, NEW c \in Calls, NEW r \in Requests, Send(c, r)
    PROVE  /\ c \notin Pending /\ CallsOn({c}) /\ call'[c] = r
           /\ \A q \in Calls \ {c} : call'[q] = call[q]
<1>1. /\ call' = [q \in Calls |-> call'[q]] /\ call'[c] = r /\ call[c] = None
      /\ \A q \in Calls \ {c} : call'[q] = call[q]
  BY DEF Send, PagesOK, AccountPagesTypeOK
<1> QED
  BY <1>1 DEF CallsOn, Onward, Pending

(* A call that is served. *)
LEMMA ReplyCalls ==
    ASSUME PagesOK, NEW c \in Pending, NEW ok \in BOOLEAN,
           NEW answer \in Users \cup Secrets \cup LinkTokens \cup {[factor |-> TRUE], None},
           Reply(c, ok, answer)
    PROVE  /\ CallsOn({c})
           /\ \A q \in Calls \ {c} : call'[q] = call[q]
           /\ \/ call'[c] = None
              \/ /\ call'[c] \in Requests
                 /\ call'[c].kind = call[c].kind /\ call'[c].then = call[c].then
                 /\ call'[c].live = call[c].live /\ call'[c].here = call[c].here
                 /\ call'[c].stage = IF ok THEN "done" ELSE "refused"
                 /\ call'[c].answer = answer /\ call'[c].key = None /\ ~call'[c].signed
                 /\ Heeded(call'[c])
           /\ UNCHANGED <<auth, screen, leaving, phone, hasty, late>>
<1>0. PICK g \in {"done", "refused"} : g = IF ok THEN "done" ELSE "refused"
  OBVIOUS
<1> DEFINE x == [call[c] EXCEPT !.stage = g, !.answer = answer, !.key = None, !.signed = FALSE]
<1>1. c \in Calls /\ call[c] \in Requests
  BY PendingCall
<1>2. x \in Requests
  BY <1>1 DEF Requests
<1>3. /\ x.kind = call[c].kind /\ x.then = call[c].then
      /\ x.live = call[c].live /\ x.here = call[c].here
      /\ x.stage = g /\ x.answer = answer /\ x.key = None /\ x.signed = FALSE
  BY <1>1 DEF Requests
<1>4. call' = [call EXCEPT ![c] = Kept(x)]
  BY <1>0 DEF Reply
<1> HIDE DEF x
<1>5. Kept(x) = None \/ (Kept(x) = x /\ Heeded(x))
  BY <1>3 DEF Kept
<1>6. /\ call' = [q \in Calls |-> call'[q]] /\ (call'[c] = None \/ (call'[c] = x /\ Heeded(x)))
      /\ \A q \in Calls \ {c} : call'[q] = call[q]
  BY <1>1, <1>4, <1>5 DEF PagesOK, AccountPagesTypeOK
<1>7. CallsOn({c})
  BY <1>6 DEF CallsOn, Onward, Pending
<1> QED
  BY <1>0, <1>2, <1>3, <1>6, <1>7 DEF Reply

(* A script that goes on with another call. *)
LEMMA ThenCalls ==
    ASSUME PagesOK, NEW c \in Pending, NEW kind \in {"me", "disconnect"},
           NEW then \in {"dashboard", "close", None}, NEW signed \in BOOLEAN,
           call' = Then(c, kind, then, signed)
    PROVE  /\ CallsOn({c}) /\ call'[c] \in Requests
           /\ \A q \in Calls \ {c} : call'[q] = call[q]
           /\ call'[c].kind = kind /\ call'[c].key = None /\ call'[c].then = then
           /\ call'[c].signed = signed /\ call'[c].stage = "sent" /\ call'[c].answer = None
           /\ call'[c].here = call[c].here /\ call'[c].live = call[c].live
<1> DEFINE x == [call[c] EXCEPT !.kind = kind, !.key = None, !.then = then, !.signed = signed,
                                !.stage = "sent", !.answer = None]
<1>1. c \in Calls /\ call[c] \in Requests
  BY PendingCall
<1>2. kind \in Kinds /\ then \in Screens \cup {"me", "set", "close", "disconnect", "leave", None}
  BY DEF Kinds, Screens, Guarded
<1>3. x \in Requests
  BY <1>1, <1>2 DEF Requests
<1>4. /\ x.kind = kind /\ x.key = None /\ x.then = then
      /\ x.signed = signed /\ x.stage = "sent" /\ x.answer = None
      /\ x.here = call[c].here /\ x.live = call[c].live
  BY <1>1 DEF Requests
<1>5. call' = [call EXCEPT ![c] = x]
  BY DEF Then
<1> HIDE DEF x
<1>6. /\ call' = [q \in Calls |-> call'[q]] /\ call'[c] = x
      /\ \A q \in Calls \ {c} : call'[q] = call[q]
  BY <1>1, <1>5 DEF PagesOK, AccountPagesTypeOK
<1>7. CallsOn({c})
  BY <1>6 DEF CallsOn, Onward, Pending
<1> QED
  BY <1>3, <1>4, <1>6, <1>7

(* A new script. *)
LEMMA StartCalls ==
    ASSUME PagesOK, NEW c \in Calls, NEW at \in Screens, NEW then \in {"dashboard", None},
           token' \in BOOLEAN, Start(c, at, then)
    PROVE  /\ CallsOn({c})
           /\ \A q \in Calls \ {c} : call'[q] # None =>
                 ~call'[q].here /\ call'[q].kind \notin {"me", "login", "logout"}
           /\ \/ call'[c] = None
              \/ /\ token' /\ call'[c] \in Requests /\ call'[c].kind = "me"
                 /\ call'[c].then = then /\ call'[c].stage = "sent" /\ call'[c].answer = None
                 /\ call'[c].here /\ call'[c].live
           /\ screen' \in Pages /\ screen' # None
           /\ screen'.at = at /\ screen'.modal = None /\ screen'.key = None
           /\ user' = None /\ loading' = token' /\ leaving' = FALSE
           /\ UNCHANGED <<phone, hasty, late>>
<1>1. /\ screen' \in Pages /\ screen'.at = at /\ screen'.modal = None /\ screen'.key = None
      /\ screen' # None
  <2>1. screen' = [at |-> at, modal |-> None, key |-> None]
    BY DEF Start, Page
  <2>2. screen' \in Pages
    BY <2>1 DEF Pages
  <2> QED
    BY <2>1, <2>2, AccountPagesAssumption
<1>2. CASE ~token'
  <2>1. call' = Gone
    BY <1>2 DEF Start
  <2>2. CallsOn({}) /\ call'[c] = None
    BY <2>1, GoneCalls DEF Start
  <2>3. CallsOn({c})
    BY <2>2 DEF CallsOn
  <2> QED
    BY <1>1, <2>1, <2>2, <2>3, GoneCalls DEF Start
<1>3. CASE token'
  <2> DEFINE r == Request("me", None, then)
             x == [r EXCEPT !.signed = TRUE]
  <2>1. "me" \in Kinds /\ then \in Screens \cup {"me", "set", "close", "disconnect", "leave", None}
    BY DEF Kinds, Screens, Guarded
  <2>2. /\ r \in Requests /\ r.kind = "me" /\ r.then = then
        /\ r.live /\ r.here /\ r.stage = "sent" /\ r.answer = None
    BY <2>1, RequestIs
  <2> HIDE DEF r
  <2>3. /\ x \in Requests /\ x.kind = "me" /\ x.then = then
        /\ x.live /\ x.here /\ x.stage = "sent" /\ x.answer = None
    BY <2>2 DEF Requests
  <2>4. call' = [Gone EXCEPT ![c] = x]
    BY <1>3 DEF Start, r
  <2> HIDE DEF x
  <2>5. /\ call' = [q \in Calls |-> call'[q]] /\ call'[c] = x
        /\ \A q \in Calls \ {c} : call'[q] = Gone[q]
    BY <2>4 DEF Gone
  <2>6. CallsOn({c})
    BY <2>5, GoneCall DEF CallsOn
  <2>7. \A q \in Calls \ {c} : call'[q] # None =>
                 ~call'[q].here /\ call'[q].kind \notin {"me", "login", "logout"}
    BY <2>5, GoneCall
  <2> QED
    BY <1>1, <1>3, <2>3, <2>5, <2>6, <2>7 DEF Start
<1> QED
  BY <1>2, <1>3

(* The types, part by part. *)
CallFits(r) ==
    /\ r \in Requests /\ CallOK(r)
    /\ r.here => r.live /\ screen # None
    /\ r.stage = "done" => Exists

LEMMA OnwardOK ==
    ASSUME NEW r \in Requests, CallOK(r), NEW x, Onward(x, r), x # None
    PROVE  x \in Requests /\ CallOK(x) /\ (x.here => x = r) /\ x.stage = r.stage
BY DEF Onward, CallOK

LEMMA CallsKept ==
    ASSUME PagesOK, Exists => Exists', NEW S \in SUBSET Calls, CallsOn(S),
           \A q \in Calls \ S : call'[q] # None /\ call'[q].here => screen' # None,
           \A q \in S : call'[q] = None \/ CallFits(call[q])'
    PROVE  call' \in [Calls -> Requests \cup {None}] /\ CallsOK' /\ \A q \in Pending' : CallOK(call'[q])
<1>1. ASSUME NEW q \in Calls, call'[q] # None
      PROVE  CallFits(call[q])'
  <2>1. CASE q \in S
    BY <1>1, <2>1
  <2>2. CASE q \notin S
    <3>1. q \in Pending /\ Onward(call'[q], call[q])
      BY <1>1, <2>2 DEF CallsOn
    <3>2. /\ call'[q] \in Requests /\ CallOK(call'[q])
          /\ call'[q].here => call'[q] = call[q]
          /\ call'[q].stage = call[q].stage
      BY <1>1, <3>1, PendingCall, OnwardOK
    <3>3. call'[q].here => screen' # None
      BY <1>1, <2>2
    <3> QED
      BY <3>1, <3>2, <3>3, PendingCall DEF CallFits
  <2> QED
    BY <2>1, <2>2
<1>2. call' \in [Calls -> Requests \cup {None}]
  <2>1. \A q \in Calls : call'[q] \in Requests \cup {None}
    BY <1>1 DEF CallFits
  <2>2. call' = [q \in Calls |-> call'[q]]
    BY DEF CallsOn
  <2> QED
    BY <2>1, <2>2
<1>3. CallsOK' /\ \A q \in Pending' : CallOK(call'[q])
  BY <1>1 DEF CallFits, CallsOK, Pending
<1> QED
  BY <1>2, <1>3

-----------------------------------------------------------------------------
(* The API.  What its handlers make of an account. *)
SameFactor(a, b) == b \in AccountRows /\ b.secret = a.secret /\ b.enabled = a.enabled
SameWays(a, b)   == b \in AccountRows /\ b.password = a.password /\ b.google = a.google

LEMMA AccountIs ==
    ASSUME NEW p \in BOOLEAN, NEW g \in BOOLEAN, NEW v \in BOOLEAN
    PROVE  LET a == Account(p, g, v) IN
           /\ a \in AccountRows /\ a.password = p /\ a.google = g
           /\ a.secret = None /\ a.enabled = FALSE
BY DEF Account, AccountRows

LEMMA FlagSet ==
    ASSUME NEW a \in AccountRows, NEW x \in BOOLEAN,
           NEW b, b \in {[a EXCEPT !.verified = x], [a EXCEPT !.deleted = x]}
    PROVE  SameFactor(a, b) /\ SameWays(a, b)
BY DEF AccountRows, SameFactor, SameWays

LEMMA PasswordGiven ==
    ASSUME NEW a \in AccountRows, NEW b, b = [a EXCEPT !.password = TRUE]
    PROVE  SameFactor(a, b) /\ b.password = TRUE /\ b.google = a.google
BY DEF AccountRows, SameFactor

LEMMA GoogleSet ==
    ASSUME NEW a \in AccountRows, NEW x \in BOOLEAN, NEW b, b = [a EXCEPT !.google = x]
    PROVE  SameFactor(a, b) /\ b.google = x /\ b.password = a.password
BY DEF AccountRows, SameFactor

LEMMA SecretSet ==
    ASSUME NEW a \in AccountRows, NEW s \in Secrets, NEW b, b = [a EXCEPT !.secret = s]
    PROVE  SameWays(a, b) /\ b.secret = s /\ b.enabled = a.enabled
BY DEF AccountRows, SameWays

LEMMA FactorOn ==
    ASSUME NEW a \in AccountRows, NEW b, b = [a EXCEPT !.enabled = TRUE]
    PROVE  SameWays(a, b) /\ b.secret = a.secret /\ b.enabled = TRUE
BY DEF AccountRows, SameWays

LEMMA FactorOff ==
    ASSUME NEW a \in AccountRows, NEW b, b = [a EXCEPT !.secret = None, !.enabled = FALSE]
    PROVE  SameWays(a, b) /\ b.secret = None /\ b.enabled = FALSE
<1> DEFINE m == [a EXCEPT !.secret = None]
<1>1. m \in AccountRows /\ m.secret = None /\ m.password = a.password /\ m.google = a.google
  BY DEF AccountRows
<1>2. b = [m EXCEPT !.enabled = FALSE]
  OBVIOUS
<1> HIDE DEF m
<1> QED
  BY <1>1, <1>2 DEF AccountRows, SameWays

LEMMA UserIs ==
    ASSUME NEW a \in AccountRows
    PROVE  /\ User(a) \in Users /\ User(a).password = a.password
           /\ UserById(a) \in Users /\ UserById(a).password = FALSE
<1>1. User(a) \in Users /\ User(a).password = a.password
  BY DEF User, Users, AccountRows
<1> QED
  BY <1>1 DEF UserById, Users

(* The second factor after a step of the API: as it was; or another secret was
   drawn, or the factor was turned on with the secret there is, or off. *)
FactorMoves(c, ok, answer) ==
    \/ account'.secret = account.secret /\ account'.enabled = account.enabled
    \/ /\ ok /\ call[c].kind = "generate" /\ answer \in Secrets
       /\ account'.secret = answer /\ account'.enabled = account.enabled
    \/ /\ ok /\ call[c].kind = "enable" /\ account.secret = call[c].key /\ account.secret # None
       /\ account'.secret = account.secret /\ account'.enabled = TRUE
    \/ account'.secret = None /\ account'.enabled = FALSE

(* The ways in: none is lost, but Google where it is disconnected. *)
WaysMove(c) ==
    /\ account.password => account'.password
    /\ account.google => account'.google \/ call[c].kind = "disconnect"

Served(c, ok, answer) ==
    /\ c \in Pending /\ call[c].stage = "sent" /\ Reply(c, ok, answer)
    /\ account' \in AccountRows \cup {None} /\ (ok \/ Exists => account' # None)
    /\ Exists => FactorMoves(c, ok, answer) /\ WaysMove(c)
    /\ ~Exists /\ account' # None => account'.password /\ account'.secret = None /\ ~account'.enabled
    /\ mailed' \subseteq Uses /\ links' \subseteq LinkTokens /\ drawn' \subseteq Secrets \cup LinkTokens
    /\ call[c].kind = "me" =>
          answer \in Users \cup {None} /\ (answer # None => call[c].signed /\ answer.password = FALSE)
    /\ call[c].kind = "login" =>
          (ok => answer \in Users) /\ (answer \in Users => Exists /\ account'= account /\ answer.password = account.password)
    /\ call[c].kind = "generate" /\ ok => answer \in Secrets /\ account'.secret = answer
    /\ call[c].kind = "set-password" /\ ok => account'.password

Answers == Users \cup Secrets \cup LinkTokens \cup {[factor |-> TRUE], None}

LEMMA ApiEffect ==
    ASSUME PagesOK, NEW c \in Calls, Api(c), ~GoogleCallback(c)
    PROVE  \E ok \in BOOLEAN, answer \in Answers : Served(c, ok, answer)
<1> USE DEF PagesOK, AccountPagesTypeOK, Exists
<1>0. None \in Answers /\ None \notin AccountRows /\ None \notin Users
  BY AccountPagesAssumption DEF Answers
<1>1. CASE Register(c)
  <2>1. PICK ok \in BOOLEAN : ok = ~Exists
    OBVIOUS
  <2>2. /\ c \in Pending /\ call[c].stage = "sent" /\ Reply(c, ok, None) /\ call[c].kind = "register"
        /\ account' = IF ok THEN Account(TRUE, FALSE, FALSE) ELSE account
        /\ mailed' \subseteq Uses /\ links' = links /\ drawn' = drawn
    BY <1>1, <2>1 DEF Register, Serves, Update, Uses
  <2>3. Account(TRUE, FALSE, FALSE) \in AccountRows /\ Account(TRUE, FALSE, FALSE).password = TRUE
        /\ Account(TRUE, FALSE, FALSE).secret = None /\ Account(TRUE, FALSE, FALSE).enabled = FALSE
    BY AccountIs
  <2>4. Served(c, ok, None)
    BY <1>0, <2>1, <2>2, <2>3 DEF Served, FactorMoves, WaysMove
  <2> QED
    BY <1>0, <2>4
<1>2. CASE SendCode(c)
  <2>1. PICK ok \in BOOLEAN : ok = Sendable(call[c].key)
    BY DEF Sendable
  <2>2. /\ c \in Pending /\ call[c].stage = "sent" /\ Reply(c, ok, None) /\ call[c].kind = "send"
        /\ UNCHANGED <<account, links, drawn>>
        /\ mailed' = IF ok THEN mailed \cup {call[c].key} ELSE mailed
    BY <1>2, <2>1 DEF SendCode, Serves
  <2>3. call[c].key \in Uses
    BY <2>2, PendingCall DEF CallOK
  <2>4. ok => Exists
    BY <2>1 DEF Sendable
  <2>5. Served(c, ok, None)
    BY <1>0, <2>2, <2>3, <2>4 DEF Served, FactorMoves, WaysMove
  <2> QED
    BY <1>0, <2>5
<1>3. CASE UseCode(c)
  <2>1. PICK use : use = call[c].key
    OBVIOUS
  <2>2. PICK ok \in BOOLEAN : ok = (use \in mailed /\ Exists /\ (use = "restore" => account.deleted))
    OBVIOUS
  <2>3. /\ c \in Pending /\ call[c].stage = "sent" /\ Reply(c, ok, None) /\ call[c].kind = "use"
        /\ ~ok => account' = account
        /\ mailed' \subseteq Uses /\ links' = links /\ drawn' = drawn
    <3>1. /\ c \in Pending /\ call[c].stage = "sent" /\ call[c].kind = "use"
          /\ mailed' = mailed \ {use} /\ links' = links /\ drawn' = drawn
      BY <1>3, <2>1 DEF UseCode, Serves
    <3>2. Reply(c, ok, None) /\ (~ok => account' = account)
      BY <1>3, <2>1, <2>2 DEF UseCode, Update
    <3> QED
      BY <3>1, <3>2
  <2>4. use \in Uses
    BY <2>1, <2>3, PendingCall DEF CallOK
  <2>5. ok => Exists /\ account \in AccountRows
    BY <2>2
  <2>6. ok => account' \in {[account EXCEPT !.verified = TRUE], [account EXCEPT !.deleted = FALSE]}
              \/ account' = [account EXCEPT !.password = TRUE]
    <3>1. CASE use = "verify"
      BY <1>3, <2>1, <2>2, <3>1 DEF UseCode, Update
    <3>2. CASE use = "reset"
      BY <1>3, <2>1, <2>2, <3>2 DEF UseCode, Update
    <3>3. CASE use = "restore"
      BY <1>3, <2>1, <2>2, <3>3 DEF UseCode, Update
    <3> QED
      BY <2>4, <3>1, <3>2, <3>3 DEF Uses
  <2>7. ok => SameFactor(account, account') /\ (account.password => account'.password)
              /\ account'.google = account.google
    BY <2>5, <2>6, FlagSet, PasswordGiven DEF SameWays
  <2>8. Served(c, ok, None)
    <3>1. CASE ok
      BY <1>0, <2>3, <2>5, <2>7, <3>1 DEF Served, FactorMoves, WaysMove, SameFactor
    <3>2. CASE ~ok
      BY <1>0, <2>3, <3>2 DEF Served, FactorMoves, WaysMove
    <3> QED
      BY <3>1, <3>2
  <2> QED
    BY <1>0, <2>8
<1>4. CASE Login(c)
  <2>1. PICK ok \in BOOLEAN : ok = (/\ Exists /\ account.password /\ ~account.deleted
                                    /\ account.enabled => call[c].key = "second")
    OBVIOUS
  <2>2. PICK answer \in {IF ok THEN User(account) ELSE None, [factor |-> TRUE], None} :
          /\ Reply(c, ok, answer) /\ (ok => answer = User(account))
          /\ answer \in {[factor |-> TRUE], None} \/ (ok /\ answer = User(account))
    BY <1>4, <2>1 DEF Login
  <2>3. ok => Exists /\ account \in AccountRows
    BY <2>1
  <2>4. ok => User(account) \in Users /\ User(account).password = account.password
    BY <2>3, UserIs
  <2>5. answer \in Answers
    BY <2>2, <2>4 DEF Answers
  <2>6. [factor |-> TRUE] \notin Users
    BY DEF Users
  <2>7. answer \in Users => ok
    BY <1>0, <2>2, <2>6
  <2>8. /\ c \in Pending /\ call[c].stage = "sent" /\ call[c].kind = "login"
        /\ UNCHANGED <<account, mailed, links, drawn>>
    BY <1>4 DEF Login, Serves, row
  <2>9. Served(c, ok, answer)
    BY <2>2, <2>3, <2>4, <2>7, <2>8 DEF Served, FactorMoves, WaysMove
  <2> QED
    BY <2>5, <2>9
<1>5. CASE Me(c)
  <2>1. PICK ok \in BOOLEAN : ok = Allowed(c)
    BY <1>5, PendingCall DEF Me, Serves, Allowed
  <2>2. PICK answer : answer = IF ok THEN UserById(account) ELSE None
    OBVIOUS
  <2>3. /\ c \in Pending /\ call[c].stage = "sent" /\ call[c].kind = "me" /\ Reply(c, ok, answer)
        /\ UNCHANGED <<account, mailed, links, drawn>>
    BY <1>5, <2>1, <2>2 DEF Me, Serves, row
  <2>4. ok => Exists /\ account \in AccountRows /\ call[c].signed
    BY <2>1 DEF Allowed
  <2>5. ok => answer \in Users /\ answer.password = FALSE
    BY <2>2, <2>4, UserIs
  <2>6. answer \in Users \cup {None} /\ (answer # None => ok)
    BY <2>2, <2>5
  <2>7. Served(c, ok, answer)
    BY <2>3, <2>4, <2>5, <2>6 DEF Served, FactorMoves, WaysMove
  <2> QED
    BY <2>6, <2>7 DEF Answers
<1>6. CASE Logout(c)
  <2>1. /\ c \in Pending /\ call[c].stage = "sent" /\ call[c].kind = "logout" /\ Reply(c, FALSE, None)
        /\ UNCHANGED <<account, mailed, links, drawn>>
    BY <1>6 DEF Logout, Serves, row
  <2>2. Served(c, FALSE, None)
    BY <1>0, <2>1 DEF Served, FactorMoves, WaysMove
  <2> QED
    BY <1>0, <2>2
<1>7. CASE GenerateSecret(c)
  <2>1. c \in Pending /\ call[c].stage = "sent" /\ call[c].kind = "generate"
    BY <1>7 DEF GenerateSecret, Serves
  <2>2. CASE Allowed(c)
    <3>1. PICK s \in Secrets \ drawn :
            /\ account' = [account EXCEPT !.secret = s] /\ drawn' = drawn \cup {s}
            /\ UNCHANGED <<mailed, links>> /\ Reply(c, TRUE, s)
      BY <1>7, <2>2 DEF GenerateSecret
    <3>2. Exists /\ account \in AccountRows
      BY <2>2 DEF Allowed
    <3>3. SameWays(account, account') /\ account'.secret = s /\ account'.enabled = account.enabled
      BY <3>1, <3>2, SecretSet
    <3>4. Served(c, TRUE, s)
      BY <1>0, <2>1, <3>1, <3>2, <3>3 DEF Served, FactorMoves, WaysMove, SameWays
    <3> QED
      BY <3>4 DEF Answers
  <2>3. CASE ~Allowed(c)
    <3>1. Reply(c, FALSE, None) /\ UNCHANGED <<account, mailed, links, drawn>>
      BY <1>7, <2>3 DEF GenerateSecret, row
    <3>2. Served(c, FALSE, None)
      BY <1>0, <2>1, <3>1 DEF Served, FactorMoves, WaysMove
    <3> QED
      BY <1>0, <3>2
  <2> QED
    BY <2>2, <2>3
<1>8. CASE Switch(c)
  <2>1. PICK ok \in BOOLEAN : ok = (Allowed(c) /\ account.secret # None /\ account.secret = call[c].key)
    BY <1>8, PendingCall DEF Switch, Serves, Allowed
  <2>2. /\ c \in Pending /\ call[c].stage = "sent" /\ call[c].kind \in {"enable", "disable"}
        /\ Reply(c, ok, None)
        /\ account' = IF ok THEN IF call[c].kind = "enable" THEN [account EXCEPT !.enabled = TRUE]
                                 ELSE [account EXCEPT !.secret = None, !.enabled = FALSE]
                      ELSE account
        /\ UNCHANGED <<mailed, links, drawn>>
    BY <1>8, <2>1 DEF Switch, Serves, Update
  <2>3. ok => Exists /\ account \in AccountRows
    BY <2>1 DEF Allowed
  <2>4. ok => SameWays(account, account') /\ FactorMoves(c, ok, None)
    <3> SUFFICES ASSUME ok PROVE SameWays(account, account') /\ FactorMoves(c, ok, None)
      OBVIOUS
    <3>1. CASE call[c].kind = "enable"
      BY <2>1, <2>2, <2>3, <3>1, FactorOn DEF FactorMoves
    <3>2. CASE call[c].kind = "disable"
      BY <2>2, <2>3, <3>2, FactorOff DEF FactorMoves
    <3> QED
      BY <2>2, <3>1, <3>2
  <2>5. Served(c, ok, None)
    <3>1. CASE ok
      BY <1>0, <2>2, <2>3, <2>4, <3>1 DEF Served, WaysMove, SameWays
    <3>2. CASE ~ok
      BY <1>0, <2>2, <3>2 DEF Served, FactorMoves, WaysMove
    <3> QED
      BY <3>1, <3>2
  <2> QED
    BY <1>0, <2>5
<1>9. ASSUME NEW ok \in BOOLEAN, ok => Exists, c \in Pending, call[c].stage = "sent",
             Reply(c, ok, None), UNCHANGED <<mailed, links, drawn>>,
             \/ /\ call[c].kind = "set-password"
                /\ account' = IF ok THEN [account EXCEPT !.password = TRUE] ELSE account
             \/ /\ call[c].kind = "disconnect"
                /\ account' = IF ok THEN [account EXCEPT !.google = FALSE] ELSE account
             \/ /\ call[c].kind = "delete"
                /\ account' = IF ok THEN [account EXCEPT !.deleted = TRUE] ELSE account
      PROVE  \E o \in BOOLEAN, answer \in Answers : Served(c, o, answer)
  <2>1. CASE ok
    <3>1. Exists /\ account \in AccountRows
      BY <1>9, <2>1
    <3>2. /\ SameFactor(account, account') /\ (account.password => account'.password)
          /\ account.google => account'.google \/ call[c].kind = "disconnect"
          /\ call[c].kind = "set-password" => account'.password
          /\ call[c].kind \in {"set-password", "disconnect", "delete"}
      <4>1. CASE call[c].kind = "set-password"
        <5>1. account' = [account EXCEPT !.password = TRUE]
          BY <1>9, <2>1, <4>1
        <5> QED
          BY <3>1, <4>1, <5>1, PasswordGiven
      <4>2. CASE call[c].kind = "disconnect"
        <5>1. account' = [account EXCEPT !.google = FALSE]
          BY <1>9, <2>1, <4>2
        <5> QED
          BY <3>1, <4>2, <5>1, GoogleSet
      <4>3. CASE call[c].kind = "delete"
        <5>1. account' = [account EXCEPT !.deleted = TRUE]
          BY <1>9, <2>1, <4>3
        <5> QED
          BY <3>1, <4>3, <5>1, FlagSet DEF SameWays
      <4> QED
        BY <1>9, <4>1, <4>2, <4>3
    <3>3. Served(c, ok, None)
      BY <1>0, <1>9, <3>1, <3>2 DEF Served, FactorMoves, WaysMove, SameFactor
    <3> QED
      BY <1>0, <3>3
  <2>2. CASE ~ok
    <3>1. call[c].kind \in {"set-password", "disconnect", "delete"} /\ account' = account
      BY <1>9, <2>2
    <3>2. Served(c, ok, None)
      BY <1>0, <1>9, <2>2, <3>1 DEF Served, FactorMoves, WaysMove
    <3> QED
      BY <1>0, <3>2
  <2> QED
    BY <2>1, <2>2
<1>10. CASE SetPassword(c)
  <2>1. PICK ok \in BOOLEAN : ok = (Allowed(c) /\ ~account.password)
    BY <1>10, PendingCall DEF SetPassword, Serves, Allowed
  <2> QED
    BY <1>9, <1>10, <2>1 DEF SetPassword, Serves, Update, Allowed
<1>11. CASE DisconnectGoogle(c)
  <2>1. PICK ok \in BOOLEAN : ok = (Allowed(c) /\ account.google)
    BY <1>11, PendingCall DEF DisconnectGoogle, Serves, Allowed
  <2> QED
    BY <1>9, <1>11, <2>1 DEF DisconnectGoogle, Serves, Update, Allowed
<1>12. CASE DeleteAccount(c)
  <2>1. PICK ok \in BOOLEAN : ok = (Allowed(c) /\ (account.password => call[c].key = "password"))
    BY <1>12, PendingCall DEF DeleteAccount, Serves, Allowed
  <2> QED
    BY <1>9, <1>12, <2>1 DEF DeleteAccount, Serves, Update, Allowed
<1>13. CASE GetGoogleLinkToken(c)
  <2>1. c \in Pending /\ call[c].stage = "sent" /\ call[c].kind = "link"
    BY <1>13 DEF GetGoogleLinkToken, Serves
  <2>2. CASE Allowed(c)
    <3>1. PICK l \in LinkTokens \ drawn :
            /\ links' = links \cup {l} /\ drawn' = drawn \cup {l}
            /\ UNCHANGED <<account, mailed>> /\ Reply(c, TRUE, l)
      BY <1>13, <2>2 DEF GetGoogleLinkToken
    <3>2. Served(c, TRUE, l)
      BY <1>0, <2>1, <2>2, <3>1 DEF Served, FactorMoves, WaysMove, Allowed
    <3> QED
      BY <3>2 DEF Answers
  <2>3. CASE ~Allowed(c)
    <3>1. Reply(c, FALSE, None) /\ UNCHANGED <<account, mailed, links, drawn>>
      BY <1>13, <2>3 DEF GetGoogleLinkToken, row
    <3>2. Served(c, FALSE, None)
      BY <1>0, <2>1, <3>1 DEF Served, FactorMoves, WaysMove
    <3> QED
      BY <1>0, <3>2
  <2> QED
    BY <2>2, <2>3
<1> QED
  BY <1>1, <1>2, <1>3, <1>4, <1>5, <1>6, <1>7, <1>8, <1>10, <1>11, <1>12, <1>13 DEF Api

(* What the user does sends one call. *)
Sent(c, kind, key, then) ==
    /\ kind \in Kinds \ {"me"} /\ key \in Secrets \cup Uses \cup {"login", "second", "password", None}
    /\ then \in Screens \cup {"me", "set", "close", "disconnect", "leave", None}
    /\ Send(c, Request(kind, key, then)) /\ Pressed
    /\ screen # None /\ screen.at # "google" /\ hasty' \in BOOLEAN /\ (hasty => hasty')
    /\ kind \in {"register", "send"} => then \in Stops \cup {None}
    /\ kind = "use" => then \in Stops \cup {"me"}
    /\ kind \in {"use", "send"} => key \in Uses
    /\ kind \in {"enable", "disable"} => key = phone /\ phone \in Secrets
    /\ kind = "enable" => ConfirmSwitch(c) /\ ~user.enabled
    /\ kind = "generate" => TurnOn(c) /\ then = None
    /\ kind = "disconnect" => user # None /\ user.password

LEMMA DoEffect ==
    ASSUME PagesOK, NEW c \in Calls, Do(c)
    PROVE  \E kind, key, then : Sent(c, kind, key, then)
<1> USE DEF Visible, At, SignedIn, Press, Kinds, Stops, Screens, Guarded, Public, Uses, Switching
<1>0. hasty \in BOOLEAN
  BY DEF PagesOK, AccountPagesTypeOK
<1>1. CASE SignUp(c)
  <2>1. Sent(c, "register", None, "signup-code")
    BY <1>0, <1>1 DEF SignUp, Sent
  <2> QED
    BY <2>1
<1>2. CASE SignIn(c)
  <2>1. Sent(c, "login", screen.at, "dashboard")
    BY <1>0, <1>2 DEF SignIn, Sent
  <2> QED
    BY <2>1
<1>3. CASE AskForCode(c)
  <2>1. PICK use \in Uses, then \in Stops \cup {None} : Press(c, "send", use, then) /\ screen # None /\ screen.at # "google"
    BY <1>3 DEF AskForCode
  <2>2. Sent(c, "send", use, then)
    BY <1>0, <2>1 DEF Sent
  <2> QED
    BY <2>2
<1>4. CASE EnterCode(c)
  <2>1. PICK use \in Uses, then \in Stops \cup {"me"} : Press(c, "use", use, then) /\ screen # None /\ screen.at # "google"
    BY <1>4 DEF EnterCode
  <2>2. Sent(c, "use", use, then)
    BY <1>0, <2>1 DEF Sent
  <2> QED
    BY <2>2
<1>5. CASE SignOut(c)
  <2>1. Sent(c, "logout", None, "login")
    BY <1>0, <1>5 DEF SignOut, Sent
  <2> QED
    BY <2>1
<1>6. CASE SetTheFirst(c)
  <2>1. Sent(c, "set-password", None, "set")
    BY <1>0, <1>6 DEF SetTheFirst, Settings, Sent
  <2> QED
    BY <2>1
<1>7. CASE ConnectGoogle(c)
  <2>1. Sent(c, "link", None, "google")
    BY <1>0, <1>7 DEF ConnectGoogle, Settings, Sent
  <2> QED
    BY <2>1
<1>8. CASE TurnOn(c)
  <2>1. Sent(c, "generate", None, None)
    BY <1>0, <1>8 DEF TurnOn, Settings, Sent
  <2> QED
    BY <2>1
<1>9. CASE ConfirmSwitch(c)
  <2>1. PICK kind : kind = IF user.enabled THEN "disable" ELSE "enable"
    OBVIOUS
  <2>2. phone \in Secrets
    BY <1>9 DEF ConfirmSwitch, PagesOK, AccountPagesTypeOK
  <2>3. Sent(c, kind, phone, None)
    BY <1>0, <1>9, <2>1, <2>2 DEF ConfirmSwitch, InModal, Sent
  <2> QED
    BY <2>3
<1>10. CASE Disconnect(c)
  <2>1. CASE user.password
    <3>1. Sent(c, "disconnect", None, "close")
      BY <1>0, <1>10, <2>1 DEF Disconnect, InModal, Sent
    <3> QED
      BY <3>1
  <2>2. CASE ~user.password
    <3>1. Sent(c, "set-password", None, "disconnect")
      BY <1>0, <1>10, <2>2 DEF Disconnect, InModal, Sent
    <3> QED
      BY <3>1
  <2> QED
    BY <2>1, <2>2
<1>11. CASE Delete(c)
  <2>1. PICK key \in {"password", None} : Press(c, "delete", key, "leave") /\ screen # None /\ screen.at # "google"
    BY <1>11 DEF Delete, InModal
  <2>2. Sent(c, "delete", key, "leave")
    BY <1>0, <2>1 DEF Sent
  <2> QED
    BY <2>2
<1> QED
  BY <1>1, <1>2, <1>3, <1>4, <1>5, <1>6, <1>7, <1>8, <1>9, <1>10, <1>11 DEF Do

LEMMA SentCalls ==
    ASSUME PagesOK, NEW c \in Calls, NEW kind, NEW key, NEW then, Sent(c, kind, key, then)
    PROVE  /\ c \notin Pending /\ CallsOn({c})
           /\ \A q \in Calls \ {c} : call'[q] = call[q]
           /\ call'[c] \in Requests /\ call'[c].kind = kind /\ call'[c].key = key /\ call'[c].then = then
           /\ call'[c].signed = token /\ call'[c].live /\ call'[c].here
           /\ call'[c].stage = "sent" /\ call'[c].answer = None /\ call'[c] # None
<1>1. Request(kind, key, then) \in Requests /\ Send(c, Request(kind, key, then))
  BY RequestIs DEF Sent
<1>2. /\ Request(kind, key, then).kind = kind /\ Request(kind, key, then).key = key
      /\ Request(kind, key, then).then = then /\ Request(kind, key, then).signed = token
      /\ Request(kind, key, then).live /\ Request(kind, key, then).here
      /\ Request(kind, key, then).stage = "sent" /\ Request(kind, key, then).answer = None
  BY DEF Request
<1> HIDE DEF Request
<1> QED
  BY <1>1, <1>2, SendCalls, AccountPagesAssumption

LEMMA SentRest ==
    ASSUME NEW c, NEW kind, NEW key, NEW then, Sent(c, kind, key, then)
    PROVE  /\ kind # "me" /\ UNCHANGED <<account, token, user, screen, phone, late>>
           /\ screen # None /\ screen.at # "google"
BY DEF Sent, Pressed, row, auth

(* The pages. *)
LEMMA PageIs ==
    ASSUME NEW at \in Screens, NEW key \in Secrets \cup LinkTokens \cup {None}
    PROVE  LET p == Page(at, key) IN p \in Pages /\ p # None /\ p.at = at /\ p.modal = None /\ p.key = key
<1>1. Page(at, key) \in Pages
  BY DEF Page, Pages
<1> QED
  BY <1>1, AccountPagesAssumption DEF Page

LEMMA ModalIs ==
    ASSUME PagesOK, screen # None, NEW m \in Modals \cup {None}, NEW key \in Secrets \cup LinkTokens \cup {None},
           \/ screen' = [screen EXCEPT !.modal = m, !.key = key]
           \/ screen' = [screen EXCEPT !.modal = m] /\ key = screen.key
    PROVE  screen' \in Pages /\ screen' # None
           /\ screen'.at = screen.at /\ screen'.modal = m /\ screen'.key = key
<1>1. screen \in Pages
  BY DEF PagesOK, AccountPagesTypeOK
<1>2. screen' = [at |-> screen.at, modal |-> m, key |-> key]
  BY <1>1 DEF Pages
<1>3. screen' \in Pages
  BY <1>1, <1>2 DEF Pages
<1> QED
  BY <1>2, <1>3, AccountPagesAssumption

LEMMA StepIs ==
    ASSUME PagesOK, NEW c \in Pending, NEW at, call[c].here => at \in Stops, Step(c, at)
    PROVE  /\ screen' \in Pages \cup {None} /\ (screen # None => screen' # None)
           /\ \/ UNCHANGED screen
              \/ /\ call[c].here /\ screen' # None
                 /\ screen'.at \in Stops /\ screen'.modal = screen.modal /\ screen'.key = screen.key
<1>1. CASE call[c].here
  <2>1. screen \in Pages /\ at \in Stops /\ screen' = [screen EXCEPT !.at = at]
    BY <1>1, PendingCall DEF PagesOK, AccountPagesTypeOK, Step
  <2>2. screen' = [at |-> at, modal |-> screen.modal, key |-> screen.key]
    BY <2>1 DEF Pages
  <2>3. screen' \in Pages
    BY <2>1, <2>2 DEF Pages, Stops
  <2>4. screen'.at = at /\ screen'.modal = screen.modal /\ screen'.key = screen.key
    BY <2>2
  <2>5. screen' # None
    BY <2>3, AccountPagesAssumption
  <2> QED
    BY <1>1, <2>1, <2>3, <2>4, <2>5
<1>2. CASE ~call[c].here
  BY <1>2 DEF Step, PagesOK, AccountPagesTypeOK
<1> QED
  BY <1>1, <1>2

LEMMA CloseIs ==
    ASSUME PagesOK, NEW c \in Pending, Close(c)
    PROVE  /\ screen' \in Pages \cup {None} /\ (screen # None => screen' # None)
           /\ \/ UNCHANGED screen
              \/ screen # None /\ screen'.at = screen.at /\ screen'.modal = None /\ screen'.key = None
<1>1. CASE call[c].here
  <2>1. screen # None /\ screen' = [screen EXCEPT !.modal = None, !.key = None]
    BY <1>1, PendingCall DEF Close
  <2> QED
    BY <2>1, ModalIs
<1>2. CASE ~call[c].here
  BY <1>2 DEF Close, PagesOK, AccountPagesTypeOK
<1> QED
  BY <1>1, <1>2

-----------------------------------------------------------------------------
(* Every step keeps the types. *)

LEMMA PagesInit == Init => PagesOK
<1> SUFFICES ASSUME Init PROVE PagesOK
  OBVIOUS
<1>1. Pending = {} /\ call \in [Calls -> Requests \cup {None}]
  BY DEF Init, Pending
<1>2. account \in AccountRows \cup {None} /\ (Exists /\ account.enabled => account.secret # None)
  <2>1. CASE account = None
    BY <2>1 DEF Exists
  <2>2. CASE account # None
    <3>1. PICK p, g, v \in BOOLEAN : account = Account(p, g, v)
      BY <2>2, AccountPagesAssumption DEF Init
    <3>2. account \in AccountRows /\ account.enabled = FALSE
      BY <3>1, AccountIs
    <3> QED
      BY <3>2
  <2> QED
    BY <2>1, <2>2
<1> QED
  BY <1>1, <1>2 DEF Init, PagesOK, AccountPagesTypeOK, CallsOK

LEMMA ServedTypes ==
    ASSUME PagesOK, NEW c \in Calls, NEW ok \in BOOLEAN, NEW answer \in Answers, Served(c, ok, answer)
    PROVE  PagesOK'
<1>1. c \in Pending /\ Reply(c, ok, answer)
  BY DEF Served
<1>2. Exists => Exists'
  BY DEF Served, Exists
<1>3. /\ CallsOn({c})
      /\ \A q \in Calls \ {c} : call'[q] = call[q]
      /\ \/ call'[c] = None
         \/ /\ call'[c] \in Requests
            /\ call'[c].kind = call[c].kind /\ call'[c].then = call[c].then
            /\ call'[c].live = call[c].live /\ call'[c].here = call[c].here
            /\ call'[c].stage = IF ok THEN "done" ELSE "refused"
            /\ call'[c].answer = answer
      /\ UNCHANGED <<auth, screen, leaving, phone, hasty, late>>
  BY <1>1, ReplyCalls DEF Answers
<1>4. call'[c] = None \/ CallFits(call[c])'
  <2>1. CallOK(call[c])
    BY <1>1, PendingCall
  <2>2. ASSUME call'[c] # None
        PROVE  CallOK(call'[c])
    BY <1>3, <2>1, <2>2 DEF CallOK, Served
  <2>3. ok => Exists'
    BY DEF Served, Exists
  <2> QED
    BY <1>1, <1>3, <2>2, <2>3, PendingCall DEF CallFits
<1>5. call' \in [Calls -> Requests \cup {None}] /\ CallsOK' /\ \A q \in Pending' : CallOK(call'[q])
  <2>1. \A q \in Calls \ {c} : call'[q] # None /\ call'[q].here => screen' # None
    BY <1>3, PendingCall DEF Pending
  <2> QED
    BY <1>2, <1>3, <1>4, <2>1, CallsKept
<1>6. /\ account' \in AccountRows \cup {None}
      /\ Exists' /\ account'.enabled => account'.secret # None
  <2>1. None \notin Secrets
    BY AccountPagesAssumption
  <2> QED
    BY <2>1 DEF Served, FactorMoves, PagesOK, AccountPagesTypeOK, Exists
<1>7. /\ mailed' \subseteq Uses /\ links' \subseteq LinkTokens /\ drawn' \subseteq Secrets \cup LinkTokens
  BY DEF Served
<1> QED
  BY <1>2, <1>3, <1>5, <1>6, <1>7 DEF PagesOK, AccountPagesTypeOK, auth

LEMMA CallbackTypes ==
    ASSUME PagesOK, NEW c \in Calls, GoogleCallback(c)
    PROVE  /\ PagesOK' /\ (Exists => Exists') /\ (token => token')
           /\ \E at \in {"callback", "failed"}, then \in {"dashboard", None} : Start(c, at, then)
           /\ \/ account' = account
              \/ Exists /\ SameFactor(account, account') /\ account'.google /\ account'.password = account.password
              \/ ~Exists /\ account' \in AccountRows /\ account'.google
                         /\ account'.secret = None /\ ~account'.enabled
<1>1. CASE links' = links \ {screen.key} /\ UNCHANGED <<journey, account, mailed, drawn, token>>
           /\ Start(c, "failed", None)
  <2>1. token' \in BOOLEAN
    BY <1>1 DEF PagesOK, AccountPagesTypeOK
  <2>2. "failed" \in Screens
    BY DEF Screens
  <2>3. /\ CallsOn({c})
        /\ \A q \in Calls \ {c} : call'[q] # None => ~call'[q].here
        /\ call'[c] = None \/ /\ token' /\ call'[c] \in Requests /\ call'[c].kind = "me"
                              /\ call'[c].then = None /\ call'[c].stage = "sent" /\ call'[c].answer = None
                              /\ call'[c].here /\ call'[c].live
        /\ screen' \in Pages /\ screen' # None
        /\ user' = None /\ loading' = token' /\ leaving' = FALSE
        /\ UNCHANGED <<phone, hasty, late>>
    BY <1>1, <2>1, <2>2, StartCalls
  <2>4. call'[c] = None \/ CallFits(call[c])'
    BY <2>3 DEF CallFits, CallOK
  <2>5. call' \in [Calls -> Requests \cup {None}] /\ CallsOK' /\ \A q \in Pending' : CallOK(call'[q])
    <3>1. Exists => Exists'
      BY <1>1 DEF Exists
    <3> QED
      BY <2>3, <2>4, <3>1, CallsKept
  <2> QED
    BY <1>1, <2>1, <2>3, <2>5 DEF PagesOK, AccountPagesTypeOK, Exists
<1>2. CASE links' = links \ {screen.key}
           /\ Enter(c, IF Exists THEN [account EXCEPT !.google = TRUE] ELSE Account(FALSE, TRUE, TRUE))
  <2>1. /\ account' = IF Exists THEN [account EXCEPT !.google = TRUE] ELSE Account(FALSE, TRUE, TRUE)
        /\ token' = TRUE /\ Start(c, "callback", "dashboard") /\ UNCHANGED <<journey, mailed, drawn>>
    BY <1>2 DEF Enter
  <2>2. "callback" \in Screens /\ token' \in BOOLEAN
    BY <2>1 DEF Screens
  <2>3. /\ CallsOn({c})
        /\ \A q \in Calls \ {c} : call'[q] # None => ~call'[q].here
        /\ call'[c] = None \/ /\ token' /\ call'[c] \in Requests /\ call'[c].kind = "me"
                              /\ call'[c].then = "dashboard" /\ call'[c].stage = "sent" /\ call'[c].answer = None
                              /\ call'[c].here /\ call'[c].live
        /\ screen' \in Pages /\ screen' # None
        /\ user' = None /\ loading' = token' /\ leaving' = FALSE
        /\ UNCHANGED <<phone, hasty, late>>
    BY <2>1, <2>2, StartCalls
  <2>4. /\ account' \in AccountRows /\ Exists'
        /\ \/ Exists /\ SameFactor(account, account') /\ account'.google /\ account'.password = account.password
           \/ ~Exists /\ account'.google /\ account'.secret = None /\ ~account'.enabled
    <3>1. CASE Exists
      <4>1. account \in AccountRows /\ account' = [account EXCEPT !.google = TRUE]
        BY <2>1, <3>1 DEF Exists, PagesOK, AccountPagesTypeOK
      <4>2. SameFactor(account, account') /\ account'.google = TRUE /\ account'.password = account.password
        BY <4>1, GoogleSet
      <4> QED
        BY <3>1, <4>2, AccountPagesAssumption DEF SameFactor, Exists
    <3>2. CASE ~Exists
      <4>1. account' = Account(FALSE, TRUE, TRUE)
        BY <2>1, <3>2
      <4>2. account' \in AccountRows /\ account'.google = TRUE /\ account'.secret = None /\ account'.enabled = FALSE
        BY <4>1, AccountIs
      <4> QED
        BY <3>2, <4>2, AccountPagesAssumption DEF Exists
    <3> QED
      BY <3>1, <3>2
  <2>5. call'[c] = None \/ CallFits(call[c])'
    BY <2>3 DEF CallFits, CallOK
  <2>6. call' \in [Calls -> Requests \cup {None}] /\ CallsOK' /\ \A q \in Pending' : CallOK(call'[q])
    BY <2>3, <2>4, <2>5, CallsKept
  <2>7. /\ mailed' \subseteq Uses /\ links' \subseteq LinkTokens /\ drawn' \subseteq Secrets \cup LinkTokens
    BY <1>2, <2>1 DEF PagesOK, AccountPagesTypeOK
  <2>8. Exists' /\ account'.enabled => account'.secret # None
    BY <2>4 DEF SameFactor, PagesOK, AccountPagesTypeOK
  <2>9. phone' \in Secrets \cup {None} /\ hasty' \in BOOLEAN /\ late' \in BOOLEAN
    BY <2>3 DEF PagesOK, AccountPagesTypeOK
  <2>10. PagesOK'
    BY <2>1, <2>3, <2>4, <2>6, <2>7, <2>8, <2>9 DEF PagesOK, AccountPagesTypeOK
  <2> QED
    BY <2>1, <2>4, <2>10
<1> QED
  BY <1>1, <1>2 DEF GoogleCallback

LEMMA SentTypes ==
    ASSUME PagesOK, NEW c \in Calls, NEW kind, NEW key, NEW then, Sent(c, kind, key, then)
    PROVE  PagesOK'
<1>1. /\ CallsOn({c}) /\ call'[c] \in Requests
      /\ \A q \in Calls \ {c} : call'[q] = call[q]
      /\ call'[c].kind = kind /\ call'[c].key = key /\ call'[c].then = then
      /\ call'[c].live /\ call'[c].here /\ call'[c].stage = "sent" /\ call'[c].answer = None
  BY SentCalls
<1>2. UNCHANGED <<row, auth, screen, leaving, phone, late>> /\ screen # None /\ hasty' \in BOOLEAN
  BY DEF Sent, Pressed
<1>3. CallFits(call[c])'
  BY <1>1, <1>2 DEF CallFits, CallOK, Sent
<1>4. call' \in [Calls -> Requests \cup {None}] /\ CallsOK' /\ \A q \in Pending' : CallOK(call'[q])
  <2>1. Exists => Exists'
    BY <1>2 DEF Exists, row
  <2> QED
    BY <1>1, <1>2, <1>3, <2>1, CallsKept
<1> QED
  BY <1>2, <1>4 DEF PagesOK, AccountPagesTypeOK, row, auth, Exists

LEMMA LoseCalls ==
    ASSUME PagesOK, NEW c \in Calls, Lose(c)
    PROVE  /\ c \in Pending /\ CallsOn({c}) /\ \A q \in Calls \ {c} : call'[q] = call[q]
           /\ \/ call'[c] = None
              \/ /\ call'[c] \in Requests /\ call[c].live
                 /\ call'[c].kind = call[c].kind /\ call'[c].key = call[c].key /\ call'[c].then = call[c].then
                 /\ call'[c].signed = call[c].signed /\ call'[c].live = call[c].live /\ call'[c].here = call[c].here
                 /\ call'[c].stage = "refused" /\ call'[c].answer = None
           /\ UNCHANGED <<row, auth, screen, leaving, phone, hasty, late>>
<1> DEFINE x == [call[c] EXCEPT !.stage = "refused", !.answer = None]
<1>1. c \in Pending /\ c \in Calls /\ call[c] \in Requests
  BY PendingCall DEF Lose
<1>2. x \in Requests
  BY <1>1 DEF Requests
<1>3. /\ x.kind = call[c].kind /\ x.key = call[c].key /\ x.then = call[c].then
      /\ x.signed = call[c].signed /\ x.live = call[c].live /\ x.here = call[c].here
      /\ x.stage = "refused" /\ x.answer = None
  BY <1>1 DEF Requests
<1>4. call' = [call EXCEPT ![c] = IF call[c].live THEN x ELSE None]
  BY DEF Lose
<1> HIDE DEF x
<1>5. PICK y : y = IF call[c].live THEN x ELSE None
  OBVIOUS
<1>6. /\ call' = [q \in Calls |-> call'[q]] /\ call'[c] = y
      /\ \A q \in Calls \ {c} : call'[q] = call[q]
  <2>1. call' = [call EXCEPT ![c] = y]
    BY <1>4, <1>5
  <2> QED
    BY <1>1, <2>1 DEF PagesOK, AccountPagesTypeOK
<1>7. CallsOn({c})
  BY <1>6 DEF CallsOn, Onward, Pending
<1> QED
  BY <1>1, <1>2, <1>3, <1>5, <1>6, <1>7 DEF Lose

(* An answer leaves the account as it is; it ends calls, and may send one from
   the script that heard it. *)
Goes(c, r) ==
    /\ CallsOn({c}) /\ \A q \in Calls \ {c} : call'[q] = call[q]
    /\ call'[c] = r /\ r \in Requests
    /\ r.kind \in {"me", "disconnect"} /\ r.then \in {"dashboard", "close", None}
    /\ r.stage = "sent" /\ r.answer = None /\ r.here = call[c].here /\ r.live = call[c].live

LEMMA AnswerTypes ==
    ASSUME PagesOK, NEW c \in Pending,
           \/ CallsOn({}) /\ \A q \in Calls : call'[q] # None /\ call'[q].here => screen' # None
           \/ Goes(c, call'[c]) /\ (screen # None => screen' # None),
           UNCHANGED <<row, phone, hasty>>,
           token' \in BOOLEAN, token' => Exists, user' \in Users \cup {None}, loading' \in BOOLEAN,
           screen' \in Pages \cup {None}, leaving' \in BOOLEAN, late' \in BOOLEAN
    PROVE  PagesOK'
<1>1. Exists' = Exists
  BY DEF Exists, row
<1>2. call' \in [Calls -> Requests \cup {None}] /\ CallsOK' /\ \A q \in Pending' : CallOK(call'[q])
  <2>1. CASE CallsOn({}) /\ \A q \in Calls : call'[q] # None /\ call'[q].here => screen' # None
    BY <1>1, <2>1, CallsKept
  <2>2. CASE Goes(c, call'[c]) /\ (screen # None => screen' # None)
    <3>1. c \in Calls /\ (call[c].here => call[c].live /\ screen # None)
      BY PendingCall
    <3>2. CallFits(call[c])'
      BY <2>2, <3>1 DEF Goes, CallFits, CallOK
    <3>3. \A q \in Calls \ {c} : call'[q] # None /\ call'[q].here => screen' # None
      BY <2>2, PendingCall DEF Goes, Pending
    <3> QED
      BY <1>1, <2>2, <3>1, <3>2, <3>3, CallsKept DEF Goes
  <2> QED
    BY <2>1, <2>2
<1> QED
  BY <1>1, <1>2 DEF PagesOK, AccountPagesTypeOK, row

LEMMA OverScreen ==
    ASSUME PagesOK, NEW c \in Calls, call' = Over(c), screen # None => screen' # None
    PROVE  CallsOn({}) /\ \A q \in Calls : call'[q] # None /\ call'[q].here => screen' # None
BY OverCalls, PendingCall DEF Pending

LEMMA ThenGoes ==
    ASSUME PagesOK, NEW c \in Pending, NEW kind \in {"me", "disconnect"},
           NEW then \in {"dashboard", "close", None}, NEW signed \in BOOLEAN,
           call' = Then(c, kind, then, signed)
    PROVE  Goes(c, call'[c]) /\ call'[c].kind = kind /\ call'[c].signed = signed
BY ThenCalls DEF Goes

LEMMA PushIs ==
    ASSUME PagesOK, NEW c \in Calls, NEW at \in Screens, Push(c, at)
    PROVE  /\ CallsOn({}) /\ \A q \in Calls : call'[q] # None => ~call'[q].here
           /\ screen' \in Pages /\ screen' # None /\ screen'.at = at
           /\ screen'.modal = None /\ screen'.key = None
<1>1. CallsOn({}) /\ \A q \in Calls : call'[q] # None => ~call'[q].here
  BY PushCalls DEF Push
<1>2. screen' = Page(at, None)
  BY DEF Push, Go
<1> QED
  BY <1>1, <1>2, PageIs

LEMMA GoogleIs ==
    ASSUME PagesOK, NEW l \in LinkTokens \cup {None}, GoToGoogle(l)
    PROVE  /\ CallsOn({})
           /\ \A q \in Calls : call'[q] # None =>
                 ~call'[q].here /\ call'[q].kind \notin {"me", "login", "logout"}
           /\ screen' \in Pages /\ screen' # None /\ screen'.at = "google"
           /\ user' = None /\ loading' = FALSE /\ leaving' = FALSE
           /\ UNCHANGED <<row, token, phone, hasty, late>>
<1>1. screen' = Page("google", l) /\ "google" \in Screens
  BY DEF GoToGoogle, Screens
<1> QED
  BY <1>1, PageIs, GoneCalls DEF GoToGoogle

LEMMA AnswersKeepTypes ==
    ASSUME PagesOK, NEW c \in Calls, Answer(c)
    PROVE  PagesOK'
<1> USE DEF Screens, Guarded, Public, Stops
<1>0. /\ token \in BOOLEAN /\ (token => Exists) /\ user \in Users \cup {None} /\ loading \in BOOLEAN
      /\ screen \in Pages \cup {None} /\ leaving \in BOOLEAN /\ late \in BOOLEAN
  BY DEF PagesOK, AccountPagesTypeOK
<1>1. CASE Stepped(c)
  <2>1. c \in Pending /\ call' = Over(c) /\ UNCHANGED <<row, auth, leaving, phone, hasty, late>>
    BY <1>1 DEF Stepped, Heard
  <2>2. screen' \in Pages \cup {None} /\ (screen # None => screen' # None)
    <3>1. CASE Done(c) /\ call[c].then # None
      <4>1. Step(c, call[c].then) /\ call[c].kind \in {"register", "send"}
        BY <1>1, <3>1 DEF Stepped, Heard
      <4>2. call[c].then \in Stops
        BY <2>1, <3>1, <4>1, PendingCall DEF CallOK
      <4> QED
        BY <2>1, <4>1, <4>2, StepIs
    <3>2. CASE ~(Done(c) /\ call[c].then # None)
      BY <1>0, <1>1, <3>2 DEF Stepped
    <3> QED
      BY <3>1, <3>2
  <2> QED
    BY <1>0, <2>1, <2>2, OverScreen, AnswerTypes DEF auth
<1>2. CASE CodeUsed(c)
  <2>1. /\ c \in Pending /\ call[c].kind = "use" /\ token' = (token \/ (Done(c) /\ call[c].then \in {"me", "restored"}))
        /\ UNCHANGED <<row, user, loading, leaving, phone, hasty, late>>
    BY <1>2 DEF CodeUsed, Heard
  <2>2. Done(c) => Exists
    BY <2>1, PendingCall DEF Done
  <2>3. CASE Done(c) /\ call[c].then = "me"
    <3>1. call' = Then(c, "me", "dashboard", TRUE) /\ UNCHANGED screen
      BY <1>2, <2>3 DEF CodeUsed
    <3>2. Goes(c, call'[c])
      BY <2>1, <3>1, ThenGoes
    <3> QED
      BY <1>0, <2>1, <2>2, <3>1, <3>2, AnswerTypes
  <2>4. CASE ~(Done(c) /\ call[c].then = "me")
    <3>1. call' = Over(c)
      BY <1>2, <2>4 DEF CodeUsed
    <3>2. screen' \in Pages \cup {None} /\ (screen # None => screen' # None)
      <4>1. CASE Done(c)
        <5>1. Step(c, call[c].then) /\ call[c].then # "me"
          BY <1>2, <2>4, <4>1 DEF CodeUsed
        <5>2. call[c].here => call[c].then \in Stops
          BY <2>1, <5>1, PendingCall DEF CallOK
        <5> QED
          BY <2>1, <5>1, <5>2, StepIs
      <4>2. CASE ~Done(c)
        BY <1>0, <1>2, <4>2 DEF CodeUsed
      <4> QED
        BY <4>1, <4>2
    <3> QED
      BY <1>0, <2>1, <2>2, <3>1, <3>2, OverScreen, AnswerTypes
  <2> QED
    BY <2>3, <2>4
<1>3. CASE LoggedIn(c)
  <2>1. /\ c \in Pending /\ call[c].kind = "login"
        /\ UNCHANGED <<row, loading, leaving, phone, hasty, late>>
    BY <1>3 DEF LoggedIn, Heard
  <2>2. CASE Done(c)
    <3>1. token' = TRUE /\ user' = call[c].answer /\ Push(c, "dashboard")
      BY <1>3, <2>2 DEF LoggedIn
    <3>2. Exists /\ call[c].answer \in Users
      BY <2>1, <2>2, PendingCall DEF Done, CallOK
    <3>3. /\ CallsOn({}) /\ \A q \in Calls : call'[q] # None => ~call'[q].here
          /\ screen' \in Pages /\ screen' # None
      BY <3>1, PushIs
    <3> QED
      BY <1>0, <2>1, <3>1, <3>2, <3>3, AnswerTypes
  <2>3. CASE ~Done(c)
    <3>1. call' = Over(c) /\ UNCHANGED <<token, user>>
      BY <1>3, <2>3 DEF LoggedIn
    <3>2. screen' \in Pages \cup {None} /\ (screen # None => screen' # None)
      <4>1. Step(c, "second") \/ UNCHANGED screen
        BY <1>3, <2>3 DEF LoggedIn
      <4>2. "second" \in Stops
        OBVIOUS
      <4> QED
        BY <1>0, <2>1, <4>1, <4>2, StepIs
    <3> QED
      BY <1>0, <2>1, <3>1, <3>2, OverScreen, AnswerTypes
  <2> QED
    BY <2>2, <2>3
<1>4. CASE UserRead(c)
  <2>1. /\ c \in Pending /\ call[c].kind = "me" /\ user' = call[c].answer /\ loading' = FALSE
        /\ UNCHANGED <<row, token, leaving, phone, hasty, late>>
    BY <1>4 DEF UserRead, Heard
  <2>2. call[c].answer \in Users \cup {None}
    BY <2>1, PendingCall DEF CallOK
  <2>3. CASE Push(c, "dashboard")
    <3>1. /\ CallsOn({}) /\ \A q \in Calls : call'[q] # None => ~call'[q].here
          /\ screen' \in Pages /\ screen' # None
      BY <2>3, PushIs
    <3> QED
      BY <1>0, <2>1, <2>2, <3>1, AnswerTypes
  <2>4. CASE (Close(c) \/ UNCHANGED screen) /\ call' = Over(c)
    <3>1. screen' \in Pages \cup {None} /\ (screen # None => screen' # None)
      BY <1>0, <2>1, <2>4, CloseIs
    <3> QED
      BY <1>0, <2>1, <2>2, <2>4, <3>1, OverScreen, AnswerTypes
  <2> QED
    BY <1>4, <2>3, <2>4 DEF UserRead
<1>5. CASE SignedOut(c)
  <2>1. /\ c \in Pending /\ Push(c, "login") /\ token' = FALSE /\ user' = None
        /\ UNCHANGED <<row, loading, leaving, phone, hasty>>
        /\ late' = (late \/ \E q \in Pending : call[q].kind = "me")
    BY <1>5 DEF SignedOut, Heard
  <2>2. /\ CallsOn({}) /\ \A q \in Calls : call'[q] # None => ~call'[q].here
        /\ screen' \in Pages /\ screen' # None
    BY <2>1, PushIs
  <2> QED
    BY <1>0, <2>1, <2>2, AnswerTypes
<1>6. CASE SecretShown(c)
  <2>1. /\ c \in Pending /\ call[c].kind = "generate" /\ call' = Over(c)
        /\ UNCHANGED <<row, auth, leaving, phone, hasty, late>>
    BY <1>6 DEF SecretShown, Heard
  <2>2. screen' \in Pages \cup {None} /\ (screen # None => screen' # None)
    <3>1. CASE Done(c) /\ call[c].here
      <4>1. call[c].answer \in Secrets /\ screen # None
        BY <2>1, <3>1, PendingCall DEF Done, CallOK
      <4>2. screen' = [screen EXCEPT !.modal = "totp", !.key = call[c].answer]
        BY <1>6, <3>1 DEF SecretShown
      <4> QED
        BY <4>1, <4>2, ModalIs DEF Modals
    <3>2. CASE ~(Done(c) /\ call[c].here)
      BY <1>0, <1>6, <3>2 DEF SecretShown
    <3> QED
      BY <3>1, <3>2
  <2> QED
    BY <1>0, <2>1, <2>2, OverScreen, AnswerTypes DEF auth
<1>7. CASE Switched(c)
  <2>1. c \in Pending /\ UNCHANGED <<row, auth, leaving, phone, hasty, late>>
    BY <1>7 DEF Switched, Heard
  <2>2. CASE Done(c)
    <3>1. Close(c) /\ call' = Then(c, "me", None, token)
      BY <1>7, <2>2 DEF Switched
    <3>2. Goes(c, call'[c])
      BY <1>0, <2>1, <3>1, ThenGoes
    <3>3. screen' \in Pages \cup {None} /\ (screen # None => screen' # None)
      BY <2>1, <3>1, CloseIs
    <3> QED
      BY <1>0, <2>1, <3>2, <3>3, AnswerTypes DEF auth
  <2>3. CASE ~Done(c)
    <3>1. UNCHANGED screen /\ call' = Over(c)
      BY <1>7, <2>3 DEF Switched
    <3> QED
      BY <1>0, <2>1, <3>1, OverScreen, AnswerTypes DEF auth
  <2> QED
    BY <2>2, <2>3
<1>8. CASE PasswordSet(c) \/ Disconnected(c)
  <2>1. c \in Pending /\ UNCHANGED <<row, auth, screen, leaving, phone, hasty, late>>
    BY <1>8 DEF PasswordSet, Disconnected, Heard
  <2>2. call' = Over(c) \/ \E kind \in {"me", "disconnect"} : call' = Then(c, kind, "close", token)
    BY <1>8 DEF PasswordSet, Disconnected
  <2>3. CASE call' = Over(c)
    BY <1>0, <2>1, <2>3, OverScreen, AnswerTypes DEF auth
  <2>4. ASSUME NEW kind \in {"me", "disconnect"}, call' = Then(c, kind, "close", token)
        PROVE  PagesOK'
    <3>1. Goes(c, call'[c])
      BY <1>0, <2>1, <2>4, ThenGoes
    <3> QED
      BY <1>0, <2>1, <3>1, AnswerTypes DEF auth
  <2> QED
    BY <2>2, <2>3, <2>4
<1>9. CASE Deleted(c)
  <2>1. /\ c \in Pending /\ call' = Over(c) /\ UNCHANGED <<row, auth, phone, hasty, late>>
        /\ (Close(c) \/ UNCHANGED screen) /\ leaving' = (leaving \/ Done(c))
    BY <1>9 DEF Deleted, Heard
  <2>2. screen' \in Pages \cup {None} /\ (screen # None => screen' # None)
    BY <1>0, <2>1, CloseIs
  <2>3. leaving' \in BOOLEAN
    BY <1>0, <2>1
  <2> QED
    BY <1>0, <2>1, <2>2, <2>3, OverScreen, AnswerTypes DEF auth
<1>10. CASE LinkTokenHeard(c)
  <2>1. c \in Pending
    BY <1>10 DEF LinkTokenHeard, Heard
  <2>2. CASE Done(c) /\ call[c].answer \in links
    <3>1. GoToGoogle(call[c].answer) /\ call[c].answer \in LinkTokens
      BY <1>10, <2>2 DEF LinkTokenHeard, PagesOK, AccountPagesTypeOK
    <3>2. /\ CallsOn({}) /\ \A q \in Calls : call'[q] # None => ~call'[q].here
          /\ screen' \in Pages /\ user' = None /\ loading' = FALSE /\ leaving' = FALSE
          /\ UNCHANGED <<row, token, phone, hasty, late>>
      BY <3>1, GoogleIs
    <3> QED
      BY <1>0, <2>1, <3>2, AnswerTypes
  <2>3. CASE Done(c) /\ call[c].answer \notin links
    <3>1. /\ screen' = None /\ call' = Gone /\ user' = None /\ loading' = FALSE /\ leaving' = FALSE
          /\ UNCHANGED <<row, token, phone, hasty, late>>
      BY <1>10, <2>3 DEF LinkTokenHeard
    <3> QED
      BY <1>0, <2>1, <3>1, GoneCalls, AnswerTypes
  <2>4. CASE ~Done(c)
    <3>1. call' = Over(c) /\ UNCHANGED <<row, auth, screen, leaving, phone, hasty, late>>
      BY <1>10, <2>4 DEF LinkTokenHeard
    <3> QED
      BY <1>0, <2>1, <3>1, OverScreen, AnswerTypes DEF auth
  <2> QED
    BY <2>2, <2>3, <2>4
<1>11. CASE Lose(c)
  <2>1. /\ c \in Pending /\ CallsOn({c}) /\ \A q \in Calls \ {c} : call'[q] = call[q]
        /\ \/ call'[c] = None
           \/ /\ call'[c] \in Requests
              /\ call'[c].kind = call[c].kind /\ call'[c].key = call[c].key /\ call'[c].then = call[c].then
              /\ call'[c].live = call[c].live /\ call'[c].here = call[c].here
              /\ call'[c].stage = "refused" /\ call'[c].answer = None
        /\ UNCHANGED <<row, auth, screen, leaving, phone, hasty, late>>
    BY <1>11, LoseCalls
  <2>2. call'[c] = None \/ CallFits(call[c])'
    BY <2>1, PendingCall DEF CallFits, CallOK
  <2>3. call' \in [Calls -> Requests \cup {None}] /\ CallsOK' /\ \A q \in Pending' : CallOK(call'[q])
    <3>1. \A q \in Calls \ {c} : call'[q] # None /\ call'[q].here => screen' # None
      BY <2>1, PendingCall DEF Pending
    <3>2. Exists => Exists'
      BY <2>1 DEF Exists, row
    <3> QED
      BY <2>1, <2>2, <3>1, <3>2, CallsKept
  <2> QED
    BY <2>1, <2>3 DEF PagesOK, AccountPagesTypeOK, row, auth, Exists
<1> QED
  BY <1>1, <1>2, <1>3, <1>4, <1>5, <1>6, <1>7, <1>8, <1>9, <1>10, <1>11 DEF Answer

(* A move leaves the account as it is and sends no call, but the reading of the
   account by a page that is loaded. *)
LEMMA MoveTypes ==
    ASSUME PagesOK, Move \/ Expire
    PROVE  PagesOK'
<1>0. /\ token \in BOOLEAN /\ (token => Exists) /\ user \in Users \cup {None} /\ loading \in BOOLEAN
      /\ screen \in Pages \cup {None} /\ leaving \in BOOLEAN /\ phone \in Secrets \cup {None}
  BY DEF PagesOK, AccountPagesTypeOK
<1>1. ASSUME CallsOn({}), \A q \in Calls : call'[q] # None /\ call'[q].here => screen' # None,
             UNCHANGED <<row, hasty, late>>, phone' \in Secrets \cup {None},
             token' \in BOOLEAN, token' => Exists, user' \in Users \cup {None}, loading' \in BOOLEAN,
             screen' \in Pages \cup {None}, leaving' \in BOOLEAN
      PROVE  PagesOK'
  <2>1. Exists' = Exists
    BY <1>1 DEF Exists, row
  <2>2. call' \in [Calls -> Requests \cup {None}] /\ CallsOK' /\ \A q \in Pending' : CallOK(call'[q])
    BY <1>1, <2>1, CallsKept
  <2> QED
    BY <1>1, <2>1, <2>2 DEF PagesOK, AccountPagesTypeOK, row
<1>2. \A q \in Calls : call[q] # None /\ call[q].here => screen # None
  BY PendingCall DEF Pending
<1>3. ASSUME NEW at \in Screens, Go(at), call' = Left, UNCHANGED <<row, auth, leaving, phone, hasty, late>>
      PROVE  PagesOK'
  <2>1. CallsOn({}) /\ \A q \in Calls : call'[q] # None => ~call'[q].here
    <3>1. call' = [q \in Calls |-> call'[q]]
      BY <1>3 DEF Left
    <3> QED
      BY <1>3, <3>1, LeftCall DEF CallsOn
  <2>2. screen' \in Pages
    BY <1>3, PageIs DEF Go
  <2> QED
    BY <1>0, <1>1, <1>3, <2>1, <2>2 DEF auth
<1>4. CASE Guard
  <2>1. PICK at \in {"login", "restore", "dashboard"} : Go(at)
    BY <1>4 DEF Guard
  <2> QED
    BY <1>3, <1>4, <2>1 DEF Guard, Screens, Guarded, Public
<1>5. CASE Leave
  BY <1>1, <1>0, <1>5, GoneCalls DEF Leave
<1>6. CASE SignInWithGoogle
  <2>1. GoToGoogle(None)
    BY <1>6 DEF SignInWithGoogle
  <2>2. /\ CallsOn({}) /\ \A q \in Calls : call'[q] # None => ~call'[q].here
        /\ screen' \in Pages /\ user' = None /\ loading' = FALSE /\ leaving' = FALSE
        /\ UNCHANGED <<row, token, phone, hasty, late>>
    BY <2>1, GoogleIs
  <2> QED
    BY <1>0, <1>1, <2>2
<1>7. CASE Scan
  <2>1. phone' = screen.key /\ screen.key \in Secrets /\ UNCHANGED <<row, auth, screen, leaving, call, hasty, late>>
    BY <1>7 DEF Scan
  <2> QED
    BY <1>0, <1>1, <1>2, <2>1, SameCalls DEF auth
<1>8. ASSUME screen' \in Pages, screen' # None, UNCHANGED <<row, auth, leaving, call, phone, hasty, late>>
      PROVE  PagesOK'
  <2>1. CallsOn({}) /\ \A q \in Calls : call'[q] # None /\ call'[q].here => screen' # None
    BY <1>2, <1>8, SameCalls
  <2> QED
    BY <1>0, <1>1, <1>8, <2>1 DEF auth
<1>9. CASE CloseModal
  <2>1. /\ screen # None /\ screen' = [screen EXCEPT !.modal = None, !.key = None]
        /\ UNCHANGED <<row, auth, leaving, call, phone, hasty, late>>
    BY <1>9 DEF CloseModal, Visible, At
  <2>2. screen' \in Pages /\ screen' # None
    BY <2>1, ModalIs
  <2> QED
    BY <1>8, <2>1, <2>2
<1>10. ASSUME NEW m \in Modals, OpenModal(m)
       PROVE  PagesOK'
  <2>1. /\ screen # None /\ screen' = [screen EXCEPT !.modal = m]
        /\ UNCHANGED <<row, auth, leaving, call, phone, hasty, late>>
    BY <1>10 DEF OpenModal, Settings, Visible, At
  <2>2. screen.key \in Secrets \cup LinkTokens \cup {None}
    BY <1>0, <2>1 DEF Pages
  <2>3. screen' \in Pages /\ screen' # None
    BY <2>1, <2>2, ModalIs
  <2> QED
    BY <1>8, <2>1, <2>3
<1>11. ASSUME NEW at \in Entries, Follow(at)
       PROVE  PagesOK'
  BY <1>3, <1>11 DEF Follow, Entries, Screens, Guarded, Public
<1>12. ASSUME NEW at \in Entries, NEW c \in Calls, Load(c, at)
       PROVE  PagesOK'
  <2>1. UNCHANGED <<row, token>> /\ Start(c, at, None)
    BY <1>12 DEF Load
  <2>2. at \in Screens /\ token' \in BOOLEAN
    BY <1>0, <2>1 DEF Entries, Screens, Guarded, Public
  <2>3. /\ CallsOn({c})
        /\ \A q \in Calls \ {c} : call'[q] # None => ~call'[q].here
        /\ call'[c] = None \/ /\ token' /\ call'[c] \in Requests /\ call'[c].kind = "me"
                              /\ call'[c].then = None /\ call'[c].stage = "sent" /\ call'[c].answer = None
                              /\ call'[c].here /\ call'[c].live
        /\ screen' \in Pages /\ screen' # None
        /\ user' = None /\ loading' = token' /\ leaving' = FALSE
        /\ UNCHANGED <<phone, hasty, late>>
    BY <2>1, <2>2, StartCalls
  <2>4. Exists' = Exists
    BY <2>1 DEF Exists, row
  <2>5. call'[c] = None \/ CallFits(call[c])'
    BY <2>3 DEF CallFits, CallOK
  <2>6. call' \in [Calls -> Requests \cup {None}] /\ CallsOK' /\ \A q \in Pending' : CallOK(call'[q])
    BY <2>3, <2>4, <2>5, CallsKept
  <2> QED
    BY <2>1, <2>2, <2>3, <2>4, <2>6 DEF PagesOK, AccountPagesTypeOK, row
<1>13. CASE Expire
  <2>1. CallsOn({})
    BY <1>13, SameCalls DEF Expire
  <2>2. Exists' = Exists /\ links' \subseteq LinkTokens
    BY <1>13 DEF Expire, Exists, PagesOK, AccountPagesTypeOK
  <2>3. call' \in [Calls -> Requests \cup {None}] /\ CallsOK' /\ \A q \in Pending' : CallOK(call'[q])
    BY <1>2, <1>13, <2>1, <2>2, CallsKept DEF Expire
  <2> QED
    BY <1>13, <2>2, <2>3 DEF Expire, PagesOK, AccountPagesTypeOK, auth
<1> QED
  BY <1>4, <1>5, <1>6, <1>7, <1>9, <1>10, <1>11, <1>12, <1>13 DEF Move

LEMMA PagesStep == PagesOK /\ [Next]_vars => PagesOK'
<1> SUFFICES ASSUME PagesOK, [Next]_vars PROVE PagesOK'
  OBVIOUS
<1>1. ASSUME NEW c \in Calls, Api(c)
      PROVE  PagesOK'
  <2>1. CASE GoogleCallback(c)
    BY <2>1, CallbackTypes
  <2>2. CASE ~GoogleCallback(c)
    BY <1>1, <2>2, ApiEffect, ServedTypes
  <2> QED
    BY <2>1, <2>2
<1>2. ASSUME NEW c \in Calls, Answer(c)
      PROVE  PagesOK'
  BY <1>2, AnswersKeepTypes
<1>3. ASSUME NEW c \in Calls, Do(c)
      PROVE  PagesOK'
  BY <1>3, DoEffect, SentTypes
<1>4. CASE Move \/ Expire
  BY <1>4, MoveTypes
<1>5. CASE UNCHANGED vars
  BY <1>5 DEF vars, row, auth, PagesOK, AccountPagesTypeOK, CallsOK, CallOK, Pending, Exists
<1> QED
  BY <1>1, <1>2, <1>3, <1>4, <1>5 DEF Next

(* Every variable of the pages has its type, always: there is an account
   wherever localStorage holds tokens, and a page that waits for an answer is
   shown. *)
THEOREM PagesTypeCorrect == Spec => []AccountPagesTypeOK
<1>1. Spec => []PagesOK
  BY PagesInit, PagesStep, PTL DEF Spec
<1>2. PagesOK => AccountPagesTypeOK
  BY DEF PagesOK
<1> QED
  BY <1>1, <1>2, PTL

-----------------------------------------------------------------------------
(* What the steps do to the calls and to what is known of the user. *)

LEMMA AnswerEffect ==
    ASSUME PagesOK, NEW c \in Calls, Answer(c)
    PROVE  /\ c \in Pending /\ UNCHANGED <<row, phone, hasty>>
           /\ \/ user' \in {user, None}
              \/ call[c].kind = "me" /\ user' = call[c].answer
              \/ call[c].kind = "login" /\ call[c].stage = "done" /\ user' = call[c].answer /\ token'
           /\ \/ CallsOn({})
              \/ Lose(c)
              \/ /\ Goes(c, call'[c]) /\ (call'[c].signed => token')
                 /\ call'[c].kind = "disconnect" => call[c].kind = "set-password" /\ call[c].stage = "done"
           /\ SignedOut(c) \/ ((token => token') /\ (late => late'))
<1>0. token \in BOOLEAN
  BY DEF PagesOK, AccountPagesTypeOK
<1>1. CASE Stepped(c)
  BY <1>1, OverCalls DEF Stepped, Heard, auth
<1>2. CASE CodeUsed(c)
  <2>1. /\ c \in Pending /\ UNCHANGED <<row, user, phone, hasty, late>>
        /\ token' = (token \/ (Done(c) /\ call[c].then \in {"me", "restored"}))
    BY <1>2 DEF CodeUsed, Heard
  <2>2. CASE Done(c) /\ call[c].then = "me"
    <3>1. call' = Then(c, "me", "dashboard", TRUE)
      BY <1>2, <2>2 DEF CodeUsed
    <3>2. Goes(c, call'[c]) /\ call'[c].kind = "me"
      BY <2>1, <3>1, ThenGoes
    <3> QED
      BY <2>1, <2>2, <3>2
  <2>3. CASE ~(Done(c) /\ call[c].then = "me")
    <3>1. call' = Over(c)
      BY <1>2, <2>3 DEF CodeUsed
    <3> QED
      BY <2>1, <3>1, OverCalls
  <2> QED
    BY <2>2, <2>3
<1>3. CASE LoggedIn(c)
  <2>1. /\ c \in Pending /\ call[c].kind = "login" /\ UNCHANGED <<row, phone, hasty, late>>
    BY <1>3 DEF LoggedIn, Heard
  <2>2. CASE Done(c)
    <3>1. token' = TRUE /\ user' = call[c].answer /\ Push(c, "dashboard") /\ "dashboard" \in Screens
      BY <1>3, <2>2 DEF LoggedIn, Screens, Guarded
    <3> QED
      BY <2>1, <2>2, <3>1, PushIs DEF Done
  <2>3. CASE ~Done(c)
    BY <1>3, <2>1, <2>3, OverCalls DEF LoggedIn
  <2> QED
    BY <2>2, <2>3
<1>4. CASE UserRead(c)
  <2>1. /\ c \in Pending /\ call[c].kind = "me" /\ user' = call[c].answer
        /\ UNCHANGED <<row, token, phone, hasty, late>>
    BY <1>4 DEF UserRead, Heard
  <2>2. Push(c, "dashboard") \/ call' = Over(c)
    BY <1>4 DEF UserRead
  <2>3. "dashboard" \in Screens
    BY DEF Screens, Guarded
  <2> QED
    BY <2>1, <2>2, <2>3, PushIs, OverCalls
<1>5. CASE SignedOut(c)
  <2>1. /\ c \in Pending /\ Push(c, "login") /\ user' = None /\ UNCHANGED <<row, phone, hasty>>
    BY <1>5 DEF SignedOut, Heard
  <2>2. "login" \in Screens
    BY DEF Screens, Public
  <2>3. CallsOn({})
    BY <2>1, <2>2, PushIs
  <2> QED
    BY <1>5, <2>1, <2>3
<1>6. CASE SecretShown(c)
  BY <1>6, OverCalls DEF SecretShown, Heard, auth
<1>7. CASE Switched(c)
  <2>1. c \in Pending /\ UNCHANGED <<row, auth, phone, hasty, late>>
    BY <1>7 DEF Switched, Heard
  <2>2. CASE Done(c)
    <3>1. call' = Then(c, "me", None, token)
      BY <1>7, <2>2 DEF Switched
    <3>2. Goes(c, call'[c]) /\ call'[c].kind = "me" /\ call'[c].signed = token
      BY <1>0, <2>1, <3>1, ThenGoes
    <3> QED
      BY <2>1, <3>2 DEF auth
  <2>3. CASE ~Done(c)
    BY <1>7, <2>1, <2>3, OverCalls DEF Switched, auth
  <2> QED
    BY <2>2, <2>3
<1>8. CASE PasswordSet(c)
  <2>1. c \in Pending /\ call[c].kind = "set-password" /\ UNCHANGED <<row, auth, phone, hasty, late>>
    BY <1>8 DEF PasswordSet, Heard
  <2>2. CASE Done(c) /\ call[c].then = "disconnect"
    <3>1. call' = Then(c, "disconnect", "close", token)
      BY <1>8, <2>2 DEF PasswordSet
    <3>2. Goes(c, call'[c]) /\ call'[c].signed = token
      BY <1>0, <2>1, <3>1, ThenGoes
    <3> QED
      BY <2>1, <2>2, <3>2 DEF auth, Done
  <2>3. CASE ~(Done(c) /\ call[c].then = "disconnect")
    BY <1>8, <2>1, <2>3, OverCalls DEF PasswordSet, auth
  <2> QED
    BY <2>2, <2>3
<1>9. CASE Disconnected(c)
  <2>1. c \in Pending /\ UNCHANGED <<row, auth, phone, hasty, late>>
    BY <1>9 DEF Disconnected, Heard
  <2>2. CASE Done(c)
    <3>1. call' = Then(c, "me", "close", token)
      BY <1>9, <2>2 DEF Disconnected
    <3>2. Goes(c, call'[c]) /\ call'[c].kind = "me" /\ call'[c].signed = token
      BY <1>0, <2>1, <3>1, ThenGoes
    <3> QED
      BY <2>1, <3>2 DEF auth
  <2>3. CASE ~Done(c)
    BY <1>9, <2>1, <2>3, OverCalls DEF Disconnected, auth
  <2> QED
    BY <2>2, <2>3
<1>10. CASE Deleted(c)
  BY <1>10, OverCalls DEF Deleted, Heard, auth
<1>11. CASE LinkTokenHeard(c)
  <2>1. c \in Pending
    BY <1>11 DEF LinkTokenHeard, Heard
  <2>2. CASE call' = Gone /\ user' = None /\ UNCHANGED <<row, token, phone, hasty, late>>
    BY <2>1, <2>2, GoneCalls
  <2>3. CASE call' = Over(c) /\ UNCHANGED <<row, auth, phone, hasty, late>>
    BY <2>1, <2>3, OverCalls DEF auth
  <2> QED
    BY <1>11, <2>2, <2>3 DEF LinkTokenHeard, GoToGoogle
<1>12. CASE Lose(c)
  BY <1>12, LoseCalls DEF auth
<1> QED
  BY <1>1, <1>2, <1>3, <1>4, <1>5, <1>6, <1>7, <1>8, <1>9, <1>10, <1>11, <1>12 DEF Answer

LEMMA MoveEffect ==
    ASSUME PagesOK, Move \/ Expire
    PROVE  /\ UNCHANGED <<account, hasty, late>> /\ user' \in {user, None}
           /\ \/ CallsOn({}) /\ UNCHANGED token
              \/ CallsOn({}) /\ user' = None /\ \A q \in Calls : call'[q] # None => call'[q].kind # "me"
              \/ \E c \in Calls, at \in Entries : Load(c, at)
<1> USE DEF row, auth
<1>1. ASSUME call' = Left
      PROVE  CallsOn({})
  <2>1. call' = [q \in Calls |-> call'[q]]
    BY <1>1 DEF Left
  <2> QED
    BY <1>1, <2>1, LeftCall DEF CallsOn
<1>2. CASE Guard
  BY <1>1, <1>2 DEF Guard
<1>3. CASE Leave
  BY <1>3, GoneCalls DEF Leave
<1>4. CASE SignInWithGoogle
  BY <1>4, GoneCalls DEF SignInWithGoogle, GoToGoogle
<1>5. CASE Scan \/ CloseModal \/ (\E m \in Modals : OpenModal(m)) \/ Expire
  <2>1. UNCHANGED <<account, token, user, call, hasty, late>>
    BY <1>5 DEF Scan, CloseModal, OpenModal, Expire
  <2> QED
    BY <2>1, SameCalls
<1>6. ASSUME NEW at \in Entries, Follow(at)
      PROVE  /\ UNCHANGED <<account, hasty, late>> /\ user' \in {user, None}
             /\ CallsOn({}) /\ UNCHANGED token
  BY <1>1, <1>6 DEF Follow
<1>7. ASSUME NEW at \in Entries, NEW c \in Calls, Load(c, at)
      PROVE  /\ UNCHANGED <<account, hasty, late>> /\ user' \in {user, None}
  BY <1>7 DEF Load, Start
<1> QED
  BY <1>2, <1>3, <1>4, <1>5, <1>6, <1>7 DEF Move

LEMMA LoadIs ==
    ASSUME PagesOK, NEW c \in Calls, NEW at \in Entries, Load(c, at)
    PROVE  /\ CallsOn({c}) /\ UNCHANGED <<row, token, phone, hasty, late>> /\ user' = None
           /\ \A q \in Calls \ {c} : call'[q] # None =>
                 ~call'[q].here /\ call'[q].kind \notin {"me", "login", "logout"}
           /\ \/ call'[c] = None
              \/ token' /\ call'[c].kind = "me" /\ call'[c].stage = "sent" /\ call'[c].answer = None
           /\ screen' # None /\ screen'.at = at /\ screen'.modal = None /\ screen'.key = None
<1>1. at \in Screens /\ token' \in BOOLEAN
  BY DEF Load, PagesOK, AccountPagesTypeOK, Entries, Screens, Guarded, Public
<1>2. Start(c, at, None) /\ UNCHANGED <<row, token>>
  BY DEF Load
<1> QED
  BY <1>1, <1>2, StartCalls

-----------------------------------------------------------------------------
(* Who is shown has tokens: a reading of the account that was granted, or may
   be, was sent with tokens that are still there, or late says that they were
   given up meanwhile. *)

Reading(r) == r.kind = "me" /\ (r.signed \/ r.answer # None)
ShownOK == ShownHasTokens /\ \A c \in Pending : Reading(call[c]) => token \/ late

LEMMA ShownKept ==
    ASSUME PagesOK, ShownOK, NEW S \in SUBSET Calls, CallsOn(S), token \/ late => token' \/ late',
           \A q \in S : call'[q] = None \/ ~Reading(call'[q]) \/ token' \/ late',
           user' \in {user, None} \/ token' \/ late'
    PROVE  ShownOK'
<1>1. ASSUME NEW q \in Calls, call'[q] # None, Reading(call'[q])
      PROVE  token' \/ late'
  <2>1. CASE q \in S
    BY <1>1, <2>1
  <2>2. CASE q \notin S
    <3>1. q \in Pending /\ Onward(call'[q], call[q])
      BY <1>1, <2>2 DEF CallsOn
    <3>2. Reading(call[q])
      BY <1>1, <3>1 DEF Onward, Reading
    <3> QED
      BY <3>1, <3>2 DEF ShownOK
  <2> QED
    BY <2>1, <2>2
<1>2. user' # None => token' \/ late'
  BY DEF ShownOK, ShownHasTokens
<1> QED
  BY <1>1, <1>2 DEF ShownOK, ShownHasTokens, Pending

LEMMA ShownStep == PagesOK /\ ShownOK /\ [Next]_vars => ShownOK'
<1> SUFFICES ASSUME PagesOK, ShownOK, [Next]_vars PROVE ShownOK'
  OBVIOUS
<1>1. ASSUME NEW c \in Calls, NEW ok \in BOOLEAN, NEW answer \in Answers, Served(c, ok, answer)
      PROVE  ShownOK'
  <2>1. /\ c \in Pending /\ CallsOn({c}) /\ UNCHANGED <<token, user, late>>
        /\ \/ call'[c] = None
           \/ call'[c].kind = call[c].kind /\ call'[c].answer = answer /\ ~call'[c].signed
    BY <1>1, ReplyCalls DEF Served, Answers, auth
  <2>2. call[c].kind = "me" /\ answer # None => token \/ late
    BY <1>1, <2>1 DEF Served, ShownOK, Reading
  <2>3. call'[c] = None \/ ~Reading(call'[c]) \/ token' \/ late'
    BY <2>1, <2>2 DEF Reading
  <2> QED
    BY <2>1, <2>3, ShownKept
<1>2. ASSUME NEW c \in Calls, GoogleCallback(c)
      PROVE  ShownOK'
  <2>1. PICK at \in {"callback", "failed"}, then \in {"dashboard", None} : Start(c, at, then)
    BY <1>2, CallbackTypes
  <2>2. at \in Screens /\ (token => token') /\ token' \in BOOLEAN
    BY <1>2, CallbackTypes DEF Screens, PagesOK, AccountPagesTypeOK
  <2>3. CallsOn({c}) /\ (call'[c] = None \/ token') /\ user' = None /\ late' = late
    BY <2>1, <2>2, StartCalls
  <2> QED
    BY <2>2, <2>3, ShownKept
<1>3. ASSUME NEW c \in Calls, Do(c)
      PROVE  ShownOK'
  <2>1. PICK kind, key, then : Sent(c, kind, key, then)
    BY <1>3, DoEffect
  <2>2. CallsOn({c}) /\ call'[c].kind # "me" /\ UNCHANGED <<token, user, late>>
    BY <2>1, SentCalls, SentRest
  <2> QED
    BY <2>2, ShownKept DEF Reading
<1>4. ASSUME NEW c \in Calls, Answer(c)
      PROVE  ShownOK'
  <2>1. CASE SignedOut(c)
    <3>1. /\ c \in Pending /\ Push(c, "login") /\ user' = None
          /\ late' = (late \/ \E q \in Pending : call[q].kind = "me")
      BY <2>1 DEF SignedOut, Heard
    <3>2. CallsOn({}) /\ "login" \in Screens
      BY <3>1, PushIs DEF Screens, Public
    <3>3. ASSUME NEW q \in Calls, call'[q] # None, Reading(call'[q])
          PROVE  late'
      BY <3>1, <3>2, <3>3 DEF CallsOn, Onward, Reading
    <3> QED
      BY <3>1, <3>3 DEF ShownOK, ShownHasTokens, Pending
  <2>2. CASE ~SignedOut(c)
    <3>1. c \in Pending /\ (token \/ late => token' \/ late')
      BY <1>4, <2>2, AnswerEffect
    <3>2. user' \in {user, None} \/ token' \/ late'
      <4>1. CASE call[c].kind = "me" /\ user' = call[c].answer
        BY <3>1, <4>1 DEF ShownOK, Reading
      <4> QED
        BY <1>4, <4>1, AnswerEffect
    <3>3. CASE CallsOn({})
      BY <3>1, <3>2, <3>3, ShownKept
    <3>4. CASE Lose(c)
      <4>1. /\ CallsOn({c}) /\ UNCHANGED <<token, user, late>>
            /\ call'[c] = None \/ /\ call'[c].kind = call[c].kind /\ call'[c].signed = call[c].signed
                                  /\ call'[c].answer = None
        BY <3>4, LoseCalls DEF auth
      <4>2. call'[c] = None \/ ~Reading(call'[c]) \/ token' \/ late'
        BY <3>1, <4>1 DEF Reading, ShownOK
      <4> QED
        BY <4>1, <4>2, ShownKept
    <3>5. CASE Goes(c, call'[c]) /\ (call'[c].signed => token')
      <4>1. CallsOn({c}) /\ (~Reading(call'[c]) \/ token')
        BY <3>5 DEF Goes, Reading
      <4> QED
        BY <3>1, <3>2, <4>1, ShownKept
    <3> QED
      BY <1>4, <3>3, <3>4, <3>5, AnswerEffect
  <2> QED
    BY <2>1, <2>2
<1>5. CASE Move \/ Expire
  <2>1. late' = late /\ user' \in {user, None}
    BY <1>5, MoveEffect
  <2>2. CASE CallsOn({}) /\ UNCHANGED token
    BY <2>1, <2>2, ShownKept
  <2>3. CASE user' = None /\ \A q \in Calls : call'[q] # None => call'[q].kind # "me"
    BY <2>3 DEF ShownOK, ShownHasTokens, Reading, Pending
  <2>4. ASSUME NEW c \in Calls, NEW at \in Entries, Load(c, at)
        PROVE  ShownOK'
    <3>1. CallsOn({c}) /\ UNCHANGED <<token, late>> /\ user' = None /\ (call'[c] = None \/ token')
      BY <2>4, LoadIs
    <3> QED
      BY <3>1, ShownKept
  <2> QED
    BY <1>5, <2>2, <2>3, <2>4, MoveEffect
<1>6. CASE UNCHANGED vars
  BY <1>6 DEF vars, row, auth, ShownOK, ShownHasTokens, Reading, Pending
<1> QED
  BY <1>1, <1>2, <1>3, <1>4, <1>5, <1>6, ApiEffect DEF Next

(* A tab that shows a user has tokens, unless a reading of the account was on
   its way when the user signed out: for AuthProvider and the pages' scripts,
   in every order in which calls are answered. *)
THEOREM ShownUsersHaveTokens == Spec => []ShownHasTokens
<1>1. Init => ShownOK
  BY DEF Init, ShownOK, ShownHasTokens, Pending
<1>2. Spec => [](PagesOK /\ ShownOK)
  BY <1>1, PagesInit, PagesStep, ShownStep, PTL DEF Spec
<1>3. ShownOK => ShownHasTokens
  BY DEF ShownOK
<1> QED
  BY <1>2, <1>3, PTL

-----------------------------------------------------------------------------
(* The last way in is never taken: whoever knows of a password - the user that
   AuthProvider holds, an answer, a call that disconnects Google because of it -
   is right, for no handler takes a password away. *)

HasPassword == Exists /\ account.password
KnowsPassword(u) == u \in Users /\ u.password
Tells(r) ==
    \/ r.kind \in {"me", "login"} /\ KnowsPassword(r.answer)
    \/ r.kind = "set-password" /\ r.stage = "done"
    \/ r.kind = "disconnect"

WaysOK ==
    /\ WayBackIn
    /\ KnowsPassword(user) => HasPassword
    /\ \A c \in Pending : Tells(call[c]) => HasPassword

LEMMA WaysKept ==
    ASSUME PagesOK, WaysOK, WayBackIn', NEW S \in SUBSET Calls, CallsOn(S), HasPassword => HasPassword',
           \A q \in S : call'[q] = None \/ ~Tells(call'[q]) \/ HasPassword',
           user' \in {user, None} \/ (KnowsPassword(user') => HasPassword')
    PROVE  WaysOK'
<1>1. ASSUME NEW q \in Calls, call'[q] # None, Tells(call'[q])
      PROVE  HasPassword'
  <2>1. CASE q \in S
    BY <1>1, <2>1
  <2>2. CASE q \notin S
    <3>1. q \in Pending /\ Onward(call'[q], call[q])
      BY <1>1, <2>2 DEF CallsOn
    <3>2. Tells(call[q])
      BY <1>1, <3>1 DEF Onward, Tells
    <3> QED
      BY <3>1, <3>2 DEF WaysOK
  <2> QED
    BY <2>1, <2>2
<1>2. KnowsPassword(user') => HasPassword'
  BY AccountPagesAssumption DEF WaysOK, KnowsPassword
<1> QED
  BY <1>1, <1>2 DEF WaysOK, Pending, KnowsPassword

(* Where the account stays as it is, so do the ways in. *)
LEMMA SameAccount ==
    ASSUME UNCHANGED account
    PROVE  (WayBackIn => WayBackIn') /\ HasPassword' = HasPassword
BY DEF WayBackIn, HasPassword, Exists

LEMMA WaysStep == PagesOK /\ WaysOK /\ [Next]_vars => WaysOK'
<1> SUFFICES ASSUME PagesOK, WaysOK, [Next]_vars PROVE WaysOK'
  OBVIOUS
<1>0. WayBackIn
  BY DEF WaysOK
<1>1. ASSUME NEW c \in Calls, NEW ok \in BOOLEAN, NEW answer \in Answers, Served(c, ok, answer)
      PROVE  WaysOK'
  <2>1. /\ c \in Pending /\ CallsOn({c}) /\ UNCHANGED user
        /\ \/ call'[c] = None
           \/ /\ call'[c].kind = call[c].kind /\ call'[c].answer = answer
              /\ call'[c].stage = IF ok THEN "done" ELSE "refused"
    BY <1>1, ReplyCalls DEF Served, Answers, auth
  <2>2. Exists => Exists' /\ WaysMove(c)
    BY <1>1 DEF Served, Exists
  <2>3. HasPassword => HasPassword'
    BY <2>2 DEF HasPassword, WaysMove
  <2>4. call[c].kind = "disconnect" => HasPassword
    BY <2>1 DEF WaysOK, Tells
  <2>5. WayBackIn'
    <3>1. CASE Exists
      BY <1>0, <2>2, <2>3, <2>4, <3>1 DEF WayBackIn, WaysMove, HasPassword
    <3>2. CASE ~Exists
      BY <1>1, <3>2 DEF Served, WayBackIn, Exists
    <3> QED
      BY <3>1, <3>2
  <2>6. call'[c] = None \/ ~Tells(call'[c]) \/ HasPassword'
    <3> SUFFICES ASSUME call'[c] # None, Tells(call'[c]) PROVE HasPassword'
      OBVIOUS
    <3>1. CASE call[c].kind = "me"
      <4>1. answer \in Users /\ answer.password
        BY <2>1, <3>1 DEF Tells, KnowsPassword
      <4>2. answer.password = FALSE
        BY <1>1, <3>1, <4>1, AccountPagesAssumption DEF Served
      <4> QED
        BY <4>1, <4>2
    <3>2. CASE call[c].kind = "login"
      <4>1. answer \in Users /\ answer.password
        BY <2>1, <3>2 DEF Tells, KnowsPassword
      <4>2. Exists /\ account' = account /\ answer.password = account.password
        BY <1>1, <3>2, <4>1 DEF Served
      <4> QED
        BY <4>1, <4>2 DEF HasPassword, Exists
    <3>3. CASE call[c].kind = "set-password"
      BY <1>1, <2>1, <3>3 DEF Served, Tells, HasPassword, Exists
    <3>4. CASE call[c].kind = "disconnect"
      BY <2>3, <2>4, <3>4
    <3> QED
      BY <2>1, <3>1, <3>2, <3>3, <3>4 DEF Tells
  <2> QED
    BY <2>1, <2>3, <2>5, <2>6, WaysKept
<1>2. ASSUME NEW c \in Calls, GoogleCallback(c)
      PROVE  WaysOK'
  <2>1. PICK at \in {"callback", "failed"}, then \in {"dashboard", None} : Start(c, at, then)
    BY <1>2, CallbackTypes
  <2>2. at \in Screens /\ token' \in BOOLEAN
    BY <1>2, CallbackTypes DEF Screens, PagesOK, AccountPagesTypeOK
  <2>3. CallsOn({c}) /\ user' = None
    BY <2>1, <2>2, StartCalls
  <2>4. \/ call'[c] = None
        \/ /\ token' /\ call'[c] \in Requests /\ call'[c].kind = "me"
           /\ call'[c].then = then /\ call'[c].stage = "sent" /\ call'[c].answer = None
           /\ call'[c].here /\ call'[c].live
    BY <2>1, <2>2, StartCalls
  <2>5. WayBackIn' /\ (HasPassword => HasPassword')
    BY <1>0, <1>2, CallbackTypes DEF WayBackIn, HasPassword, Exists, SameFactor
  <2>6. call'[c] = None \/ ~Tells(call'[c])
    BY <2>4, AccountPagesAssumption DEF Tells, KnowsPassword
  <2> QED
    BY <2>3, <2>5, <2>6, WaysKept
<1>3. ASSUME NEW c \in Calls, Do(c)
      PROVE  WaysOK'
  <2>1. PICK kind, key, then : Sent(c, kind, key, then)
    BY <1>3, DoEffect
  <2>2. /\ CallsOn({c}) /\ call'[c].kind = kind /\ call'[c].stage = "sent" /\ call'[c].answer = None
        /\ UNCHANGED <<account, user>>
    BY <2>1, SentCalls, SentRest
  <2>3. kind = "disconnect" => KnowsPassword(user)
    BY <2>1 DEF Sent, KnowsPassword, PagesOK, AccountPagesTypeOK
  <2>4. ~Tells(call'[c]) \/ HasPassword
    BY <2>2, <2>3, AccountPagesAssumption DEF Tells, KnowsPassword, WaysOK
  <2> QED
    BY <1>0, <2>2, <2>4, SameAccount, WaysKept
<1>4. ASSUME NEW c \in Calls, Answer(c)
      PROVE  WaysOK'
  <2>1. c \in Pending /\ UNCHANGED account
    BY <1>4, AnswerEffect DEF row
  <2>2. WayBackIn' /\ HasPassword' = HasPassword
    BY <1>0, <2>1, SameAccount
  <2>3. user' \in {user, None} \/ (KnowsPassword(user') => HasPassword')
    BY <1>4, <2>1, <2>2, AnswerEffect DEF WaysOK, Tells
  <2>4. CASE CallsOn({})
    BY <2>2, <2>3, <2>4, WaysKept
  <2>5. CASE Lose(c)
    <3>1. /\ CallsOn({c})
          /\ call'[c] = None \/ /\ call'[c].kind = call[c].kind /\ call'[c].stage = "refused"
                                /\ call'[c].answer = None
      BY <2>5, LoseCalls
    <3>2. call'[c] = None \/ ~Tells(call'[c]) \/ HasPassword'
      BY <2>1, <2>2, <3>1, AccountPagesAssumption DEF WaysOK, Tells, KnowsPassword
    <3> QED
      BY <2>2, <2>3, <3>1, <3>2, WaysKept
  <2>6. CASE /\ Goes(c, call'[c])
             /\ call'[c].kind = "disconnect" => call[c].kind = "set-password" /\ call[c].stage = "done"
    <3>1. CallsOn({c}) /\ call'[c].answer = None /\ call'[c].stage = "sent"
      BY <2>6 DEF Goes
    <3>2. ~Tells(call'[c]) \/ HasPassword'
      BY <2>1, <2>2, <2>6, <3>1, AccountPagesAssumption DEF WaysOK, Tells, KnowsPassword
    <3> QED
      BY <2>2, <2>3, <3>1, <3>2, WaysKept
  <2> QED
    BY <1>4, <2>4, <2>5, <2>6, AnswerEffect
<1>5. CASE Move \/ Expire
  <2>1. WayBackIn' /\ HasPassword' = HasPassword /\ user' \in {user, None}
    BY <1>0, <1>5, MoveEffect, SameAccount
  <2>2. CASE CallsOn({})
    BY <2>1, <2>2, WaysKept
  <2>3. ASSUME NEW c \in Calls, NEW at \in Entries, Load(c, at)
        PROVE  WaysOK'
    <3>1. /\ CallsOn({c})
          /\ call'[c] = None \/ (call'[c].kind = "me" /\ call'[c].stage = "sent" /\ call'[c].answer = None)
      BY <2>3, LoadIs
    <3>2. call'[c] = None \/ ~Tells(call'[c])
      BY <3>1, AccountPagesAssumption DEF Tells, KnowsPassword
    <3> QED
      BY <2>1, <3>1, <3>2, WaysKept
  <2> QED
    BY <1>5, <2>2, <2>3, MoveEffect
<1>6. CASE UNCHANGED vars
  BY <1>6 DEF vars, row, auth, WaysOK, WayBackIn, HasPassword, Exists, KnowsPassword, Tells, Pending
<1> QED
  BY <1>1, <1>2, <1>3, <1>4, <1>5, <1>6, ApiEffect DEF Next

(* An account always has a password or Google to sign in with, although
   disconnectGoogle does not look: the page sets a password first wherever it
   knows of none, and what it knows of a password stays true while calls of
   other pages are under way, lost and answered in any order. *)
THEOREM AWayInIsLeft == Spec => []WayBackIn
<1>1. Init => WaysOK
  BY AccountPagesAssumption, AccountIs
     DEF Init, WaysOK, WayBackIn, KnowsPassword, Pending, Exists
<1>2. Spec => [](PagesOK /\ WaysOK)
  BY <1>1, PagesInit, PagesStep, WaysStep, PTL DEF Spec
<1>3. WaysOK => WayBackIn
  BY DEF WaysOK
<1> QED
  BY <1>2, <1>3, PTL

-----------------------------------------------------------------------------
(* The pages.  A secret is on the page only in its modal, and a page at Google
   waits for no answer. *)

Showing == screen # None /\ screen.at = "security" /\ screen.key \in Secrets

ScreenOK ==
    /\ screen # None /\ screen.at = "google" => \A q \in Pending : ~call[q].here
    /\ screen # None /\ screen.at # "google" /\ screen.modal = None => screen.key = None

(* A secret that is shown was shown before, or is the answer to a call. *)
Shows ==
    Showing' => \/ Showing /\ screen'.key = screen.key
                \/ \E c \in Pending : /\ call[c].kind = "generate" /\ call[c].stage = "done"
                                      /\ screen'.key = call[c].answer /\ call'[c] = None

(* The page stays as it is, shows another one, or shows no secret any more. *)
LEMMA ScreenKept ==
    ASSUME PagesOK, ScreenOK,
           \/ UNCHANGED screen /\ \A q \in Calls : call'[q] # None /\ call'[q].here => q \in Pending /\ call[q].here
           \/ screen' = None
           \/ screen' # None /\ screen'.at # "google" /\ (screen'.key = None \/ (screen'.at # "security" /\ screen'.modal # None))
           \/ screen' # None /\ screen'.at = "google" /\ \A q \in Calls : call'[q] # None => ~call'[q].here
    PROVE  ScreenOK' /\ Shows
<1> USE AccountPagesAssumption DEF ScreenOK, Shows, Showing, Pending
<1>1. CASE UNCHANGED screen /\ \A q \in Calls : call'[q] # None /\ call'[q].here => q \in Pending /\ call[q].here
  BY <1>1
<1>2. CASE screen' = None
  BY <1>2
<1>3. CASE screen' # None /\ screen'.at # "google" /\ (screen'.key = None \/ (screen'.at # "security" /\ screen'.modal # None))
  BY <1>3
<1>4. CASE screen' # None /\ screen'.at = "google" /\ \A q \in Calls : call'[q] # None => ~call'[q].here
  BY <1>4
<1> QED
  BY <1>1, <1>2, <1>3, <1>4

LEMMA StepScreen ==
    ASSUME PagesOK, ScreenOK, NEW c \in Pending, NEW at, call[c].here => at \in Stops, Step(c, at),
           \A q \in Calls : call'[q] # None /\ call'[q].here => q \in Pending /\ call[q].here
    PROVE  ScreenOK' /\ Shows
<1>1. CASE UNCHANGED screen
  BY <1>1, ScreenKept
<1>2. CASE /\ call[c].here /\ screen' # None
           /\ screen'.at \in Stops /\ screen'.modal = screen.modal /\ screen'.key = screen.key
  <2>1. screen # None /\ screen.at # "google" /\ (screen.modal = None => screen.key = None)
    BY <1>2, PendingCall DEF ScreenOK
  <2>2. screen'.at # "google" /\ screen'.at # "security"
    BY <1>2 DEF Stops
  <2> QED
    BY <1>2, <2>1, <2>2, ScreenKept
<1> QED
  BY <1>1, <1>2, StepIs

LEMMA CloseScreen ==
    ASSUME PagesOK, ScreenOK, NEW c \in Pending, Close(c),
           \A q \in Calls : call'[q] # None /\ call'[q].here => q \in Pending /\ call[q].here
    PROVE  ScreenOK' /\ Shows
<1>1. CASE UNCHANGED screen
  BY <1>1, ScreenKept
<1>2. CASE call[c].here
  <2>1. screen # None /\ screen.at # "google" /\ screen' = [screen EXCEPT !.modal = None, !.key = None]
    BY <1>2, PendingCall DEF ScreenOK, Close
  <2>2. screen' # None /\ screen'.at # "google" /\ screen'.key = None
    BY <2>1, ModalIs
  <2> QED
    BY <2>1, <2>2, ScreenKept
<1>3. CASE ~call[c].here
  BY <1>1, <1>3 DEF Close
<1> QED
  BY <1>2, <1>3

(* Answers make no call that is here where there was none. *)
LEMMA OldHere ==
    ASSUME PagesOK, NEW c \in Calls, CallsOn({}) \/ Lose(c) \/ (c \in Pending /\ Goes(c, call'[c]))
    PROVE  \A q \in Calls : call'[q] # None /\ call'[q].here => q \in Pending /\ call[q].here
<1>1. CASE CallsOn({})
  BY <1>1 DEF CallsOn, Onward
<1>2. CASE Lose(c)
  BY <1>2, LoseCalls DEF Pending
<1>3. CASE c \in Pending /\ Goes(c, call'[c])
  BY <1>3 DEF Goes, Pending
<1> QED
  BY <1>1, <1>2, <1>3

LEMMA AnswerScreen ==
    ASSUME PagesOK, ScreenOK, NEW c \in Calls, Answer(c)
    PROVE  ScreenOK' /\ Shows
<1> USE DEF Screens, Guarded, Public, Stops
<1>1. c \in Pending /\ \A q \in Calls : call'[q] # None /\ call'[q].here => q \in Pending /\ call[q].here
  BY AnswerEffect, OldHere
<1>2. CASE UNCHANGED screen
  BY <1>1, <1>2, ScreenKept
<1>3. CASE Close(c)
  BY <1>1, <1>3, CloseScreen
<1>4. ASSUME NEW at \in Stops, Push(c, at)
      PROVE  ScreenOK' /\ Shows
  <2>1. screen' # None /\ screen'.at = at /\ screen'.key = None
    BY <1>4, PushIs
  <2> QED
    BY <1>4, <2>1, ScreenKept
<1>5. CASE Stepped(c)
  <2>1. CASE Done(c) /\ call[c].then # None
    <3>1. Step(c, call[c].then) /\ call[c].kind \in {"register", "send"}
      BY <1>5, <2>1 DEF Stepped, Heard
    <3>2. call[c].then \in Stops
      BY <1>1, <2>1, <3>1, PendingCall DEF CallOK
    <3> QED
      BY <1>1, <3>1, <3>2, StepScreen
  <2> QED
    BY <1>2, <1>5, <2>1 DEF Stepped
<1>6. CASE CodeUsed(c)
  <2>1. CASE Done(c) /\ call[c].then # "me"
    <3>1. Step(c, call[c].then) /\ call[c].kind = "use"
      BY <1>6, <2>1 DEF CodeUsed, Heard
    <3>2. call[c].here => call[c].then \in Stops
      BY <1>1, <2>1, <3>1, PendingCall DEF CallOK
    <3> QED
      BY <1>1, <3>1, <3>2, StepScreen
  <2> QED
    BY <1>2, <1>6, <2>1 DEF CodeUsed
<1>7. CASE LoggedIn(c)
  <2>1. Push(c, "dashboard") \/ Step(c, "second") \/ UNCHANGED screen
    BY <1>7 DEF LoggedIn
  <2>2. CASE Push(c, "dashboard")
    BY <1>4, <2>2
  <2>3. CASE Step(c, "second")
    <3>1. "second" \in Stops
      OBVIOUS
    <3> QED
      BY <1>1, <2>3, <3>1, StepScreen
  <2> QED
    BY <1>2, <2>1, <2>2, <2>3
<1>8. CASE UserRead(c)
  <2>1. Push(c, "dashboard") \/ Close(c) \/ UNCHANGED screen
    BY <1>8 DEF UserRead
  <2>2. CASE Push(c, "dashboard")
    BY <1>4, <2>2
  <2> QED
    BY <1>2, <1>3, <2>1, <2>2
<1>9. CASE SignedOut(c)
  <2>1. Push(c, "login") /\ "login" \in Stops
    BY <1>9 DEF SignedOut
  <2> QED
    BY <1>4, <2>1
<1>10. CASE SecretShown(c)
  <2>1. call[c].kind = "generate" /\ call' = Over(c)
    BY <1>10 DEF SecretShown, Heard
  <2>2. CASE Done(c) /\ call[c].here
    <3>1. /\ call[c].answer \in Secrets /\ screen # None /\ screen.at # "google"
          /\ call[c].stage = "done" /\ call'[c] = None
      BY <1>1, <2>1, <2>2, PendingCall, OverCalls DEF Done, CallOK, ScreenOK
    <3>2. screen' = [screen EXCEPT !.modal = "totp", !.key = call[c].answer]
      BY <1>10, <2>2 DEF SecretShown
    <3>3. screen' # None /\ screen'.at = screen.at /\ screen'.modal = "totp" /\ screen'.key = call[c].answer
      BY <3>1, <3>2, ModalIs DEF Modals
    <3>4. "totp" # None
      BY AccountPagesAssumption DEF Modals
    <3>5. ScreenOK'
      BY <3>1, <3>3, <3>4 DEF ScreenOK
    <3> QED
      BY <1>1, <2>1, <3>1, <3>3, <3>5 DEF Shows
  <2>3. CASE ~(Done(c) /\ call[c].here)
    BY <1>2, <1>10, <2>3 DEF SecretShown
  <2> QED
    BY <2>2, <2>3
<1>11. CASE Switched(c) \/ PasswordSet(c) \/ Disconnected(c) \/ Deleted(c) \/ Lose(c)
  <2>1. Close(c) \/ UNCHANGED screen
    BY <1>11 DEF Switched, PasswordSet, Disconnected, Deleted, Lose
  <2> QED
    BY <1>2, <1>3, <2>1
<1>12. CASE LinkTokenHeard(c)
  <2>1. CASE Done(c) /\ call[c].answer \in links
    <3>1. GoToGoogle(call[c].answer) /\ call[c].answer \in LinkTokens
      BY <1>12, <2>1 DEF LinkTokenHeard, PagesOK, AccountPagesTypeOK
    <3>2. /\ screen' # None /\ screen'.at = "google"
          /\ \A q \in Calls : call'[q] # None => ~call'[q].here
      BY <3>1, GoogleIs
    <3> QED
      BY <3>2, ScreenKept
  <2>2. CASE ~(Done(c) /\ call[c].answer \in links)
    <3>1. screen' = None \/ UNCHANGED screen
      BY <1>12, <2>2 DEF LinkTokenHeard
    <3> QED
      BY <1>2, <3>1, ScreenKept
  <2> QED
    BY <2>1, <2>2
<1> QED
  BY <1>5, <1>6, <1>7, <1>8, <1>9, <1>10, <1>11, <1>12 DEF Answer

LEMMA MoveScreen ==
    ASSUME PagesOK, ScreenOK, Move \/ Expire
    PROVE  ScreenOK' /\ Shows
<1>1. \A q \in Calls : call[q] # None => q \in Pending
  BY DEF Pending
<1>2. ASSUME NEW at \in Screens \ {"google"}, Go(at)
      PROVE  ScreenOK' /\ Shows
  <2>1. screen' # None /\ screen'.at = at /\ screen'.key = None
    BY <1>2, PageIs DEF Go
  <2> QED
    BY <1>2, <2>1, ScreenKept
<1>3. CASE Guard
  <2>1. PICK at \in {"login", "restore", "dashboard"} : Go(at)
    BY <1>3 DEF Guard
  <2> QED
    BY <1>2, <2>1 DEF Screens, Guarded, Public
<1>4. CASE Leave
  BY <1>4, ScreenKept DEF Leave
<1>5. CASE SignInWithGoogle
  <2>1. /\ screen' # None /\ screen'.at = "google"
        /\ \A q \in Calls : call'[q] # None => ~call'[q].here
    BY <1>5, GoogleIs DEF SignInWithGoogle
  <2> QED
    BY <2>1, ScreenKept
<1>6. CASE Scan \/ Expire
  <2>1. UNCHANGED <<screen, call>>
    BY <1>6 DEF Scan, Expire
  <2> QED
    BY <1>1, <2>1, ScreenKept
<1>7. CASE CloseModal
  <2>1. screen # None /\ screen.at = "security" /\ screen' = [screen EXCEPT !.modal = None, !.key = None]
    BY <1>7 DEF CloseModal, Visible, At
  <2>2. screen' # None /\ screen'.at # "google" /\ screen'.key = None
    BY <2>1, ModalIs
  <2> QED
    BY <2>1, <2>2, ScreenKept
<1>8. ASSUME NEW m \in Modals, OpenModal(m)
      PROVE  ScreenOK' /\ Shows
  <2>1. screen # None /\ screen.at = "security" /\ screen.modal = None /\ screen' = [screen EXCEPT !.modal = m]
    BY <1>8 DEF OpenModal, Settings, Visible, At
  <2>2. screen.key = None
    BY <2>1 DEF ScreenOK
  <2>3. screen' # None /\ screen'.at # "google" /\ screen'.key = None
    BY <2>1, <2>2, ModalIs
  <2> QED
    BY <2>1, <2>3, ScreenKept
<1>9. ASSUME NEW at \in Entries, Follow(at)
      PROVE  ScreenOK' /\ Shows
  BY <1>2, <1>9 DEF Follow, Entries, Screens, Guarded, Public
<1>10. ASSUME NEW at \in Entries, NEW c \in Calls, Load(c, at)
       PROVE  ScreenOK' /\ Shows
  <2>1. screen' # None /\ screen'.at # "google" /\ screen'.key = None
    BY <1>10, LoadIs DEF Entries
  <2> QED
    BY <2>1, ScreenKept
<1> QED
  BY <1>3, <1>4, <1>5, <1>6, <1>7, <1>8, <1>9, <1>10 DEF Move

-----------------------------------------------------------------------------
(* The second factor.  While it was always known what earlier calls about the
   switch did (~hasty), one call at most draws a secret or turns the factor on;
   while a secret is drawn, none is shown and the factor is off; the secret
   that is shown is the stored one, or there is none; and the factor is turned
   on with a code of the secret that was scanned. *)

Turns(r) == r.kind \in {"generate", "enable"}

OneTurn == \A c, q \in Pending : Turns(call[c]) /\ Turns(call[q]) => c = q

TurnOK(r) ==
    /\ r.kind = "generate" /\ r.stage = "sent" => ~Showing /\ (Exists => ~account.enabled)
    /\ r.kind = "generate" /\ r.stage = "done" =>
          Exists /\ account.secret \in {r.answer, None} /\ ~Showing /\ r.here
    /\ r.kind = "enable" /\ r.stage = "sent" => (Exists /\ account.secret = r.key => phone = r.key)

TurnInv ==
    /\ OneTurn
    /\ \A c \in Pending : TurnOK(call[c])
    /\ Showing => Exists /\ account.secret \in {screen.key, None}
    /\ Exists /\ account.enabled => phone = account.secret

SwitchOK ==
    /\ ScreenOK
    /\ \A c \in Pending : call[c].kind = "generate" => call[c].then = None
    /\ ~hasty => TurnInv

(* What is left of a call that draws a secret. *)
LEMMA OnwardTurn ==
    ASSUME NEW r \in Requests, NEW x, x # None, Onward(x, r)
    PROVE  /\ x.kind = r.kind /\ x.key = r.key /\ x.stage = r.stage /\ x.answer = r.answer
           /\ x.then \in {r.then, None}
           /\ r.kind = "generate" /\ r.stage = "done" /\ r.then = None => x.here = r.here
<1>1. CASE x = r
  BY <1>1
<1>2. CASE x # r
  <2>1. /\ x.kind = r.kind /\ x.key = r.key /\ x.stage = r.stage /\ x.answer = r.answer
        /\ x.then \in {r.then, None} /\ ~x.here /\ (x.stage = "sent" \/ Heeded(x))
    BY <1>2 DEF Onward
  <2>2. r.kind = "generate" /\ r.stage = "done" /\ r.then = None => FALSE
    <3>1. ASSUME r.kind = "generate", r.stage = "done", r.then = None PROVE FALSE
      <4>1. x.kind = "generate" /\ x.stage = "done" /\ x.then = None /\ ~x.here /\ Heeded(x)
        BY <2>1, <3>1
      <4>2. None # "disconnect"
        BY AccountPagesAssumption DEF Modals
      <4> QED
        BY <4>1, <4>2 DEF Heeded
    <3> QED
      BY <3>1
  <2> QED
    BY <2>1, <2>2
<1> QED
  BY <1>1, <1>2

(* The factor stays as it is, is off without a secret, or is turned on with the
   secret in the user's authenticator while no other is drawn. *)
FactorKept ==
    /\ Exists => Exists'
    /\ Exists' => \/ Exists /\ account'.secret = account.secret /\ account'.enabled = account.enabled
                  \/ account'.secret = None /\ ~account'.enabled
                  \/ /\ Exists /\ account'.secret = account.secret /\ phone = account.secret /\ UNCHANGED phone
                     /\ \A q \in Pending : call[q].kind # "generate"

(* Nothing comes of a call any more. *)
Spent(r) == r.stage # "sent" /\ (r.kind = "enable" \/ r.stage = "refused")

(* A step that draws no secret and asks for no change of the switch. *)
LEMMA QuietTurn ==
    ASSUME PagesOK, SwitchOK, ScreenOK', Shows, UNCHANGED hasty, ~hasty => FactorKept,
           UNCHANGED phone \/ (Showing /\ phone' = screen.key),
           NEW S \in SUBSET Calls, CallsOn(S),
           \A q \in S : \/ call'[q] = None
                        \/ ~Turns(call'[q])
                        \/ /\ q \in Pending /\ call'[q].kind = call[q].kind /\ call'[q].then = call[q].then
                           /\ Spent(call'[q])
    PROVE  SwitchOK'
<1>1. ASSUME NEW q \in Calls, call'[q] # None, Turns(call'[q])
      PROVE  /\ q \in Pending /\ call'[q].kind = call[q].kind /\ Turns(call[q])
             /\ call'[q].then \in {call[q].then, None}
             /\ \/ Spent(call'[q])
                \/ /\ call'[q].key = call[q].key /\ call'[q].stage = call[q].stage /\ call'[q].answer = call[q].answer
                   /\ call[q].kind = "generate" /\ call[q].stage = "done" => call'[q].here = call[q].here
  <2>1. CASE q \in S
    BY <1>1, <2>1 DEF Turns
  <2>2. CASE q \notin S
    <3>1. q \in Pending /\ Onward(call'[q], call[q]) /\ call[q] \in Requests
      BY <1>1, <2>2, PendingCall DEF CallsOn
    <3>2. call[q].kind = "generate" => call[q].then = None
      BY <3>1 DEF SwitchOK
    <3>3. /\ call'[q].kind = call[q].kind /\ call'[q].key = call[q].key /\ call'[q].stage = call[q].stage
          /\ call'[q].answer = call[q].answer /\ call'[q].then \in {call[q].then, None}
          /\ call[q].kind = "generate" /\ call[q].stage = "done" /\ call[q].then = None => call'[q].here = call[q].here
      BY <1>1, <3>1, OnwardTurn
    <3> QED
      BY <1>1, <3>1, <3>2, <3>3 DEF Turns
  <2> QED
    BY <2>1, <2>2
<1>2. \A q \in Pending' : call'[q].kind = "generate" => call'[q].then = None
  BY <1>1 DEF Pending, Turns, SwitchOK
<1>3. ASSUME ~hasty'
      PROVE  TurnInv'
  <2>1. TurnInv
    BY <1>3 DEF SwitchOK
  <2>2. OneTurn'
    BY <1>1, <2>1 DEF TurnInv, OneTurn, Pending
  <2>3. FactorKept
    BY <1>3
  <2>4. ASSUME Showing'
        PROVE  /\ Exists' /\ account'.secret \in {screen'.key, None}
               /\ \/ Showing
                  \/ \A q \in Pending' : ~Turns(call'[q])
    <3>1. CASE Showing /\ screen'.key = screen.key
      BY <2>1, <2>3, <3>1 DEF TurnInv, FactorKept
    <3>2. ASSUME NEW c \in Pending, call[c].kind = "generate", call[c].stage = "done",
                 screen'.key = call[c].answer, call'[c] = None
          PROVE  /\ Exists' /\ account'.secret \in {screen'.key, None}
                 /\ \A q \in Pending' : ~Turns(call'[q])
      <4>1. TurnOK(call[c]) /\ \A q \in Pending : Turns(call[q]) => q = c
        BY <2>1, <3>2 DEF TurnInv, OneTurn, Turns
      <4>2. \A q \in Pending' : ~Turns(call'[q])
        BY <1>1, <3>2, <4>1 DEF Pending
      <4> QED
        BY <2>3, <3>2, <4>1, <4>2 DEF TurnOK, FactorKept
    <3> QED
      BY <2>4, <3>1, <3>2 DEF Shows
  <2>5. ASSUME Showing, Exists, account.secret # None
        PROVE  account.secret = screen.key
    BY <2>1, <2>5 DEF TurnInv
  <2>6. ASSUME NEW q \in Pending'
        PROVE  TurnOK(call[q])'
    <3>1. CASE ~Turns(call'[q]) \/ Spent(call'[q])
      BY <3>1 DEF TurnOK, Turns, Spent
    <3>2. CASE Turns(call'[q]) /\ ~Spent(call'[q])
      <4>1. /\ q \in Pending /\ call'[q].kind = call[q].kind /\ Turns(call[q])
            /\ call'[q].key = call[q].key /\ call'[q].stage = call[q].stage /\ call'[q].answer = call[q].answer
            /\ call[q].kind = "generate" /\ call[q].stage = "done" => call'[q].here = call[q].here
        BY <1>1, <2>6, <3>2 DEF Pending
      <4>2. TurnOK(call[q]) /\ CallOK(call[q])
        BY <2>1, <4>1, PendingCall DEF TurnInv
      <4>3. call[q].kind = "generate" => TurnOK(call[q])'
        <5>1. call[q].kind = "generate" /\ call[q].stage \in {"sent", "done"} => ~Showing'
          BY <2>4, <2>6, <3>2, <4>2 DEF TurnOK
        <5> QED
          BY <2>3, <4>1, <4>2, <5>1 DEF TurnOK, FactorKept
      <4>4. call[q].kind = "enable" => TurnOK(call[q])'
        <5>1. ASSUME call[q].kind = "enable", call[q].stage = "sent", Exists, account.secret = call[q].key
              PROVE  phone' = call[q].key
          <6>1. phone = call[q].key /\ account.secret # None
            BY <4>2, <5>1, AccountPagesAssumption DEF TurnOK, CallOK
          <6> QED
            BY <2>5, <5>1, <6>1
        <5> QED
          <6>1. call[q].kind = "enable" /\ call[q].stage = "sent" => call[q].key # None
            BY <4>2, AccountPagesAssumption DEF CallOK
          <6>2. Exists' /\ account'.secret # None => Exists /\ account'.secret = account.secret
            BY <2>3 DEF FactorKept
          <6> QED
            BY <4>1, <5>1, <6>1, <6>2 DEF TurnOK
      <4> QED
        BY <4>1, <4>3, <4>4 DEF Turns
    <3> QED
      BY <3>1, <3>2
  <2>7. Exists' /\ account'.enabled => phone' = account'.secret
    <3>1. ASSUME Exists, account.enabled
          PROVE  phone' = account.secret
      <4>1. phone = account.secret /\ account.secret # None
        BY <2>1, <3>1 DEF TurnInv, PagesOK, AccountPagesTypeOK
      <4> QED
        BY <2>5, <3>1, <4>1
    <3>2. Exists' /\ account'.enabled =>
            /\ Exists /\ account'.secret = account.secret
            /\ account.enabled \/ (phone' = phone /\ phone = account.secret)
      BY <2>3 DEF FactorKept
    <3> QED
      BY <3>1, <3>2
  <2> QED
    BY <2>2, <2>4, <2>6, <2>7 DEF TurnInv
<1> QED
  BY <1>2, <1>3 DEF SwitchOK

LEMMA ServedTurn ==
    ASSUME PagesOK, SwitchOK, NEW c \in Calls, NEW ok \in BOOLEAN, NEW answer \in Answers, Served(c, ok, answer)
    PROVE  SwitchOK'
<1>1. /\ c \in Pending /\ CallsOn({c}) /\ \A q \in Calls \ {c} : call'[q] = call[q]
      /\ \/ call'[c] = None
         \/ /\ call'[c].kind = call[c].kind /\ call'[c].then = call[c].then /\ call'[c].here = call[c].here
            /\ call'[c].stage = IF ok THEN "done" ELSE "refused"
            /\ call'[c].answer = answer /\ Heeded(call'[c])
      /\ UNCHANGED <<screen, phone, hasty>> /\ call[c].stage = "sent"
  BY ReplyCalls DEF Served, Answers
<1>2. c \in Calls /\ (call[c].kind = "generate" => call[c].then = None) /\ CallOK(call[c])
  BY <1>1, PendingCall DEF SwitchOK
<1>3. ScreenOK' /\ Shows
  <2>1. \A q \in Calls : call'[q] # None /\ call'[q].here => q \in Pending /\ call[q].here
    BY <1>1 DEF Pending
  <2> QED
    BY <1>1, <2>1, ScreenKept DEF SwitchOK
<1>4. CASE ok /\ call[c].kind = "generate"
  <2>1. answer \in Secrets /\ account'.secret = answer /\ Exists'
    BY <1>4 DEF Served, Exists
  <2>2. Exists
    BY <2>1, AccountPagesAssumption DEF Served, Exists
  <2>3. account'.enabled => account.enabled
    BY <1>4, <2>1, <2>2, AccountPagesAssumption DEF Served, FactorMoves
  <2>4. \A q \in Pending' : call'[q].kind = "generate" => call'[q].then = None
    BY <1>1, <1>2 DEF SwitchOK, Pending
  <2>5. ASSUME ~hasty'
        PROVE  TurnInv'
    <3>1. TurnInv
      BY <1>1, <2>5 DEF SwitchOK
    <3>2. TurnOK(call[c]) /\ \A q \in Pending : Turns(call[q]) => q = c
      BY <1>1, <1>4, <3>1 DEF TurnInv, OneTurn, Turns
    <3>3. ~Showing' /\ ~account'.enabled
      BY <1>1, <1>4, <2>2, <2>3, <3>2 DEF TurnOK, Showing
    <3>4. \A q \in Pending' : Turns(call'[q]) => q = c
      BY <1>1, <3>2 DEF Pending, Turns
    <3>5. ASSUME c \in Pending'
          PROVE  call'[c].kind = "generate" /\ call'[c].stage = "done" /\ call'[c].answer = answer /\ call'[c].here
      <4>1. /\ call'[c].kind = "generate" /\ call'[c].stage = "done" /\ call'[c].answer = answer
            /\ call'[c].then = None /\ Heeded(call'[c])
        BY <1>1, <1>2, <1>4, <3>5 DEF Pending
      <4>2. None # "disconnect"
        BY AccountPagesAssumption DEF Modals
      <4> QED
        BY <4>1, <4>2 DEF Heeded
    <3>6. \A q \in Pending' : TurnOK(call[q])'
      <4>1. ASSUME NEW q \in Pending'
            PROVE  TurnOK(call[q])'
        <5>1. CASE q = c
          BY <2>1, <3>3, <3>5, <4>1, <5>1 DEF TurnOK
        <5>2. CASE q # c
          BY <3>4, <4>1, <5>2 DEF TurnOK, Turns
        <5> QED
          BY <5>1, <5>2
      <4> QED
        BY <4>1
    <3>7. OneTurn'
      BY <3>4 DEF OneTurn
    <3> QED
      BY <3>3, <3>6, <3>7 DEF TurnInv
  <2> QED
    BY <1>3, <2>4, <2>5 DEF SwitchOK
<1>5. CASE ~(ok /\ call[c].kind = "generate")
  <2>1. ~hasty => FactorKept
    <3> SUFFICES ASSUME ~hasty PROVE FactorKept
      OBVIOUS
    <3>1. TurnInv /\ TurnOK(call[c])
      BY <1>1 DEF SwitchOK, TurnInv
    <3>2. Exists => Exists'
      BY DEF Served, Exists
    <3>3. CASE ~Exists
      BY <3>2, <3>3 DEF Served, FactorKept, Exists
    <3>4. CASE Exists /\ ok /\ call[c].kind = "enable" /\ account.secret = call[c].key
                /\ account'.secret = account.secret
      <4>1. phone = account.secret
        BY <1>1, <3>1, <3>4 DEF TurnOK
      <4>2. \A q \in Pending : call[q].kind # "generate"
        BY <1>1, <3>1, <3>4 DEF TurnInv, OneTurn, Turns
      <4> QED
        BY <1>1, <3>2, <3>4, <4>1, <4>2 DEF FactorKept
    <3>5. CASE Exists /\ account'.secret = account.secret /\ account'.enabled = account.enabled
      BY <3>2, <3>5 DEF FactorKept
    <3>6. CASE Exists /\ account'.secret = None /\ account'.enabled = FALSE
      BY <3>2, <3>6 DEF FactorKept
    <3> QED
      BY <1>5, <3>3, <3>4, <3>5, <3>6 DEF Served, FactorMoves
  <2>2. \/ call'[c] = None
        \/ ~Turns(call'[c])
        \/ call'[c].kind = call[c].kind /\ call'[c].then = call[c].then /\ Spent(call'[c])
    BY <1>1, <1>5 DEF Turns, Spent
  <2> QED
    BY <1>1, <1>2, <1>3, <2>1, <2>2, QuietTurn
<1> QED
  BY <1>4, <1>5

LEMMA SentTurn ==
    ASSUME PagesOK, SwitchOK, NEW c \in Calls, NEW kind, NEW key, NEW then, Sent(c, kind, key, then)
    PROVE  SwitchOK'
<1>1. /\ c \notin Pending /\ CallsOn({c}) /\ \A q \in Calls \ {c} : call'[q] = call[q]
      /\ call'[c].kind = kind /\ call'[c].key = key /\ call'[c].then = then
      /\ call'[c].stage = "sent" /\ call'[c] # None
  BY SentCalls
<1>2. UNCHANGED <<account, screen, phone>> /\ screen # None /\ screen.at # "google"
  BY SentRest
<1>3. ScreenOK' /\ Showing' = Showing
  BY <1>2 DEF SwitchOK, ScreenOK, Showing
<1>4. Pending' = Pending \cup {c} /\ \A q \in Pending : q # c /\ call'[q] = call[q]
  BY <1>1 DEF Pending
<1>5. \A q \in Pending' : call'[q].kind = "generate" => call'[q].then = None
  BY <1>1, <1>4 DEF Sent, SwitchOK
<1>6. hasty => hasty'
  BY DEF Sent
<1>7. ASSUME ~hasty'
      PROVE  TurnInv'
  <2>1. TurnInv
    BY <1>6, <1>7 DEF SwitchOK
  <2>2. Exists' = Exists
    BY <1>2 DEF Exists
  <2>3. ASSUME NEW q \in Pending
        PROVE  TurnOK(call[q])'
    <3>1. TurnOK(call[q]) /\ call'[q] = call[q]
      BY <1>4, <2>1 DEF TurnInv
    <3> QED
      BY <1>2, <1>3, <2>2, <3>1 DEF TurnOK
  <2>4. OneTurn' /\ TurnOK(call[c])'
    <3>1. CASE kind \notin {"generate", "enable"}
      BY <1>1, <1>4, <2>1, <3>1 DEF TurnInv, OneTurn, Turns, TurnOK
    <3>2. ASSUME kind \in {"generate", "enable"}, ~TfaLoading, ~Unheard
          PROVE  OneTurn'
      <4>1. \A q \in Pending : ~Turns(call[q])
        BY <3>2 DEF TfaLoading, Doing, Unheard, Turns, Switching
      <4> QED
        BY <1>4, <4>1 DEF OneTurn, Turns
    <3>3. CASE kind = "generate"
      <4>1. /\ ~TfaLoading /\ screen.modal = None
            /\ hasty' = (hasty \/ account.enabled \/ Unheard)
        BY <3>3 DEF Sent, TurnOn, Settings
      <4>2. ~account.enabled /\ ~Unheard
        BY <1>7, <4>1
      <4>3. ~Showing
        BY <1>2, <4>1, AccountPagesAssumption DEF SwitchOK, ScreenOK, Showing
      <4> QED
        BY <1>1, <1>2, <1>3, <3>2, <3>3, <4>1, <4>2, <4>3 DEF TurnOK
    <3>4. CASE kind = "enable"
      <4>1. /\ ~TfaLoading /\ ~user.enabled /\ key = phone
            /\ hasty' = (hasty \/ (~user.enabled /\ Unheard))
        BY <3>4 DEF Sent, ConfirmSwitch
      <4>2. ~Unheard
        BY <1>7, <4>1
      <4> QED
        BY <1>1, <1>2, <3>2, <3>4, <4>1, <4>2 DEF TurnOK
    <3> QED
      BY <3>1, <3>3, <3>4
  <2>5. \A q \in Pending' : TurnOK(call[q])'
    BY <1>4, <2>3, <2>4
  <2> QED
    BY <1>2, <1>3, <2>1, <2>2, <2>4, <2>5 DEF TurnInv
<1> QED
  BY <1>3, <1>5, <1>7 DEF SwitchOK

LEMMA SwitchStep == PagesOK /\ SwitchOK /\ [Next]_vars => SwitchOK'
<1> SUFFICES ASSUME PagesOK, SwitchOK, [Next]_vars PROVE SwitchOK'
  OBVIOUS
<1>0. ScreenOK
  BY DEF SwitchOK
<1>1. ASSUME UNCHANGED account
      PROVE  FactorKept
  BY <1>1 DEF FactorKept, Exists
<1>2. ASSUME NEW c \in Calls, GoogleCallback(c)
      PROVE  SwitchOK'
  <2>1. PICK at \in {"callback", "failed"}, then \in {"dashboard", None} : Start(c, at, then)
    BY <1>2, CallbackTypes
  <2>2. at \in Screens /\ token' \in BOOLEAN
    BY <1>2, CallbackTypes DEF Screens, PagesOK, AccountPagesTypeOK
  <2>3. CallsOn({c}) /\ UNCHANGED <<phone, hasty>>
    BY <2>1, <2>2, StartCalls
  <2>4. \/ call'[c] = None
        \/ /\ token' /\ call'[c] \in Requests /\ call'[c].kind = "me"
           /\ call'[c].then = then /\ call'[c].stage = "sent" /\ call'[c].answer = None
           /\ call'[c].here /\ call'[c].live
    BY <2>1, <2>2, StartCalls
  <2>5. screen' # None /\ screen'.at = at /\ screen'.key = None
    BY <2>1, <2>2, StartCalls
  <2>6. ScreenOK' /\ Shows
    BY <1>0, <2>5, ScreenKept
  <2>7. FactorKept
    BY <1>1, <1>2, CallbackTypes DEF FactorKept, SameFactor, Exists
  <2>8. call'[c] = None \/ ~Turns(call'[c])
    BY <2>4 DEF Turns
  <2> QED
    BY <2>3, <2>6, <2>7, <2>8, QuietTurn
<1>3. ASSUME NEW c \in Calls, Answer(c)
      PROVE  SwitchOK'
  <2>1. c \in Pending /\ c \in Calls /\ UNCHANGED <<account, phone, hasty>> /\ FactorKept
    BY <1>1, <1>3, AnswerEffect DEF row
  <2>2. ScreenOK' /\ Shows
    BY <1>0, <1>3, AnswerScreen
  <2>3. CASE CallsOn({})
    BY <2>1, <2>2, <2>3, QuietTurn
  <2>4. CASE Lose(c)
    <3>1. CallsOn({c})
      BY <2>4, LoseCalls
    <3>2. \/ call'[c] = None
          \/ call'[c].kind = call[c].kind /\ call'[c].then = call[c].then /\ Spent(call'[c])
      BY <2>4, LoseCalls DEF Spent
    <3> QED
      BY <2>1, <2>2, <3>1, <3>2, QuietTurn
  <2>5. CASE Goes(c, call'[c])
    <3>1. CallsOn({c}) /\ ~Turns(call'[c])
      BY <2>5 DEF Goes, Turns
    <3> QED
      BY <2>1, <2>2, <3>1, QuietTurn
  <2> QED
    BY <1>3, <2>3, <2>4, <2>5, AnswerEffect
<1>4. CASE Move \/ Expire
  <2>1. UNCHANGED <<account, hasty>> /\ FactorKept
    BY <1>1, <1>4, MoveEffect
  <2>2. ScreenOK' /\ Shows
    BY <1>0, <1>4, MoveScreen
  <2>3. UNCHANGED phone \/ (Showing /\ phone' = screen.key)
    BY <1>4 DEF Move, Expire, Guard, Leave, SignInWithGoogle, GoToGoogle, Scan, InModal, Visible, At, Showing,
                CloseModal, OpenModal, Follow, Load, Start
  <2>4. CASE CallsOn({})
    BY <2>1, <2>2, <2>3, <2>4, QuietTurn
  <2>5. ASSUME NEW c \in Calls, NEW at \in Entries, Load(c, at)
        PROVE  SwitchOK'
    <3>1. CallsOn({c}) /\ (call'[c] = None \/ ~Turns(call'[c]))
      BY <2>5, LoadIs DEF Turns
    <3> QED
      BY <2>1, <2>2, <2>3, <3>1, QuietTurn
  <2> QED
    BY <1>4, <2>4, <2>5, MoveEffect
<1>5. CASE UNCHANGED vars
  <2>1. UNCHANGED <<account, screen, call, phone, hasty>>
    BY <1>5 DEF vars, row
  <2> QED
    BY <2>1 DEF SwitchOK, ScreenOK, TurnInv, OneTurn, TurnOK, Turns, Showing, Exists, Pending
<1>6. ASSUME NEW c \in Calls, Api(c)
      PROVE  SwitchOK'
  BY <1>2, <1>6, ApiEffect, ServedTurn
<1>7. ASSUME NEW c \in Calls, Do(c)
      PROVE  SwitchOK'
  BY <1>7, DoEffect, SentTurn
<1> QED
  BY <1>3, <1>4, <1>5, <1>6, <1>7 DEF Next

(* While the second factor is on, the stored secret is the one in the user's
   authenticator, unless the switch was turned on before it was known what an
   earlier call about it did: for every number of calls under way, whatever
   pages are left and answers are lost. *)
THEOREM TheAuthenticatorIsRight == Spec => []AuthenticatorIsRight
<1>1. Init => SwitchOK
  <2> SUFFICES ASSUME Init PROVE SwitchOK
    OBVIOUS
  <2>1. Pending = {} /\ screen = None /\ (account = None \/ ~account.enabled)
    <3>1. CASE account # None
      <4>1. PICK p, g, v \in BOOLEAN : account = Account(p, g, v)
        BY <3>1, AccountPagesAssumption DEF Init
      <4> QED
        BY <4>1, AccountIs DEF Init, Pending
    <3> QED
      BY <3>1 DEF Init, Pending
  <2> QED
    BY <2>1 DEF SwitchOK, ScreenOK, TurnInv, OneTurn, Showing, Exists
<1>2. Spec => [](PagesOK /\ SwitchOK)
  BY <1>1, PagesInit, PagesStep, SwitchStep, PTL DEF Spec
<1>3. SwitchOK => AuthenticatorIsRight
  BY DEF SwitchOK, TurnInv, AuthenticatorIsRight
<1> QED
  BY <1>2, <1>3, PTL
====
