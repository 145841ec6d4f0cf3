---- MODULE SessionsProofs ----
(***************************************************************************)
(* Theorems about Sessions, the TokenFamilies they implement, and the      *)
(* WebClient that uses them, for every set of users, session ids, requests *)
(* and tabs.                                                               *)
(***************************************************************************)
EXTENDS WebClient, FiniteSetTheorems, TLAPS

(* What marking sessions revoked does to the table. *)
LEMMA RevokeRows ==
    ASSUME TypeOK, NEW S \in SUBSET Created, session' = Revoke(S)
    PROVE  /\ session' \in [SessionIds -> Rows \cup {NoSession}]
           /\ Created' = Created
           /\ \A s \in Created :
                /\ session'[s].userId = session[s].userId
                /\ session'[s].familyId = session[s].familyId
                /\ session'[s].revoked = (session[s].revoked \/ s \in S)
<1>2. ASSUME NEW s \in SessionIds
      PROVE  /\ session'[s] \in Rows \cup {NoSession}
             /\ s \in Created <=> session'[s] # NoSession
             /\ s \in Created =>
                  /\ session'[s].userId = session[s].userId
                  /\ session'[s].familyId = session[s].familyId
                  /\ session'[s].revoked = (session[s].revoked \/ s \in S)
  <2>1. session[s] \in Rows \cup {NoSession}
    BY DEF TypeOK, TablesOK
  <2>2. CASE s \in S
    <3>1. session[s] \in Rows
      BY <2>1, <2>2 DEF Created
    <3>2. session'[s] = Row(session[s].userId, session[s].familyId, TRUE)
      BY <2>2 DEF Revoke
    <3>3. session'[s] \in Rows
      BY <3>1, <3>2 DEF Rows, Row
    <3>4. session'[s] # NoSession
      BY <3>3, SessionsAssumption
    <3>5. /\ session'[s].userId = session[s].userId
          /\ session'[s].familyId = session[s].familyId
          /\ session'[s].revoked = TRUE
      BY <3>2 DEF Row
    <3>6. session'[s].revoked = (session[s].revoked \/ s \in S)
      BY <2>2, <3>5
    <3>7. QED
      BY <2>2, <3>3, <3>4, <3>5, <3>6
  <2>3. CASE s \notin S
    <3>1. session'[s] = session[s]
      BY <2>3 DEF Revoke
    <3>2. s \in Created => session[s].revoked \in BOOLEAN
      BY <2>1 DEF Created, Rows
    <3>3. QED
      BY <2>1, <2>3, <3>1, <3>2 DEF Created
  <2>4. QED
    BY <2>2, <2>3
<1>3. QED
  BY <1>2 DEF Revoke, Created

(* What a request record can be, and what it holds. *)
LEMMA RequestRecord ==
    ASSUME NEW w \in Writes, NEW u \in Users, NEW s \in SessionIds \cup {NoSession}
    PROVE  /\ Request(w, u, s) \in InFlight
           /\ Request(w, u, s).next = w
           /\ Request(w, u, s).user = u
           /\ Request(w, u, s).token = s
           /\ Request(w, u, s) # Idle
<1>1. w # "idle"
  BY DEF Writes, TokenWrites
<1>2. Request(w, u, s) # Idle
  BY <1>1 DEF Request, Idle
<1>3. QED
  BY <1>2 DEF Request, InFlight

(* A request at a write is in flight, with a user and a token. *)
LEMMA RequestFields ==
    ASSUME TypeOK, NEW r \in Requests, NEW w \in Writes, Doing(r, w)
    PROVE  /\ req[r] \in InFlight
           /\ req[r].next = w
           /\ req[r].user \in Users
           /\ req[r].token \in Created \cup {NoSession}
           /\ w \in TokenWrites => req[r].token \in Created
           /\ w \notin TokenWrites \cup {"create"} => req[r].token = NoSession
<1>1. req[r] # Idle
  BY DEF Doing, Idle, Writes, TokenWrites
<1>2. req[r] \in InFlight
  BY <1>1 DEF TypeOK, RequestsOK
<1>3. QED
  BY <1>1, <1>2 DEF TypeOK, RequestsOK, InFlight, Doing

(* Requests keep their type when one of them changes and no row goes away. *)
LEMMA RequestsStayOK ==
    ASSUME RequestsOK, NEW r \in Requests, Created \subseteq Created',
           NEW q, req' = [req EXCEPT ![r] = q],
           \/ q = Idle
           \/ /\ q \in InFlight
              /\ q.token \in Created' \cup {NoSession}
              /\ q.next \in TokenWrites => q.token # NoSession
              /\ q.next \notin TokenWrites \cup {"create"} => q.token = NoSession
    PROVE  RequestsOK'
<1>1. req' \in [Requests -> InFlight \cup {Idle}]
  BY DEF RequestsOK
<1>2. ASSUME NEW p \in Requests, req'[p] # Idle
      PROVE  /\ req'[p].token \in Created' \cup {NoSession}
             /\ req'[p].next \in TokenWrites => req'[p].token # NoSession
             /\ req'[p].next \notin TokenWrites \cup {"create"} => req'[p].token = NoSession
  <2>1. CASE p = r
    <3>1. req'[p] = q
      BY <2>1 DEF RequestsOK
    <3>2. QED
      BY <1>2, <3>1
  <2>2. CASE p # r
    <3>1. req'[p] = req[p]
      BY <2>2 DEF RequestsOK
    <3>2. QED
      BY <1>2, <3>1 DEF RequestsOK
  <2>3. QED
    BY <2>1, <2>2
<1>3. QED
  BY <1>1, <1>2 DEF RequestsOK

LEMMA DoneOK ==
    ASSUME RequestsOK, NEW r \in Requests, Created \subseteq Created', req' = Done(r)
    PROVE  RequestsOK'
BY RequestsStayOK DEF Done

(* Going on to another write keeps user and token. *)
LEMMA GotoFields ==
    ASSUME TypeOK, NEW r \in Requests, req[r] # Idle,
           NEW w \in Writes \ TokenWrites, req' = Goto(r, w)
    PROVE  /\ req'[r] \in InFlight
           /\ req'[r].next = w
           /\ req'[r].user = req[r].user
           /\ req'[r].token = req[r].token
           /\ \A q \in Requests \ {r} : req'[q] = req[q]
           /\ req' = [req EXCEPT ![r] = req'[r]]
<1>1. req[r] \in InFlight
  BY DEF TypeOK, RequestsOK
<1>2. req'[r] = [req[r] EXCEPT !.next = w]
  BY DEF Goto, TypeOK, RequestsOK
<1>3. QED
  BY <1>1, <1>2 DEF Goto, TypeOK, RequestsOK, InFlight

LEMMA GotoOK ==
    ASSUME TypeOK, NEW r \in Requests, req[r] # Idle, Created \subseteq Created',
           NEW w \in Writes \ TokenWrites, req' = Goto(r, w),
           w # "create" => req[r].token = NoSession
    PROVE  RequestsOK'
<1>1. /\ req'[r] \in InFlight
      /\ req'[r].next = w
      /\ req'[r].token = req[r].token
      /\ req' = [req EXCEPT ![r] = req'[r]]
  BY GotoFields
<1>2. req[r].token \in Created' \cup {NoSession}
  BY DEF TypeOK, RequestsOK
<1>3. QED
  BY <1>1, <1>2, RequestsStayOK DEF TypeOK

LEMMA BeginOK ==
    ASSUME TypeOK, NEW r \in Requests, NEW w \in Writes, NEW u \in Users,
           NEW s \in Created \cup {NoSession},
           w \in TokenWrites => s # NoSession,
           w \notin TokenWrites \cup {"create"} => s = NoSession,
           Begin(r, w, u, s)
    PROVE  TypeOK'
<1>1. s \in SessionIds \cup {NoSession}
  BY DEF Created
<1>2. /\ Request(w, u, s) \in InFlight
      /\ Request(w, u, s).next = w
      /\ Request(w, u, s).token = s
  BY <1>1, RequestRecord
<1>3. /\ req' = [req EXCEPT ![r] = Request(w, u, s)]
      /\ UNCHANGED <<tables, history>>
  BY DEF Begin
<1>4. Created' = Created
  BY <1>3 DEF tables, Created
<1>5. RequestsOK'
  BY <1>2, <1>3, <1>4, RequestsStayOK DEF TypeOK
<1>6. QED
  BY <1>3, <1>4, <1>5 DEF TypeOK, TablesOK, HistoryOK, tables, history

(* Revoking keeps the tables' types. *)
LEMMA RevokeOK ==
    ASSUME TypeOK, NEW S \in SUBSET Created, session' = Revoke(S),
           deleted' = deleted, hasPassword' = hasPassword
    PROVE  TablesOK' /\ Created' = Created
<1>1. /\ session' \in [SessionIds -> Rows \cup {NoSession}]
      /\ Created' = Created
      /\ \A s \in Created : session'[s].familyId = session[s].familyId
  BY RevokeRows
<1>2. QED
  BY <1>1 DEF TypeOK, TablesOK

(* A created session has a user and a family. *)
LEMMA RowFields ==
    ASSUME TypeOK, NEW s \in Created
    PROVE  /\ session[s] \in Rows
           /\ session[s].userId \in Users
           /\ session[s].familyId \in Created
           /\ session[s].revoked \in BOOLEAN
<1>1. session[s] \in Rows
  BY DEF TypeOK, TablesOK, Created
<1>2. QED
  BY <1>1 DEF TypeOK, TablesOK, Rows

(* What createTokenPair adds: one live row under an id not used before. *)
LEMMA NewRow ==
    ASSUME TypeOK, NEW r \in Requests, CreateTokenPair(r)
    PROVE  \E s \in SessionIds \ Created, f \in SessionIds :
              /\ IF req[r].token = NoSession THEN f = s
                 ELSE f = session[req[r].token].familyId /\ f \in Created
              /\ session'[s] = Row(req[r].user, f, FALSE)
              /\ \A t \in SessionIds \ {s} : session'[t] = session[t]
              /\ parent' = [parent EXCEPT ![s] = req[r].token]
              /\ Created' = Created \cup {s}
              /\ session' \in [SessionIds -> Rows \cup {NoSession}]
<1>1. Doing(r, "create") /\ "create" \in Writes
  BY DEF CreateTokenPair, Writes, TokenWrites
<1>2. req[r].user \in Users /\ req[r].token \in Created \cup {NoSession}
  BY <1>1, RequestFields
<1>3. PICK s \in SessionIds \ Created :
        LET old == req[r].token
            fam == IF old = NoSession THEN s ELSE session[old].familyId
        IN  /\ session' = [session EXCEPT ![s] = Row(req[r].user, fam, FALSE)]
            /\ parent' = [parent EXCEPT ![s] = old]
  BY DEF CreateTokenPair
<1> DEFINE f == IF req[r].token = NoSession THEN s ELSE session[req[r].token].familyId
<1>4. /\ f \in SessionIds
      /\ IF req[r].token = NoSession THEN f = s
         ELSE f = session[req[r].token].familyId /\ f \in Created
  BY <1>2, RowFields DEF Created
<1>5. /\ session' = [session EXCEPT ![s] = Row(req[r].user, f, FALSE)]
      /\ parent' = [parent EXCEPT ![s] = req[r].token]
  BY <1>3
<1> HIDE DEF f
<1>6. Row(req[r].user, f, FALSE) \in Rows
  BY <1>2, <1>4 DEF Row, Rows
<1>7. Row(req[r].user, f, FALSE) # NoSession
  BY <1>6, SessionsAssumption
<1>8. /\ session'[s] = Row(req[r].user, f, FALSE)
      /\ \A t \in SessionIds \ {s} : session'[t] = session[t]
      /\ session' \in [SessionIds -> Rows \cup {NoSession}]
  BY <1>5, <1>6 DEF TypeOK, TablesOK
<1>9. Created' = Created \cup {s}
  BY <1>7, <1>8 DEF Created
<1>10. QED
  BY <1>4, <1>5, <1>8, <1>9

LEMMA TypeStep == TypeOK /\ [Next]_vars => TypeOK'
<1> SUFFICES ASSUME TypeOK, [Next]_vars PROVE TypeOK'
  OBVIOUS
<1>1. ASSUME NEW r \in Requests, Arrive(r) PROVE TypeOK'
  <2> USE DEF Writes, TokenWrites
  <2>1. ASSUME NEW u \in Users, Login(r, u) PROVE TypeOK'
    BY <2>1, BeginOK DEF Login
  <2>2. ASSUME NEW u \in Users, SignInWithoutPassword(r, u) PROVE TypeOK'
    BY <2>2, BeginOK DEF SignInWithoutPassword
  <2>3. ASSUME NEW u \in Users, ChangePasswordRead(r, u) PROVE TypeOK'
    BY <2>3, BeginOK DEF ChangePasswordRead
  <2>4. ASSUME NEW u \in Users, SetPasswordRead(r, u) PROVE TypeOK'
    BY <2>4, BeginOK DEF SetPasswordRead
  <2>5. ASSUME NEW u \in Users, ResetPasswordRead(r, u) PROVE TypeOK'
    BY <2>5, BeginOK DEF ResetPasswordRead
  <2>6. ASSUME NEW u \in Users, DeleteAccountRead(r, u) PROVE TypeOK'
    BY <2>6, BeginOK DEF DeleteAccountRead
  <2>7. ASSUME NEW u \in Users, RestoreRead(r, u) PROVE TypeOK'
    BY <2>7, BeginOK DEF RestoreRead
  <2>8. ASSUME NEW s \in SessionIds, RefreshRead(r, s) PROVE TypeOK'
    <3>1. s \in Created /\ s # NoSession
      BY <2>8, SessionsAssumption DEF RefreshRead
    <3>2. session[s].userId \in Users
      BY <3>1, RowFields
    <3>3. CASE session[s].revoked
      BY <2>8, <3>1, <3>2, <3>3, BeginOK DEF RefreshRead
    <3>4. CASE ~session[s].revoked
      BY <2>8, <3>1, <3>2, <3>4, BeginOK DEF RefreshRead
    <3>5. QED
      BY <3>3, <3>4
  <2>9. ASSUME NEW s \in SessionIds, RevokeSessionRead(r, s) PROVE TypeOK'
    <3>1. s \in Created /\ s # NoSession
      BY <2>9, SessionsAssumption DEF RevokeSessionRead, Live
    <3>2. session[s].userId \in Users
      BY <3>1, RowFields
    <3>3. QED
      BY <2>9, <3>1, <3>2, BeginOK DEF RevokeSessionRead
  <2>10. QED
    BY <1>1, <2>1, <2>2, <2>3, <2>4, <2>5, <2>6, <2>7, <2>8, <2>9 DEF Arrive
<1>2. ASSUME NEW r \in Requests, Step(r) PROVE TypeOK'
  <2> USE DEF Writes, TokenWrites
  <2>1. CASE CreateTokenPair(r)
    <3>1. PICK s \in SessionIds \ Created, f \in SessionIds :
              /\ IF req[r].token = NoSession THEN f = s
                 ELSE f = session[req[r].token].familyId /\ f \in Created
              /\ session'[s] = Row(req[r].user, f, FALSE)
              /\ \A t \in SessionIds \ {s} : session'[t] = session[t]
              /\ parent' = [parent EXCEPT ![s] = req[r].token]
              /\ Created' = Created \cup {s}
              /\ session' \in [SessionIds -> Rows \cup {NoSession}]
      BY <2>1, NewRow
    <3>2. req[r].token \in SessionIds \cup {NoSession}
      BY <2>1, RequestFields DEF CreateTokenPair, Created
    <3>3. ASSUME NEW t \in Created' PROVE session'[t].familyId \in Created'
      <4>1. CASE t = s
        <5>1. session'[t].familyId = f
          BY <3>1, <4>1 DEF Row
        <5>2. QED
          BY <3>1, <5>1
      <4>2. CASE t # s
        <5>1. t \in Created /\ session'[t] = session[t]
          BY <3>1, <4>2 DEF Created
        <5>2. QED
          BY <3>1, <5>1, RowFields
      <4>3. QED
        BY <4>1, <4>2
    <3>4. TablesOK'
      BY <2>1, <3>1, <3>3 DEF TypeOK, TablesOK, CreateTokenPair
    <3>5. RequestsOK'
      BY <2>1, <3>1, DoneOK DEF TypeOK, CreateTokenPair
    <3>6. HistoryOK'
      BY <2>1, <3>1, <3>2 DEF TypeOK, HistoryOK, CreateTokenPair
    <3>7. QED
      BY <3>4, <3>5, <3>6 DEF TypeOK
  <2>2. CASE RevokeFamily(r)
    <3>1. OfFamily(session[req[r].token].familyId) \in SUBSET Created
      BY DEF OfFamily
    <3>2. TablesOK' /\ Created' = Created
      BY <2>2, <3>1, RevokeOK DEF RevokeFamily, OnlySessions
    <3>3. RequestsOK'
      BY <2>2, <3>2, DoneOK DEF TypeOK, RevokeFamily
    <3>4. QED
      BY <2>2, <3>2, <3>3 DEF TypeOK, HistoryOK, RevokeFamily, OnlySessions, history
  <2>3. CASE RefreshRotate(r)
    <3>1. req[r].token \in Created /\ req[r] # Idle
      BY <2>3, RequestFields DEF RefreshRotate, Doing, Idle
    <3>2. TablesOK' /\ Created' = Created
      BY <2>3, <3>1, RevokeOK DEF RefreshRotate
    <3>3. RequestsOK'
      BY <2>3, <3>1, <3>2, GotoOK DEF RefreshRotate
    <3>4. broken' \subseteq Created'
      BY <2>3, <3>1, <3>2, RowFields DEF RefreshRotate, TypeOK, HistoryOK
    <3>5. QED
      BY <2>3, <3>2, <3>3, <3>4 DEF TypeOK, HistoryOK, RefreshRotate
  <2>4. CASE RevokeSession(r)
    <3>1. req[r].token \in Created
      BY <2>4, RequestFields DEF RevokeSession
    <3>2. TablesOK' /\ Created' = Created
      BY <2>4, <3>1, RevokeOK DEF RevokeSession, OnlySessions
    <3>3. RequestsOK'
      BY <2>4, <3>2, DoneOK DEF TypeOK, RevokeSession
    <3>4. QED
      BY <2>4, <3>2, <3>3 DEF TypeOK, HistoryOK, RevokeSession, OnlySessions, history
  <2>5. CASE RevokeAllSessions(r)
    <3>1. OfUser(req[r].user) \in SUBSET Created
      BY DEF OfUser
    <3>2. TablesOK' /\ Created' = Created
      BY <2>5, <3>1, RevokeOK DEF RevokeAllSessions
    <3>3. RequestsOK'
      BY <2>5, <3>2, DoneOK DEF TypeOK, RevokeAllSessions
    <3>4. QED
      BY <2>5, <3>2, <3>3 DEF TypeOK, HistoryOK, RevokeAllSessions
  <2>6. CASE ChangePassword(r)
    <3>1. Created' = Created /\ req[r] # Idle
      BY <2>6 DEF ChangePassword, Created, Doing, Idle
    <3>2. RequestsOK'
      <4>1. req[r].token = NoSession
        BY <2>6, RequestFields DEF ChangePassword
      <4>2. QED
        BY <2>6, <3>1, <4>1, GotoOK DEF ChangePassword
    <3>3. TablesOK'
      BY <2>6, <3>1 DEF TypeOK, TablesOK, ChangePassword
    <3>4. HistoryOK'
      BY <2>6, <3>1 DEF TypeOK, HistoryOK, ChangePassword, CredentialEvent, OfUser
    <3>5. QED
      BY <3>2, <3>3, <3>4 DEF TypeOK
  <2>7. CASE SetPassword(r)
    <3>1. Created' = Created
      BY <2>7 DEF SetPassword, Created
    <3>2. RequestsOK'
      BY <2>7, <3>1, DoneOK DEF TypeOK, SetPassword
    <3>3. QED
      BY <2>7, <3>1, <3>2 DEF TypeOK, TablesOK, HistoryOK, SetPassword, history
  <2>8. CASE ResetPassword(r)
    <3>1. OfUser(req[r].user) \in SUBSET Created
      BY DEF OfUser
    <3>2. /\ session' \in [SessionIds -> Rows \cup {NoSession}]
          /\ Created' = Created
          /\ \A s \in Created : session'[s].familyId = session[s].familyId
      BY <2>8, <3>1, RevokeRows DEF ResetPassword
    <3>3. TablesOK'
      BY <2>8, <3>2 DEF TypeOK, TablesOK, ResetPassword
    <3>4. RequestsOK'
      BY <2>8, <3>2, DoneOK DEF TypeOK, ResetPassword
    <3>5. HistoryOK'
      BY <2>8, <3>1, <3>2 DEF TypeOK, HistoryOK, ResetPassword, CredentialEvent
    <3>6. QED
      BY <3>3, <3>4, <3>5 DEF TypeOK
  <2>9. CASE DeleteAccount(r)
    <3>1. Created' = Created /\ req[r] # Idle
      BY <2>9 DEF DeleteAccount, Created, Doing, Idle
    <3>2. RequestsOK'
      <4>1. req[r].token = NoSession
        BY <2>9, RequestFields DEF DeleteAccount
      <4>2. QED
        BY <2>9, <3>1, <4>1, GotoOK DEF DeleteAccount
    <3>3. TablesOK'
      BY <2>9, <3>1 DEF TypeOK, TablesOK, DeleteAccount
    <3>4. HistoryOK'
      BY <2>9, <3>1 DEF TypeOK, HistoryOK, DeleteAccount, CredentialEvent, OfUser
    <3>5. QED
      BY <3>2, <3>3, <3>4 DEF TypeOK
  <2>10. CASE Restore(r)
    <3>1. Created' = Created /\ req[r] # Idle
      BY <2>10 DEF Restore, Created, Doing, Idle
    <3>2. RequestsOK'
      BY <2>10, <3>1, GotoOK DEF Restore
    <3>3. QED
      BY <2>10, <3>1, <3>2 DEF TypeOK, TablesOK, HistoryOK, Restore, history
  <2>11. QED
    BY <1>2, <2>1, <2>2, <2>3, <2>4, <2>5, <2>6, <2>7, <2>8, <2>9, <2>10 DEF Step
<1>3. ASSUME NEW r \in Requests, Abort(r) PROVE TypeOK'
  <2>1. Created' = Created
    BY <1>3 DEF Abort, tables, Created
  <2>2. RequestsOK'
    BY <1>3, <2>1, DoneOK DEF TypeOK, Abort
  <2>3. lost' \subseteq Users
    <3>1. CASE Doing(r, "revokeAll")
      <4>1. req[r].user \in Users
        BY <3>1, RequestFields DEF Writes, TokenWrites
      <4>2. QED
        BY <1>3, <4>1 DEF Abort, TypeOK, HistoryOK
    <3>2. CASE ~Doing(r, "revokeAll")
      BY <1>3, <3>2 DEF Abort, TypeOK, HistoryOK
    <3>3. QED
      BY <3>1, <3>2
  <2>4. QED
    BY <1>3, <2>1, <2>2, <2>3 DEF TypeOK, TablesOK, HistoryOK, Abort, tables
<1>4. ASSUME NEW s \in SessionIds, Logout(s) PROVE TypeOK'
  <2>1. {s} \in SUBSET Created
    BY <1>4 DEF Logout
  <2>2. TablesOK' /\ Created' = Created
    BY <1>4, <2>1, RevokeOK DEF Logout, OnlySessions
  <2>3. QED
    BY <1>4, <2>2 DEF TypeOK, RequestsOK, HistoryOK, Doing, Logout, OnlySessions, history
<1>5. CASE UNCHANGED vars
  BY <1>5 DEF vars, tables, history, TypeOK, TablesOK, RequestsOK, HistoryOK, Created
<1>6. QED
  BY <1>1, <1>2, <1>3, <1>4, <1>5 DEF Next

(* The state is always of its type: in particular a session's family exists,
   and no request loses the session it works on. *)
THEOREM TypeCorrect == Spec => []TypeOK
<1>1. Init => TypeOK
  <2> SUFFICES ASSUME Init PROVE TypeOK
    OBVIOUS
  <2>1. Created = {}
    BY DEF Init, Created
  <2>2. QED
    BY <2>1 DEF Init, TypeOK, TablesOK, RequestsOK, HistoryOK
<1>2. QED
  BY <1>1, TypeStep, PTL DEF Spec

-----------------------------------------------------------------------------
(* Rotation.  Of all steps only createTokenPair adds a row and only it and
   the rotation itself say anything new about families: the rest is quiet. *)

RowsKeep ==
    \A s \in Created :
        /\ s \in Created'
        /\ session'[s].userId = session[s].userId
        /\ session'[s].familyId = session[s].familyId
        /\ session[s].revoked => session'[s].revoked

Quiet ==
    /\ Created' = Created
    /\ UNCHANGED <<parent, broken>>
    /\ RowsKeep
    /\ \A q \in Requests :
          \/ req'[q] = req[q]
          \/ req'[q] = Idle
          \/ req'[q].token = NoSession
          \/ /\ req'[q].next \in TokenWrites
             /\ req'[q].user = session[req'[q].token].userId

LEMMA BeginQuiet ==
    ASSUME TypeOK, NEW r \in Requests, NEW w \in Writes, NEW u \in Users,
           NEW s \in Created \cup {NoSession},
           \/ s = NoSession
           \/ w \in TokenWrites /\ u = session[s].userId,
           Begin(r, w, u, s)
    PROVE  Quiet
<1>1. /\ Request(w, u, s).next = w
      /\ Request(w, u, s).user = u
      /\ Request(w, u, s).token = s
  BY RequestRecord DEF Created
<1>2. /\ req' = [req EXCEPT ![r] = Request(w, u, s)]
      /\ UNCHANGED <<tables, history>>
  BY DEF Begin
<1>3. Created' = Created /\ UNCHANGED <<parent, broken>> /\ RowsKeep
  BY <1>2 DEF tables, history, Created, RowsKeep
<1>4. ASSUME NEW q \in Requests
      PROVE  \/ req'[q] = req[q]
             \/ req'[q].token = NoSession
             \/ /\ req'[q].next \in TokenWrites
                /\ req'[q].user = session[req'[q].token].userId
  <2>1. CASE q = r
    BY <1>1, <1>2, <2>1 DEF TypeOK, RequestsOK
  <2>2. CASE q # r
    BY <1>2, <2>2 DEF TypeOK, RequestsOK
  <2>3. QED
    BY <2>1, <2>2
<1>5. QED
  BY <1>3, <1>4 DEF Quiet

(* A request that ends, or goes on without a token, is quiet too. *)
LEMMA EndQuiet ==
    ASSUME TypeOK, NEW r \in Requests, Created' = Created, RowsKeep,
           UNCHANGED <<parent, broken>>,
           \/ req' = req
           \/ req' = Done(r)
           \/ /\ req[r] # Idle /\ req[r].token = NoSession
              /\ \E w \in Writes \ TokenWrites : req' = Goto(r, w)
    PROVE  Quiet
<1>1. CASE req' = req
  BY <1>1 DEF Quiet
<1>2. CASE req' = Done(r)
  BY <1>2 DEF Quiet, Done, TypeOK, RequestsOK
<1>3. ASSUME req[r] # Idle, req[r].token = NoSession,
             NEW w \in Writes \ TokenWrites, req' = Goto(r, w)
      PROVE  Quiet
  <2>1. /\ req'[r].token = NoSession
        /\ \A q \in Requests \ {r} : req'[q] = req[q]
    BY <1>3, GotoFields
  <2>2. QED
    BY <2>1 DEF Quiet
<1>4. QED
  BY <1>1, <1>2, <1>3

LEMMA RevokeKeepsRows ==
    ASSUME TypeOK, NEW S \in SUBSET Created, session' = Revoke(S)
    PROVE  Created' = Created /\ RowsKeep
BY RevokeRows DEF RowsKeep

LEMMA StepKinds ==
    ASSUME TypeOK, [Next]_vars
    PROVE  \/ Quiet
           \/ \E r \in Requests : CreateTokenPair(r)
           \/ \E r \in Requests : RefreshRotate(r)
<1>1. ASSUME NEW r \in Requests, Arrive(r) PROVE Quiet
  <2> USE DEF Writes, TokenWrites
  <2>1. ASSUME NEW u \in Users,
               \/ Login(r, u) \/ SignInWithoutPassword(r, u) \/ ChangePasswordRead(r, u)
               \/ SetPasswordRead(r, u) \/ ResetPasswordRead(r, u)
               \/ DeleteAccountRead(r, u) \/ RestoreRead(r, u)
        PROVE  Quiet
    <3>1. PICK w \in Writes : Begin(r, w, u, NoSession)
      BY <2>1 DEF Login, SignInWithoutPassword, ChangePasswordRead, SetPasswordRead,
                  ResetPasswordRead, DeleteAccountRead, RestoreRead
    <3>2. QED
      BY <3>1, BeginQuiet
  <2>2. ASSUME NEW s \in SessionIds, RefreshRead(r, s) \/ RevokeSessionRead(r, s)
        PROVE  Quiet
    <3>1. s \in Created
      BY <2>2 DEF RefreshRead, RevokeSessionRead, Live
    <3>2. session[s].userId \in Users
      BY <3>1, RowFields
    <3>3. PICK w \in TokenWrites : Begin(r, w, session[s].userId, s)
      BY <2>2 DEF RefreshRead, RevokeSessionRead
    <3>4. w \in Writes
      OBVIOUS
    <3>5. QED
      BY <3>1, <3>2, <3>3, <3>4, BeginQuiet
  <2>3. QED
    BY <1>1, <2>1, <2>2 DEF Arrive
<1>2. ASSUME NEW r \in Requests, Step(r), ~CreateTokenPair(r), ~RefreshRotate(r)
      PROVE  Quiet
  <2>1. CASE RevokeFamily(r)
    <3>1. OfFamily(session[req[r].token].familyId) \in SUBSET Created
      BY DEF OfFamily
    <3>2. Created' = Created /\ RowsKeep
      BY <2>1, <3>1, RevokeKeepsRows DEF RevokeFamily
    <3>3. QED
      BY <2>1, <3>2, EndQuiet DEF RevokeFamily, OnlySessions, history
  <2>2. CASE RevokeSession(r)
    <3>1. req[r].token \in Created
      BY <2>2, RequestFields DEF RevokeSession, Writes, TokenWrites
    <3>2. Created' = Created /\ RowsKeep
      BY <2>2, <3>1, RevokeKeepsRows DEF RevokeSession
    <3>3. QED
      BY <2>2, <3>2, EndQuiet DEF RevokeSession, OnlySessions, history
  <2>3. CASE RevokeAllSessions(r)
    <3>1. OfUser(req[r].user) \in SUBSET Created
      BY DEF OfUser
    <3>2. Created' = Created /\ RowsKeep
      BY <2>3, <3>1, RevokeKeepsRows DEF RevokeAllSessions
    <3>3. QED
      BY <2>3, <3>2, EndQuiet DEF RevokeAllSessions
  <2>4. CASE ResetPassword(r)
    <3>1. OfUser(req[r].user) \in SUBSET Created
      BY DEF OfUser
    <3>2. Created' = Created /\ RowsKeep
      BY <2>4, <3>1, RevokeKeepsRows DEF ResetPassword
    <3>3. QED
      BY <2>4, <3>2, EndQuiet DEF ResetPassword
  <2>5. CASE SetPassword(r)
    BY <2>5, EndQuiet DEF SetPassword, history, Created, RowsKeep
  <2>6. CASE ChangePassword(r) \/ DeleteAccount(r) \/ Restore(r)
    <3>1. PICK w \in {"changePassword", "delete", "restore"} : Doing(r, w)
      BY <2>6 DEF ChangePassword, DeleteAccount, Restore
    <3>2. req[r] # Idle /\ req[r].token = NoSession
      <4>1. w \in Writes /\ w \notin TokenWrites \cup {"create"}
        BY DEF Writes, TokenWrites
      <4>2. req[r].token = NoSession
        BY <3>1, <4>1, RequestFields
      <4>3. QED
        BY <3>1, <4>1, <4>2 DEF Doing, Idle, Writes, TokenWrites
    <3>3. \E v \in Writes \ TokenWrites : req' = Goto(r, v)
      <4>1. {"revokeAll", "create"} \subseteq Writes \ TokenWrites
        BY DEF Writes, TokenWrites
      <4>2. req' = Goto(r, "revokeAll") \/ req' = Goto(r, "create")
        BY <2>6 DEF ChangePassword, DeleteAccount, Restore
      <4>3. QED
        BY <4>1, <4>2
    <3>4. session' = session /\ UNCHANGED <<parent, broken>>
      BY <2>6 DEF ChangePassword, DeleteAccount, Restore, history
    <3>5. Created' = Created /\ RowsKeep
      BY <3>4 DEF Created, RowsKeep
    <3>6. QED
      BY <3>2, <3>3, <3>4, <3>5, EndQuiet
  <2>7. QED
    BY <1>2, <2>1, <2>2, <2>3, <2>4, <2>5, <2>6 DEF Step
<1>3. ASSUME NEW r \in Requests, Abort(r) PROVE Quiet
  BY <1>3, EndQuiet DEF Abort, tables, Created, RowsKeep
<1>4. ASSUME NEW s \in SessionIds, Logout(s) PROVE Quiet
  <2>1. {s} \in SUBSET Created
    BY <1>4 DEF Logout
  <2>2. Created' = Created /\ RowsKeep
    BY <1>4, <2>1, RevokeKeepsRows DEF Logout
  <2>3. QED
    BY <1>4, <2>2 DEF Logout, OnlySessions, history, Quiet
<1>5. CASE UNCHANGED vars
  BY <1>5 DEF vars, tables, history, Quiet, Created, RowsKeep
<1>6. QED
  BY <1>1, <1>2, <1>3, <1>4, <1>5 DEF Next

(* The effect of the rotation. *)
LEMMA RotateEffect ==
    ASSUME TypeOK, NEW r \in Requests, RefreshRotate(r)
    PROVE  LET s == req[r].token IN
           /\ s \in Created /\ req[r] # Idle
           /\ Created' = Created /\ parent' = parent /\ RowsKeep
           /\ session'[s].revoked
           /\ \A t \in Created \ {s} : session'[t].revoked = session[t].revoked
           /\ broken \subseteq broken'
           /\ session[s].familyId \notin broken' => ~session[s].revoked
           /\ req'[r].next = "create" /\ req'[r].user = req[r].user /\ req'[r].token = s
           /\ \A q \in Requests \ {r} : req'[q] = req[q]
<1> DEFINE s == req[r].token
<1>1. /\ s \in Created
      /\ req[r] # Idle
  BY RequestFields DEF RefreshRotate, Doing, Idle, Writes, TokenWrites
<1>2. /\ Created' = Created
      /\ \A t \in Created :
           /\ session'[t].userId = session[t].userId
           /\ session'[t].familyId = session[t].familyId
           /\ session'[t].revoked = (session[t].revoked \/ t \in {s})
  <2>1. {s} \in SUBSET Created
    BY <1>1
  <2>2. session' = Revoke({s})
    BY DEF RefreshRotate
  <2> HIDE DEF s
  <2>3. QED
    BY <2>1, <2>2, RevokeRows
<1>3. \A t \in Created : session[t].revoked \in BOOLEAN
  BY RowFields
<1>4. /\ session'[s].revoked
      /\ \A t \in Created \ {s} : session'[t].revoked = session[t].revoked
      /\ RowsKeep
  BY <1>1, <1>2, <1>3 DEF RowsKeep
<1>5. /\ broken \subseteq broken'
      /\ session[s].familyId \notin broken' => ~session[s].revoked
  BY DEF RefreshRotate
<1>6. "create" \in Writes \ TokenWrites
  BY DEF Writes, TokenWrites
<1>7. /\ req'[r].next = "create" /\ req'[r].user = req[r].user /\ req'[r].token = s
      /\ \A q \in Requests \ {r} : req'[q] = req[q]
  BY <1>1, <1>6, GotoFields DEF RefreshRotate
<1>8. parent' = parent
  BY DEF RefreshRotate
<1>9. QED
  BY <1>1, <1>2, <1>4, <1>5, <1>7, <1>8

(* The effect of createTokenPair on requests and on the rows there were. *)
LEMMA CreateEffect ==
    ASSUME TypeOK, NEW r \in Requests, CreateTokenPair(r)
    PROVE  /\ Doing(r, "create") /\ req[r] # Idle
           /\ req[r].token \in Created \cup {NoSession}
           /\ broken' = broken
           /\ req'[r] = Idle
           /\ \A q \in Requests \ {r} : req'[q] = req[q]
           /\ \E s \in SessionIds \ Created, f \in SessionIds :
                /\ IF req[r].token = NoSession THEN f = s
                   ELSE f = session[req[r].token].familyId /\ f \in Created
                /\ session'[s].familyId = f
                /\ session'[s].userId = req[r].user
                /\ session'[s].revoked = FALSE
                /\ \A t \in Created : session'[t] = session[t]
                /\ Created' = Created \cup {s}
                /\ parent'[s] = req[r].token
                /\ \A t \in SessionIds \ {s} : parent'[t] = parent[t]
<1>1. /\ Doing(r, "create") /\ req[r] # Idle
      /\ req[r].token \in Created \cup {NoSession}
  BY RequestFields DEF CreateTokenPair, Doing, Idle, Writes, TokenWrites
<1>2. /\ broken' = broken
      /\ req'[r] = Idle
      /\ \A q \in Requests \ {r} : req'[q] = req[q]
  BY DEF CreateTokenPair, Done, TypeOK, RequestsOK
<1>3. PICK s \in SessionIds \ Created, f \in SessionIds :
        /\ IF req[r].token = NoSession THEN f = s
           ELSE f = session[req[r].token].familyId /\ f \in Created
        /\ session'[s] = Row(req[r].user, f, FALSE)
        /\ \A t \in SessionIds \ {s} : session'[t] = session[t]
        /\ parent' = [parent EXCEPT ![s] = req[r].token]
        /\ Created' = Created \cup {s}
  BY NewRow
<1>4. /\ session'[s].familyId = f
      /\ session'[s].userId = req[r].user
      /\ session'[s].revoked = FALSE
  BY <1>3 DEF Row
<1>5. \A t \in Created : session'[t] = session[t]
  BY <1>3 DEF Created
<1>6. /\ parent'[s] = req[r].token
      /\ \A t \in SessionIds \ {s} : parent'[t] = parent[t]
  BY <1>3 DEF TypeOK, HistoryOK
<1>7. QED
  BY <1>1, <1>2, <1>3, <1>4, <1>5, <1>6

(* Holders can only be lost by a step that adds none. *)
LEMMA FewerHolders ==
    ASSUME OneHolder, NEW f \in SessionIds \ broken,
           Live' \cap OfFamily(f)' \subseteq Live \cap OfFamily(f),
           Rotating(f)' \subseteq Rotating(f)
    PROVE  /\ \A s, t \in Live' \cap OfFamily(f)' : s = t
           /\ \A q, r \in Rotating(f)' : q = r
           /\ Live' \cap OfFamily(f)' # {} => Rotating(f)' = {}
BY DEF OneHolder

LEMMA HolderQuiet == ASSUME TypeOK, OneHolder, Quiet PROVE OneHolder'
<1> SUFFICES ASSUME NEW f \in SessionIds \ broken
             PROVE  /\ \A s, t \in Live' \cap OfFamily(f)' : s = t
                    /\ \A q, r \in Rotating(f)' : q = r
                    /\ Live' \cap OfFamily(f)' # {} => Rotating(f)' = {}
  BY DEF OneHolder, Quiet
<1>1. OfFamily(f)' = OfFamily(f)
  BY DEF Quiet, RowsKeep, OfFamily
<1>2. Live' \subseteq Live
  BY DEF Quiet, RowsKeep, Live
<1>3. ASSUME NEW q \in Rotating(f)' PROVE q \in Rotating(f)
  <2>1. q \in Requests /\ req'[q].next = "create" /\ req'[q].token \in OfFamily(f)
    BY <1>1, <1>3 DEF Rotating, Doing
  <2>2. req'[q].token # NoSession /\ req'[q] # Idle /\ req'[q].next \notin TokenWrites
    BY <2>1, SessionsAssumption DEF OfFamily, Created, Idle, TokenWrites
  <2>3. req'[q] = req[q]
    BY <2>1, <2>2 DEF Quiet
  <2>4. QED
    BY <2>1, <2>3 DEF Rotating, Doing
<1>4. QED
  BY <1>1, <1>2, <1>3, FewerHolders

LEMMA HolderRotate ==
    ASSUME TypeOK, OneHolder, NEW r \in Requests, RefreshRotate(r)
    PROVE  OneHolder'
<1> DEFINE s == req[r].token
           g == session[s].familyId
<1>1. /\ s \in Created /\ req[r] # Idle
      /\ Created' = Created /\ RowsKeep
      /\ session'[s].revoked
      /\ \A t \in Created \ {s} : session'[t].revoked = session[t].revoked
      /\ broken \subseteq broken'
      /\ g \notin broken' => ~session[s].revoked
      /\ req'[r].next = "create" /\ req'[r].token = s
      /\ \A q \in Requests \ {r} : req'[q] = req[q]
  BY RotateEffect
<1> HIDE DEF s, g
<1> SUFFICES ASSUME NEW f \in SessionIds \ broken'
             PROVE  /\ \A t, u \in Live' \cap OfFamily(f)' : t = u
                    /\ \A q, p \in Rotating(f)' : q = p
                    /\ Live' \cap OfFamily(f)' # {} => Rotating(f)' = {}
  BY DEF OneHolder
<1>2. f \in SessionIds \ broken
  BY <1>1
<1>3. OfFamily(f)' = OfFamily(f)
  BY <1>1 DEF RowsKeep, OfFamily
<1>4. Live' = Live \ {s}
  BY <1>1 DEF Live
<1>5. \A q \in Requests \ {r} : q \in Rotating(f)' <=> q \in Rotating(f)
  BY <1>1, <1>3 DEF Rotating, Doing
<1>6. CASE f = g
  <2>1. s \in Live \cap OfFamily(f)
    BY <1>1, <1>6 DEF Live, OfFamily, g
  <2>2. Rotating(f) = {} /\ \A t \in Live \cap OfFamily(f) : t = s
    BY <1>2, <2>1 DEF OneHolder
  <2>3. Live' \cap OfFamily(f)' = {}
    BY <1>3, <1>4, <2>2
  <2>4. Rotating(f)' \subseteq {r}
    BY <1>5, <2>2 DEF Rotating
  <2>5. QED
    BY <2>3, <2>4
<1>7. CASE f # g
  <2>1. s \notin OfFamily(f)
    BY <1>7 DEF OfFamily, g
  <2>2. r \notin Rotating(f)'
    BY <1>1, <1>3, <2>1 DEF Rotating
  <2>3. Rotating(f)' \subseteq Rotating(f)
    BY <1>5, <2>2 DEF Rotating
  <2>4. Live' \cap OfFamily(f)' \subseteq Live \cap OfFamily(f)
    BY <1>3, <1>4
  <2>5. QED
    BY <1>2, <2>3, <2>4, FewerHolders
<1>8. QED
  BY <1>6, <1>7

LEMMA HolderCreate ==
    ASSUME TypeOK, OneHolder, NEW r \in Requests, CreateTokenPair(r)
    PROVE  OneHolder'
<1>1. /\ Doing(r, "create")
      /\ req[r].token \in Created \cup {NoSession}
      /\ broken' = broken
      /\ req'[r] = Idle
      /\ \A q \in Requests \ {r} : req'[q] = req[q]
  BY CreateEffect
<1>2. PICK s \in SessionIds \ Created, g \in SessionIds :
        /\ IF req[r].token = NoSession THEN g = s
           ELSE g = session[req[r].token].familyId /\ g \in Created
        /\ session'[s].familyId = g
        /\ session'[s].revoked = FALSE
        /\ \A t \in Created : session'[t] = session[t]
        /\ Created' = Created \cup {s}
  BY CreateEffect
<1> SUFFICES ASSUME NEW f \in SessionIds \ broken
             PROVE  /\ \A t, u \in Live' \cap OfFamily(f)' : t = u
                    /\ \A q, p \in Rotating(f)' : q = p
                    /\ Live' \cap OfFamily(f)' # {} => Rotating(f)' = {}
  BY <1>1 DEF OneHolder
<1>3. OfFamily(f)' = IF f = g THEN OfFamily(f) \cup {s} ELSE OfFamily(f)
  BY <1>2 DEF OfFamily
<1>4. Live' = Live \cup {s}
  BY <1>2 DEF Live
<1>5. ASSUME NEW q \in Rotating(f)' PROVE q \in Rotating(f) \ {r}
  <2>1. q \in Requests /\ req'[q].next = "create" /\ req'[q].token \in OfFamily(f)'
    BY <1>5 DEF Rotating, Doing
  <2>2. q # r
    BY <1>1, <2>1 DEF Idle
  <2>3. req'[q] = req[q] /\ req[q] # Idle
    BY <1>1, <2>1, <2>2 DEF Idle
  <2>4. req[q].token # s
    <3>1. req[q].token \in Created \cup {NoSession}
      BY <2>1, <2>3 DEF TypeOK, RequestsOK
    <3>2. QED
      BY <3>1, SessionsAssumption
  <2>5. req[q].token \in OfFamily(f)
    BY <1>3, <2>1, <2>3, <2>4
  <2>6. QED
    BY <2>1, <2>2, <2>3, <2>5 DEF Rotating, Doing
<1>6. CASE f = g
  <2>1. Live \cap OfFamily(f) = {} /\ Rotating(f) \subseteq {r}
    <3>1. CASE req[r].token = NoSession
      <4>1. OfFamily(f) = {}
        BY <1>2, <1>6, <3>1, RowFields DEF OfFamily
      <4>2. Rotating(f) = {}
        BY <4>1 DEF Rotating
      <4>3. QED
        BY <4>1, <4>2
    <3>2. CASE req[r].token # NoSession
      <4>1. r \in Rotating(f)
        BY <1>1, <1>2, <1>6, <3>2 DEF Rotating, OfFamily
      <4>2. QED
        BY <4>1 DEF OneHolder
    <3>3. QED
      BY <3>1, <3>2
  <2>2. Live' \cap OfFamily(f)' \subseteq {s}
    BY <1>3, <1>4, <2>1, <1>6 DEF Live, OfFamily
  <2>3. Rotating(f)' = {}
    BY <1>5, <2>1
  <2>4. QED
    BY <2>2, <2>3
<1>7. CASE f # g
  <2>1. Live' \cap OfFamily(f)' \subseteq Live \cap OfFamily(f)
    BY <1>2, <1>3, <1>4, <1>7 DEF OfFamily
  <2>2. Rotating(f)' \subseteq Rotating(f)
    BY <1>5
  <2>3. QED
    BY <2>1, <2>2, FewerHolders
<1>8. QED
  BY <1>6, <1>7

(* Steps that record no new parent keep the lineage, and what a refresh
   knows about the token it revoked. *)
LEMMA LineageKept ==
    ASSUME TypeOK, Lineage, parent' = parent, RowsKeep, broken \subseteq broken'
    PROVE  Lineage'
<1>1. ASSUME NEW s \in SessionIds, parent[s] # NoSession
      PROVE  /\ {s, parent[s]} \subseteq Created'
             /\ session'[parent[s]].revoked
             /\ session'[s].familyId = session'[parent[s]].familyId
             /\ session'[s].userId = session'[parent[s]].userId
             /\ session'[s].familyId = session[s].familyId
  BY <1>1 DEF Lineage, RowsKeep
<1>2. ASSUME NEW s \in SessionIds, NEW t \in SessionIds,
             parent[s] # NoSession, parent[s] = parent[t],
             session'[s].familyId \notin broken'
      PROVE  s = t
  <2>1. session[s].familyId \notin broken
    BY <1>1, <1>2
  <2>2. QED
    BY <1>2, <2>1 DEF Lineage
<1>3. QED
  BY <1>1, <1>2 DEF Lineage

LEMMA LineageCreate ==
    ASSUME TypeOK, Lineage, RotationsAgree, NEW r \in Requests, CreateTokenPair(r)
    PROVE  Lineage'
<1> DEFINE p == req[r].token
<1>1. /\ Doing(r, "create") /\ req[r] # Idle
      /\ p \in Created \cup {NoSession}
      /\ broken' = broken
  BY CreateEffect
<1>2. PICK s \in SessionIds \ Created, g \in SessionIds :
        /\ IF p = NoSession THEN g = s
           ELSE g = session[p].familyId /\ g \in Created
        /\ session'[s].familyId = g
        /\ session'[s].userId = req[r].user
        /\ session'[s].revoked = FALSE
        /\ \A t \in Created : session'[t] = session[t]
        /\ Created' = Created \cup {s}
        /\ parent'[s] = p
        /\ \A t \in SessionIds \ {s} : parent'[t] = parent[t]
  BY CreateEffect
<1>3. p # NoSession => /\ req[r].user = session[p].userId
                       /\ session[p].revoked
                       /\ session[p].familyId \notin broken =>
                            \A t \in SessionIds : parent[t] # p
  BY <1>1 DEF RotationsAgree
<1> HIDE DEF p
<1>4. ASSUME NEW t \in SessionIds, parent'[t] # NoSession
      PROVE  /\ {t, parent'[t]} \subseteq Created'
             /\ session'[parent'[t]].revoked
             /\ session'[t].familyId = session'[parent'[t]].familyId
             /\ session'[t].userId = session'[parent'[t]].userId
  <2>1. CASE t = s
    <3>1. parent'[t] = p /\ p \in Created /\ session'[p] = session[p]
      BY <1>1, <1>2, <1>4, <2>1
    <3>2. QED
      BY <1>2, <1>3, <1>4, <2>1, <3>1
  <2>2. CASE t # s
    <3>1. parent'[t] = parent[t]
      BY <1>2, <2>2
    <3>2. {t, parent[t]} \subseteq Created
      BY <1>4, <3>1 DEF Lineage
    <3>3. session'[t] = session[t] /\ session'[parent[t]] = session[parent[t]]
      BY <1>2, <3>2
    <3>4. QED
      BY <1>2, <1>4, <3>1, <3>2, <3>3 DEF Lineage
  <2>3. QED
    BY <2>1, <2>2
<1>5. ASSUME NEW t \in SessionIds, NEW u \in SessionIds,
             parent'[t] # NoSession, parent'[t] = parent'[u],
             session'[t].familyId \notin broken
      PROVE  t = u
  <2>1. ASSUME NEW v \in SessionIds, v # s, parent'[v] = p, p # NoSession,
               session'[v].familyId \notin broken
        PROVE  FALSE
    <3>1. parent[v] = p
      BY <1>2, <2>1
    <3>2. v \in Created /\ session[v].familyId = session[p].familyId
      BY <2>1, <3>1 DEF Lineage
    <3>3. session'[v] = session[v]
      BY <1>2, <3>2
    <3>4. session[p].familyId \notin broken
      BY <2>1, <3>2, <3>3
    <3>5. QED
      BY <1>3, <2>1, <3>1, <3>4
  <2>2. session'[u].familyId \notin broken
    <3>1. parent'[u] # NoSession
      BY <1>5
    <3>2. /\ session'[u].familyId = session'[parent'[u]].familyId
          /\ session'[t].familyId = session'[parent'[t]].familyId
      BY <1>4, <1>5, <3>1
    <3>3. QED
      BY <1>5, <3>2
  <2>3. CASE t = s
    BY <1>2, <1>5, <2>1, <2>2, <2>3
  <2>4. CASE u = s
    BY <1>2, <1>5, <2>1, <2>4
  <2>5. CASE t # s /\ u # s
    <3>1. parent[t] # NoSession /\ parent[t] = parent[u]
      BY <1>2, <1>5, <2>5
    <3>2. t \in Created
      BY <3>1 DEF Lineage
    <3>3. session[t].familyId \notin broken
      BY <1>2, <1>5, <3>2
    <3>4. QED
      BY <3>1, <3>3 DEF Lineage
  <2>6. QED
    BY <2>3, <2>4, <2>5
<1>6. QED
  BY <1>1, <1>4, <1>5 DEF Lineage

LEMMA AgreeQuiet == ASSUME TypeOK, TypeOK', RotationsAgree, Quiet PROVE RotationsAgree'
<1> SUFFICES ASSUME NEW r \in Requests, req'[r] # Idle, req'[r].token # NoSession
             PROVE  LET s == req'[r].token IN
                      /\ req'[r].user = session'[s].userId
                      /\ req'[r].next = "create" =>
                           /\ session'[s].revoked
                           /\ session'[s].familyId \notin broken =>
                                \A t \in SessionIds : parent[t] # s
  BY DEF RotationsAgree, Quiet, Doing
<1> DEFINE s == req'[r].token
<1>1. s \in Created
  BY DEF TypeOK, RequestsOK, Quiet
<1>2. /\ session'[s].userId = session[s].userId
      /\ session'[s].familyId = session[s].familyId
      /\ session[s].revoked => session'[s].revoked
  BY <1>1 DEF Quiet, RowsKeep
<1>3. CASE req'[r] = req[r]
  BY <1>2, <1>3 DEF RotationsAgree, Doing
<1>4. CASE req'[r].next \in TokenWrites /\ req'[r].user = session[s].userId
  BY <1>2, <1>4 DEF TokenWrites
<1>5. QED
  BY <1>3, <1>4 DEF Quiet

LEMMA AgreeRotate ==
    ASSUME TypeOK, Lineage, RotationsAgree, NEW r \in Requests, RefreshRotate(r)
    PROVE  RotationsAgree'
<1> DEFINE p == req[r].token
<1>1. /\ p \in Created /\ req[r] # Idle
      /\ Created' = Created /\ parent' = parent /\ RowsKeep
      /\ session'[p].revoked
      /\ broken \subseteq broken'
      /\ session[p].familyId \notin broken' => ~session[p].revoked
      /\ req'[r].next = "create" /\ req'[r].user = req[r].user /\ req'[r].token = p
      /\ \A q \in Requests \ {r} : req'[q] = req[q]
  BY RotateEffect
<1>2. p # NoSession /\ req[r].user = session[p].userId
  BY <1>1, SessionsAssumption DEF RotationsAgree, Created
<1> HIDE DEF p
<1> SUFFICES ASSUME NEW q \in Requests, req'[q] # Idle, req'[q].token # NoSession
             PROVE  LET s == req'[q].token IN
                      /\ req'[q].user = session'[s].userId
                      /\ req'[q].next = "create" =>
                           /\ session'[s].revoked
                           /\ session'[s].familyId \notin broken' =>
                                \A t \in SessionIds : parent[t] # s
  BY <1>1 DEF RotationsAgree, Doing
<1>3. CASE q = r
  <2>1. /\ session'[p].userId = session[p].userId
        /\ session'[p].familyId = session[p].familyId
    BY <1>1 DEF RowsKeep
  <2>2. ASSUME session'[p].familyId \notin broken', NEW t \in SessionIds
        PROVE  parent[t] # p
    <3>1. ~session[p].revoked
      BY <1>1, <2>1, <2>2
    <3>2. QED
      BY <1>2, <3>1 DEF Lineage
  <2>3. QED
    BY <1>1, <1>2, <1>3, <2>1, <2>2
<1>4. CASE q # r
  <2> DEFINE s == req[q].token
  <2>1. req'[q] = req[q] /\ s \in Created /\ s # NoSession /\ req[q] # Idle
    BY <1>1, <1>4 DEF TypeOK, RequestsOK
  <2>2. /\ session'[s].userId = session[s].userId
        /\ session'[s].familyId = session[s].familyId
        /\ session[s].revoked => session'[s].revoked
    BY <1>1, <2>1 DEF RowsKeep
  <2>3. /\ req[q].user = session[s].userId
        /\ req[q].next = "create" =>
             /\ session[s].revoked
             /\ session[s].familyId \notin broken => \A t \in SessionIds : parent[t] # s
    BY <2>1 DEF RotationsAgree, Doing
  <2>4. QED
    BY <1>1, <2>1, <2>2, <2>3
<1>5. QED
  BY <1>3, <1>4

LEMMA AgreeCreate ==
    ASSUME TypeOK, OneHolder, RotationsAgree, NEW r \in Requests, CreateTokenPair(r)
    PROVE  RotationsAgree'
<1> DEFINE p == req[r].token
<1>1. /\ Doing(r, "create") /\ req[r] # Idle
      /\ p \in Created \cup {NoSession}
      /\ broken' = broken
      /\ req'[r] = Idle
      /\ \A q \in Requests \ {r} : req'[q] = req[q]
  BY CreateEffect
<1>2. PICK s \in SessionIds \ Created :
        /\ \A t \in Created : session'[t] = session[t]
        /\ parent'[s] = p
        /\ \A t \in SessionIds \ {s} : parent'[t] = parent[t]
  BY CreateEffect
<1> HIDE DEF p
<1> SUFFICES ASSUME NEW q \in Requests, req'[q] # Idle, req'[q].token # NoSession
             PROVE  LET w == req'[q].token IN
                      /\ req'[q].user = session'[w].userId
                      /\ req'[q].next = "create" =>
                           /\ session'[w].revoked
                           /\ session'[w].familyId \notin broken =>
                                \A t \in SessionIds : parent'[t] # w
  BY <1>1 DEF RotationsAgree, Doing
<1> DEFINE w == req[q].token
<1>3. /\ q # r /\ req'[q] = req[q] /\ req[q] # Idle
      /\ w \in Created /\ w # NoSession
      /\ session'[w] = session[w]
  <2>1. q # r
    BY <1>1
  <2>2. req'[q] = req[q]
    BY <1>1, <2>1
  <2>3. w \in Created /\ w # NoSession
    BY <2>2 DEF TypeOK, RequestsOK
  <2>4. QED
    BY <1>2, <2>1, <2>2, <2>3
<1>4. /\ req[q].user = session[w].userId
      /\ req[q].next = "create" =>
           /\ session[w].revoked
           /\ session[w].familyId \notin broken => \A t \in SessionIds : parent[t] # w
  BY <1>3 DEF RotationsAgree, Doing
<1>5. ASSUME req[q].next = "create", session[w].familyId \notin broken
      PROVE  p # w
  <2>1. SUFFICES ASSUME p = w PROVE FALSE
    OBVIOUS
  <2>2. session[w].familyId \in SessionIds \ broken
    BY <1>3, <1>5, RowFields DEF Created
  <2>3. q \in Rotating(session[w].familyId) /\ r \in Rotating(session[w].familyId)
    BY <1>1, <1>3, <1>5, <2>1 DEF Rotating, OfFamily, Doing, p
  <2>4. QED
    BY <1>3, <2>2, <2>3 DEF OneHolder
<1>6. ASSUME req[q].next = "create", session[w].familyId \notin broken,
             NEW t \in SessionIds
      PROVE  parent'[t] # w
  BY <1>2, <1>4, <1>5, <1>6
<1>7. QED
  BY <1>3, <1>4, <1>6

LEMMA RotationStep == RotationInv /\ [Next]_vars => RotationInv'
<1> SUFFICES ASSUME TypeOK, OneHolder, Lineage, RotationsAgree, [Next]_vars
             PROVE  RotationInv'
  BY DEF RotationInv
<1>1. TypeOK'
  BY TypeStep
<1>2. CASE Quiet
  <2>1. Lineage'
    BY <1>2, LineageKept DEF Quiet
  <2>2. QED
    BY <1>1, <1>2, <2>1, HolderQuiet, AgreeQuiet DEF RotationInv
<1>3. ASSUME NEW r \in Requests, CreateTokenPair(r) PROVE RotationInv'
  BY <1>1, <1>3, HolderCreate, LineageCreate, AgreeCreate DEF RotationInv
<1>4. ASSUME NEW r \in Requests, RefreshRotate(r) PROVE RotationInv'
  <2>1. Lineage'
    BY <1>4, RotateEffect, LineageKept
  <2>2. QED
    BY <1>1, <1>4, <2>1, HolderRotate, AgreeRotate DEF RotationInv
<1>5. QED
  BY <1>2, <1>3, <1>4, StepKinds

LEMMA RotationInvariant == Spec => []RotationInv
<1>1. Init => RotationInv
  <2> SUFFICES ASSUME Init PROVE RotationInv
    OBVIOUS
  <2>1. Created = {} /\ req = [r \in Requests |-> Idle]
    BY DEF Init, Created
  <2>2. TypeOK
    BY <2>1 DEF Init, TypeOK, TablesOK, RequestsOK, HistoryOK
  <2>3. OneHolder /\ Lineage /\ RotationsAgree
    BY <2>1 DEF Init, OneHolder, Lineage, RotationsAgree, Live, OfFamily, Rotating
  <2>4. QED
    BY <2>2, <2>3 DEF RotationInv
<1>2. QED
  BY <1>1, RotationStep, PTL DEF Spec

(* In every family where no rotation hit a revoked row, at most one refresh
   token can still be exchanged, whatever is in flight. *)
THEOREM FamiliesHaveOneHolder == Spec => []OneHolder
BY RotationInvariant, PTL DEF RotationInv

(* A token with a successor is revoked, and outside the broken families it
   has only one. *)
THEOREM TokensAreExchangedOnce == Spec => []Lineage
BY RotationInvariant, PTL DEF RotationInv

-----------------------------------------------------------------------------
(* Revocation *)

(* No step brings a revoked session back, and none removes or moves one. *)
THEOREM RevocationStays == Spec => RevocationIsFinal
<1> DEFINE Final == \A s \in Created :
              /\ session'[s] # NoSession
              /\ session[s].revoked => session'[s] = session[s]
              /\ session'[s].familyId = session[s].familyId
<1>1. ASSUME TypeOK, TypeOK', [Next]_vars PROVE Final
  <2>1. ASSUME RowsKeep PROVE Final
    <3> SUFFICES ASSUME NEW s \in Created
                 PROVE  /\ session'[s] # NoSession
                        /\ session[s].revoked => session'[s] = session[s]
                        /\ session'[s].familyId = session[s].familyId
      OBVIOUS
    <3>1. /\ s \in Created'
          /\ session'[s].userId = session[s].userId
          /\ session'[s].familyId = session[s].familyId
          /\ session[s].revoked => session'[s].revoked
      BY <2>1 DEF RowsKeep
    <3>2. session[s] \in Rows /\ session'[s] \in Rows
      BY <1>1, <3>1 DEF TypeOK, TablesOK, Created
    <3>3. session[s].revoked => session'[s] = session[s]
      BY <3>1, <3>2 DEF Rows
    <3>4. QED
      BY <3>1, <3>3 DEF Created
  <2>2. ASSUME NEW r \in Requests, CreateTokenPair(r) PROVE Final
    <3>1. \A s \in Created : session'[s] = session[s]
      BY <1>1, <2>2, CreateEffect
    <3>2. QED
      BY <3>1 DEF Created
  <2>3. ASSUME NEW r \in Requests, RefreshRotate(r) PROVE RowsKeep
    BY <1>1, <2>3, RotateEffect
  <2>4. QED
    BY <1>1, <2>1, <2>2, <2>3, StepKinds DEF Quiet
<1>2. QED
  BY <1>1, TypeCorrect, TypeStep, PTL DEF Spec, RevocationIsFinal

(* A sign-out everywhere that is pending stays pending while its request
   does not move. *)
LEMMA OutdatedKept ==
    ASSUME OutdatedSessionsAreRevoked, TypeOK,
           \A q \in Requests : Doing(q, "revokeAll") => req'[q] = req[q],
           outdated' = outdated, lost \subseteq lost', RowsKeep
    PROVE  OutdatedSessionsAreRevoked'
<1> SUFFICES ASSUME NEW s \in outdated \cap Live'
             PROVE  \/ \E q \in Requests : /\ req'[q].next = "revokeAll"
                                           /\ req'[q].user = session'[s].userId
                    \/ session'[s].userId \in lost'
  BY DEF OutdatedSessionsAreRevoked, SigningOut, Doing
<1>1. s \in Created
  BY DEF TypeOK, HistoryOK
<1>2. s \in Live /\ session'[s].userId = session[s].userId
  BY <1>1 DEF Live, RowsKeep
<1>3. SigningOut(session[s].userId) \/ session[s].userId \in lost
  BY <1>2 DEF OutdatedSessionsAreRevoked
<1>4. QED
  BY <1>2, <1>3 DEF SigningOut, Doing

(* The same for all users but one, who has just been signed out or will be. *)
LEMMA OutdatedExceptOne ==
    ASSUME OutdatedSessionsAreRevoked, TypeOK, NEW u \in Users, NEW r \in Requests,
           Created' = Created, RowsKeep,
           \A q \in Requests : Doing(q, "revokeAll") => req'[q] = req[q] \/ req[q].user = u,
           outdated' \subseteq outdated \cup OfUser(u),
           lost \ {u} \subseteq lost',
           \/ \A s \in OfUser(u) : session'[s].revoked
           \/ \E q \in Requests : req'[q].next = "revokeAll" /\ req'[q].user = u
           \/ u \in lost'
    PROVE  OutdatedSessionsAreRevoked'
<1> SUFFICES ASSUME NEW s \in outdated' \cap Live'
             PROVE  \/ \E q \in Requests : /\ req'[q].next = "revokeAll"
                                           /\ req'[q].user = session'[s].userId
                    \/ session'[s].userId \in lost'
  BY DEF OutdatedSessionsAreRevoked, SigningOut, Doing
<1>1. s \in Created
  BY DEF Live
<1>2. s \in Live /\ session'[s].userId = session[s].userId /\ ~session'[s].revoked
  BY <1>1 DEF Live, RowsKeep
<1>3. CASE session[s].userId = u
  <2>1. s \in OfUser(u)
    BY <1>1, <1>3 DEF OfUser
  <2>2. QED
    BY <1>2, <1>3, <2>1
<1>4. CASE session[s].userId # u
  <2>1. s \in outdated
    BY <1>4 DEF OfUser
  <2>2. SigningOut(session[s].userId) \/ session[s].userId \in lost
    BY <1>2, <2>1 DEF OutdatedSessionsAreRevoked
  <2>3. CASE SigningOut(session[s].userId)
    <3>1. PICK q \in Requests : Doing(q, "revokeAll") /\ req[q].user = session[s].userId
      BY <2>3 DEF SigningOut
    <3>2. req'[q] = req[q]
      BY <1>4, <3>1
    <3>3. QED
      BY <1>2, <3>1, <3>2 DEF SigningOut, Doing
  <2>4. CASE session[s].userId \in lost
    BY <1>2, <1>4, <2>4
  <2>5. QED
    BY <2>2, <2>3, <2>4
<1>5. QED
  BY <1>3, <1>4

(* Revoking all sessions of a user leaves none of them live. *)
LEMMA RevokeUser ==
    ASSUME TypeOK, NEW u, session' = Revoke(OfUser(u))
    PROVE  /\ Created' = Created
           /\ RowsKeep
           /\ \A s \in OfUser(u) : session'[s].revoked
<1>1. OfUser(u) \in SUBSET Created
  BY DEF OfUser
<1>2. /\ Created' = Created
      /\ \A s \in Created : session'[s].revoked = (session[s].revoked \/ s \in OfUser(u))
  BY <1>1, RevokeRows
<1>3. RowsKeep
  BY <1>1, RevokeKeepsRows
<1>4. QED
  BY <1>1, <1>2, <1>3

LEMMA OutdatedStep ==
    ASSUME TypeOK, OutdatedSessionsAreRevoked, [Next]_vars
    PROVE  OutdatedSessionsAreRevoked'
<1>1. ASSUME NEW r \in Requests, req[r] = Idle, \A q \in Requests \ {r} : req'[q] = req[q],
             UNCHANGED <<tables, history>>
      PROVE  OutdatedSessionsAreRevoked'
  <2>1. \A q \in Requests : Doing(q, "revokeAll") => req'[q] = req[q]
    BY <1>1 DEF Doing, Idle
  <2>2. RowsKeep
    BY <1>1 DEF tables, RowsKeep, Created
  <2>3. QED
    BY <1>1, <2>1, <2>2, OutdatedKept DEF history
<1>2. ASSUME NEW r \in Requests, Arrive(r) PROVE OutdatedSessionsAreRevoked'
  <2>1. \E w, u, s : Begin(r, w, u, s)
    BY <1>2 DEF Arrive, Login, SignInWithoutPassword, ChangePasswordRead, SetPasswordRead,
                ResetPasswordRead, DeleteAccountRead, RestoreRead, RefreshRead,
                RevokeSessionRead
  <2>2. QED
    BY <1>1, <2>1 DEF Begin, TypeOK, RequestsOK
<1>3. ASSUME NEW r \in Requests, Step(r) PROVE OutdatedSessionsAreRevoked'
  <2>1. CASE CreateTokenPair(r)
    <3>1. RowsKeep
      <4>1. /\ \A s \in Created : session'[s] = session[s]
            /\ Created \subseteq Created'
        BY <2>1, CreateEffect
      <4>2. QED
        BY <4>1 DEF RowsKeep
    <3>2. \A q \in Requests : Doing(q, "revokeAll") => req'[q] = req[q]
      BY <2>1, CreateEffect DEF Doing
    <3>3. QED
      BY <2>1, <3>1, <3>2, OutdatedKept DEF CreateTokenPair
  <2>2. CASE RefreshRotate(r)
    <3>1. RowsKeep /\ \A q \in Requests : Doing(q, "revokeAll") => req'[q] = req[q]
      BY <2>2, RotateEffect DEF RefreshRotate, Doing
    <3>2. QED
      BY <2>2, <3>1, OutdatedKept DEF RefreshRotate
  <2>3. CASE RevokeFamily(r) \/ RevokeSession(r) \/ SetPassword(r) \/ Restore(r)
    <3>1. RowsKeep
      <4>1. CASE RevokeFamily(r)
        BY <4>1, RevokeKeepsRows DEF RevokeFamily, OfFamily
      <4>2. CASE RevokeSession(r)
        <5>1. {req[r].token} \in SUBSET Created
          BY <4>2, RequestFields DEF RevokeSession, Writes, TokenWrites
        <5>2. QED
          BY <4>2, <5>1, RevokeKeepsRows DEF RevokeSession
      <4>3. CASE SetPassword(r) \/ Restore(r)
        BY <4>3 DEF SetPassword, Restore, RowsKeep, Created
      <4>4. QED
        BY <2>3, <4>1, <4>2, <4>3
    <3>2. \A q \in Requests : Doing(q, "revokeAll") => req'[q] = req[q]
      BY <2>3 DEF RevokeFamily, RevokeSession, SetPassword, Restore, Doing, Done, Goto,
                  TypeOK, RequestsOK
    <3>3. UNCHANGED <<outdated, lost>>
      BY <2>3 DEF RevokeFamily, RevokeSession, SetPassword, Restore, OnlySessions, history
    <3>4. QED
      BY <3>1, <3>2, <3>3, OutdatedKept
  <2> DEFINE u == req[r].user
  <2>4. CASE RevokeAllSessions(r) \/ ResetPassword(r)
    <3>1. u \in Users
      BY <2>4, RequestFields DEF RevokeAllSessions, ResetPassword, Writes, TokenWrites
    <3>2. /\ session' = Revoke(OfUser(u))
          /\ req' = Done(r)
          /\ lost' = lost \ {u}
          /\ outdated' \subseteq outdated \cup OfUser(u)
      BY <2>4 DEF RevokeAllSessions, ResetPassword, CredentialEvent
    <3>3. \A q \in Requests : req'[q] = req[q] \/ req[q].user = u
      BY <3>2 DEF Done, TypeOK, RequestsOK
    <3>4. /\ Created' = Created
          /\ RowsKeep
          /\ \A s \in OfUser(u) : session'[s].revoked
      BY <3>2, RevokeUser
    <3> HIDE DEF u
    <3>5. QED
      BY <3>1, <3>2, <3>3, <3>4, OutdatedExceptOne
  <2>5. CASE ChangePassword(r) \/ DeleteAccount(r)
    <3>1. PICK w \in {"changePassword", "delete"} : Doing(r, w)
      BY <2>5 DEF ChangePassword, DeleteAccount
    <3>2. w \in Writes /\ "revokeAll" \in Writes \ TokenWrites
      BY DEF Writes, TokenWrites
    <3>3. u \in Users /\ req[r] # Idle
      BY <3>1, <3>2, RequestFields DEF Doing, Idle
    <3>4. /\ req' = Goto(r, "revokeAll")
          /\ session' = session
          /\ lost' = lost
          /\ outdated' = outdated \cup OfUser(u)
      BY <2>5 DEF ChangePassword, DeleteAccount, CredentialEvent
    <3>5. /\ req'[r].next = "revokeAll"
          /\ req'[r].user = u
          /\ \A q \in Requests \ {r} : req'[q] = req[q]
      BY <3>2, <3>3, <3>4, GotoFields
    <3>6. \E q \in Requests : req'[q].next = "revokeAll" /\ req'[q].user = u
      BY <3>5
    <3>7. Created' = Created /\ RowsKeep
      BY <3>4 DEF Created, RowsKeep
    <3>8. \A q \in Requests : Doing(q, "revokeAll") => req'[q] = req[q] \/ req[q].user = u
      BY <3>5
    <3> HIDE DEF u
    <3>9. QED
      BY <3>3, <3>4, <3>6, <3>7, <3>8, OutdatedExceptOne
  <2>6. QED
    BY <1>3, <2>1, <2>2, <2>3, <2>4, <2>5 DEF Step
<1>4. ASSUME NEW r \in Requests, Abort(r) PROVE OutdatedSessionsAreRevoked'
  <2> DEFINE u == req[r].user
  <2>1. /\ \A q \in Requests \ {r} : req'[q] = req[q]
        /\ outdated' = outdated
        /\ Created' = Created
        /\ RowsKeep
    BY <1>4 DEF Abort, Done, tables, Created, RowsKeep, TypeOK, RequestsOK
  <2>2. CASE Doing(r, "revokeAll")
    <3>1. u \in Users
      BY <2>2, RequestFields DEF Writes
    <3>2. lost' = lost \cup {u}
      BY <1>4, <2>2 DEF Abort
    <3>3. \A q \in Requests : Doing(q, "revokeAll") => req'[q] = req[q] \/ req[q].user = u
      BY <2>1
    <3> HIDE DEF u
    <3>4. QED
      BY <2>1, <3>1, <3>2, <3>3, OutdatedExceptOne
  <2>3. CASE ~Doing(r, "revokeAll")
    BY <1>4, <2>1, <2>3, OutdatedKept DEF Abort
  <2>4. QED
    BY <2>2, <2>3
<1>5. ASSUME NEW s \in SessionIds, Logout(s) PROVE OutdatedSessionsAreRevoked'
  <2>1. RowsKeep
    BY <1>5, RevokeKeepsRows DEF Logout
  <2>2. QED
    BY <1>5, <2>1, OutdatedKept DEF Logout, OnlySessions, history
<1>6. CASE UNCHANGED vars
  BY <1>6, OutdatedKept DEF vars, tables, history, RowsKeep, Created
<1>7. QED
  BY <1>2, <1>3, <1>4, <1>5, <1>6 DEF Next

(* A session older than its user's last password change or deletion is
   revoked, unless the sign-out everywhere is pending or was lost. *)
THEOREM OutdatedAreRevoked == Spec => []OutdatedSessionsAreRevoked
<1>1. Init => OutdatedSessionsAreRevoked
  BY DEF Init, OutdatedSessionsAreRevoked
<1>2. QED
  BY <1>1, TypeCorrect, OutdatedStep, PTL DEF Spec

-----------------------------------------------------------------------------
(* Sessions implements TokenFamilies: a step hands a family over, opens one, *)
(* breaks one, issues in a broken one, or closes some, possibly none.        *)

(* What HolderOf chooses from has one element. *)
HolderFacts == \A f \in SessionIds :
    /\ OfFamily(f) = {} => HolderOf(f) = "unborn"
    /\ OfFamily(f) # {} /\ f \in broken => HolderOf(f) = "broken"
    /\ f \notin broken =>
          /\ \A s \in Live \cap OfFamily(f) : HolderOf(f) = s
          /\ Live \cap OfFamily(f) = {} =>
                /\ \A r \in Rotating(f) : HolderOf(f) = req[r].token
                /\ Rotating(f) = {} /\ OfFamily(f) # {} => HolderOf(f) = "closed"

LEMMA TheOnlyOne ==
    ASSUME NEW S, NEW x \in S, \A y \in S : y = x
    PROVE  (CHOOSE y \in S : TRUE) = x
OBVIOUS

LEMMA HolderIs == TypeOK /\ OneHolder => HolderFacts
<1> SUFFICES ASSUME TypeOK, OneHolder, NEW f \in SessionIds
             PROVE  /\ OfFamily(f) = {} => HolderOf(f) = "unborn"
                    /\ OfFamily(f) # {} /\ f \in broken => HolderOf(f) = "broken"
                    /\ f \notin broken =>
                          /\ \A s \in Live \cap OfFamily(f) : HolderOf(f) = s
                          /\ Live \cap OfFamily(f) = {} =>
                                /\ \A r \in Rotating(f) : HolderOf(f) = req[r].token
                                /\ Rotating(f) = {} /\ OfFamily(f) # {} => HolderOf(f) = "closed"
  BY DEF HolderFacts
<1>1. (OfFamily(f) = {} => HolderOf(f) = "unborn") /\ (OfFamily(f) # {} /\ f \in broken => HolderOf(f) = "broken")
  BY DEF HolderOf
<1>2. ASSUME f \notin broken, NEW s \in Live \cap OfFamily(f) PROVE HolderOf(f) = s
  <2>1. \A t \in Live \cap OfFamily(f) : t = s
    BY <1>2 DEF OneHolder
  <2>2. (CHOOSE t \in Live \cap OfFamily(f) : TRUE) = s
    BY <2>1, TheOnlyOne
  <2> QED
    BY <1>2, <2>2 DEF HolderOf
<1>3. ASSUME f \notin broken, Live \cap OfFamily(f) = {}, NEW r \in Rotating(f)
      PROVE  HolderOf(f) = req[r].token
  <2>1. \A q \in Rotating(f) : q = r
    BY <1>3 DEF OneHolder
  <2>2. (CHOOSE q \in Rotating(f) : TRUE) = r
    BY <2>1, TheOnlyOne
  <2>3. OfFamily(f) # {}
    BY <1>3 DEF Rotating
  <2> QED
    BY <1>3, <2>2, <2>3 DEF HolderOf
<1>4. f \notin broken /\ Live \cap OfFamily(f) = {} /\ Rotating(f) = {} /\ OfFamily(f) # {}
      => HolderOf(f) = "closed"
  BY DEF HolderOf
<1> QED
  BY <1>1, <1>2, <1>3, <1>4

LEMMA HolderIsNext == TypeOK' /\ OneHolder' => HolderFacts'
BY HolderIs, PTL

(* Quiet steps close the families that lose their holder. *)
LEMMA QuietCloses ==
    ASSUME TypeOK, OneHolder, HolderFacts, HolderFacts', Quiet
    PROVE  \E F \in SUBSET SessionIds : Families!Close(F)
<1> DEFINE F == {f \in SessionIds : HolderOf(f)' # HolderOf(f)}
<1>1. /\ Created' = Created /\ broken' = broken
      /\ \A f \in SessionIds : OfFamily(f)' = OfFamily(f)
      /\ Live' \subseteq Live
  BY DEF Quiet, RowsKeep, OfFamily, Live
<1>2. ASSUME NEW f \in SessionIds, NEW q \in Rotating(f)'
      PROVE  q \in Rotating(f) /\ req'[q] = req[q]
  <2>1. q \in Requests /\ req'[q].next = "create" /\ req'[q].token \in OfFamily(f)
    BY <1>1, <1>2 DEF Rotating, Doing
  <2>2. req'[q].token # NoSession /\ req'[q] # Idle /\ req'[q].next \notin TokenWrites
    BY <2>1, SessionsAssumption DEF OfFamily, Created, Idle, TokenWrites
  <2>3. req'[q] = req[q]
    BY <2>1, <2>2 DEF Quiet
  <2> QED
    BY <2>1, <2>3 DEF Rotating, Doing
<1>3. ASSUME NEW f \in F PROVE HolderOf(f) \in Created /\ HolderOf(f)' = "closed"
  <2>1. OfFamily(f) # {} /\ f \notin broken
    BY <1>1, <1>3 DEF HolderFacts
  <2>2. CASE Live \cap OfFamily(f) # {}
    <3>1. PICK s \in Live \cap OfFamily(f) : HolderOf(f) = s
      BY <2>1, <2>2 DEF HolderFacts
    <3>2. Live' \cap OfFamily(f)' = {}
      <4>1. ASSUME NEW t \in Live' \cap OfFamily(f)' PROVE FALSE
        <5>1. t \in Live \cap OfFamily(f)
          BY <1>1, <4>1
        <5>2. HolderOf(f) = t /\ HolderOf(f)' = t
          BY <1>1, <2>1, <4>1, <5>1 DEF HolderFacts
        <5> QED
          BY <1>3, <5>2
      <4> QED
        BY <4>1
    <3>3. Rotating(f)' = {}
      BY <1>2, <2>1, <2>2 DEF OneHolder
    <3> QED
      BY <1>1, <2>1, <3>1, <3>2, <3>3 DEF HolderFacts, Live
  <2>3. CASE Live \cap OfFamily(f) = {}
    <3>1. Live' \cap OfFamily(f)' = {}
      BY <1>1, <2>3
    <3>2. Rotating(f)' = {}
      <4>1. ASSUME NEW q \in Rotating(f)' PROVE FALSE
        <5>1. q \in Rotating(f) /\ req'[q] = req[q]
          BY <1>2, <4>1
        <5>2. HolderOf(f) = req[q].token
          BY <2>1, <2>3, <5>1 DEF HolderFacts
        <5>3. HolderOf(f)' = req'[q].token
          BY <1>1, <2>1, <3>1, <4>1 DEF HolderFacts
        <5> QED
          BY <1>3, <5>1, <5>2, <5>3
      <4> QED
        BY <4>1
    <3>3. HolderOf(f)' = "closed"
      BY <1>1, <2>1, <3>1, <3>2 DEF HolderFacts
    <3>4. Rotating(f) # {}
      BY <1>3, <2>1, <2>3, <3>3 DEF HolderFacts
    <3>5. PICK q \in Rotating(f) : HolderOf(f) = req[q].token
      BY <2>1, <2>3, <3>4 DEF HolderFacts
    <3> QED
      BY <3>3, <3>5 DEF Rotating, OfFamily
  <2> QED
    BY <2>2, <2>3
<1>4. F \in SUBSET SessionIds
  OBVIOUS
<1>5. \A f \in SessionIds : HolderOf(f)' = IF f \in F THEN "closed" ELSE HolderOf(f)
  BY <1>3
<1> HIDE DEF F
<1>6. Families!Close(F)
  BY <1>1, <1>3, <1>4, <1>5 DEF Families!Close
<1> QED
  BY <1>4, <1>6

(* A family that a step leaves as it is keeps its holder. *)
LEMMA SameHolder ==
    ASSUME HolderFacts, HolderFacts', NEW f \in SessionIds,
           OfFamily(f)' = OfFamily(f), Live' \cap OfFamily(f) = Live \cap OfFamily(f),
           Rotating(f)' = Rotating(f), \A q \in Rotating(f) : req'[q] = req[q],
           f \in broken' <=> f \in broken
    PROVE  HolderOf(f)' = HolderOf(f)
<1>1. CASE OfFamily(f) = {} \/ f \in broken
  BY <1>1 DEF HolderFacts
<1>2. CASE OfFamily(f) # {} /\ f \notin broken /\ Live \cap OfFamily(f) # {}
  <2>1. PICK s : s \in Live \cap OfFamily(f)
    BY <1>2
  <2>2. HolderOf(f) = s
    BY <1>2, <2>1 DEF HolderFacts
  <2>3. HolderOf(f)' = s
    BY <1>2, <2>1 DEF HolderFacts
  <2> QED
    BY <2>2, <2>3
<1>3. CASE OfFamily(f) # {} /\ f \notin broken /\ Live \cap OfFamily(f) = {} /\ Rotating(f) # {}
  <2>1. PICK q : q \in Rotating(f)
    BY <1>3
  <2>2. HolderOf(f) = req[q].token
    BY <1>3, <2>1 DEF HolderFacts
  <2>3. HolderOf(f)' = req'[q].token
    BY <1>3, <2>1 DEF HolderFacts
  <2> QED
    BY <2>1, <2>2, <2>3
<1>4. CASE OfFamily(f) # {} /\ f \notin broken /\ Live \cap OfFamily(f) = {} /\ Rotating(f) = {}
  BY <1>4 DEF HolderFacts
<1> QED
  BY <1>1, <1>2, <1>3, <1>4

(* A family that was opened is not in the state of one that was not. *)
LEMMA Opened ==
    ASSUME HolderFacts, NEW f \in SessionIds, OfFamily(f) # {}
    PROVE  HolderOf(f) # "unborn"
<1>1. \A s \in SessionIds : s # "unborn"
  BY SessionsAssumption DEF FamilyStates
<1>2. CASE f \in broken
  BY <1>2 DEF HolderFacts
<1>3. CASE f \notin broken /\ Live \cap OfFamily(f) # {}
  BY <1>1, <1>3 DEF HolderFacts, Live, Created
<1>4. CASE f \notin broken /\ Live \cap OfFamily(f) = {} /\ Rotating(f) # {}
  BY <1>1, <1>4 DEF HolderFacts, Rotating, OfFamily, Created
<1>5. CASE f \notin broken /\ Live \cap OfFamily(f) = {} /\ Rotating(f) = {}
  BY <1>5 DEF HolderFacts
<1> QED
  BY <1>2, <1>3, <1>4, <1>5

(* The first half of an exchange changes no holder, or breaks the family: the
   request that revoked the token stands for it until it issues the next. *)
LEMMA RotateRefines ==
    ASSUME TypeOK, OneHolder, HolderFacts, HolderFacts', NEW r \in Requests, RefreshRotate(r)
    PROVE  (\E f \in SessionIds : Families!Break(f)) \/ UNCHANGED Families!famVars
<1>0. PICK s \in Created, g \in Created : s = req[r].token /\ g = session[s].familyId
  <2>1. req[r].token \in Created
    BY RotateEffect
  <2> QED
    BY <2>1, RowFields
<1>1. /\ Doing(r, "rotate")
      /\ Created' = Created /\ RowsKeep
      /\ session'[s].revoked
      /\ \A t \in Created \ {s} : session'[t].revoked = session[t].revoked
      /\ req'[r].next = "create" /\ req'[r].token = s
      /\ \A q \in Requests \ {r} : req'[q] = req[q]
  BY <1>0, RotateEffect DEF RefreshRotate
<1>2. broken' = IF session[s].revoked THEN broken \cup {g} ELSE broken
  BY <1>0 DEF RefreshRotate
<1>3. s \in OfFamily(g)
  BY <1>0 DEF OfFamily
<1>4. \A f \in SessionIds : OfFamily(f)' = OfFamily(f)
  BY <1>1 DEF RowsKeep, OfFamily
<1>5. Live' = Live \ {s}
  BY <1>1 DEF Live
<1>6. ASSUME NEW f \in SessionIds, f # g PROVE HolderOf(f)' = HolderOf(f)
  <2>1. s \notin OfFamily(f)
    BY <1>0, <1>6 DEF OfFamily
  <2>2. r \notin Rotating(f) /\ r \notin Rotating(f)'
    BY <1>1, <1>4, <2>1 DEF Rotating, Doing
  <2>3. \A q \in Requests \ {r} : q \in Rotating(f)' <=> q \in Rotating(f)
    BY <1>1, <1>4 DEF Rotating, Doing
  <2>4. Rotating(f)' = Rotating(f) /\ \A q \in Rotating(f) : req'[q] = req[q]
    BY <1>1, <2>2, <2>3 DEF Rotating
  <2>5. Live' \cap OfFamily(f) = Live \cap OfFamily(f)
    BY <1>5, <2>1
  <2> QED
    BY <1>2, <1>4, <1>6, <2>4, <2>5, SameHolder
<1>7. CASE g \in broken'
  <2>1. HolderOf(g)' = "broken"
    BY <1>3, <1>4, <1>7 DEF HolderFacts, Created
  <2>2. HolderOf(g) # "unborn" /\ g \in SessionIds
    BY <1>3, Opened DEF Created
  <2>3. Families!Break(g)
    BY <1>1, <1>6, <2>1, <2>2 DEF Families!Break
  <2> QED
    BY <2>2, <2>3
<1>8. CASE g \notin broken'
  <2>1. g \in SessionIds \ broken /\ ~session[s].revoked
    BY <1>2, <1>3, <1>8 DEF Created
  <2>2. s \in Live \cap OfFamily(g)
    BY <1>1, <1>3, <2>1 DEF Live
  <2>3. HolderOf(g) = s
    BY <2>1, <2>2 DEF HolderFacts
  <2>4. Live' \cap OfFamily(g)' = {}
    BY <1>4, <1>5, <2>1, <2>2 DEF OneHolder
  <2>5. r \in Rotating(g)'
    BY <1>1, <1>3, <1>4, <2>1 DEF Rotating, Doing
  <2>6. HolderOf(g)' = s
    BY <1>1, <1>8, <2>1, <2>4, <2>5 DEF HolderFacts
  <2>7. \A f \in SessionIds : HolderOf(f)' = HolderOf(f)
    BY <1>6, <2>3, <2>6
  <2> QED
    BY <1>1, <2>7 DEF Families!famVars
<1> QED
  BY <1>7, <1>8

(* createTokenPair opens a family, completes an exchange, or issues a token in
   a broken family. *)
LEMMA CreateRefines ==
    ASSUME TypeOK, OneHolder, HolderFacts, HolderFacts', NEW r \in Requests, CreateTokenPair(r)
    PROVE  \E f, t \in SessionIds :
              Families!Open(t) \/ Families!HandOver(f, t) \/ Families!IssueInBroken(f, t)
<1>1. /\ Doing(r, "create")
      /\ req[r].token \in Created \cup {NoSession}
      /\ broken' = broken
      /\ req'[r] = Idle
      /\ \A q \in Requests \ {r} : req'[q] = req[q]
  BY CreateEffect
<1>2. PICK s \in SessionIds \ Created, g \in SessionIds :
        /\ IF req[r].token = NoSession THEN g = s
           ELSE g = session[req[r].token].familyId /\ g \in Created
        /\ session'[s].familyId = g
        /\ session'[s].revoked = FALSE
        /\ \A t \in Created : session'[t] = session[t]
        /\ Created' = Created \cup {s}
  BY CreateEffect
<1>3. \A f \in SessionIds : OfFamily(f)' = IF f = g THEN OfFamily(f) \cup {s} ELSE OfFamily(f)
  BY <1>2 DEF OfFamily
<1>4. Live' = Live \cup {s}
  BY <1>2 DEF Live
<1>5. ASSUME NEW q \in Requests, req[q].next = "create" PROVE req[q].token \in Created \cup {NoSession}
  <2>1. req[q] # Idle
    BY <1>5 DEF Idle
  <2> QED
    BY <2>1 DEF TypeOK, RequestsOK
<1>6. ASSUME NEW f \in SessionIds, f # g PROVE HolderOf(f)' = HolderOf(f)
  <2>1. s \notin OfFamily(f) /\ OfFamily(f)' = OfFamily(f)
    BY <1>2, <1>3, <1>6 DEF OfFamily
  <2>2. r \notin Rotating(f)
    BY <1>2, <1>6, SessionsAssumption DEF Rotating, OfFamily, Created
  <2>3. r \notin Rotating(f)'
    BY <1>1 DEF Rotating, Doing, Idle
  <2>4. \A q \in Requests \ {r} : q \in Rotating(f)' <=> q \in Rotating(f)
    BY <1>1, <2>1 DEF Rotating, Doing
  <2>5. Rotating(f)' = Rotating(f) /\ \A q \in Rotating(f) : req'[q] = req[q]
    BY <1>1, <2>2, <2>3, <2>4 DEF Rotating
  <2>6. Live' \cap OfFamily(f) = Live \cap OfFamily(f)
    BY <1>4, <2>1
  <2> QED
    BY <1>1, <2>1, <2>5, <2>6, SameHolder
<1>7. g \notin broken => HolderOf(g)' = s
  <2>1. s \in Live' \cap OfFamily(g)'
    BY <1>3, <1>4
  <2> QED
    BY <1>1, <2>1 DEF HolderFacts
<1>8. g \in broken => HolderOf(g)' = "broken"
  BY <1>1, <1>3 DEF HolderFacts
<1>9. CASE req[r].token = NoSession
  <2>1. g = s /\ g \notin broken
    BY <1>2, <1>9 DEF TypeOK, HistoryOK
  <2>2. OfFamily(s) = {}
    BY <1>2, RowFields DEF OfFamily
  <2>3. HolderOf(s) = "unborn"
    BY <2>2 DEF HolderFacts
  <2>4. Families!Open(s)
    BY <1>2, <1>6, <1>7, <2>1, <2>3 DEF Families!Open
  <2> QED
    BY <2>4
<1>10. CASE req[r].token # NoSession /\ g \in broken
  <2>1. g \in Created /\ OfFamily(g) # {}
    BY <1>1, <1>2, <1>10 DEF OfFamily
  <2>2. HolderOf(g) = "broken"
    BY <1>10, <2>1 DEF HolderFacts
  <2>3. \A f \in SessionIds : HolderOf(f)' = HolderOf(f)
    BY <1>6, <1>8, <1>10, <2>2
  <2>4. Families!IssueInBroken(g, s)
    BY <1>2, <2>2, <2>3 DEF Families!IssueInBroken
  <2> QED
    BY <2>4
<1>11. CASE req[r].token # NoSession /\ g \notin broken
  <2>1. r \in Rotating(g)
    BY <1>1, <1>2, <1>11 DEF Rotating, OfFamily
  <2>2. Live \cap OfFamily(g) = {}
    BY <1>11, <2>1 DEF OneHolder
  <2>3. HolderOf(g) = req[r].token /\ req[r].token \in Created
    BY <1>1, <1>11, <2>1, <2>2 DEF HolderFacts
  <2>4. Families!HandOver(g, s)
    BY <1>2, <1>6, <1>7, <1>11, <2>3 DEF Families!HandOver
  <2> QED
    BY <2>4
<1> QED
  BY <1>9, <1>10, <1>11

LEMMA FamiliesInit == Init => Families!FamInit
<1> SUFFICES ASSUME Init PROVE Families!FamInit
  OBVIOUS
<1>1. Created = {}
  BY DEF Init, Created
<1>2. \A f \in SessionIds : HolderOf(f) = "unborn"
  BY <1>1 DEF HolderOf, OfFamily
<1> QED
  BY <1>1, <1>2 DEF Families!FamInit

LEMMA FamiliesNext ==
    ASSUME RotationInv, RotationInv', [Next]_vars
    PROVE  [Families!FamNext]_(Families!famVars)
<1> TypeOK /\ OneHolder /\ HolderFacts /\ HolderFacts'
  BY HolderIs, HolderIsNext DEF RotationInv
<1>1. CASE Quiet
  <2>1. \E F \in SUBSET SessionIds : Families!Close(F)
    BY <1>1, QuietCloses
  <2> QED
    BY <2>1 DEF Families!FamNext
<1>2. ASSUME NEW r \in Requests, CreateTokenPair(r)
      PROVE  Families!FamNext
  <2>1. \E f, t \in SessionIds :
          Families!Open(t) \/ Families!HandOver(f, t) \/ Families!IssueInBroken(f, t)
    BY <1>2, CreateRefines
  <2> QED
    BY <2>1 DEF Families!FamNext
<1>3. ASSUME NEW r \in Requests, RefreshRotate(r)
      PROVE  Families!FamNext \/ UNCHANGED Families!famVars
  <2>1. (\E f \in SessionIds : Families!Break(f)) \/ UNCHANGED Families!famVars
    BY <1>3, RotateRefines
  <2> QED
    BY <2>1 DEF Families!FamNext
<1> QED
  BY <1>1, <1>2, <1>3, StepKinds

(* The handlers of Sessions, in whatever order their statements run and
   wherever they are cut, do to each family what TokenFamilies allows: exchanges
   go from the holder to a fresh token, and a closed family stays closed. *)
THEOREM SessionsImplementFamilies == Spec => ImplementsTokenFamilies
<1>1. RotationInv /\ RotationInv' /\ [Next]_vars => [Families!FamNext]_(Families!famVars)
  BY FamiliesNext
<1> QED
  BY <1>1, FamiliesInit, RotationInvariant, PTL DEF Spec, ImplementsTokenFamilies, Families!FamSpec

-----------------------------------------------------------------------------
(* The web client.  What it does at the API are steps of Sessions, so what is *)
(* proved above holds here; what follows is about what the tabs remember.     *)
LEMMA WebStepIsApiStep ==
    ASSUME [WebNext]_webVars
    PROVE  [Next]_vars
<1>1. ASSUME NEW t \in Tabs, NEW r \in Requests, NEW u \in Users, SignIn(t, r, u) PROVE Next
  BY <1>1 DEF SignIn, Next, Arrive
<1>2. ASSUME NEW r \in Requests, Arrives(r) PROVE Next
  <2>1. RefreshRead(r, call[r].token) /\ call[r].token \in SessionIds
    BY <1>2 DEF Arrives, RefreshRead, Created
  <2> QED
    BY <2>1 DEF Next, Arrive
<1>3. ASSUME NEW r \in Requests, ApiStep(r) \/ Fails(r) PROVE Next
  BY <1>3 DEF ApiStep, Rotates, Issues, Refuses, Fails, Next, Step
<1>4. CASE \/ UNCHANGED webVars
           \/ \E t \in Tabs : Load(t) \/ SignOut(t) \/ \E r \in Requests : Refresh(t, r)
           \/ \E r \in Requests : Lost(r) \/ Answer(r) \/ LoseAnswer(r)
  BY <1>4 DEF webVars, Load, SignOut, Refresh, Lost, Answer, LoseAnswer
<1> QED
  BY <1>1, <1>2, <1>3, <1>4 DEF WebNext

LEMMA CreatedGrows ==
    ASSUME TypeOK, [Next]_vars
    PROVE  Created \subseteq Created'
<1>1. CASE Quiet
  BY <1>1 DEF Quiet
<1>2. ASSUME NEW r \in Requests, CreateTokenPair(r) PROVE Created \subseteq Created'
  BY <1>2, CreateEffect
<1>3. ASSUME NEW r \in Requests, RefreshRotate(r) PROVE Created \subseteq Created'
  BY <1>3, RotateEffect
<1> QED
  BY <1>1, <1>2, <1>3, StepKinds

(* What WebTypeOK needs to be inductive: stored tokens exist, and no request
   is at work but a call's. *)
ClientOK ==
    /\ WebTypeOK
    /\ storage \in Created \cup {NoSession}
    /\ \A t \in Tabs : memory[t] \in Created \cup {NoSession}
    /\ \A r \in Requests \ Pending : req[r] = Idle

LEMMA CallRecord ==
    ASSUME NEW t \in Tabs, NEW k \in {"refresh", "login"}, NEW s \in SessionIds \cup {NoSession},
           NEW g \in {"sent", "working", "answered"}
    PROVE  /\ Call(t, k, s, g) \in Calls
           /\ Call(t, k, s, g).tab = t /\ Call(t, k, s, g).kind = k
           /\ Call(t, k, s, g).token = s /\ Call(t, k, s, g).stage = g
           /\ Call(t, k, s, g).new = NoSession
BY DEF Call, Calls

(* What a call holds. *)
LEMMA CallFields ==
    ASSUME WebTypeOK, NEW r \in Pending
    PROVE  /\ r \in Requests /\ call[r] \in Calls /\ call[r] # NoCall
           /\ call[r].tab \in Tabs \cup {NoTab}
           /\ call[r].kind \in {"refresh", "login"}
           /\ call[r].token \in SessionIds \cup {NoSession}
           /\ call[r].stage \in {"sent", "working", "answered"}
           /\ call[r].new \in Created \cup {NoSession}
<1>1. r \in Requests /\ call[r] # NoCall
  BY DEF Pending
<1>2. call[r] \in Calls
  BY <1>1 DEF WebTypeOK
<1> QED
  BY <1>1, <1>2 DEF WebTypeOK, Calls

(* A call that is made. *)
LEMMA CallMade ==
    ASSUME WebTypeOK, NEW r \in Requests \ Pending, NEW c \in Calls, call' = [call EXCEPT ![r] = c]
    PROVE  /\ Pending' = Pending \cup {r} /\ call'[r] = c
           /\ \A q \in Requests \ {r} : call'[q] = call[q]
           /\ call' \in [Requests -> Calls \cup {NoCall}]
<1>1. c # NoCall
  BY WebClientAssumption
<1> QED
  BY <1>1 DEF WebTypeOK, Pending

(* A call that is over. *)
LEMMA CallOver ==
    ASSUME WebTypeOK, NEW r \in Pending, call' = [call EXCEPT ![r] = NoCall]
    PROVE  /\ Pending' = Pending \ {r}
           /\ \A q \in Requests \ {r} : call'[q] = call[q]
           /\ call' \in [Requests -> Calls \cup {NoCall}]
BY DEF WebTypeOK, Pending

(* A call that goes on. *)
LEMMA CallGoesOn ==
    ASSUME WebTypeOK, NEW r \in Pending,
           NEW g \in {"working", "answered"}, NEW s \in SessionIds \cup {NoSession},
           call' = [call EXCEPT ![r].stage = g, ![r].new = s]
    PROVE  /\ Pending' = Pending
           /\ call'[r] = [call[r] EXCEPT !.stage = g, !.new = s]
           /\ call'[r].stage = g /\ call'[r].new = s
           /\ call'[r].tab = call[r].tab /\ call'[r].kind = call[r].kind
           /\ call'[r].token = call[r].token
           /\ \A q \in Requests \ {r} : call'[q] = call[q]
           /\ call' \in [Requests -> Calls \cup {NoCall}]
<1>1. r \in Requests /\ call[r] \in Calls
  BY CallFields
<1>2. call'[r] = [call[r] EXCEPT !.stage = g, !.new = s]
  BY <1>1 DEF WebTypeOK
<1>3. /\ call'[r] \in Calls
      /\ call'[r].stage = g /\ call'[r].new = s
      /\ call'[r].tab = call[r].tab /\ call'[r].kind = call[r].kind
      /\ call'[r].token = call[r].token
  <2> DEFINE c == call[r]
             d == [c EXCEPT !.stage = g, !.new = s]
  <2>1. c \in Calls
    BY <1>1
  <2>2. d \in Calls
    BY <2>1 DEF Calls
  <2>3. d.stage = g /\ d.new = s /\ d.tab = c.tab /\ d.kind = c.kind /\ d.token = c.token
    BY <2>1 DEF Calls
  <2>4. call'[r] = d
    BY <1>2
  <2> QED
    BY <2>2, <2>3, <2>4
<1>4. \A q \in Requests \ {r} : call'[q] = call[q]
  BY <1>1 DEF WebTypeOK
<1>5. call' \in [Requests -> Calls \cup {NoCall}]
  BY <1>1, <1>3, <1>4 DEF WebTypeOK
<1>6. Pending' = Pending
  BY <1>1, <1>3, <1>4, WebClientAssumption DEF Pending
<1> QED
  BY <1>2, <1>3, <1>4, <1>5, <1>6

(* Calls that nobody waits for any more. *)
LEMMA CallsUnheard ==
    ASSUME WebTypeOK, NEW R \in SUBSET Pending, call' = Unheard(R)
    PROVE  /\ Pending' = Pending
           /\ \A r \in Pending :
                 /\ call'[r].kind = call[r].kind /\ call'[r].token = call[r].token
                 /\ call'[r].stage = call[r].stage /\ call'[r].new = call[r].new
                 /\ call'[r].tab = IF r \in R THEN NoTab ELSE call[r].tab
           /\ call' \in [Requests -> Calls \cup {NoCall}]
<1>1. \A r \in Requests : call'[r] = IF r \in R THEN [call[r] EXCEPT !.tab = NoTab] ELSE call[r]
  BY DEF Unheard
<1>2. ASSUME NEW r \in Pending
      PROVE  /\ call'[r] \in Calls
             /\ call'[r].kind = call[r].kind /\ call'[r].token = call[r].token
             /\ call'[r].stage = call[r].stage /\ call'[r].new = call[r].new
             /\ call'[r].tab = IF r \in R THEN NoTab ELSE call[r].tab
  <2>1. r \in Requests /\ call[r] \in Calls
    BY CallFields
  <2> QED
    BY <1>1, <2>1 DEF Calls
<1>3. \A r \in Requests \ Pending : call'[r] = NoCall
  BY <1>1 DEF Pending
<1>4. Pending' = Pending
  BY <1>2, <1>3, WebClientAssumption DEF Pending
<1>5. call' \in [Requests -> Calls \cup {NoCall}]
  <2>1. call' = [r \in Requests |-> call'[r]]
    BY DEF Unheard
  <2> QED
    BY <1>2, <1>3, <2>1
<1> QED
  BY <1>2, <1>4, <1>5

(* What the steps do to the requests at the API. *)
LEMMA BeginEffect ==
    ASSUME TypeOK, NEW r \in Requests, NEW w \in Writes, NEW u \in Users,
           NEW s \in SessionIds \cup {NoSession}, Begin(r, w, u, s)
    PROVE  /\ req[r] = Idle /\ req'[r] # Idle
           /\ req'[r].next = w /\ req'[r].token = s
           /\ \A q \in Requests \ {r} : req'[q] = req[q]
           /\ UNCHANGED <<tables, history>>
<1>1. /\ Request(w, u, s).next = w
      /\ Request(w, u, s).token = s
  BY RequestRecord
<1>2. req' = [req EXCEPT ![r] = Request(w, u, s)] /\ req[r] = Idle
  BY DEF Begin
<1>3. req'[r] = Request(w, u, s) /\ \A q \in Requests \ {r} : req'[q] = req[q]
  BY <1>2 DEF TypeOK, RequestsOK
<1>4. w # "idle"
  BY DEF Writes, TokenWrites
<1> QED
  BY <1>1, <1>2, <1>3, <1>4 DEF Idle, Begin

LEMMA DoneEffect ==
    ASSUME TypeOK, NEW r \in Requests, req' = Done(r)
    PROVE  req'[r] = Idle /\ \A q \in Requests \ {r} : req'[q] = req[q]
BY DEF TypeOK, RequestsOK, Done

LEMMA SignInEffect ==
    ASSUME TypeOK, NEW r \in Requests, NEW u \in Users, Login(r, u)
    PROVE  /\ req[r] = Idle /\ req'[r] # Idle
           /\ req'[r].next = "create" /\ req'[r].token = NoSession
           /\ \A q \in Requests \ {r} : req'[q] = req[q]
           /\ session' = session
<1>1. "create" \in Writes /\ Begin(r, "create", u, NoSession)
  BY DEF Writes, Login
<1> QED
  BY <1>1, BeginEffect DEF tables

LEMMA RefreshReadEffect ==
    ASSUME TypeOK, NEW r \in Requests, NEW s \in SessionIds, RefreshRead(r, s)
    PROVE  /\ req[r] = Idle /\ req'[r] # Idle /\ s \in Created
           /\ req'[r].token = s
           /\ req'[r].next = IF session[s].revoked THEN "revokeFamily" ELSE "rotate"
           /\ \A q \in Requests \ {r} : req'[q] = req[q]
           /\ session' = session
<1>1. PICK w \in {"revokeFamily", "rotate"} :
        /\ w = IF session[s].revoked THEN "revokeFamily" ELSE "rotate"
        /\ Begin(r, w, session[s].userId, s)
  BY DEF RefreshRead
<1>2. w \in Writes /\ s \in Created
  BY DEF Writes, TokenWrites, RefreshRead
<1>3. session[s].userId \in Users
  BY <1>2, RowFields
<1> QED
  BY <1>1, <1>2, <1>3, BeginEffect DEF tables

(* An answer that carries the new token, and one that carries none. *)
LEMMA IssueEffect ==
    ASSUME ClientOK, NEW r \in Requests, Issues(r)
    PROVE  /\ r \in Pending /\ Pending' = Pending
           /\ req'[r] = Idle /\ \A q \in Requests \ {r} : req'[q] = req[q]
           /\ call'[r].stage = "answered"
           /\ call'[r].new \in SessionIds \ Created
           /\ Created' = Created \cup {call'[r].new}
           /\ Live' = Live \cup {call'[r].new}
           /\ call'[r].tab = call[r].tab /\ call'[r].kind = call[r].kind
           /\ call'[r].token = call[r].token
           /\ \A q \in Requests \ {r} : call'[q] = call[q]
           /\ call' \in [Requests -> Calls \cup {NoCall}]
<1> WebTypeOK /\ TypeOK
  BY DEF ClientOK, WebTypeOK
<1>1. CreateTokenPair(r)
  BY DEF Issues
<1>2. /\ req[r] # Idle
      /\ req'[r] = Idle /\ \A q \in Requests \ {r} : req'[q] = req[q]
  BY <1>1, CreateEffect
<1>3. r \in Pending
  BY <1>2 DEF ClientOK
<1>4. PICK s \in SessionIds \ Created :
        /\ session'[s].revoked = FALSE
        /\ \A t \in Created : session'[t] = session[t]
        /\ Created' = Created \cup {s}
  BY <1>1, CreateEffect
<1>5. PICK n \in SessionIds \ Created : session'[n] # NoSession /\ Answers(r, n)
  BY DEF Issues
<1>6. n = s
  BY <1>4, <1>5 DEF Created
<1>7. call' = [call EXCEPT ![r].stage = "answered", ![r].new = s]
  BY <1>5, <1>6 DEF Answers
<1>8. /\ Pending' = Pending
      /\ call'[r].stage = "answered" /\ call'[r].new = s
      /\ call'[r].tab = call[r].tab /\ call'[r].kind = call[r].kind
      /\ call'[r].token = call[r].token
      /\ \A q \in Requests \ {r} : call'[q] = call[q]
      /\ call' \in [Requests -> Calls \cup {NoCall}]
  BY <1>3, <1>7, CallGoesOn
<1>9. Live' = Live \cup {s}
  BY <1>4 DEF Live
<1> QED
  BY <1>2, <1>3, <1>4, <1>8, <1>9

LEMMA NoTokenAnswer ==
    ASSUME ClientOK, NEW r \in Pending, Answers(r, NoSession)
    PROVE  /\ Pending' = Pending
           /\ call'[r].stage = "answered" /\ call'[r].new = NoSession
           /\ call'[r].tab = call[r].tab /\ call'[r].kind = call[r].kind
           /\ call'[r].token = call[r].token
           /\ \A q \in Requests \ {r} : call'[q] = call[q]
           /\ call' \in [Requests -> Calls \cup {NoCall}]
BY CallGoesOn DEF Answers, ClientOK

(* A refusal or a failure is answered without a token. *)
LEMMA ApiAnswers ==
    ASSUME ClientOK, NEW r \in Requests, Refuses(r) \/ Fails(r)
    PROVE  /\ r \in Pending /\ Answers(r, NoSession)
           /\ req' = Done(r) /\ UNCHANGED <<memory, storage, askers, out, kept>>
<1>1. CASE Refuses(r)
  <2>1. req[r] # Idle
    BY <1>1 DEF Refuses, RevokeFamily, Doing, Idle
  <2> QED
    BY <1>1, <2>1 DEF ClientOK, Refuses, RevokeFamily
<1>2. CASE Fails(r)
  <2>1. req[r] # Idle
    BY <1>2 DEF Fails, Abort
  <2>2. r \in Pending
    BY <2>1 DEF ClientOK
  <2> QED
    BY <1>2, <2>2 DEF Fails, Abort
<1> QED
  BY <1>1, <1>2

LEMMA ArrivesEffect ==
    ASSUME ClientOK, NEW r \in Requests, Arrives(r)
    PROVE  /\ r \in Pending /\ Pending' = Pending
           /\ call[r].token \in Created /\ call[r].stage = "sent"
           /\ req'[r] # Idle /\ req'[r].token = call[r].token
           /\ req'[r].next = IF session[call[r].token].revoked THEN "revokeFamily" ELSE "rotate"
           /\ \A q \in Requests \ {r} : req'[q] = req[q]
           /\ session' = session
           /\ call'[r].stage = "working" /\ call'[r].new = call[r].new
           /\ call'[r].tab = call[r].tab /\ call'[r].kind = call[r].kind
           /\ call'[r].token = call[r].token
           /\ \A q \in Requests \ {r} : call'[q] = call[q]
           /\ call' \in [Requests -> Calls \cup {NoCall}]
<1> WebTypeOK /\ TypeOK
  BY DEF ClientOK, WebTypeOK
<1>1. r \in Pending /\ call[r].stage = "sent" /\ RefreshRead(r, call[r].token)
      /\ call' = [call EXCEPT ![r].stage = "working"]
  BY DEF Arrives, At
<1>2. call[r] \in Calls /\ call[r].new \in SessionIds \cup {NoSession}
  BY <1>1, CallFields DEF Created
<1>3. call'[r] = [call[r] EXCEPT !.stage = "working"]
      /\ \A q \in Requests \ {r} : call'[q] = call[q]
  BY <1>1 DEF WebTypeOK
<1>4. /\ call'[r] \in Calls
      /\ call'[r].stage = "working" /\ call'[r].new = call[r].new
      /\ call'[r].tab = call[r].tab /\ call'[r].kind = call[r].kind
      /\ call'[r].token = call[r].token
  BY <1>2, <1>3 DEF Calls
<1>5. Pending' = Pending /\ call' \in [Requests -> Calls \cup {NoCall}]
  <2>1. call' \in [Requests -> Calls \cup {NoCall}]
    BY <1>1, <1>3, <1>4 DEF WebTypeOK
  <2> QED
    BY <1>1, <1>3, <1>4, <2>1, WebClientAssumption DEF Pending
<1>6. PICK s \in SessionIds : s = call[r].token
  BY <1>1 DEF RefreshRead, Created
<1>7. RefreshRead(r, s)
  BY <1>1, <1>6
<1>8. /\ req'[r] # Idle /\ s \in Created
      /\ req'[r].token = s
      /\ req'[r].next = IF session[s].revoked THEN "revokeFamily" ELSE "rotate"
      /\ \A q \in Requests \ {r} : req'[q] = req[q]
      /\ session' = session
  BY <1>7, RefreshReadEffect
<1> QED
  BY <1>1, <1>3, <1>4, <1>5, <1>6, <1>8

(* The tokens that the tabs keep. *)
LEMMA TokensStored ==
    ASSUME ClientOK, NEW t \in Tabs, NEW s \in Created \cup {NoSession}, SetTokens(t, s)
    PROVE  /\ memory' \in [Tabs -> SessionIds \cup {NoSession}]
           /\ storage' = s /\ memory'[t] = s
           /\ \A u \in Tabs \ {t} : memory'[u] = memory[u]
BY DEF SetTokens, ClientOK, WebTypeOK, Created

LEMMA TokenKept ==
    ASSUME ClientOK, NEW t \in Tabs, Token(t) # NoSession
    PROVE  Token(t) \in Created
BY DEF ClientOK, Token

(* What a call brings, and so what a sign-out leaves behind, are tokens. *)
LEMMA LeftBehind ==
    ASSUME WebTypeOK, NEW t \in Tabs
    PROVE  LeavesBehind(t) \subseteq SessionIds
<1>1. ASSUME NEW r \in Heard
      PROVE  Brings(r) \in SessionIds \cup {NoSession}
  <2>1. r \in Pending
    BY DEF Heard
  <2> QED
    BY <2>1, CallFields DEF Brings, Created
<1> QED
  BY <1>1 DEF LeavesBehind, WebTypeOK

(* Steps of the tabs. *)
LEMMA TabStepOK ==
    ASSUME ClientOK, TypeOK', UNCHANGED vars,
           \/ \E t \in Tabs : Load(t) \/ SignOut(t) \/ \E r \in Requests : Refresh(t, r)
           \/ \E r \in Requests : Lost(r) \/ Answer(r) \/ LoseAnswer(r)
    PROVE  ClientOK'
<1> WebTypeOK /\ TypeOK
  BY DEF ClientOK, WebTypeOK
<1> Created' = Created /\ req' = req
  BY DEF vars, tables, Created
<1>1. ASSUME NEW t \in Tabs, Load(t) PROVE ClientOK'
  <2> DEFINE R == {r \in Pending : call[r].tab = t}
  <2>1. call' = Unheard(R) /\ R \in SUBSET Pending
    BY <1>1 DEF Load
  <2> HIDE DEF R
  <2>2. /\ Pending' = Pending
        /\ \A r \in Pending :
              /\ call'[r].kind = call[r].kind /\ call'[r].token = call[r].token
              /\ call'[r].stage = call[r].stage /\ call'[r].new = call[r].new
        /\ call' \in [Requests -> Calls \cup {NoCall}]
    BY <2>1, CallsUnheard
  <2>3. /\ memory' = [memory EXCEPT ![t] = NoSession] /\ storage' = storage
        /\ hitch' \in BOOLEAN /\ UNCHANGED <<askers, out, kept>>
    BY <1>1 DEF Load, WebTypeOK
  <2> QED
    BY <2>2, <2>3 DEF ClientOK, WebTypeOK
<1>2. ASSUME NEW t \in Tabs, SignOut(t) PROVE ClientOK'
  <2>1. /\ SetTokens(t, NoSession) /\ UNCHANGED <<call, askers>> /\ out' \in BOOLEAN /\ hitch' \in BOOLEAN
        /\ kept' \subseteq SessionIds
    BY <1>2, LeftBehind DEF SignOut, ClearTokens, WebTypeOK
  <2>2. Pending' = Pending
    BY <2>1 DEF Pending
  <2> QED
    BY <2>1, <2>2, TokensStored DEF ClientOK, WebTypeOK
<1>3. ASSUME NEW t \in Tabs, NEW r \in Requests, Refresh(t, r) PROVE ClientOK'
  <2>1. Token(t) \in Created /\ Token(t) \in SessionIds \cup {NoSession}
    BY <1>3, TokenKept DEF Refresh, Created
  <2>2. /\ Call(t, "refresh", Token(t), "sent") \in Calls
        /\ Call(t, "refresh", Token(t), "sent").token = Token(t)
        /\ Call(t, "refresh", Token(t), "sent").stage = "sent"
        /\ Call(t, "refresh", Token(t), "sent").new = NoSession
    BY <2>1, CallRecord
  <2>3. r \in Requests \ Pending /\ req[r] = Idle
    BY <1>3 DEF Refresh, Free
  <2>4. /\ Pending' = Pending \cup {r} /\ call'[r] = Call(t, "refresh", Token(t), "sent")
        /\ \A q \in Requests \ {r} : call'[q] = call[q]
        /\ call' \in [Requests -> Calls \cup {NoCall}]
    BY <1>3, <2>2, <2>3, CallMade DEF Refresh
  <2>5. /\ memory' = [memory EXCEPT ![t] = Token(t)] /\ storage' = storage
        /\ askers' \subseteq Tabs /\ UNCHANGED <<hitch, out, kept>>
    BY <1>3 DEF Refresh, WebTypeOK
  <2>6. \A q \in Pending : q \in Requests /\ q # r
    BY <2>3 DEF Pending
  <2> QED
    BY <2>1, <2>2, <2>3, <2>4, <2>5, <2>6 DEF ClientOK, WebTypeOK
<1>4. ASSUME NEW r \in Requests, Lost(r) PROVE ClientOK'
  <2>1. /\ r \in Pending /\ call[r].stage = "sent" /\ call' = [call EXCEPT ![r] = NoCall]
        /\ UNCHANGED <<memory, storage, askers, hitch, out, kept>>
    BY <1>4 DEF Lost, At
  <2>2. req[r] = Idle
    BY <2>1 DEF WebTypeOK
  <2>3. /\ Pending' = Pending \ {r}
        /\ \A q \in Requests \ {r} : call'[q] = call[q]
        /\ call' \in [Requests -> Calls \cup {NoCall}]
    BY <2>1, CallOver
  <2> QED
    BY <2>1, <2>2, <2>3 DEF ClientOK, WebTypeOK, Pending
<1>5. ASSUME NEW r \in Requests, Answer(r) PROVE ClientOK'
  <2>1. /\ r \in Pending /\ call[r].stage = "answered" /\ call' = [call EXCEPT ![r] = NoCall]
        /\ UNCHANGED <<askers, hitch, out, kept>>
    BY <1>5 DEF Answer, At
  <2>2. req[r] = Idle
    BY <2>1 DEF WebTypeOK
  <2>3. /\ Pending' = Pending \ {r}
        /\ \A q \in Requests \ {r} : call'[q] = call[q]
        /\ call' \in [Requests -> Calls \cup {NoCall}]
    BY <2>1, CallOver
  <2>4. call[r].tab \in Tabs \cup {NoTab} /\ call[r].new \in Created \cup {NoSession}
    BY <2>1, CallFields
  <2>5. /\ memory' \in [Tabs -> SessionIds \cup {NoSession}]
        /\ storage' \in Created \cup {NoSession}
        /\ \A t \in Tabs : memory'[t] \in Created \cup {NoSession}
    <3>1. CASE UNCHANGED <<memory, storage>>
      BY <3>1 DEF ClientOK, WebTypeOK
    <3>2. CASE ~UNCHANGED <<memory, storage>>
      <4>1. SetTokens(call[r].tab, call[r].new) /\ call[r].tab \in Tabs
        BY <1>5, <2>4, <3>2 DEF Answer
      <4> QED
        BY <2>4, <4>1, TokensStored DEF ClientOK
    <3> QED
      BY <3>1, <3>2
  <2>6. storage' \in SessionIds \cup {NoSession}
    BY <2>5 DEF Created
  <2>7. \A q \in Requests \ Pending' : req'[q] = Idle
    BY <2>2, <2>3 DEF ClientOK
  <2> QED
    BY <2>1, <2>3, <2>5, <2>6, <2>7 DEF ClientOK, WebTypeOK, Pending
<1>6. ASSUME NEW r \in Requests, LoseAnswer(r) PROVE ClientOK'
  <2>1. /\ r \in Pending /\ call' = Unheard({r}) /\ call[r].tab \in Tabs
        /\ hitch' = TRUE /\ UNCHANGED <<askers, out, kept>>
    BY <1>6, CallFields DEF LoseAnswer
  <2>2. /\ Pending' = Pending
        /\ \A q \in Pending :
              /\ call'[q].kind = call[q].kind /\ call'[q].token = call[q].token
              /\ call'[q].stage = call[q].stage /\ call'[q].new = call[q].new
        /\ call' \in [Requests -> Calls \cup {NoCall}]
    BY <2>1, CallsUnheard
  <2>3. /\ memory' \in [Tabs -> SessionIds \cup {NoSession}]
        /\ storage' \in Created \cup {NoSession}
        /\ \A t \in Tabs : memory'[t] \in Created \cup {NoSession}
    <3>1. CASE UNCHANGED <<memory, storage>>
      BY <3>1 DEF ClientOK, WebTypeOK
    <3>2. CASE ~UNCHANGED <<memory, storage>>
      <4>1. SetTokens(call[r].tab, NoSession)
        BY <1>6, <3>2 DEF LoseAnswer, ClearTokens
      <4> QED
        BY <2>1, <4>1, TokensStored DEF ClientOK
    <3> QED
      BY <3>1, <3>2
  <2>4. storage' \in SessionIds \cup {NoSession}
    BY <2>3 DEF Created
  <2> QED
    BY <2>1, <2>2, <2>3, <2>4 DEF ClientOK, WebTypeOK
<1> QED
  BY <1>1, <1>2, <1>3, <1>4, <1>5, <1>6

(* Steps of the API. *)
LEMMA ApiStepOK ==
    ASSUME ClientOK, TypeOK', Created \subseteq Created', NEW r \in Requests,
           \/ \E t \in Tabs, u \in Users : SignIn(t, r, u)
           \/ Arrives(r) \/ ApiStep(r) \/ Fails(r)
    PROVE  ClientOK'
<1> WebTypeOK /\ TypeOK
  BY DEF ClientOK, WebTypeOK
<1>1. ASSUME NEW t \in Tabs, NEW u \in Users, SignIn(t, r, u) PROVE ClientOK'
  <2>1. /\ r \in Requests \ Pending /\ Login(r, u)
        /\ call' = [call EXCEPT ![r] = Call(t, "login", NoSession, "working")]
        /\ out' = FALSE /\ kept' = {} /\ UNCHANGED <<memory, storage, askers, hitch>>
    BY <1>1 DEF SignIn, Free
  <2>2. /\ Call(t, "login", NoSession, "working") \in Calls
        /\ Call(t, "login", NoSession, "working").kind = "login"
        /\ Call(t, "login", NoSession, "working").stage = "working"
        /\ Call(t, "login", NoSession, "working").new = NoSession
    BY CallRecord
  <2>3. /\ Pending' = Pending \cup {r} /\ call'[r] = Call(t, "login", NoSession, "working")
        /\ \A q \in Requests \ {r} : call'[q] = call[q]
        /\ call' \in [Requests -> Calls \cup {NoCall}]
    BY <2>1, <2>2, CallMade
  <2>4. req'[r] # Idle /\ \A q \in Requests \ {r} : req'[q] = req[q]
    BY <2>1, SignInEffect
  <2>5. \A q \in Pending : q \in Requests /\ q # r
    BY <2>1 DEF Pending
  <2> QED
    BY <2>1, <2>2, <2>3, <2>4, <2>5 DEF ClientOK, WebTypeOK
<1>2. CASE Arrives(r)
  <2>1. UNCHANGED <<memory, storage, askers, hitch, out, kept>>
    BY <1>2 DEF Arrives
  <2> QED
    BY <1>2, <2>1, ArrivesEffect DEF ClientOK, WebTypeOK, Pending
<1>3. CASE Rotates(r)
  <2>1. UNCHANGED <<memory, storage, call, askers, hitch, out, kept>> /\ RefreshRotate(r)
    BY <1>3 DEF Rotates, client
  <2>2. /\ req[r] # Idle /\ req'[r].next = "create"
        /\ \A q \in Requests \ {r} : req'[q] = req[q]
    BY <2>1, RotateEffect
  <2>3. req'[r] # Idle
    BY <2>2 DEF Idle
  <2>4. Pending' = Pending
    BY <2>1 DEF Pending
  <2>5. \A q \in Pending : q \in Requests
    BY DEF Pending
  <2> QED
    BY <2>1, <2>2, <2>3, <2>4, <2>5 DEF ClientOK, WebTypeOK
<1>4. CASE Issues(r)
  <2>1. UNCHANGED <<memory, storage, askers, hitch, out>> /\ kept' \subseteq SessionIds
    BY <1>4 DEF Issues, WebTypeOK
  <2>2. /\ r \in Pending /\ Pending' = Pending
        /\ req'[r] = Idle /\ \A q \in Requests \ {r} : req'[q] = req[q]
        /\ call'[r].stage = "answered" /\ call'[r].new \in Created'
        /\ call'[r].kind = call[r].kind /\ call'[r].token = call[r].token
        /\ \A q \in Requests \ {r} : call'[q] = call[q]
        /\ call' \in [Requests -> Calls \cup {NoCall}]
    BY <1>4, IssueEffect
  <2>3. \A q \in Pending : q \in Requests
    BY DEF Pending
  <2> QED
    BY <2>1, <2>2, <2>3 DEF ClientOK, WebTypeOK
<1>5. CASE Refuses(r) \/ Fails(r)
  <2>1. /\ UNCHANGED <<memory, storage, askers, out, kept>> /\ r \in Pending
        /\ req' = Done(r) /\ Answers(r, NoSession)
    BY <1>5, ApiAnswers
  <2>2. hitch' \in BOOLEAN
    BY <1>5 DEF Refuses, Fails, WebTypeOK
  <2>3. req'[r] = Idle /\ \A q \in Requests \ {r} : req'[q] = req[q]
    BY <2>1, DoneEffect
  <2>4. /\ Pending' = Pending
        /\ call'[r].stage = "answered" /\ call'[r].new = NoSession
        /\ call'[r].kind = call[r].kind /\ call'[r].token = call[r].token
        /\ \A q \in Requests \ {r} : call'[q] = call[q]
        /\ call' \in [Requests -> Calls \cup {NoCall}]
    BY <2>1, NoTokenAnswer
  <2>5. \A q \in Pending : q \in Requests
    BY DEF Pending
  <2> QED
    BY <2>1, <2>2, <2>3, <2>4, <2>5 DEF ClientOK, WebTypeOK
<1> QED
  BY <1>1, <1>2, <1>3, <1>4, <1>5 DEF ApiStep

LEMMA ClientInit == WebInit => ClientOK
<1> SUFFICES ASSUME WebInit PROVE ClientOK
  OBVIOUS
<1>1. TypeOK
  <2>1. Created = {}
    BY DEF WebInit, Init, Created
  <2> QED
    BY <2>1 DEF WebInit, Init, TypeOK, TablesOK, RequestsOK, HistoryOK
<1>2. Pending = {}
  BY DEF WebInit, Pending
<1> QED
  BY <1>1, <1>2 DEF WebInit, Init, ClientOK, WebTypeOK

LEMMA ClientStep == ClientOK /\ [WebNext]_webVars => ClientOK'
<1> SUFFICES ASSUME ClientOK, [WebNext]_webVars PROVE ClientOK'
  OBVIOUS
<1>1. TypeOK /\ TypeOK' /\ Created \subseteq Created'
  BY WebStepIsApiStep, TypeStep, CreatedGrows DEF ClientOK, WebTypeOK
<1>2. CASE UNCHANGED webVars
  BY <1>2, <1>1 DEF webVars, client, vars, tables, ClientOK, WebTypeOK, Pending, Created
<1>3. CASE \/ \E t \in Tabs : Load(t) \/ SignOut(t) \/ \E r \in Requests : Refresh(t, r)
           \/ \E r \in Requests : Lost(r) \/ Answer(r) \/ LoseAnswer(r)
  <2>1. UNCHANGED vars
    BY <1>3 DEF Load, SignOut, Refresh, Lost, Answer, LoseAnswer
  <2> QED
    BY <1>1, <1>3, <2>1, TabStepOK
<1>4. ASSUME NEW r \in Requests,
             \/ \E t \in Tabs, u \in Users : SignIn(t, r, u)
             \/ Arrives(r) \/ ApiStep(r) \/ Fails(r)
      PROVE  ClientOK'
  BY <1>1, <1>4, ApiStepOK
<1> QED
  BY <1>2, <1>3, <1>4 DEF WebNext

(* The tabs, their storage and their calls keep their types, and only tokens
   that exist are stored and sent, wherever calls and answers are lost. *)
THEOREM ClientTypeCorrect == WebSpec => []WebTypeOK
<1>1. ClientOK => WebTypeOK
  BY DEF ClientOK
<1> QED
  BY <1>1, ClientInit, ClientStep, PTL DEF WebSpec

-----------------------------------------------------------------------------
(* Who has signed out stays signed out, but for what was left behind.  What    *)
(* makes it inductive: what a tab waits for was left behind too, or comes of   *)
(* it.                                                                         *)
StoredAreKept ==
    /\ storage \in kept \cup {NoSession}
    /\ \A t \in Tabs : memory[t] \in kept \cup {NoSession}
HeardAreKept == \A r \in Heard : Brings(r) \in kept \cup {NoSession}

SignedOutInv == ClientOK /\ (out => StoredAreKept /\ HeardAreKept)

(* The calls that are waited for after a step bring what they brought, or what
   is kept. *)
LEMMA HeardStayKept ==
    ASSUME HeardAreKept, kept \subseteq kept',
           \A r \in Heard' : \/ r \in Heard /\ Brings(r)' = Brings(r)
                             \/ Brings(r)' \in kept' \cup {NoSession}
    PROVE  HeardAreKept'
BY DEF HeardAreKept

LEMMA TokensStayKept ==
    ASSUME ClientOK, StoredAreKept, NEW t \in Tabs, NEW s \in Created \cup {NoSession},
           SetTokens(t, s), s \in kept \cup {NoSession}, kept \subseteq kept'
    PROVE  StoredAreKept'
BY TokensStored DEF StoredAreKept

LEMMA SignedOutTabStep ==
    ASSUME ClientOK, StoredAreKept, HeardAreKept,
           \/ \E t \in Tabs : Load(t) \/ \E r \in Requests : Refresh(t, r)
           \/ \E r \in Requests : Lost(r) \/ Answer(r) \/ LoseAnswer(r)
    PROVE  StoredAreKept' /\ HeardAreKept'
<1> WebTypeOK
  BY DEF ClientOK
<1>0. kept' = kept
  BY DEF Load, Refresh, Lost, Answer, LoseAnswer
<1>1. ASSUME NEW t \in Tabs, Load(t)
      PROVE  StoredAreKept' /\ HeardAreKept'
  <2> DEFINE R == {r \in Pending : call[r].tab = t}
  <2>1. call' = Unheard(R) /\ R \in SUBSET Pending
    BY <1>1 DEF Load
  <2> HIDE DEF R
  <2>2. \A r \in Heard' : r \in Heard /\ Brings(r)' = Brings(r)
    BY <2>1, CallsUnheard DEF Heard, Brings
  <2>3. storage' = storage /\ memory' = [memory EXCEPT ![t] = NoSession]
    BY <1>1 DEF Load
  <2>4. StoredAreKept'
    BY <1>0, <2>3 DEF StoredAreKept, WebTypeOK
  <2> QED
    BY <1>0, <2>2, <2>4, HeardStayKept
<1>2. ASSUME NEW t \in Tabs, NEW r \in Requests, Refresh(t, r)
      PROVE  StoredAreKept' /\ HeardAreKept'
  <2>1. Token(t) \in Created /\ Token(t) \in SessionIds \cup {NoSession} /\ Token(t) \in kept
    BY <1>2, TokenKept DEF Refresh, Created, StoredAreKept, Token
  <2>2. /\ Call(t, "refresh", Token(t), "sent") \in Calls
        /\ Call(t, "refresh", Token(t), "sent").token = Token(t)
        /\ Call(t, "refresh", Token(t), "sent").stage = "sent"
    BY <2>1, CallRecord
  <2>3. r \in Requests \ Pending
    BY <1>2 DEF Refresh, Free
  <2>4. /\ Pending' = Pending \cup {r} /\ call'[r] = Call(t, "refresh", Token(t), "sent")
        /\ \A q \in Requests \ {r} : call'[q] = call[q]
    BY <1>2, <2>2, <2>3, CallMade DEF Refresh
  <2>5. Brings(r)' \in kept'
    BY <1>0, <2>1, <2>2, <2>4 DEF Brings
  <2>6. \A q \in Heard' : (q \in Heard /\ Brings(q)' = Brings(q)) \/ q = r
    BY <2>4 DEF Heard, Brings, Pending
  <2>7. StoredAreKept'
    BY <1>0, <1>2, <2>1 DEF StoredAreKept, Refresh, WebTypeOK
  <2> QED
    BY <1>0, <2>5, <2>6, <2>7, HeardStayKept
<1>3. ASSUME NEW r \in Requests, Lost(r) \/ Answer(r)
      PROVE  StoredAreKept' /\ HeardAreKept'
  <2>1. r \in Pending /\ call' = [call EXCEPT ![r] = NoCall]
    BY <1>3 DEF Lost, Answer, At
  <2>2. Pending' = Pending \ {r} /\ \A q \in Requests \ {r} : call'[q] = call[q]
    BY <2>1, CallOver
  <2>3. \A q \in Heard' : q \in Heard /\ Brings(q)' = Brings(q)
    BY <2>2 DEF Heard, Brings, Pending
  <2>4. HeardAreKept'
    BY <1>0, <2>3, HeardStayKept
  <2>5. CASE UNCHANGED <<memory, storage>>
    BY <1>0, <2>4, <2>5 DEF StoredAreKept
  <2>6. CASE ~UNCHANGED <<memory, storage>>
    <3>1. /\ call[r].tab # NoTab /\ SetTokens(call[r].tab, call[r].new) /\ call[r].stage = "answered"
      BY <1>3, <2>6 DEF Answer, Lost, At
    <3>2. call[r].tab \in Tabs /\ call[r].new \in Created \cup {NoSession}
      BY <2>1, <3>1, CallFields
    <3>3. call[r].new \in kept \cup {NoSession}
      BY <2>1, <3>1 DEF HeardAreKept, Heard, Brings
    <3> QED
      BY <1>0, <2>4, <3>1, <3>2, <3>3, TokensStayKept
  <2> QED
    BY <2>5, <2>6
<1>4. ASSUME NEW r \in Requests, LoseAnswer(r)
      PROVE  StoredAreKept' /\ HeardAreKept'
  <2>1. r \in Pending /\ call' = Unheard({r}) /\ call[r].tab \in Tabs
    BY <1>4, CallFields DEF LoseAnswer
  <2>2. \A q \in Heard' : q \in Heard /\ Brings(q)' = Brings(q)
    BY <2>1, CallsUnheard DEF Heard, Brings
  <2>3. HeardAreKept'
    BY <1>0, <2>2, HeardStayKept
  <2>4. CASE UNCHANGED <<memory, storage>>
    BY <1>0, <2>3, <2>4 DEF StoredAreKept
  <2>5. CASE ~UNCHANGED <<memory, storage>>
    <3>1. SetTokens(call[r].tab, NoSession)
      BY <1>4, <2>5 DEF LoseAnswer, ClearTokens
    <3> QED
      BY <1>0, <2>1, <2>3, <3>1, TokensStayKept
  <2> QED
    BY <2>4, <2>5
<1> QED
  BY <1>1, <1>2, <1>3, <1>4

LEMMA SignedOutApiStep ==
    ASSUME ClientOK, out, StoredAreKept, HeardAreKept, NEW r \in Requests,
           Arrives(r) \/ Issues(r) \/ Refuses(r) \/ Rotates(r) \/ Fails(r)
    PROVE  StoredAreKept' /\ HeardAreKept'
<1>1. UNCHANGED <<memory, storage>> /\ kept \subseteq kept'
  BY DEF Arrives, Issues, Refuses, Rotates, Fails, client
<1>2. StoredAreKept'
  BY <1>1 DEF StoredAreKept
<1>3. CASE Arrives(r)
  <2>1. /\ Pending' = Pending /\ call[r].stage = "sent" /\ call'[r].stage = "working"
        /\ call'[r].tab = call[r].tab /\ call'[r].token = call[r].token
        /\ \A q \in Requests \ {r} : call'[q] = call[q]
    BY <1>3, ArrivesEffect
  <2>2. \A q \in Heard' : q \in Heard /\ Brings(q)' = Brings(q)
    BY <2>1 DEF Heard, Brings, Pending
  <2> QED
    BY <1>1, <1>2, <2>2, HeardStayKept
<1>4. CASE Issues(r)
  <2>1. /\ Pending' = Pending /\ call'[r].stage = "answered" /\ call'[r].new \in SessionIds \ Created
        /\ Created' = Created \cup {call'[r].new}
        /\ call'[r].tab = call[r].tab /\ \A q \in Requests \ {r} : call'[q] = call[q]
    BY <1>4, IssueEffect
  <2>2. ASSUME r \in Heard
        PROVE  call'[r].new \in kept'
    <3>1. Brings(r) \in kept \cup {NoSession}
      BY <2>2 DEF HeardAreKept
    <3>2. PICK s \in SessionIds \ Created :
            /\ session'[s] # NoSession
            /\ kept' = IF out /\ r \in Heard /\ Brings(r) \in kept \cup {NoSession}
                       THEN kept \cup {s} ELSE kept
      BY <1>4 DEF Issues
    <3>3. s = call'[r].new
      BY <2>1, <3>2 DEF Created
    <3> QED
      BY <2>2, <3>1, <3>2, <3>3
  <2>3. \A q \in Heard' : (q \in Heard /\ Brings(q)' = Brings(q)) \/ (q = r /\ q \in Heard)
    BY <2>1 DEF Heard, Brings, Pending
  <2>4. Brings(r)' = call'[r].new
    BY <2>1 DEF Brings
  <2> QED
    BY <1>1, <1>2, <2>2, <2>3, <2>4, HeardStayKept
<1>5. CASE Refuses(r) \/ Fails(r)
  <2>1. r \in Pending /\ Answers(r, NoSession)
    BY <1>5, ApiAnswers
  <2>2. /\ Pending' = Pending /\ call'[r].stage = "answered" /\ call'[r].new = NoSession
        /\ call'[r].tab = call[r].tab /\ \A q \in Requests \ {r} : call'[q] = call[q]
    BY <2>1, NoTokenAnswer
  <2>3. \A q \in Heard' : (q \in Heard /\ Brings(q)' = Brings(q)) \/ Brings(q)' = NoSession
    BY <2>2 DEF Heard, Brings, Pending
  <2> QED
    BY <1>1, <1>2, <2>3, HeardStayKept
<1>6. CASE Rotates(r)
  <2>1. call' = call
    BY <1>6 DEF Rotates, client
  <2>2. \A q \in Heard' : q \in Heard /\ Brings(q)' = Brings(q)
    BY <2>1 DEF Heard, Brings, Pending
  <2> QED
    BY <1>1, <1>2, <2>2, HeardStayKept
<1> QED
  BY <1>3, <1>4, <1>5, <1>6

LEMMA SignedOutStep == SignedOutInv /\ [WebNext]_webVars => SignedOutInv'
<1> SUFFICES ASSUME SignedOutInv, [WebNext]_webVars, out'
             PROVE  StoredAreKept' /\ HeardAreKept'
  BY ClientStep DEF SignedOutInv
<1> ClientOK /\ WebTypeOK
  BY DEF SignedOutInv, ClientOK
<1>1. ASSUME NEW t \in Tabs, SignOut(t)
      PROVE  StoredAreKept' /\ HeardAreKept'
  <2>1. SetTokens(t, NoSession) /\ call' = call /\ kept' = LeavesBehind(t)
    BY <1>1 DEF SignOut, ClearTokens
  <2>2. /\ storage' = NoSession /\ memory'[t] = NoSession
        /\ \A u \in Tabs \ {t} : memory'[u] = memory[u]
    BY <2>1, TokensStored
  <2>3. StoredAreKept'
    BY <2>1, <2>2 DEF StoredAreKept, LeavesBehind
  <2>4. Heard' = Heard /\ \A r \in Heard : Brings(r)' = Brings(r)
    BY <2>1 DEF Heard, Brings, Pending
  <2>5. HeardAreKept'
    BY <2>1, <2>4 DEF HeardAreKept, LeavesBehind
  <2> QED
    BY <2>3, <2>5
<1>2. CASE ~\E t \in Tabs : SignOut(t)
  <2>1. ~\E t \in Tabs, r \in Requests, u \in Users : SignIn(t, r, u)
    BY DEF SignIn
  <2>2. out
    BY <1>2, <2>1 DEF WebNext, Load, Refresh, Arrives, Lost, Answer, LoseAnswer, ApiStep, Rotates,
                      Issues, Refuses, Fails, webVars, client
  <2>3. StoredAreKept /\ HeardAreKept
    BY <2>2 DEF SignedOutInv
  <2>4. CASE UNCHANGED webVars
    <3>1. StoredAreKept'
      BY <2>3, <2>4 DEF StoredAreKept, webVars, client
    <3>2. \A q \in Heard' : q \in Heard /\ Brings(q)' = Brings(q)
      BY <2>4 DEF Heard, Brings, Pending, webVars, client
    <3>3. kept' = kept
      BY <2>4 DEF webVars, client
    <3> QED
      BY <2>3, <3>1, <3>2, <3>3, HeardStayKept
  <2> QED
    BY <1>2, <2>1, <2>2, <2>3, <2>4, SignedOutTabStep, SignedOutApiStep DEF WebNext, ApiStep
<1> QED
  BY <1>1, <1>2

(* After a sign-out the browser holds no token but those that another tab
   remembered, or that were under way, and what came of them: whatever is
   lost, reloaded or answered late, what comes back has one of these causes. *)
THEOREM SignedOutIsFinal == WebSpec => []SignedOutStaysOut
<1>1. WebInit => SignedOutInv
  BY ClientInit DEF WebInit, SignedOutInv
<1>2. SignedOutInv => SignedOutStaysOut
  BY DEF SignedOutInv, SignedOutStaysOut, StoredAreKept
<1> QED
  BY <1>1, <1>2, SignedOutStep, PTL DEF WebSpec

-----------------------------------------------------------------------------
(* One tab that exchanges tokens stays signed in.  A token that was issued and *)
(* has not reached its tab is known to nobody else... *)
Undelivered(s) ==
    /\ s # storage /\ \A t \in Tabs : s # memory[t]
    /\ \A q \in Pending : call[q].kind = "refresh" => s # call[q].token

FreshAnswers ==
    \A r \in Pending : call[r].new # NoSession =>
        /\ Undelivered(call[r].new)
        /\ \A q \in Pending : call[q].new = call[r].new => q = r

(* ...and as long as nothing was lost and one tab at most has asked for an
   exchange, what the tab and the storage hold can be exchanged or is being,
   and every call goes its way from a live token to a live token. *)
Steady == ~hitch /\ \A t, u \in askers : t = u

Good(s) == s = NoSession \/ s \in Live \/ BeingExchanged(s)

StoredGood == Good(storage) /\ \A t \in Tabs : askers \subseteq {t} => Good(memory[t])

OneExchange ==
    \A q, r \in Pending : call[q].kind = "refresh" /\ call[r].kind = "refresh" => q = r

SteadyCall(r) ==
    /\ call[r].tab # NoTab
    /\ call[r].kind = "refresh" =>
          /\ call[r].tab \in askers
          /\ call[r].stage = "sent" => call[r].token \in Live
          /\ call[r].stage = "working" =>
                /\ req[r].token = call[r].token
                /\ Doing(r, "rotate") \/ Doing(r, "create")
                /\ Doing(r, "rotate") => call[r].token \in Live
    /\ call[r].kind = "login" =>
          /\ call[r].stage # "sent"
          /\ call[r].stage = "working" => Doing(r, "create")
    /\ call[r].stage = "answered" => call[r].new \in Live

SteadyCalls == \A r \in Pending : SteadyCall(r)

SteadyInv == ClientOK /\ FreshAnswers /\ (Steady => StoredGood /\ OneExchange /\ SteadyCalls)

(* A call that changes, and nothing the tabs hold. *)
LEMMA FreshKept ==
    ASSUME FreshAnswers, UNCHANGED <<memory, storage>>, Pending' \subseteq Pending,
           \A q \in Pending' : /\ call'[q].kind = call[q].kind /\ call'[q].token = call[q].token
                               /\ call'[q].new \in {call[q].new, NoSession}
    PROVE  FreshAnswers'
BY DEF FreshAnswers, Undelivered

LEMMA FreshStep == ClientOK /\ FreshAnswers /\ [WebNext]_webVars => FreshAnswers'
<1> SUFFICES ASSUME ClientOK, FreshAnswers, [WebNext]_webVars PROVE FreshAnswers'
  OBVIOUS
<1> WebTypeOK /\ TypeOK
  BY DEF ClientOK, WebTypeOK
<1>1. ASSUME NEW t \in Tabs, Load(t) PROVE FreshAnswers'
  <2> DEFINE R == {r \in Pending : call[r].tab = t}
  <2>1. call' = Unheard(R) /\ R \in SUBSET Pending
    BY <1>1 DEF Load
  <2> HIDE DEF R
  <2>2. /\ Pending' = Pending
        /\ \A q \in Pending : /\ call'[q].kind = call[q].kind /\ call'[q].token = call[q].token
                              /\ call'[q].new = call[q].new
    BY <2>1, CallsUnheard
  <2>3. /\ storage' = storage
        /\ \A u \in Tabs : memory'[u] = memory[u] \/ memory'[u] = NoSession
    BY <1>1 DEF Load, WebTypeOK
  <2> QED
    BY <2>2, <2>3 DEF FreshAnswers, Undelivered
<1>2. ASSUME NEW t \in Tabs, SignOut(t) PROVE FreshAnswers'
  <2>1. SetTokens(t, NoSession) /\ call' = call
    BY <1>2 DEF SignOut, ClearTokens
  <2>2. Pending' = Pending
    BY <2>1 DEF Pending
  <2> QED
    BY <2>1, <2>2, TokensStored DEF FreshAnswers, Undelivered
<1>3. ASSUME NEW t \in Tabs, NEW r \in Requests, Refresh(t, r) PROVE FreshAnswers'
  <2>1. PICK s \in Created : s = Token(t)
    BY <1>3, TokenKept DEF Refresh
  <2>2. s \in SessionIds \cup {NoSession}
    BY DEF Created
  <2>3. /\ Call(t, "refresh", s, "sent") \in Calls
        /\ Call(t, "refresh", s, "sent").token = s
        /\ Call(t, "refresh", s, "sent").new = NoSession
    BY <2>2, CallRecord
  <2>4. r \in Requests \ Pending /\ call' = [call EXCEPT ![r] = Call(t, "refresh", s, "sent")]
    BY <1>3, <2>1 DEF Refresh, Free
  <2>5. /\ Pending' = Pending \cup {r} /\ call'[r].token = s /\ call'[r].new = NoSession
        /\ \A q \in Pending : call'[q] = call[q]
    BY <2>3, <2>4, CallMade DEF Pending
  <2>6. /\ storage' = storage /\ memory'[t] = s
        /\ \A u \in Tabs \ {t} : memory'[u] = memory[u]
    BY <1>3, <2>1 DEF Refresh, WebTypeOK
  <2>7. s = storage \/ s = memory[t]
    BY <2>1 DEF Token
  <2> QED
    BY <2>5, <2>6, <2>7 DEF FreshAnswers, Undelivered
<1>4. ASSUME NEW t \in Tabs, NEW r \in Requests, NEW u \in Users, SignIn(t, r, u)
      PROVE  FreshAnswers'
  <2>1. /\ r \in Requests \ Pending /\ UNCHANGED <<memory, storage>>
        /\ call' = [call EXCEPT ![r] = Call(t, "login", NoSession, "working")]
    BY <1>4 DEF SignIn, Free
  <2>2. /\ Call(t, "login", NoSession, "working") \in Calls
        /\ Call(t, "login", NoSession, "working").kind = "login"
        /\ Call(t, "login", NoSession, "working").new = NoSession
    BY CallRecord
  <2>3. /\ Pending' = Pending \cup {r} /\ call'[r].kind = "login" /\ call'[r].new = NoSession
        /\ \A q \in Pending : call'[q] = call[q]
    BY <2>1, <2>2, CallMade DEF Pending
  <2> QED
    BY <2>1, <2>3 DEF FreshAnswers, Undelivered
<1>5. ASSUME NEW r \in Requests, Lost(r) PROVE FreshAnswers'
  <2>1. r \in Pending /\ call' = [call EXCEPT ![r] = NoCall] /\ UNCHANGED <<memory, storage>>
    BY <1>5 DEF Lost, At
  <2>2. Pending' \subseteq Pending /\ \A q \in Pending' : call'[q] = call[q]
    BY <2>1, CallOver DEF Pending
  <2> QED
    BY <2>1, <2>2, FreshKept
<1>6. ASSUME NEW r \in Requests, Answer(r) PROVE FreshAnswers'
  <2>1. r \in Pending /\ call' = [call EXCEPT ![r] = NoCall]
    BY <1>6 DEF Answer, At
  <2>2. Pending' = Pending \ {r} /\ \A q \in Pending' : call'[q] = call[q]
    BY <2>1, CallOver DEF Pending
  <2>3. CASE UNCHANGED <<memory, storage>>
    BY <2>2, <2>3, FreshKept
  <2>4. CASE ~UNCHANGED <<memory, storage>>
    <3>1. PICK t \in Tabs, s \in Created \cup {NoSession} : t = call[r].tab /\ s = call[r].new /\ SetTokens(t, s)
      BY <1>6, <2>1, <2>4, CallFields DEF Answer
    <3>2. storage' = s /\ memory'[t] = s /\ \A u \in Tabs \ {t} : memory'[u] = memory[u]
      BY <3>1, TokensStored
    <3> QED
      BY <2>1, <2>2, <3>1, <3>2 DEF FreshAnswers, Undelivered
  <2> QED
    BY <2>3, <2>4
<1>7. ASSUME NEW r \in Requests, LoseAnswer(r) PROVE FreshAnswers'
  <2>1. r \in Pending /\ call' = Unheard({r}) /\ call[r].tab \in Tabs
    BY <1>7, CallFields DEF LoseAnswer
  <2>2. /\ Pending' = Pending
        /\ \A q \in Pending : /\ call'[q].kind = call[q].kind /\ call'[q].token = call[q].token
                              /\ call'[q].new = call[q].new
    BY <2>1, CallsUnheard
  <2>3. CASE UNCHANGED <<memory, storage>>
    BY <2>2, <2>3, FreshKept
  <2>4. CASE ~UNCHANGED <<memory, storage>>
    <3>1. PICK t \in Tabs : t = call[r].tab /\ SetTokens(t, NoSession)
      BY <1>7, <2>1, <2>4 DEF LoseAnswer, ClearTokens
    <3>2. storage' = NoSession /\ \A u \in Tabs : memory'[u] = memory[u] \/ memory'[u] = NoSession
      BY <3>1, TokensStored
    <3> QED
      BY <2>2, <3>2 DEF FreshAnswers, Undelivered
  <2> QED
    BY <2>3, <2>4
<1>8. ASSUME NEW r \in Requests, Arrives(r) PROVE FreshAnswers'
  <2>1. UNCHANGED <<memory, storage>>
    BY <1>8 DEF Arrives
  <2>2. /\ Pending' = Pending
        /\ \A q \in Pending : /\ call'[q].kind = call[q].kind /\ call'[q].token = call[q].token
                              /\ call'[q].new = call[q].new
    BY <1>8, ArrivesEffect DEF Pending
  <2> QED
    BY <2>1, <2>2, FreshKept
<1>9. ASSUME NEW r \in Requests, Rotates(r) PROVE FreshAnswers'
  BY <1>9 DEF Rotates, client, FreshAnswers, Undelivered, Pending
<1>10. ASSUME NEW r \in Requests, Issues(r) PROVE FreshAnswers'
  <2>1. UNCHANGED <<memory, storage>>
    BY <1>10 DEF Issues
  <2>2. /\ Pending' = Pending /\ r \in Pending
        /\ call'[r].new \in SessionIds \ Created
        /\ \A q \in Pending : call'[q].kind = call[q].kind /\ call'[q].token = call[q].token
        /\ \A q \in Pending \ {r} : call'[q] = call[q]
    BY <1>10, IssueEffect DEF Pending
  <2>3. call'[r].new # NoSession
    BY <2>2, SessionsAssumption
  <2>4. \A q \in Pending : call[q].new # call'[r].new
    BY <2>2, <2>3 DEF WebTypeOK
  <2>5. Undelivered(call[r].new)'
    BY <2>1, <2>2, <2>3 DEF Undelivered, ClientOK, WebTypeOK
  <2>6. ASSUME NEW q \in Pending \ {r}, call[q].new # NoSession
        PROVE  Undelivered(call[q].new)' /\ \A p \in Pending : call'[p].new = call[q].new => p = q
    BY <2>1, <2>2, <2>4, <2>6 DEF FreshAnswers, Undelivered
  <2> QED
    BY <2>2, <2>4, <2>5, <2>6 DEF FreshAnswers
<1>11. ASSUME NEW r \in Requests, Refuses(r) \/ Fails(r) PROVE FreshAnswers'
  <2>1. r \in Pending /\ Answers(r, NoSession) /\ UNCHANGED <<memory, storage>>
    BY <1>11, ApiAnswers
  <2>2. /\ Pending' = Pending
        /\ \A q \in Pending : /\ call'[q].kind = call[q].kind /\ call'[q].token = call[q].token
                              /\ call'[q].new \in {call[q].new, NoSession}
    BY <2>1, NoTokenAnswer DEF Pending
  <2> QED
    BY <2>1, <2>2, FreshKept
<1>12. CASE UNCHANGED webVars
  BY <1>12 DEF webVars, client, FreshAnswers, Undelivered, Pending
<1> QED
  BY <1>1, <1>2, <1>3, <1>4, <1>5, <1>6, <1>7, <1>8, <1>9, <1>10, <1>11, <1>12 DEF WebNext, ApiStep

(* What can be exchanged, or is being, stays so in a step that revokes nothing
   and ends no call. *)
LEMMA GoodStays ==
    ASSUME Live \subseteq Live', Pending \subseteq Pending',
           \A q \in Pending : /\ call'[q].kind = call[q].kind /\ call'[q].token = call[q].token
                              /\ call'[q].tab = call[q].tab
    PROVE  \A s : Good(s) => Good(s)'
BY DEF Good, BeingExchanged

LEMMA GoodStored ==
    ASSUME StoredGood, UNCHANGED <<memory, storage, askers>>,
           \A s : Good(s) => Good(s)'
    PROVE  StoredGood'
<1>1. Good(storage)'
  <2>1. PICK s : s = storage
    OBVIOUS
  <2>2. Good(s)'
    BY <2>1 DEF StoredGood
  <2> QED
    BY <2>1, <2>2 DEF Good, BeingExchanged
<1>2. ASSUME NEW t \in Tabs, askers' \subseteq {t} PROVE Good(memory[t])'
  <2>1. PICK s : s = memory[t]
    OBVIOUS
  <2>2. Good(s)'
    BY <1>2, <2>1 DEF StoredGood
  <2> QED
    BY <2>1, <2>2 DEF Good, BeingExchanged
<1> QED
  BY <1>1, <1>2 DEF StoredGood

(* A call that nothing happens to. *)
LEMMA CallSteady ==
    ASSUME NEW q \in Pending, SteadyCall(q), call'[q] = call[q], askers \subseteq askers',
           call[q].token \in Live => call[q].token \in Live',
           call[q].new \in Live => call[q].new \in Live',
           req'[q] = req[q]
    PROVE  SteadyCall(q)'
BY DEF SteadyCall, Doing

(* What the tabs do. *)
LEMMA SteadyTabStep ==
    ASSUME ClientOK, StoredGood, OneExchange, SteadyCalls, UNCHANGED vars, Steady',
           \/ \E t \in Tabs : Load(t) \/ SignOut(t) \/ \E r \in Requests : Refresh(t, r)
           \/ \E r \in Requests : Lost(r) \/ Answer(r) \/ LoseAnswer(r)
    PROVE  StoredGood' /\ OneExchange' /\ SteadyCalls'
<1> WebTypeOK /\ TypeOK
  BY DEF ClientOK, WebTypeOK
<1> Live' = Live /\ req' = req
  BY DEF vars, tables, Live, Created
<1>1. ASSUME NEW t \in Tabs, Load(t) PROVE StoredGood' /\ OneExchange' /\ SteadyCalls'
  <2> DEFINE R == {r \in Pending : call[r].tab = t}
  <2>1. call' = Unheard(R) /\ R = {}
    BY <1>1 DEF Load, Steady
  <2>2. call' = call
    BY <2>1 DEF Unheard, WebTypeOK
  <2>3. Pending' = Pending
    BY <2>2 DEF Pending
  <2>4. /\ storage' = storage /\ askers' = askers
        /\ memory'[t] = NoSession /\ \A u \in Tabs \ {t} : memory'[u] = memory[u]
    BY <1>1 DEF Load, WebTypeOK
  <2> HIDE DEF R
  <2>5. StoredGood'
    BY <2>2, <2>3, <2>4 DEF StoredGood, Good, BeingExchanged
  <2>6. OneExchange' /\ SteadyCalls'
    BY <2>2, <2>3, <2>4 DEF OneExchange, SteadyCalls, SteadyCall, Doing
  <2> QED
    BY <2>5, <2>6
<1>2. ASSUME NEW t \in Tabs, SignOut(t) PROVE StoredGood' /\ OneExchange' /\ SteadyCalls'
  <2>1. SetTokens(t, NoSession) /\ call' = call /\ askers' = askers
    BY <1>2 DEF SignOut, ClearTokens
  <2>2. Pending' = Pending
    BY <2>1 DEF Pending
  <2>3. storage' = NoSession /\ memory'[t] = NoSession /\ \A u \in Tabs \ {t} : memory'[u] = memory[u]
    BY <2>1, TokensStored
  <2>4. StoredGood'
    BY <2>1, <2>2, <2>3 DEF StoredGood, Good, BeingExchanged
  <2>5. OneExchange' /\ SteadyCalls'
    BY <2>1, <2>2 DEF OneExchange, SteadyCalls, SteadyCall, Doing
  <2> QED
    BY <2>4, <2>5
<1>3. ASSUME NEW t \in Tabs, NEW r \in Requests, Refresh(t, r)
      PROVE  StoredGood' /\ OneExchange' /\ SteadyCalls'
  <2>1. PICK s \in Created : s = Token(t)
    BY <1>3, TokenKept DEF Refresh
  <2>2. askers' = {t} /\ askers \subseteq {t}
    BY <1>3 DEF Refresh, Steady
  <2>3. \A q \in Pending : call[q].kind # "refresh"
    <3>1. \A q \in Pending : call[q].kind = "refresh" => call[q].tab = t
      BY <2>2 DEF SteadyCalls, SteadyCall
    <3> QED
      BY <1>3, <3>1 DEF Refresh, Waiting
  <2>4. \A x : Good(x) => x \in Live \cup {NoSession}
    BY <2>3 DEF Good, BeingExchanged
  <2>5. s # NoSession
    BY <1>3, <2>1 DEF Refresh
  <2>6. s \in Live
    <3>1. Good(storage) /\ Good(memory[t])
      BY <2>2 DEF StoredGood
    <3>2. storage \in Live \cup {NoSession} /\ memory[t] \in Live \cup {NoSession}
      BY <2>4, <3>1
    <3> QED
      BY <2>1, <2>5, <3>2 DEF Token
  <2>7. s \in SessionIds \cup {NoSession} /\ t # NoTab
    BY WebClientAssumption DEF Created
  <2>8. /\ Call(t, "refresh", s, "sent") \in Calls
        /\ Call(t, "refresh", s, "sent").tab = t
        /\ Call(t, "refresh", s, "sent").kind = "refresh"
        /\ Call(t, "refresh", s, "sent").token = s
        /\ Call(t, "refresh", s, "sent").stage = "sent"
    BY <2>7, CallRecord
  <2>9. r \in Requests \ Pending /\ call' = [call EXCEPT ![r] = Call(t, "refresh", s, "sent")]
    BY <1>3, <2>1 DEF Refresh, Free
  <2>10. /\ Pending' = Pending \cup {r} /\ call'[r].tab = t /\ call'[r].kind = "refresh"
         /\ call'[r].token = s /\ call'[r].stage = "sent"
         /\ \A q \in Pending : call'[q] = call[q]
    BY <2>8, <2>9, CallMade DEF Pending
  <2>11. storage' = storage /\ memory'[t] = s
    BY <1>3, <2>1 DEF Refresh, WebTypeOK
  <2>12. StoredGood'
    <3>1. storage' \in Live \cup {NoSession}
      BY <2>4, <2>11 DEF StoredGood
    <3>2. \A u \in Tabs : askers' \subseteq {u} => u = t
      BY <2>2
    <3> QED
      BY <2>6, <2>11, <3>1, <3>2 DEF StoredGood, Good
  <2>13. OneExchange'
    BY <2>3, <2>10 DEF OneExchange
  <2>14. SteadyCall(r)'
    BY <2>2, <2>6, <2>7, <2>10 DEF SteadyCall
  <2>15. \A q \in Pending : SteadyCall(q)'
    BY <2>2, <2>10 DEF SteadyCalls, SteadyCall, Doing
  <2>16. SteadyCalls'
    BY <2>10, <2>14, <2>15 DEF SteadyCalls
  <2> QED
    BY <2>12, <2>13, <2>16
<1>4. ASSUME NEW r \in Requests PROVE ~Lost(r) /\ ~LoseAnswer(r)
  BY DEF Lost, At, LoseAnswer, SteadyCalls, SteadyCall, Steady
<1>5. ASSUME NEW r \in Requests, Answer(r) PROVE StoredGood' /\ OneExchange' /\ SteadyCalls'
  <2>1. r \in Pending /\ call[r].stage = "answered" /\ call' = [call EXCEPT ![r] = NoCall]
        /\ askers' = askers
    BY <1>5 DEF Answer, At
  <2>2. Pending' = Pending \ {r} /\ \A q \in Pending' : call'[q] = call[q]
    BY <2>1, CallOver DEF Pending
  <2>3. call[r].tab # NoTab /\ call[r].new \in Live
    BY <2>1 DEF SteadyCalls, SteadyCall
  <2>4. call[r].new # NoSession /\ call[r].new \in Created
    BY <2>3, SessionsAssumption DEF Live, Created
  <2>5. PICK t \in Tabs, s \in Created \cup {NoSession} :
          t = call[r].tab /\ s = call[r].new /\ SetTokens(t, s)
    BY <1>5, <2>1, <2>3, <2>4, CallFields DEF Answer
  <2>6. storage' = s /\ memory'[t] = s /\ \A u \in Tabs \ {t} : memory'[u] = memory[u]
    BY <2>5, TokensStored
  <2>7. ASSUME NEW u \in Tabs \ {t}, askers \subseteq {u} PROVE Good(memory[u])'
    <3>1. call[r].kind # "refresh"
      BY <2>1, <2>5, <2>7 DEF SteadyCalls, SteadyCall
    <3>2. Good(memory[u])
      BY <2>7 DEF StoredGood
    <3> QED
      BY <2>2, <2>6, <3>1, <3>2 DEF Good, BeingExchanged
  <2>8. s \in Live
    BY <2>3, <2>5
  <2>9. StoredGood'
    BY <2>1, <2>6, <2>7, <2>8 DEF StoredGood, Good
  <2>10. OneExchange' /\ SteadyCalls'
    BY <2>1, <2>2 DEF OneExchange, SteadyCalls, SteadyCall, Doing
  <2> QED
    BY <2>9, <2>10
<1> QED
  BY <1>1, <1>2, <1>3, <1>4, <1>5

(* What the API does. *)
LEMMA SteadyApiStep ==
    ASSUME ClientOK, FreshAnswers, StoredGood, OneExchange, SteadyCalls, Steady', NEW r \in Requests,
           \/ \E t \in Tabs, u \in Users : SignIn(t, r, u)
           \/ Arrives(r) \/ ApiStep(r) \/ Fails(r)
    PROVE  StoredGood' /\ OneExchange' /\ SteadyCalls'
<1> WebTypeOK /\ TypeOK
  BY DEF ClientOK, WebTypeOK
<1>1. ASSUME NEW t \in Tabs, NEW u \in Users, SignIn(t, r, u)
      PROVE  StoredGood' /\ OneExchange' /\ SteadyCalls'
  <2>1. /\ r \in Requests \ Pending /\ Login(r, u)
        /\ call' = [call EXCEPT ![r] = Call(t, "login", NoSession, "working")]
        /\ UNCHANGED <<memory, storage, askers, hitch>>
    BY <1>1 DEF SignIn, Free
  <2>2. /\ Call(t, "login", NoSession, "working") \in Calls
        /\ Call(t, "login", NoSession, "working").tab = t
        /\ Call(t, "login", NoSession, "working").kind = "login"
        /\ Call(t, "login", NoSession, "working").stage = "working"
    BY CallRecord
  <2>3. /\ Pending' = Pending \cup {r} /\ call'[r].tab = t /\ call'[r].kind = "login"
        /\ call'[r].stage = "working"
        /\ \A q \in Pending : call'[q] = call[q]
    BY <2>1, <2>2, CallMade DEF Pending
  <2>4. /\ req'[r].next = "create" /\ session' = session
        /\ \A q \in Pending : req'[q] = req[q]
    BY <2>1, SignInEffect DEF Pending
  <2>5. Live' = Live
    BY <2>4 DEF Live, Created
  <2>6. StoredGood'
    BY <2>1, <2>3, <2>5, GoodStays, GoodStored
  <2>7. OneExchange'
    BY <2>3 DEF OneExchange
  <2>8. SteadyCall(r)'
    BY <2>3, <2>4, WebClientAssumption DEF SteadyCall, Doing
  <2>9. \A q \in Pending : SteadyCall(q)'
    BY <2>1, <2>3, <2>4, <2>5, CallSteady DEF SteadyCalls
  <2> QED
    BY <2>3, <2>6, <2>7, <2>8, <2>9 DEF SteadyCalls
<1>2. CASE Arrives(r)
  <2>1. UNCHANGED <<memory, storage, askers, hitch>>
    BY <1>2 DEF Arrives
  <2>2. /\ r \in Pending /\ Pending' = Pending
        /\ call[r].stage = "sent"
        /\ req'[r].token = call[r].token
        /\ req'[r].next = IF session[call[r].token].revoked THEN "revokeFamily" ELSE "rotate"
        /\ session' = session
        /\ call'[r].stage = "working"
        /\ call'[r].tab = call[r].tab /\ call'[r].kind = call[r].kind
        /\ call'[r].token = call[r].token
        /\ \A q \in Pending \ {r} : call'[q] = call[q] /\ req'[q] = req[q]
    BY <1>2, ArrivesEffect DEF Pending
  <2>3. Live' = Live
    BY <2>2 DEF Live, Created
  <2>4. call[r].kind = "refresh" /\ call[r].token \in Live
    BY <2>2, CallFields DEF SteadyCalls, SteadyCall
  <2>5. StoredGood'
    <3>1. \A q \in Pending : /\ call'[q].kind = call[q].kind /\ call'[q].token = call[q].token
                             /\ call'[q].tab = call[q].tab
      BY <2>2
    <3> QED
      BY <2>1, <2>2, <2>3, <3>1, GoodStays, GoodStored
  <2>6. OneExchange'
    BY <2>2 DEF OneExchange
  <2>7. SteadyCall(r)'
    BY <2>1, <2>2, <2>3, <2>4 DEF SteadyCalls, SteadyCall, Doing, Live
  <2>8. \A q \in Pending \ {r} : SteadyCall(q)'
    BY <2>1, <2>2, <2>3, CallSteady DEF SteadyCalls
  <2> QED
    BY <2>2, <2>5, <2>6, <2>7, <2>8 DEF SteadyCalls
<1>3. CASE Rotates(r)
  <2>1. UNCHANGED <<memory, storage, call, askers>> /\ RefreshRotate(r)
    BY <1>3 DEF Rotates, client
  <2>2. Pending' = Pending
    BY <2>1 DEF Pending
  <2>3. PICK s : s = req[r].token
    OBVIOUS
  <2>4. /\ s \in Created /\ req[r] # Idle /\ Created' = Created
        /\ \A x \in Created \ {s} : session'[x].revoked = session[x].revoked
        /\ req'[r].next = "create" /\ req'[r].token = s
        /\ \A q \in Requests \ {r} : req'[q] = req[q]
    BY <2>1, <2>3, RotateEffect
  <2>5. Live \ {s} \subseteq Live'
    BY <2>4 DEF Live
  <2>6. r \in Pending /\ call[r].stage = "working" /\ Doing(r, "rotate")
    BY <2>1, <2>4 DEF ClientOK, WebTypeOK, RefreshRotate
  <2>7. call[r].kind = "refresh" /\ call[r].token = s /\ call[r].tab # NoTab
    BY <2>3, <2>6, CallFields DEF SteadyCalls, SteadyCall, Doing
  <2>8. \A x : Good(x) => Good(x)'
    <3>1. Good(s)'
      BY <2>1, <2>2, <2>6, <2>7 DEF Good, BeingExchanged
    <3>2. ASSUME NEW x, x # s, Good(x) PROVE Good(x)'
      BY <2>1, <2>2, <2>5, <3>2 DEF Good, BeingExchanged
    <3> QED
      BY <3>1, <3>2
  <2>9. StoredGood'
    BY <2>1, <2>8, GoodStored
  <2>10. OneExchange'
    BY <2>1, <2>2 DEF OneExchange
  <2>11. SteadyCall(r)'
    BY <2>1, <2>4, <2>6, <2>7 DEF SteadyCalls, SteadyCall, Doing
  <2>12. ASSUME NEW q \in Pending \ {r} PROVE SteadyCall(q)'
    <3>1. call[q].kind = "login"
      BY <2>6, <2>7, CallFields DEF OneExchange
    <3>2. call[q].new \in Live => call[q].new # s
      <4>1. call[q].new \in Live => call[q].new # NoSession
        BY SessionsAssumption DEF Live, Created
      <4> QED
        BY <2>6, <2>7, <4>1 DEF FreshAnswers, Undelivered
    <3>3. call[q].new \in Live => call[q].new \in Live'
      BY <2>5, <3>2
    <3>4. req'[q] = req[q]
      BY <2>4 DEF Pending
    <3> QED
      BY <2>1, <3>1, <3>3, <3>4 DEF SteadyCalls, SteadyCall, Doing
  <2> QED
    BY <2>2, <2>9, <2>10, <2>11, <2>12 DEF SteadyCalls
<1>4. CASE Issues(r)
  <2>1. UNCHANGED <<memory, storage, askers>>
    BY <1>4 DEF Issues
  <2>2. /\ r \in Pending /\ Pending' = Pending
        /\ call'[r].stage = "answered" /\ call'[r].new \in Live' /\ Live \subseteq Live'
        /\ call'[r].tab = call[r].tab /\ call'[r].kind = call[r].kind
        /\ call'[r].token = call[r].token
        /\ \A q \in Pending \ {r} : call'[q] = call[q] /\ req'[q] = req[q]
    BY <1>4, IssueEffect DEF Pending
  <2>3. StoredGood'
    <3>1. \A q \in Pending : /\ call'[q].kind = call[q].kind /\ call'[q].token = call[q].token
                             /\ call'[q].tab = call[q].tab
      BY <2>2
    <3> QED
      BY <2>1, <2>2, <3>1, GoodStays, GoodStored
  <2>4. OneExchange'
    BY <2>2 DEF OneExchange
  <2>5. SteadyCall(r)'
    BY <2>1, <2>2 DEF SteadyCalls, SteadyCall
  <2>6. \A q \in Pending \ {r} : SteadyCall(q)'
    BY <2>1, <2>2, CallSteady DEF SteadyCalls
  <2> QED
    BY <2>2, <2>3, <2>4, <2>5, <2>6 DEF SteadyCalls
<1>5. ~Fails(r)
  BY DEF Fails, Steady
<1>6. ~Refuses(r)
  <2>1. ASSUME Refuses(r) PROVE FALSE
    <3>1. r \in Pending /\ req[r] # Idle /\ req[r].next = "revokeFamily"
      BY <2>1, ApiAnswers DEF Refuses, RevokeFamily, Doing, Idle
    <3>2. call[r].stage = "working"
      BY <3>1 DEF WebTypeOK
    <3> QED
      BY <3>1, <3>2, CallFields DEF SteadyCalls, SteadyCall, Doing
  <2> QED
    BY <2>1
<1> QED
  BY <1>1, <1>2, <1>3, <1>4, <1>5, <1>6 DEF ApiStep

LEMMA SteadyStep == SteadyInv /\ [WebNext]_webVars => SteadyInv'
<1> SUFFICES ASSUME SteadyInv, [WebNext]_webVars PROVE SteadyInv'
  OBVIOUS
<1>1. ClientOK' /\ FreshAnswers'
  BY ClientStep, FreshStep DEF SteadyInv
<1>2. ASSUME Steady' PROVE Steady
  <2>1. hitch => hitch'
    BY DEF WebNext, Load, SignIn, Refresh, Answer, LoseAnswer, SignOut, Arrives, Lost, ApiStep,
           Rotates, Issues, Refuses, Fails, client, webVars
  <2>2. askers \subseteq askers'
    BY DEF WebNext, Load, SignIn, Refresh, Answer, LoseAnswer, SignOut, Arrives, Lost, ApiStep,
           Rotates, Issues, Refuses, Fails, client, webVars
  <2> QED
    BY <1>2, <2>1, <2>2 DEF Steady
<1>3. ASSUME Steady' PROVE StoredGood' /\ OneExchange' /\ SteadyCalls'
  <2>1. ClientOK /\ FreshAnswers /\ StoredGood /\ OneExchange /\ SteadyCalls
    BY <1>2, <1>3 DEF SteadyInv
  <2>2. CASE UNCHANGED webVars
    <3>1. UNCHANGED <<memory, storage, call, askers, hitch, req, session>>
      BY <2>2 DEF webVars, client, vars, tables
    <3>2. Pending' = Pending /\ Live' = Live
      BY <3>1 DEF Pending, Live, Created
    <3> QED
      BY <2>1, <3>1, <3>2 DEF StoredGood, Good, BeingExchanged, OneExchange, SteadyCalls, SteadyCall, Doing
  <2>3. CASE \/ \E t \in Tabs : Load(t) \/ SignOut(t) \/ \E r \in Requests : Refresh(t, r)
             \/ \E r \in Requests : Lost(r) \/ Answer(r) \/ LoseAnswer(r)
    <3>1. UNCHANGED vars
      BY <2>3 DEF Load, SignOut, Refresh, Lost, Answer, LoseAnswer
    <3> QED
      BY <1>3, <2>1, <2>3, <3>1, SteadyTabStep
  <2>4. ASSUME NEW r \in Requests,
               \/ \E t \in Tabs, u \in Users : SignIn(t, r, u)
               \/ Arrives(r) \/ ApiStep(r) \/ Fails(r)
        PROVE  StoredGood' /\ OneExchange' /\ SteadyCalls'
    BY <1>3, <2>1, <2>4, SteadyApiStep
  <2> QED
    BY <2>2, <2>3, <2>4 DEF WebNext
<1> QED
  BY <1>1, <1>3 DEF SteadyInv

(* At most one tab asked: no two did. *)
LEMMA AtMostOne ==
    ASSUME NEW S \in SUBSET Tabs, Cardinality(S) <= 1
    PROVE  \A t, u \in S : t = u
<1>1. IsFiniteSet(S)
  BY WebClientAssumption, FS_Subset
<1>2. Cardinality(S) \in Nat
  BY <1>1, FS_CardinalityType
<1>3. CASE Cardinality(S) = 0
  BY <1>1, <1>3, FS_EmptySet
<1>4. CASE Cardinality(S) = 1
  BY <1>1, <1>4, FS_Singleton
<1> QED
  BY <1>2, <1>3, <1>4

(* A browser of which one tab exchanges tokens stays signed in, in every
   interleaving with the other tabs and the API. *)
THEOREM OneTabIsNeverSignedOut == WebSpec => []OneTabStaysSignedIn
<1>1. WebInit => SteadyInv
  <2> SUFFICES ASSUME WebInit PROVE SteadyInv
    OBVIOUS
  <2>1. ClientOK /\ Pending = {} /\ storage = NoSession /\ \A t \in Tabs : memory[t] = NoSession
    BY ClientInit DEF WebInit, Pending
  <2> QED
    BY <2>1 DEF SteadyInv, FreshAnswers, StoredGood, Good, OneExchange, SteadyCalls
<1>2. SteadyInv => OneTabStaysSignedIn
  <2> SUFFICES ASSUME SteadyInv, ~hitch, Cardinality(askers) <= 1, storage # NoSession
               PROVE  storage \in Live \/ BeingExchanged(storage)
    BY DEF OneTabStaysSignedIn
  <2>1. askers \in SUBSET Tabs
    BY DEF SteadyInv, ClientOK, WebTypeOK
  <2>2. Steady
    BY <2>1, AtMostOne DEF Steady
  <2> QED
    BY <2>2 DEF SteadyInv, StoredGood, Good
<1> QED
  BY <1>1, <1>2, SteadyStep, PTL DEF WebSpec
====
