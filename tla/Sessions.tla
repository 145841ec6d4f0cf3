---- MODULE Sessions ----
(***************************************************************************)
(* Refresh-token sessions of the API: the rows of the sessions table and   *)
(* the handlers that create, rotate and revoke them (auth.service.ts, and  *)
(* the handlers of other services that touch the table).                   *)
(*                                                                         *)
(* The API is one Node process.  A handler runs from one await to the next *)
(* without interruption, and the database makes each statement (and each   *)
(* $transaction) atomic, so a handler is a request that takes one step per *)
(* statement that reads or writes what this module keeps.  Requests        *)
(* interleave between steps.  What a step read is kept in the request and  *)
(* is used, as the code does, without being read again.                    *)
(*                                                                         *)
(* Users are those whose e-mail is verified: their rows are never removed, *)
(* so neither are the rows of their sessions.                              *)
(***************************************************************************)
EXTENDS FiniteSets

CONSTANTS
    Users,      \* user ids
    SessionIds, \* the ids randomUUID may give to sessions
    Requests,   \* the requests that can be in flight together
    NoSession,  \* stands for "no session"
    MayAbort    \* TRUE when the process may stop or a statement may reject

VARIABLES
    deleted,     \* user -> deletedAt is not null
    hasPassword, \* user -> passwordHash is not null
    session,     \* session id -> its row, or NoSession
    req,         \* request -> what it is about to do, or Idle
    (* History, read by the properties and by no guard: *)
    parent,      \* session -> the session it was rotated from, or NoSession
    broken,      \* the families where a rotation hit a revoked row
    outdated,    \* the sessions made before their user's last credential event
    lost         \* the users whose last sign-out everywhere was never carried out

tables  == <<deleted, hasPassword, session>>
history == <<parent, broken, outdated, lost>>
vars    == <<tables, req, history>>

-----------------------------------------------------------------------------
(* Rows and requests *)

Row(u, f, r) == [userId |-> u, familyId |-> f, revoked |-> r]

(* randomUUID gives a new family an id no other family has: here, the id of
   its first session. *)
Rows == [userId : Users, familyId : SessionIds, revoked : BOOLEAN]

(* What HolderOf says of a family without a holder: no word is a UUID. *)
FamilyStates == {"unborn", "broken", "closed"}

ASSUME SessionsAssumption ==
    /\ NoSession \notin SessionIds \cup Rows
    /\ SessionIds \cap FamilyStates = {}
    /\ MayAbort \in BOOLEAN

Created == {s \in SessionIds : session[s] # NoSession}
Live    == {s \in Created : ~session[s].revoked}
OfUser(u)   == {s \in Created : session[s].userId = u}
OfFamily(f) == {s \in Created : session[s].familyId = f}

(* The statement a request will issue next, and those about one session. *)
TokenWrites == {"rotate", "revokeFamily", "revokeOne"}
Writes == TokenWrites \cup {"create", "revokeAll", "changePassword", "setPassword",
                            "resetPassword", "delete", "restore"}

Idle == [next |-> "idle"]
Request(w, u, s) == [next |-> w, user |-> u, token |-> s]
InFlight == [next : Writes, user : Users, token : SessionIds \cup {NoSession}]

Doing(r, w) == req[r].next = w

(* Updates of the sessions table *)
Revoke(S) == [s \in SessionIds |->
                IF s \in S THEN Row(session[s].userId, session[s].familyId, TRUE)
                ELSE session[s]]

(* The part of a step that changes neither users nor history. *)
OnlySessions == UNCHANGED <<deleted, hasPassword, history>>

(* JwtAuthGuard wants an access token of u.  Access tokens are made by
   createTokenPair only, and the guard looks at no session. *)
HasAccessToken(u) == OfUser(u) # {}

Begin(r, w, u, s) ==
    /\ req[r] = Idle
    /\ req' = [req EXCEPT ![r] = Request(w, u, s)]
    /\ UNCHANGED <<tables, history>>

Goto(r, w) == [req EXCEPT ![r].next = w]
Done(r)    == [req EXCEPT ![r] = Idle]

(* u's password was replaced or u's account deleted. *)
CredentialEvent(u) == outdated' = outdated \cup OfUser(u)

-----------------------------------------------------------------------------
(* Mutants of createTokenPair, which put the new session in another family:
   a new one even for a refresh, or none. *)
CreateInFamily(r, s, fam) ==
    /\ Doing(r, "create")
    /\ s \notin Created
    /\ session' = [session EXCEPT ![s] = Row(req[r].user, fam, FALSE)]
    /\ parent' = [parent EXCEPT ![s] = req[r].token]
    /\ req' = Done(r)
    /\ UNCHANGED <<deleted, hasPassword, broken, outdated, lost>>
CreateInNewFamily(r) == \E s \in SessionIds : CreateInFamily(r, s, s)
CreateWithoutFamily(r) == \E s \in SessionIds :
    CreateInFamily(r, s, IF req[r].token = NoSession THEN NoSession ELSE session[req[r].token].familyId)

(* createTokenPair: the last step of every sign-in and of refresh.  A request
   that holds no token opens a family. *)
CreateTokenPair(r) ==
    /\ Doing(r, "create")
    /\ \E s \in SessionIds \ Created :
          LET old == req[r].token
              fam == IF old = NoSession THEN s ELSE session[old].familyId
          IN  /\ session' = [session EXCEPT ![s] = Row(req[r].user, fam, FALSE)]
              /\ parent' = [parent EXCEPT ![s] = old]
    /\ req' = Done(r)
    /\ UNCHANGED <<deleted, hasPassword, broken, outdated, lost>>

(* login: the row is read once; password and second factor are checked
   against what was read. *)
Login(r, u) ==
    /\ hasPassword[u]
    /\ ~deleted[u]
    /\ Begin(r, "create", u, NoSession)

(* verifyAuthentication of a passkey and the Google callback: neither looks
   at deletedAt. *)
SignInWithoutPassword(r, u) == Begin(r, "create", u, NoSession)

(* refresh reads the session of a token that verifies.  A token past its exp
   is one nobody can present any more: clients choose what they send... *)
RefreshRead(r, s) ==
    /\ s \in Created
    /\ Begin(r, IF session[s].revoked THEN "revokeFamily" ELSE "rotate",
             session[s].userId, s)

(* ...a revoked one means reuse: the whole family is revoked... *)
RevokeFamily(r) ==
    /\ Doing(r, "revokeFamily")
    /\ session' = Revoke(OfFamily(session[req[r].token].familyId))
    /\ req' = Done(r)
    /\ OnlySessions

(* Mutant: the token is exchanged without being revoked. *)
RotateWithoutRevoking(r) ==
    /\ Doing(r, "rotate")
    /\ req' = Goto(r, "create")
    /\ UNCHANGED <<tables, history>>

(* ...a live one is revoked, whatever happened to it since it was read. *)
RefreshRotate(r) ==
    /\ Doing(r, "rotate")
    /\ LET s == req[r].token IN
         /\ session' = Revoke({s})
         /\ broken' = IF session[s].revoked
                      THEN broken \cup {session[s].familyId} ELSE broken
    /\ req' = Goto(r, "create")
    /\ UNCHANGED <<deleted, hasPassword, parent, outdated, lost>>

(* logout is one updateMany. *)
Logout(s) ==
    /\ s \in Created
    /\ session' = Revoke({s})
    /\ UNCHANGED req
    /\ OnlySessions

RevokeSessionRead(r, s) ==
    /\ s \in Live
    /\ Begin(r, "revokeOne", session[s].userId, s)

RevokeSession(r) ==
    /\ Doing(r, "revokeOne")
    /\ session' = Revoke({req[r].token})
    /\ req' = Done(r)
    /\ OnlySessions

(* Mutant: exceptSessionId spares a session of the user. *)
RevokeAllSessionsExceptOne(r) ==
    /\ Doing(r, "revokeAll")
    /\ \E s \in OfUser(req[r].user) : session' = Revoke(OfUser(req[r].user) \ {s})
    /\ lost' = lost \ {req[r].user}
    /\ req' = Done(r)
    /\ UNCHANGED <<deleted, hasPassword, parent, broken, outdated>>

(* revokeAllSessions, the second statement of changePassword and deleteAccount *)
RevokeAllSessions(r) ==
    /\ Doing(r, "revokeAll")
    /\ session' = Revoke(OfUser(req[r].user))
    /\ lost' = lost \ {req[r].user}
    /\ req' = Done(r)
    /\ UNCHANGED <<deleted, hasPassword, parent, broken, outdated>>

-----------------------------------------------------------------------------
(* Handlers that change the account *)

ChangePasswordRead(r, u) ==
    /\ HasAccessToken(u)
    /\ hasPassword[u]
    /\ Begin(r, "changePassword", u, NoSession)

ChangePassword(r) ==
    /\ Doing(r, "changePassword")
    /\ CredentialEvent(req[r].user)
    /\ req' = Goto(r, "revokeAll")
    /\ hasPassword' = [hasPassword EXCEPT ![req[r].user] = TRUE]
    /\ UNCHANGED <<deleted, session, parent, broken, lost>>

(* A first password revokes nothing. *)
SetPasswordRead(r, u) ==
    /\ HasAccessToken(u)
    /\ ~hasPassword[u]
    /\ Begin(r, "setPassword", u, NoSession)

SetPassword(r) ==
    /\ Doing(r, "setPassword")
    /\ hasPassword' = [hasPassword EXCEPT ![req[r].user] = TRUE]
    /\ req' = Done(r)
    /\ UNCHANGED <<deleted, session, history>>

(* resetPassword finds an unused reset row, which requestReset makes only
   for a user with a password, and commits everything in one transaction. *)
ResetPasswordRead(r, u) ==
    /\ hasPassword[u]
    /\ Begin(r, "resetPassword", u, NoSession)

ResetPassword(r) ==
    /\ Doing(r, "resetPassword")
    /\ CredentialEvent(req[r].user)
    /\ req' = Done(r)
    /\ hasPassword' = [hasPassword EXCEPT ![req[r].user] = TRUE]
    /\ session' = Revoke(OfUser(req[r].user))
    /\ lost' = lost \ {req[r].user}
    /\ UNCHANGED <<deleted, parent, broken>>

(* deleteAccount does not look at deletedAt: a deletion may be repeated, and
   then renews the restore window. *)
DeleteAccountRead(r, u) ==
    /\ HasAccessToken(u)
    /\ Begin(r, "delete", u, NoSession)

DeleteAccount(r) ==
    /\ Doing(r, "delete")
    /\ CredentialEvent(req[r].user)
    /\ req' = Goto(r, "revokeAll")
    /\ deleted' = [deleted EXCEPT ![req[r].user] = TRUE]
    /\ UNCHANGED <<hasPassword, session, parent, broken, lost>>

(* restoreAccount and confirmRestoreOtp: both read deletedAt, clear it, and
   sign the user in.  When the window has closed nobody can ask any more. *)
RestoreRead(r, u) ==
    /\ deleted[u]
    /\ Begin(r, "restore", u, NoSession)

Restore(r) ==
    /\ Doing(r, "restore")
    /\ deleted' = [deleted EXCEPT ![req[r].user] = FALSE]
    /\ req' = Goto(r, "create")
    /\ UNCHANGED <<hasPassword, session, history>>

-----------------------------------------------------------------------------
(* Failure *)

(* The process stops, or the statement rejects: what was written stays. *)
Abort(r) ==
    /\ MayAbort
    /\ req[r] # Idle
    /\ lost' = IF Doing(r, "revokeAll") THEN lost \cup {req[r].user} ELSE lost
    /\ req' = Done(r)
    /\ UNCHANGED <<tables, parent, broken, outdated>>

-----------------------------------------------------------------------------
Init ==
    /\ deleted = [u \in Users |-> FALSE]
    /\ hasPassword \in [Users -> BOOLEAN]
    /\ session = [s \in SessionIds |-> NoSession]
    /\ req = [r \in Requests |-> Idle]
    /\ parent = [s \in SessionIds |-> NoSession]
    /\ broken = {}
    /\ outdated = {}
    /\ lost = {}

Arrive(r) ==
    \/ \E u \in Users :
          \/ Login(r, u)
          \/ SignInWithoutPassword(r, u)
          \/ ChangePasswordRead(r, u)
          \/ SetPasswordRead(r, u)
          \/ ResetPasswordRead(r, u)
          \/ DeleteAccountRead(r, u)
          \/ RestoreRead(r, u)
    \/ \E s \in SessionIds : RefreshRead(r, s) \/ RevokeSessionRead(r, s)

Step(r) ==
    \/ CreateTokenPair(r)
    \/ RevokeFamily(r)
    \/ RefreshRotate(r)
    \/ RevokeSession(r)
    \/ RevokeAllSessions(r)
    \/ ChangePassword(r)
    \/ SetPassword(r)
    \/ ResetPassword(r)
    \/ DeleteAccount(r)
    \/ Restore(r)

Next ==
    \/ \E r \in Requests : Arrive(r) \/ Step(r) \/ Abort(r)
    \/ \E s \in SessionIds : Logout(s)

Spec == Init /\ [][Next]_vars

-----------------------------------------------------------------------------
(* Properties *)

(* Every variable has its type; a session belongs to a family that exists,
   and a request at work on a token names a session that exists. *)
TablesOK ==
    /\ deleted \in [Users -> BOOLEAN]
    /\ hasPassword \in [Users -> BOOLEAN]
    /\ session \in [SessionIds -> Rows \cup {NoSession}]
    /\ \A s \in Created : session[s].familyId \in Created

RequestsOK ==
    /\ req \in [Requests -> InFlight \cup {Idle}]
    /\ \A r \in Requests : req[r] # Idle =>
          /\ req[r].token \in Created \cup {NoSession}
          /\ req[r].next \in TokenWrites => req[r].token # NoSession
          /\ req[r].next \notin TokenWrites \cup {"create"} => req[r].token = NoSession

HistoryOK ==
    /\ parent \in [SessionIds -> SessionIds \cup {NoSession}]
    /\ broken \subseteq Created
    /\ outdated \subseteq Created
    /\ lost \subseteq Users

TypeOK == TablesOK /\ RequestsOK /\ HistoryOK

(* The requests that revoked a token of f and will issue its successor. *)
Rotating(f) == {r \in Requests : /\ Doing(r, "create")
                                 /\ req[r].token \in OfFamily(f)}

(* Rotation hands a family on: in a family where no rotation hit a revoked
   row, one refresh token at most can still be exchanged, counting the one a
   refresh in flight is about to issue.  Token reuse would be detected.
   (refresh, createTokenPair, and every handler that revokes in between) *)
OneHolder ==
    \A f \in SessionIds \ broken :
        /\ \A s, t \in Live \cap OfFamily(f) : s = t
        /\ \A q, r \in Rotating(f) : q = r
        /\ Live \cap OfFamily(f) # {} => Rotating(f) = {}

(* A successor never lives beside the token it replaces, is of the same user
   and family, and outside the broken families no token was ever exchanged
   twice.  (refresh revokes first and creates afterwards) *)
Lineage ==
    /\ \A s \in SessionIds : parent[s] # NoSession =>
          /\ {s, parent[s]} \subseteq Created
          /\ session[parent[s]].revoked
          /\ session[s].familyId = session[parent[s]].familyId
          /\ session[s].userId = session[parent[s]].userId
    /\ \A s, t \in SessionIds :
          /\ parent[s] # NoSession
          /\ parent[s] = parent[t]
          /\ session[s].familyId \notin broken
          => s = t

(* A refresh that revoked its token works for that token's user, and outside
   the broken families nobody has exchanged the token yet. *)
RotationsAgree ==
    \A r \in Requests : req[r] # Idle /\ req[r].token # NoSession =>
        LET s == req[r].token IN
          /\ req[r].user = session[s].userId
          /\ Doing(r, "create") =>
               /\ session[s].revoked
               /\ session[s].familyId \notin broken => \A t \in SessionIds : parent[t] # s

(* OneHolder and Lineage keep each other, with what refresh knows. *)
RotationInv == TypeOK /\ OneHolder /\ Lineage /\ RotationsAgree

SigningOut(u) == \E r \in Requests : Doing(r, "revokeAll") /\ req[r].user = u

(* After a password change, a reset or a deletion, no session made before it
   is live, except while revokeAllSessions is still to run or after a failure
   kept it from running.  (changePassword, deleteAccount, resetPassword) *)
OutdatedSessionsAreRevoked ==
    \A s \in outdated \cap Live :
        SigningOut(session[s].userId) \/ session[s].userId \in lost

(* No statement brings a revoked session back, moves it to another user or
   family, or removes it. (all updates of the table) *)
RevocationIsFinal ==
    [][\A s \in Created :
          /\ session'[s] # NoSession
          /\ session[s].revoked => session'[s] = session[s]
          /\ session'[s].familyId = session[s].familyId]_vars

(* A family that is not broken behaves as TokenFamilies says: exchanges go
   from holder to fresh token, and a family without a holder never gets one
   again.  (refresh under every interleaving and failure) *)
HolderOf(f) ==
    IF OfFamily(f) = {} THEN "unborn"
    ELSE IF f \in broken THEN "broken"
    ELSE IF Live \cap OfFamily(f) # {} THEN CHOOSE s \in Live \cap OfFamily(f) : TRUE
    ELSE IF Rotating(f) # {} THEN req[CHOOSE r \in Rotating(f) : TRUE].token
    ELSE "closed"

Families == INSTANCE TokenFamilies WITH
                Tokens <- SessionIds, Unborn <- "unborn", Closed <- "closed",
                Broken <- "broken", issued <- Created,
                holder <- [f \in SessionIds |-> HolderOf(f)]

ImplementsTokenFamilies == Families!FamSpec
====
