---- MODULE WebClient ----
(***************************************************************************)
(* The tabs of one browser and the API's refresh-token sessions: what      *)
(* api-client.ts keeps of a token pair, in the memory of each tab and in   *)
(* the localStorage they share, and when it exchanges it.                  *)
(*                                                                         *)
(* A call of a tab travels to the API, runs there as a request of          *)
(* Sessions, and its answer travels back; other calls of the tabs come     *)
(* between.  Both tokens of a pair are set and cleared together: the       *)
(* module keeps the refresh token, named by its session.  The access token *)
(* may run out at any moment.                                              *)
(***************************************************************************)
EXTENDS Sessions, Integers

CONSTANTS
    Tabs,
    NoTab, \* the page that made the call is gone
    NoCall

VARIABLES
    memory,  \* tab -> the refreshToken of its api-client, or NoSession
    storage, \* localStorage's refresh_token, or NoSession
    call,    \* request -> the tab's call it carries out, or NoCall
    (* History, read by the properties and by no guard: *)
    askers, \* the tabs that have asked for an exchange
    hitch,  \* TRUE when an answer was lost, a page left waiting, a statement
            \* rejected, or a tab signed out while it waited
    out,    \* TRUE from a sign-out until somebody signs in
    kept    \* since then, the tokens that could still come back: those that
            \* other tabs remembered and that were under way, and what came of
            \* them

client  == <<memory, storage, call, askers, hitch, out, kept>>
webVars == <<vars, client>>

Calls == [tab : Tabs \cup {NoTab}, kind : {"refresh", "login"}, token : SessionIds \cup {NoSession},
          stage : {"sent", "working", "answered"}, new : SessionIds \cup {NoSession}]

ASSUME WebClientAssumption ==
    /\ NoTab \notin Tabs
    /\ NoCall \notin Calls
    /\ IsFiniteSet(Tabs)

Pending == {r \in Requests : call[r] # NoCall}
Free(r) == r \notin Pending /\ req[r] = Idle
At(r, stage) == r \in Pending /\ call[r].stage = stage
Waiting(t, kind) == {r \in Pending : call[r].tab = t /\ call[r].kind = kind}

Call(t, kind, s, stage) == [tab |-> t, kind |-> kind, token |-> s, stage |-> stage, new |-> NoSession]

(* getAccessToken and tryRefresh look in memory, and then in localStorage. *)
Token(t) == IF memory[t] # NoSession THEN memory[t] ELSE storage

SetTokens(t, s) == memory' = [memory EXCEPT ![t] = s] /\ storage' = s
ClearTokens(t)  == SetTokens(t, NoSession)

(* What a tab that waits for r would be given, or what it comes from: nothing
   for a sign-in at work. *)
Heard    == {r \in Pending : call[r].tab # NoTab}
Brings(r) == IF call[r].stage = "answered" THEN call[r].new ELSE call[r].token

(* The calls that nobody waits for any more. *)
Unheard(R) == [r \in Requests |-> IF r \in R THEN [call[r] EXCEPT !.tab = NoTab] ELSE call[r]]

-----------------------------------------------------------------------------
(* A tab *)

(* The page is opened, loaded again or left: its memory is gone, and whoever
   waited there. *)
Load(t) ==
    /\ memory' = [memory EXCEPT ![t] = NoSession]
    /\ call' = Unheard({r \in Pending : call[r].tab = t})
    /\ hitch' = (hitch \/ \E r \in Pending : call[r].tab = t)
    /\ UNCHANGED <<vars, storage, askers, out, kept>>

(* login, from a page that AuthGuard shows to nobody who is signed in. *)
SignIn(t, r, u) ==
    /\ Token(t) = NoSession
    /\ Free(r) /\ Waiting(t, "login") = {}
    /\ Login(r, u)
    /\ call' = [call EXCEPT ![r] = Call(t, "login", NoSession, "working")]
    /\ out' = FALSE /\ kept' = {}
    /\ UNCHANGED <<memory, storage, askers, hitch>>

(* Mutant: a page that waits for an exchange asks for another. *)
RefreshTwice(t, r) ==
    /\ Token(t) # NoSession
    /\ Free(r)
    /\ memory' = [memory EXCEPT ![t] = Token(t)]
    /\ call' = [call EXCEPT ![r] = Call(t, "refresh", Token(t), "sent")]
    /\ askers' = askers \cup {t}
    /\ UNCHANGED <<vars, storage, hitch, out, kept>>

(* Mutant: a missing token is sent all the same. *)
RefreshWithoutToken(t, r) ==
    /\ Free(r) /\ Waiting(t, "refresh") = {}
    /\ memory' = [memory EXCEPT ![t] = Token(t)]
    /\ call' = [call EXCEPT ![r] = Call(t, "refresh", Token(t), "sent")]
    /\ askers' = askers \cup {t}
    /\ UNCHANGED <<vars, storage, hitch, out, kept>>

(* tryRefresh after a 401: whoever comes meanwhile waits for the same
   answer. *)
Refresh(t, r) ==
    /\ Token(t) # NoSession
    /\ Free(r) /\ Waiting(t, "refresh") = {}
    /\ memory' = [memory EXCEPT ![t] = Token(t)]
    /\ call' = [call EXCEPT ![r] = Call(t, "refresh", Token(t), "sent")]
    /\ askers' = askers \cup {t}
    /\ UNCHANGED <<vars, storage, hitch, out, kept>>

(* The answer arrives: the pair is stored for all tabs, and a refused
   exchange clears it for all. *)
Answer(r) ==
    /\ At(r, "answered")
    /\ IF call[r].tab = NoTab \/ (call[r].kind = "login" /\ call[r].new = NoSession)
       THEN UNCHANGED <<memory, storage>>
       ELSE SetTokens(call[r].tab, call[r].new)
    /\ call' = [call EXCEPT ![r] = NoCall]
    /\ UNCHANGED <<vars, askers, hitch, out, kept>>

(* fetch throws: an exchange that may have been carried out is forgotten with
   its token. *)
LoseAnswer(r) ==
    /\ MayAbort
    /\ r \in Pending /\ call[r].tab # NoTab
    /\ IF call[r].kind = "refresh" THEN ClearTokens(call[r].tab) ELSE UNCHANGED <<memory, storage>>
    /\ call' = Unheard({r})
    /\ hitch' = TRUE
    /\ UNCHANGED <<vars, askers, out, kept>>

(* What the sign-out of t does not take away. *)
LeavesBehind(t) == ({memory[q] : q \in Tabs \ {t}} \cup {Brings(r) : r \in Heard}) \ {NoSession}

(* Mutant: the tokens stay in memory. *)
SignOutOfStorage(t) ==
    /\ Token(t) # NoSession
    /\ storage' = NoSession
    /\ out' = TRUE /\ kept' = LeavesBehind(t)
    /\ hitch' = (hitch \/ Waiting(t, "refresh") # {})
    /\ UNCHANGED <<vars, memory, call, askers>>

(* logout: the API refuses the empty body that is sent to it (LogoutDto asks
   for the token), and the tokens are cleared all the same. *)
SignOut(t) ==
    /\ Token(t) # NoSession
    /\ ClearTokens(t)
    /\ out' = TRUE /\ kept' = LeavesBehind(t)
    /\ hitch' = (hitch \/ Waiting(t, "refresh") # {})
    /\ UNCHANGED <<vars, call, askers>>

-----------------------------------------------------------------------------
(* The API *)

(* The request arrives. *)
Arrives(r) ==
    /\ At(r, "sent")
    /\ RefreshRead(r, call[r].token)
    /\ call' = [call EXCEPT ![r].stage = "working"]
    /\ UNCHANGED <<memory, storage, askers, hitch, out, kept>>

(* It never does. *)
Lost(r) ==
    /\ At(r, "sent") /\ call[r].tab = NoTab
    /\ call' = [call EXCEPT ![r] = NoCall]
    /\ UNCHANGED <<vars, memory, storage, askers, hitch, out, kept>>

(* The handler's steps, and its answer. *)
Answers(r, s) == call' = [call EXCEPT ![r].stage = "answered", ![r].new = s]

Rotates(r) == RefreshRotate(r) /\ UNCHANGED client

Issues(r) ==
    /\ CreateTokenPair(r)
    /\ \E s \in SessionIds \ Created :
          /\ session'[s] # NoSession
          /\ Answers(r, s)
          /\ kept' = IF out /\ r \in Heard /\ Brings(r) \in kept \cup {NoSession}
                     THEN kept \cup {s} ELSE kept
    /\ UNCHANGED <<memory, storage, askers, hitch, out>>

Refuses(r) ==
    /\ RevokeFamily(r)
    /\ Answers(r, NoSession)
    /\ UNCHANGED <<memory, storage, askers, hitch, out, kept>>

Fails(r) ==
    /\ Abort(r)
    /\ hitch' = TRUE
    /\ IF r \in Pending THEN Answers(r, NoSession) ELSE UNCHANGED call
    /\ UNCHANGED <<memory, storage, askers, out, kept>>

-----------------------------------------------------------------------------
WebInit ==
    /\ Init
    /\ hasPassword = [u \in Users |-> TRUE]
    /\ memory = [t \in Tabs |-> NoSession]
    /\ storage = NoSession
    /\ call = [r \in Requests |-> NoCall]
    /\ askers = {} /\ hitch = FALSE /\ out = FALSE /\ kept = {}

ApiStep(r) == Rotates(r) \/ Issues(r) \/ Refuses(r)

WebNext ==
    \/ \E t \in Tabs : Load(t) \/ SignOut(t)
    \/ \E t \in Tabs, r \in Requests : Refresh(t, r) \/ \E u \in Users : SignIn(t, r, u)
    \/ \E r \in Requests :
          \/ Arrives(r) \/ Lost(r) \/ Answer(r) \/ LoseAnswer(r)
          \/ ApiStep(r) \/ Fails(r)

WebSpec == WebInit /\ [][WebNext]_webVars

-----------------------------------------------------------------------------
(* Properties *)

(* Every variable has its type, and a call knows where its request is. *)
WebTypeOK ==
    /\ TypeOK
    /\ memory \in [Tabs -> SessionIds \cup {NoSession}]
    /\ storage \in SessionIds \cup {NoSession}
    /\ call \in [Requests -> Calls \cup {NoCall}]
    /\ \A r \in Pending :
          /\ call[r].stage = "working" <=> req[r] # Idle
          /\ call[r].kind = "refresh" => call[r].token \in Created
          /\ call[r].new \in Created \cup {NoSession}
    /\ askers \subseteq Tabs /\ hitch \in BOOLEAN /\ out \in BOOLEAN /\ kept \subseteq SessionIds

(* The exchange of s is on its way, and its answer will be stored. *)
BeingExchanged(s) ==
    \E r \in Pending : call[r].token = s /\ call[r].kind = "refresh" /\ call[r].tab # NoTab

(* As long as one tab only exchanges tokens, and nothing was lost, failed or
   signed out half-way, the browser stays signed in: the stored token can be
   exchanged, or is being.  With two tabs it does not hold: the second comes
   with a token that the first has exchanged, and the family ends.
   (refreshPromise, and the exchange at the API) *)
OneTabStaysSignedIn ==
    ~hitch /\ Cardinality(askers) <= 1 /\ storage # NoSession =>
        storage \in Live \/ BeingExchanged(storage)

(* A sign-out of one tab does not end what other tabs remember or what is
   under way: an exchange or a sign-in that is answered later signs the whole
   browser in again.  But nothing else does: after it every token that the
   browser holds was one of those, or came of one by exchanges.  So a
   token that was neither remembered nor under way is never back, and with
   none of these the user stays signed out. (clearTokens in logout,
   setTokens at the end of an exchange and of login, getAccessToken) *)
SignedOutStaysOut ==
    out => \A s \in {storage} \cup {memory[t] : t \in Tabs} : s \in kept \cup {NoSession}

(* "Logout - revoke all sessions": who has signed out, with nothing under way
   and no other tab that remembers a token, has no live session. *)
SignOutRevokes == out /\ kept = {} /\ Pending = {} => Live = {}
====
