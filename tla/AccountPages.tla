---- MODULE AccountPages ----
(***************************************************************************)
(* The web pages about one account, in one tab: signing up and in, by      *)
(* password or with Google, the codes that are mailed, and the security    *)
(* settings; with AuthProvider, which holds what the pages know of the     *)
(* user, AuthGuard, which sends the tab from page to page, and the API's   *)
(* handlers, each of them one step here.                                   *)
(*                                                                         *)
(* A call travels, is served and is answered.  A link within the           *)
(* application keeps the script running: what a page has begun goes on     *)
(* when another page is shown.  Tokens do not expire here (WebClient), nor *)
(* do accounts (Accounts), and there is no other account.                  *)
(***************************************************************************)

CONSTANTS
    Secrets,    \* the TOTP secrets that may be drawn
    LinkTokens, \* the tokens that may be drawn for linking Google
    Calls,      \* the calls that can be under way together
    Journeys,   \* the pages that one user opens and the buttons they press: a set of such sets
    Starts,     \* the accounts there may be at first
    None,       \* no account, user, page, secret, call or token
    MayFail     \* TRUE when requests and answers may be lost

VARIABLES
    journey, \* the pages and buttons used in this run
    account, \* the stored row, or None
    mailed,  \* what a code is good for that was mailed and is not used yet
    links,   \* the link tokens that are good
    drawn,   \* the secrets and link tokens drawn so far
    token,   \* TRUE when localStorage holds the tokens of the account
    user,    \* AuthProvider's user, or None
    loading, \* AuthProvider's loading
    screen,  \* the page in the tab, or None
    leaving, \* TRUE when the tab will go to the home page in two seconds
    call,    \* call -> what it asks for, or None
    phone,   \* the secret in the user's authenticator, or None
    (* History, read by the properties and by no guard: *)
    hasty,   \* TRUE when the switch was turned on before it was known what an earlier call did
    late     \* TRUE when the user signed out while a reading of the account was under way

row  == <<journey, account, mailed, links, drawn>>
auth == <<token, user, loading>>
vars == <<row, auth, screen, leaving, call, phone, hasty, late>>

-----------------------------------------------------------------------------
(* Accounts, what the API tells of them, pages and calls *)

Account(password, google, verified) ==
    [password |-> password, google |-> google, verified |-> verified,
     secret |-> None, enabled |-> FALSE, deleted |-> FALSE]

AccountRows == [password : BOOLEAN, google : BOOLEAN, verified : BOOLEAN,
                secret : Secrets \cup {None}, enabled : BOOLEAN, deleted : BOOLEAN]

(* mapUser. *)
User(a) == [password |-> a.password, google |-> a.google, enabled |-> a.enabled, deleted |-> a.deleted]

Users == [password : BOOLEAN, google : BOOLEAN, enabled : BOOLEAN, deleted : BOOLEAN]

(* getUserById, which answers /me, maps a row without its password. *)
UserById(a) == [User(a) EXCEPT !.password = FALSE]

Guarded == {"dashboard", "security"}
Public  == {"login", "second", "signup", "signup-code", "verify", "verify-code", "verified",
            "forgot", "forgot-code", "reset-done"}
Screens == Guarded \cup Public \cup {"restore", "restore-code", "restored", "callback", "failed", "google"}
Modals  == {"totp", "disconnect", "delete"}
Uses    == {"verify", "reset", "restore"}
Entries == {"login", "signup", "verify", "forgot", "restore", "dashboard", "security"}
Buttons == Modals \cup {"google", "logout", "set", "connect"}

(* key: the secret shown, or at Google the link token. *)
Page(at, key) == [at |-> at, modal |-> None, key |-> key]
Pages == [at : Screens, modal : Modals \cup {None}, key : Secrets \cup LinkTokens \cup {None}]
At(pages) == screen # None /\ screen.at \in pages

(* AuthGuard shows a page, or sends the tab elsewhere. *)
SignedIn == user # None /\ ~user.deleted
Visible(pages) ==
    /\ At(pages)
    /\ screen.at \in Guarded => ~loading /\ SignedIn
    /\ screen.at \in Public => ~loading /\ ~SignedIn

(* signed: sent with a token.  live: the script that waits is running.
   here: the page that made the call is still shown.  then: what the script
   does next. *)
Request(kind, key, then) ==
    [kind |-> kind, key |-> key, then |-> then, signed |-> token,
     live |-> TRUE, here |-> TRUE, stage |-> "sent", answer |-> None]

Switching == {"generate", "enable", "disable"}
Kinds == Switching \cup {"register", "send", "use", "login", "me", "logout", "set-password",
                         "disconnect", "delete", "link"}
Requests == [kind : Kinds, key : Secrets \cup Uses \cup {"login", "second", "password", None},
             then : Screens \cup {"me", "set", "close", "disconnect", "leave", None},
             signed : BOOLEAN, live : BOOLEAN, here : BOOLEAN, stage : {"sent", "done", "refused"},
             answer : Users \cup Secrets \cup LinkTokens \cup {[factor |-> TRUE], None}]

(* An account is made with a password or with Google. *)
ASSUME AccountPagesAssumption ==
    /\ MayFail \in BOOLEAN /\ Journeys \subseteq SUBSET (Entries \cup Buttons)
    /\ Starts \subseteq {Account(p, g, v) : p, g, v \in BOOLEAN} \cup {None}
    /\ \A a \in Starts \ {None} : a.password \/ a.google
    /\ None \notin Secrets \cup LinkTokens \cup Screens \cup Modals \cup AccountRows \cup Users
                   \cup Pages \cup Requests

(* What a page does that was left: it signs out, goes to the home page, reads
   the user, sends the next call.  Nothing more comes of other answers. *)
Heeded(r) ==
    \/ r.here
    \/ r.kind \in {"logout", "me"}
    \/ r.stage = "done" /\ (r.kind \in {"use", "login", "enable", "disable", "disconnect", "delete", "link"}
                           \/ r.then = "disconnect")

Kept(r) == IF r.stage = "sent" \/ (r.live /\ Heeded(r)) THEN r ELSE None

Pending == {c \in Calls : call[c] # None}
Doing(kinds) == \E c \in Pending : call[c].here /\ call[c].kind \in kinds
About(then) == \E c \in Pending : call[c].here /\ call[c].then = then
Send(c, request) == call[c] = None /\ call' = [call EXCEPT ![c] = request]

Left == [c \in Calls |-> IF c \in Pending THEN Kept([call[c] EXCEPT !.here = FALSE]) ELSE None]
Gone == [c \in Calls |->
    IF c \in Pending /\ call[c].kind \notin {"me", "login", "logout"}
    THEN Kept([call[c] EXCEPT !.here = FALSE, !.live = FALSE, !.then = None]) ELSE None]

-----------------------------------------------------------------------------
(* Handlers of the API *)

Serves(c, kinds) == c \in Pending /\ call[c].stage = "sent" /\ call[c].kind \in kinds
Exists == account # None

(* JwtAuthGuard. *)
Allowed(c) == Exists /\ call[c].signed

Reply(c, ok, answer) ==
    /\ call' = [call EXCEPT ![c] =
           Kept([@ EXCEPT !.stage = IF ok THEN "done" ELSE "refused", !.answer = answer,
                          !.key = None, !.signed = FALSE])]
    /\ UNCHANGED <<auth, screen, leaving, phone, hasty, late>>

Update(ok, a) == account' = IF ok THEN a ELSE account

Register(c) ==
    /\ Serves(c, {"register"})
    /\ Update(~Exists, Account(TRUE, FALSE, FALSE))
    /\ mailed' = IF Exists THEN mailed ELSE mailed \cup {"verify"}
    /\ UNCHANGED <<journey, links, drawn>>
    /\ Reply(c, ~Exists, None)

(* resendVerification, requestReset and sendRestoreOtp. *)
Sendable(use) ==
    /\ Exists
    /\ CASE use = "verify" -> ~account.verified
         [] use = "reset" -> account.password
         [] use = "restore" -> account.deleted

SendCode(c) ==
    /\ Serves(c, {"send"})
    /\ LET use == call[c].key
       IN  /\ mailed' = IF Sendable(use) THEN mailed \cup {use} ELSE mailed
           /\ UNCHANGED <<journey, account, links, drawn>>
           /\ Reply(c, Sendable(use), None)

(* verifyEmail, resetPassword and confirmRestoreOtp. *)
UseCode(c) ==
    /\ Serves(c, {"use"})
    /\ LET use == call[c].key
           ok  == use \in mailed /\ Exists /\ (use = "restore" => account.deleted)
       IN  /\ Update(ok, CASE use = "verify" -> [account EXCEPT !.verified = TRUE]
                           [] use = "reset" -> [account EXCEPT !.password = TRUE]
                           [] use = "restore" -> [account EXCEPT !.deleted = FALSE])
           /\ mailed' = mailed \ {use}
           /\ UNCHANGED <<journey, links, drawn>>
           /\ Reply(c, ok, None)

(* Of the second factors the one that is mailed always works. *)
Login(c) ==
    /\ Serves(c, {"login"})
    /\ LET known == Exists /\ account.password /\ ~account.deleted
           ok    == known /\ (account.enabled => call[c].key = "second")
       IN  /\ UNCHANGED row
           /\ Reply(c, ok, IF ok THEN User(account) ELSE IF known THEN [factor |-> TRUE] ELSE None)

Me(c) ==
    /\ Serves(c, {"me"})
    /\ UNCHANGED row
    /\ Reply(c, Allowed(c), IF Allowed(c) THEN UserById(account) ELSE None)

Logout(c) == Serves(c, {"logout"}) /\ UNCHANGED row /\ Reply(c, FALSE, None)

GenerateSecret(c) ==
    /\ Serves(c, {"generate"})
    /\ IF Allowed(c)
       THEN \E s \in Secrets \ drawn :
              /\ account' = [account EXCEPT !.secret = s]
              /\ drawn' = drawn \cup {s}
              /\ UNCHANGED <<journey, mailed, links>>
              /\ Reply(c, TRUE, s)
       ELSE UNCHANGED row /\ Reply(c, FALSE, None)

(* Mutant: turning the factor off forgets the secret only. *)
SwitchSecret(c) ==
    /\ Serves(c, {"enable", "disable"})
    /\ LET ok == Allowed(c) /\ account.secret # None /\ account.secret = call[c].key
       IN  /\ Update(ok, IF call[c].kind = "enable" THEN [account EXCEPT !.enabled = TRUE]
                         ELSE [account EXCEPT !.secret = None])
           /\ UNCHANGED <<journey, mailed, links, drawn>>
           /\ Reply(c, ok, None)

(* enable and disable, with a code of the authenticator as it was. *)
Switch(c) ==
    /\ Serves(c, {"enable", "disable"})
    /\ LET ok == Allowed(c) /\ account.secret # None /\ account.secret = call[c].key
       IN  /\ Update(ok, IF call[c].kind = "enable" THEN [account EXCEPT !.enabled = TRUE]
                         ELSE [account EXCEPT !.secret = None, !.enabled = FALSE])
           /\ UNCHANGED <<journey, mailed, links, drawn>>
           /\ Reply(c, ok, None)

SetPassword(c) ==
    /\ Serves(c, {"set-password"})
    /\ LET ok == Allowed(c) /\ ~account.password
       IN  /\ Update(ok, [account EXCEPT !.password = TRUE])
           /\ UNCHANGED <<journey, mailed, links, drawn>>
           /\ Reply(c, ok, None)

(* It does not ask whether there is another way to sign in. *)
DisconnectGoogle(c) ==
    /\ Serves(c, {"disconnect"})
    /\ LET ok == Allowed(c) /\ account.google
       IN  /\ Update(ok, [account EXCEPT !.google = FALSE])
           /\ UNCHANGED <<journey, mailed, links, drawn>>
           /\ Reply(c, ok, None)

(* key: whether the page asked for the password. *)
DeleteAccount(c) ==
    /\ Serves(c, {"delete"})
    /\ LET ok == Allowed(c) /\ (account.password => call[c].key = "password")
       IN  /\ Update(ok, [account EXCEPT !.deleted = TRUE])
           /\ UNCHANGED <<journey, mailed, links, drawn>>
           /\ Reply(c, ok, None)

GetGoogleLinkToken(c) ==
    /\ Serves(c, {"link"})
    /\ IF Allowed(c)
       THEN \E l \in LinkTokens \ drawn :
              /\ links' = links \cup {l}
              /\ drawn' = drawn \cup {l}
              /\ UNCHANGED <<journey, account, mailed>>
              /\ Reply(c, TRUE, l)
       ELSE UNCHANGED row /\ Reply(c, FALSE, None)

(* A link token is no longer good.  (A code that is late or mistyped is
   refused, as any call may be.) *)
Expire ==
    /\ \E l \in links : links' = links \ {l}
    /\ UNCHANGED <<journey, account, mailed, drawn, auth, screen, leaving, call, phone, hasty, late>>

-----------------------------------------------------------------------------
(* Moving between pages *)

(* A link, or router.push. *)
Go(at) == screen' = Page(at, None)

Follow(at) ==
    /\ at \in journey /\ screen # None /\ screen.at # "google"
    /\ Go(at)
    /\ call' = Left
    /\ UNCHANGED <<row, auth, leaving, phone, hasty, late>>

(* A new script: AuthProvider reads the account if there is a token. *)
Start(c, at, then) ==
    /\ screen' = Page(at, None)
    /\ user' = None /\ leaving' = FALSE
    /\ loading' = token'
    /\ call' = IF token'
               THEN [Gone EXCEPT ![c] = [Request("me", None, then) EXCEPT !.signed = TRUE]]
               ELSE Gone
    /\ Gone[c] = None
    /\ UNCHANGED <<phone, hasty, late>>

Load(c, at) == at \in journey /\ UNCHANGED <<row, token>> /\ Start(c, at, None)

(* The tab leaves the application for Google. *)
GoToGoogle(l) ==
    /\ screen' = Page("google", l)
    /\ call' = Gone
    /\ user' = None /\ loading' = FALSE /\ leaving' = FALSE
    /\ UNCHANGED <<row, token, phone, hasty, late>>

SignInWithGoogle == "google" \in journey /\ Visible({"login", "signup"}) /\ GoToGoogle(None)

Guard ==
    /\ ~loading
    /\ \/ At(Guarded) /\ user = None /\ Go("login")
       \/ At(Guarded) /\ user # None /\ user.deleted /\ Go("restore")
       \/ At(Public) /\ SignedIn /\ Go("dashboard")
    /\ call' = Left
    /\ UNCHANGED <<row, auth, leaving, phone, hasty, late>>

(* After a deletion: clearTokens and location.assign('/'). *)
Leave ==
    /\ leaving
    /\ screen' = None /\ call' = Gone
    /\ token' = FALSE /\ user' = None /\ loading' = FALSE /\ leaving' = FALSE
    /\ UNCHANGED <<row, phone, hasty, late>>

(* Google sends the tab back, and validate finds, links or makes the account. *)
Enter(c, a) ==
    /\ account' = a /\ token' = TRUE
    /\ Start(c, "callback", "dashboard")
    /\ UNCHANGED <<journey, mailed, drawn>>

GoogleCallback(c) ==
    /\ At({"google"})
    /\ LET l == screen.key
       IN  /\ links' = links \ {l}
           /\ IF l \notin links /\ Exists /\ account.password /\ ~account.google
              THEN UNCHANGED <<journey, account, mailed, drawn, token>> /\ Start(c, "failed", None)
              ELSE Enter(c, IF Exists THEN [account EXCEPT !.google = TRUE]
                            ELSE Account(FALSE, TRUE, TRUE))

-----------------------------------------------------------------------------
(* What the user does.  A button cannot be pressed while its own call is
   under way, nor behind a modal. *)

Pressed == UNCHANGED <<row, auth, screen, leaving, phone, late>>

Press(c, kind, key, then) ==
    Send(c, Request(kind, key, then)) /\ UNCHANGED hasty /\ Pressed

SignUp(c) == Visible({"signup"}) /\ ~Doing({"register"}) /\ Press(c, "register", None, "signup-code")

SignIn(c) == Visible({"login", "second"}) /\ ~Doing({"login"}) /\ Press(c, "login", screen.at, "dashboard")

AskForCode(c) ==
    /\ ~Doing({"send"})
    /\ \/ Visible({"verify"}) /\ Press(c, "send", "verify", "verify-code")
       \/ Visible({"forgot"}) /\ Press(c, "send", "reset", "forgot-code")
       \/ Visible({"restore"}) /\ Press(c, "send", "restore", "restore-code")
       \/ Visible({"signup-code", "verify-code"}) /\ Press(c, "send", "verify", None)
       \/ Visible({"forgot-code"}) /\ Press(c, "send", "reset", None)
       \/ Visible({"restore-code"}) /\ Press(c, "send", "restore", None)

(* The form that verifies an address does not use the tokens it is sent. *)
EnterCode(c) ==
    /\ ~Doing({"use"}) /\ ~About("dashboard")
    /\ \/ Visible({"signup-code"}) /\ Press(c, "use", "verify", "me")
       \/ Visible({"verify-code"}) /\ Press(c, "use", "verify", "verified")
       \/ Visible({"forgot-code"}) /\ Press(c, "use", "reset", "reset-done")
       \/ Visible({"restore-code"}) /\ Press(c, "use", "restore", "restored")

SignOut(c) == "logout" \in journey /\ Visible(Guarded) /\ screen.modal = None /\ Press(c, "logout", None, "login")

Settings == Visible({"security"}) /\ screen.modal = None
TfaLoading == Doing(Switching)

SetTheFirst(c) ==
    "set" \in journey /\ Settings /\ ~user.password /\ ~About("set") /\ Press(c, "set-password", None, "set")

ConnectGoogle(c) == "connect" \in journey /\ Settings /\ ~user.google /\ Press(c, "link", None, "google")

OpenModal(m) ==
    /\ m \in journey /\ Settings
    /\ CASE m = "totp" -> user.enabled /\ ~TfaLoading
         [] m = "disconnect" -> user.google
         [] m = "delete" -> TRUE
    /\ screen' = [screen EXCEPT !.modal = m]
    /\ UNCHANGED <<row, auth, leaving, call, phone, hasty, late>>

CloseModal ==
    /\ Visible({"security"}) /\ screen.modal # None
    /\ screen' = [screen EXCEPT !.modal = None, !.key = None]
    /\ UNCHANGED <<row, auth, leaving, call, phone, hasty, late>>

InModal(m) == Visible({"security"}) /\ screen.modal = m

(* It is not known what became of a call about the switch, from a page that
   was left. *)
Unheard == \E c \in Pending : call[c].kind \in Switching /\ ~call[c].here

(* Mutant: the switch works while a call about it is under way. *)
TurnOnWhileLoading(c) ==
    /\ "totp" \in journey /\ Settings /\ ~user.enabled
    /\ Send(c, Request("generate", None, None))
    /\ hasty' = (hasty \/ account.enabled \/ Unheard)
    /\ Pressed

TurnOn(c) ==
    /\ "totp" \in journey /\ Settings /\ ~user.enabled /\ ~TfaLoading
    /\ Send(c, Request("generate", None, None))
    /\ hasty' = (hasty \/ account.enabled \/ Unheard)
    /\ Pressed

Scan ==
    /\ InModal("totp") /\ ~user.enabled /\ screen.key \in Secrets
    /\ phone' = screen.key
    /\ UNCHANGED <<row, auth, screen, leaving, call, hasty, late>>

ConfirmSwitch(c) ==
    /\ InModal("totp") /\ phone # None /\ ~TfaLoading
    /\ Send(c, Request(IF user.enabled THEN "disable" ELSE "enable", phone, None))
    /\ hasty' = (hasty \/ (~user.enabled /\ Unheard))
    /\ Pressed

(* Mutant: the password is not set first. *)
DisconnectAtOnce(c) ==
    /\ InModal("disconnect") /\ ~About("disconnect") /\ ~About("close")
    /\ Press(c, "disconnect", None, "close")

(* A user who has no password, as far as the page knows, gives one. *)
Disconnect(c) ==
    /\ InModal("disconnect") /\ ~About("disconnect") /\ ~About("close")
    /\ IF user.password THEN Press(c, "disconnect", None, "close")
       ELSE Press(c, "set-password", None, "disconnect")

Delete(c) == InModal("delete") /\ ~Doing({"delete"}) /\ Press(c, "delete", IF user.password THEN "password" ELSE None, "leave")

-----------------------------------------------------------------------------
(* Answers.  The script goes on even where the page was left. *)

Heard(c, kinds) == c \in Pending /\ call[c].stage # "sent" /\ call[c].kind \in kinds
Done(c) == call[c].stage = "done"
Over(c) == [call EXCEPT ![c] = None]
Then(c, kind, then, signed) ==
    [call EXCEPT ![c] = [@ EXCEPT !.kind = kind, !.key = None, !.then = then, !.signed = signed,
                                  !.stage = "sent", !.answer = None]]
Step(c, at) == IF call[c].here THEN screen' = [screen EXCEPT !.at = at] ELSE UNCHANGED screen
Close(c) == IF call[c].here THEN screen' = [screen EXCEPT !.modal = None, !.key = None] ELSE UNCHANGED screen

(* router.push, once c is answered. *)
Push(c, at) == Go(at) /\ call' = [Left EXCEPT ![c] = None]

Stepped(c) ==
    /\ Heard(c, {"register", "send"})
    /\ IF Done(c) /\ call[c].then # None THEN Step(c, call[c].then) ELSE UNCHANGED screen
    /\ call' = Over(c)
    /\ UNCHANGED <<row, auth, leaving, phone, hasty, late>>

CodeUsed(c) ==
    /\ Heard(c, {"use"})
    /\ LET then == call[c].then
       IN  /\ token' = (token \/ (Done(c) /\ then \in {"me", "restored"}))
           /\ IF Done(c) /\ then = "me" THEN call' = Then(c, "me", "dashboard", TRUE) ELSE call' = Over(c)
           /\ IF Done(c) /\ then # "me" THEN Step(c, then) ELSE UNCHANGED screen
    /\ UNCHANGED <<row, user, loading, leaving, phone, hasty, late>>

LoggedIn(c) ==
    /\ Heard(c, {"login"})
    /\ IF Done(c)
       THEN token' = TRUE /\ user' = call[c].answer /\ Push(c, "dashboard")
       ELSE /\ UNCHANGED <<token, user>>
            /\ call' = Over(c)
            /\ IF call[c].answer # None THEN Step(c, "second") ELSE UNCHANGED screen
    /\ UNCHANGED <<row, loading, leaving, phone, hasty, late>>

(* refreshUser: where the account cannot be read there is no user. *)
UserRead(c) ==
    /\ Heard(c, {"me"})
    /\ user' = call[c].answer /\ loading' = FALSE
    /\ CASE call[c].then = "dashboard" -> Push(c, "dashboard")
         [] call[c].then = "close" -> Close(c) /\ call' = Over(c)
         [] OTHER -> UNCHANGED screen /\ call' = Over(c)
    /\ UNCHANGED <<row, token, leaving, phone, hasty, late>>

(* Mutant: the user is kept. *)
SignedOutOfTokens(c) ==
    /\ Heard(c, {"logout"})
    /\ token' = FALSE
    /\ Push(c, "login")
    /\ UNCHANGED <<row, user, loading, leaving, phone, hasty, late>>

(* Whatever the answer. *)
SignedOut(c) ==
    /\ Heard(c, {"logout"})
    /\ token' = FALSE /\ user' = None
    /\ late' = (late \/ \E q \in Pending : call[q].kind = "me")
    /\ Push(c, "login")
    /\ UNCHANGED <<row, loading, leaving, phone, hasty>>

SecretShown(c) ==
    /\ Heard(c, {"generate"})
    /\ screen' = IF Done(c) /\ call[c].here THEN [screen EXCEPT !.modal = "totp", !.key = call[c].answer]
                 ELSE screen
    /\ call' = Over(c)
    /\ UNCHANGED <<row, auth, leaving, phone, hasty, late>>

(* refreshUser is called, and not waited for. *)
Switched(c) ==
    /\ Heard(c, {"enable", "disable"})
    /\ IF Done(c) THEN Close(c) /\ call' = Then(c, "me", None, token) ELSE UNCHANGED screen /\ call' = Over(c)
    /\ UNCHANGED <<row, auth, leaving, phone, hasty, late>>

(* The user is not read again after a first password. *)
PasswordSet(c) ==
    /\ Heard(c, {"set-password"})
    /\ call' = IF Done(c) /\ call[c].then = "disconnect" THEN Then(c, "disconnect", "close", token) ELSE Over(c)
    /\ UNCHANGED <<row, auth, screen, leaving, phone, hasty, late>>

Disconnected(c) ==
    /\ Heard(c, {"disconnect"})
    /\ call' = IF Done(c) THEN Then(c, "me", "close", token) ELSE Over(c)
    /\ UNCHANGED <<row, auth, screen, leaving, phone, hasty, late>>

Deleted(c) ==
    /\ Heard(c, {"delete"})
    /\ IF Done(c) THEN Close(c) ELSE UNCHANGED screen
    /\ leaving' = (leaving \/ Done(c))
    /\ call' = Over(c)
    /\ UNCHANGED <<row, auth, phone, hasty, late>>

(* The tab goes to the API, which sends it on to Google if the token is good. *)
LinkTokenHeard(c) ==
    /\ Heard(c, {"link"})
    /\ IF Done(c)
       THEN IF call[c].answer \in links THEN GoToGoogle(call[c].answer)
            ELSE /\ screen' = None /\ call' = Gone /\ user' = None /\ loading' = FALSE /\ leaving' = FALSE
                 /\ UNCHANGED <<row, token, phone, hasty, late>>
       ELSE call' = Over(c) /\ UNCHANGED <<row, auth, screen, leaving, phone, hasty, late>>

(* A request or its answer is lost. *)
Lose(c) ==
    /\ MayFail /\ c \in Pending /\ call[c].stage # "refused"
    /\ call' = [call EXCEPT ![c] = IF @.live THEN [@ EXCEPT !.stage = "refused", !.answer = None] ELSE None]
    /\ UNCHANGED <<row, auth, screen, leaving, phone, hasty, late>>

-----------------------------------------------------------------------------
Init ==
    /\ journey \in Journeys /\ account \in Starts /\ mailed = {} /\ links = {} /\ drawn = {}
    /\ token = FALSE /\ user = None /\ loading = FALSE
    /\ screen = None /\ leaving = FALSE
    /\ call = [c \in Calls |-> None]
    /\ phone = None /\ hasty = FALSE /\ late = FALSE

Api(c) ==
    \/ Register(c) \/ SendCode(c) \/ UseCode(c) \/ Login(c) \/ Me(c) \/ Logout(c)
    \/ GenerateSecret(c) \/ Switch(c) \/ SetPassword(c) \/ DisconnectGoogle(c) \/ DeleteAccount(c)
    \/ GetGoogleLinkToken(c) \/ GoogleCallback(c)

Answer(c) ==
    \/ Stepped(c) \/ CodeUsed(c) \/ LoggedIn(c) \/ UserRead(c) \/ SignedOut(c) \/ SecretShown(c)
    \/ Switched(c) \/ PasswordSet(c) \/ Disconnected(c) \/ Deleted(c) \/ LinkTokenHeard(c) \/ Lose(c)

Do(c) ==
    \/ SignUp(c) \/ SignIn(c) \/ AskForCode(c) \/ EnterCode(c) \/ SignOut(c) \/ SetTheFirst(c)
    \/ ConnectGoogle(c) \/ TurnOn(c) \/ ConfirmSwitch(c) \/ Disconnect(c) \/ Delete(c)

Move ==
    \/ Guard \/ Leave \/ SignInWithGoogle \/ Scan \/ CloseModal
    \/ \E m \in Modals : OpenModal(m)
    \/ \E at \in Entries : Follow(at) \/ \E c \in Calls : Load(c, at)

Next == Move \/ Expire \/ \E c \in Calls : Api(c) \/ Answer(c) \/ Do(c)

Spec == Init /\ [][Next]_vars

-----------------------------------------------------------------------------
(* Every variable has its type: there is an account wherever there are tokens
   or a call was granted, and a page that waits for an answer is shown. *)
CallsOK ==
    \A c \in Pending :
        /\ call[c].here => call[c].live /\ screen # None
        /\ call[c].stage = "done" => Exists

AccountPagesTypeOK ==
    /\ account \in AccountRows \cup {None}
    /\ Exists /\ account.enabled => account.secret # None
    /\ mailed \subseteq Uses /\ links \subseteq LinkTokens /\ drawn \subseteq Secrets \cup LinkTokens
    /\ token \in BOOLEAN /\ (token => Exists)
    /\ user \in Users \cup {None} /\ loading \in BOOLEAN
    /\ screen \in Pages \cup {None} /\ leaving \in BOOLEAN
    /\ call \in [Calls -> Requests \cup {None}] /\ CallsOK
    /\ phone \in Secrets \cup {None} /\ hasty \in BOOLEAN /\ late \in BOOLEAN

(* An account that was made with a password or with Google always has one of
   the two to sign in with: a page that disconnects Google sets a password
   first, as far as it knows that there is none, and the API, which does not
   look, never takes the last way in. *)
WayBackIn == Exists => account.password \/ account.google

(* While the second factor is on, the secret that is stored is the one in the
   user's authenticator: the switch asks for a new secret only while no call
   about it is under way.  (It also does so before the page has heard that the
   factor is on, and forgets the calls of a page that was left: then the user
   may be shut out.) *)
AuthenticatorIsRight == Exists /\ account.enabled /\ ~hasty => phone = account.secret

(* A tab that shows a user has tokens, unless a reading of the account was on
   its way when the user signed out: then its answer brings the user back. *)
ShownHasTokens == user # None => token \/ late
====
