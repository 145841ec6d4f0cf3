# FreStell in TLA+

Specifications of the core of the FreStell API (`src/apps/api/src`) and of the pages of
its web client that change the same state (`src/apps/web/src`), model-checked
with TLC on small instances and, for the properties that matter most, proved with
TLAPS for every value of the constants. Source paths below are relative to
`src/apps/api/src` unless they start with `src/`.

## The system

FreStell is a marketplace for freelance work: a NestJS API over Postgres (Prisma),
a Next.js web client, and plans (`src/frestell_plans/goals.html`, `src/docs`) for
contracts, escrow and chat that no code implements yet. The API is **one Node
process**. A handler runs without interruption from one `await` to the next;
every Prisma call is one atomic statement, and `$transaction([...])` commits
several as one. Almost no handler uses a transaction, so what can go wrong is
what other requests do between a handler's statements, and what a failure
leaves behind between two of them.

| Part | State | Operations | What makes it hard | What makes it correct |
|---|---|---|---|---|
| Refresh-token sessions (`auth/auth.service.ts`, sign-ins of `auth/passkey.service.ts`, `auth/auth.controller.ts`) | `sessions` rows | createTokenPair, refresh, logout, revokeSession, revokeAllSessions | refresh reads, revokes and creates in three statements | one token of a family can be exchanged; a revoked one never comes back; reuse ends the family |
| Passwords and account life cycle (same file, `password-reset/`) | `passwordHash`, `deletedAt` | changePassword, setPassword, resetPassword, deleteAccount, restoreAccount, confirmRestoreOtp | the row and the sessions are written by two statements, but for a reset | no session older than a credential change survives it |
| Jobs (`jobs/jobs.service.ts`) | `jobs` rows with criteria and milestones | create, duplicate, publish, update, delete, pause, resume, archiving when listed | read, decide, write with no transaction; update writes any field | a job has one freelancer |
| Proposals (same file) | `proposals` rows, unique per job and freelancer | submit, decide, withdraw | count then insert; an acceptance writes two rows | the cap holds; who is hired applied; an acceptance closes the job |
| E-mailed code stores (`auth/restore-otp-store.ts`, `twofactor/two-factor-otp-store.ts`) | a Map in memory and timers | create, verify, timer callback | timers delete by key, run late, and outlive the code they were set for | a code works once, only the last one, and not for good |
| Login and its lock (`auth/auth.service.ts`, `auth/login-rate-limit.service.ts`) | `failedAttempts`, `lockedUntil`, attempts per address in memory | login, isLocked, recordAttempt, checkLockout, clearLockout | the count is read and written in two statements | wrong passwords are counted, and the count ends in a lock |
| Second factor (`twofactor/`) | `totpSecret`, `totpEnabled` | generateSecret, enable, disable, verify | a code is checked against a secret that may be replaced before the write | the factor asks for a secret its owner has |
| Recovery and reset codes (`recovery/`, `password-reset/`) | `recovery_codes` and `password_resets` rows, a rate window in memory | generate, use; requestReset, resetPassword | find, then mark; delete, then insert | a code works once; one set of codes at a time; few good reset codes for an address |
| Registration, verification, change of e-mail (`auth/auth.service.ts`) | `verificationTokenHash`, `emailVerifiedAt`, `emailChange*`, a 15-minute timer | register, verifyEmail, resendVerification, requestEmailChange, confirmEmailChange | the timer reads and deletes in two statements and is lost in a restart; six digits name an account | unverified accounts go, verified ones stay; an address is proven |
| Passkeys and challenges (`auth/passkey.service.ts`, `auth/challenge-store.ts`) | `passkeys`, a Map in memory | registration, sign-up, sign-in, deletion | a challenge is deleted long after it was read; a user is made before its key | a challenge is answered once; a key is its owner's |
| Profiles (`profile/`) | slug, skills, endorsements, portfolio, services | deletion of a user by the clean-up, updateProfile, updateSlug, addSkill, removeSkill, endorseSkill, add and delete items | a count beside the rows it counts, which go by cascade; places and slugs chosen from an earlier read | the count is of the endorsements given, each once; new items come last; a chosen slug stays |
| Web client (`src/apps/web/src/lib/api-client.ts`, `src/apps/web/src/context/AuthProvider.tsx`) | a token pair in each tab's memory and in localStorage | tryRefresh, login, logout | tabs share localStorage and no lock; answers are lost | one tab stays signed in; after a sign-out only what was remembered or under way can come back |
| Google sign-in and linking (`auth/strategies/`, `auth/link-token-store.ts`) | `googleId`, a Map in memory | callback, link, disconnect | disconnecting does not look for another way to sign in | there is always a way back in |
| Web pages about jobs (`src/apps/web/src/app/dashboard/`: clients, freelancers) | the rows a page shows, its modal, a draft in localStorage | open, leave, delete, pause, resume, duplicate, decide, withdraw, save, publish | a page is changed by its answers, by those of pages that were left, and is stale whenever somebody else acts | a page shows what is stored of the jobs it has heard all about; a cancellation of such a job does not remove it; a draft is not lost |
| Web pages about the account (`src/apps/web/src/app/`: auth, callback, restore, `dashboard/settings/security`; `AuthProvider.tsx`, `AuthGuard.tsx`) | tokens, the user the pages show, the page, the modal | sign up, in and out, mailed codes, second factor, Google, first password, deletion | what is shown is read at other times than it is changed, and handlers go on after a page is left | the secret asked for is the one in the authenticator; a user shown has tokens |
| E-mail, audit, health, config, logging, throttling | none that a guard reads | output | statements that may reject | |
| Contracts, escrow, payments, chat, AI | schema and stubs only | none | | |

How they interact: every sign-in (password, passkey, Google, recovery code, verified
e-mail, restored account) ends in `createTokenPair`; every change of credentials goes
through the sessions table; `login` asks `OtpStore` or `StoredCodes` whether the second
code is good; the job handlers meet only in the `jobs` and `proposals` rows; the web
client drives the API's `login` and `refresh`.

## Modules

| Module | What it is |
|---|---|
| `TokenFamilies` | what a family of refresh tokens promises: one holder, handed on to fresh tokens, closed for good |
| `Sessions` | the sessions table and every handler that writes it; implements `TokenFamilies` |
| `WebClient` | the tabs of a browser and the two places they keep a token in, over the actions of `Sessions` |
| `SignIn` | what stands between a password and a session: lock, address window, second factor |
| `StoredCodes` | recovery codes and password-reset codes, which are rows |
| `OtpStore` | the e-mailed codes, which are in memory, with time, timers and restarts |
| `Accounts` | registration, verification, the clean-up timer, and the change of address |
| `Passkeys` | the challenge store and the three ceremonies that answer a challenge |
| `Jobs` | the jobs and proposals tables and every handler that writes them |
| `Profiles` | slugs, skills with endorsements, and ordered lists |
| `JobPages` | the pages about jobs and proposals in the tabs of a browser, with the handlers they call |
| `AccountPages` | the pages about one account in a tab, with `AuthProvider`, `AuthGuard`, Google and the handlers they call |
| `MCSessions`, `MCWebClient`, `MCSignIn`, `MCStoredCodes`, `MCPasskeys`, `MCJobs`, `MCProfiles`, `MCJobPages`, `MCAccountPages` | definitions TLC needs: symmetry, the edits clients send, which pages a user goes to, constraints |
| `SessionsProofs` | theorems about `Sessions`, its refinement of `TokenFamilies`, and `WebClient` |
| `StoredCodesProofs` | theorems about `StoredCodes` and `OtpStore` |
| `SignInAndJobPagesProofs` | theorems about `SignIn`, and about `JobPages` |
| `AccountsProofs`, `PasskeysProofs`, `JobsProofs`, `ProfilesProofs`, `AccountPagesProofs` | theorems about the module each is named for |

The modules meet where the code does: `WebClient` extends `Sessions` and takes its
handlers' steps. `SignIn`, `StoredCodes`, `OtpStore` and `Passkeys` end where
`Sessions` begins: what they let through is a `Login`, `Passkey...` or reset there,
which `Sessions` lets the environment ask for at any time. `JobPages` and `AccountPages`
have the API on the other side of a network: each of its handlers is one step there,
because what its statements do to each other is the subject of `Jobs`, `SignIn` and
`Sessions`, and the subject of the pages is what happens between a request and its answer.

### How code becomes actions

A handler is a *request*: `req[r]` holds the statement it issues next and what it
has read so far. Its first read is an action of `Arrive` (`RefreshRead`,
`PublishRead`, ...), guarded by the early returns that follow the read; every
write after it is an action of `Step` (`RefreshRotate`, `Publish`, ...), which
uses what was read and tests nothing the code does not test again. A handler that
is one statement (`Logout`, `CreateJob`, `ListActiveJobs`) is one action. Reads
of columns that no other modelled handler writes are merged with the read before
them. `Abort(r)` is a crash of the process, or a statement that rejects, between
two steps: what was written stays. After a crash nothing is resumed, so it is
enough to cut requests one by one; where a crash loses memory too (`StoredCodes`,
`OtpStore`, `Accounts`, `Passkeys`) there is a `Restart` (`RestartStores` in `OtpStore`). `WindowMoves` of `SignIn`
covers what a restart does to the address window.

Audit rows, e-mails, logs and response bodies are left out: no guard reads them. A
mail or audit statement that rejects leaves the handler as `Abort` does, or after
its last write, where nothing more changes. Secrets and codes are left to the
environment: an action is enabled when the code would let somebody in who has what it
asks for.

Several properties hold *unless* two requests overlapped in a certain way, or a failure
came at a certain point. Those cases are history variables which no guard reads
(`broken`, `reopened`, `overlapped`, `shared`, `moved`, `doubtful`, `crossed`, `hasty`,
...): each is set by the very action that completes the overlap, so that a property
says exactly when the code keeps its promise. What the code does in these cases is its
real behaviour and stays in the model; the sentences below name it.

**`Sessions`.** `session[s]` is a row (user, family, revoked) and `Created` the ids in
use. `randomUUID` is fresh; a new family is named after its first session.
`deleted` and `hasPassword` are the columns the handlers test. Expired tokens need no
clock: an expired token is one nobody presents any more. The accounts are those whose row
stays. The one statement that runs and deletes a user is the clean-up of `register`, for an
account that is not verified after 15 minutes (`permanentlyDeleteExpired` has no caller).
An unverified user may sign in and use the whole API until then, and `onDelete: Cascade`
takes most of the rows that name the user. `Accounts` and `Profiles` model that deletion, the latter because a
count is left behind; in `Sessions`, `StoredCodes`, `SignIn`, `Passkeys` and `Jobs` it is left
out. There it takes the rows of one user, a job it was given to loses its
freelancer (`freelancerId` becomes null), and a user who has posted a job
cannot be deleted (`clientId` does not cascade): the delete rejects, which is a `TimerFails` of `Accounts`.
History: `parent` (which session a session was rotated from), `broken` (families where
a rotation updated a row that was revoked meanwhile: two overlapping refreshes leave
two live tokens and no reuse is seen), `outdated` (sessions older than their user's last
credential change), `lost` (users whose revocation was cut off by a failure). A
refresh in flight across a password change leaves a live successor: that is why
`OutdatedSessionsAreRevoked` speaks of older sessions and not of all.

**`WebClient`.** `memory[t]` and `storage` are the refresh token as `api-client.ts` keeps
it in each tab and in localStorage; `call[r]` is a call on its way to the API, at work
there as request `r` of `Sessions`, or answered. `Refresh` is `tryRefresh` with its
guard `refreshPromise`: one exchange per tab. `Load` is a page that is opened or left, with
the calls it waited for. `LoseAnswer` is a `fetch` that throws: the exchange may have
been carried out. `SignOut` clears localStorage and the tab's own memory and revokes nothing: the
API refuses the empty body `logout` sends (finding `sign_out_revokes`). Other tabs keep what
they remember, and calls go on: an exchange or a sign-in answered after the sign-out
stores its tokens and the browser is signed in again. The model has all of that. `out` is
true from any sign-out to the next `SignIn`, whatever is under way; `kept` starts as the
tokens that the sign-out left in other tabs and in calls (`LeavesBehind`), and gets what the API
issues for these. `SignedOutStaysOut` says that the browser holds no token
outside `kept`: another tab's memory and a late answer are the only ways back, and a token that
only localStorage and the tab itself had stays away. Of the API's handlers only `login` and
`refresh` run here.

**`SignIn`.** `failed`, `lock`, `secret` and `enabled` are columns of the user row;
`recent[a]` is the window of an address, cut at the threshold, which is all the code
compares it with. Every attempt that fails, on a locked account too, goes through
`RecordFailure`, `ReadCount`, `WriteCount` and perhaps `LockAccount`, one statement
each. A lock that runs out stays in the row as `past` until a sign-in clears it.
`guesses` counts failures since the account was last locked or unlocked.

**`StoredCodes`.** `row[i]` is a row of either table, `deleted` rows included, as ids do
not come back. `Find` and `Use` are the two statements of both `use` and
`resetPassword`; `Use` marks by id and does not look again, so two requests that found
one row both succeed (`shared`). A reset request is three statements: `RequestReset`
reads the user of an address, `RateLimit` looks at the window of that address and writes
it, `IssueReset` inserts the row. `window[a]` holds the requests of an *address*, as the
code's Map does, each named by the row it will make. Resetting a password leaves older
reset codes good: `FewGoodResetCodes` bounds how many. `ChangeEmail` is the update of `confirmEmailChange`,
which opens another window for the user while the codes mailed to the old address stay
good; so the bound is one for each address (`sentTo`) and, for each user, only while the user
keeps the address (`moved`). `LongWindow` is a constant that says whether
`PASSWORD_RESET_RATE_WINDOW` is longer than `PASSWORD_RESET_EXPIRES_IN`, as both defaults
have it: with a shorter window a request leaves it while its code is good, and
the code promises no bound.

**`OtpStore`.** `timers[k][t]` counts the callbacks set for time `t`; one may run at `t`
or any time later. `sent[k]` is the code mailed last and not used yet. The timer of an
older code removes a newer one; the properties allow it.

**`Accounts`.** `user[i]` has the address, whether it is verified, the code that is open
and the change that is open; an account may be made by `register`, a passkey or Google.
`FindByCode` looks for an unverified account by its code alone, as `verifyEmail` does.
`ChangeAddress` proves an address and does not verify it, so the clean-up still takes such
an account. `drawn` and `proven` are history, but for the guard that a code
somebody types in must have been mailed to somebody.

**`Passkeys`.** `store` is the Map of challenges, `answer[c]` what the browser's
authenticator signed. An answer may be sent late, and again. A handler takes a
challenge (`Take`) and deletes it two or three statements later (`Drop`). Keys of
`Counting` have an authenticator that counts; the others always sign zero.

**`Jobs`.** `job[j]` keeps the status, whether the job satisfies what `publishJob` asks
for (`complete`), whether it is hidden, the cap and the freelancer; `proposal[j][u]`
is a status or "none", since (job, freelancer) is unique. Deadlines are a choice:
`ListActiveJobs` archives any active jobs. An edit is a partial row; `Keep` is a field
that the body leaves out or repeats. History: `topLimit` is the largest cap a job has
had; `reopened` collects the jobs for which the code gives up exclusive hiring: a
second acceptance read while one is accepted, an acceptance cut in two, a publish or
an edit that writes 'active' over a filled job. `updateJob` writes 'active' without
the checks of `publishJob`, and a paused job still takes applications: the code
promises neither.

**`Profiles`.** `slug[u]`, `skill[<<u, k>>]` (the count in the row, or no row),
`endorsements` (rows) and `item[i]` are four tables. `UpdateProfile` is followed here
only when it finds no slug; `TrySlug` is one turn of the loop of `generateUniqueSlug`.
`Endorse` is the transaction that inserts and counts, which rejects as a whole.
`removeSkill` leaves the endorsements' rows: `forgotten` remembers which. `DeleteUser` is
the clean-up of an account that was not verified, of anybody at any time: slug, skills, items and the
endorsements given and received go by cascade (`gone`), and no statement lowers the counts
of the users endorsed. So the stored count exceeds the rows, and
`EndorsementsAreCounted` says by exactly whom: the endorsers since the skill was added who are
`departed`. A statement of a request that is still under way for such a user rejects. `found` in a
request and `earlier` are the rows that were in a list when a place was read.

**`JobPages`.** `page[t]` is what a tab shows: a list of jobs, one job, the review of its
proposals, the freelancer's applications, or the form for a new job. `call[c]` is
sent, then `done` or `refused`, then heard. `Call` remembers whether its page is still shown
(`here`): a link inside the application leaves the script running, so that a page
that was left still clears the draft, publishes what it created or goes to another page
(`Heeded`). `Unload` is a reload, which ends the script, and `Lost` a `fetch` that throws
before or after the API has acted. What the pages do, and the model with them:
one DELETE cancels, archives or removes, as the job's status is by then; the buttons
for verdicts are not disabled while one is under way; autosave and `beforeunload` overwrite
a draft that was found and not yet restored with a blank form (`careless`); *Publish* after
*Save*, or after a publish that failed, makes a second job; the list forgets a job
it has cancelled; a new job is visible or hidden, as the form asks.

`clean` in a page is the set of jobs of which it has heard all that changed them, in order.
A job leaves it when somebody else, or a call of a page that was left, changes it while the page
shows it; when an answer about it is lost; when an answer about it was overtaken by another
change on its way. All leave it when a reading fails. A job comes back with the next answer about it
that nothing overtook, and all do with the next reading. `ShownIsTrue` and `CancelKeepsJob` speak of the jobs in
`clean`, because outside it the code does otherwise, and the model shows that too:

- two verdicts on one proposal, pressed one after the other (`src/apps/web/src/app/dashboard/clients/jobs/[id]/proposals/page.tsx:46-56`
  disables no button) and answered out of order, leave "shortlisted" shown while "rejected" is stored;
- a "cancel" of a job that is cancelled already removes it (`jobs/jobs.service.ts:350-355`): after
  somebody else's cancellation, after the client's own from a page that was left, or after one whose answer
  was lost. Pressing twice in one modal, or closing and opening it again, does not.

Left out of the pages: the wording of the form and its checks (`Publish` stands for a form
that passes them, so its job is complete), the preview, the upload of attachments,
view counts, the search for jobs, and the "in review" label, which no code writes. Two things no
action is there for, because the code cannot do them: an hourly job is never created, as the
form sends a budget of 0, which the schema refuses; and a saved draft cannot be
published from the web, as the form ignores the `id` its edit link carries. No page
submits a proposal or edits a job: `SubmitProposal`, `UpdateJob` and `ListActiveJobs` are
other users of the API.

**`AccountPages`.** `account` is the row, `mailed` what a code is out for, `links` the
tokens of `LinkTokenStore`; `token`, `user` and `loading` are localStorage and
`AuthProvider`; `screen` is the page with its modal. `Guard` is `AuthGuard`, `Load` a new script,
`Follow` a link inside the application; `then` is what a handler goes on with when its
answer comes (`Disconnect` sets a password, then disconnects, then reads the user).
`journey` picks the pages one user goes to, which keeps the instance small without cutting
any page short. What the code does and the model shows: `/me` says `hasPassword` is false
for everybody (`auth/auth.service.ts:459` maps a row it selected without the password), so once
the account has been read the settings ask for a first password that the API refuses, and
neither disconnect Google nor delete the account for a user who has one; a restored
account gets tokens but `AuthProvider` keeps the user it had, none or the deleted one, so the
guard sends the tab from the dashboard back to signing in or restoring until it is reloaded; `refreshUser` is not
awaited after the second factor is switched, and not called after a first password; the form
that verifies an address ignores the tokens it is sent. `hasty` and `late` name the two
overlaps in which the pages do not keep their promise: a switch of the second factor that is worked, or
confirmed by a page that does not know the factor is on, before every earlier call about it was heard of,
and a reading of the account that is under way when the user signs out. Left out: change of address and of password,
recovery codes and recovery addresses, the lists of passkeys and sessions, passkey
sign-in, cooldowns of buttons, and expiry of tokens (`WebClient`).

## Runs

| Run | Instance | Distinct states | Shows |
|---|---|---|---|
| `sessions` | 1 user, 3 sessions, 2 requests, failures | 119,704 | `OneHolder`, `OutdatedSessionsAreRevoked`, and that `Sessions` implements `TokenFamilies` |
| `web_client` | 1 user, 3 sessions, 2 requests, 2 tabs, lost answers, failures | 410,524 | `OneTabStaysSignedIn`, `SignedOutStaysOut` |
| `sign_out_revokes` | the same | | a counterexample: signing out leaves the session live |
| `sign_in` | 1 user, 1 address, 2 requests, 2 secrets, threshold 3, failures | 560,816 | `CountIsExact`, `GuessesAreBounded`, `FactorIsProven` |
| `stored_codes` | 1 user, 2 addresses, 4 rows, 2 requests, sets of 2, reset limit 1, a long window, restarts | 248,112 | `CodesWorkOnce`, `CodesAreOneSet`, `FewGoodResetCodes` |
| `otp_store` | 2 keys, 2 codes, TTL 2, creations up to time 2, 2 timers per key and tick, restarts | 55,997 | `OnlyTheLastUnusedCode` |
| `accounts` | 2 ids, 2 addresses, 2 codes, 1 request beside the timers, restarts, fairness | 673,542 | `AddressesAreProven`, `VerifiedStay`, `UnverifiedGo` |
| `passkeys` | 2 users, 1 credential that counts, 3 challenges, 2 requests, restarts | 726,736 | `ChallengesAreUsedOnce`, `KeysAreTheirOwners`, `SignUpsHaveKeys` |
| `jobs` | 1 job, 3 users, 2 requests, caps 1 and 2, 4 edits, failures | 590,521 | `FreelancersApplied`, `OverrunIsBounded`, `OneFreelancerPerJob` |
| `profiles` | 2 users, 1 skill, 1 name and suffixes 0 and 1, 2 rows in 2 lists, 2 requests, deletion of users, failures | 770,556 | `EndorsementsAreCounted`, `SlugsStay` |
| `job_pages` | 2 job ids, 1 tab, 2 calls, 1 text, 4 sets of pages, lost answers, crashes | 849,414 | `ShownIsTrue`, `CancelKeepsJob`, `OwnDraftIsKept` |
| `account_pages` | 3 accounts to start from, 4 journeys, 2 secrets, 1 link token, 2 calls, lost answers | 279,658 | `WayBackIn`, `AuthenticatorIsRight`, `ShownHasTokens` |

Every passing run also checks its module's type invariant. Each property is there because
some plausible slip in a handler breaks it within the run's own instance;
`PROJECT.json` names one for each. What holds more plainly (a revoked session stays
revoked, a new item comes last, counts of keys grow, every code in memory and every
unverified account has its timer ahead) is proved below and not run.

**Why the bounds suffice.** Every race of the handlers is between two requests, and no
guard compares three; two requests with everything between their steps are all
pairs of handlers.
*Sessions, web client:* three sessions let a token be exchanged twice, or exchanged and
its successor exchanged, beside a session that is not concerned; two tabs are the
one that exchanges a token and the one that still has it.
*Sign-in:* a user's row meets no other user's, and an address's window only counts; a
threshold of three leaves a count below, at and one short of it while two
failures overlap, and `MaxCount` lets a count pass the threshold after a lost lock.
*Stored codes:* four rows are two sets of recovery codes; three reset codes are one for each of
two addresses and one too many; a limit of one is passed by the second request. `OneKind` leaves out
the behaviours that make codes of both kinds, which share only ids and requests.
*Accounts:* two accounts, two addresses and two codes that may be drawn twice make
every collision there is. One request runs beside two timers, each with a step between
its read and its delete; two requests were checked once for the safety properties,
without a violation.
*Passkeys:* three challenges are a registration or sign-up and two sign-ins with the
key it made; two users are an owner and another.
*Jobs:* jobs do not meet each other in any statement but `listActiveJobs`, which treats
each alone; three users are a client and two rivals. Caps 1 and 2 put the cap
below, at and above the number of rivals. `SomeEdits` has one edit for each column a
guard reads, with the value that hurts: reopen, finish, strip the criteria, raise the cap.
*Code stores:* the clock runs until every timer is due.
*Profiles:* slugs, skills and lists share nothing but the requests, so `TwoAtMost` leaves
out the behaviours that work on all three at once; two users who may want one name, who
endorse each other, and either of whom the clean-up may delete between a read and a write, and two rows that may be
deleted between a read and an insert are every pair that meets.
*Job pages:* two calls are an answer that is late and what the user did meanwhile; one of
two job ids is there at first and the other is made; the sets of pages are
those between which the code goes by itself or shares state. A second tab meets the
first only in the draft, where two forms are taken out as `careless`, and through the
API, as any other user does. `ShownProposals` leaves out proposals where no page shows
them.
*Account pages:* each journey has the pages that touch one part of the account, and
`login` or `dashboard` where the guard must have somewhere to send the tab. Two
secrets are the one in force and the one that replaces it.

Ids, requests and users are interchangeable, which is why most runs use symmetry;
the runs with liveness properties use none. Deadlock is not checked: a system nobody
calls is at rest.

**Fairness.** Only `LiveSpec` of `Accounts` states any, for `UnverifiedGo`: weak fairness
of each request's `Step`, since a handler that has begun goes on when its statement
returns, and of the timers, since `setTimeout` fires in the end while the process runs and its
callback goes on. Nobody has to send a request, and no fairness is put on failures or
restarts: they stay in, and `UnverifiedGo` excludes by name the accounts whose
timer they took.

## Proofs

The theorems hold for any sets of users, sessions, tabs, jobs, codes, challenges and requests.
They rest on the named assumptions of the modules (`SessionsAssumption`,
`SignInAssumption`, ...): the values that stand for "nothing" are not rows, limits are
numbers, edits are edits; rows and requests are finite in `StoredCodes`, challenges and
requests in `Passkeys`, requests in `SignIn`, tabs in `WebClient` and users in `Profiles`, because
properties there count them. The names `TokenFamilies` has for the state of a family are not
session ids. The accounts `AccountPages` starts from have a password or Google. A sign-up
with a passkey makes one that has neither (`auth/passkey.service.ts:187`), and such accounts
are outside `WayBackIn`: their way back is the key.

Each invariant is proved by an inductive one, as few of the properties are inductive
alone: initial states satisfy it, each action preserves it, and it implies the property.

| Module, theorem | Argument |
|---|---|
| every module: `TypeCorrect` (`OtpTypeCorrect`, `ClientTypeCorrect`, `PagesTypeCorrect`, `JobPagesTypeCorrect`) | inductive by itself in most modules, because it also says which requests carry what; in `StoredCodes` with `IdsAreGivenOnce`, in `Accounts` with `MailsAreRegistered`, in `Passkeys` with `UnissuedAreBlank` |
| `SessionsProofs`: `FamiliesHaveOneHolder`, `TokensAreExchangedOnce` | `RotationInv`: `OneHolder`, `Lineage` and `RotationsAgree` are inductive only together. A rotation keeps one holder because a successor in flight is unique and its token was never exchanged; a creation keeps `Lineage` for the same two reasons |
| `SessionsProofs`: `RevocationStays` | each statement on the table is a creation of an unused id or a `Revoke` of a set |
| `SessionsProofs`: `OutdatedAreRevoked` | a credential change leaves its request at `revokeAll`, which ends by revoking everything or in `lost`; a successor is a new session and never outdated at birth |
| `SessionsProofs`: `SessionsImplementFamilies` | step simulation under `RotationInv`: a creation is `Open`, `HandOver` or `IssueInBroken`, a revocation is `Close`, a rotation that hits a revoked row is `Break`, and every other step stutters |
| `SessionsProofs`: `SignedOutIsFinal` | `SignedOutInv`: after a sign-out whatever a tab or localStorage holds is in `kept` (`StoredAreKept`), and so is whatever a call that is still waited for exchanges or brings (`HeardAreKept`); an answer moves a token from the second place to the first, and what the API issues for such a call is added to `kept` |
| `SessionsProofs`: `OneTabIsNeverSignedOut` | `SteadyInv`: while nothing was lost and one tab asked, the stored token heads its family (`StoredGood`), one exchange at most is under way (`OneExchange`), it is of the stored token, and its answer is the successor (`SteadyCalls`). Rests on `RotationInv` |
| `SignInAndJobPagesProofs`: `CountsAreExact` | `CountInv` adds `CountingAgrees`: one request at a time counts for an account that is not `overlapped`, and what it read is the count |
| `SignInAndJobPagesProofs`: `GuessesBounded` | `GuessesInv`: the *profile* of an account says, for each count below the threshold, how many requests will write a greater one. Each wrong password that is counted and does not lock raises the profile in the lexicographic order, and nothing lowers it before the account is locked or unlocked; so the guesses made are at most the profiles below the present one, and one for each request that is about to lock. Profiles are counted with the finite-set theorems |
| `SignInAndJobPagesProofs`: `FactorsAreProven` | `FactorInv` adds `EnablingAgrees`: a code that is checked belongs to the secret in force until it is written |
| `StoredCodesProofs`: `EachCodeWorksOnce` | a use needs a request that found the row; uses and finders together are at most one until a second finder puts the row in `shared`. `UnmadeAreUnused` says an id not given out has neither |
| `StoredCodesProofs`: `ResetCodesAreFew` | `GoodAreInWindow`: with a long window, and unless a restart emptied it (`forgotten`), every good reset code is in the window of the address it was mailed to, as a row whose request has left the window is inserted expired; the guard of `RateLimit` bounds each window. `KeptAddresses`: the codes of a user not in `moved`, and the requests for one, are all for the address the user has, so one window bounds them |
| `StoredCodesProofs`: `OneSetOfCodes` | `OneGeneration`: a user who is not `disturbed` has at most one generation in flight; it began by deleting all codes, so what it inserts is the only set |
| `AccountsProofs`: `CleanUpIsAhead`, `NoVerifiedAccountIsRemoved` | an unverified registration is about to be timed, timed, or being cleaned up; a verified account being cleaned up is in `raced`, and the clean-up takes no other |
| `AccountsProofs`: `EachAddressIsProven` | `AllProven`: an account's address, where no collision made it ambiguous, is proven, or the account is still unverified and its stored code was drawn for that address; a verification in flight holds such a code, and a change in flight has proven its address |
| `PasskeysProofs`: `EachChallengeIsUsedOnce` | `Once`: for a challenge not `doubtful` one request at most is using it, and after a success the Map is empty of it or a deletion is pending |
| `PasskeysProofs`: `EachKeyIsItsOwners` | `Made`: the challenge of a request that will insert a key was issued to its user, or signed the user up |
| `PasskeysProofs`: `SignUpsLeaveKeys` | needs the two invariants above and `Created` (one credential is created by one challenge, and a success made its key): the insert of a sign-up cannot find the credential taken |
| `PasskeysProofs`: `CountsOnlyGrow` | `CountsOK`: one sign-in at a time with a key that is not `crossed`, and the count it will write is at least the row's |
| `JobsProofs`: `HiredFreelancersApplied` | with `RequestsAgree`: a submission in flight is not the owner's, a decision in flight is about an applicant; applicants only leave with their job, and a job id is never given out again |
| `JobsProofs`: `JobsHaveOneFreelancer` | `HiringAgrees`: on a job not in `reopened` one acceptance runs at a time, it finds the job unfilled, and leaves it filled and not active, so that no other can begin |
| `JobsProofs`: `JobsOverrunIsBounded` | a submission is let in by a count below a limit that is at most `topLimit`, and its insert moves it from `Admitted` to `Applicants`, so the sum does not grow |
| `StoredCodesProofs`: `UsedCodesAreGone`, `NoCodeStays` | inductive with `OtpTypeOK` |
| `ProfilesProofs`: `EndorsementsAreExact`, `EachItemComesLast`, `SlugsAreKept` | three parts that do not need each other. `SkillsOK` says that the count is of `Counted`, the endorsers since the skill was added, still there or `departed`, that a deletion moves an endorser from the one to the other, and that a skill that is gone has only `forgotten` endorsements, so one added again starts from none; `ListsOK` adds that a place in flight is past all rows it found that are still there; `SlugsOK` that only users in `hasty` have a slug while one is made up for them. The greatest place of a list exists because places are bounded, which is proved by a well-founded minimum |
| `AccountPagesProofs`: `ShownUsersHaveTokens` | `ShownOK`: an answer that will show a user belongs to a call sent while there were tokens, and a sign-out with such a call under way is `late` |
| `AccountPagesProofs`: `AWayInIsLeft` | `WaysOK`: whatever tells the page of a password (its user, an answer, a call that goes on to disconnect) is right, because no handler takes a password away; so Google is disconnected only where there is one |
| `AccountPagesProofs`: `TheAuthenticatorIsRight` | `SwitchOK` (`TurnInv`): while not `hasty`, one call at most draws a secret or turns the factor on; what a page or an answer shows as the secret is the stored one; the factor is on only with the secret the phone scanned, and no page that could draw another believes it is off while its answer is unheard |
| `SignInAndJobPagesProofs`: `TheDraftIsKept` | `SavedDraft`: while the draft is used carefully there is one form, and where a draft is owed the form has a text of its own to put away, or still asks about the one it found |
| `SignInAndJobPagesProofs`: `WhatIsShownIsTrue` | `PagesTrue`: a row that differs from the one stored is about to be mended by an answer of the page's own call (`ShownAt`); a list of jobs has one call at most that changes a job, and is busy meanwhile (`BusyAt`); an answer not overtaken tells what is stored (`CopiesTrue`, `VerdictsTrue`). All of it is for each job in the page's `clean`: a handler takes the job it changes out of the `clean` of the pages that do not see it and marks the calls it overtakes, and the page that asked is mended by the reply, which puts the job back where nothing overtook it |
| `SignInAndJobPagesProofs`: `NoJobIsRemovedUnasked` | the rest of `PagesTrue`: what is shown has the stored status unless the job's deletion is unheard (`StatusAt`), so the modal (`ModalAt`) and the call it sends (`DeletesTrue`) ask what the API will do, for a job in `clean` when the modal was opened and not changed since. Needs `BusyAt`: no other call of the list changes the job in between |

Four of the attempts changed what is stated. `GuessesAreBounded` had a bound that holds for two
requests and not for three; the bound is now the exact count of descents. In `AccountPages` the
attempt to prove `AuthenticatorIsRight` showed an overlap that takes four calls, more than the run has:
readings of the account answered out of order let a page confirm its code while the drawing of another
secret is unheard; `ConfirmSwitch` now counts it as `hasty`. For the refinement, `HistoryOK` of `Sessions`
now says that only families that exist are `broken`. `OwnDraftIsKept` became stronger: what is
owed is in the draft itself, where it used to be enough that a form still held the text.

**Only model-checked:** `UnverifiedGo`, which needs fairness and is out of the prover's
reach.

## Plan

Done: sessions, web client, sign-in, stored and e-mailed codes, accounts, passkeys, jobs and
proposals, profiles, the pages about jobs and the account, the refinement of `TokenFamilies`, and
the proofs above.
Left, most important first:

1. An abstract hiring specification for `Jobs` to implement outside reopened jobs.
2. The settings pages that are missing from `AccountPages`; attachments: files without rows
   and rows without files.

## Not modelled

`PROJECT.json` lists every component with its state. Left out:

- **Other pages and components:** profile pages, dashboards, the public site and the
  component library. They read and render, or add to a list what a call answers, as
  the modelled pages do. What the two page modules leave out is said where they are described.
- **Controllers, schemas and modules of the API:** routing and validation. They are in the
  guards of the actions where a guard depends on them, and have no steps of their own.
- **Attachments:** planned above. A file that is uploaded goes to the job of the
  last answer.
- **Expiry reminder:** no code sets `expiresAt`, so it never finds a job.
- **Social links, visibility, completeness, availability, avatar:** single writes by the
  owner that nothing reads before writing.
- **E-mail, audit, health, configuration, logging, throttling:** output, or read once at
  start. That their statements may reject is part of `Abort`.
- **Contracts, escrow, payments, chat, AI, verification:** tables and stubs without code.
- **Passwords as values:** which of two passwords set at once wins, and the end of the
  restore window, are not told apart.
