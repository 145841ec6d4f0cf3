---- MODULE StoredCodes ----
(***************************************************************************)
(* Codes that are rows of the database and good for one use: recovery      *)
(* codes (recovery-codes.service.ts), replaced as a set, and password      *)
(* reset codes (password-reset.service.ts), which expire and are limited   *)
(* in number, for each e-mail address, by a window kept in memory.  Both   *)
(* services find a row that is not used, and mark it by its id in a later  *)
(* statement.                                                              *)
(*                                                                         *)
(* A code is named by its row: two rows with one code are left out.  The   *)
(* sign-in or the new password that a code buys is a use of it.            *)
(***************************************************************************)
EXTENDS Integers, FiniteSets

CONSTANTS
    Users,
    Addresses,
    Rows,       \* the ids rows may get: none is given twice
    Requests,   \* the requests that can be in flight together
    SetSize,    \* RECOVERY_CODES_COUNT
    ResetLimit, \* PASSWORD_RESET_RATE_LIMIT
    LongWindow, \* TRUE when PASSWORD_RESET_RATE_WINDOW is longer than
                \* PASSWORD_RESET_EXPIRES_IN, as by default
    NoRow,      \* stands for "no such row" and "no row yet"
    MayFail     \* TRUE when the process may stop or a statement may reject

VARIABLES
    row,    \* row id -> the row, or NoRow
    email,  \* user -> its address
    window, \* address -> the reset requests of the last rate window, each
            \* named by the row it makes
    req,    \* request -> what it is about to do, or Idle
    (* History, read by the properties and by no guard: *)
    sentTo,    \* row id -> the address its code is mailed to, or NoRow
    moved,     \* users who have changed their address
    uses,      \* row id -> how often it was used
    shared,    \* rows that two requests had found at once
    setOf,     \* row id -> the generation that made it, named by one of its rows
    disturbed, \* users with two generations at once, or one cut in two
    forgotten  \* TRUE when a restart has emptied the windows

history == <<sentTo, moved, uses, shared, setOf, disturbed, forgotten>>
vars    == <<row, email, window, req, history>>

Kinds  == {"recovery", "reset"}
States == {"good", "used", "expired", "deleted"}
Row(u, k, s) == [user |-> u, kind |-> k, state |-> s]
AllRows == [user : Users, kind : Kinds, state : States]

ASSUME StoredCodesAssumption ==
    /\ IsFiniteSet(Rows) /\ IsFiniteSet(Requests)
    /\ SetSize \in Nat \ {0} /\ ResetLimit \in Nat
    /\ NoRow \notin Rows \cup AllRows
    /\ MayFail \in BOOLEAN /\ LongWindow \in BOOLEAN

Of(u, k, S) == {i \in Rows : row[i] # NoRow /\ row[i].user = u /\ row[i].kind = k /\ row[i].state \in S}

(* Ids not given out, nor set aside by a reset request. *)
Fresh == {i \in Rows : /\ row[i] = NoRow
                       /\ \A a \in Addresses : i \notin window[a]
                       /\ \A r \in Requests : req[r].row # i}

Idle == [next |-> "idle", row |-> NoRow]
LimitRequest == [next : {"limit"}, user : Users, row : {NoRow}, to : Addresses]
InFlight == [next : {"insert", "issue", "mark"}, user : Users, row : Rows \cup {NoRow}] \cup LimitRequest

Doing(r, w) == req[r].next = w
Done(r)     == [req EXCEPT ![r] = Idle]
Finding(i)  == {r \in Requests : Doing(r, "mark") /\ req[r].row = i}
Generating(u) == {r \in Requests : Doing(r, "insert") /\ req[r].user = u}

Begin(r, w, u, i) ==
    /\ req[r] = Idle
    /\ req' = [req EXCEPT ![r] = [next |-> w, user |-> u, row |-> i]]

SetState(S, s) == [i \in Rows |-> IF i \in S THEN Row(row[i].user, row[i].kind, s) ELSE row[i]]

-----------------------------------------------------------------------------
(* Recovery codes *)

(* Mutants: the ids of the old codes are given again; the old codes stay. *)
GenerateForgetting(r, u) ==
    /\ Begin(r, "insert", u, NoRow)
    /\ row' = [i \in Rows |-> IF i \in Of(u, "recovery", States) THEN NoRow ELSE row[i]]
    /\ UNCHANGED <<email, window, history>>
GenerateWithoutDelete(r, u) ==
    /\ Begin(r, "insert", u, NoRow)
    /\ disturbed' = IF Generating(u) # {} THEN disturbed \cup {u} ELSE disturbed
    /\ UNCHANGED <<row, email, window, sentTo, moved, uses, shared, setOf, forgotten>>

(* generate deletes all codes of the user, used or not... *)
GenerateDelete(r, u) ==
    /\ Begin(r, "insert", u, NoRow)
    /\ row' = SetState(Of(u, "recovery", States), "deleted")
    /\ disturbed' = IF Generating(u) # {} THEN disturbed \cup {u} ELSE disturbed
    /\ UNCHANGED <<email, window, sentTo, moved, uses, shared, setOf, forgotten>>

(* ...and inserts a new set in a second statement. *)
GenerateInsert(r) ==
    /\ Doing(r, "insert")
    /\ \E S \in SUBSET Fresh :
          /\ Cardinality(S) = SetSize
          /\ row' = [i \in Rows |-> IF i \in S THEN Row(req[r].user, "recovery", "good") ELSE row[i]]
          /\ \E name \in S : setOf' = [i \in Rows |-> IF i \in S THEN name ELSE setOf[i]]
    /\ req' = Done(r)
    /\ UNCHANGED <<email, window, sentTo, moved, uses, shared, disturbed, forgotten>>

-----------------------------------------------------------------------------
(* Reset codes *)

(* requestReset reads the user of an address... *)
RequestReset(r, u) ==
    /\ req[r] = Idle
    /\ req' = [req EXCEPT ![r] = [next |-> "limit", user |-> u, row |-> NoRow, to |-> email[u]]]
    /\ UNCHANGED <<row, email, window, history>>

(* Mutant: the limit is passed by one. *)
RateLimitOnceMore(r) ==
    /\ Doing(r, "limit")
    /\ LET a == req[r].to
           u == req[r].user
       IN  IF Cardinality(window[a]) <= ResetLimit
           THEN \E i \in Fresh :
                  /\ window' = [window EXCEPT ![a] = @ \cup {i}]
                  /\ sentTo' = [sentTo EXCEPT ![i] = a]
                  /\ req' = [req EXCEPT ![r] = [next |-> "issue", user |-> u, row |-> i]]
           ELSE req' = Done(r) /\ UNCHANGED <<window, sentTo>>
    /\ UNCHANGED <<row, email, moved, uses, shared, setOf, disturbed, forgotten>>

(* ...when the answer is there, looks at the window of that address, whose
   address it may no longer be, and writes it without interruption... *)
RateLimit(r) ==
    /\ Doing(r, "limit")
    /\ LET a == req[r].to
           u == req[r].user
       IN  IF Cardinality(window[a]) < ResetLimit
           THEN \E i \in Fresh :
                  /\ window' = [window EXCEPT ![a] = @ \cup {i}]
                  /\ sentTo' = [sentTo EXCEPT ![i] = a]
                  /\ req' = [req EXCEPT ![r] = [next |-> "issue", user |-> u, row |-> i]]
           ELSE req' = Done(r) /\ UNCHANGED <<window, sentTo>>
    /\ UNCHANGED <<row, email, moved, uses, shared, setOf, disturbed, forgotten>>

(* ...then the row is inserted, and the code mailed.  The expiry was fixed
   before: a slow insert may come after it, and with a long window does when
   the request has left the window. *)
IssueReset(r) ==
    /\ Doing(r, "issue")
    /\ LET i == req[r].row IN
         \E s \in {"good", "expired"} :
              /\ LongWindow /\ s = "good" => \E a \in Addresses : i \in window[a]
              /\ row' = [row EXCEPT ![i] = Row(req[r].user, "reset", s)]
    /\ req' = Done(r)
    /\ UNCHANGED <<email, window, history>>

Expire(i) ==
    /\ row[i] # NoRow /\ row[i].kind = "reset" /\ row[i].state = "good"
    /\ row' = SetState({i}, "expired")
    /\ UNCHANGED <<email, window, req, history>>

(* A request leaves the window with time; where the window is longer than
   the life of a code, what leaves it has made no row that is still good. *)
LeaveWindow(a, i) ==
    /\ i \in window[a]
    /\ LongWindow /\ row[i] # NoRow => row[i].state # "good"
    /\ window' = [window EXCEPT ![a] = @ \ {i}]
    /\ UNCHANGED <<row, email, req, history>>

(* The update of confirmEmailChange (auth.service.ts): addresses are unique,
   and neither the codes nor the windows are touched. *)
ChangeEmail(u, a) ==
    /\ \A v \in Users : email[v] # a
    /\ email' = [email EXCEPT ![u] = a]
    /\ moved' = moved \cup {u}
    /\ UNCHANGED <<row, window, req, sentTo, uses, shared, setOf, disturbed, forgotten>>

-----------------------------------------------------------------------------
(* Use, of both kinds *)

(* RecoveryCodesService.use and resetPassword: find a row that is good... *)
Find(r, i) ==
    /\ row[i] # NoRow
    /\ row[i].state = "good"
    /\ Begin(r, "mark", row[i].user, i)
    /\ shared' = IF Finding(i) # {} THEN shared \cup {i} ELSE shared
    /\ UNCHANGED <<row, email, window, sentTo, moved, uses, setOf, disturbed, forgotten>>

(* Mutant: the row is not marked. *)
UseWithoutMark(r) ==
    /\ Doing(r, "mark")
    /\ uses' = [uses EXCEPT ![req[r].row] = @ + 1]
    /\ req' = Done(r)
    /\ UNCHANGED <<row, email, window, sentTo, moved, shared, setOf, disturbed, forgotten>>

(* ...and mark it by its id, used or expired meanwhile or not.  The update
   rejects, and nothing is bought, when the row has been deleted. *)
Use(r) ==
    /\ Doing(r, "mark")
    /\ LET i == req[r].row IN
         IF row[i].state = "deleted" THEN UNCHANGED <<row, uses>>
         ELSE /\ row' = SetState({i}, "used")
              /\ uses' = [uses EXCEPT ![i] = @ + 1]
    /\ req' = Done(r)
    /\ UNCHANGED <<email, window, sentTo, moved, shared, setOf, disturbed, forgotten>>

-----------------------------------------------------------------------------
(* Failure *)

(* The user whose codes a request has deleted and not replaced yet. *)
CutBy(r) == IF Doing(r, "insert") THEN {req[r].user} ELSE {}

Abort(r) ==
    /\ MayFail
    /\ req[r] # Idle
    /\ req' = Done(r)
    /\ disturbed' = disturbed \cup CutBy(r)
    /\ UNCHANGED <<row, email, window, sentTo, moved, uses, shared, setOf, forgotten>>

(* A restart ends every request and empties the windows. *)
Restart ==
    /\ MayFail
    /\ req' = [r \in Requests |-> Idle]
    /\ window' = [a \in Addresses |-> {}]
    /\ disturbed' = disturbed \cup UNION {CutBy(r) : r \in Requests}
    /\ forgotten' = TRUE
    /\ UNCHANGED <<row, email, sentTo, moved, uses, shared, setOf>>

-----------------------------------------------------------------------------
Init ==
    /\ row = [i \in Rows |-> NoRow]
    /\ email \in [Users -> Addresses]
    /\ \A u, v \in Users : email[u] = email[v] => u = v
    /\ window = [a \in Addresses |-> {}]
    /\ req = [r \in Requests |-> Idle]
    /\ sentTo = [i \in Rows |-> NoRow]
    /\ moved = {}
    /\ uses = [i \in Rows |-> 0]
    /\ shared = {}
    /\ setOf = [i \in Rows |-> NoRow]
    /\ disturbed = {}
    /\ forgotten = FALSE

Arrive(r) ==
    \/ \E u \in Users : GenerateDelete(r, u) \/ RequestReset(r, u)
    \/ \E i \in Rows : Find(r, i)

Step(r) == GenerateInsert(r) \/ RateLimit(r) \/ IssueReset(r) \/ Use(r)

Next ==
    \/ \E r \in Requests : Arrive(r) \/ Step(r) \/ Abort(r)
    \/ \E i \in Rows : Expire(i) \/ \E a \in Addresses : LeaveWindow(a, i)
    \/ \E u \in Users, a \in Addresses : ChangeEmail(u, a)
    \/ Restart

Spec == Init /\ [][Next]_vars

-----------------------------------------------------------------------------
(* Properties *)

(* Every variable has its type, a request marks a row that exists, and no two
   users have one address. *)
TypeOK ==
    /\ row \in [Rows -> AllRows \cup {NoRow}]
    /\ email \in [Users -> Addresses]
    /\ \A u, v \in Users : email[u] = email[v] => u = v
    /\ window \in [Addresses -> SUBSET Rows]
    /\ req \in [Requests -> InFlight \cup {Idle}]
    /\ \A r \in Requests : Doing(r, "mark") => req[r].row \in Rows /\ row[req[r].row] # NoRow
    /\ \A r \in Requests : Doing(r, "issue") => req[r].row \in Rows
    /\ sentTo \in [Rows -> Addresses \cup {NoRow}]
    /\ moved \subseteq Users
    /\ uses \in [Rows -> Nat]
    /\ shared \subseteq Rows
    /\ setOf \in [Rows -> Rows \cup {NoRow}]
    /\ disturbed \subseteq Users
    /\ forgotten \in BOOLEAN

(* A code buys one sign-in, or one new password, unless two requests had
   found it before either marked it; and then no more than there can be
   requests at once. (use and resetPassword) *)
CodesWorkOnce ==
    \A i \in Rows :
        /\ uses[i] + Cardinality(Finding(i)) <= IF i \in shared THEN Cardinality(Requests) ELSE 1
        /\ uses[i] > 0 => row[i].state \in {"used", "deleted"}

(* "Generate new recovery codes (invalidates old ones)": a user has no codes
   yet, or those of one generation, complete, unless generations overlapped
   or one was cut between its statements. (generate) *)
CodesAreOneSet ==
    \A u \in Users \ disturbed :
        LET codes == Of(u, "recovery", States \ {"deleted"}) IN
          codes # {} => /\ Generating(u) = {}
                        /\ Cardinality(codes) = SetSize
                        /\ \A i, j \in codes : setOf[i] = setOf[j]

GoodMailedTo(a) == {i \in Rows : /\ row[i] # NoRow /\ row[i].kind = "reset" /\ row[i].state = "good"
                               /\ sentTo[i] = a}

(* While the process runs, and where its window is longer than the life of a
   code, the reset codes that were mailed to one address and are good at one
   time are no more than the rate limit, requested at once or not and whoever
   had the address meanwhile; and so are the good codes of a user, unless the
   user has changed address, which opens another window while the codes of
   the old one stay good. (requestReset and its rateLimit) *)
FewGoodResetCodes ==
    LongWindow /\ ~forgotten =>
        /\ \A a \in Addresses : Cardinality(GoodMailedTo(a)) <= ResetLimit
        /\ \A u \in Users \ moved : Cardinality(Of(u, "reset", {"good"})) <= ResetLimit
====
