---- MODULE AccountsProofs ----
(***************************************************************************)
(* Theorems about Accounts, for every set of ids, addresses, codes and     *)
(* requests.                                                               *)
(***************************************************************************)
EXTENDS Accounts, TLAPS

(* TypeOK, with what it needs to be inductive: who sets a timer has made the
   account by register. *)
MailsAreRegistered == \A r \in Requests : Doing(r, "mail") => req[r].id \in registered

Base == TypeOK /\ MailsAreRegistered

(* What every step does to the accounts. *)
UsersKept ==
    /\ user' \in [Ids -> Rows \cup {None, Gone}]
    /\ \A i \in Ids : user[i] # None => user'[i] # None
    /\ registered \subseteq registered'

RequestsOK ==
    /\ req \in [Requests -> InFlight \cup {Idle}]
    /\ \A r \in Requests :
          /\ req[r].next \in {"mail", "verify", "resend"} => req[r].code \in Codes
          /\ req[r].next \in {"mail", "verify", "resend", "change", "confirm"} =>
                req[r].id \in Ids /\ user[req[r].id] # None
          /\ req[r].next = "mail" => req[r].id \in registered

LEMMA BaseParts ==
    /\ Base => TypeOK /\ RequestsOK
    /\ TypeOK /\ RequestsOK => Base
BY DEF Base, TypeOK, MailsAreRegistered, RequestsOK, Doing

LEMMA AccountIsRow ==
    ASSUME TypeOK, NEW i \in Accounts
    PROVE  i \in Ids /\ user[i] \in Rows
BY DEF TypeOK, Accounts

LEMMA RowIsAccount ==
    ASSUME NEW i \in Ids, NEW f, f \in Rows
    PROVE  f # None /\ f # Gone
BY AccountsAssumption

LEMMA RequestFields ==
    ASSUME Base, NEW r \in Requests, req[r].next # "idle"
    PROVE  req[r] \in InFlight /\ req[r].email \in Emails /\ req[r].code \in Codes \cup {None}
<1>1. req[r] # Idle
  BY DEF Idle
<1>2. req[r] \in InFlight
  BY <1>1 DEF Base, TypeOK
<1> QED
  BY <1>2 DEF InFlight

(* Requests stay in order when one of them changes. *)
LEMMA RequestsStay ==
    ASSUME Base, UsersKept, NEW r \in Requests, NEW q, req' = [req EXCEPT ![r] = q],
           q \in InFlight \cup {Idle},
           q.next \in {"mail", "verify", "resend"} => q.code \in Codes,
           q.next \in {"mail", "verify", "resend", "change", "confirm"} => q.id \in Ids /\ user'[q.id] # None,
           q.next = "mail" => q.id \in registered'
    PROVE  RequestsOK' /\ req'[r] = q /\ \A p \in Requests \ {r} : req'[p] = req[p]
<1> RequestsOK
  BY BaseParts
<1>1. req'[r] = q /\ \A p \in Requests \ {r} : req'[p] = req[p]
  BY DEF RequestsOK
<1>2. req' \in [Requests -> InFlight \cup {Idle}]
  BY DEF RequestsOK
<1>3. ASSUME NEW p \in Requests
      PROVE  /\ req'[p].next \in {"mail", "verify", "resend"} => req'[p].code \in Codes
             /\ req'[p].next \in {"mail", "verify", "resend", "change", "confirm"} =>
                   req'[p].id \in Ids /\ user'[req'[p].id] # None
             /\ req'[p].next = "mail" => req'[p].id \in registered'
  <2>1. CASE p = r
    BY <1>1, <2>1
  <2>2. CASE p # r
    BY <1>1, <2>2 DEF RequestsOK, UsersKept
  <2> QED
    BY <2>1, <2>2
<1> QED
  BY <1>1, <1>2, <1>3 DEF RequestsOK

LEMMA DoneStay ==
    ASSUME Base, UsersKept, NEW r \in Requests, req' = Done(r)
    PROVE  RequestsOK' /\ req'[r].next = "idle" /\ \A p \in Requests \ {r} : req'[p] = req[p]
<1>1. Idle.next = "idle"
  BY DEF Idle
<1>2. req' = [req EXCEPT ![r] = Idle]
  BY DEF Done
<1> QED
  BY <1>1, <1>2, RequestsStay

LEMMA BeginStay ==
    ASSUME Base, UsersKept, NEW r \in Requests,
           NEW w \in {"create", "verify", "resend", "change", "confirm"},
           NEW i \in Ids \cup {None}, NEW e \in Emails, NEW c \in Codes \cup {None},
           Begin(r, w, i, e, c),
           w \in {"verify", "resend"} => c \in Codes,
           w # "create" => i \in Accounts
    PROVE  /\ RequestsOK'
           /\ req'[r].next = w /\ req'[r].id = i /\ req'[r].email = e /\ req'[r].code = c
           /\ \A p \in Requests \ {r} : req'[p] = req[p]
           /\ req[r].next = "idle"
<1> DEFINE q == [next |-> w, id |-> i, email |-> e, code |-> c]
<1>1. q \in InFlight /\ q.next = w /\ q.id = i /\ q.email = e /\ q.code = c
  BY DEF InFlight
<1>2. w # "create" => i \in Ids /\ user'[i] # None
  BY DEF UsersKept, Accounts
<1>3. req' = [req EXCEPT ![r] = q] /\ req[r].next = "idle"
  BY DEF Begin, Idle
<1> HIDE DEF q
<1> QED
  BY <1>1, <1>2, <1>3, RequestsStay

(* What an update leaves of a row. *)
LEMMA RowUpdated ==
    ASSUME TypeOK, NEW i \in Accounts, NEW f \in Rows, user' = [user EXCEPT ![i] = f]
    PROVE  /\ user' \in [Ids -> Rows \cup {None, Gone}]
           /\ user'[i] = f
           /\ \A j \in Ids \ {i} : user'[j] = user[j]
           /\ \A j \in Ids : user[j] # None => user'[j] # None
           /\ Accounts' = Accounts
<1>1. i \in Ids /\ user[i] # None /\ user[i] # Gone
  BY DEF Accounts
<1>2. f # None /\ f # Gone
  BY AccountsAssumption
<1> QED
  BY <1>1, <1>2 DEF TypeOK, Accounts

LEMMA RowMade ==
    ASSUME TypeOK, NEW i \in Ids, user[i] = None, NEW f \in Rows, user' = [user EXCEPT ![i] = f]
    PROVE  /\ user' \in [Ids -> Rows \cup {None, Gone}]
           /\ user'[i] = f
           /\ \A j \in Ids \ {i} : user'[j] = user[j]
           /\ \A j \in Ids : user[j] # None => user'[j] # None
           /\ Accounts' = Accounts \cup {i}
           /\ i \notin registered
<1>1. f # None /\ f # Gone
  BY AccountsAssumption
<1>2. i \notin registered
  BY DEF TypeOK
<1> QED
  BY <1>1, <1>2 DEF TypeOK, Accounts

-----------------------------------------------------------------------------
(* What each write of an account makes of it. *)
LEMMA CreateUserFields ==
    ASSUME Base, NEW r \in Requests, CreateUser(r), Free(req[r].email)
    PROVE  \E i \in Ids, c \in Codes, f \in Rows :
              /\ user[i] = None /\ i \notin registered
              /\ f.email = req[r].email /\ ~f.verified /\ f.code = c
              /\ user' = [user EXCEPT ![i] = f]
              /\ registered' = registered \cup {i}
              /\ drawn' = drawn \cup {<<c, req[r].email>>}
              /\ req[r].email \in Emails
              /\ RequestsOK'
              /\ req'[r].next = "mail" /\ req'[r].id = i
              /\ \A p \in Requests \ {r} : req'[p] = req[p]
<1> TypeOK
  BY DEF Base
<1>1. PICK i \in Ids, c \in Codes :
        /\ user[i] = None
        /\ user' = [user EXCEPT ![i] = Account(req[r].email, FALSE, c)]
        /\ registered' = registered \cup {i}
        /\ drawn' = drawn \cup {<<c, req[r].email>>}
        /\ req' = [req EXCEPT ![r] = [next |-> "mail", id |-> i, email |-> req[r].email, code |-> c]]
  BY DEF CreateUser
<1>2. req[r].email \in Emails
  BY RequestFields DEF CreateUser, Doing
<1> DEFINE f == Account(req[r].email, FALSE, c)
<1>3. f \in Rows /\ f.email = req[r].email /\ ~f.verified /\ f.code = c
  <2>1. req[r].email \in Emails \cup {Placeholder} /\ FALSE \in BOOLEAN /\ c \in Codes \cup {None}
    BY <1>2
  <2>2. f \in Rows /\ f.email = req[r].email /\ f.verified = FALSE /\ f.code = c
    BY <2>1 DEF Account, Rows
  <2> QED
    BY <2>2
<1>4. i \notin registered
  BY <1>1 DEF TypeOK
<1>5. UsersKept /\ user'[i] # None
  <2>1. user' = [user EXCEPT ![i] = f]
    BY <1>1
  <2> HIDE DEF f
  <2>2. f # None
    BY <1>3, AccountsAssumption
  <2> QED
    BY <1>1, <1>3, <2>1, <2>2, RowMade DEF UsersKept
<1> DEFINE q == [next |-> "mail", id |-> i, email |-> req[r].email, code |-> c]
<1>6. q \in InFlight /\ q.next = "mail" /\ q.id = i /\ q.code = c
  BY <1>2 DEF InFlight
<1>7. RequestsOK' /\ req'[r] = q /\ \A p \in Requests \ {r} : req'[p] = req[p]
  <2>1. req' = [req EXCEPT ![r] = q] /\ i \in registered'
    BY <1>1
  <2> HIDE DEF q
  <2> QED
    BY <1>5, <1>6, <2>1, RequestsStay
<1>8. user' = [user EXCEPT ![i] = f]
  BY <1>1
<1> HIDE DEF f
<1> QED
  BY <1>1, <1>2, <1>3, <1>4, <1>6, <1>7, <1>8

LEMMA VerifyFields ==
    ASSUME Base, NEW r \in Requests, Verify(r), req[r].id \in Accounts
    PROVE  \E i \in Accounts, f \in Rows :
              /\ i = req[r].id
              /\ user' = [user EXCEPT ![i] = f]
              /\ f.email = user[i].email /\ f.verified /\ f.code = None
              /\ proven' = proven \cup {<<i, req[r].email>>}
              /\ raced' = IF i \in cleaning THEN raced \cup {i} ELSE raced
<1> TypeOK
  BY DEF Base
<1>1. PICK i \in Accounts : i = req[r].id
  OBVIOUS
<1>2. i \in Ids /\ user[i] \in Rows
  BY AccountIsRow
<1> DEFINE f == [user[i] EXCEPT !.verified = TRUE, !.code = None]
<1>3. f \in Rows /\ f.email = user[i].email /\ f.verified /\ f.code = None
  BY <1>2 DEF Rows
<1>4. user' = [user EXCEPT ![i] = f]
  BY <1>1 DEF Verify
<1>5. /\ proven' = proven \cup {<<i, req[r].email>>}
      /\ raced' = IF i \in cleaning THEN raced \cup {i} ELSE raced
  BY <1>1 DEF Verify
<1> HIDE DEF f
<1> QED
  BY <1>1, <1>3, <1>4, <1>5

LEMMA ReplaceFields ==
    ASSUME Base, NEW r \in Requests, ReplaceCode(r), req[r].id \in Accounts
    PROVE  \E i \in Accounts, f \in Rows :
              /\ i = req[r].id
              /\ user' = [user EXCEPT ![i] = f]
              /\ f.email = user[i].email /\ f.verified = user[i].verified
              /\ f.code = req[r].code /\ req[r].code \in Codes /\ req[r].email \in Emails
              /\ drawn' = drawn \cup {<<req[r].code, req[r].email>>}
<1> TypeOK /\ RequestsOK
  BY BaseParts DEF Base
<1>1. PICK i \in Accounts : i = req[r].id
  OBVIOUS
<1>2. i \in Ids /\ user[i] \in Rows
  BY AccountIsRow
<1>3. req[r].code \in Codes /\ req[r].email \in Emails
  BY RequestFields DEF ReplaceCode, Doing, RequestsOK
<1> DEFINE f == [user[i] EXCEPT !.code = req[r].code]
<1>4. f \in Rows /\ f.email = user[i].email /\ f.verified = user[i].verified /\ f.code = req[r].code
  BY <1>2, <1>3 DEF Rows
<1>5. user' = [user EXCEPT ![i] = f]
  BY <1>1 DEF ReplaceCode
<1>6. drawn' = drawn \cup {<<req[r].code, req[r].email>>}
  BY <1>1 DEF ReplaceCode
<1> HIDE DEF f
<1> QED
  BY <1>1, <1>3, <1>4, <1>5, <1>6

(* The steps that open or close a change, or let it expire: the address is
   the only thing of interest that may be new. *)
LEMMA ChangeFields ==
    ASSUME Base,
           \/ \E r \in Requests : OpenChange(r)
           \/ \E i \in Ids : ExpireChange(i)
    PROVE  \/ user' = user
           \/ \E i \in Accounts, f \in Rows :
                /\ user' = [user EXCEPT ![i] = f]
                /\ f.email = user[i].email /\ f.verified = user[i].verified /\ f.code = user[i].code
<1> TypeOK
  BY DEF Base
<1>1. ASSUME NEW i \in Accounts, NEW e \in Emails \cup {None}, user' = [user EXCEPT ![i].change = e]
      PROVE  \E f \in Rows :
                /\ user' = [user EXCEPT ![i] = f]
                /\ f.email = user[i].email /\ f.verified = user[i].verified /\ f.code = user[i].code
  <2>1. i \in Ids /\ user[i] \in Rows
    BY AccountIsRow
  <2> DEFINE f == [user[i] EXCEPT !.change = e]
  <2>2. f \in Rows /\ f.email = user[i].email /\ f.verified = user[i].verified /\ f.code = user[i].code
    BY <2>1 DEF Rows
  <2>3. user' = [user EXCEPT ![i] = f]
    BY <1>1
  <2> HIDE DEF f
  <2> QED
    BY <2>2, <2>3
<1>2. ASSUME NEW r \in Requests, OpenChange(r), user' # user
      PROVE  \E i \in Accounts, e \in Emails \cup {None} : user' = [user EXCEPT ![i].change = e]
  <2>1. req[r].email \in Emails
    BY <1>2, RequestFields DEF OpenChange, Doing
  <2> QED
    BY <1>2, <2>1 DEF OpenChange
<1> QED
  BY <1>1, <1>2 DEF ExpireChange

LEMMA ChangeAddressFields ==
    ASSUME Base, NEW r \in Requests, ChangeAddress(r), user' # user
    PROVE  \E i \in Accounts, f \in Rows :
              /\ i = req[r].id
              /\ user' = [user EXCEPT ![i] = f]
              /\ f.email = req[r].email /\ f.verified = user[i].verified /\ f.code = user[i].code
<1> TypeOK
  BY DEF Base
<1>1. PICK i \in Accounts :
        /\ i = req[r].id
        /\ user' = [user EXCEPT ![i].email = req[r].email, ![i].change = None]
  BY DEF ChangeAddress
<1>2. i \in Ids /\ user[i] \in Rows
  BY AccountIsRow
<1>3. req[r].email \in Emails
  BY RequestFields DEF ChangeAddress, Doing
<1> DEFINE f == [user[i] EXCEPT !.email = req[r].email, !.change = None]
<1>4. f \in Rows /\ f.email = req[r].email /\ f.verified = user[i].verified /\ f.code = user[i].code
  BY <1>2, <1>3 DEF Rows
<1>5. user' = [user EXCEPT ![i] = f]
  BY <1>1
<1> HIDE DEF f
<1> QED
  BY <1>1, <1>4, <1>5

-----------------------------------------------------------------------------
(* The types. *)
SetsOK ==
    /\ timers \subseteq registered /\ cleaning \subseteq registered
    /\ drawn \subseteq Codes \X Emails
    /\ proven \subseteq Ids \X Emails
    /\ registered \subseteq {i \in Ids : user[i] # None}
    /\ untimed \subseteq registered /\ raced \subseteq registered

LEMMA BaseFromParts ==
    /\ Base => SetsOK
    /\ SetsOK' /\ RequestsOK' /\ user' \in [Ids -> Rows \cup {None, Gone}] => Base'
BY DEF Base, SetsOK, TypeOK, MailsAreRegistered, RequestsOK, Doing

(* A request arrives: nothing but the requests, and what is proven, changes. *)
LEMMA ArriveFields ==
    ASSUME Base, NEW r \in Requests, Arrive(r)
    PROVE  /\ UNCHANGED <<user, timers, cleaning, drawn, registered, untimed, raced>>
           /\ Base'
           /\ req'[r].next \in {"create", "verify", "resend", "change", "confirm"}
           /\ \A p \in Requests \ {r} : req'[p] = req[p]
           /\ req[r].next = "idle"
           /\ proven \subseteq proven'
<1> TypeOK /\ SetsOK
  BY BaseFromParts DEF Base
<1>1. UNCHANGED <<user, timers, cleaning, drawn, registered, untimed, raced>>
  BY DEF Arrive, Register, Resend, RequestChange, FindByCode, ConfirmChange, history
<1>2. UsersKept
  BY <1>1 DEF UsersKept, TypeOK
<1>3. proven \subseteq proven' /\ proven' \subseteq Ids \X Emails
  <2>1. CASE \E i \in Ids, e \in Emails, o \in Emails : ConfirmChange(r, i, o, e)
    BY <2>1 DEF ConfirmChange, SetsOK
  <2>2. CASE UNCHANGED proven
    BY <2>2 DEF SetsOK
  <2> QED
    BY <2>1, <2>2 DEF Arrive, Register, Resend, RequestChange, FindByCode, history
<1>4. PICK w \in {"create", "verify", "resend", "change", "confirm"}, i \in Ids \cup {None},
           e \in Emails, c \in Codes \cup {None} :
        /\ Begin(r, w, i, e, c)
        /\ w \in {"verify", "resend"} => c \in Codes
        /\ w # "create" => i \in Accounts
  <2>1. CASE \E e \in Emails : Register(r, e)
    BY <2>1 DEF Register
  <2>2. CASE \E e \in Emails : Resend(r, e)
    BY <2>2 DEF Resend, Accounts
  <2>3. CASE \E i \in Ids, e \in Emails : RequestChange(r, i, e)
    BY <2>3 DEF RequestChange
  <2>4. CASE \E i \in Ids, e \in Emails, c \in Codes : FindByCode(r, i, c, e)
    BY <2>4 DEF FindByCode
  <2>5. CASE \E i \in Ids, e, o \in Emails : ConfirmChange(r, i, o, e)
    BY <2>5 DEF ConfirmChange
  <2> QED
    BY <2>1, <2>2, <2>3, <2>4, <2>5 DEF Arrive
<1>5. /\ RequestsOK'
      /\ req'[r].next \in {"create", "verify", "resend", "change", "confirm"}
      /\ \A p \in Requests \ {r} : req'[p] = req[p]
      /\ req[r].next = "idle"
  BY <1>2, <1>4, BeginStay
<1>6. SetsOK'
  BY <1>1, <1>3 DEF SetsOK
<1> QED
  BY <1>1, <1>2, <1>3, <1>5, <1>6, BaseFromParts DEF UsersKept

(* The steps of a request. *)
LEMMA CreateBase ==
    ASSUME Base, NEW r \in Requests, CreateUser(r)
    PROVE  Base' /\ UsersKept
<1> TypeOK /\ SetsOK
  BY BaseFromParts DEF Base
<1>1. CASE Free(req[r].email)
  <2>1. PICK i \in Ids, c \in Codes, f \in Rows :
          /\ user[i] = None
          /\ user' = [user EXCEPT ![i] = f]
          /\ registered' = registered \cup {i}
          /\ drawn' = drawn \cup {<<c, req[r].email>>}
          /\ req[r].email \in Emails
          /\ RequestsOK'
    BY <1>1, CreateUserFields
  <2>2. /\ user' \in [Ids -> Rows \cup {None, Gone}]
        /\ user'[i] = f /\ f # None
        /\ \A j \in Ids : user[j] # None => user'[j] # None
    BY <2>1, RowMade, AccountsAssumption
  <2>3. UNCHANGED <<timers, cleaning, proven, untimed, raced>>
    BY DEF CreateUser
  <2>4. SetsOK'
    BY <2>1, <2>2, <2>3 DEF SetsOK
  <2> QED
    BY <2>1, <2>2, <2>4, BaseFromParts DEF UsersKept
<1>2. CASE ~Free(req[r].email)
  <2>1. UNCHANGED <<user, timers, cleaning, history>> /\ req' = Done(r)
    BY <1>2 DEF CreateUser, history
  <2>2. UsersKept
    BY <2>1 DEF UsersKept, TypeOK, history
  <2>3. RequestsOK'
    BY <2>1, <2>2, DoneStay
  <2>4. SetsOK'
    BY <2>1 DEF SetsOK, history
  <2> QED
    BY <2>2, <2>3, <2>4, BaseFromParts DEF UsersKept
<1> QED
  BY <1>1, <1>2

(* The writes of an account by its id, and the timer that is set. *)
LEMMA WriteBase ==
    ASSUME Base, NEW r \in Requests,
           SetTimer(r) \/ Verify(r) \/ ReplaceCode(r) \/ OpenChange(r) \/ ChangeAddress(r)
    PROVE  /\ Base'
           /\ UsersKept
           /\ req'[r].next = "idle"
           /\ \A p \in Requests \ {r} : req'[p] = req[p]
           /\ registered' = registered
<1> TypeOK /\ SetsOK
  BY BaseFromParts DEF Base
<1>1. registered' = registered /\ req' = Done(r) /\ UNCHANGED <<cleaning, untimed>>
  BY DEF SetTimer, Verify, ReplaceCode, OpenChange, ChangeAddress, history
<1>2. user' = user \/ \E i \in Accounts, f \in Rows : user' = [user EXCEPT ![i] = f]
  <2>1. CASE SetTimer(r)
    BY <2>1 DEF SetTimer
  <2>2. CASE Verify(r)
    BY <2>2, VerifyFields DEF Verify
  <2>3. CASE ReplaceCode(r)
    BY <2>3, ReplaceFields DEF ReplaceCode
  <2>4. CASE OpenChange(r)
    BY <2>4, ChangeFields
  <2>5. CASE ChangeAddress(r)
    BY <2>5, ChangeAddressFields
  <2> QED
    BY <2>1, <2>2, <2>3, <2>4, <2>5
<1>3. UsersKept
  BY <1>1, <1>2, RowUpdated DEF UsersKept, TypeOK
<1>4. /\ RequestsOK' /\ req'[r].next = "idle"
      /\ \A p \in Requests \ {r} : req'[p] = req[p]
  BY <1>1, <1>3, DoneStay
<1>5. timers' \subseteq registered
  BY DEF SetTimer, Verify, ReplaceCode, OpenChange, ChangeAddress, SetsOK, Base, MailsAreRegistered
<1>6. raced' \subseteq registered
  BY DEF SetTimer, Verify, ReplaceCode, OpenChange, ChangeAddress, SetsOK, history
<1>7. drawn' \subseteq Codes \X Emails
  <2>1. CASE drawn' = drawn
    BY <2>1 DEF SetsOK
  <2>2. CASE drawn' # drawn
    <3>1. ReplaceCode(r) /\ req[r].id \in Accounts
      BY <2>2 DEF SetTimer, Verify, ReplaceCode, OpenChange, ChangeAddress, history
    <3> QED
      BY <3>1, ReplaceFields DEF SetsOK
  <2> QED
    BY <2>1, <2>2
<1>8. proven' \subseteq Ids \X Emails
  <2>1. CASE proven' = proven
    BY <2>1 DEF SetsOK
  <2>2. CASE proven' # proven
    <3>1. Verify(r) /\ req[r].id \in Accounts
      BY <2>2 DEF SetTimer, Verify, ReplaceCode, OpenChange, ChangeAddress, history
    <3>2. req[r].id \in Ids /\ proven' = proven \cup {<<req[r].id, req[r].email>>}
      BY <3>1 DEF Verify, Accounts
    <3>3. req[r].email \in Emails
      BY <3>1, RequestFields DEF Verify, Doing
    <3> QED
      BY <3>2, <3>3 DEF SetsOK
  <2> QED
    BY <2>1, <2>2
<1>9. SetsOK'
  BY <1>1, <1>3, <1>5, <1>6, <1>7, <1>8 DEF SetsOK, UsersKept
<1> QED
  BY <1>1, <1>3, <1>4, <1>9, BaseFromParts DEF UsersKept

(* Accounts made at once, timers, failures. *)
LEMMA MakeFields ==
    ASSUME Base, NEW i \in Ids, CreateByPasskey(i) \/ \E e \in Emails : CreateByGoogle(i, e)
    PROVE  \E f \in Rows :
              /\ user[i] = None
              /\ user' = [user EXCEPT ![i] = f]
              /\ f.code = None
              /\ f.email \in Emails => f.verified /\ proven' = proven \cup {<<i, f.email>>}
              /\ f.email \notin Emails => ~f.verified /\ proven' = proven
              /\ UNCHANGED <<timers, cleaning, req, drawn, registered, untimed, raced>>
<1>1. CASE CreateByPasskey(i)
  <2> DEFINE f == Account(Placeholder, FALSE, None)
  <2>1. f \in Rows /\ f.code = None /\ f.email = Placeholder /\ ~f.verified
    BY DEF Account, Rows
  <2> HIDE DEF f
  <2>2. user[i] = None /\ user' = [user EXCEPT ![i] = f]
        /\ UNCHANGED <<timers, cleaning, req, drawn, proven, registered, untimed, raced>>
    BY <1>1 DEF CreateByPasskey, history, f
  <2> QED
    BY <2>1, <2>2, AccountsAssumption
<1>2. ASSUME NEW e \in Emails, CreateByGoogle(i, e)
      PROVE  \E f \in Rows :
              /\ user[i] = None
              /\ user' = [user EXCEPT ![i] = f]
              /\ f.code = None
              /\ f.email \in Emails => f.verified /\ proven' = proven \cup {<<i, f.email>>}
              /\ f.email \notin Emails => ~f.verified /\ proven' = proven
              /\ UNCHANGED <<timers, cleaning, req, drawn, registered, untimed, raced>>
  <2> DEFINE f == Account(e, TRUE, None)
  <2>1. f \in Rows /\ f.code = None /\ f.email = e /\ f.verified
    BY DEF Account, Rows
  <2> HIDE DEF f
  <2>2. user[i] = None /\ user' = [user EXCEPT ![i] = f] /\ proven' = proven \cup {<<i, e>>}
        /\ UNCHANGED <<timers, cleaning, req, drawn, registered, untimed, raced>>
    BY <1>2 DEF CreateByGoogle, f
  <2> QED
    BY <2>1, <2>2
<1> QED
  BY <1>1, <1>2

LEMMA SameRequests ==
    ASSUME Base, UsersKept, req' = req \/ \A r \in Requests : req'[r] = Idle,
           req' \in [Requests -> InFlight \cup {Idle}]
    PROVE  RequestsOK'
<1> RequestsOK
  BY BaseParts
<1>1. CASE req' = req
  BY <1>1 DEF RequestsOK, UsersKept
<1>2. CASE \A r \in Requests : req'[r] = Idle
  <2>1. \A r \in Requests : req'[r].next = "idle"
    BY <1>2 DEF Idle
  <2> QED
    BY <2>1 DEF RequestsOK
<1> QED
  BY <1>1, <1>2

LEMMA MakeBase ==
    ASSUME Base, NEW i \in Ids, CreateByPasskey(i) \/ \E e \in Emails : CreateByGoogle(i, e)
    PROVE  Base' /\ UsersKept
<1> TypeOK /\ SetsOK
  BY BaseFromParts DEF Base
<1>1. PICK f \in Rows :
        /\ user[i] = None
        /\ user' = [user EXCEPT ![i] = f]
        /\ f.email \in Emails => proven' = proven \cup {<<i, f.email>>}
        /\ f.email \notin Emails => proven' = proven
        /\ UNCHANGED <<timers, cleaning, req, drawn, registered, untimed, raced>>
  BY MakeFields
<1>2. UsersKept
  BY <1>1, RowMade DEF UsersKept
<1>3. RequestsOK'
  BY <1>1, <1>2, SameRequests DEF TypeOK
<1>4. proven' \subseteq Ids \X Emails
  BY <1>1 DEF SetsOK
<1>5. SetsOK'
  BY <1>1, <1>2, <1>4 DEF SetsOK, UsersKept
<1> QED
  BY <1>2, <1>3, <1>5, BaseFromParts DEF UsersKept

LEMMA TimerBase ==
    ASSUME Base, NEW i \in Ids, TimerFires(i) \/ CleanUp(i) \/ TimerFails(i) \/ ExpireChange(i)
    PROVE  Base' /\ UsersKept
<1> TypeOK /\ SetsOK
  BY BaseFromParts DEF Base
<1>1. UNCHANGED <<req, drawn, proven, registered, raced>>
  BY DEF TimerFires, CleanUp, TimerFails, ExpireChange, history
<1>2. UsersKept
  <2>1. CASE CleanUp(i)
    <3>1. Gone # None
      BY AccountsAssumption
    <3> QED
      BY <1>1, <2>1, <3>1 DEF CleanUp, UsersKept, TypeOK
  <2>2. CASE ExpireChange(i)
    BY <1>1, <2>2, ChangeFields, RowUpdated DEF UsersKept, TypeOK
  <2>3. CASE user' = user
    BY <1>1, <2>3 DEF UsersKept, TypeOK
  <2> QED
    BY <2>1, <2>2, <2>3 DEF TimerFires, TimerFails
<1>3. RequestsOK'
  BY <1>1, <1>2, SameRequests DEF TypeOK
<1>4. timers' \subseteq registered /\ cleaning' \subseteq registered /\ untimed' \subseteq registered
  BY DEF TimerFires, CleanUp, TimerFails, ExpireChange, history, SetsOK
<1>5. SetsOK'
  BY <1>1, <1>2, <1>4 DEF SetsOK, UsersKept
<1> QED
  BY <1>2, <1>3, <1>5, BaseFromParts DEF UsersKept

LEMMA FailBase ==
    ASSUME Base, Restart \/ (\E r \in Requests : Abort(r)) \/ UNCHANGED vars
    PROVE  Base' /\ user' = user /\ UNCHANGED <<drawn, proven, registered, raced>>
<1> TypeOK /\ SetsOK
  BY BaseFromParts DEF Base
<1>1. user' = user /\ UNCHANGED <<drawn, proven, registered, raced>>
  BY DEF Restart, Abort, vars, history
<1>2. UsersKept
  BY <1>1 DEF UsersKept, TypeOK
<1>3. RequestsOK'
  <2>1. CASE \E r \in Requests : Abort(r)
    BY <1>2, <2>1, DoneStay DEF Abort
  <2>2. CASE Restart \/ UNCHANGED vars
    <3>1. /\ req' = req \/ \A r \in Requests : req'[r] = Idle
          /\ req' \in [Requests -> InFlight \cup {Idle}]
      BY <2>2 DEF Restart, vars, TypeOK
    <3> QED
      BY <1>2, <3>1, SameRequests
  <2> QED
    BY <2>1, <2>2
<1>4. \A r \in Requests : MadeBy(r) \subseteq registered
  BY DEF MadeBy, Base, MailsAreRegistered
<1>5. BeingMade \subseteq registered
  BY DEF BeingMade, Base, MailsAreRegistered
<1>6. untimed' \subseteq registered /\ timers' \subseteq registered /\ cleaning' \subseteq registered
  BY <1>4, <1>5 DEF Restart, Abort, vars, history, SetsOK
<1>7. SetsOK'
  BY <1>1, <1>6 DEF SetsOK
<1> QED
  BY <1>1, <1>3, <1>7, BaseFromParts DEF TypeOK

LEMMA BaseInit == Init => Base
<1> SUFFICES ASSUME Init PROVE Base
  OBVIOUS
<1>1. \A r \in Requests : req[r] = Idle /\ req[r].next = "idle"
  BY DEF Init, Idle
<1>2. req \in [Requests -> InFlight \cup {Idle}] /\ user \in [Ids -> Rows \cup {None, Gone}]
  BY DEF Init
<1> QED
  BY <1>1, <1>2 DEF Init, Base, TypeOK, MailsAreRegistered, Doing

LEMMA BaseNext == Base /\ [Next]_vars => Base'
BY ArriveFields, CreateBase, WriteBase, MakeBase, TimerBase, FailBase DEF Next, Step

(* Every variable keeps its type, and what is timed or being cleaned was made
   by register. *)
THEOREM TypeCorrect == Spec => []TypeOK
<1>1. Base => TypeOK
  BY DEF Base
<1> QED
  BY <1>1, BaseInit, BaseNext, PTL DEF Spec

-----------------------------------------------------------------------------
(* What the writes by id do to who is verified. *)
LEMMA WriteVerified ==
    ASSUME Base, NEW r \in Requests,
           SetTimer(r) \/ Verify(r) \/ ReplaceCode(r) \/ OpenChange(r) \/ ChangeAddress(r)
    PROVE  /\ Accounts' = Accounts
           /\ \A i \in Accounts : user[i].verified => user'[i].verified
           /\ \A i \in Accounts : ~user[i].verified /\ user'[i].verified =>
                 Verify(r) /\ i = req[r].id /\ (i \in cleaning => i \in raced')
           /\ raced \subseteq raced'
<1> TypeOK
  BY DEF Base
<1>1. raced \subseteq raced'
  BY DEF SetTimer, Verify, ReplaceCode, OpenChange, ChangeAddress, history
<1>2. CASE user' = user
  BY <1>1, <1>2 DEF Accounts
<1>3. CASE user' # user
  <2>1. CASE Verify(r)
    <3>1. req[r].id \in Accounts
      BY <1>3, <2>1 DEF Verify
    <3>2. PICK i \in Accounts, f \in Rows :
            /\ i = req[r].id /\ user' = [user EXCEPT ![i] = f] /\ f.verified
            /\ raced' = IF i \in cleaning THEN raced \cup {i} ELSE raced
      BY <2>1, <3>1, VerifyFields
    <3>3. user'[i] = f /\ Accounts' = Accounts /\ \A j \in Ids \ {i} : user'[j] = user[j]
      BY <3>2, RowUpdated
    <3> QED
      BY <1>1, <2>1, <3>2, <3>3 DEF Accounts
  <2>2. CASE ~Verify(r)
    <3>1. PICK i \in Accounts, f \in Rows :
            user' = [user EXCEPT ![i] = f] /\ f.verified = user[i].verified
      <4>1. CASE ReplaceCode(r)
        BY <1>3, <4>1, ReplaceFields DEF ReplaceCode
      <4>2. CASE OpenChange(r)
        BY <1>3, <4>2, ChangeFields
      <4>3. CASE ChangeAddress(r)
        BY <1>3, <4>3, ChangeAddressFields
      <4> QED
        BY <1>3, <2>2, <4>1, <4>2, <4>3 DEF SetTimer
    <3>2. user'[i] = f /\ Accounts' = Accounts /\ \A j \in Ids \ {i} : user'[j] = user[j]
      BY <3>1, RowUpdated
    <3> QED
      BY <1>1, <3>1, <3>2 DEF Accounts
  <2> QED
    BY <2>1, <2>2
<1> QED
  BY <1>2, <1>3

LEMMA ExpireVerified ==
    ASSUME Base, NEW i \in Ids, ExpireChange(i)
    PROVE  Accounts' = Accounts /\ \A j \in Accounts : user'[j].verified = user[j].verified
<1> TypeOK
  BY DEF Base
<1>1. CASE user' = user
  BY <1>1 DEF Accounts
<1>2. CASE user' # user
  <2>1. PICK k \in Accounts, f \in Rows :
          user' = [user EXCEPT ![k] = f] /\ f.verified = user[k].verified
    BY <1>2, ChangeFields
  <2>2. user'[k] = f /\ Accounts' = Accounts /\ \A j \in Ids \ {k} : user'[j] = user[j]
    BY <2>1, RowUpdated
  <2> QED
    BY <2>1, <2>2 DEF Accounts
<1> QED
  BY <1>1, <1>2

-----------------------------------------------------------------------------
(* Accounts that are not verified have their clean-up ahead. *)
TimedInv == Base /\ UnverifiedHaveTimers

LEMMA BeingMadeKeeps ==
    ASSUME \A q \in Requests : req'[q] = req[q] \/ req[q].next # "mail"
    PROVE  BeingMade \subseteq BeingMade'
BY DEF BeingMade, Doing

(* A step that verifies nobody less, makes nobody and ends no timer. *)
LEMMA TimedQuiet ==
    ASSUME UnverifiedHaveTimers, registered' = registered, untimed \subseteq untimed',
           \A i \in registered \ untimed' : i \in Accounts' => i \in Accounts,
           \A i \in registered \ untimed' : i \in Accounts' /\ user[i].verified => user'[i].verified,
           \A i \in registered \ untimed' : i \in Accounts' /\ ~user[i].verified
              /\ i \in timers \cup cleaning \cup BeingMade => i \in timers' \cup cleaning' \cup BeingMade'
    PROVE  UnverifiedHaveTimers'
BY DEF UnverifiedHaveTimers

LEMMA TimedInit == Init => TimedInv
<1> SUFFICES ASSUME Init PROVE UnverifiedHaveTimers
  BY BaseInit DEF TimedInv
<1> QED
  BY DEF Init, UnverifiedHaveTimers

LEMMA TimedArrive ==
    ASSUME TimedInv, NEW r \in Requests, Arrive(r)
    PROVE  UnverifiedHaveTimers'
<1> Base /\ TypeOK /\ UnverifiedHaveTimers
  BY DEF TimedInv, Base
<1>1. /\ UNCHANGED <<user, timers, cleaning, registered, untimed>>
      /\ \A p \in Requests \ {r} : req'[p] = req[p]
      /\ req[r].next = "idle"
  BY ArriveFields
<1>2. BeingMade \subseteq BeingMade'
  BY <1>1, BeingMadeKeeps
<1> QED
  BY <1>1, <1>2, TimedQuiet DEF Accounts

LEMMA TimedCreate ==
    ASSUME TimedInv, NEW r \in Requests, CreateUser(r)
    PROVE  UnverifiedHaveTimers'
<1> Base /\ TypeOK /\ UnverifiedHaveTimers
  BY DEF TimedInv, Base
<1>1. req[r].next = "create" /\ UNCHANGED <<timers, cleaning, untimed>>
  BY DEF CreateUser, Doing
<1>2. CASE Free(req[r].email)
  <2>1. PICK i \in Ids, c \in Codes, f \in Rows :
          /\ user[i] = None
          /\ user' = [user EXCEPT ![i] = f]
          /\ registered' = registered \cup {i}
          /\ req'[r].next = "mail" /\ req'[r].id = i
          /\ \A p \in Requests \ {r} : req'[p] = req[p]
    BY <1>2, CreateUserFields
  <2>2. /\ \A j \in Ids \ {i} : user'[j] = user[j]
        /\ Accounts' = Accounts \cup {i}
    BY <2>1, RowMade
  <2>3. BeingMade \subseteq BeingMade' /\ i \in BeingMade'
    <3>1. BeingMade \subseteq BeingMade'
      BY <1>1, <2>1, BeingMadeKeeps
    <3> QED
      BY <2>1, <3>1 DEF BeingMade, Doing
  <2> QED
    BY <1>1, <2>1, <2>2, <2>3 DEF UnverifiedHaveTimers, Accounts
<1>3. CASE ~Free(req[r].email)
  <2>1. UNCHANGED <<user, registered>> /\ req' = Done(r)
    BY <1>3 DEF CreateUser
  <2>2. BeingMade \subseteq BeingMade'
    <3>1. \A p \in Requests \ {r} : req'[p] = req[p]
      BY <2>1 DEF Done, TypeOK
    <3> QED
      BY <1>1, <3>1, BeingMadeKeeps
  <2> QED
    BY <1>1, <2>1, <2>2, TimedQuiet DEF Accounts
<1> QED
  BY <1>2, <1>3

LEMMA TimedWrite ==
    ASSUME TimedInv, NEW r \in Requests,
           SetTimer(r) \/ Verify(r) \/ ReplaceCode(r) \/ OpenChange(r) \/ ChangeAddress(r)
    PROVE  UnverifiedHaveTimers'
<1> Base /\ TypeOK /\ UnverifiedHaveTimers
  BY DEF TimedInv, Base
<1>1. /\ registered' = registered
      /\ \A p \in Requests \ {r} : req'[p] = req[p]
  BY WriteBase
<1>2. Accounts' = Accounts /\ \A i \in Accounts : user[i].verified => user'[i].verified
  BY WriteVerified
<1>3. UNCHANGED <<cleaning, untimed>>
  BY DEF SetTimer, Verify, ReplaceCode, OpenChange, ChangeAddress, history
<1>4. timers \cup BeingMade \subseteq timers' \cup BeingMade'
  <2>1. CASE SetTimer(r)
    <3>1. timers' = timers \cup {req[r].id}
      BY <2>1 DEF SetTimer
    <3>2. BeingMade \subseteq BeingMade' \cup {req[r].id}
      BY <1>1 DEF BeingMade, Doing
    <3> QED
      BY <3>1, <3>2
  <2>2. CASE ~SetTimer(r)
    <3>1. timers' = timers /\ req[r].next # "mail"
      BY <2>2 DEF Verify, ReplaceCode, OpenChange, ChangeAddress, Doing
    <3>2. BeingMade \subseteq BeingMade'
      BY <1>1, <3>1, BeingMadeKeeps
    <3> QED
      BY <3>1, <3>2
  <2> QED
    BY <2>1, <2>2
<1> QED
  BY <1>1, <1>2, <1>3, <1>4, TimedQuiet

LEMMA TimedTimer ==
    ASSUME TimedInv, NEW i \in Ids, TimerFires(i) \/ CleanUp(i) \/ TimerFails(i) \/ ExpireChange(i)
    PROVE  UnverifiedHaveTimers'
<1> Base /\ TypeOK /\ UnverifiedHaveTimers
  BY DEF TimedInv, Base
<1>1. UNCHANGED <<req, registered>> /\ untimed \subseteq untimed'
  BY DEF TimerFires, CleanUp, TimerFails, ExpireChange, history
<1>2. BeingMade' = BeingMade
  BY <1>1 DEF BeingMade, Doing
<1>3. CASE TimerFires(i)
  BY <1>1, <1>2, <1>3, TimedQuiet DEF TimerFires, Accounts
<1>4. CASE CleanUp(i)
  <2>1. user'[i] = Gone /\ \A j \in Ids \ {i} : user'[j] = user[j]
    BY <1>4 DEF CleanUp, TypeOK
  <2>2. i \notin Accounts' /\ \A j \in Accounts' : j \in Accounts /\ j # i /\ user'[j] = user[j]
    BY <2>1 DEF Accounts
  <2> QED
    BY <1>1, <1>2, <1>4, <2>2, TimedQuiet DEF CleanUp, history
<1>5. CASE TimerFails(i)
  BY <1>1, <1>2, <1>5, TimedQuiet DEF TimerFails, Accounts
<1>6. CASE ExpireChange(i)
  <2>1. Accounts' = Accounts /\ \A j \in Accounts : user'[j].verified = user[j].verified
    BY <1>6, ExpireVerified
  <2>2. UNCHANGED <<timers, cleaning>>
    BY <1>6 DEF ExpireChange
  <2> QED
    BY <1>1, <1>2, <2>1, <2>2, TimedQuiet
<1> QED
  BY <1>3, <1>4, <1>5, <1>6

LEMMA TimedMake ==
    ASSUME TimedInv, NEW i \in Ids, CreateByPasskey(i) \/ \E e \in Emails : CreateByGoogle(i, e)
    PROVE  UnverifiedHaveTimers'
<1> Base /\ TypeOK /\ UnverifiedHaveTimers
  BY DEF TimedInv, Base
<1>1. PICK f \in Rows :
        /\ user[i] = None
        /\ user' = [user EXCEPT ![i] = f]
        /\ UNCHANGED <<timers, cleaning, req, registered, untimed>>
  BY MakeFields
<1>2. /\ \A j \in Ids \ {i} : user'[j] = user[j]
      /\ Accounts' = Accounts \cup {i}
      /\ i \notin registered
  BY <1>1, RowMade
<1>3. BeingMade' = BeingMade
  BY <1>1 DEF BeingMade, Doing
<1> QED
  BY <1>1, <1>2, <1>3 DEF UnverifiedHaveTimers, Accounts

LEMMA TimedFail ==
    ASSUME TimedInv, Restart \/ (\E r \in Requests : Abort(r)) \/ UNCHANGED vars
    PROVE  UnverifiedHaveTimers'
<1> Base /\ TypeOK /\ UnverifiedHaveTimers
  BY DEF TimedInv, Base
<1>1. user' = user /\ registered' = registered
  BY FailBase
<1>2. CASE Restart
  BY <1>1, <1>2 DEF Restart, UnverifiedHaveTimers, Accounts
<1>3. ASSUME NEW r \in Requests, Abort(r) PROVE UnverifiedHaveTimers'
  <2>1. untimed' = untimed \cup MadeBy(r) /\ UNCHANGED <<timers, cleaning>>
    BY <1>3 DEF Abort
  <2>2. \A p \in Requests \ {r} : req'[p] = req[p]
    BY <1>3 DEF Abort, Done, TypeOK
  <2>3. BeingMade \subseteq BeingMade' \cup MadeBy(r)
    BY <2>2 DEF BeingMade, MadeBy, Doing
  <2> QED
    BY <1>1, <2>1, <2>3, TimedQuiet DEF Accounts
<1>4. CASE UNCHANGED vars
  BY <1>4 DEF UnverifiedHaveTimers, Accounts, BeingMade, Doing, vars, history
<1> QED
  BY <1>2, <1>3, <1>4

LEMMA TimedNext == TimedInv /\ [Next]_vars => TimedInv'
<1> SUFFICES ASSUME TimedInv, [Next]_vars PROVE UnverifiedHaveTimers'
  BY BaseNext DEF TimedInv
<1> QED
  BY TimedArrive, TimedCreate, TimedWrite, TimedTimer, TimedMake, TimedFail DEF Next, Step

(* An account made by register and not verified has its clean-up ahead, at
   every moment, unless that was lost with the process or with a failure. *)
THEOREM CleanUpIsAhead == Spec => []UnverifiedHaveTimers
<1>1. TimedInv => UnverifiedHaveTimers
  BY DEF TimedInv
<1> QED
  BY <1>1, TimedInit, TimedNext, PTL DEF Spec

-----------------------------------------------------------------------------
(* Verified accounts stay: who is verified while a clean-up is under way was
   verified between its read and its delete. *)
RacedInv ==
    /\ Base
    /\ \A i \in cleaning : i \in Accounts /\ user[i].verified => i \in raced

LEMMA RacedInit == Init => RacedInv
<1> SUFFICES ASSUME Init PROVE RacedInv
  OBVIOUS
<1> QED
  BY BaseInit DEF Init, RacedInv

LEMMA RacedNext == RacedInv /\ [Next]_vars => RacedInv'
<1> SUFFICES ASSUME RacedInv, [Next]_vars
             PROVE  \A i \in cleaning' : i \in Accounts' /\ user'[i].verified => i \in raced'
  BY BaseNext DEF RacedInv
<1> Base /\ TypeOK
  BY DEF RacedInv, Base
<1>1. ASSUME UNCHANGED <<user, cleaning, raced>>
      PROVE  \A i \in cleaning' : i \in Accounts' /\ user'[i].verified => i \in raced'
  BY <1>1 DEF RacedInv, Accounts
<1>2. ASSUME NEW r \in Requests, CreateUser(r), Free(req[r].email)
      PROVE  \A i \in cleaning' : i \in Accounts' /\ user'[i].verified => i \in raced'
  <2>1. PICK k \in Ids, c \in Codes, f \in Rows :
          user[k] = None /\ user' = [user EXCEPT ![k] = f]
    BY <1>2, CreateUserFields
  <2>2. /\ \A j \in Ids \ {k} : user'[j] = user[j]
        /\ Accounts' = Accounts \cup {k} /\ k \notin registered
    BY <2>1, RowMade
  <2>3. UNCHANGED <<cleaning, raced>> /\ k \notin cleaning
    BY <1>2, <2>2 DEF CreateUser, TypeOK
  <2> QED
    BY <2>2, <2>3 DEF RacedInv, Accounts
<1>3. ASSUME NEW r \in Requests,
             SetTimer(r) \/ Verify(r) \/ ReplaceCode(r) \/ OpenChange(r) \/ ChangeAddress(r)
      PROVE  \A i \in cleaning' : i \in Accounts' /\ user'[i].verified => i \in raced'
  <2>1. cleaning' = cleaning
    BY <1>3 DEF SetTimer, Verify, ReplaceCode, OpenChange, ChangeAddress, history
  <2> QED
    BY <1>3, <2>1, WriteVerified DEF RacedInv
<1>4. ASSUME NEW k \in Ids, CreateByPasskey(k) \/ \E e \in Emails : CreateByGoogle(k, e)
      PROVE  \A i \in cleaning' : i \in Accounts' /\ user'[i].verified => i \in raced'
  <2>1. PICK f \in Rows :
          /\ user[k] = None /\ user' = [user EXCEPT ![k] = f]
          /\ UNCHANGED <<cleaning, raced>>
    BY <1>4, MakeFields
  <2>2. /\ \A j \in Ids \ {k} : user'[j] = user[j]
        /\ Accounts' = Accounts \cup {k} /\ k \notin registered
    BY <2>1, RowMade
  <2> QED
    BY <2>1, <2>2 DEF RacedInv, Accounts, TypeOK
<1>5. ASSUME NEW k \in Ids, TimerFires(k) \/ CleanUp(k) \/ TimerFails(k) \/ ExpireChange(k)
      PROVE  \A i \in cleaning' : i \in Accounts' /\ user'[i].verified => i \in raced'
  <2>1. raced' = raced
    BY <1>5 DEF TimerFires, CleanUp, TimerFails, ExpireChange, history
  <2>2. CASE TimerFires(k)
    BY <2>1, <2>2 DEF TimerFires, RacedInv, Accounts
  <2>3. CASE CleanUp(k)
    <3>1. \A j \in Ids \ {k} : user'[j] = user[j]
      BY <2>3 DEF CleanUp, TypeOK
    <3>2. cleaning' = cleaning \ {k}
      BY <2>3 DEF CleanUp
    <3> QED
      BY <2>1, <3>1, <3>2 DEF RacedInv, Accounts
  <2>4. CASE TimerFails(k)
    BY <2>1, <2>4 DEF TimerFails, RacedInv, Accounts
  <2>5. CASE ExpireChange(k)
    BY <2>1, <2>5, ExpireVerified DEF ExpireChange, RacedInv
  <2> QED
    BY <1>5, <2>2, <2>3, <2>4, <2>5
<1>6. CASE Restart
  BY <1>6 DEF Restart
<1>7. ASSUME NEW r \in Requests, Arrive(r)
      PROVE  UNCHANGED <<user, cleaning, raced>>
  BY <1>7, ArriveFields
<1>8. ASSUME NEW r \in Requests, CreateUser(r), ~Free(req[r].email)
      PROVE  UNCHANGED <<user, cleaning, raced>>
  BY <1>8 DEF CreateUser
<1>9. ASSUME (\E r \in Requests : Abort(r)) \/ UNCHANGED vars
      PROVE  UNCHANGED <<user, cleaning, raced>>
  BY <1>9 DEF Abort, vars, history
<1> QED
  BY <1>1, <1>2, <1>3, <1>4, <1>5, <1>6, <1>7, <1>8, <1>9 DEF Next, Step

(* The step that removes an account. *)
LEMMA RemovalIsRaced ==
    ASSUME RacedInv, [Next]_vars, NEW i \in Accounts, user[i].verified, user'[i] = Gone
    PROVE  i \in raced
<1> Base /\ TypeOK
  BY DEF RacedInv, Base
<1>1. i \in Ids /\ user[i] # Gone /\ user[i] # None
  BY DEF Accounts
<1>2. ASSUME NEW k \in Ids, CleanUp(k) PROVE i \in raced
  <2>1. k = i
    BY <1>1, <1>2 DEF CleanUp, TypeOK
  <2> QED
    BY <1>2, <2>1 DEF CleanUp, RacedInv
<1>3. ASSUME NEW k \in Ids, NEW f \in Rows, user' = [user EXCEPT ![k] = f] PROVE FALSE
  <2>1. f # Gone
    BY AccountsAssumption
  <2> QED
    BY <1>1, <1>3, <2>1 DEF TypeOK
<1>4. ASSUME user' = user PROVE FALSE
  BY <1>1, <1>4
<1>5. ASSUME NEW r \in Requests, Step(r) PROVE FALSE
  <2>1. CASE CreateUser(r)
    <3>1. CASE Free(req[r].email)
      <4>1. \E k \in Ids, f \in Rows : user' = [user EXCEPT ![k] = f]
        BY <2>1, <3>1, CreateUserFields
      <4> QED
        BY <1>3, <4>1
    <3>2. CASE ~Free(req[r].email)
      BY <1>4, <2>1, <3>2 DEF CreateUser
    <3> QED
      BY <3>1, <3>2
  <2>2. CASE SetTimer(r) \/ Verify(r) \/ ReplaceCode(r) \/ OpenChange(r) \/ ChangeAddress(r)
    <3>1. Accounts' = Accounts
      BY <2>2, WriteVerified
    <3> QED
      BY <3>1 DEF Accounts
  <2> QED
    BY <1>5, <2>1, <2>2 DEF Step
<1>6. ASSUME NEW k \in Ids, ExpireChange(k) PROVE FALSE
  BY <1>6, ExpireVerified DEF Accounts
<1>7. ASSUME NEW k \in Ids, CreateByPasskey(k) \/ \E e \in Emails : CreateByGoogle(k, e) PROVE FALSE
  BY <1>3, <1>7, MakeFields
<1> QED
  BY <1>2, <1>4, <1>5, <1>6, <1>7, ArriveFields, FailBase DEF Next, TimerFires, TimerFails

(* No account is removed once it is verified, but one that was verified
   between the read of its timer and the delete. *)
THEOREM NoVerifiedAccountIsRemoved == Spec => VerifiedStay
<1>1. RacedInv /\ [Next]_vars =>
        [\A i \in Accounts : user[i].verified /\ user'[i] = Gone => i \in raced]_vars
  BY RemovalIsRaced
<1> QED
  BY <1>1, RacedInit, RacedNext, PTL DEF Spec, VerifiedStay

-----------------------------------------------------------------------------
(* Addresses are proven.  The invariant says, of every account whose address
   is unambiguous: the address is proven, or the account is still the
   unverified one that register made, and its code was drawn for it.  Of a
   request it says what its write relies on. *)
AccountProven(i) ==
    user[i].email \in Emails \ Ambiguous =>
        \/ <<i, user[i].email>> \in proven
        \/ /\ i \in registered /\ ~user[i].verified
           /\ user[i].code # None => <<user[i].code, user[i].email>> \in drawn

RequestProven(r) ==
    LET i == req[r].id
        e == user[i].email
    IN  /\ Doing(r, "verify") =>
              /\ <<req[r].code, req[r].email>> \in drawn
              /\ i \in Accounts /\ e \in Emails \ Ambiguous =>
                    <<i, e>> \in proven \/ <<req[r].code, e>> \in drawn
        /\ Doing(r, "resend") /\ i \in Accounts =>
              e = req[r].email \/ <<i, e>> \in proven
        /\ Doing(r, "confirm") => <<i, req[r].email>> \in proven

AllProven ==
    /\ \A i \in Accounts : AccountProven(i)
    /\ \A r \in Requests : RequestProven(r)

ProvenInv == Base /\ AllProven

LEMMA ProvenImplies == ProvenInv => AddressesAreProven
BY DEF ProvenInv, AllProven, AccountProven, AddressesAreProven

(* What is drawn and proven stays so, and the ambiguous addresses grow. *)
Grown == drawn \subseteq drawn' /\ proven \subseteq proven' /\ registered \subseteq registered'

LEMMA AmbiguousGrows ==
    ASSUME Grown
    PROVE  Ambiguous \subseteq Ambiguous'
BY DEF Grown, Ambiguous

LEMMA DrawnOnce ==
    ASSUME NEW c \in Codes, NEW e \in Emails \ Ambiguous, NEW f \in Emails,
           <<c, e>> \in drawn, <<c, f>> \in drawn
    PROVE  e = f
BY DEF Ambiguous

LEMMA AccountKept ==
    ASSUME Grown, NEW i, AccountProven(i), user'[i] = user[i]
    PROVE  AccountProven(i)'
BY AmbiguousGrows DEF AccountProven, Grown

(* A request keeps what it relies on when its account does, or has got an
   address that is proven. *)
LEMMA RequestKept ==
    ASSUME Grown, NEW r \in Requests, RequestProven(r), req'[r] = req[r],
           req[r].id \in Accounts' => req[r].id \in Accounts,
           req[r].id \in Accounts' =>
              \/ user'[req[r].id].email = user[req[r].id].email
              \/ <<req[r].id, user'[req[r].id].email>> \in proven'
    PROVE  RequestProven(r)'
BY AmbiguousGrows DEF RequestProven, Grown, Doing

LEMMA IdleProven ==
    ASSUME NEW r \in Requests, req'[r].next \notin {"verify", "resend", "confirm"}
    PROVE  RequestProven(r)'
BY DEF RequestProven, Doing

LEMMA ProvenInit == Init => ProvenInv
<1> SUFFICES ASSUME Init PROVE AllProven
  BY BaseInit DEF ProvenInv
<1>1. Accounts = {}
  BY DEF Init, Accounts
<1>2. \A r \in Requests : req[r].next = "idle"
  BY DEF Init, Idle
<1> QED
  BY <1>1, <1>2 DEF AllProven, RequestProven, Doing

(* Steps that change no account. *)
LEMMA ProvenSameUsers ==
    ASSUME ProvenInv, Grown, user' = user,
           \A q \in Requests : req'[q] = req[q] \/ RequestProven(q)'
    PROVE  AllProven'
<1> AllProven
  BY DEF ProvenInv
<1>1. Accounts' = Accounts
  BY DEF Accounts
<1>2. \A i \in Accounts' : AccountProven(i)'
  BY <1>1, AccountKept DEF AllProven
<1>3. \A q \in Requests : RequestProven(q)'
  BY <1>1, RequestKept DEF AllProven
<1> QED
  BY <1>2, <1>3 DEF AllProven

LEMMA ProvenArrive ==
    ASSUME ProvenInv, NEW r \in Requests, Arrive(r)
    PROVE  AllProven'
<1> Base /\ TypeOK /\ AllProven /\ SetsOK
  BY BaseFromParts DEF ProvenInv, Base
<1>1. /\ UNCHANGED <<user, drawn, registered>>
      /\ \A p \in Requests \ {r} : req'[p] = req[p]
      /\ proven \subseteq proven'
  BY ArriveFields
<1>2. UsersKept
  BY <1>1 DEF UsersKept, TypeOK
<1>3. Grown
  BY <1>1 DEF Grown
<1>4. Accounts' = Accounts /\ Ambiguous' = Ambiguous
  BY <1>1 DEF Accounts, Ambiguous
<1>5. RequestProven(r)'
  <2>1. ASSUME NEW e \in Emails, Register(r, e) PROVE RequestProven(r)'
    <3>1. req'[r].next = "create"
      BY <1>2, <2>1, BeginStay DEF Register
    <3> QED
      BY <3>1, IdleProven
  <2>2. ASSUME NEW i \in Ids, NEW e \in Emails, RequestChange(r, i, e) PROVE RequestProven(r)'
    <3>1. req'[r].next = "change"
      BY <1>2, <2>2, BeginStay DEF RequestChange
    <3> QED
      BY <3>1, IdleProven
  <2>3. ASSUME NEW e \in Emails, Resend(r, e) PROVE RequestProven(r)'
    <3>1. PICK i \in Accounts, c \in Codes : user[i].email = e /\ Begin(r, "resend", i, e, c)
      BY <2>3 DEF Resend
    <3>2. i \in Ids \cup {None}
      BY DEF Accounts
    <3>3. req'[r].next = "resend" /\ req'[r].id = i /\ req'[r].email = e
      BY <1>2, <3>1, <3>2, BeginStay
    <3> QED
      BY <1>1, <3>1, <3>3 DEF RequestProven, Doing
  <2>4. ASSUME NEW i \in Ids, NEW e \in Emails, NEW c \in Codes, FindByCode(r, i, c, e)
        PROVE  RequestProven(r)'
    <3>1. /\ <<c, e>> \in drawn /\ i \in Accounts /\ user[i].code = c
          /\ Begin(r, "verify", i, e, c)
      BY <2>4 DEF FindByCode
    <3>2. req'[r].next = "verify" /\ req'[r].id = i /\ req'[r].email = e /\ req'[r].code = c
      BY <1>2, <3>1, BeginStay
    <3>3. c # None
      BY AccountsAssumption
    <3>4. user[i].email \in Emails \ Ambiguous =>
            <<i, user[i].email>> \in proven \/ <<c, user[i].email>> \in drawn
      BY <3>1, <3>3 DEF AllProven, AccountProven
    <3> QED
      BY <1>1, <1>4, <3>1, <3>2, <3>4 DEF RequestProven, Doing
  <2>5. ASSUME NEW i \in Ids, NEW e \in Emails, NEW o \in Emails, ConfirmChange(r, i, o, e)
        PROVE  RequestProven(r)'
    <3>1. i \in Accounts /\ Begin(r, "confirm", i, e, None) /\ <<i, e>> \in proven'
      BY <2>5 DEF ConfirmChange
    <3>2. req'[r].next = "confirm" /\ req'[r].id = i /\ req'[r].email = e
      BY <1>2, <3>1, BeginStay
    <3> QED
      BY <3>1, <3>2 DEF RequestProven, Doing
  <2> QED
    BY <2>1, <2>2, <2>3, <2>4, <2>5 DEF Arrive
<1> QED
  BY <1>1, <1>3, <1>5, ProvenSameUsers

LEMMA ProvenCreate ==
    ASSUME ProvenInv, NEW r \in Requests, CreateUser(r)
    PROVE  AllProven'
<1> Base /\ TypeOK /\ AllProven
  BY DEF ProvenInv, Base
<1>1. CASE Free(req[r].email)
  <2>1. PICK k \in Ids, c \in Codes, f \in Rows :
          /\ user[k] = None
          /\ f.email = req[r].email /\ ~f.verified /\ f.code = c
          /\ user' = [user EXCEPT ![k] = f]
          /\ registered' = registered \cup {k}
          /\ drawn' = drawn \cup {<<c, req[r].email>>}
          /\ req'[r].next = "mail"
          /\ \A p \in Requests \ {r} : req'[p] = req[p]
    BY <1>1, CreateUserFields
  <2>2. /\ user'[k] = f
        /\ \A j \in Ids \ {k} : user'[j] = user[j]
        /\ Accounts' = Accounts \cup {k}
    BY <2>1, RowMade
  <2>3. Grown
    BY <2>1 DEF CreateUser, Grown
  <2>4. AccountProven(k)'
    BY <2>1, <2>2 DEF AccountProven
  <2>5. \A i \in Accounts' : AccountProven(i)'
    BY <2>2, <2>3, <2>4, AccountKept DEF AllProven, Accounts
  <2>6. ASSUME NEW p \in Requests, p # r PROVE RequestProven(p)'
    <3>1. CASE req[p].next \in {"verify", "resend", "confirm"}
      <4>1. req[p].id # k /\ req[p].id \in Ids
        BY <2>1, <3>1 DEF TypeOK
      <4>2. user'[req[p].id] = user[req[p].id] /\ (req[p].id \in Accounts' => req[p].id \in Accounts)
        BY <2>2, <4>1
      <4> QED
        BY <2>1, <2>3, <2>6, <4>2, RequestKept DEF AllProven
    <3>2. CASE req[p].next \notin {"verify", "resend", "confirm"}
      BY <2>1, <2>6, <3>2, IdleProven
    <3> QED
      BY <3>1, <3>2
  <2>7. RequestProven(r)'
    BY <2>1, IdleProven
  <2> QED
    BY <2>5, <2>6, <2>7 DEF AllProven
<1>2. CASE ~Free(req[r].email)
  <2>1. UNCHANGED <<user, drawn, proven, registered>> /\ req' = Done(r)
    BY <1>2 DEF CreateUser
  <2>2. Grown
    BY <2>1 DEF Grown
  <2>3. /\ req'[r].next = "idle"
        /\ \A p \in Requests \ {r} : req'[p] = req[p]
    BY <2>1 DEF Done, Idle, TypeOK
  <2>4. RequestProven(r)'
    BY <2>3, IdleProven
  <2> QED
    BY <2>1, <2>2, <2>3, <2>4, ProvenSameUsers
<1> QED
  BY <1>1, <1>2

(* An account is written and nobody else's is: what there is to show is of
   that account, and that its address is the same or proven. *)
LEMMA ProvenOneUser ==
    ASSUME ProvenInv, Grown, NEW k \in Accounts, NEW f \in Rows,
           user' = [user EXCEPT ![k] = f],
           f.email = user[k].email \/ <<k, f.email>> \in proven',
           AccountProven(k)',
           \A q \in Requests : req'[q] = req[q] \/ req'[q].next = "idle"
    PROVE  AllProven'
<1> Base /\ TypeOK /\ AllProven
  BY DEF ProvenInv, Base
<1>1. user'[k] = f /\ Accounts' = Accounts /\ \A j \in Ids \ {k} : user'[j] = user[j]
  BY RowUpdated
<1>2. \A i \in Accounts' : AccountProven(i)'
  BY <1>1, AccountKept DEF AllProven, Accounts
<1>3. ASSUME NEW q \in Requests PROVE RequestProven(q)'
  <2>1. CASE req'[q].next = "idle"
    BY <2>1, IdleProven
  <2>2. CASE req'[q] = req[q]
    <3>1. req[q].id \in Accounts' =>
              \/ user'[req[q].id].email = user[req[q].id].email
              \/ <<req[q].id, user'[req[q].id].email>> \in proven'
      BY <1>1 DEF Accounts
    <3> QED
      BY <1>1, <2>2, <3>1, RequestKept DEF AllProven
  <2> QED
    BY <2>1, <2>2
<1> QED
  BY <1>2, <1>3 DEF AllProven

LEMMA ProvenWrite ==
    ASSUME ProvenInv, NEW r \in Requests,
           SetTimer(r) \/ Verify(r) \/ ReplaceCode(r) \/ OpenChange(r) \/ ChangeAddress(r)
    PROVE  AllProven'
<1> Base /\ TypeOK /\ AllProven /\ RequestProven(r)
  BY DEF ProvenInv, Base, AllProven
<1>1. /\ req'[r].next = "idle"
      /\ \A p \in Requests \ {r} : req'[p] = req[p]
      /\ registered' = registered
  BY WriteBase
<1>2. Grown
  BY <1>1 DEF Grown, SetTimer, Verify, ReplaceCode, OpenChange, ChangeAddress, history
<1>3. CASE user' = user
  <2>1. RequestProven(r)'
    BY <1>1, IdleProven
  <2> QED
    BY <1>1, <1>2, <1>3, <2>1, ProvenSameUsers
<1>4. CASE user' # user
  <2>1. CASE Verify(r)
    <3>1. req[r].id \in Accounts /\ Doing(r, "verify")
      BY <1>4, <2>1 DEF Verify
    <3>2. PICK k \in Accounts, f \in Rows :
            /\ k = req[r].id
            /\ user' = [user EXCEPT ![k] = f]
            /\ f.email = user[k].email /\ f.verified /\ f.code = None
            /\ proven' = proven \cup {<<k, req[r].email>>}
      BY <2>1, <3>1, VerifyFields
    <3>3. user'[k] = f
      BY <3>2, RowUpdated
    <3>4. /\ <<req[r].code, req[r].email>> \in drawn
          /\ user[k].email \in Emails \ Ambiguous =>
                <<k, user[k].email>> \in proven \/ <<req[r].code, user[k].email>> \in drawn
      BY <3>1, <3>2 DEF RequestProven
    <3>5. req[r].code \in Codes /\ req[r].email \in Emails
      BY <3>1, <3>4 DEF TypeOK
    <3>6. user[k].email \in Emails \ Ambiguous => <<k, user[k].email>> \in proven'
      BY <3>2, <3>4, <3>5, DrawnOnce
    <3>7. AccountProven(k)'
      BY <1>2, <3>2, <3>3, <3>6, AmbiguousGrows DEF AccountProven
    <3> QED
      BY <1>1, <1>2, <3>2, <3>7, ProvenOneUser
  <2>2. CASE ReplaceCode(r)
    <3>1. req[r].id \in Accounts /\ Doing(r, "resend")
      BY <1>4, <2>2 DEF ReplaceCode
    <3>2. PICK k \in Accounts, f \in Rows :
            /\ k = req[r].id
            /\ user' = [user EXCEPT ![k] = f]
            /\ f.email = user[k].email /\ f.verified = user[k].verified
            /\ f.code = req[r].code
            /\ drawn' = drawn \cup {<<req[r].code, req[r].email>>}
      BY <2>2, <3>1, ReplaceFields
    <3>3. user'[k] = f
      BY <3>2, RowUpdated
    <3>4. user[k].email = req[r].email \/ <<k, user[k].email>> \in proven
      BY <3>1, <3>2 DEF RequestProven
    <3>5. AccountProven(k)
      BY DEF AllProven
    <3>6. AccountProven(k)'
      BY <1>1, <1>2, <3>2, <3>3, <3>4, <3>5, AmbiguousGrows DEF AccountProven, Grown
    <3> QED
      BY <1>1, <1>2, <3>2, <3>6, ProvenOneUser
  <2>3. CASE OpenChange(r)
    <3>1. PICK k \in Accounts, f \in Rows :
            /\ user' = [user EXCEPT ![k] = f]
            /\ f.email = user[k].email /\ f.verified = user[k].verified /\ f.code = user[k].code
      BY <1>4, <2>3, ChangeFields
    <3>2. user'[k] = f
      BY <3>1, RowUpdated
    <3>3. AccountProven(k)'
      BY <1>2, <3>1, <3>2, AmbiguousGrows DEF AllProven, AccountProven, Grown
    <3> QED
      BY <1>1, <1>2, <3>1, <3>3, ProvenOneUser
  <2>4. CASE ChangeAddress(r)
    <3>1. PICK k \in Accounts, f \in Rows :
            /\ k = req[r].id
            /\ user' = [user EXCEPT ![k] = f]
            /\ f.email = req[r].email
      BY <1>4, <2>4, ChangeAddressFields
    <3>2. user'[k] = f
      BY <3>1, RowUpdated
    <3>3. <<k, f.email>> \in proven'
      BY <1>2, <2>4, <3>1 DEF ChangeAddress, RequestProven, Grown
    <3>4. AccountProven(k)'
      BY <3>2, <3>3 DEF AccountProven
    <3> QED
      BY <1>1, <1>2, <3>1, <3>3, <3>4, ProvenOneUser
  <2> QED
    BY <1>4, <2>1, <2>2, <2>3, <2>4 DEF SetTimer
<1> QED
  BY <1>3, <1>4

LEMMA ProvenMake ==
    ASSUME ProvenInv, NEW k \in Ids, CreateByPasskey(k) \/ \E e \in Emails : CreateByGoogle(k, e)
    PROVE  AllProven'
<1> Base /\ TypeOK /\ AllProven
  BY DEF ProvenInv, Base
<1>1. PICK f \in Rows :
        /\ user[k] = None
        /\ user' = [user EXCEPT ![k] = f]
        /\ f.email \in Emails => proven' = proven \cup {<<k, f.email>>}
        /\ f.email \notin Emails => proven' = proven
        /\ UNCHANGED <<req, drawn, registered>>
  BY MakeFields
<1>2. /\ user'[k] = f
      /\ \A j \in Ids \ {k} : user'[j] = user[j]
      /\ Accounts' = Accounts \cup {k}
  BY <1>1, RowMade
<1>3. Grown
  BY <1>1 DEF Grown
<1>4. AccountProven(k)'
  BY <1>1, <1>2 DEF AccountProven
<1>5. \A i \in Accounts' : AccountProven(i)'
  BY <1>2, <1>3, <1>4, AccountKept DEF AllProven, Accounts
<1>6. ASSUME NEW p \in Requests PROVE RequestProven(p)'
  <2>1. CASE req[p].next \in {"verify", "resend", "confirm"}
    <3>1. req[p].id # k /\ req[p].id \in Ids
      BY <1>1, <2>1 DEF TypeOK
    <3>2. user'[req[p].id] = user[req[p].id] /\ (req[p].id \in Accounts' => req[p].id \in Accounts)
      BY <1>2, <3>1
    <3> QED
      BY <1>1, <1>3, <3>2, RequestKept DEF AllProven
  <2>2. CASE req[p].next \notin {"verify", "resend", "confirm"}
    BY <1>1, <2>2, IdleProven
  <2> QED
    BY <2>1, <2>2
<1> QED
  BY <1>5, <1>6 DEF AllProven

LEMMA ProvenTimer ==
    ASSUME ProvenInv, NEW k \in Ids, TimerFires(k) \/ CleanUp(k) \/ TimerFails(k) \/ ExpireChange(k)
    PROVE  AllProven'
<1> Base /\ TypeOK /\ AllProven
  BY DEF ProvenInv, Base
<1>1. UNCHANGED <<req, drawn, proven, registered>>
  BY DEF TimerFires, CleanUp, TimerFails, ExpireChange, history
<1>2. Grown
  BY <1>1 DEF Grown
<1>3. CASE user' = user
  BY <1>1, <1>2, <1>3, ProvenSameUsers
<1>4. CASE CleanUp(k)
  <2>1. user'[k] = Gone /\ \A j \in Ids \ {k} : user'[j] = user[j]
    BY <1>4 DEF CleanUp, TypeOK
  <2>2. \A j \in Accounts' : j \in Accounts /\ user'[j] = user[j]
    BY <2>1 DEF Accounts
  <2>3. \A i \in Accounts' : AccountProven(i)'
    BY <1>2, <2>2, AccountKept DEF AllProven
  <2>4. \A p \in Requests : RequestProven(p)'
    BY <1>1, <1>2, <2>2, RequestKept DEF AllProven
  <2> QED
    BY <2>3, <2>4 DEF AllProven
<1>5. CASE user' # user /\ ExpireChange(k)
  <2>1. PICK i \in Accounts, f \in Rows :
          /\ user' = [user EXCEPT ![i] = f]
          /\ f.email = user[i].email /\ f.verified = user[i].verified /\ f.code = user[i].code
    BY <1>5, ChangeFields
  <2>2. user'[i] = f
    BY <2>1, RowUpdated
  <2>3. AccountProven(i)'
    BY <1>2, <2>1, <2>2, AmbiguousGrows DEF AllProven, AccountProven, Grown
  <2> QED
    BY <1>1, <1>2, <2>1, <2>3, ProvenOneUser
<1> QED
  BY <1>3, <1>4, <1>5 DEF TimerFires, TimerFails

LEMMA ProvenFail ==
    ASSUME ProvenInv, Restart \/ (\E r \in Requests : Abort(r)) \/ UNCHANGED vars
    PROVE  AllProven'
<1> Base /\ TypeOK
  BY DEF ProvenInv, Base
<1>1. user' = user /\ UNCHANGED <<drawn, proven, registered>>
  BY FailBase
<1>2. Grown
  BY <1>1 DEF Grown
<1>3. ASSUME NEW q \in Requests PROVE req'[q] = req[q] \/ req'[q].next = "idle"
  <2>1. CASE \E r \in Requests : Abort(r)
    BY <2>1 DEF Abort, Done, Idle, TypeOK
  <2>2. CASE Restart
    BY <2>2 DEF Restart, Idle
  <2>3. CASE UNCHANGED vars
    BY <2>3 DEF vars
  <2> QED
    BY <2>1, <2>2, <2>3
<1>4. \A q \in Requests : req'[q] = req[q] \/ RequestProven(q)'
  BY <1>3, IdleProven
<1> QED
  BY <1>1, <1>2, <1>4, ProvenSameUsers

LEMMA ProvenNext == ProvenInv /\ [Next]_vars => ProvenInv'
<1> SUFFICES ASSUME ProvenInv, [Next]_vars PROVE AllProven'
  BY BaseNext DEF ProvenInv
<1> QED
  BY ProvenArrive, ProvenCreate, ProvenWrite, ProvenMake, ProvenTimer, ProvenFail DEF Next, Step

(* Who has verified an account, or changed its address, had a code that was
   mailed to the address the account has now, unless two addresses got the
   same code. *)
THEOREM EachAddressIsProven == Spec => []AddressesAreProven
BY ProvenImplies, ProvenInit, ProvenNext, PTL DEF Spec
====
