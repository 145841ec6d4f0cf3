---- MODULE StoredCodesProofs ----
(***************************************************************************)
(* Theorems about StoredCodes, for every set of users, rows and requests,  *)
(* every size of a set of codes and every limit; and about OtpStore, for   *)
(* any keys, codes and times to live.                                      *)
(***************************************************************************)
EXTENDS StoredCodes, OtpStore, FiniteSetTheorems, TLAPS

(* What a change of state does to the rows it is about, and to the others. *)
LEMMA SetStateOK ==
    ASSUME TypeOK, NEW s \in States, NEW S \in SUBSET Rows, \A i \in S : row[i] # NoRow
    PROVE  /\ SetState(S, s) \in [Rows -> AllRows \cup {NoRow}]
           /\ \A i \in S : /\ SetState(S, s)[i] # NoRow
                           /\ SetState(S, s)[i].user = row[i].user
                           /\ SetState(S, s)[i].kind = row[i].kind
                           /\ SetState(S, s)[i].state = s
           /\ \A i \in Rows \ S : SetState(S, s)[i] = row[i]
<1>1. \A i \in S : row[i] \in AllRows
  BY DEF TypeOK
<1>2. ASSUME NEW i \in S
      PROVE  /\ Row(row[i].user, row[i].kind, s) \in AllRows
             /\ Row(row[i].user, row[i].kind, s).user = row[i].user
             /\ Row(row[i].user, row[i].kind, s).kind = row[i].kind
             /\ Row(row[i].user, row[i].kind, s).state = s
  BY <1>1 DEF Row, AllRows
<1>3. \A i \in S : SetState(S, s)[i] = Row(row[i].user, row[i].kind, s)
  BY DEF SetState
<1>4. \A i \in Rows \ S : SetState(S, s)[i] = row[i]
  BY DEF SetState
<1>5. NoRow \notin AllRows
  BY StoredCodesAssumption
<1>6. SetState(S, s) \in [Rows -> AllRows \cup {NoRow}]
  <2>1. \A i \in Rows : SetState(S, s)[i] \in AllRows \cup {NoRow}
    BY <1>2, <1>3, <1>4 DEF TypeOK
  <2> QED
    BY <2>1 DEF SetState
<1> QED
  BY <1>2, <1>3, <1>4, <1>5, <1>6

(* A request at a statement is in flight, for a user. *)
LEMMA RequestFields ==
    ASSUME TypeOK, NEW r \in Requests, NEW w \in {"insert", "limit", "issue", "mark"}, Doing(r, w)
    PROVE  /\ req[r] \in InFlight
           /\ req[r] # Idle
           /\ req[r].user \in Users
           /\ w = "issue" => req[r].row \in Rows
           /\ w = "mark" => req[r].row \in Rows /\ row[req[r].row] # NoRow
           /\ w = "limit" => req[r].to \in Addresses
<1>1. req[r].next # "idle"
  BY DEF Doing
<1>2. req[r] # Idle
  BY <1>1 DEF Idle
<1>3. req[r] \in InFlight
  BY <1>2 DEF TypeOK
<1>4. req[r].user \in Users
  BY <1>3 DEF InFlight, LimitRequest
<1>5. w = "limit" => req[r].to \in Addresses
  BY <1>3 DEF Doing, InFlight, LimitRequest
<1> QED
  BY <1>2, <1>3, <1>4, <1>5 DEF TypeOK

(* What a new request holds. *)
LEMMA BeginFields ==
    ASSUME TypeOK, NEW r \in Requests, NEW w \in {"insert", "issue", "mark"},
           NEW u \in Users, NEW i \in Rows \cup {NoRow}, Begin(r, w, u, i)
    PROVE  /\ req' \in [Requests -> InFlight \cup {Idle}]
           /\ req'[r].next = w /\ req'[r].user = u /\ req'[r].row = i
           /\ \A q \in Requests \ {r} : req'[q] = req[q]
           /\ req[r] = Idle /\ req[r].next = "idle" /\ req[r].row = NoRow
<1> DEFINE q == [next |-> w, user |-> u, row |-> i]
<1>1. q \in InFlight /\ q.next = w /\ q.user = u /\ q.row = i
  BY DEF InFlight
<1>2. req' = [req EXCEPT ![r] = q] /\ req[r] = Idle
  BY DEF Begin
<1>3. req[r].next = "idle" /\ req[r].row = NoRow
  BY <1>2 DEF Idle
<1> HIDE DEF q
<1> QED
  BY <1>1, <1>2, <1>3 DEF TypeOK

LEMMA DoneFields ==
    ASSUME TypeOK, NEW r \in Requests, req' = Done(r)
    PROVE  /\ req' \in [Requests -> InFlight \cup {Idle}]
           /\ req'[r].next = "idle" /\ req'[r].row = NoRow
           /\ \A q \in Requests \ {r} : req'[q] = req[q]
BY DEF Done, Idle, TypeOK

-----------------------------------------------------------------------------
(* No id is given twice: a row that a reset request is to insert does not
   exist, and no other request is to insert it.  Why a row keeps its user and
   its kind. *)
IdsAreGivenOnce ==
    \A r \in Requests : Doing(r, "issue") =>
        /\ row[req[r].row] = NoRow
        /\ \A q \in Requests \ {r} : Doing(q, "issue") => req[q].row # req[r].row

(* What every step does to the rows. *)
RowsKept ==
    /\ row' \in [Rows -> AllRows \cup {NoRow}]
    /\ \A i \in Rows : row[i] # NoRow => /\ row'[i] # NoRow
                                         /\ row'[i].user = row[i].user
                                         /\ row'[i].kind = row[i].kind

LEMMA SetStateKeeps ==
    ASSUME TypeOK, NEW s \in States, NEW S \in SUBSET Rows, \A i \in S : row[i] # NoRow,
           row' = SetState(S, s)
    PROVE  RowsKept /\ \A i \in Rows : row[i] = NoRow => row'[i] = NoRow
BY SetStateOK DEF RowsKept

Base == TypeOK /\ IdsAreGivenOnce

(* The requests and the rows, one step at a time. *)
LEMMA GenerateBase ==
    ASSUME Base, NEW r \in Requests, NEW u \in Users, GenerateDelete(r, u)
    PROVE  Base' /\ RowsKept
<1> TypeOK /\ IdsAreGivenOnce
  BY DEF Base
<1>1. /\ req' \in [Requests -> InFlight \cup {Idle}]
      /\ req'[r].next = "insert"
      /\ \A q \in Requests \ {r} : req'[q] = req[q]
  BY BeginFields DEF GenerateDelete
<1>2. RowsKept /\ \A i \in Rows : row[i] = NoRow => row'[i] = NoRow
  <2>1. \A i \in Of(u, "recovery", States) : row[i] # NoRow
    BY DEF Of
  <2>2. "deleted" \in States /\ Of(u, "recovery", States) \in SUBSET Rows
    BY DEF States, Of
  <2> QED
    BY <2>1, <2>2, SetStateKeeps DEF GenerateDelete
<1>3. \A q \in Requests : ~Doing(q, "insert")' => req'[q] = req[q]
  BY <1>1 DEF Doing
<1>4. TypeOK'
  <2>1. disturbed' \subseteq Users
    BY DEF GenerateDelete, TypeOK
  <2>2. \A q \in Requests : Doing(q, "mark")' => req'[q].row \in Rows /\ row'[req'[q].row] # NoRow
    BY <1>2, <1>3 DEF TypeOK, RowsKept, Doing
  <2>3. \A q \in Requests : Doing(q, "issue")' => req'[q].row \in Rows
    BY <1>3 DEF TypeOK, Doing
  <2> QED
    BY <1>1, <1>2, <2>1, <2>2, <2>3 DEF GenerateDelete, TypeOK, RowsKept
<1>5. IdsAreGivenOnce'
  BY <1>1, <1>2, <1>3 DEF IdsAreGivenOnce, TypeOK, Doing
<1> QED
  BY <1>2, <1>4, <1>5 DEF Base

LEMMA InsertRows ==
    ASSUME TypeOK, NEW r \in Requests, NEW S \in SUBSET Fresh, Doing(r, "insert"),
           row' = [i \in Rows |-> IF i \in S THEN Row(req[r].user, "recovery", "good") ELSE row[i]]
    PROVE  /\ \A i \in S : /\ i \in Rows /\ row[i] = NoRow /\ row'[i] # NoRow
                           /\ row'[i] \in AllRows
                           /\ row'[i].user = req[r].user /\ row'[i].kind = "recovery"
                           /\ row'[i].state = "good"
           /\ \A i \in Rows \ S : row'[i] = row[i]
           /\ RowsKept
<1>1. req[r].user \in Users
  BY RequestFields
<1> DEFINE new == Row(req[r].user, "recovery", "good")
<1>2. new \in AllRows /\ new.user = req[r].user /\ new.kind = "recovery" /\ new.state = "good"
  BY <1>1 DEF Row, AllRows, Kinds, States
<1>3. new # NoRow
  BY <1>2, StoredCodesAssumption
<1>4. \A i \in S : i \in Rows /\ row[i] = NoRow
  BY DEF Fresh
<1>5. row' = [i \in Rows |-> IF i \in S THEN new ELSE row[i]]
  OBVIOUS
<1> HIDE DEF new
<1>6. row' \in [Rows -> AllRows \cup {NoRow}]
  BY <1>2, <1>5 DEF TypeOK
<1> QED
  BY <1>2, <1>3, <1>4, <1>5, <1>6 DEF RowsKept

LEMMA InsertBase ==
    ASSUME Base, NEW r \in Requests, GenerateInsert(r)
    PROVE  Base' /\ RowsKept
<1> TypeOK /\ IdsAreGivenOnce
  BY DEF Base
<1>1. PICK S \in SUBSET Fresh :
        /\ row' = [i \in Rows |-> IF i \in S THEN Row(req[r].user, "recovery", "good") ELSE row[i]]
        /\ \E name \in S : setOf' = [i \in Rows |-> IF i \in S THEN name ELSE setOf[i]]
  BY DEF GenerateInsert
<1>2. /\ req' \in [Requests -> InFlight \cup {Idle}]
      /\ req'[r].next = "idle"
      /\ \A q \in Requests \ {r} : req'[q] = req[q]
  BY DoneFields DEF GenerateInsert
<1>3. Doing(r, "insert")
  BY DEF GenerateInsert
<1>4. RowsKept /\ \A i \in Rows \ S : row'[i] = row[i]
  BY <1>1, <1>3, InsertRows
<1>5. \A q \in Requests : req'[q].next # "idle" => req'[q] = req[q] /\ req[q].row \notin S
  <2>1. \A i \in S, q \in Requests : req[q].row # i
    BY DEF Fresh
  <2> QED
    BY <1>2, <2>1
<1>6. TypeOK'
  <2>1. setOf' \in [Rows -> Rows \cup {NoRow}]
    BY <1>1 DEF TypeOK, Fresh
  <2>2. \A q \in Requests : Doing(q, "mark")' => req'[q].row \in Rows /\ row'[req'[q].row] # NoRow
    BY <1>4, <1>5 DEF TypeOK, RowsKept, Doing
  <2>3. \A q \in Requests : Doing(q, "issue")' => req'[q].row \in Rows
    BY <1>5 DEF TypeOK, Doing
  <2> QED
    BY <1>2, <1>4, <2>1, <2>2, <2>3 DEF GenerateInsert, TypeOK, RowsKept
<1>7. IdsAreGivenOnce'
  BY <1>4, <1>5 DEF IdsAreGivenOnce, TypeOK, Doing
<1> QED
  BY <1>4, <1>6, <1>7 DEF Base

(* What a request reads, and what becomes of it at the window. *)
LEMMA RequestResetFields ==
    ASSUME TypeOK, NEW r \in Requests, NEW u \in Users, RequestReset(r, u)
    PROVE  /\ req' \in [Requests -> InFlight \cup {Idle}]
           /\ req'[r].next = "limit" /\ req'[r].user = u /\ req'[r].to = email[u]
           /\ \A q \in Requests \ {r} : req'[q] = req[q]
           /\ UNCHANGED <<row, email, window, history>>
<1> DEFINE new == [next |-> "limit", user |-> u, row |-> NoRow, to |-> email[u]]
<1>1. email[u] \in Addresses
  BY DEF TypeOK
<1>2. new \in InFlight /\ new.next = "limit" /\ new.user = u /\ new.to = email[u]
  BY <1>1 DEF InFlight, LimitRequest
<1>3. req' = [req EXCEPT ![r] = new]
  BY DEF RequestReset
<1>4. UNCHANGED <<row, email, window, history>>
  BY DEF RequestReset
<1> HIDE DEF new
<1> QED
  BY <1>2, <1>3, <1>4 DEF TypeOK

(* A request is let in by the window of the address it read... *)
LetIn(r, i) ==
    /\ Cardinality(window[req[r].to]) < ResetLimit
    /\ window' = [window EXCEPT ![req[r].to] = window[req[r].to] \cup {i}]
    /\ sentTo' = [sentTo EXCEPT ![i] = req[r].to]
    /\ req' \in [Requests -> InFlight \cup {Idle}]
    /\ req'[r].next = "issue" /\ req'[r].user = req[r].user /\ req'[r].row = i
    /\ \A q \in Requests \ {r} : req'[q] = req[q]

(* ...or refused. *)
Refused(r) ==
    /\ UNCHANGED <<window, sentTo>>
    /\ req' \in [Requests -> InFlight \cup {Idle}]
    /\ req'[r].next = "idle"
    /\ \A q \in Requests \ {r} : req'[q] = req[q]

LEMMA RateLimitCases ==
    ASSUME TypeOK, NEW r \in Requests, RateLimit(r)
    PROVE  /\ req[r].next = "limit" /\ req[r].to \in Addresses /\ req[r].user \in Users
           /\ UNCHANGED <<row, email, moved, uses, shared, setOf, disturbed, forgotten>>
           /\ (\E i \in Fresh : LetIn(r, i)) \/ Refused(r)
<1>1. Doing(r, "limit") /\ UNCHANGED <<row, email, moved, uses, shared, setOf, disturbed, forgotten>>
  BY DEF RateLimit
<1>2. req[r].next = "limit" /\ req[r].to \in Addresses /\ req[r].user \in Users
  BY <1>1, RequestFields DEF Doing
<1>3. ASSUME NEW i \in Fresh,
             Cardinality(window[req[r].to]) < ResetLimit,
             window' = [window EXCEPT ![req[r].to] = @ \cup {i}],
             sentTo' = [sentTo EXCEPT ![i] = req[r].to],
             req' = [req EXCEPT ![r] = [next |-> "issue", user |-> req[r].user, row |-> i]]
      PROVE  LetIn(r, i)
  <2> DEFINE new == [next |-> "issue", user |-> req[r].user, row |-> i]
  <2>1. new \in InFlight /\ new.next = "issue" /\ new.user = req[r].user /\ new.row = i
    BY <1>2 DEF InFlight, Fresh
  <2>2. req' = [req EXCEPT ![r] = new]
    BY <1>3
  <2> HIDE DEF new
  <2>3. /\ req' \in [Requests -> InFlight \cup {Idle}]
        /\ req'[r] = new
        /\ \A q \in Requests \ {r} : req'[q] = req[q]
    BY <2>1, <2>2 DEF TypeOK
  <2> QED
    BY <1>3, <2>1, <2>3 DEF LetIn
<1>4. ASSUME req' = Done(r), UNCHANGED <<window, sentTo>> PROVE Refused(r)
  BY <1>4, DoneFields DEF Refused
<1> QED
  BY <1>1, <1>2, <1>3, <1>4 DEF RateLimit

LEMMA RequestResetBase ==
    ASSUME Base, NEW r \in Requests, NEW u \in Users, RequestReset(r, u)
    PROVE  Base' /\ RowsKept
<1> TypeOK /\ IdsAreGivenOnce
  BY DEF Base
<1>1. /\ req' \in [Requests -> InFlight \cup {Idle}]
      /\ req'[r].next = "limit"
      /\ \A q \in Requests \ {r} : req'[q] = req[q]
      /\ UNCHANGED <<row, email, window, history>>
  BY RequestResetFields
<1>2. \A q \in Requests : Doing(q, "issue")' \/ Doing(q, "mark")' => req'[q] = req[q]
  BY <1>1 DEF Doing
<1>3. TypeOK'
  <2>1. \A q \in Requests : Doing(q, "mark")' => req'[q].row \in Rows /\ row'[req'[q].row] # NoRow
    BY <1>1, <1>2 DEF TypeOK, Doing
  <2>2. \A q \in Requests : Doing(q, "issue")' => req'[q].row \in Rows
    BY <1>2 DEF TypeOK, Doing
  <2> QED
    BY <1>1, <2>1, <2>2 DEF history, TypeOK
<1>4. IdsAreGivenOnce'
  BY <1>1, <1>2 DEF IdsAreGivenOnce, Doing
<1> QED
  BY <1>1, <1>3, <1>4 DEF Base, RowsKept, TypeOK

LEMMA RateLimitBase ==
    ASSUME Base, NEW r \in Requests, RateLimit(r)
    PROVE  Base' /\ RowsKept
<1> TypeOK /\ IdsAreGivenOnce
  BY DEF Base
<1>1. /\ req[r].next = "limit" /\ req[r].to \in Addresses
      /\ UNCHANGED <<row, email, moved, uses, shared, setOf, disturbed, forgotten>>
      /\ (\E i \in Fresh : LetIn(r, i)) \/ Refused(r)
  BY RateLimitCases
<1>2. RowsKept
  BY <1>1 DEF RowsKept, TypeOK
<1>3. CASE \E i \in Fresh : LetIn(r, i)
  <2>1. PICK i \in Fresh : LetIn(r, i)
    BY <1>3
  <2>2. i \in Rows /\ row[i] = NoRow /\ \A q \in Requests : req[q].row # i
    BY DEF Fresh
  <2>3. /\ req' \in [Requests -> InFlight \cup {Idle}]
        /\ req'[r].next = "issue" /\ req'[r].row = i
        /\ \A q \in Requests \ {r} : req'[q] = req[q]
    BY <2>1 DEF LetIn
  <2>4. window' \in [Addresses -> SUBSET Rows] /\ sentTo' \in [Rows -> Addresses \cup {NoRow}]
    BY <1>1, <2>1, <2>2 DEF LetIn, TypeOK
  <2>5. TypeOK'
    <3>1. \A q \in Requests : Doing(q, "mark")' => req'[q].row \in Rows /\ row'[req'[q].row] # NoRow
      BY <1>1, <2>3 DEF TypeOK, Doing
    <3>2. \A q \in Requests : Doing(q, "issue")' => req'[q].row \in Rows
      BY <2>2, <2>3 DEF TypeOK, Doing
    <3> QED
      BY <1>1, <2>3, <2>4, <3>1, <3>2 DEF TypeOK
  <2>6. IdsAreGivenOnce'
    BY <1>1, <2>2, <2>3 DEF IdsAreGivenOnce, Doing
  <2> QED
    BY <1>2, <2>5, <2>6 DEF Base
<1>4. CASE Refused(r)
  <2>1. /\ req' \in [Requests -> InFlight \cup {Idle}]
        /\ \A q \in Requests : req'[q].next # "idle" => req'[q] = req[q]
        /\ UNCHANGED <<window, sentTo>>
    BY <1>4 DEF Refused
  <2>2. TypeOK'
    <3>1. \A q \in Requests : Doing(q, "mark")' => req'[q].row \in Rows /\ row'[req'[q].row] # NoRow
      BY <1>1, <2>1 DEF TypeOK, Doing
    <3>2. \A q \in Requests : Doing(q, "issue")' => req'[q].row \in Rows
      BY <2>1 DEF TypeOK, Doing
    <3> QED
      BY <1>1, <2>1, <3>1, <3>2 DEF TypeOK
  <2>3. IdsAreGivenOnce'
    BY <1>1, <2>1 DEF IdsAreGivenOnce, Doing
  <2> QED
    BY <1>2, <2>2, <2>3 DEF Base
<1> QED
  BY <1>1, <1>3, <1>4

LEMMA IssueRows ==
    ASSUME Base, NEW r \in Requests, IssueReset(r)
    PROVE  /\ RowsKept
           /\ \A j \in Rows \ {req[r].row} : row'[j] = row[j]
           /\ row[req[r].row] = NoRow
           /\ row'[req[r].row].user = req[r].user
           /\ row'[req[r].row].kind = "reset"
           /\ row'[req[r].row].state \in {"good", "expired"}
           /\ LongWindow /\ row'[req[r].row].state = "good" =>
                 \E a \in Addresses : req[r].row \in window[a]
<1> TypeOK /\ IdsAreGivenOnce
  BY DEF Base
<1>1. Doing(r, "issue")
  BY DEF IssueReset
<1>2. req[r].row \in Rows /\ req[r].user \in Users
  BY <1>1, RequestFields
<1>3. row[req[r].row] = NoRow
  BY <1>1 DEF IdsAreGivenOnce
<1>4. PICK s \in {"good", "expired"} :
        /\ LongWindow /\ s = "good" => \E a \in Addresses : req[r].row \in window[a]
        /\ row' = [row EXCEPT ![req[r].row] = Row(req[r].user, "reset", s)]
  BY DEF IssueReset
<1> DEFINE new == Row(req[r].user, "reset", s)
<1>5. new \in AllRows /\ new.user = req[r].user /\ new.kind = "reset" /\ new.state = s
  BY <1>2 DEF Row, AllRows, Kinds, States
<1>6. row' = [row EXCEPT ![req[r].row] = new]
  BY <1>4
<1> HIDE DEF new
<1> QED
  BY <1>2, <1>3, <1>4, <1>5, <1>6 DEF RowsKept, TypeOK

LEMMA IssueBase ==
    ASSUME Base, NEW r \in Requests, IssueReset(r)
    PROVE  Base' /\ RowsKept
<1> TypeOK /\ IdsAreGivenOnce
  BY DEF Base
<1>1. Doing(r, "issue")
  BY DEF IssueReset
<1>2. RowsKept /\ \A j \in Rows \ {req[r].row} : row'[j] = row[j]
  BY IssueRows
<1>3. /\ req' \in [Requests -> InFlight \cup {Idle}]
      /\ req'[r].next = "idle"
      /\ \A q \in Requests \ {r} : req'[q] = req[q]
  BY DoneFields DEF IssueReset
<1>4. \A q \in Requests : req'[q].next # "idle" => q # r /\ req'[q] = req[q]
  BY <1>3
<1>5. TypeOK'
  <2>1. \A q \in Requests : Doing(q, "mark")' => req'[q].row \in Rows /\ row'[req'[q].row] # NoRow
    BY <1>2, <1>4 DEF TypeOK, RowsKept, Doing
  <2>2. \A q \in Requests : Doing(q, "issue")' => req'[q].row \in Rows
    BY <1>4 DEF TypeOK, Doing
  <2> QED
    BY <1>2, <1>3, <2>1, <2>2 DEF IssueReset, history, TypeOK, RowsKept
<1>6. IdsAreGivenOnce'
  <2>1. ASSUME NEW q \in Requests, Doing(q, "issue")'
        PROVE  Doing(q, "issue") /\ q # r /\ req'[q] = req[q] /\ req[q].row \in Rows
    BY <1>4, <2>1 DEF Doing, TypeOK
  <2>2. \A q \in Requests : Doing(q, "issue")' => row'[req'[q].row] = NoRow
    BY <1>1, <1>2, <2>1 DEF IdsAreGivenOnce
  <2> QED
    BY <2>1, <2>2 DEF IdsAreGivenOnce
<1> QED
  BY <1>2, <1>5, <1>6 DEF Base

LEMMA FindBase ==
    ASSUME Base, NEW r \in Requests, NEW i \in Rows, Find(r, i)
    PROVE  Base' /\ RowsKept
<1> TypeOK /\ IdsAreGivenOnce
  BY DEF Base
<1>1. row[i] # NoRow /\ row[i].user \in Users
  BY DEF Find, TypeOK, AllRows
<1>2. /\ req' \in [Requests -> InFlight \cup {Idle}]
      /\ req'[r].next = "mark" /\ req'[r].row = i
      /\ \A q \in Requests \ {r} : req'[q] = req[q]
  BY <1>1, BeginFields DEF Find
<1>3. row' = row
  BY DEF Find
<1>4. TypeOK'
  <2>1. \A q \in Requests : Doing(q, "mark")' => req'[q].row \in Rows /\ row'[req'[q].row] # NoRow
    BY <1>1, <1>2, <1>3 DEF TypeOK, Doing
  <2>2. \A q \in Requests : Doing(q, "issue")' => req'[q].row \in Rows
    BY <1>2 DEF TypeOK, Doing
  <2>3. shared' \subseteq Rows
    BY DEF Find, TypeOK
  <2> QED
    BY <1>2, <1>3, <2>1, <2>2, <2>3 DEF Find, TypeOK
<1>5. IdsAreGivenOnce'
  BY <1>2, <1>3 DEF IdsAreGivenOnce, Doing
<1> QED
  BY <1>3, <1>4, <1>5 DEF Base, RowsKept, TypeOK

LEMMA UseBase ==
    ASSUME Base, NEW r \in Requests, Use(r)
    PROVE  Base' /\ RowsKept /\ \A i \in Rows : row[i] = NoRow => row'[i] = NoRow
<1> TypeOK /\ IdsAreGivenOnce
  BY DEF Base
<1>1. Doing(r, "mark")
  BY DEF Use
<1>2. req[r].row \in Rows /\ row[req[r].row] # NoRow
  BY <1>1, RequestFields
<1>3. RowsKept /\ \A i \in Rows : row[i] = NoRow => row'[i] = NoRow
  <2>1. CASE row' = row
    BY <2>1 DEF RowsKept, TypeOK
  <2>2. CASE row' = SetState({req[r].row}, "used")
    <3>1. "used" \in States
      BY DEF States
    <3> QED
      BY <1>2, <2>2, <3>1, SetStateKeeps
  <2> QED
    BY <2>1, <2>2 DEF Use
<1>4. /\ req' \in [Requests -> InFlight \cup {Idle}]
      /\ req'[r].next = "idle"
      /\ \A q \in Requests \ {r} : req'[q] = req[q]
  BY DoneFields DEF Use
<1>5. \A q \in Requests : req'[q].next # "idle" => req'[q] = req[q]
  BY <1>4
<1>6. TypeOK'
  <2>1. \A q \in Requests : Doing(q, "mark")' => req'[q].row \in Rows /\ row'[req'[q].row] # NoRow
    BY <1>3, <1>5 DEF TypeOK, RowsKept, Doing
  <2>2. \A q \in Requests : Doing(q, "issue")' => req'[q].row \in Rows
    BY <1>5 DEF TypeOK, Doing
  <2>3. uses' \in [Rows -> Nat]
    BY <1>2 DEF Use, TypeOK
  <2> QED
    BY <1>3, <1>4, <2>1, <2>2, <2>3 DEF Use, TypeOK, RowsKept
<1>7. IdsAreGivenOnce'
  BY <1>3, <1>5 DEF IdsAreGivenOnce, TypeOK, Doing
<1> QED
  BY <1>3, <1>6, <1>7 DEF Base

(* The steps of time and failure. *)
LEMMA OtherBase ==
    ASSUME Base,
           \/ \E r \in Requests : Abort(r)
           \/ \E i \in Rows : Expire(i) \/ \E a \in Addresses : LeaveWindow(a, i)
           \/ \E u \in Users, a \in Addresses : ChangeEmail(u, a)
           \/ Restart
           \/ UNCHANGED vars
    PROVE  Base' /\ RowsKept /\ \A i \in Rows : row[i] = NoRow => row'[i] = NoRow
<1> TypeOK /\ IdsAreGivenOnce
  BY DEF Base
<1>1. \A r \in Requests : CutBy(r) \subseteq Users
  BY RequestFields DEF CutBy
<1>2. RowsKept /\ \A i \in Rows : row[i] = NoRow => row'[i] = NoRow
  <2>1. CASE row' = row
    BY <2>1 DEF RowsKept, TypeOK
  <2>2. CASE row' # row
    <3>1. PICK i \in Rows : row[i] # NoRow /\ row' = SetState({i}, "expired")
      BY <2>2 DEF Abort, Expire, LeaveWindow, ChangeEmail, Restart, vars
    <3>2. "expired" \in States
      BY DEF States
    <3> QED
      BY <3>1, <3>2, SetStateKeeps
  <2> QED
    BY <2>1, <2>2
<1>3. /\ req' \in [Requests -> InFlight \cup {Idle}]
      /\ \A q \in Requests : req'[q] = req[q] \/ req'[q].next = "idle"
  <2>1. CASE \E r \in Requests : Abort(r)
    BY <2>1, DoneFields DEF Abort
  <2>2. CASE Restart
    BY <2>2 DEF Restart, Idle
  <2>3. CASE UNCHANGED req
    BY <2>3 DEF TypeOK
  <2> QED
    BY <2>1, <2>2, <2>3 DEF Expire, LeaveWindow, ChangeEmail, vars
<1>4. window' \in [Addresses -> SUBSET Rows]
  <2>1. window \in [Addresses -> SUBSET Rows]
    BY DEF TypeOK
  <2>2. CASE \E i \in Rows, a \in Addresses : LeaveWindow(a, i)
    BY <2>1, <2>2 DEF LeaveWindow
  <2>3. CASE Restart
    BY <2>3 DEF Restart
  <2>4. CASE UNCHANGED window
    BY <2>1, <2>4
  <2> QED
    BY <2>2, <2>3, <2>4 DEF Abort, Expire, ChangeEmail, vars
<1>5. disturbed' \subseteq Users
  <2>1. disturbed \subseteq Users
    BY DEF TypeOK
  <2>2. CASE \E r \in Requests : Abort(r)
    BY <1>1, <2>1, <2>2 DEF Abort
  <2>3. CASE Restart
    BY <1>1, <2>1, <2>3 DEF Restart
  <2>4. CASE UNCHANGED disturbed
    BY <2>1, <2>4
  <2> QED
    BY <2>2, <2>3, <2>4 DEF Expire, LeaveWindow, ChangeEmail, vars, history
<1>6. UNCHANGED <<uses, shared, setOf, sentTo>> /\ forgotten' \in BOOLEAN
  BY DEF Abort, Expire, LeaveWindow, ChangeEmail, Restart, vars, history, TypeOK
<1>9. /\ email' \in [Users -> Addresses] /\ moved' \subseteq Users
      /\ \A u, v \in Users : email'[u] = email'[v] => u = v
  <2>1. CASE \E u \in Users, a \in Addresses : ChangeEmail(u, a)
    BY <2>1 DEF ChangeEmail, TypeOK
  <2>2. CASE UNCHANGED <<email, moved>>
    BY <2>2 DEF TypeOK
  <2> QED
    BY <2>1, <2>2 DEF Abort, Expire, LeaveWindow, Restart, vars, history
<1>7. TypeOK'
  <2>1. \A q \in Requests : Doing(q, "mark")' => req'[q].row \in Rows /\ row'[req'[q].row] # NoRow
    BY <1>2, <1>3 DEF TypeOK, RowsKept, Doing
  <2>2. \A q \in Requests : Doing(q, "issue")' => req'[q].row \in Rows
    BY <1>3 DEF TypeOK, Doing
  <2> QED
    BY <1>2, <1>3, <1>4, <1>5, <1>6, <1>9, <2>1, <2>2 DEF TypeOK, RowsKept
<1>8. IdsAreGivenOnce'
  BY <1>2, <1>3 DEF IdsAreGivenOnce, TypeOK, Doing
<1> QED
  BY <1>2, <1>7, <1>8 DEF Base

LEMMA BaseInit == Init => Base
<1> SUFFICES ASSUME Init PROVE Base
  OBVIOUS
<1>1. \A r \in Requests : req[r] = Idle /\ req[r].next = "idle"
  BY DEF Init, Idle
<1>2. IdsAreGivenOnce
  BY <1>1 DEF IdsAreGivenOnce, Doing
<1>3. TypeOK
  BY <1>1 DEF Init, TypeOK, Doing
<1> QED
  BY <1>2, <1>3 DEF Base

LEMMA BaseNext == Base /\ [Next]_vars => Base'
BY GenerateBase, InsertBase, RequestResetBase, RateLimitBase, IssueBase, FindBase, UseBase, OtherBase
   DEF Next, Arrive, Step

(* Every variable keeps its type, and a request marks a row that exists. *)
THEOREM TypeCorrect == Spec => []TypeOK
<1>1. Base => TypeOK
  BY DEF Base
<1> QED
  BY <1>1, BaseInit, BaseNext, PTL DEF Spec

-----------------------------------------------------------------------------
(* A code works once.  CodesWorkOnce needs beside it that a row that does not
   exist was never used. *)
UnmadeAreUnused == \A i \in Rows : row[i] = NoRow => uses[i] = 0

UseInv == Base /\ CodesWorkOnce /\ UnmadeAreUnused

(* A row that is used or deleted stays so. *)
SpentStay ==
    \A i \in Rows : row[i] # NoRow /\ row[i].state \in {"used", "deleted"} =>
        row'[i].state \in {"used", "deleted"}

LEMMA SetStateSpent ==
    ASSUME TypeOK, NEW s \in {"used", "deleted"}, NEW S \in SUBSET Rows, \A i \in S : row[i] # NoRow,
           row' = SetState(S, s)
    PROVE  SpentStay
<1>1. s \in States
  BY DEF States
<1> QED
  BY <1>1, SetStateOK DEF SpentStay

LEMMA SpentNext ==
    ASSUME Base, [Next]_vars
    PROVE  SpentStay
<1> TypeOK /\ IdsAreGivenOnce
  BY DEF Base
<1>1. ASSUME NEW r \in Requests, NEW u \in Users, GenerateDelete(r, u) PROVE SpentStay
  <2>1. \A i \in Of(u, "recovery", States) : i \in Rows /\ row[i] # NoRow
    BY DEF Of
  <2> QED
    BY <1>1, <2>1, SetStateSpent DEF GenerateDelete
<1>2. ASSUME NEW r \in Requests, GenerateInsert(r) PROVE SpentStay
  <2>1. PICK S \in SUBSET Fresh :
          row' = [i \in Rows |-> IF i \in S THEN Row(req[r].user, "recovery", "good") ELSE row[i]]
    BY <1>2 DEF GenerateInsert
  <2>2. \A i \in Rows : row[i] # NoRow => row'[i] = row[i]
    BY <2>1 DEF Fresh
  <2> QED
    BY <2>2 DEF SpentStay
<1>3. ASSUME NEW r \in Requests, IssueReset(r) PROVE SpentStay
  BY <1>3, IssueRows DEF SpentStay
<1>4. ASSUME NEW r \in Requests, Use(r) PROVE SpentStay
  <2>1. Doing(r, "mark")
    BY <1>4 DEF Use
  <2>2. req[r].row \in Rows /\ row[req[r].row] # NoRow
    BY <2>1, RequestFields
  <2>3. CASE row' = SetState({req[r].row}, "used")
    BY <2>2, <2>3, SetStateSpent
  <2>4. CASE row' = row
    BY <2>4 DEF SpentStay
  <2> QED
    BY <1>4, <2>3, <2>4 DEF Use
<1>5. ASSUME NEW j \in Rows, Expire(j) PROVE SpentStay
  <2>1. row[j] # NoRow /\ row[j].state = "good" /\ "expired" \in States
    BY <1>5 DEF Expire, States
  <2>2. \A i \in Rows \ {j} : row'[i] = row[i]
    BY <1>5, <2>1, SetStateOK DEF Expire
  <2> QED
    BY <2>1, <2>2 DEF SpentStay
<1>6. CASE row' = row
  BY <1>6 DEF SpentStay
<1> QED
  BY <1>1, <1>2, <1>3, <1>4, <1>5, <1>6
     DEF Next, Arrive, Step, Abort, LeaveWindow, ChangeEmail, Restart, RequestReset, RateLimit, Find, vars

LEMMA RowsNext ==
    ASSUME Base, [Next]_vars
    PROVE  RowsKept
BY GenerateBase, InsertBase, RequestResetBase, RateLimitBase, IssueBase, FindBase, UseBase, OtherBase
   DEF Next, Arrive, Step

LEMMA FindingFinite ==
    ASSUME NEW i
    PROVE  /\ IsFiniteSet(Finding(i))
           /\ Cardinality(Finding(i)) \in Nat
           /\ Cardinality(Finding(i)) <= Cardinality(Requests)
           /\ Cardinality(Requests) \in Nat
<1>1. Finding(i) \subseteq Requests /\ IsFiniteSet(Requests)
  BY StoredCodesAssumption DEF Finding
<1> QED
  BY <1>1, FS_Subset, FS_CardinalityType

(* The steps that neither find a row nor use one. *)
LEMMA QuietKeepsOnce ==
    ASSUME UseInv, [Next]_vars, UNCHANGED <<uses, shared>>,
           \A i \in Rows : Finding(i)' \subseteq Finding(i)
    PROVE  CodesWorkOnce' /\ UnmadeAreUnused'
<1> Base /\ TypeOK /\ CodesWorkOnce /\ UnmadeAreUnused
  BY DEF UseInv, Base
<1>1. RowsKept /\ SpentStay
  BY RowsNext, SpentNext
<1>2. UnmadeAreUnused'
  BY <1>1 DEF UnmadeAreUnused, RowsKept
<1>3. ASSUME NEW i \in Rows
      PROVE  /\ uses'[i] + Cardinality(Finding(i)') <= IF i \in shared' THEN Cardinality(Requests) ELSE 1
             /\ uses'[i] > 0 => row'[i].state \in {"used", "deleted"}
  <2>1. uses'[i] = uses[i] /\ uses[i] \in Nat /\ shared' = shared
    BY DEF TypeOK
  <2>2. Cardinality(Finding(i)') <= Cardinality(Finding(i)) /\ Cardinality(Finding(i)') \in Nat
    <3>1. Finding(i)' \subseteq Finding(i)
      BY <1>3
    <3> QED
      BY <3>1, FindingFinite, FS_Subset, FS_CardinalityType
  <2>3. Cardinality(Finding(i)) \in Nat /\ Cardinality(Requests) \in Nat
    BY FindingFinite
  <2>4. uses[i] + Cardinality(Finding(i)) <= IF i \in shared THEN Cardinality(Requests) ELSE 1
    BY DEF CodesWorkOnce
  <2>5. uses'[i] > 0 => row'[i].state \in {"used", "deleted"}
    BY <1>1, <2>1 DEF CodesWorkOnce, UnmadeAreUnused, SpentStay
  <2> QED
    BY <2>1, <2>2, <2>3, <2>4, <2>5
<1>4. CodesWorkOnce'
  BY <1>3 DEF CodesWorkOnce
<1> QED
  BY <1>2, <1>4

LEMMA FindKeepsOnce ==
    ASSUME UseInv, NEW r \in Requests, NEW i \in Rows, Find(r, i)
    PROVE  CodesWorkOnce' /\ UnmadeAreUnused'
<1> Base /\ TypeOK /\ CodesWorkOnce /\ UnmadeAreUnused
  BY DEF UseInv, Base
<1>1. row[i] # NoRow /\ row[i].user \in Users /\ row[i].state = "good"
  BY DEF Find, TypeOK, AllRows
<1>2. /\ req'[r].next = "mark" /\ req'[r].row = i
      /\ \A q \in Requests \ {r} : req'[q] = req[q]
      /\ req[r].next = "idle"
  BY <1>1, BeginFields DEF Find
<1>3. uses[i] = 0
  BY <1>1 DEF CodesWorkOnce, TypeOK
<1>4. UNCHANGED <<row, uses>>
  BY DEF Find
<1>5. shared' = IF Finding(i) # {} THEN shared \cup {i} ELSE shared
  BY DEF Find
<1>6. Finding(i)' = Finding(i) \cup {r}
  BY <1>2 DEF Finding, Doing
<1>7. \A j \in Rows \ {i} : Finding(j)' = Finding(j)
  BY <1>2 DEF Finding, Doing
<1>8. UnmadeAreUnused'
  BY <1>4 DEF UnmadeAreUnused
<1>9. ASSUME NEW j \in Rows
      PROVE  /\ uses'[j] + Cardinality(Finding(j)') <= IF j \in shared' THEN Cardinality(Requests) ELSE 1
             /\ uses'[j] > 0 => row'[j].state \in {"used", "deleted"}
  <2>1. CASE j # i
    <3>1. j \in shared' <=> j \in shared
      BY <1>5, <2>1
    <3> QED
      BY <1>4, <1>7, <2>1, <3>1 DEF CodesWorkOnce
  <2>2. CASE j = i
    <3>1. Cardinality(Finding(i)') \in Nat /\ Cardinality(Finding(i)') <= Cardinality(Requests)
      <4>1. Finding(i)' \subseteq Requests
        BY DEF Finding
      <4> QED
        BY <4>1, StoredCodesAssumption, FS_Subset, FS_CardinalityType
    <3>2. CASE Finding(i) = {}
      <4>1. Cardinality(Finding(i)') = 1
        BY <1>6, <3>2, FS_Singleton
      <4>2. Cardinality(Requests) \in Nat
        BY FindingFinite
      <4> QED
        BY <1>3, <1>4, <2>2, <3>1, <4>1, <4>2
    <3>3. CASE Finding(i) # {}
      <4>1. j \in shared'
        BY <1>5, <2>2, <3>3
      <4> QED
        BY <1>3, <1>4, <2>2, <3>1, <4>1
    <3> QED
      BY <3>2, <3>3
  <2> QED
    BY <2>1, <2>2
<1>10. CodesWorkOnce'
  BY <1>9 DEF CodesWorkOnce
<1> QED
  BY <1>8, <1>10

LEMMA UseKeepsOnce ==
    ASSUME UseInv, NEW r \in Requests, Use(r)
    PROVE  CodesWorkOnce' /\ UnmadeAreUnused'
<1> Base /\ TypeOK /\ CodesWorkOnce /\ UnmadeAreUnused
  BY DEF UseInv, Base
<1>1. Doing(r, "mark")
  BY DEF Use
<1>2. PICK i \in Rows : i = req[r].row /\ row[i] # NoRow
  BY <1>1, RequestFields
<1>3. /\ req'[r].next = "idle"
      /\ \A q \in Requests \ {r} : req'[q] = req[q]
  BY DoneFields DEF Use
<1>4. r \in Finding(i) /\ Finding(i)' = Finding(i) \ {r}
  BY <1>1, <1>2, <1>3 DEF Finding, Doing
<1>5. \A j \in Rows : Finding(j)' \subseteq Finding(j)
  BY <1>3 DEF Finding, Doing
<1>6. [Next]_vars
  BY DEF Next, Step
<1>7. CASE row[i].state = "deleted"
  <2>1. UNCHANGED <<uses, shared>>
    BY <1>2, <1>7 DEF Use
  <2> QED
    BY <1>5, <1>6, <2>1, QuietKeepsOnce
<1>8. CASE row[i].state # "deleted"
  <2>1. /\ row' = SetState({i}, "used")
        /\ uses' = [uses EXCEPT ![i] = @ + 1]
        /\ shared' = shared
    BY <1>2, <1>8 DEF Use
  <2>2. "used" \in States
    BY DEF States
  <2>3. row'[i].state = "used" /\ row'[i] # NoRow /\ \A j \in Rows \ {i} : row'[j] = row[j]
    BY <1>2, <2>1, <2>2, SetStateOK
  <2>4. uses'[i] = uses[i] + 1 /\ \A j \in Rows \ {i} : uses'[j] = uses[j]
    BY <2>1 DEF TypeOK
  <2>5. UnmadeAreUnused'
    BY <2>3, <2>4 DEF UnmadeAreUnused
  <2>6. Cardinality(Finding(i)') = Cardinality(Finding(i)) - 1
    BY <1>4, FindingFinite, FS_RemoveElement
  <2>7. ASSUME NEW j \in Rows
        PROVE  /\ uses'[j] + Cardinality(Finding(j)') <= IF j \in shared' THEN Cardinality(Requests) ELSE 1
               /\ uses'[j] > 0 => row'[j].state \in {"used", "deleted"}
    <3>1. CASE j = i
      <4>1. uses[i] + Cardinality(Finding(i)) <= IF i \in shared THEN Cardinality(Requests) ELSE 1
        BY DEF CodesWorkOnce
      <4>2. uses[i] \in Nat /\ Cardinality(Finding(i)) \in Nat /\ Cardinality(Requests) \in Nat
        BY FindingFinite DEF TypeOK
      <4>3. uses'[i] + Cardinality(Finding(i)') = uses[i] + Cardinality(Finding(i))
        BY <2>4, <2>6, <4>2
      <4> QED
        BY <2>1, <2>3, <3>1, <4>1, <4>3
    <3>2. CASE j # i
      <4>1. Finding(j)' = Finding(j)
        BY <1>2, <1>3, <3>2 DEF Finding, Doing
      <4> QED
        BY <2>1, <2>3, <2>4, <3>2, <4>1 DEF CodesWorkOnce
    <3> QED
      BY <3>1, <3>2
  <2>8. CodesWorkOnce'
    BY <2>7 DEF CodesWorkOnce
  <2> QED
    BY <2>5, <2>8
<1> QED
  BY <1>7, <1>8

LEMMA UseInit == Init => UseInv
<1> SUFFICES ASSUME Init PROVE CodesWorkOnce /\ UnmadeAreUnused
  BY BaseInit DEF UseInv
<1>1. \A i \in Rows : Finding(i) = {} /\ uses[i] = 0 /\ shared = {}
  BY DEF Init, Finding, Doing, Idle
<1>2. Cardinality({}) = 0
  BY FS_EmptySet
<1> QED
  BY <1>1, <1>2 DEF CodesWorkOnce, UnmadeAreUnused

LEMMA UseNext == UseInv /\ [Next]_vars => UseInv'
<1> SUFFICES ASSUME UseInv, [Next]_vars PROVE CodesWorkOnce' /\ UnmadeAreUnused'
  BY BaseNext DEF UseInv
<1> TypeOK
  BY DEF UseInv, Base
<1>1. ASSUME UNCHANGED <<uses, shared>>,
             \A q \in Requests : req'[q] = req[q] \/ req'[q].next # "mark"
      PROVE  CodesWorkOnce' /\ UnmadeAreUnused'
  <2>1. \A i \in Rows : Finding(i)' \subseteq Finding(i)
    BY <1>1 DEF Finding, Doing
  <2> QED
    BY <1>1, <2>1, QuietKeepsOnce
<1>2. ASSUME NEW r \in Requests, NEW u \in Users, GenerateDelete(r, u)
      PROVE  UNCHANGED <<uses, shared>> /\ \A q \in Requests : req'[q] = req[q] \/ req'[q].next # "mark"
  BY <1>2, BeginFields DEF GenerateDelete
<1>3. ASSUME NEW r \in Requests, NEW u \in Users, RequestReset(r, u)
      PROVE  UNCHANGED <<uses, shared>> /\ \A q \in Requests : req'[q] = req[q] \/ req'[q].next # "mark"
  BY <1>3, RequestResetFields DEF history
<1>6. ASSUME NEW r \in Requests, RateLimit(r)
      PROVE  UNCHANGED <<uses, shared>> /\ \A q \in Requests : req'[q] = req[q] \/ req'[q].next # "mark"
  BY <1>6, RateLimitCases DEF LetIn, Refused
<1>4. ASSUME NEW r \in Requests, GenerateInsert(r) \/ IssueReset(r) \/ Abort(r)
      PROVE  UNCHANGED <<uses, shared>> /\ \A q \in Requests : req'[q] = req[q] \/ req'[q].next # "mark"
  BY <1>4, DoneFields DEF GenerateInsert, IssueReset, Abort, history
<1>5. CASE \/ \E i \in Rows : Expire(i) \/ \E a \in Addresses : LeaveWindow(a, i)
           \/ \E u \in Users, a \in Addresses : ChangeEmail(u, a)
           \/ Restart \/ UNCHANGED vars
  <2>1. UNCHANGED <<uses, shared>>
    BY <1>5 DEF Expire, LeaveWindow, ChangeEmail, Restart, vars, history
  <2>2. \A q \in Requests : req'[q] = req[q] \/ req'[q].next # "mark"
    <3>1. CASE Restart
      BY <3>1 DEF Restart, Idle
    <3>2. CASE UNCHANGED req
      BY <3>2
    <3> QED
      BY <1>5, <3>1, <3>2 DEF Expire, LeaveWindow, ChangeEmail, vars
  <2> QED
    BY <1>1, <2>1, <2>2
<1> QED
  BY <1>1, <1>2, <1>3, <1>4, <1>5, <1>6, FindKeepsOnce, UseKeepsOnce DEF Next, Arrive, Step

(* A recovery code or a reset code buys one thing, and what was used stays
   used or is deleted, unless two requests had found it before either marked
   it; and then no more than there can be requests at once. *)
THEOREM EachCodeWorksOnce == Spec => []CodesWorkOnce
<1>1. UseInv => CodesWorkOnce
  BY DEF UseInv
<1> QED
  BY <1>1, UseInit, UseNext, PTL DEF Spec

-----------------------------------------------------------------------------
(* Few reset codes are good at a time.  The window of an address names only
   codes mailed there and keeps the limit, and where it is long the good codes
   are in the windows as long as the process runs. *)
GoodResets == {i \in Rows : row[i] # NoRow /\ row[i].kind = "reset" /\ row[i].state = "good"}

GoodAreInWindow ==
    /\ \A a \in Addresses : Cardinality(window[a]) <= ResetLimit
    /\ \A a \in Addresses : \A i \in window[a] : sentTo[i] = a
    /\ LongWindow /\ ~forgotten => \A i \in GoodResets : \E a \in Addresses : i \in window[a]

(* Codes of who never changed address are asked for, and mailed, at the one
   there is. *)
KeptAddresses ==
    /\ \A i \in Rows : row[i] # NoRow /\ row[i].kind = "reset" /\ row[i].user \notin moved =>
          sentTo[i] = email[row[i].user]
    /\ \A r \in Requests : req[r].next = "limit" /\ req[r].user \notin moved =>
          req[r].to = email[req[r].user]
    /\ \A r \in Requests : req[r].next = "issue" /\ req[r].user \notin moved =>
          sentTo[req[r].row] = email[req[r].user]

WindowInv == Base /\ GoodAreInWindow /\ KeptAddresses

LEMMA WindowFinite ==
    ASSUME TypeOK, NEW a \in Addresses
    PROVE  IsFiniteSet(window[a]) /\ Cardinality(window[a]) \in Nat
BY StoredCodesAssumption, FS_Subset, FS_CardinalityType DEF TypeOK

LEMMA WindowBounds == WindowInv => FewGoodResetCodes
<1> SUFFICES ASSUME WindowInv, LongWindow, ~forgotten
             PROVE  /\ \A a \in Addresses : Cardinality(GoodMailedTo(a)) <= ResetLimit
                    /\ \A u \in Users \ moved : Cardinality(Of(u, "reset", {"good"})) <= ResetLimit
  BY DEF FewGoodResetCodes
<1> TypeOK /\ GoodAreInWindow /\ KeptAddresses
  BY DEF WindowInv, Base
<1>1. ASSUME NEW a \in Addresses, NEW S, S \subseteq window[a]
      PROVE  Cardinality(S) <= ResetLimit
  <2>1. Cardinality(window[a]) <= ResetLimit
    BY DEF GoodAreInWindow
  <2>2. Cardinality(S) <= Cardinality(window[a]) /\ Cardinality(S) \in Nat
    BY <1>1, WindowFinite, FS_Subset, FS_CardinalityType
  <2> QED
    BY <2>1, <2>2, WindowFinite, StoredCodesAssumption
<1>2. \A i \in GoodResets : i \in window[sentTo[i]] /\ sentTo[i] \in Addresses
  BY DEF GoodAreInWindow
<1>3. ASSUME NEW a \in Addresses PROVE GoodMailedTo(a) \subseteq window[a]
  BY <1>2 DEF GoodMailedTo, GoodResets
<1>4. ASSUME NEW u \in Users \ moved PROVE Of(u, "reset", {"good"}) \subseteq window[email[u]]
  <2>1. ASSUME NEW i \in Of(u, "reset", {"good"}) PROVE i \in window[email[u]]
    <3>1. /\ i \in GoodResets /\ i \in Rows /\ row[i] # NoRow
          /\ row[i].kind = "reset" /\ row[i].user = u
      BY <2>1 DEF Of, GoodResets
    <3>2. sentTo[i] = email[u]
      BY <3>1 DEF KeptAddresses
    <3> QED
      BY <1>2, <3>1, <3>2
  <2> QED
    BY <2>1
<1>5. \A u \in Users : email[u] \in Addresses
  BY DEF TypeOK
<1> QED
  BY <1>1, <1>3, <1>4, <1>5

(* What is good after a change of state was good before. *)
LEMMA SetStateGood ==
    ASSUME TypeOK, NEW s \in States \ {"good"}, NEW S \in SUBSET Rows, \A i \in S : row[i] # NoRow,
           row' = SetState(S, s)
    PROVE  GoodResets' \subseteq GoodResets
<1>1. \A i \in S : row'[i].state = s
  BY SetStateOK
<1>2. \A i \in Rows \ S : row'[i] = row[i]
  BY SetStateOK
<1> QED
  BY <1>1, <1>2 DEF GoodResets

LEMMA WindowQuiet ==
    ASSUME GoodAreInWindow, UNCHANGED <<window, sentTo, forgotten>>, GoodResets' \subseteq GoodResets
    PROVE  GoodAreInWindow'
BY DEF GoodAreInWindow

LEMMA WindowInit == Init => WindowInv
<1> SUFFICES ASSUME Init PROVE GoodAreInWindow /\ KeptAddresses
  BY BaseInit DEF WindowInv
<1>1. Cardinality({}) = 0
  BY FS_EmptySet
<1>2. \A a \in Addresses : window[a] = {}
  BY DEF Init
<1>3. GoodResets = {} /\ \A i \in Rows : row[i] = NoRow
  BY DEF Init, GoodResets
<1>4. \A r \in Requests : req[r].next = "idle"
  BY DEF Init, Idle
<1>5. KeptAddresses
  BY <1>3, <1>4 DEF KeptAddresses
<1>6. GoodAreInWindow
  <2>1. \A a \in Addresses : Cardinality(window[a]) <= ResetLimit
    BY <1>1, <1>2, StoredCodesAssumption
  <2> QED
    BY <1>2, <1>3, <2>1 DEF GoodAreInWindow
<1> QED
  BY <1>5, <1>6

LEMMA RateLimitWindow ==
    ASSUME TypeOK, GoodAreInWindow, NEW r \in Requests, RateLimit(r)
    PROVE  GoodAreInWindow'
<1>1. /\ req[r].to \in Addresses
      /\ UNCHANGED <<row, forgotten>>
      /\ (\E i \in Fresh : LetIn(r, i)) \/ Refused(r)
  BY RateLimitCases
<1>2. GoodResets' = GoodResets
  BY <1>1 DEF GoodResets
<1>3. CASE Refused(r)
  BY <1>1, <1>2, <1>3, WindowQuiet DEF Refused
<1>4. CASE \E i \in Fresh : LetIn(r, i)
  <2>1. PICK i \in Fresh : LetIn(r, i)
    BY <1>4
  <2>2. PICK a \in Addresses : a = req[r].to
    BY <1>1
  <2>3. i \in Rows /\ \A b \in Addresses : i \notin window[b]
    BY DEF Fresh
  <2>4. Cardinality(window[a] \cup {i}) <= ResetLimit
    <3>1. Cardinality(window[a] \cup {i}) = Cardinality(window[a]) + 1
      BY <2>3, WindowFinite, FS_AddElement
    <3>2. Cardinality(window[a]) < ResetLimit
      BY <2>1, <2>2 DEF LetIn
    <3> QED
      BY <3>1, <3>2, WindowFinite, StoredCodesAssumption
  <2>5. /\ window'[a] = window[a] \cup {i}
        /\ \A b \in Addresses \ {a} : window'[b] = window[b]
        /\ sentTo'[i] = a
        /\ \A j \in Rows \ {i} : sentTo'[j] = sentTo[j]
    BY <2>1, <2>2, <2>3 DEF LetIn, TypeOK
  <2>6. \A b \in Addresses : Cardinality(window'[b]) <= ResetLimit
    BY <2>4, <2>5 DEF GoodAreInWindow
  <2>7. \A b \in Addresses : window[b] \subseteq window'[b] /\ window[b] \subseteq Rows
    BY <2>5 DEF TypeOK
  <2>8. \A b \in Addresses : \A j \in window'[b] : sentTo'[j] = b
    <3>1. \A b \in Addresses : \A j \in window[b] : sentTo'[j] = b
      BY <2>3, <2>5, <2>7 DEF GoodAreInWindow
    <3> QED
      BY <2>5, <3>1
  <2> QED
    BY <1>1, <1>2, <2>6, <2>7, <2>8 DEF GoodAreInWindow
<1> QED
  BY <1>1, <1>3, <1>4

LEMMA LeaveKeepsWindow ==
    ASSUME TypeOK, GoodAreInWindow, NEW a \in Addresses, NEW i \in Rows, LeaveWindow(a, i)
    PROVE  GoodAreInWindow'
<1>1. /\ LongWindow /\ row[i] # NoRow => row[i].state # "good"
      /\ window' = [window EXCEPT ![a] = window[a] \ {i}]
      /\ UNCHANGED <<row, sentTo, forgotten>>
  BY DEF LeaveWindow, history
<1>2. /\ window'[a] = window[a] \ {i}
      /\ \A b \in Addresses \ {a} : window'[b] = window[b]
  BY <1>1 DEF TypeOK
<1>3. Cardinality(window[a] \ {i}) <= ResetLimit
  <2>1. window[a] \ {i} \subseteq window[a]
    OBVIOUS
  <2>2. /\ Cardinality(window[a] \ {i}) <= Cardinality(window[a])
        /\ Cardinality(window[a] \ {i}) \in Nat
    BY <2>1, WindowFinite, FS_Subset, FS_CardinalityType
  <2>3. Cardinality(window[a]) <= ResetLimit
    BY DEF GoodAreInWindow
  <2> QED
    BY <2>2, <2>3, WindowFinite, StoredCodesAssumption
<1>4. GoodResets' = GoodResets /\ (LongWindow => i \notin GoodResets)
  BY <1>1 DEF GoodResets
<1>5. \A b \in Addresses : Cardinality(window'[b]) <= ResetLimit
  BY <1>2, <1>3 DEF GoodAreInWindow
<1>6. \A b \in Addresses : window[b] \ {i} \subseteq window'[b] /\ window'[b] \subseteq window[b]
  BY <1>2
<1>7. ASSUME LongWindow, ~forgotten, NEW j \in GoodResets PROVE \E b \in Addresses : j \in window'[b]
  BY <1>4, <1>6, <1>7 DEF GoodAreInWindow
<1>8. \A b \in Addresses : \A j \in window'[b] : sentTo'[j] = b
  BY <1>1, <1>6 DEF GoodAreInWindow
<1> QED
  BY <1>1, <1>4, <1>5, <1>7, <1>8 DEF GoodAreInWindow

LEMMA WindowNext == Base /\ GoodAreInWindow /\ [Next]_vars => GoodAreInWindow'
<1> SUFFICES ASSUME Base, GoodAreInWindow, [Next]_vars PROVE GoodAreInWindow'
  OBVIOUS
<1> TypeOK
  BY DEF Base
<1> USE DEF States
<1>1. ASSUME NEW r \in Requests, NEW u \in Users, GenerateDelete(r, u) PROVE GoodAreInWindow'
  <2>1. \A i \in Of(u, "recovery", States) : i \in Rows /\ row[i] # NoRow
    BY DEF Of
  <2>2. UNCHANGED <<window, sentTo, forgotten>>
    BY <1>1 DEF GenerateDelete
  <2> QED
    BY <1>1, <2>1, <2>2, SetStateGood, WindowQuiet DEF GenerateDelete
<1>2. ASSUME NEW r \in Requests, GenerateInsert(r) PROVE GoodAreInWindow'
  <2>1. PICK S \in SUBSET Fresh :
          row' = [i \in Rows |-> IF i \in S THEN Row(req[r].user, "recovery", "good") ELSE row[i]]
    BY <1>2 DEF GenerateInsert
  <2>2. Doing(r, "insert") /\ UNCHANGED <<window, sentTo, forgotten>>
    BY <1>2 DEF GenerateInsert
  <2>3. /\ \A i \in S : row'[i].kind = "recovery"
        /\ \A i \in Rows \ S : row'[i] = row[i]
    BY <2>1, <2>2, InsertRows
  <2>4. GoodResets' \subseteq GoodResets
    BY <2>3 DEF GoodResets
  <2> QED
    BY <2>2, <2>4, WindowQuiet
<1>3. ASSUME NEW r \in Requests, IssueReset(r) PROVE GoodAreInWindow'
  <2>1. PICK i \in Rows : i = req[r].row
    <3>1. Doing(r, "issue")
      BY <1>3 DEF IssueReset
    <3> QED
      BY <3>1, RequestFields
  <2>2. /\ \A j \in Rows \ {i} : row'[j] = row[j]
        /\ LongWindow /\ row'[i].state = "good" => \E a \in Addresses : i \in window[a]
    BY <1>3, <2>1, IssueRows
  <2>3. UNCHANGED <<window, sentTo, forgotten>>
    BY <1>3 DEF IssueReset, history
  <2>4. ASSUME LongWindow, ~forgotten, NEW j \in GoodResets'
        PROVE  \E a \in Addresses : j \in window[a]
    <3>1. CASE j = i
      BY <2>2, <2>4, <3>1 DEF GoodResets
    <3>2. CASE j # i
      <4>1. j \in GoodResets
        BY <2>2, <2>4, <3>2 DEF GoodResets
      <4> QED
        BY <2>4, <4>1 DEF GoodAreInWindow
    <3> QED
      BY <3>1, <3>2
  <2> QED
    BY <2>3, <2>4 DEF GoodAreInWindow
<1>4. ASSUME NEW r \in Requests, Use(r) PROVE GoodAreInWindow'
  <2>1. Doing(r, "mark") /\ UNCHANGED <<window, sentTo, forgotten>>
    BY <1>4 DEF Use
  <2>2. req[r].row \in Rows /\ row[req[r].row] # NoRow
    BY <2>1, RequestFields
  <2>3. CASE row' = SetState({req[r].row}, "used")
    BY <2>1, <2>2, <2>3, SetStateGood, WindowQuiet
  <2>4. CASE row' = row
    BY <2>1, <2>4, WindowQuiet DEF GoodResets
  <2> QED
    BY <1>4, <2>3, <2>4 DEF Use
<1>5. ASSUME NEW i \in Rows, Expire(i) PROVE GoodAreInWindow'
  <2>1. /\ row[i] # NoRow /\ row' = SetState({i}, "expired")
        /\ UNCHANGED <<window, sentTo, forgotten>>
    BY <1>5 DEF Expire, history
  <2> QED
    BY <2>1, SetStateGood, WindowQuiet
<1>6. CASE Restart
  <2>1. Cardinality({}) = 0
    BY FS_EmptySet
  <2> QED
    BY <1>6, <2>1, StoredCodesAssumption DEF Restart, GoodAreInWindow
<1>7. CASE UNCHANGED <<row, window, sentTo, forgotten>>
  BY <1>7, WindowQuiet DEF GoodResets
<1> QED
  BY <1>1, <1>2, <1>3, <1>4, <1>5, <1>6, <1>7, RateLimitWindow, LeaveKeepsWindow
     DEF Next, Arrive, Step, RequestReset, ChangeEmail, Abort, Find, vars, history

(* Steps that ask for no code and insert no reset row. *)
LEMMA AddressQuiet ==
    ASSUME KeptAddresses, UNCHANGED <<email, moved, sentTo>>, RowsKept,
           \A i \in Rows : row[i] = NoRow /\ row'[i] # NoRow => row'[i].kind # "reset",
           \A q \in Requests : req'[q] = req[q] \/ req'[q].next \notin {"limit", "issue"}
    PROVE  KeptAddresses'
<1>1. \A i \in Rows : row'[i] # NoRow /\ row'[i].kind = "reset" =>
          row[i] # NoRow /\ row[i].kind = "reset" /\ row[i].user = row'[i].user
  BY DEF RowsKept
<1> QED
  BY <1>1 DEF KeptAddresses

LEMMA AddressNext == Base /\ KeptAddresses /\ [Next]_vars => KeptAddresses'
<1> SUFFICES ASSUME Base, KeptAddresses, [Next]_vars PROVE KeptAddresses'
  OBVIOUS
<1> TypeOK /\ IdsAreGivenOnce
  BY DEF Base
<1>1. ASSUME NEW r \in Requests, NEW u \in Users, GenerateDelete(r, u) PROVE KeptAddresses'
  <2>1. \A q \in Requests : req'[q] = req[q] \/ req'[q].next \notin {"limit", "issue"}
    BY <1>1, BeginFields DEF GenerateDelete
  <2>2. \A i \in Of(u, "recovery", States) : i \in Rows /\ row[i] # NoRow
    BY DEF Of
  <2>3. RowsKept /\ \A i \in Rows : row[i] = NoRow => row'[i] = NoRow
    BY <1>1, <2>2, SetStateKeeps DEF GenerateDelete, States
  <2> QED
    BY <1>1, <2>1, <2>3, AddressQuiet DEF GenerateDelete
<1>2. ASSUME NEW r \in Requests, GenerateInsert(r) PROVE KeptAddresses'
  <2>1. PICK S \in SUBSET Fresh :
          row' = [i \in Rows |-> IF i \in S THEN Row(req[r].user, "recovery", "good") ELSE row[i]]
    BY <1>2 DEF GenerateInsert
  <2>2. Doing(r, "insert") /\ UNCHANGED <<email, moved, sentTo>>
    BY <1>2 DEF GenerateInsert
  <2>3. /\ \A i \in S : row'[i].kind = "recovery"
        /\ \A i \in Rows \ S : row'[i] = row[i]
        /\ RowsKept
    BY <2>1, <2>2, InsertRows
  <2>4. \A q \in Requests : req'[q] = req[q] \/ req'[q].next \notin {"limit", "issue"}
    BY <1>2, DoneFields DEF GenerateInsert
  <2>5. \A i \in Rows : row[i] = NoRow /\ row'[i] # NoRow => row'[i].kind # "reset"
    BY <2>3
  <2> QED
    BY <2>2, <2>3, <2>4, <2>5, AddressQuiet
<1>3. ASSUME NEW r \in Requests, NEW u \in Users, RequestReset(r, u) PROVE KeptAddresses'
  <2>1. /\ req'[r].next = "limit" /\ req'[r].user = u /\ req'[r].to = email[u]
        /\ \A q \in Requests \ {r} : req'[q] = req[q]
        /\ UNCHANGED <<row, email, moved, sentTo>>
    BY <1>3, RequestResetFields DEF history
  <2> QED
    BY <2>1 DEF KeptAddresses
<1>4. ASSUME NEW r \in Requests, RateLimit(r) PROVE KeptAddresses'
  <2>1. /\ req[r].next = "limit"
        /\ UNCHANGED <<row, email, moved>>
        /\ (\E i \in Fresh : LetIn(r, i)) \/ Refused(r)
    BY <1>4, RateLimitCases
  <2>2. CASE Refused(r)
    BY <2>1, <2>2 DEF Refused, KeptAddresses
  <2>3. CASE \E i \in Fresh : LetIn(r, i)
    <3>1. PICK i \in Fresh : LetIn(r, i)
      BY <2>3
    <3>2. i \in Rows /\ row[i] = NoRow /\ \A q \in Requests : req[q].row # i
      BY DEF Fresh
    <3>3. /\ sentTo'[i] = req[r].to
          /\ \A j \in Rows \ {i} : sentTo'[j] = sentTo[j]
          /\ req'[r].next = "issue" /\ req'[r].user = req[r].user /\ req'[r].row = i
          /\ \A q \in Requests \ {r} : req'[q] = req[q]
      BY <3>1, <3>2 DEF LetIn, TypeOK
    <3>4. \A q \in Requests : req[q].next = "issue" => req[q].row \in Rows \ {i}
      BY <3>2 DEF TypeOK, Doing
    <3>5. \A q \in Requests : req'[q].next = "issue" /\ req'[q].user \notin moved =>
             sentTo'[req'[q].row] = email[req'[q].user]
      BY <2>1, <3>3, <3>4 DEF KeptAddresses
    <3>6. \A q \in Requests : req'[q].next = "limit" => req'[q] = req[q]
      BY <3>3
    <3>7. \A j \in Rows : row[j] # NoRow => sentTo'[j] = sentTo[j]
      BY <3>2, <3>3
    <3> QED
      BY <2>1, <3>5, <3>6, <3>7 DEF KeptAddresses
  <2> QED
    BY <2>1, <2>2, <2>3
<1>5. ASSUME NEW r \in Requests, IssueReset(r) PROVE KeptAddresses'
  <2>1. req[r].next = "issue" /\ UNCHANGED <<email, moved, sentTo>>
    BY <1>5 DEF IssueReset, history, Doing
  <2>2. PICK i \in Rows : i = req[r].row
    <3>1. Doing(r, "issue")
      BY <1>5 DEF IssueReset
    <3> QED
      BY <3>1, RequestFields
  <2>3. /\ \A j \in Rows \ {i} : row'[j] = row[j]
        /\ row'[i].user = req[r].user
    BY <1>5, <2>2, IssueRows
  <2>4. \A q \in Requests : req'[q] = req[q] \/ req'[q].next = "idle"
    BY <1>5, DoneFields DEF IssueReset
  <2>5. req[r].user \notin moved => sentTo[i] = email[req[r].user]
    BY <2>1, <2>2 DEF KeptAddresses
  <2>6. \A j \in Rows : row'[j] # NoRow /\ row'[j].kind = "reset" /\ row'[j].user \notin moved =>
          sentTo[j] = email[row'[j].user]
    BY <2>3, <2>5 DEF KeptAddresses
  <2> QED
    BY <2>1, <2>4, <2>6 DEF KeptAddresses
<1>6. ASSUME NEW r \in Requests, NEW i \in Rows, Find(r, i) PROVE KeptAddresses'
  <2>1. row[i].user \in Users
    BY <1>6 DEF Find, TypeOK, AllRows
  <2>2. \A q \in Requests : req'[q] = req[q] \/ req'[q].next = "mark"
    BY <1>6, <2>1, BeginFields DEF Find
  <2> QED
    BY <1>6, <2>2 DEF Find, KeptAddresses
<1>7. ASSUME NEW r \in Requests, Use(r) PROVE KeptAddresses'
  <2>1. \A q \in Requests : req'[q] = req[q] \/ req'[q].next = "idle"
    BY <1>7, DoneFields DEF Use
  <2>2. RowsKept /\ \A i \in Rows : row[i] = NoRow => row'[i] = NoRow
    BY <1>7, UseBase
  <2> QED
    BY <1>7, <2>1, <2>2, AddressQuiet DEF Use
<1>8. ASSUME NEW u \in Users, NEW a \in Addresses, ChangeEmail(u, a) PROVE KeptAddresses'
  <2>1. /\ moved' = moved \cup {u} /\ UNCHANGED <<row, req, sentTo>>
        /\ \A v \in Users \ {u} : email'[v] = email[v]
    BY <1>8 DEF ChangeEmail, TypeOK
  <2>2. \A i \in Rows : row[i] # NoRow => row[i].user \in Users
    BY DEF TypeOK, AllRows
  <2>3. \A q \in Requests : req[q].next \in {"limit", "issue"} => req[q].user \in Users
    BY RequestFields DEF Doing
  <2> QED
    BY <2>1, <2>2, <2>3 DEF KeptAddresses
<1>9. ASSUME \/ \E r \in Requests : Abort(r)
             \/ \E i \in Rows : Expire(i) \/ \E a \in Addresses : LeaveWindow(a, i)
             \/ Restart
             \/ UNCHANGED vars
      PROVE  KeptAddresses'
  <2>1. RowsKept /\ \A i \in Rows : row[i] = NoRow => row'[i] = NoRow
    BY <1>9, OtherBase
  <2>2. UNCHANGED <<email, moved, sentTo>>
    BY <1>9 DEF Abort, Expire, LeaveWindow, Restart, vars, history
  <2>3. \A q \in Requests : req'[q] = req[q] \/ req'[q].next = "idle"
    <3>1. CASE \E r \in Requests : Abort(r)
      BY <3>1, DoneFields DEF Abort
    <3>2. CASE Restart
      BY <3>2 DEF Restart, Idle
    <3>3. CASE UNCHANGED req
      BY <3>3
    <3> QED
      BY <1>9, <3>1, <3>2, <3>3 DEF Expire, LeaveWindow, vars
  <2> QED
    BY <2>1, <2>2, <2>3, AddressQuiet
<1> QED
  BY <1>1, <1>2, <1>3, <1>4, <1>5, <1>6, <1>7, <1>8, <1>9 DEF Next, Arrive, Step

(* As long as the process runs, and where its window is longer than the life
   of a code, the good reset codes mailed to one address, and those of a user
   who keeps the address, are no more than the rate limit. *)
THEOREM ResetCodesAreFew == Spec => []FewGoodResetCodes
<1>1. WindowInv /\ [Next]_vars => WindowInv'
  BY BaseNext, WindowNext, AddressNext DEF WindowInv
<1> QED
  BY <1>1, WindowInit, WindowBounds, PTL DEF Spec

-----------------------------------------------------------------------------
(* A user's recovery codes are one set.  CodesAreOneSet needs beside it that
   one generation at a time is under way for a user who is not disturbed. *)
Held(u) == Of(u, "recovery", States \ {"deleted"})

OneGeneration ==
    \A u \in Users \ disturbed : \A r, q \in Generating(u) : r = q

SetInv == Base /\ CodesAreOneSet /\ OneGeneration

LEMMA SetQuiet ==
    ASSUME CodesAreOneSet, OneGeneration, UNCHANGED setOf, disturbed \subseteq disturbed',
           \A u \in Users : Held(u)' = Held(u) /\ Generating(u)' \subseteq Generating(u)
    PROVE  CodesAreOneSet' /\ OneGeneration'
<1>1. OneGeneration'
  BY DEF OneGeneration
<1>2. CodesAreOneSet'
  BY DEF CodesAreOneSet, Held
<1> QED
  BY <1>1, <1>2

(* A change of state from good to used or expired keeps the codes held. *)
LEMMA SetStateHeld ==
    ASSUME TypeOK, NEW s \in {"used", "expired"}, NEW i \in Rows, row[i] # NoRow,
           row[i].state # "deleted", row' = SetState({i}, s)
    PROVE  \A u \in Users : Held(u)' = Held(u)
<1>1. s \in States /\ s # "deleted"
  BY DEF States
<1>2. /\ row'[i] # NoRow /\ row'[i].user = row[i].user /\ row'[i].kind = row[i].kind
      /\ row'[i].state = s
      /\ \A j \in Rows \ {i} : row'[j] = row[j]
  BY <1>1, SetStateOK
<1>3. row[i].state \in States \ {"deleted"}
  BY DEF TypeOK, AllRows
<1>4. ASSUME NEW u \in Users, NEW j \in Rows PROVE j \in Held(u)' <=> j \in Held(u)
  <2>1. CASE j = i
    BY <1>1, <1>2, <1>3, <2>1 DEF Held, Of
  <2>2. CASE j # i
    BY <1>2, <2>2 DEF Held, Of
  <2> QED
    BY <2>1, <2>2
<1> QED
  BY <1>4 DEF Held, Of

LEMMA GenerateKeepsSet ==
    ASSUME SetInv, NEW r \in Requests, NEW u \in Users, GenerateDelete(r, u)
    PROVE  CodesAreOneSet' /\ OneGeneration'
<1> Base /\ TypeOK /\ CodesAreOneSet /\ OneGeneration
  BY DEF SetInv, Base
<1> DEFINE S == Of(u, "recovery", States)
<1>1. /\ req'[r].next = "insert" /\ req'[r].user = u
      /\ \A q \in Requests \ {r} : req'[q] = req[q]
      /\ req[r].next = "idle"
  BY BeginFields DEF GenerateDelete
<1>2. row' = SetState(S, "deleted") /\ setOf' = setOf
  BY DEF GenerateDelete
<1>3. disturbed' = IF Generating(u) # {} THEN disturbed \cup {u} ELSE disturbed
  BY DEF GenerateDelete
<1>4. Generating(u)' = Generating(u) \cup {r}
  BY <1>1 DEF Generating, Doing
<1>5. \A v \in Users \ {u} : Generating(v)' = Generating(v)
  BY <1>1 DEF Generating, Doing
<1>6. S \in SUBSET Rows /\ "deleted" \in States /\ \A i \in S : row[i] # NoRow
  BY DEF Of, States
<1>7. /\ \A i \in S : row'[i].state = "deleted"
      /\ \A i \in Rows \ S : row'[i] = row[i]
  <2> HIDE DEF S
  <2> QED
    BY <1>2, <1>6, SetStateOK
<1>8. Held(u)' = {}
  <2>1. ASSUME NEW i \in Held(u)' PROVE FALSE
    <3>1. i \in Rows /\ row'[i].state # "deleted" /\ row'[i] # NoRow
          /\ row'[i].user = u /\ row'[i].kind = "recovery" /\ row'[i].state \in States
      BY <2>1 DEF Held, Of
    <3>2. row'[i] = row[i] /\ i \notin S
      BY <1>7, <3>1
    <3> QED
      BY <3>1, <3>2 DEF Of
  <2> QED
    BY <2>1
<1>9. \A v \in Users \ {u} : Held(v)' = Held(v)
  <2>1. ASSUME NEW v \in Users \ {u}, NEW i \in Rows PROVE i \in Held(v)' <=> i \in Held(v)
    <3>1. CASE i \in S
      <4>1. row[i].user = u
        BY <3>1 DEF Of
      <4>2. row'[i].state = "deleted"
        BY <1>7, <3>1
      <4> QED
        BY <4>1, <4>2 DEF Held, Of
    <3>2. CASE i \notin S
      BY <1>7, <3>2 DEF Held, Of
    <3> QED
      BY <3>1, <3>2
  <2> QED
    BY <2>1 DEF Held, Of
<1>10. OneGeneration'
  <2>1. ASSUME NEW v \in Users, v \notin disturbed' PROVE \A p, q \in Generating(v)' : p = q
    BY <1>3, <1>4, <1>5, <2>1 DEF OneGeneration
  <2> QED
    BY <2>1 DEF OneGeneration
<1>11. CodesAreOneSet'
  <2>1. ASSUME NEW v \in Users, v \notin disturbed', Held(v)' # {}
        PROVE  /\ Generating(v)' = {}
               /\ Cardinality(Held(v)') = SetSize
               /\ \A i, j \in Held(v)' : setOf'[i] = setOf'[j]
    <3>1. v # u /\ v \notin disturbed
      BY <1>3, <1>8, <2>1
    <3>2. Held(v)' = Held(v) /\ Generating(v)' = Generating(v)
      BY <1>5, <1>9, <3>1
    <3>3. /\ Generating(v) = {}
          /\ Cardinality(Held(v)) = SetSize
          /\ \A i, j \in Held(v) : setOf[i] = setOf[j]
      BY <2>1, <3>1, <3>2 DEF CodesAreOneSet, Held
    <3> QED
      BY <1>2, <3>2, <3>3
  <2> QED
    BY <2>1 DEF CodesAreOneSet, Held
<1> QED
  BY <1>10, <1>11

LEMMA InsertKeepsSet ==
    ASSUME SetInv, NEW r \in Requests, GenerateInsert(r)
    PROVE  CodesAreOneSet' /\ OneGeneration'
<1> Base /\ TypeOK /\ CodesAreOneSet /\ OneGeneration
  BY DEF SetInv, Base
<1>1. Doing(r, "insert") /\ disturbed' = disturbed
  BY DEF GenerateInsert
<1>2. PICK u \in Users : u = req[r].user
  BY <1>1, RequestFields
<1>3. PICK S \in SUBSET Fresh :
        /\ Cardinality(S) = SetSize
        /\ row' = [i \in Rows |-> IF i \in S THEN Row(req[r].user, "recovery", "good") ELSE row[i]]
        /\ \E name \in S : setOf' = [i \in Rows |-> IF i \in S THEN name ELSE setOf[i]]
  BY DEF GenerateInsert
<1>4. /\ req'[r].next = "idle"
      /\ \A q \in Requests \ {r} : req'[q] = req[q]
  BY DoneFields DEF GenerateInsert
<1>5. /\ \A i \in S : /\ i \in Rows /\ row[i] = NoRow /\ row'[i] # NoRow
                     /\ row'[i].user = u /\ row'[i].kind = "recovery" /\ row'[i].state = "good"
      /\ \A i \in Rows \ S : row'[i] = row[i]
  BY <1>1, <1>2, <1>3, InsertRows
<1>6. \A v \in Users : Generating(v)' \subseteq Generating(v) \ {r}
  BY <1>4 DEF Generating, Doing
<1>7. r \in Generating(u)
  BY <1>1, <1>2 DEF Generating
<1>8. \A v \in Users \ {u} : Held(v)' = Held(v)
  <2>1. ASSUME NEW v \in Users \ {u}, NEW i \in Rows PROVE i \in Held(v)' <=> i \in Held(v)
    <3>1. CASE i \in S
      BY <1>5, <3>1 DEF Held, Of
    <3>2. CASE i \notin S
      BY <1>5, <3>2 DEF Held, Of
    <3> QED
      BY <3>1, <3>2
  <2> QED
    BY <2>1 DEF Held, Of
<1>9. Held(u) = {} => Held(u)' = S
  <2>1. ASSUME NEW i \in S PROVE i \in Held(u)'
    BY <1>5, <2>1 DEF Held, Of, States
  <2>2. ASSUME Held(u) = {}, NEW i \in Held(u)', i \notin S PROVE FALSE
    BY <1>5, <2>2 DEF Held, Of
  <2> QED
    BY <2>1, <2>2
<1>10. OneGeneration'
  BY <1>1, <1>6 DEF OneGeneration
<1>11. ASSUME NEW v \in Users, v \notin disturbed', Held(v)' # {}
       PROVE  /\ Generating(v)' = {}
              /\ Cardinality(Held(v)') = SetSize
              /\ \A i, j \in Held(v)' : setOf'[i] = setOf'[j]
  <2>1. CASE v = u
    <3>1. Held(u) = {}
      BY <1>1, <1>7, <1>11, <2>1 DEF CodesAreOneSet, Held
    <3>2. Generating(u)' = {}
      BY <1>1, <1>6, <1>7, <1>11, <2>1 DEF OneGeneration
    <3>3. \A i, j \in S : setOf'[i] = setOf'[j]
      BY <1>3, <1>5
    <3> QED
      BY <1>3, <1>9, <2>1, <3>1, <3>2, <3>3
  <2>2. CASE v # u
    <3>1. Held(v)' = Held(v)
      BY <1>8, <2>2
    <3>2. \A i \in Held(v) : i \in Rows /\ i \notin S
      BY <1>5 DEF Held, Of
    <3>3. \A i \in Held(v) : setOf'[i] = setOf[i]
      BY <1>3, <3>2
    <3>4. /\ Generating(v) = {}
          /\ Cardinality(Held(v)) = SetSize
          /\ \A i, j \in Held(v) : setOf[i] = setOf[j]
      BY <1>1, <1>11, <3>1 DEF CodesAreOneSet, Held
    <3> QED
      BY <1>6, <3>1, <3>3, <3>4
  <2> QED
    BY <2>1, <2>2
<1>12. CodesAreOneSet'
  BY <1>11 DEF CodesAreOneSet, Held
<1> QED
  BY <1>10, <1>12

LEMMA SetInit == Init => SetInv
<1> SUFFICES ASSUME Init PROVE CodesAreOneSet /\ OneGeneration
  BY BaseInit DEF SetInv
<1>1. \A u \in Users : Held(u) = {} /\ Generating(u) = {}
  BY DEF Init, Held, Of, Generating, Doing, Idle
<1> QED
  BY <1>1 DEF CodesAreOneSet, OneGeneration, Held

LEMMA SetNext == SetInv /\ [Next]_vars => SetInv'
<1> SUFFICES ASSUME SetInv, [Next]_vars PROVE CodesAreOneSet' /\ OneGeneration'
  BY BaseNext DEF SetInv
<1> Base /\ TypeOK /\ CodesAreOneSet /\ OneGeneration
  BY DEF SetInv, Base
<1>1. ASSUME UNCHANGED setOf, disturbed \subseteq disturbed',
             \A q \in Requests : req'[q] = req[q] \/ req'[q].next # "insert",
             \A u \in Users : Held(u)' = Held(u)
      PROVE  CodesAreOneSet' /\ OneGeneration'
  <2>1. \A u \in Users : Generating(u)' \subseteq Generating(u)
    BY <1>1 DEF Generating, Doing
  <2> QED
    BY <1>1, <2>1, SetQuiet
<1>2. ASSUME NEW r \in Requests, NEW u \in Users, RequestReset(r, u)
      PROVE  CodesAreOneSet' /\ OneGeneration'
  <2>1. /\ \A q \in Requests : req'[q] = req[q] \/ req'[q].next # "insert"
        /\ UNCHANGED <<row, history>>
    BY <1>2, RequestResetFields
  <2>2. \A v \in Users : Held(v)' = Held(v)
    BY <2>1 DEF Held, Of
  <2> QED
    BY <1>1, <2>1, <2>2 DEF history
<1>10. ASSUME NEW r \in Requests, RateLimit(r)
       PROVE  CodesAreOneSet' /\ OneGeneration'
  <2>1. /\ \A q \in Requests : req'[q] = req[q] \/ req'[q].next # "insert"
        /\ UNCHANGED <<row, setOf, disturbed>>
    BY <1>10, RateLimitCases DEF LetIn, Refused
  <2>2. \A v \in Users : Held(v)' = Held(v)
    BY <2>1 DEF Held, Of
  <2> QED
    BY <1>1, <2>1, <2>2
<1>3. ASSUME NEW r \in Requests, IssueReset(r)
      PROVE  CodesAreOneSet' /\ OneGeneration'
  <2>1. \A q \in Requests : req'[q] = req[q] \/ req'[q].next # "insert"
    BY <1>3, DoneFields DEF IssueReset
  <2>2. ASSUME NEW u \in Users, NEW j \in Rows PROVE j \in Held(u)' <=> j \in Held(u)
    <3>1. CASE j = req[r].row
      BY <1>3, <3>1, IssueRows DEF Held, Of
    <3>2. CASE j # req[r].row
      <4>1. row'[j] = row[j]
        BY <1>3, <3>2, IssueRows
      <4> QED
        BY <4>1 DEF Held, Of
    <3> QED
      BY <3>1, <3>2
  <2>3. \A u \in Users : Held(u)' = Held(u)
    BY <2>2 DEF Held, Of
  <2> QED
    BY <1>1, <1>3, <2>1, <2>3 DEF IssueReset, history
<1>4. ASSUME NEW r \in Requests, NEW i \in Rows, Find(r, i)
      PROVE  CodesAreOneSet' /\ OneGeneration'
  <2>1. row[i].user \in Users
    BY <1>4 DEF Find, TypeOK, AllRows
  <2>2. \A q \in Requests : req'[q] = req[q] \/ req'[q].next # "insert"
    BY <1>4, <2>1, BeginFields DEF Find
  <2>3. \A v \in Users : Held(v)' = Held(v)
    BY <1>4 DEF Find, Held, Of
  <2> QED
    BY <1>1, <1>4, <2>2, <2>3 DEF Find
<1>5. ASSUME NEW r \in Requests, Use(r)
      PROVE  CodesAreOneSet' /\ OneGeneration'
  <2>1. \A q \in Requests : req'[q] = req[q] \/ req'[q].next # "insert"
    BY <1>5, DoneFields DEF Use
  <2>2. \A u \in Users : Held(u)' = Held(u)
    <3>1. Doing(r, "mark")
      BY <1>5 DEF Use
    <3>2. req[r].row \in Rows /\ row[req[r].row] # NoRow
      BY <3>1, RequestFields
    <3>3. CASE row[req[r].row].state = "deleted"
      BY <1>5, <3>3 DEF Use, Held, Of
    <3>4. CASE row[req[r].row].state # "deleted"
      <4>1. row' = SetState({req[r].row}, "used")
        BY <1>5, <3>4 DEF Use
      <4> QED
        BY <3>2, <3>4, <4>1, SetStateHeld
    <3> QED
      BY <3>3, <3>4
  <2> QED
    BY <1>1, <1>5, <2>1, <2>2 DEF Use
<1>6. ASSUME NEW i \in Rows, Expire(i)
      PROVE  CodesAreOneSet' /\ OneGeneration'
  <2>1. \A u \in Users : Held(u)' = Held(u)
    BY <1>6, SetStateHeld DEF Expire
  <2> QED
    BY <1>1, <1>6, <2>1 DEF Expire, history
<1>7. ASSUME NEW r \in Requests, Abort(r)
      PROVE  CodesAreOneSet' /\ OneGeneration'
  <2>1. \A q \in Requests : req'[q] = req[q] \/ req'[q].next # "insert"
    BY <1>7, DoneFields DEF Abort
  <2>2. \A u \in Users : Held(u)' = Held(u)
    BY <1>7 DEF Abort, Held, Of
  <2> QED
    BY <1>1, <1>7, <2>1, <2>2 DEF Abort
<1>8. CASE Restart
  <2>1. \A q \in Requests : req'[q] = req[q] \/ req'[q].next # "insert"
    BY <1>8 DEF Restart, Idle
  <2>2. \A u \in Users : Held(u)' = Held(u)
    BY <1>8 DEF Restart, Held, Of
  <2> QED
    BY <1>1, <1>8, <2>1, <2>2 DEF Restart
<1>9. CASE UNCHANGED <<row, req, setOf, disturbed>>
  <2>1. \A u \in Users : Held(u)' = Held(u)
    BY <1>9 DEF Held, Of
  <2> QED
    BY <1>1, <1>9, <2>1
<1> QED
  BY <1>2, <1>3, <1>4, <1>5, <1>6, <1>7, <1>8, <1>9, <1>10, GenerateKeepsSet, InsertKeepsSet
     DEF Next, Arrive, Step, LeaveWindow, ChangeEmail, vars, history

(* A user's recovery codes are the complete set of one generation, unless
   two generations overlapped or one was cut between its statements. *)
THEOREM OneSetOfCodes == Spec => []CodesAreOneSet
<1>1. SetInv => CodesAreOneSet
  BY DEF SetInv
<1> QED
  BY <1>1, SetInit, SetNext, PTL DEF Spec

-----------------------------------------------------------------------------
(* The stores of e-mailed codes, for any keys, codes and times to live. *)

(* A due time is a time of the model. *)
LEMMA DueTimes == ASSUME NEW t \in 0 .. MaxTime PROVE t + TTL \in Times
BY OtpStoreAssumption DEF Times

(* All four variables keep their types, under every action of the stores. *)
THEOREM OtpTypeCorrect == OtpSpec => []OtpTypeOK
<1>1. OtpInit => OtpTypeOK
  <2> SUFFICES ASSUME OtpInit PROVE OtpTypeOK
    OBVIOUS
  <2>1. now \in Times
    BY OtpStoreAssumption DEF OtpInit, Times
  <2> QED
    BY <2>1, OtpStoreAssumption DEF OtpInit, OtpTypeOK
<1>2. OtpTypeOK /\ [OtpNext]_otpVars => OtpTypeOK'
  <2> SUFFICES ASSUME OtpTypeOK, [OtpNext]_otpVars PROVE OtpTypeOK'
    OBVIOUS
  <2>1. ASSUME NEW k \in Keys, NEW c \in Codes, Create(k, c) PROVE OtpTypeOK'
    <3>1. now \in 0 .. MaxTime /\ now + TTL \in Times
      BY <2>1, OtpStoreAssumption DEF OtpTypeOK, Create, Times
    <3>2. Entry(c, now) \in Entries
      BY <3>1 DEF Entry, Entries
    <3>3. timers[k][now + TTL] + 1 \in 0 .. MaxTimers
      BY <2>1, <3>1, OtpStoreAssumption DEF OtpTypeOK, Create
    <3>4. timers' \in [Keys -> [Times -> 0 .. MaxTimers]]
      BY <2>1, <3>1, <3>3 DEF OtpTypeOK, Create
    <3> QED
      BY <2>1, <3>2, <3>4 DEF OtpTypeOK, Create
  <2>2. ASSUME NEW k \in Keys, NEW c \in Codes, Verify(k, c) PROVE OtpTypeOK'
    BY <2>2 DEF OtpTypeOK, Verify, Delete
  <2>3. ASSUME NEW k \in Keys, NEW due \in Times, TimerFires(k, due) PROVE OtpTypeOK'
    <3>1. timers[k][due] - 1 \in 0 .. MaxTimers
      BY <2>3, OtpStoreAssumption DEF OtpTypeOK, TimerFires
    <3>2. timers' \in [Keys -> [Times -> 0 .. MaxTimers]]
      BY <2>3, <3>1 DEF OtpTypeOK, TimerFires
    <3> QED
      BY <2>3, <3>2 DEF OtpTypeOK, TimerFires, Delete
  <2>4. ASSUME RestartStores PROVE OtpTypeOK'
    BY <2>4, OtpStoreAssumption DEF OtpTypeOK, RestartStores
  <2>5. ASSUME Tick PROVE OtpTypeOK'
    <3>1. now + 1 \in Times
      BY <2>5, OtpStoreAssumption DEF OtpTypeOK, Tick, Times
    <3> QED
      BY <2>5, <3>1 DEF OtpTypeOK, Tick
  <2>6. ASSUME UNCHANGED otpVars PROVE OtpTypeOK'
    BY <2>6 DEF OtpTypeOK, otpVars
  <2> QED
    BY <2>1, <2>2, <2>3, <2>4, <2>5, <2>6 DEF OtpNext
<1> QED
  BY <1>1, <1>2, PTL DEF OtpSpec

(* A code that was used, replaced or never sent is not in the store: create
   replaces what is there and verify deletes what matched. *)
THEOREM UsedCodesAreGone == OtpSpec => []OnlyTheLastUnusedCode
<1>1. OtpInit => OnlyTheLastUnusedCode
  BY DEF OtpInit, OnlyTheLastUnusedCode
<1>2. OtpTypeOK /\ OnlyTheLastUnusedCode /\ [OtpNext]_otpVars => OnlyTheLastUnusedCode'
  <2> SUFFICES ASSUME OtpTypeOK, OnlyTheLastUnusedCode, [OtpNext]_otpVars
               PROVE  OnlyTheLastUnusedCode'
    OBVIOUS
  <2>1. ASSUME NEW k \in Keys, NEW c \in Codes, Create(k, c) PROVE OnlyTheLastUnusedCode'
    BY <2>1 DEF OtpTypeOK, OnlyTheLastUnusedCode, Create
  <2>2. ASSUME NEW k \in Keys, NEW c \in Codes, Verify(k, c) PROVE OnlyTheLastUnusedCode'
    <3> SUFFICES ASSUME NEW x \in Keys PROVE store'[x] \in {None, sent'[x]}
      BY DEF OnlyTheLastUnusedCode
    <3>1. CASE x = k
      BY <2>2, <3>1 DEF OtpTypeOK, Verify, Delete
    <3>2. CASE x # k
      <4>1. store'[x] = store[x] /\ sent'[x] = sent[x]
        BY <2>2, <3>2 DEF OtpTypeOK, Verify, Delete
      <4> QED
        BY <4>1 DEF OnlyTheLastUnusedCode
    <3> QED
      BY <3>1, <3>2
  <2>3. ASSUME NEW k \in Keys, NEW due \in Times, TimerFires(k, due) PROVE OnlyTheLastUnusedCode'
    BY <2>3 DEF OtpTypeOK, OnlyTheLastUnusedCode, TimerFires, Delete
  <2>4. ASSUME RestartStores PROVE OnlyTheLastUnusedCode'
    BY <2>4 DEF OnlyTheLastUnusedCode, RestartStores
  <2>5. ASSUME Tick \/ UNCHANGED otpVars PROVE OnlyTheLastUnusedCode'
    BY <2>5 DEF OnlyTheLastUnusedCode, Tick, otpVars
  <2> QED
    BY <2>1, <2>2, <2>3, <2>4, <2>5 DEF OtpNext
<1> QED
  BY <1>1, <1>2, OtpTypeCorrect, PTL DEF OtpSpec

(* Whatever timers of older codes do, an entry is there only together with
   its own timer. *)
THEOREM NoCodeStays == OtpSpec => []EveryCodeHasATimer
<1>1. OtpInit => EveryCodeHasATimer
  BY DEF OtpInit, EveryCodeHasATimer
<1>2. OtpTypeOK /\ EveryCodeHasATimer /\ [OtpNext]_otpVars => EveryCodeHasATimer'
  <2> SUFFICES ASSUME OtpTypeOK, EveryCodeHasATimer, [OtpNext]_otpVars,
                      NEW x \in Keys, store'[x] # None
               PROVE  timers'[x][store'[x].createdAt + TTL] > 0
    BY DEF EveryCodeHasATimer
  <2>1. ASSUME NEW k \in Keys, NEW c \in Codes, Create(k, c)
        PROVE  timers'[x][store'[x].createdAt + TTL] > 0
    <3>1. now \in 0 .. MaxTime /\ now + TTL \in Times
      BY <2>1, OtpStoreAssumption DEF OtpTypeOK, Create, Times
    <3>2. CASE x = k
      <4>1. store'[x] = Entry(c, now)
        BY <2>1, <3>2 DEF OtpTypeOK, Create
      <4>2. store'[x].createdAt = now
        BY <4>1 DEF Entry
      <4>3. timers'[x][now + TTL] = timers[x][now + TTL] + 1
        BY <2>1, <3>1, <3>2 DEF OtpTypeOK, Create
      <4>4. timers[x][now + TTL] \in 0 .. MaxTimers
        BY <3>1 DEF OtpTypeOK
      <4>5. timers'[x][now + TTL] > 0
        BY <4>3, <4>4
      <4> QED
        BY <4>2, <4>5
    <3>3. CASE x # k
      BY <2>1, <3>3 DEF OtpTypeOK, EveryCodeHasATimer, Create
    <3> QED
      BY <3>2, <3>3
  <2>2. ASSUME NEW k \in Keys, NEW c \in Codes, Verify(k, c)
        PROVE  timers'[x][store'[x].createdAt + TTL] > 0
    BY <2>2 DEF OtpTypeOK, EveryCodeHasATimer, Verify, Delete
  <2>3. ASSUME NEW k \in Keys, NEW due \in Times, TimerFires(k, due)
        PROVE  timers'[x][store'[x].createdAt + TTL] > 0
    <3>1. x # k
      BY <2>3 DEF OtpTypeOK, TimerFires, Delete
    <3> QED
      BY <2>3, <3>1 DEF OtpTypeOK, EveryCodeHasATimer, TimerFires, Delete
  <2>4. CASE RestartStores
    BY <2>4 DEF RestartStores
  <2>5. CASE Tick \/ UNCHANGED otpVars
    BY <2>5 DEF EveryCodeHasATimer, Tick, otpVars
  <2> QED
    BY <2>1, <2>2, <2>3, <2>4, <2>5 DEF OtpNext
<1> QED
  BY <1>1, <1>2, OtpTypeCorrect, PTL DEF OtpSpec
====
