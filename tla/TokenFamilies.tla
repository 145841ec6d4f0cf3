---- MODULE TokenFamilies ----
(***************************************************************************)
(* What a refresh-token family promises, without requests, rows or races.  *)
(* A family is opened with one token, and from then on it has one holder:  *)
(* the only token that can still be exchanged.  An exchange hands the      *)
(* family to a token never issued before.  A closed family stays closed.   *)
(*                                                                         *)
(* The one way out is Break: a family on which an exchange was carried out *)
(* for a token that was already revoked.  Nothing is promised about it     *)
(* any more.  Sessions.tla says when the code does that.                   *)
(***************************************************************************)
CONSTANTS
    Tokens,     \* the refresh tokens there can be
    Unborn,     \* the state of a family that was not opened yet
    Closed,     \* the state of a family without a holder
    Broken      \* the state of a family nothing is promised about

(* A family is named after its first token. *)
VARIABLES
    holder,     \* for each family: its holder, or one of the three states
    issued      \* the tokens issued so far

famVars == <<holder, issued>>

FamInit ==
    /\ holder = [f \in Tokens |-> Unborn]
    /\ issued = {}

Open(t) ==
    /\ t \notin issued
    /\ holder[t] = Unborn
    /\ holder' = [holder EXCEPT ![t] = t]
    /\ issued' = issued \cup {t}

(* The holder of f is exchanged for the fresh token t. *)
HandOver(f, t) ==
    /\ holder[f] \in issued
    /\ t \notin issued
    /\ holder' = [holder EXCEPT ![f] = t]
    /\ issued' = issued \cup {t}

(* Families are closed together: a user signs out everywhere. *)
Close(F) ==
    /\ \A f \in F : holder[f] \in issued
    /\ holder' = [f \in Tokens |-> IF f \in F THEN Closed ELSE holder[f]]
    /\ UNCHANGED issued

Break(f) ==
    /\ holder[f] # Unborn
    /\ holder' = [holder EXCEPT ![f] = Broken]
    /\ UNCHANGED issued

IssueInBroken(f, t) ==
    /\ holder[f] = Broken
    /\ t \notin issued
    /\ issued' = issued \cup {t}
    /\ UNCHANGED holder

FamNext ==
    \/ \E t \in Tokens : Open(t)
    \/ \E f, t \in Tokens : HandOver(f, t) \/ IssueInBroken(f, t)
    \/ \E F \in SUBSET Tokens : Close(F)
    \/ \E f \in Tokens : Break(f)

FamSpec == FamInit /\ [][FamNext]_famVars
====
