---- MODULE MCAccountPages ----
(* A small instance of AccountPages for TLC: see MCAccountPages.cfg. *)
EXTENDS AccountPages, TLC

(* A user who signs up, confirms the address, forgets the password; one who
   gives Google and the password for ways in and takes them back; one who
   turns the second factor on and off; and one who deletes the account and
   restores it. *)
SomeJourneys ==
    {{"signup", "login", "verify", "forgot", "dashboard", "logout"},
     {"security", "login", "google", "set", "connect", "disconnect"},
     {"security", "login", "totp", "logout"},
     {"security", "login", "restore", "delete", "google"}}

(* No account, one with a password, one made with Google. *)
SomeStarts == {None, Account(TRUE, FALSE, TRUE), Account(FALSE, TRUE, TRUE)}

(* Calls are only told apart by what they ask for, and so are secrets. *)
Symmetry == Permutations(Calls) \cup Permutations(Secrets)
====
