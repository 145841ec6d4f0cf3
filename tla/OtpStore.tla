---- MODULE OtpStore ----
(***************************************************************************)
(* The in-memory stores of e-mailed one-time codes: RestoreOtpStore (key:  *)
(* e-mail address) and TwoFactorOtpStore (key: user id), the same code     *)
(* twice.  create stores a code and sets a timer that deletes, TTL later,  *)
(* whatever the store then holds for the key; verify looks at the age      *)
(* itself and deletes a code that matches.                                 *)
(*                                                                         *)
(* create, verify and a timer's callback run without interruption.  Time   *)
(* passes in ticks.  setTimeout runs a callback no earlier than its delay, *)
(* and later when the event loop is busy.                                  *)
(***************************************************************************)
EXTENDS Integers

CONSTANTS
    Keys,      \* e-mail addresses, or user ids
    Codes,     \* the codes that may be drawn: two draws may agree
    TTL,       \* TTL_MS, in ticks
    MaxTime,   \* bound: when the clock stops
    MaxTimers, \* bound: the timers of one key set in one tick
    None,      \* stands for "no entry"
    MayRestart \* TRUE when the process may restart

VARIABLES
    now,    \* Date.now()
    store,  \* key -> its entry, or None
    timers, \* key -> due time -> how many callbacks are set for then
    (* History, read by the properties and by no guard: *)
    sent    \* key -> the code sent last, until it is used, or None

otpVars == <<now, store, timers, sent>>

Times == 0 .. MaxTime + TTL
Entry(c, t) == [code |-> c, createdAt |-> t]
Entries == [code : Codes, createdAt : 0 .. MaxTime]

ASSUME OtpStoreAssumption ==
    /\ TTL \in Nat /\ MaxTime \in Nat /\ MaxTimers \in Nat
    /\ None \notin Entries
    /\ MayRestart \in BOOLEAN

Delete(k) == store' = [store EXCEPT ![k] = None]
Expired(e) == now - e.createdAt > TTL

Create(k, c) ==
    /\ now <= MaxTime
    /\ timers[k][now + TTL] < MaxTimers
    /\ store' = [store EXCEPT ![k] = Entry(c, now)]
    /\ timers' = [timers EXCEPT ![k][now + TTL] = @ + 1]
    /\ sent' = [sent EXCEPT ![k] = Entry(c, now)]
    /\ UNCHANGED now

(* Mutant: a code that matched can be used again. *)
VerifyAndKeep(k, c) ==
    /\ store[k] # None /\ ~Expired(store[k]) /\ store[k].code = c
    /\ sent' = [sent EXCEPT ![k] = None]
    /\ UNCHANGED <<now, store, timers>>

(* A code that matches is used up.  Another one leaves the entry alone. *)
Verify(k, c) ==
    /\ store[k] # None
    /\ Expired(store[k]) \/ store[k].code = c
    /\ Delete(k)
    /\ sent' = IF Expired(store[k]) THEN sent ELSE [sent EXCEPT ![k] = None]
    /\ UNCHANGED <<now, timers>>

(* Mutant: a callback runs again after it ran. *)
TimerFiresAgain(k, due) ==
    /\ due <= now
    /\ Delete(k)
    /\ timers' = [timers EXCEPT ![k][due] = @ - 1]
    /\ UNCHANGED <<now, sent>>

(* The callback set by some create. *)
TimerFires(k, due) ==
    /\ due <= now
    /\ timers[k][due] > 0
    /\ Delete(k)
    /\ timers' = [timers EXCEPT ![k][due] = @ - 1]
    /\ UNCHANGED <<now, sent>>

(* A restart empties the stores and forgets the timers. *)
RestartStores ==
    /\ MayRestart
    /\ store' = [k \in Keys |-> None]
    /\ timers' = [k \in Keys |-> [t \in Times |-> 0]]
    /\ UNCHANGED <<now, sent>>

Tick ==
    /\ now < MaxTime + TTL
    /\ now' = now + 1
    /\ UNCHANGED <<store, timers, sent>>

OtpInit ==
    /\ now = 0
    /\ store = [k \in Keys |-> None]
    /\ timers = [k \in Keys |-> [t \in Times |-> 0]]
    /\ sent = [k \in Keys |-> None]

OtpNext ==
    \/ Tick
    \/ RestartStores
    \/ \E k \in Keys : \/ \E c \in Codes : Create(k, c) \/ Verify(k, c)
                       \/ \E due \in Times : TimerFires(k, due)

OtpSpec == OtpInit /\ [][OtpNext]_otpVars

-----------------------------------------------------------------------------
(* Properties *)

(* Every variable has its type. *)
OtpTypeOK ==
    /\ now \in Times
    /\ store \in [Keys -> Entries \cup {None}]
    /\ timers \in [Keys -> [Times -> 0 .. MaxTimers]]
    /\ sent \in [Keys -> Entries \cup {None}]

(* What the store would accept is the code sent last, and not one that was
   used already. (create replaces, verify deletes, timers delete by key) *)
OnlyTheLastUnusedCode ==
    \A k \in Keys : store[k] \in {None, sent[k]}

(* No code stays in memory: while the store has one, a callback is set that
   will delete it, TTL after its creation at the latest. (the timers of
   replaced and used codes keep running, and may run first) *)
EveryCodeHasATimer ==
    \A k \in Keys : store[k] # None =>
        timers[k][store[k].createdAt + TTL] > 0
====
