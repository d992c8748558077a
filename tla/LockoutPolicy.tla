--------------------------- MODULE LockoutPolicy ---------------------------
(***************************************************************************)
(* What the adaptive lockout promises, as app/security/brute_force.py      *)
(* states it: whoever gathers MaxFailed failures since the last success or *)
(* lockout is locked before anything else happens to any account, for a    *)
(* time that depends on the number of the lockout only. Requests are       *)
(* handled one after the other. Module Lockout with one worker implements  *)
(* this specification; RateLimit and LockoutSimulation build on it.        *)
(***************************************************************************)
EXTENDS Integers

CONSTANTS
    Users,        \* the accounts
    MaxFailed,    \* MAX_FAILED_ATTEMPTS
    Duration(_)   \* the seconds of the n-th lockout of an account

VARIABLES
    now,       \* the clock
    failures,  \* failures[u]: unsuccessful attempts since the last success or lockout
    number,    \* number[u]: how often the account has been locked
    until,     \* until[u]: when the newest lockout ends
    due,       \* the account that has to be locked next, if any
    deaths     \* how many requests have died half-way

policyVars == <<now, failures, number, until, due, deaths>>

PolicyInit ==
    /\ now = 0 /\ due = {} /\ deaths = 0
    /\ failures = [u \in Users |-> 0]
    /\ number = [u \in Users |-> 0]
    /\ until = [u \in Users |-> 0]

Locked(u) == until[u] > now

(* Wrong credentials were given for u.                                     *)
Fail(u) ==
    /\ due = {}
    /\ failures' = [failures EXCEPT ![u] = @ + 1]
    /\ due' = IF failures[u] + 1 >= MaxFailed THEN {u} ELSE {}
    /\ UNCHANGED <<now, number, until, deaths>>

(* A request was refused because u is, or was a moment ago, locked. It     *)
(* counts as a failure and locks nothing.                                  *)
Refuse(u) ==
    /\ due = {} /\ number[u] > 0
    /\ failures' = [failures EXCEPT ![u] = @ + 1]
    /\ UNCHANGED <<now, number, until, due, deaths>>

(* Credentials of u were right: "since their last success".                *)
Succeed(u) ==
    /\ due = {}
    /\ failures' = [failures EXCEPT ![u] = 0]
    /\ UNCHANGED <<now, number, until, due, deaths>>

(* The lockout that is due; its time has started to run a moment ago.      *)
Lock(u) ==
    /\ u \in due
    /\ due' = {}
    /\ failures' = [failures EXCEPT ![u] = 0]
    /\ number' = [number EXCEPT ![u] = @ + 1]
    /\ \E t \in 0..now : until' = [until EXCEPT ![u] = t + Duration(number[u] + 1)]
    /\ UNCHANGED <<now, deaths>>

(* An administrator, or the simulation, ends the newest lockout of u.      *)
Unlock(u) ==
    /\ due = {} /\ number[u] > 0
    /\ \E t \in 0..now : until' = [until EXCEPT ![u] = t]
    /\ UNCHANGED <<now, failures, number, due, deaths>>

(* A request dies, and with it the lockout that was due.                   *)
Die ==
    /\ deaths' = deaths + 1
    /\ due' = {}
    /\ UNCHANGED <<now, failures, number, until>>

Pass ==
    /\ now' > now
    /\ UNCHANGED <<failures, number, until, due, deaths>>

PolicyNext ==
    \/ \E u \in Users : Fail(u) \/ Refuse(u) \/ Succeed(u) \/ Lock(u) \/ Unlock(u)
    \/ Die \/ Pass

PolicySpec == PolicyInit /\ [][PolicyNext]_policyVars

=============================================================================
