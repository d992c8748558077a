----------------------------- MODULE RateLimit -----------------------------
(***************************************************************************)
(* The rate limits of POST /login (Flask-Limiter, config.py) in front of   *)
(* the lockout. A request is counted under its client address and under    *)
(* the username it gives, lower-cased, in fixed windows that start with    *)
(* the first request they count. The counters live in the memory of the    *)
(* worker that handles the request (memory:// storage), the lockout in the *)
(* database. The lockout is its abstract specification, so the requests    *)
(* are handled one after the other; module Lockout lets them overlap.      *)
(***************************************************************************)
EXTENDS LockoutPolicy, FiniteSets

CONSTANTS
    Workers,    \* the gunicorn worker processes
    Addresses,  \* client addresses
    Spellings,  \* the usernames that clients send
    Lowered,    \* Lowered[s]: s in lower case
    AccountOf,  \* AccountOf[s]: the account of that very name, None if there is none
    None,       \* nothing; not a value of the program's types
    Limit,      \* RATELIMIT_LOGIN and RATELIMIT_LOGIN_PER_USERNAME, which are equal
    Window,     \* their period, a minute
    Horizon,    \* bound: the clock stops here
    MaxDeaths   \* bound: how often a worker dies

ASSUME NamesAssumption ==
    /\ AccountOf \in [Spellings -> Users \cup {None}] /\ None \notin Users \cup Workers
    /\ \A s, t \in Spellings : AccountOf[s] = AccountOf[t] /\ AccountOf[s] # None => s = t
ASSUME WorkersAssumption == IsFiniteSet(Workers)
ASSUME KeysAssumption == \A s \in Spellings : Lowered[s] \notin Addresses
ASSUME LimitAssumption ==
    /\ Window \in Nat \ {0} /\ Limit \in Nat
    /\ MaxFailed \in Nat \ {0} /\ MaxFailed <= Limit
ASSUME BoundsAssumption == Horizon \in Nat

VARIABLES
    hits,     \* hits[w][k]: the window that worker w counts for key k
    busy,     \* the worker whose request has made a lockout due
    admitted, \* history: admitted[k][i]: requests for name k let in i moments ago
    success   \* history: success[u]: since when u has had no successful login

vars == <<policyVars, hits, busy, admitted, success>>

NameKeys == {Lowered[s] : s \in Spellings}

Keys == Addresses \cup NameKeys

(* wasted is history: how many of the requests that the window counted     *)
(* never came before the lockout.                                          *)
Counter == [count: Nat, ends: Nat, wasted: Nat]

Fresh == [count |-> 0, ends |-> 0, wasted |-> 0]

Init ==
    /\ PolicyInit
    /\ hits = [w \in Workers |-> [k \in Keys |-> Fresh]]
    /\ busy = None
    /\ admitted = [k \in NameKeys |-> [i \in 0..Window - 1 |-> 0]]
    /\ success = [u \in Users |-> 0]

-----------------------------------------------------------------------------
(* The limiter.                                                            *)

(* The window that a request at this moment falls into.                    *)
Current(w, k) == IF hits[w][k] # Fresh THEN hits[w][k] ELSE [Fresh EXCEPT !.ends = now + Window]

(* Fault: the limit counts as reached one request early, below MaxFailed.  *)
BugWithin(w, k) == Current(w, k).count < Limit - 1

Within(w, k) == Current(w, k).count < Limit

(* Fault: each request starts the window anew.                             *)
BugCounted(c, n) == [c EXCEPT !.count = 1, !.ends = now + Window, !.wasted = @ + n]

Counted(c, n) == [c EXCEPT !.count = @ + 1, !.wasted = @ + n]

Hit(w, ks, n) ==
    hits' = [hits EXCEPT ![w] =
                [k \in Keys |-> CASE k \in ks \cap NameKeys -> Counted(Current(w, k), n)
                                  [] k \in ks \ NameKeys -> Counted(Current(w, k), 0)
                                  [] OTHER -> @[k]]]

(* 429. The limits are tried in the library's order, up to the one that is *)
(* exceeded, so another one may have counted the request already. Beyond   *)
(* the limit a count makes no difference any more.                         *)
Throttle(w, a, k) ==
    /\ ~Within(w, a) \/ ~Within(w, k)
    /\ \E ks \in SUBSET {j \in {a, k} : Within(w, j)} : Hit(w, ks, 1)
    /\ UNCHANGED <<policyVars, busy, admitted, success>>

(* The request reaches the view function.                                  *)
Admit(w, a, k, n) ==
    /\ Within(w, a) /\ Within(w, k)
    /\ Hit(w, {a, k}, n)
    /\ admitted' = [admitted EXCEPT ![k][0] = @ + 1]

-----------------------------------------------------------------------------
(* login() on worker w, from address a, for username s.                    *)

UnknownUser(w, a, s) ==
    /\ AccountOf[s] = None
    /\ Admit(w, a, Lowered[s], 1)
    /\ UNCHANGED <<policyVars, busy, success>>

Blocked(w, a, s) ==
    LET u == AccountOf[s] IN
    /\ u # None /\ Locked(u)
    /\ Admit(w, a, Lowered[s], 0) /\ Refuse(u)
    /\ UNCHANGED <<busy, success>>

WrongPassword(w, a, s) ==
    LET u == AccountOf[s] IN
    /\ u # None /\ ~Locked(u)
    /\ Admit(w, a, Lowered[s], 0) /\ Fail(u)
    /\ busy' = IF due' = {} THEN None ELSE w
    /\ UNCHANGED success

RightPassword(w, a, s) ==
    LET u == AccountOf[s] IN
    /\ u # None /\ ~Locked(u)
    /\ Admit(w, a, Lowered[s], 0) /\ Succeed(u)
    /\ success' = [success EXCEPT ![u] = now + 1]
    /\ UNCHANGED busy

Login(w, a, s) ==
    /\ due = {} /\ now < Horizon
    /\ \/ Throttle(w, a, Lowered[s])
       \/ UnknownUser(w, a, s) \/ Blocked(w, a, s)
       \/ WrongPassword(w, a, s) \/ RightPassword(w, a, s)

(* The request goes on to lock the account.                                *)
LockAccount(u) ==
    /\ Lock(u)
    /\ until'[u] = now + Duration(number[u] + 1)
    /\ busy' = None
    /\ UNCHANGED <<hits, admitted, success>>

(* A worker dies, with its request, and another with empty counters takes  *)
(* its place.                                                              *)
Restart(w) ==
    /\ busy \in {None, w} /\ deaths < MaxDeaths
    /\ Die
    /\ hits' = [hits EXCEPT ![w] = [k \in Keys |-> Fresh]]
    /\ busy' = None
    /\ UNCHANGED <<admitted, success>>

(* Time passes, and the windows that are over are dropped.                 *)
Tick ==
    /\ now < Horizon /\ now' = now + 1 /\ Pass
    /\ hits' = [w \in Workers |-> [k \in Keys |-> IF now' < hits[w][k].ends THEN hits[w][k] ELSE Fresh]]
    /\ admitted' = [k \in NameKeys |->
                       [i \in 0..Window - 1 |-> IF i = 0 THEN 0 ELSE admitted[k][i - 1]]]
    /\ UNCHANGED <<busy, success>>

Next ==
    \/ \E w \in Workers, a \in Addresses, s \in Spellings : Login(w, a, s)
    \/ \E u \in Users : LockAccount(u)
    \/ \E w \in Workers : Restart(w)
    \/ Tick

Spec == Init /\ [][Next]_vars

-----------------------------------------------------------------------------
(* Properties.                                                             *)

TypeOK ==
    /\ now \in 0..Horizon /\ deaths \in Nat /\ due \subseteq Users
    /\ failures \in [Users -> Nat] /\ number \in [Users -> Nat] /\ until \in [Users -> Nat]
    /\ hits \in [Workers -> [Keys -> Counter]]
    /\ busy \in Workers \cup {None} /\ (busy = None <=> due = {})
    /\ admitted \in [NameKeys -> [0..Window - 1 -> Nat]]
    /\ success \in [Users -> Nat]

(* The requests for name k that were let in during the last m moments.     *)
Recent(k, m) == UNION {{i} \X (1..admitted[k][i]) : i \in 0..m - 1}

(* From however many addresses a name is tried, in the span of a Window    *)
(* each worker lets in what is left of one of its windows and a whole      *)
(* second one; a worker that has just been restarted, one more.            *)
AdmissionBounded ==
    \A k \in NameKeys :
        Cardinality(Recent(k, Window)) <= (2 * Cardinality(Workers) + deaths) * Limit

(* The limit is above the threshold so that it does not block "the request *)
(* that would have been the 5th failure": where a name is over its limit,  *)
(* the account has been locked or logged in within the window, unless too  *)
(* much of the window was wasted on requests of other spellings or on ones *)
(* that the other limit turned away, or two accounts share it.             *)
LockoutComesFirst ==
    \A w \in Workers, s \in Spellings :
        AccountOf[s] # None /\ ~Within(w, Lowered[s]) =>
            LET c == Current(w, Lowered[s])
                u == AccountOf[s]
            IN  \/ until[u] > c.ends - Window \/ u \in due
                \/ success[u] > c.ends - Window
                \/ c.wasted > Limit - MaxFailed
                \/ \E t \in Spellings \ {s} : AccountOf[t] # None /\ Lowered[t] = Lowered[s]

=============================================================================
