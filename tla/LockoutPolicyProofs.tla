------------------------- MODULE LockoutPolicyProofs -------------------------
(***************************************************************************)
(* Theorems about the two modules that build on LockoutPolicy: RateLimit   *)
(* and, at the end, LockoutSimulation.                                     *)
(*                                                                         *)
(* RateLimit: for any sets of workers, addresses and names, every limit    *)
(* that is not below the threshold of the lockout, every window and every  *)
(* length of the lockouts. As long as an account is neither locked nor     *)
(* logged in after a window of its name has begun, every request which     *)
(* that window counts is wasted or one more failure of the account         *)
(* (CountInv); so the window cannot count MaxFailed requests that are not  *)
(* wasted without making a lockout due, and the worker that counts them    *)
(* locks the account before it does anything else, or dies and loses the   *)
(* window. How many requests get in is a count of its own (RecentBounded). *)
(***************************************************************************)
EXTENDS RateLimit, LockoutSimulation, TLAPS, FiniteSetTheorems

(* BASE_LOCKOUT_SECONDS is positive, and so is the cap.                    *)
LockoutsLast == \A n \in Nat \ {0} : Duration(n) \in Nat \ {0}

OneDue == \A u, v \in due : u = v

(* Windows that are over have been dropped.                                *)
OnWindow ==
    \A w \in Workers, k \in Keys :
        hits[w][k] = Fresh \/ (now < hits[w][k].ends /\ hits[w][k].ends <= now + Window)

(* No other account shares the limit of s.                                 *)
Alone(s) ==
    /\ AccountOf[s] # None
    /\ \A t \in Spellings \ {s} : AccountOf[t] = None \/ Lowered[t] # Lowered[s]

(* Neither a lockout nor a login of u since the window c has begun.        *)
Undisturbed(u, c) == until[u] <= c.ends - Window /\ success[u] <= c.ends - Window

CountInv ==
    \A w \in Workers, s \in Spellings :
        LET c == hits[w][Lowered[s]]
            u == AccountOf[s]
        IN  Alone(s) /\ c # Fresh /\ Undisturbed(u, c) =>
                /\ c.count <= failures[u] + c.wasted
                /\ c.count < MaxFailed + c.wasted \/ (u \in due /\ busy = w)

IInv == TypeOK /\ OneDue /\ OnWindow /\ CountInv

-----------------------------------------------------------------------------
(* The windows.                                                            *)

LEMMA FreshType == Fresh \in Counter /\ Fresh.count = 0 /\ Fresh.ends = 0 /\ Fresh.wasted = 0
  BY DEF Fresh, Counter

(* The window of a request is under way, or begins with it.                *)
LEMMA CurrentWindow ==
  ASSUME TypeOK, OnWindow, NEW w \in Workers, NEW k \in Keys
  PROVE  /\ Current(w, k) \in Counter
         /\ now < Current(w, k).ends /\ Current(w, k).ends <= now + Window
         /\ hits[w][k] # Fresh => Current(w, k) = hits[w][k]
         /\ hits[w][k] = Fresh => Current(w, k).count = 0 /\ Current(w, k).wasted = 0
<1>1. hits[w][k] \in Counter /\ now \in Nat
  BY BoundsAssumption DEF TypeOK
<1>2. CASE hits[w][k] # Fresh
  BY <1>1, <1>2 DEF Current, OnWindow
<1>3. CASE hits[w][k] = Fresh
  <2>1. PICK e \in Nat : e = now + Window
    BY <1>1, LimitAssumption
  <2>2. [Fresh EXCEPT !.ends = e] = [count |-> 0, ends |-> e, wasted |-> 0]
    BY DEF Fresh
  <2>3. Current(w, k) = [count |-> 0, ends |-> e, wasted |-> 0]
    BY <1>3, <2>1, <2>2 DEF Current
  <2> QED BY <1>1, <1>3, <2>1, <2>3, LimitAssumption DEF Counter
<1> QED BY <1>2, <1>3

LEMMA CountedType ==
  ASSUME NEW c \in Counter, NEW n \in Nat
  PROVE  /\ Counted(c, n) \in Counter /\ Counted(c, n) # Fresh
         /\ Counted(c, n).count = c.count + 1 /\ Counted(c, n).ends = c.ends
         /\ Counted(c, n).wasted = c.wasted + n
<1>1. c = [count |-> c.count, ends |-> c.ends, wasted |-> c.wasted]
  BY DEF Counter
<1>2. Counted(c, n) = [count |-> c.count + 1, ends |-> c.ends, wasted |-> c.wasted + n]
  <2>1. PICK i, e, m : c = [count |-> i, ends |-> e, wasted |-> m]
    BY <1>1
  <2>2. c.count = i /\ c.ends = e /\ c.wasted = m
    BY <2>1
  <2>3. PICK d : d = [c EXCEPT !.count = i + 1]
    OBVIOUS
  <2>4. d = [count |-> i + 1, ends |-> e, wasted |-> m]
    BY <2>1, <2>3
  <2>5. [d EXCEPT !.wasted = m + n] = [count |-> i + 1, ends |-> e, wasted |-> m + n]
    BY <2>4
  <2>6. Counted(c, n) = [d EXCEPT !.wasted = m + n]
    BY <2>2, <2>3 DEF Counted
  <2> QED BY <2>2, <2>5, <2>6
<1> QED BY <1>2, FreshType DEF Counter

(* Worker w counts one request more in its windows for the keys ks, n of   *)
(* them wasted for a name; all other windows stay.                         *)
Hits(w, ks, n) ==
    \A v \in Workers, k \in Keys :
        IF v = w /\ k \in ks
        THEN /\ hits'[v][k] # Fresh
             /\ hits'[v][k].count = Current(w, k).count + 1
             /\ hits'[v][k].ends = Current(w, k).ends
             /\ k \in NameKeys => hits'[v][k].wasted = Current(w, k).wasted + n
        ELSE hits'[v][k] = hits[v][k]

LEMMA HitEffect ==
  ASSUME TypeOK, OnWindow, NEW w \in Workers, NEW ks \in SUBSET Keys, NEW n \in Nat,
         Hit(w, ks, n)
  PROVE  hits' \in [Workers -> [Keys -> Counter]] /\ Hits(w, ks, n)
<1> DEFINE new == [k \in Keys |-> CASE k \in ks \cap NameKeys -> Counted(Current(w, k), n)
                                    [] k \in ks \ NameKeys -> Counted(Current(w, k), 0)
                                    [] OTHER -> hits[w][k]]
<1>1. hits' = [hits EXCEPT ![w] = new]
  BY DEF Hit
<1>2. \A k \in Keys :
          /\ Counted(Current(w, k), n) \in Counter /\ Counted(Current(w, k), n) # Fresh
          /\ Counted(Current(w, k), 0) \in Counter /\ Counted(Current(w, k), 0) # Fresh
          /\ Counted(Current(w, k), n).count = Current(w, k).count + 1
          /\ Counted(Current(w, k), 0).count = Current(w, k).count + 1
          /\ Counted(Current(w, k), n).ends = Current(w, k).ends
          /\ Counted(Current(w, k), 0).ends = Current(w, k).ends
          /\ Counted(Current(w, k), n).wasted = Current(w, k).wasted + n
  BY CurrentWindow, CountedType
<1>3. \A k \in Keys :
          /\ k \in ks /\ k \in NameKeys => new[k] = Counted(Current(w, k), n)
          /\ k \in ks /\ k \notin NameKeys => new[k] = Counted(Current(w, k), 0)
          /\ k \notin ks => new[k] = hits[w][k]
  OBVIOUS
<1>4. hits \in [Workers -> [Keys -> Counter]]
  BY DEF TypeOK
<1>5. \A k \in Keys : new[k] \in Counter
  BY <1>2, <1>3, <1>4
<1>6. new \in [Keys -> Counter]
  BY <1>5
<1> HIDE DEF new
<1>7. hits' \in [Workers -> [Keys -> Counter]]
  BY <1>1, <1>4, <1>6
<1>8. \A v \in Workers : hits'[v] = IF v = w THEN new ELSE hits[v]
  BY <1>1, <1>4
<1> QED BY <1>2, <1>3, <1>7, <1>8 DEF Hits

(* The windows stay on time when a request is counted.                     *)
LEMMA HitOnWindow ==
  ASSUME TypeOK, OnWindow, NEW w \in Workers, NEW ks \in SUBSET Keys, NEW n \in Nat,
         Hit(w, ks, n), now' = now
  PROVE  OnWindow'
<1>1. \A v \in Workers, k \in Keys :
          hits'[v][k] = hits[v][k] \/ hits'[v][k].ends = Current(w, k).ends
  <2>1. TAKE v \in Workers, k \in Keys
  <2>2. CASE v = w /\ k \in ks
    BY <2>2, HitEffect DEF Hits
  <2>3. CASE ~(v = w /\ k \in ks)
    BY <2>3, HitEffect DEF Hits
  <2> QED BY <2>2, <2>3
<1>2. \A k \in Keys : now < Current(w, k).ends /\ Current(w, k).ends <= now + Window
  BY CurrentWindow
<1> QED BY <1>1, <1>2 DEF OnWindow

-----------------------------------------------------------------------------
(* One request.                                                            *)

(* Worker w counts a request for the name k, or none: n of them wasted.    *)
Counting(w, k, n) ==
    \A v \in Workers, t \in Spellings :
        LET c == hits[v][Lowered[t]]
            new == hits'[v][Lowered[t]]
        IN  \/ new = c
            \/ /\ v = w /\ Lowered[t] = k /\ new # Fresh
               /\ new.count = Current(w, k).count + 1
               /\ new.ends = Current(w, k).ends
               /\ new.wasted = Current(w, k).wasted + n

LEMMA NameIsKey ==
  ASSUME NEW s \in Spellings
  PROVE  Lowered[s] \in NameKeys /\ Lowered[s] \in Keys /\ Lowered[s] \notin Addresses
  BY KeysAssumption DEF NameKeys, Keys

LEMMA HitCounts ==
  ASSUME TypeOK, OnWindow, NEW w \in Workers, NEW a \in Addresses, NEW s \in Spellings,
         NEW ks \in SUBSET Keys, ks \subseteq {a, Lowered[s]}, NEW n \in Nat, Hit(w, ks, n)
  PROVE  hits' \in [Workers -> [Keys -> Counter]] /\ Counting(w, Lowered[s], n)
<1>1. hits' \in [Workers -> [Keys -> Counter]] /\ Hits(w, ks, n)
  BY HitEffect
<1>2. \A t \in Spellings : Lowered[t] \in ks => Lowered[t] = Lowered[s]
  BY NameIsKey
<1>3. \A t \in Spellings : Lowered[t] \in Keys /\ Lowered[t] \in NameKeys
  BY NameIsKey
<1>4. ASSUME NEW v \in Workers, NEW t \in Spellings
      PROVE  \/ hits'[v][Lowered[t]] = hits[v][Lowered[t]]
             \/ /\ v = w /\ Lowered[t] = Lowered[s] /\ hits'[v][Lowered[t]] # Fresh
                /\ hits'[v][Lowered[t]].count = Current(w, Lowered[s]).count + 1
                /\ hits'[v][Lowered[t]].ends = Current(w, Lowered[s]).ends
                /\ hits'[v][Lowered[t]].wasted = Current(w, Lowered[s]).wasted + n
  BY <1>1, <1>2, <1>3, <1>4 DEF Hits
<1> QED BY <1>1, <1>4 DEF Counting

LEMMA AdmitEffect ==
  ASSUME TypeOK, OnWindow, NEW w \in Workers, NEW a \in Addresses, NEW s \in Spellings,
         NEW n \in Nat, Admit(w, a, Lowered[s], n)
  PROVE  /\ hits' \in [Workers -> [Keys -> Counter]] /\ Counting(w, Lowered[s], n)
         /\ admitted' \in [NameKeys -> [0..Window - 1 -> Nat]]
         /\ now' = now => OnWindow'
<1>1. PICK ks \in SUBSET Keys : ks = {a, Lowered[s]}
  BY NameIsKey DEF Keys
<1>2. Hit(w, ks, n)
  BY <1>1 DEF Admit
<1>3. /\ hits' \in [Workers -> [Keys -> Counter]] /\ Counting(w, Lowered[s], n)
      /\ now' = now => OnWindow'
  BY <1>1, <1>2, HitCounts, HitOnWindow
<1>4. Lowered[s] \in NameKeys /\ admitted \in [NameKeys -> [0..Window - 1 -> Nat]]
  BY NameIsKey DEF TypeOK
<1>5. PICK f \in [0..Window - 1 -> Nat] : f = admitted[Lowered[s]]
  BY <1>4
<1>6. 0 \in 0..Window - 1 /\ f[0] + 1 \in Nat
  BY LimitAssumption
<1>7. [f EXCEPT ![0] = f[0] + 1] \in [0..Window - 1 -> Nat]
  BY <1>6
<1>8. admitted' = [admitted EXCEPT ![Lowered[s]] = [f EXCEPT ![0] = f[0] + 1]]
  BY <1>4, <1>5, <1>6 DEF Admit
<1>9. admitted' \in [NameKeys -> [0..Window - 1 -> Nat]]
  BY <1>4, <1>7, <1>8
<1> QED BY <1>3, <1>9

(* The account that the request names.                                     *)
LEMMA AccountType ==
  ASSUME NEW s \in Spellings, AccountOf[s] # None
  PROVE  AccountOf[s] \in Users
  BY NamesAssumption

(* Of an account that has a limit for itself, the window that w counts for *)
(* the next request counts failures of the account only, unless wasted.    *)
LEMMA CurrentCounts ==
  ASSUME TypeOK, OnWindow, CountInv, due = {}, NEW w \in Workers, NEW s \in Spellings,
         Alone(s), Undisturbed(AccountOf[s], Current(w, Lowered[s]))
  PROVE  LET c == Current(w, Lowered[s])
         IN  c.count <= failures[AccountOf[s]] + c.wasted /\ c.count < MaxFailed + c.wasted
<1>1. PICK k \in Keys : k = Lowered[s]
  BY NameIsKey
<1>2. failures[AccountOf[s]] \in Nat
  BY AccountType DEF Alone, TypeOK
<1>3. CASE hits[w][k] = Fresh
  BY <1>1, <1>2, <1>3, CurrentWindow, LimitAssumption
<1>4. CASE hits[w][k] # Fresh
  <2>1. Current(w, k) = hits[w][k]
    BY <1>4, CurrentWindow
  <2> QED BY <1>1, <1>4, <2>1 DEF CountInv
<1> QED BY <1>1, <1>3, <1>4

(* A request of s that leaves lockouts alone keeps the count: a request is *)
(* wasted, or the account is locked, or logs in, or fails once more.       *)
LEMMA RequestCounts ==
  ASSUME TypeOK, OnWindow, CountInv, due = {}, until' = until,
         failures' \in [Users -> Nat], success' \in [Users -> Nat],
         NEW w \in Workers, NEW s \in Spellings, NEW n \in Nat, Counting(w, Lowered[s], n),
         \A u \in Users : \/ success'[u] = now + 1
                          \/ success'[u] = success[u] /\ failures[u] <= failures'[u],
         \/ n >= 1
         \/ /\ AccountOf[s] # None
            /\ \/ Locked(AccountOf[s])
               \/ success'[AccountOf[s]] = now + 1
               \/ /\ failures'[AccountOf[s]] = failures[AccountOf[s]] + 1
                  /\ \/ failures'[AccountOf[s]] < MaxFailed
                     \/ AccountOf[s] \in due' /\ busy' = w
  PROVE  CountInv'
<1>1. SUFFICES ASSUME NEW v \in Workers, NEW t \in Spellings, Alone(t),
                      NEW c, c = hits'[v][Lowered[t]], c # Fresh,
                      NEW u \in Users, u = AccountOf[t],
                      until[u] <= c.ends - Window, success'[u] <= c.ends - Window
               PROVE  /\ c.count <= failures'[u] + c.wasted
                      /\ c.count < MaxFailed + c.wasted \/ (u \in due' /\ busy' = v)
  <2>1. \A t \in Spellings : Alone(t) => AccountOf[t] \in Users
    BY AccountType DEF Alone
  <2> QED BY <1>1, <2>1 DEF CountInv, Undisturbed, Alone
<1>2. PICK k \in Keys : k = Lowered[t]
  BY NameIsKey
<1>3. /\ now \in Nat /\ failures[u] \in Nat /\ failures'[u] \in Nat /\ success'[u] \in Nat
      /\ until[u] \in Nat /\ success[u] \in Nat
  BY BoundsAssumption DEF TypeOK
<1>4. MaxFailed \in Nat /\ Window \in Nat
  BY LimitAssumption
<1>5. CASE c = hits[v][k]
  <2>1. c \in Counter /\ c.ends <= now + Window
    BY <1>1, <1>2, <1>5 DEF OnWindow, TypeOK
  <2>2. c.ends \in Nat /\ c.count \in Nat /\ c.wasted \in Nat
    BY <2>1 DEF Counter
  <2>3. success'[u] # now + 1
    BY <1>1, <1>3, <1>4, <2>1, <2>2
  <2>4. success'[u] = success[u] /\ failures[u] <= failures'[u]
    BY <2>3
  <2>5. c.count <= failures[u] + c.wasted /\ c.count < MaxFailed + c.wasted
    BY <1>1, <1>2, <1>5, <2>4 DEF CountInv, Undisturbed
  <2> QED BY <1>3, <2>2, <2>4, <2>5
<1>6. CASE c # hits[v][k]
  <2>1. PICK d : d = Current(w, k)
    OBVIOUS
  <2>2. /\ v = w /\ k = Lowered[s]
        /\ c.count = d.count + 1 /\ c.ends = d.ends /\ c.wasted = d.wasted + n
    BY <1>1, <1>2, <1>6, <2>1 DEF Counting
  <2>3. d \in Counter /\ d.ends <= now + Window
    BY <2>1, CurrentWindow
  <2>4. d.ends \in Nat /\ d.count \in Nat /\ d.wasted \in Nat
    BY <2>3 DEF Counter
  <2>5. success'[u] # now + 1 /\ until[u] <= now
    BY <1>1, <1>3, <1>4, <2>2, <2>3, <2>4
  <2>6. success'[u] = success[u] /\ failures[u] <= failures'[u]
    BY <2>5
  <2>7. Undisturbed(u, d)
    BY <1>1, <2>2, <2>6 DEF Undisturbed
  <2>8. d.count <= failures[u] + d.wasted /\ d.count < MaxFailed + d.wasted
    BY <1>1, <1>2, <2>1, <2>2, <2>7, CurrentCounts
  <2>9. CASE n >= 1
    BY <1>3, <1>4, <2>2, <2>4, <2>6, <2>8, <2>9
  <2>10. CASE ~(n >= 1)
    <3>1. n = 0 /\ AccountOf[s] # None
      BY <2>10
    <3>2. s = t
      BY <1>1, <1>2, <2>2, <3>1 DEF Alone
    <3>3. /\ failures'[u] = failures[u] + 1
          /\ failures'[u] < MaxFailed \/ (u \in due' /\ busy' = w)
      BY <1>1, <1>3, <2>5, <2>10, <3>2 DEF Locked
    <3> QED BY <1>3, <1>4, <2>2, <2>4, <2>8, <3>1, <3>3
  <2> QED BY <2>9, <2>10
<1> QED BY <1>5, <1>6

-----------------------------------------------------------------------------
(* The actions.                                                            *)

LEMMA InitInv == Init => IInv
<1> SUFFICES ASSUME Init
             PROVE  IInv
  OBVIOUS
<1>1. hits \in [Workers -> [Keys -> Counter]] /\ \A w \in Workers, k \in Keys : hits[w][k] = Fresh
  BY FreshType DEF Init
<1>2. admitted \in [NameKeys -> [0..Window - 1 -> Nat]]
  BY DEF Init
<1>3. TypeOK
  BY <1>1, <1>2, BoundsAssumption DEF Init, PolicyInit, TypeOK
<1>4. OneDue /\ OnWindow
  BY <1>1 DEF Init, PolicyInit, OneDue, OnWindow
<1>5. CountInv
  BY <1>1, NameIsKey DEF CountInv
<1> QED BY <1>3, <1>4, <1>5 DEF IInv

LEMMA ThrottleInv ==
  ASSUME IInv, due = {}, NEW w \in Workers, NEW a \in Addresses, NEW s \in Spellings,
         Throttle(w, a, Lowered[s])
  PROVE  IInv'
<1> USE DEF IInv
<1>1. /\ UNCHANGED <<policyVars, busy, admitted, success>>
      /\ UNCHANGED <<now, failures, number, until, due, deaths>>
  BY DEF Throttle, policyVars
<1>2. PICK ks \in SUBSET {j \in {a, Lowered[s]} : Within(w, j)} : Hit(w, ks, 1)
  BY DEF Throttle
<1>3. ks \in SUBSET Keys /\ ks \subseteq {a, Lowered[s]}
  BY NameIsKey DEF Keys
<1>4. hits' \in [Workers -> [Keys -> Counter]] /\ Counting(w, Lowered[s], 1) /\ OnWindow'
  BY <1>1, <1>2, <1>3, HitCounts, HitOnWindow
<1>5. TypeOK'
  BY <1>1, <1>4 DEF TypeOK
<1>6. \A u \in Users : \/ success'[u] = now + 1
                       \/ success'[u] = success[u] /\ failures[u] <= failures'[u]
  BY <1>1 DEF TypeOK
<1>7. failures' \in [Users -> Nat] /\ success' \in [Users -> Nat] /\ until' = until
  BY <1>1, <1>5 DEF TypeOK
<1>8. 1 \in Nat /\ 1 >= 1
  OBVIOUS
<1>9. CountInv'
  BY <1>4, <1>6, <1>7, <1>8, RequestCounts
<1> QED BY <1>1, <1>4, <1>5, <1>9 DEF OneDue

LEMMA UnknownUserInv ==
  ASSUME IInv, due = {}, NEW w \in Workers, NEW a \in Addresses, NEW s \in Spellings,
         UnknownUser(w, a, s)
  PROVE  IInv'
<1> USE DEF IInv
<1>1. UNCHANGED <<now, failures, number, until, due, deaths, busy, success>>
  BY DEF UnknownUser, policyVars
<1>2. /\ hits' \in [Workers -> [Keys -> Counter]] /\ Counting(w, Lowered[s], 1)
      /\ admitted' \in [NameKeys -> [0..Window - 1 -> Nat]] /\ OnWindow'
  BY <1>1, AdmitEffect DEF UnknownUser
<1>3. TypeOK'
  BY <1>1, <1>2 DEF TypeOK
<1>4. \A u \in Users : success'[u] = success[u] /\ failures[u] <= failures'[u]
  BY <1>1 DEF TypeOK
<1>5. failures' \in [Users -> Nat] /\ success' \in [Users -> Nat]
  BY <1>3 DEF TypeOK
<1>6. CountInv'
  BY <1>1, <1>2, <1>4, <1>5, RequestCounts
<1> QED BY <1>1, <1>2, <1>3, <1>6 DEF OneDue

LEMMA BlockedInv ==
  ASSUME IInv, due = {}, NEW w \in Workers, NEW a \in Addresses, NEW s \in Spellings,
         Blocked(w, a, s)
  PROVE  IInv'
<1> USE DEF IInv
<1>1. PICK u \in Users : u = AccountOf[s] /\ u # None
  BY AccountType DEF Blocked
<1>2. /\ UNCHANGED <<now, number, until, due, deaths, busy, success>>
      /\ failures' = [failures EXCEPT ![u] = @ + 1] /\ Locked(u)
  BY <1>1 DEF Blocked, Refuse
<1>3. /\ hits' \in [Workers -> [Keys -> Counter]] /\ Counting(w, Lowered[s], 0)
      /\ admitted' \in [NameKeys -> [0..Window - 1 -> Nat]] /\ OnWindow'
  BY <1>2, AdmitEffect DEF Blocked
<1>4. failures' \in [Users -> Nat] /\ \A v \in Users : failures[v] <= failures'[v]
  BY <1>2 DEF TypeOK
<1>5. TypeOK'
  BY <1>2, <1>3, <1>4 DEF TypeOK
<1>6. success' \in [Users -> Nat] /\ \A v \in Users : success'[v] = success[v]
  BY <1>2 DEF TypeOK
<1>7. CountInv'
  BY <1>1, <1>2, <1>3, <1>4, <1>6, RequestCounts
<1> QED BY <1>2, <1>3, <1>5, <1>7 DEF OneDue

LEMMA WrongPasswordInv ==
  ASSUME IInv, due = {}, NEW w \in Workers, NEW a \in Addresses, NEW s \in Spellings,
         WrongPassword(w, a, s)
  PROVE  IInv'
<1> USE DEF IInv
<1>1. PICK u \in Users : u = AccountOf[s] /\ u # None
  BY AccountType DEF WrongPassword
<1>2. /\ UNCHANGED <<now, number, until, deaths, success>>
      /\ failures' = [failures EXCEPT ![u] = @ + 1]
      /\ due' = IF failures[u] + 1 >= MaxFailed THEN {u} ELSE {}
      /\ busy' = IF due' = {} THEN None ELSE w
  BY <1>1 DEF WrongPassword, Fail
<1>3. /\ hits' \in [Workers -> [Keys -> Counter]] /\ Counting(w, Lowered[s], 0)
      /\ admitted' \in [NameKeys -> [0..Window - 1 -> Nat]] /\ OnWindow'
  BY <1>2, AdmitEffect DEF WrongPassword
<1>4. /\ failures' \in [Users -> Nat] /\ \A v \in Users : failures[v] <= failures'[v]
      /\ failures'[u] = failures[u] + 1 /\ failures[u] \in Nat
  BY <1>2 DEF TypeOK
<1>5. failures'[u] < MaxFailed \/ (u \in due' /\ busy' = w)
  BY <1>2, <1>4, LimitAssumption
<1>6. busy' \in Workers \cup {None} /\ (busy' = None <=> due' = {}) /\ due' \subseteq Users
  BY <1>2, NamesAssumption
<1>7. TypeOK'
  BY <1>2, <1>3, <1>4, <1>6 DEF TypeOK
<1>8. success' \in [Users -> Nat] /\ \A v \in Users : success'[v] = success[v]
  BY <1>2 DEF TypeOK
<1>9. CountInv'
  BY <1>1, <1>2, <1>3, <1>4, <1>5, <1>8, RequestCounts
<1> QED BY <1>2, <1>3, <1>7, <1>9 DEF OneDue

LEMMA RightPasswordInv ==
  ASSUME IInv, due = {}, NEW w \in Workers, NEW a \in Addresses, NEW s \in Spellings,
         RightPassword(w, a, s)
  PROVE  IInv'
<1> USE DEF IInv
<1>1. PICK u \in Users : u = AccountOf[s] /\ u # None
  BY AccountType DEF RightPassword
<1>2. /\ UNCHANGED <<now, number, until, due, deaths, busy>>
      /\ failures' = [failures EXCEPT ![u] = 0]
      /\ success' = [success EXCEPT ![u] = now + 1]
  BY <1>1 DEF RightPassword, Succeed
<1>3. /\ hits' \in [Workers -> [Keys -> Counter]] /\ Counting(w, Lowered[s], 0)
      /\ admitted' \in [NameKeys -> [0..Window - 1 -> Nat]] /\ OnWindow'
  BY <1>2, AdmitEffect DEF RightPassword
<1>4. now + 1 \in Nat
  BY BoundsAssumption DEF TypeOK
<1>5. /\ failures' \in [Users -> Nat] /\ success' \in [Users -> Nat] /\ success'[u] = now + 1
      /\ \A v \in Users : \/ success'[v] = now + 1
                          \/ success'[v] = success[v] /\ failures[v] <= failures'[v]
  BY <1>2, <1>4 DEF TypeOK
<1>6. TypeOK'
  BY <1>2, <1>3, <1>5 DEF TypeOK
<1>7. CountInv'
  BY <1>1, <1>2, <1>3, <1>5, RequestCounts
<1> QED BY <1>2, <1>3, <1>6, <1>7 DEF OneDue

(* The lockout disturbs every window of its account, and no other account  *)
(* was due.                                                                *)
LEMMA LockAccountInv ==
  ASSUME LockoutsLast, IInv, NEW u \in Users, LockAccount(u)
  PROVE  IInv'
<1> USE DEF IInv
<1>1. /\ UNCHANGED <<hits, admitted, success, now, deaths>> /\ u \in due
      /\ due' = {} /\ busy' = None
      /\ failures' = [failures EXCEPT ![u] = 0]
      /\ number' = [number EXCEPT ![u] = @ + 1]
      /\ until'[u] = now + Duration(number[u] + 1)
  BY DEF LockAccount, Lock
<1>2. PICK d \in Nat \ {0} : d = Duration(number[u] + 1)
  BY DEF LockoutsLast, TypeOK
<1>3. PICK t \in 0..now : until' = [until EXCEPT ![u] = t + d]
  BY <1>2 DEF LockAccount, Lock
<1>4. now \in Nat
  BY BoundsAssumption DEF TypeOK
<1>5. until' \in [Users -> Nat] /\ until'[u] > now /\ \A v \in Users \ {u} : until'[v] = until[v]
  BY SMTT(20), <1>1, <1>2, <1>3, <1>4 DEF TypeOK
<1>6. TypeOK'
  <2>1. failures' \in [Users -> Nat] /\ number' \in [Users -> Nat]
    BY <1>1 DEF TypeOK
  <2> QED BY <1>1, <1>5, <2>1 DEF TypeOK
<1>7. OnWindow' /\ OneDue'
  BY <1>1 DEF OnWindow, OneDue
<1>8. CountInv'
  <2>1. SUFFICES ASSUME NEW w \in Workers, NEW s \in Spellings, Alone(s),
                        hits[w][Lowered[s]] # Fresh,
                        NEW v \in Users, v = AccountOf[s],
                        until'[v] <= hits[w][Lowered[s]].ends - Window,
                        success[v] <= hits[w][Lowered[s]].ends - Window
                 PROVE  /\ hits[w][Lowered[s]].count <= failures'[v] + hits[w][Lowered[s]].wasted
                        /\ hits[w][Lowered[s]].count < MaxFailed + hits[w][Lowered[s]].wasted
    <3>1. \A s \in Spellings : Alone(s) => AccountOf[s] \in Users
      BY AccountType DEF Alone
    <3> QED BY <1>1, <2>1, <3>1 DEF CountInv, Undisturbed, Alone
  <2>2. /\ hits[w][Lowered[s]] \in Counter
        /\ hits[w][Lowered[s]].ends <= now + Window
    BY <2>1, NameIsKey DEF TypeOK, OnWindow
  <2>3. hits[w][Lowered[s]].ends \in Nat
    BY <2>2 DEF Counter
  <2>4. v # u
    BY <1>4, <1>5, <2>1, <2>2, <2>3, LimitAssumption
  <2>5. v \notin due /\ failures'[v] = failures[v] /\ until'[v] = until[v]
    BY <1>1, <1>5, <2>4 DEF OneDue, TypeOK
  <2> QED BY <2>1, <2>5 DEF CountInv, Undisturbed
<1> QED BY <1>6, <1>7, <1>8

LEMMA RestartInv ==
  ASSUME IInv, NEW w \in Workers, Restart(w)
  PROVE  IInv'
<1> USE DEF IInv
<1>1. /\ UNCHANGED <<admitted, success, now, failures, number, until>>
      /\ busy \in {None, w} /\ busy' = None /\ due' = {} /\ deaths' = deaths + 1
      /\ hits' = [hits EXCEPT ![w] = [k \in Keys |-> Fresh]]
  BY DEF Restart, Die
<1>2. [k \in Keys |-> Fresh] \in [Keys -> Counter]
  BY FreshType
<1>3. /\ hits' \in [Workers -> [Keys -> Counter]]
      /\ \A v \in Workers, k \in Keys : hits'[v][k] = IF v = w THEN Fresh ELSE hits[v][k]
  BY <1>1, <1>2 DEF TypeOK
<1>4. TypeOK'
  BY <1>1, <1>3 DEF TypeOK
<1>5. OnWindow' /\ OneDue'
  BY <1>1, <1>3 DEF OnWindow, OneDue
<1>6. \A u \in due, v \in Workers \ {w} : busy # v
  BY <1>1, NamesAssumption DEF TypeOK
<1>7. CountInv'
  BY <1>1, <1>3, <1>6, NameIsKey DEF CountInv, Undisturbed, Alone
<1> QED BY <1>4, <1>5, <1>7

LEMMA TickInv ==
  ASSUME IInv, Tick
  PROVE  IInv'
<1> USE DEF IInv
<1>1. /\ UNCHANGED <<busy, success, failures, number, until, due, deaths>>
      /\ now < Horizon /\ now' = now + 1
  BY DEF Tick, Pass
<1>2. now \in Nat /\ now' \in 0..Horizon
  BY <1>1, BoundsAssumption DEF TypeOK
<1>3. PICK n \in Nat : n = now'
  BY <1>2
<1>4. hits' = [w \in Workers |-> [k \in Keys |-> IF n < hits[w][k].ends THEN hits[w][k] ELSE Fresh]]
  BY <1>3 DEF Tick
<1>5. \A w \in Workers, k \in Keys :
          hits'[w][k] = IF n < hits[w][k].ends THEN hits[w][k] ELSE Fresh
  BY <1>4
<1>6. hits' \in [Workers -> [Keys -> Counter]]
  BY <1>4, FreshType DEF TypeOK
<1>7. admitted' \in [NameKeys -> [0..Window - 1 -> Nat]]
  <2>1. ASSUME NEW k \in NameKeys, NEW i \in 0..Window - 1
        PROVE  (IF i = 0 THEN 0 ELSE admitted[k][i - 1]) \in Nat
    <3>1. i = 0 \/ i - 1 \in 0..Window - 1
      BY LimitAssumption
    <3> QED BY <2>1, <3>1 DEF TypeOK
  <2> QED BY <2>1 DEF Tick
<1>8. TypeOK'
  BY <1>1, <1>2, <1>6, <1>7 DEF TypeOK
<1>9. \A w \in Workers, k \in Keys : hits[w][k].ends \in Nat
  BY DEF TypeOK, Counter
<1>10. OnWindow' /\ OneDue'
  BY <1>1, <1>2, <1>3, <1>5, <1>9, LimitAssumption DEF OnWindow, OneDue
<1>11. \A w \in Workers, k \in Keys : hits'[w][k] \in {hits[w][k], Fresh}
  BY <1>5
<1>12. CountInv'
  BY <1>1, <1>11, NameIsKey DEF CountInv, Undisturbed, Alone
<1> QED BY <1>8, <1>10, <1>12

-----------------------------------------------------------------------------
(* The theorems.                                                           *)

LEMMA NextInv ==
  ASSUME LockoutsLast, IInv, [Next]_vars
  PROVE  IInv'
<1>1. ASSUME NEW w \in Workers, NEW a \in Addresses, NEW s \in Spellings, Login(w, a, s)
      PROVE  IInv'
  <2>1. due = {}
    BY <1>1 DEF Login
  <2> QED BY <1>1, <2>1, ThrottleInv, UnknownUserInv, BlockedInv, WrongPasswordInv,
             RightPasswordInv DEF Login
<1>2. CASE UNCHANGED vars
  BY <1>2 DEF vars, policyVars, IInv, TypeOK, OneDue, OnWindow, CountInv, Undisturbed, Alone
<1> QED BY <1>1, <1>2, LockAccountInv, RestartInv, TickInv DEF Next

LEMMA SpecInv ==
  ASSUME LockoutsLast
  PROVE  Spec => []IInv
<1>1. Init => IInv
  BY InitInv
<1>2. LockoutsLast => (IInv /\ [Next]_vars => IInv')
  BY NextInv
<1> QED BY <1>1, <1>2, PTL DEF Spec

(* The counters keep their types, and a worker is in the middle of a       *)
(* request exactly when a lockout is due.                                  *)
THEOREM TypeCorrect ==
  ASSUME LockoutsLast
  PROVE  Spec => []TypeOK
<1>1. IInv => TypeOK
  BY DEF IInv
<1> QED BY <1>1, SpecInv, PTL

(* Whatever the limit, if it is not below the threshold: a name that no    *)
(* other account shares is over its limit on a worker only when the        *)
(* account has been locked or logged in within the window, or too much of  *)
(* the window was wasted on requests that never came before the lockout.   *)
THEOREM LockoutIsFirst ==
  ASSUME LockoutsLast
  PROVE  Spec => []LockoutComesFirst
<1>1. ASSUME IInv
      PROVE  LockoutComesFirst
  <2> USE <1>1 DEF IInv
  <2>1. SUFFICES ASSUME NEW w \in Workers, NEW s \in Spellings, Alone(s),
                        NEW k \in Keys, k = Lowered[s], ~Within(w, k),
                        Undisturbed(AccountOf[s], Current(w, k)), AccountOf[s] \notin due
                 PROVE  Current(w, k).wasted > Limit - MaxFailed
    <3>1. ASSUME NEW w \in Workers, NEW s \in Spellings, AccountOf[s] # None,
                 ~Within(w, Lowered[s])
          PROVE  LET c == Current(w, Lowered[s])
                     u == AccountOf[s]
                 IN  \/ until[u] > c.ends - Window \/ u \in due
                     \/ success[u] > c.ends - Window
                     \/ c.wasted > Limit - MaxFailed
                     \/ \E t \in Spellings \ {s} : AccountOf[t] # None /\ Lowered[t] = Lowered[s]
      <4>1. /\ Lowered[s] \in Keys /\ Current(w, Lowered[s]).ends \in Nat
            /\ until[AccountOf[s]] \in Nat /\ success[AccountOf[s]] \in Nat
        BY <3>1, NameIsKey, AccountType, CurrentWindow DEF TypeOK, Counter
      <4>2. Undisturbed(AccountOf[s], Current(w, Lowered[s]))
                \/ until[AccountOf[s]] > Current(w, Lowered[s]).ends - Window
                \/ success[AccountOf[s]] > Current(w, Lowered[s]).ends - Window
        BY <4>1, LimitAssumption DEF Undisturbed
      <4>3. Alone(s) \/ \E t \in Spellings \ {s} : AccountOf[t] # None /\ Lowered[t] = Lowered[s]
        BY <3>1 DEF Alone
      <4> QED BY <2>1, <3>1, <4>1, <4>2, <4>3
    <3> QED BY <3>1 DEF LockoutComesFirst
  <2>2. Current(w, k) \in Counter
    BY <2>1, CurrentWindow
  <2>3. /\ Current(w, k).count \in Nat /\ Current(w, k).wasted \in Nat
        /\ Current(w, k).count >= Limit
    BY <2>1, <2>2, LimitAssumption DEF Within, Counter
  <2>4. hits[w][k] # Fresh /\ Current(w, k) = hits[w][k]
    BY <2>1, <2>3, CurrentWindow, LimitAssumption
  <2>5. Current(w, k).count < MaxFailed + Current(w, k).wasted
    BY <2>1, <2>4 DEF CountInv
  <2> QED BY <2>3, <2>5, LimitAssumption
<1> QED BY <1>1, SpecInv, PTL

-----------------------------------------------------------------------------
(* How many requests get in. What a worker has let in for a name during    *)
(* the last m moments is counted by its window, if the window is as old as *)
(* that, and otherwise by its window and the one before, which let in at   *)
(* most Limit; by the time one more window is over, the older of the two   *)
(* is more than a Window away. Each death adds one window at most. Room is *)
(* that number, Slots as many things to count for all workers together.    *)

Capped == \A w \in Workers, k \in NameKeys : hits[w][k].count <= Limit

Room(w, k, m) ==
    LET c == hits[w][k]
    IN  IF c = Fresh THEN IF m = 1 THEN 0 ELSE Limit
        ELSE IF c.ends - Window <= now - (m - 1) THEN c.count ELSE c.count + Limit

Slots(k, m) == {x \in Workers \X (1..2 * Limit) : x[2] <= Room(x[1], k, m)}

RecentBounded ==
    \A k \in NameKeys, m \in 1..Window :
        /\ IsFiniteSet(Recent(k, m))
        /\ Cardinality(Recent(k, m)) <= Cardinality(Slots(k, m)) + deaths * Limit

LEMMA RecentMember ==
  ASSUME NEW k \in NameKeys, NEW m \in Nat
  PROVE  /\ \A x : x \in Recent(k, m) <=>
                     \E i \in 0..m - 1 : \E n \in 1..admitted[k][i] : x = <<i, n>>
         /\ \A x : x \in Recent(k, m)' <=>
                     \E i \in 0..m - 1 : \E n \in 1..admitted'[k][i] : x = <<i, n>>
  BY DEF Recent

LEMMA SlotsFinite ==
  ASSUME NEW k \in NameKeys, NEW m \in Nat
  PROVE  /\ IsFiniteSet(Slots(k, m)) /\ IsFiniteSet(Slots(k, m)')
         /\ Cardinality(Slots(k, m)) \in Nat /\ Cardinality(Slots(k, m)') \in Nat
         /\ Cardinality(Workers) \in Nat
         /\ Cardinality(Slots(k, m)) <= Cardinality(Workers) * (2 * Limit)
<1>1. 2 * Limit \in Nat
  BY LimitAssumption
<1>2. IsFiniteSet(1..2 * Limit) /\ Cardinality(1..2 * Limit) = 2 * Limit
  BY <1>1, FS_Interval
<1>3. PICK S : S = Workers \X (1..2 * Limit)
  OBVIOUS
<1>4. IsFiniteSet(S) /\ Cardinality(S) = Cardinality(Workers) * (2 * Limit)
  BY <1>2, <1>3, WorkersAssumption, FS_Product
<1>5. Slots(k, m) \in SUBSET S /\ Slots(k, m)' \in SUBSET S
  BY <1>3 DEF Slots
<1>6. /\ IsFiniteSet(Slots(k, m)) /\ IsFiniteSet(Slots(k, m)')
      /\ Cardinality(Slots(k, m)) <= Cardinality(S)
  BY <1>4, <1>5, FS_Subset
<1> QED BY <1>4, <1>6, WorkersAssumption, FS_CardinalityType

LEMMA RoomType ==
  ASSUME TypeOK, Capped, NEW w \in Workers, NEW k \in NameKeys, NEW m \in 1..Window
  PROVE  Room(w, k, m) \in 0..2 * Limit
<1>1. hits[w][k] \in Counter /\ hits[w][k].count <= Limit
  BY DEF TypeOK, Keys, Capped
<1>2. hits[w][k].count \in 0..Limit /\ Limit \in Nat
  BY <1>1, LimitAssumption DEF Counter
<1>3. Room(w, k, m) \in {0, Limit, hits[w][k].count, hits[w][k].count + Limit}
  BY DEF Room
<1> QED BY <1>2, <1>3

(* Where every worker has as much room as before, there are as many slots. *)
LEMMA SlotsGrow ==
  ASSUME NEW k \in NameKeys, NEW l \in Nat, NEW m \in Nat,
         \A w \in Workers : /\ Room(w, k, l) \in Nat /\ Room(w, k, m)' \in Nat
                            /\ Room(w, k, l) <= Room(w, k, m)'
  PROVE  Cardinality(Slots(k, l)) <= Cardinality(Slots(k, m)')
<1>1. Slots(k, l) \in SUBSET Slots(k, m)'
  <2>1. SUFFICES ASSUME NEW x \in Workers \X (1..2 * Limit), x[2] <= Room(x[1], k, l)
                 PROVE  x[2] <= Room(x[1], k, m)'
    BY <2>1 DEF Slots
  <2>2. x[1] \in Workers /\ x[2] \in Nat
    BY <2>1, LimitAssumption
  <2> QED BY <2>1, <2>2
<1> QED BY <1>1, SlotsFinite, FS_Subset

(* A request that a window counts takes one slot of its worker.            *)
LEMMA HitRoom ==
  ASSUME TypeOK, OnWindow, Capped, NEW w \in Workers, NEW ks \in SUBSET Keys, NEW n \in Nat,
         \A k \in ks : Within(w, k), Hit(w, ks, n), now' = now
  PROVE  /\ Capped'
         /\ \A v \in Workers, k \in NameKeys, m \in 1..Window :
               /\ Room(v, k, m)' \in 0..2 * Limit
               /\ Room(v, k, m)' = Room(v, k, m) + IF v = w /\ k \in ks THEN 1 ELSE 0
<1>1. hits' \in [Workers -> [Keys -> Counter]] /\ Hits(w, ks, n)
  BY HitEffect
<1>2. Limit \in Nat /\ Window \in Nat /\ now \in Nat
  BY LimitAssumption, BoundsAssumption DEF TypeOK
<1>3. ASSUME NEW k \in NameKeys, k \in ks
      PROVE  /\ hits'[w][k].count <= Limit
             /\ \A m \in 1..Window : /\ Room(w, k, m)' \in 0..2 * Limit
                                     /\ Room(w, k, m)' = Room(w, k, m) + 1
  <2>1. k \in Keys
    BY <1>3 DEF Keys
  <2>2. PICK c : c = Current(w, k)
    OBVIOUS
  <2>3. c \in Counter /\ c.count < Limit
    BY <1>3, <2>1, <2>2, CurrentWindow DEF Within
  <2>4. c.count \in Nat /\ c.ends \in Nat
    BY <2>3 DEF Counter
  <2>5. hits'[w][k] # Fresh /\ hits'[w][k].count = c.count + 1 /\ hits'[w][k].ends = c.ends
    BY <1>1, <1>3, <2>1, <2>2 DEF Hits
  <2>6. ASSUME NEW m \in 1..Window
        PROVE  /\ Room(w, k, m)' \in 0..2 * Limit
               /\ Room(w, k, m)' = Room(w, k, m) + 1
    <3>1. Room(w, k, m)' = IF c.ends - Window <= now - (m - 1) THEN c.count + 1 ELSE c.count + 1 + Limit
      BY <2>5 DEF Room
    <3>2. Room(w, k, m)' \in 0..2 * Limit
      BY <1>2, <2>3, <2>4, <3>1
    <3>3. CASE hits[w][k] = Fresh
      <4>1. c.ends = now + Window /\ c.count = 0
        BY <2>2, <3>3, FreshType DEF Current, Fresh
      <4>2. Room(w, k, m) = IF m = 1 THEN 0 ELSE Limit
        BY <3>3 DEF Room
      <4> QED BY <1>2, <2>6, <3>1, <3>2, <4>1, <4>2
    <3>4. CASE hits[w][k] # Fresh
      <4>1. hits[w][k] = c
        BY <2>2, <3>4 DEF Current
      <4>2. Room(w, k, m) = IF c.ends - Window <= now - (m - 1) THEN c.count ELSE c.count + Limit
        BY <3>4, <4>1 DEF Room
      <4> QED BY <1>2, <2>4, <3>1, <3>2, <4>2
    <3> QED BY <3>3, <3>4
  <2> QED BY <1>2, <2>3, <2>4, <2>5, <2>6
<1>4. ASSUME NEW v \in Workers, NEW k \in NameKeys, ~(v = w /\ k \in ks)
      PROVE  hits'[v][k] = hits[v][k]
  BY <1>1, <1>4 DEF Hits, Keys
<1>5. ASSUME NEW v \in Workers, NEW k \in NameKeys
      PROVE  /\ hits'[v][k].count <= Limit
             /\ \A m \in 1..Window :
                   /\ Room(v, k, m)' \in 0..2 * Limit
                   /\ Room(v, k, m)' = Room(v, k, m) + IF v = w /\ k \in ks THEN 1 ELSE 0
  <2>1. CASE v = w /\ k \in ks
    BY <1>3, <1>5, <2>1
  <2>2. CASE ~(v = w /\ k \in ks)
    <3>1. hits'[v][k] = hits[v][k] /\ hits[v][k].count <= Limit
      BY <1>4, <1>5, <2>2 DEF Capped
    <3>2. ASSUME NEW m \in 1..Window
          PROVE  /\ Room(v, k, m)' \in 0..2 * Limit
                 /\ Room(v, k, m)' = Room(v, k, m) + 0
      <4>1. Room(v, k, m)' = Room(v, k, m)
        BY <3>1 DEF Room
      <4>2. Room(v, k, m) \in 0..2 * Limit
        BY <1>5, <3>2, RoomType
      <4> QED BY <4>1, <4>2
    <3> QED BY <2>2, <3>1, <3>2
  <2> QED BY <2>1, <2>2
<1> QED BY <1>5 DEF Capped

LEMMA ThrottleRecent ==
  ASSUME IInv, Capped, RecentBounded, NEW w \in Workers, NEW a \in Addresses,
         NEW s \in Spellings, Throttle(w, a, Lowered[s])
  PROVE  Capped' /\ RecentBounded'
<1>1. TypeOK /\ OnWindow
  BY DEF IInv
<1>2. now' = now /\ deaths' = deaths /\ admitted' = admitted
  BY DEF Throttle, policyVars
<1>3. PICK ks \in SUBSET {j \in {a, Lowered[s]} : Within(w, j)} : Hit(w, ks, 1)
  BY DEF Throttle
<1>4. ks \in SUBSET Keys /\ \A k \in ks : Within(w, k)
  BY NameIsKey DEF Keys
<1>5. /\ Capped'
      /\ \A v \in Workers, k \in NameKeys, m \in 1..Window :
            /\ Room(v, k, m)' \in 0..2 * Limit
            /\ Room(v, k, m)' = Room(v, k, m) + IF v = w /\ k \in ks THEN 1 ELSE 0
  BY ZenonT(30), <1>1, <1>2, <1>3, <1>4, HitRoom
<1>6. ASSUME NEW k \in NameKeys, NEW m \in 1..Window
      PROVE  Cardinality(Slots(k, m)) <= Cardinality(Slots(k, m)')
  <2>1. \A v \in Workers : /\ Room(v, k, m) \in Nat /\ Room(v, k, m)' \in Nat
                           /\ Room(v, k, m) <= Room(v, k, m)'
    <3>1. \A v \in Workers : Room(v, k, m) \in 0..2 * Limit
      BY <1>1, <1>6, RoomType
    <3> QED BY <1>5, <1>6, <3>1, LimitAssumption
  <2>2. m \in Nat
    BY <1>6, LimitAssumption
  <2> QED BY <1>6, <2>1, <2>2, SlotsGrow
<1>7. ASSUME NEW k \in NameKeys, NEW m \in 1..Window
      PROVE  Recent(k, m)' = Recent(k, m)
  BY <1>2 DEF Recent
<1>8. RecentBounded'
  <2>1. SUFFICES ASSUME NEW k \in NameKeys, NEW m \in 1..Window
                 PROVE  /\ IsFiniteSet(Recent(k, m))
                        /\ Cardinality(Recent(k, m)) <= Cardinality(Slots(k, m)') + deaths * Limit
    BY <1>2, <1>7, <2>1 DEF RecentBounded
  <2>2. /\ IsFiniteSet(Recent(k, m))
        /\ Cardinality(Recent(k, m)) <= Cardinality(Slots(k, m)) + deaths * Limit
    BY <2>1 DEF RecentBounded
  <2>3. /\ Cardinality(Slots(k, m)) \in Nat /\ Cardinality(Slots(k, m)') \in Nat
        /\ Cardinality(Recent(k, m)) \in Nat /\ deaths * Limit \in Int
    BY <1>1, <2>1, <2>2, SlotsFinite, FS_CardinalityType, LimitAssumption DEF TypeOK
  <2> QED BY <1>6, <2>1, <2>2, <2>3
<1> QED BY <1>5, <1>8

LEMMA AdmitRecent ==
  ASSUME IInv, Capped, RecentBounded, NEW w \in Workers, NEW a \in Addresses,
         NEW s \in Spellings, NEW n \in Nat, Admit(w, a, Lowered[s], n),
         now' = now, deaths' = deaths
  PROVE  Capped' /\ RecentBounded'
<1>1. TypeOK /\ OnWindow
  BY DEF IInv
<1>2. PICK h \in NameKeys : h = Lowered[s]
  BY NameIsKey
<1>3. PICK ks \in SUBSET Keys : ks = {a, h}
  BY <1>2 DEF Keys
<1>4. Hit(w, ks, n) /\ \A k \in ks : Within(w, k)
  BY <1>2, <1>3 DEF Admit
<1>5. /\ Capped'
      /\ \A v \in Workers, k \in NameKeys, m \in 1..Window :
            /\ Room(v, k, m)' \in 0..2 * Limit
            /\ Room(v, k, m)' = Room(v, k, m) + IF v = w /\ k \in ks THEN 1 ELSE 0
  BY ZenonT(30), <1>1, <1>4, HitRoom
<1>6. PICK e \in Nat : e = admitted[h][0] + 1
  <2>1. admitted[h] \in [0..Window - 1 -> Nat] /\ 0 \in 0..Window - 1
    BY <1>1, LimitAssumption DEF TypeOK
  <2>2. admitted[h][0] \in Nat
    BY <2>1
  <2> QED BY <2>2
<1>7. /\ \A k \in NameKeys \ {h} : admitted'[k] = admitted[k]
      /\ \A i \in 0..Window - 1 : admitted'[h][i] = IF i = 0 THEN e ELSE admitted[h][i]
  BY <1>1, <1>2, <1>6 DEF Admit, TypeOK
<1>8. ASSUME NEW k \in NameKeys, NEW m \in 1..Window
      PROVE  /\ m \in Nat
             /\ \A v \in Workers : /\ Room(v, k, m) \in 0..2 * Limit
                                   /\ Room(v, k, m) \in Nat /\ Room(v, k, m)' \in Nat
                                   /\ Room(v, k, m) <= Room(v, k, m)'
  <2>1. \A v \in Workers : Room(v, k, m) \in 0..2 * Limit
    BY <1>1, <1>8, RoomType
  <2> QED BY <1>5, <1>8, <2>1, LimitAssumption
<1>9. ASSUME NEW k \in NameKeys, NEW m \in 1..Window
      PROVE  /\ IsFiniteSet(Recent(k, m)')
             /\ Cardinality(Recent(k, m)') <= Cardinality(Slots(k, m)') + deaths * Limit
  <2>1. /\ IsFiniteSet(Recent(k, m))
        /\ Cardinality(Recent(k, m)) <= Cardinality(Slots(k, m)) + deaths * Limit
    BY <1>9 DEF RecentBounded
  <2>2. m \in Nat /\ 0 \in 0..m - 1 /\ \A i \in 0..m - 1 : i \in 0..Window - 1
    BY <1>9, LimitAssumption
  <2>3. /\ Cardinality(Slots(k, m)) \in Nat /\ Cardinality(Slots(k, m)') \in Nat
        /\ Cardinality(Recent(k, m)) \in Nat /\ deaths * Limit \in Int
    BY <1>1, <1>9, <2>1, <2>2, SlotsFinite, FS_CardinalityType, LimitAssumption DEF TypeOK
  <2>4. CASE k # h
    <3>1. Recent(k, m)' = Recent(k, m)
      BY <1>7, <1>9, <2>4 DEF Recent
    <3>2. Cardinality(Slots(k, m)) <= Cardinality(Slots(k, m)')
      BY <1>8, <1>9, SlotsGrow
    <3> QED BY <2>1, <2>3, <3>1, <3>2
  <2>5. CASE k = h
    <3>1. Recent(h, m)' = Recent(h, m) \cup {<<0, e>>}
      <4>1. \A i \in 0..m - 1 : admitted'[h][i] = IF i = 0 THEN e ELSE admitted[h][i]
        BY <1>7, <2>2
      <4>2. 1..e = (1..admitted[h][0]) \cup {e}
        BY <1>1, <1>6, LimitAssumption DEF TypeOK
      <4>3. ASSUME NEW x, x \in Recent(h, m)'
            PROVE  x \in Recent(h, m) \cup {<<0, e>>}
        <5>1. PICK i \in 0..m - 1 : \E j \in 1..admitted'[h][i] : x = <<i, j>>
          BY <2>2, <4>3, RecentMember
        <5> QED BY <2>2, <4>1, <4>2, <5>1, RecentMember
      <4>4. ASSUME NEW x, x \in Recent(h, m) \cup {<<0, e>>}
            PROVE  x \in Recent(h, m)'
        <5>1. CASE x = <<0, e>>
          <6>1. e \in 1..admitted'[h][0]
            BY <2>2, <4>1, <4>2
          <6> QED BY <2>2, <5>1, <6>1, RecentMember
        <5>2. CASE x \in Recent(h, m)
          <6>1. PICK i \in 0..m - 1 : \E j \in 1..admitted[h][i] : x = <<i, j>>
            BY <2>2, <5>2, RecentMember
          <6> QED BY <2>2, <4>1, <4>2, <6>1, RecentMember
        <5> QED BY <4>4, <5>1, <5>2
      <4> QED BY <4>3, <4>4
    <3>2. /\ IsFiniteSet(Recent(h, m)')
          /\ Cardinality(Recent(h, m)') <= Cardinality(Recent(h, m)) + 1
      <4>1. PICK S : S = Recent(h, m)
        OBVIOUS
      <4>2. IsFiniteSet(S) /\ Cardinality(S) \in Nat
        BY <2>1, <2>3, <2>5, <4>1
      <4>3. PICK x : x = <<0, e>>
        OBVIOUS
      <4>4. IsFiniteSet(S \cup {x}) /\ Cardinality(S \cup {x}) <= Cardinality(S) + 1
        <5>1. CASE x \in S
          <6>1. S \cup {x} = S
            BY <5>1
          <6> QED BY <4>2, <6>1
        <5>2. CASE x \notin S
          <6>1. IsFiniteSet(S \cup {x}) /\ Cardinality(S \cup {x}) = Cardinality(S) + 1
            BY <4>2, <5>2, FS_AddElement
          <6> QED BY <4>2, <6>1
        <5> QED BY <5>1, <5>2
      <4> QED BY <3>1, <4>1, <4>3, <4>4
    <3>3. PICK r \in 0..2 * Limit : r = Room(w, h, m)
      BY <1>8, <1>9
    <3>4. Room(w, h, m)' = r + 1 /\ r + 1 \in 1..2 * Limit
      BY <1>3, <1>5, <1>9, <3>3, LimitAssumption
    <3>5. Slots(h, m) \cup {<<w, r + 1>>} \in SUBSET Slots(h, m)' /\ <<w, r + 1>> \notin Slots(h, m)
      <4>1. ASSUME NEW x \in Slots(h, m)
            PROVE  x \in Slots(h, m)'
        <5>1. x \in Workers \X (1..2 * Limit) /\ x[2] <= Room(x[1], h, m)
          BY <4>1 DEF Slots
        <5>2. Room(x[1], h, m) <= Room(x[1], h, m)' /\ Room(x[1], h, m) \in Nat
              /\ Room(x[1], h, m)' \in Nat /\ x[2] \in Int
          BY <1>8, <1>9, <5>1
        <5>3. x[2] <= Room(x[1], h, m)'
          BY <5>1, <5>2
        <5> QED BY <5>1, <5>3 DEF Slots
      <4>2. <<w, r + 1>> \in Slots(h, m)'
        BY <3>4 DEF Slots
      <4>3. <<w, r + 1>> \notin Slots(h, m)
        BY <3>3 DEF Slots
      <4> QED BY <4>1, <4>2, <4>3
    <3>6. Cardinality(Slots(h, m)) + 1 <= Cardinality(Slots(h, m)')
      <4>1. PICK S : S = Slots(h, m) \cup {<<w, r + 1>>}
        OBVIOUS
      <4>2. Cardinality(S) = Cardinality(Slots(h, m)) + 1
        BY <2>2, <3>5, <4>1, SlotsFinite, FS_AddElement
      <4>3. Cardinality(S) <= Cardinality(Slots(h, m)')
        BY <2>2, <3>5, <4>1, SlotsFinite, FS_Subset
      <4> QED BY <4>2, <4>3
    <3>7. Cardinality(Recent(h, m)') \in Nat
      BY <3>2, FS_CardinalityType
    <3> QED BY <2>1, <2>3, <2>5, <3>2, <3>6, <3>7
  <2> QED BY <2>4, <2>5
<1> QED BY <1>5, <1>9 DEF RecentBounded

LEMMA RestartRecent ==
  ASSUME IInv, Capped, RecentBounded, NEW w \in Workers, Restart(w)
  PROVE  Capped' /\ RecentBounded'
<1>1. TypeOK /\ Limit \in Nat /\ Window \in Nat
  BY LimitAssumption DEF IInv
<1>2. /\ now' = now /\ deaths' = deaths + 1 /\ admitted' = admitted
      /\ hits' = [hits EXCEPT ![w] = [k \in Keys |-> Fresh]]
  BY DEF Restart, Die
<1>3. \A v \in Workers, k \in NameKeys : hits'[v][k] = IF v = w THEN Fresh ELSE hits[v][k]
  BY <1>1, <1>2 DEF TypeOK, Keys
<1>4. Capped'
  BY <1>1, <1>3, FreshType DEF Capped
<1>5. ASSUME NEW k \in NameKeys, NEW m \in 1..Window
      PROVE  Cardinality(Slots(k, m)) <= Cardinality(Slots(k, m)') + Limit
  <2>1. PICK r \in {0, Limit} : r = IF m = 1 THEN 0 ELSE Limit
    OBVIOUS
  <2>2. Room(w, k, m)' = r
    BY <1>3, <1>5, <2>1 DEF Room
  <2>3. Room(w, k, m) \in 0..r + Limit
    <3>1. Room(w, k, m) \in 0..2 * Limit
      BY <1>1, <1>5, RoomType
    <3>2. CASE m # 1
      BY <1>1, <2>1, <3>1, <3>2
    <3>3. CASE m = 1
      <4>1. hits[w][k] = Fresh \/ hits[w][k].ends <= now + Window
        BY <1>5 DEF IInv, OnWindow, Keys
      <4>2. /\ now \in Nat /\ hits[w][k].ends \in Nat
            /\ hits[w][k].count \in Nat /\ hits[w][k].count <= Limit
        BY <1>1, <1>5, BoundsAssumption DEF TypeOK, Keys, Counter, Capped
      <4>3. hits[w][k] # Fresh => hits[w][k].ends - Window <= now - (m - 1)
        BY <1>1, <3>3, <4>1, <4>2
      <4>4. Room(w, k, m) \in {0, hits[w][k].count}
        BY <3>3, <4>3 DEF Room
      <4> QED BY <1>1, <2>1, <3>3, <4>2, <4>4
    <3> QED BY <3>2, <3>3
  <2>4. m \in Nat
    BY <1>5, <1>1
  <2> DEFINE Lost == {w} \X (r + 1..r + Limit)
  <2>5. ASSUME NEW x \in Slots(k, m), x \notin Lost
        PROVE  x \in Slots(k, m)'
    <3>1. x \in Workers \X (1..2 * Limit) /\ x[2] <= Room(x[1], k, m) /\ x[1] \in Workers
      BY <2>5 DEF Slots
    <3>2. CASE x[1] = w
      <4>1. x[2] <= r + Limit /\ x[2] \in Nat
        BY <1>1, <2>1, <2>3, <3>1, <3>2
      <4>2. x = <<w, x[2]>>
        BY <3>1, <3>2
      <4>3. x[2] \notin r + 1..r + Limit
        BY <2>5, <4>2
      <4>4. x[2] <= r
        BY <1>1, <2>1, <4>1, <4>3
      <4> QED BY <2>2, <3>1, <3>2, <4>4 DEF Slots
    <3>3. CASE x[1] # w
      <4>1. Room(x[1], k, m)' = Room(x[1], k, m)
        BY <1>2, <1>3, <1>5, <3>1, <3>3 DEF Room
      <4> QED BY <3>1, <4>1 DEF Slots
    <3> QED BY <3>2, <3>3
  <2>6. IsFiniteSet(Lost) /\ Cardinality(Lost) = Limit
    <3>1. PICK I : I = r + 1..r + Limit
      OBVIOUS
    <3>2. IsFiniteSet(I) /\ Cardinality(I) = Limit
      BY <1>1, <2>1, <3>1, FS_Interval
    <3>3. IsFiniteSet({w}) /\ Cardinality({w}) = 1
      BY FS_Singleton
    <3>4. IsFiniteSet({w} \X I) /\ Cardinality({w} \X I) = 1 * Limit
      BY <3>2, <3>3, FS_Product
    <3> QED BY <1>1, <3>1, <3>4
  <2> HIDE DEF Lost
  <2>7. PICK S : S = Slots(k, m)' \cup Lost
    OBVIOUS
  <2>8. IsFiniteSet(Slots(k, m)') /\ Cardinality(Slots(k, m)') \in Nat
    BY <1>5, <2>4, SlotsFinite
  <2>9. IsFiniteSet(S) /\ Cardinality(S) <= Cardinality(Slots(k, m)') + Limit
    <3>1. PICK T : T = Slots(k, m)'
      OBVIOUS
    <3>2. /\ IsFiniteSet(T \cup Lost) /\ Cardinality(T \cap Lost) \in Nat
          /\ Cardinality(T \cup Lost) = Cardinality(T) + Cardinality(Lost) - Cardinality(T \cap Lost)
      BY <2>6, <2>8, <3>1, FS_Union, FS_Intersection, FS_CardinalityType
    <3> QED BY <1>1, <2>6, <2>7, <2>8, <3>1, <3>2
  <2>10. Slots(k, m) \in SUBSET S
    BY <2>5, <2>7
  <2>11. Cardinality(Slots(k, m)) <= Cardinality(S) /\ Cardinality(S) \in Nat
    BY <2>9, <2>10, FS_Subset, FS_CardinalityType
  <2>12. Cardinality(Slots(k, m)) \in Nat
    BY <1>5, <2>4, SlotsFinite
  <2> QED BY <1>1, <2>8, <2>9, <2>11, <2>12
<1>6. ASSUME NEW k \in NameKeys, NEW m \in 1..Window
      PROVE  /\ IsFiniteSet(Recent(k, m)')
             /\ Cardinality(Recent(k, m)') <= Cardinality(Slots(k, m)') + deaths' * Limit
  <2>1. /\ IsFiniteSet(Recent(k, m))
        /\ Cardinality(Recent(k, m)) <= Cardinality(Slots(k, m)) + deaths * Limit
    BY <1>6 DEF RecentBounded
  <2>2. Recent(k, m)' = Recent(k, m)
    BY <1>2 DEF Recent
  <2>3. m \in Nat
    BY <1>1, <1>6
  <2>4. /\ Cardinality(Slots(k, m)) \in Nat /\ Cardinality(Slots(k, m)') \in Nat
        /\ Cardinality(Recent(k, m)) \in Nat /\ deaths * Limit \in Int
    BY <1>1, <1>6, <2>1, <2>3, SlotsFinite, FS_CardinalityType DEF TypeOK
  <2>5. deaths' * Limit = deaths * Limit + Limit
    BY <1>1, <1>2 DEF TypeOK
  <2>6. Cardinality(Slots(k, m)) <= Cardinality(Slots(k, m)') + Limit
    BY <1>5, <1>6
  <2> QED BY <1>1, <2>1, <2>2, <2>4, <2>5, <2>6
<1> QED BY <1>4, <1>6 DEF RecentBounded

LEMMA TickRecent ==
  ASSUME IInv, Capped, RecentBounded, Tick
  PROVE  Capped' /\ RecentBounded'
<1>1. TypeOK /\ OnWindow /\ Limit \in Nat /\ Window \in Nat /\ now \in Nat
  BY LimitAssumption, BoundsAssumption DEF IInv, TypeOK
<1>2. now' = now + 1 /\ deaths' = deaths
  BY DEF Tick, Pass
<1>3. PICK t \in Nat : t = now + 1
  BY <1>1
<1>4. \A w \in Workers, k \in NameKeys :
          hits'[w][k] = IF t < hits[w][k].ends THEN hits[w][k] ELSE Fresh
  <2>1. hits' = [w \in Workers |-> [k \in Keys |-> IF t < hits[w][k].ends THEN hits[w][k] ELSE Fresh]]
    BY <1>2, <1>3 DEF Tick
  <2> QED BY <2>1 DEF Keys
<1>5. \A k \in NameKeys, i \in 0..Window - 1 :
          admitted'[k][i] = IF i = 0 THEN 0 ELSE admitted[k][i - 1]
  BY DEF Tick
<1>6. Capped'
  BY <1>1, <1>4, FreshType DEF Capped
<1>7. ASSUME NEW k \in NameKeys, NEW m \in 1..Window, NEW w \in Workers
      PROVE  /\ Room(w, k, m)' \in Nat
             /\ m # 1 => Room(w, k, m - 1) <= Room(w, k, m)' /\ Room(w, k, m - 1) \in Nat
  <2>1. PICK c \in Counter : c = hits[w][k]
    BY <1>1, <1>7 DEF TypeOK, Keys
  <2>2. c.count \in Nat /\ c.ends \in Nat /\ c.count <= Limit
    BY <1>7, <2>1 DEF Counter, Capped
  <2>3. CASE hits'[w][k] = Fresh
    <3>1. Room(w, k, m)' = IF m = 1 THEN 0 ELSE Limit
      BY <2>3 DEF Room
    <3>2. ASSUME m # 1
          PROVE  Room(w, k, m - 1) <= Limit /\ Room(w, k, m - 1) \in Nat
      <4>1. CASE c = Fresh
        BY <1>1, <2>1, <4>1 DEF Room
      <4>2. CASE c # Fresh
        <5>1. c.ends <= t
          BY <1>3, <1>4, <1>7, <2>1, <2>2, <2>3, <4>2
        <5>2. c.ends - Window <= now - ((m - 1) - 1)
          BY <1>1, <1>3, <1>7, <2>2, <3>2, <5>1
        <5>3. Room(w, k, m - 1) = c.count
          BY <2>1, <4>2, <5>2 DEF Room
        <5> QED BY <2>2, <5>3
      <4> QED BY <4>1, <4>2
    <3> QED BY <1>1, <3>1, <3>2
  <2>4. CASE hits'[w][k] # Fresh
    <3>1. hits'[w][k] = c
      BY <1>4, <1>7, <2>1, <2>4
    <3>2. Room(w, k, m)' = IF c.ends - Window <= t - (m - 1) THEN c.count ELSE c.count + Limit
      BY <1>2, <1>3, <2>4, <3>1 DEF Room
    <3>3. Room(w, k, m - 1) =
              IF c.ends - Window <= now - ((m - 1) - 1) THEN c.count ELSE c.count + Limit
      BY <2>1, <2>4, <3>1 DEF Room
    <3>4. t - (m - 1) = now - ((m - 1) - 1)
      BY <1>1, <1>3, <1>7
    <3> QED BY <1>1, <2>2, <3>2, <3>3, <3>4
  <2> QED BY <2>3, <2>4
<1>8. ASSUME NEW k \in NameKeys, NEW m \in 1..Window
      PROVE  /\ IsFiniteSet(Recent(k, m)')
             /\ Cardinality(Recent(k, m)') <= Cardinality(Slots(k, m)') + deaths * Limit
  <2>1. m \in Nat /\ \A i \in 0..m - 1 : i \in 0..Window - 1
    BY <1>1, <1>8
  <2>0. \A x : x \in Recent(k, m)' <=>
                \E i \in 0..m - 1 : \E n \in 1..admitted'[k][i] : x = <<i, n>>
    BY <1>8, <2>1, RecentMember
  <2>2. Cardinality(Slots(k, m)') \in Nat /\ deaths * Limit \in Nat
    <3>1. deaths \in Nat
      BY <1>1 DEF TypeOK
    <3> QED BY <1>1, <1>8, <2>1, <3>1, SlotsFinite
  <2>3. CASE m = 1
    <3>1. Recent(k, m)' = {}
      <4>1. \A i \in 0..m - 1 : 1..admitted'[k][i] = {}
        BY <1>1, <1>5, <1>8, <2>1, <2>3
      <4> QED BY <2>0, <4>1
    <3> QED BY <2>2, <3>1, FS_EmptySet
  <2>4. CASE m # 1
    <3>1. PICK l \in 1..Window : l = m - 1 /\ l \in Nat
      BY <1>1, <1>8, <2>4
    <3>2. /\ IsFiniteSet(Recent(k, l))
          /\ Cardinality(Recent(k, l)) <= Cardinality(Slots(k, l)) + deaths * Limit
      BY <1>8, <3>1 DEF RecentBounded
    <3>3. Cardinality(Slots(k, l)) <= Cardinality(Slots(k, m)')
      BY <1>7, <1>8, <2>1, <2>4, <3>1, SlotsGrow
    <3>4. \A i \in 0..m - 1 : admitted'[k][i] = IF i = 0 THEN 0 ELSE admitted[k][i - 1]
      BY <1>5, <1>8, <2>1
    <3>5. ASSUME NEW x \in Recent(k, l)
          PROVE  <<x[1] + 1, x[2]>> \in Recent(k, m)'
      <4>0. PICK i \in 0..l - 1 : \E j \in 1..admitted[k][i] : x = <<i, j>>
        BY <1>8, <3>1, <3>5, RecentMember
      <4>1. PICK j \in 1..admitted[k][i] : x = <<i, j>>
        BY <4>0
      <4>2. PICK h \in 0..m - 1 : h = i + 1 /\ h # 0 /\ h - 1 = i
        BY <2>1, <3>1, <4>1
      <4>3. j \in 1..admitted'[k][h] /\ <<x[1] + 1, x[2]>> = <<h, j>>
        BY <3>4, <4>1, <4>2
      <4> QED BY <2>0, <4>2, <4>3
    <3>6. ASSUME NEW y \in Recent(k, m)'
          PROVE  \E x \in Recent(k, l) : y = <<x[1] + 1, x[2]>>
      <4>0. PICK h \in 0..m - 1 : \E j \in 1..admitted'[k][h] : y = <<h, j>>
        BY <2>0, <3>6
      <4>1. PICK j \in 1..admitted'[k][h] : y = <<h, j>>
        BY <4>0
      <4>2. h # 0
        BY <3>4, <4>1
      <4>3. PICK i \in 0..l - 1 : i = h - 1 /\ i + 1 = h
        BY <2>1, <3>1, <4>1, <4>2
      <4>4. j \in 1..admitted[k][i]
        BY <3>4, <4>1, <4>2, <4>3
      <4>5. <<i, j>> \in Recent(k, l)
        BY <1>8, <3>1, <4>3, <4>4, RecentMember
      <4> QED BY <4>1, <4>3, <4>5
    <3>7. PICK S : S = Recent(k, l)
      OBVIOUS
    <3>8. PICK R : R = Recent(k, m)'
      OBVIOUS
    <3> DEFINE f == [x \in Recent(k, l) |-> <<x[1] + 1, x[2]>>]
    <3>9. f \in Surjection(S, R)
      BY <3>5, <3>6, <3>7, <3>8 DEF Surjection
    <3> HIDE DEF f
    <3>10. IsFiniteSet(R) /\ Cardinality(R) <= Cardinality(S)
      BY <3>2, <3>7, <3>9, FS_Surjection
    <3>11. /\ Cardinality(R) \in Nat /\ Cardinality(S) \in Nat
           /\ Cardinality(Slots(k, l)) \in Nat
      BY <1>8, <3>1, <3>2, <3>7, <3>10, SlotsFinite, FS_CardinalityType
    <3> QED BY <2>2, <3>2, <3>3, <3>7, <3>8, <3>10, <3>11
  <2> QED BY <2>3, <2>4
<1> QED BY <1>2, <1>6, <1>8 DEF RecentBounded

LEMMA NextRecent ==
  ASSUME IInv, Capped, RecentBounded, [Next]_vars
  PROVE  Capped' /\ RecentBounded'
<1>1. ASSUME NEW w \in Workers, NEW a \in Addresses, NEW s \in Spellings, Login(w, a, s)
      PROVE  Capped' /\ RecentBounded'
  <2>1. CASE Throttle(w, a, Lowered[s])
    BY <1>1, <2>1, ThrottleRecent
  <2>2. CASE ~Throttle(w, a, Lowered[s])
    <3>1. \E n \in Nat : Admit(w, a, Lowered[s], n) /\ now' = now /\ deaths' = deaths
      BY <1>1, <2>2 DEF Login, UnknownUser, Blocked, WrongPassword, RightPassword,
                        Refuse, Fail, Succeed, policyVars
    <3> QED BY <1>1, <3>1, AdmitRecent
  <2> QED BY <2>1, <2>2
<1>2. ASSUME UNCHANGED <<hits, now, deaths, admitted>>
      PROVE  Capped' /\ RecentBounded'
  <2>1. \A k \in NameKeys, m \in 1..Window : Recent(k, m)' = Recent(k, m)
    BY <1>2 DEF Recent
  <2>2. \A w \in Workers, k \in NameKeys, m \in 1..Window : Room(w, k, m)' = Room(w, k, m)
    BY <1>2 DEF Room
  <2>3. \A k \in NameKeys, m \in 1..Window : Slots(k, m)' = Slots(k, m)
    BY <2>2 DEF Slots
  <2> QED BY <1>2, <2>1, <2>3 DEF Capped, RecentBounded
<1>3. ASSUME NEW u \in Users, LockAccount(u)
      PROVE  Capped' /\ RecentBounded'
  BY <1>2, <1>3 DEF LockAccount, Lock
<1>4. CASE UNCHANGED vars
  BY <1>2, <1>4 DEF vars, policyVars
<1> QED BY <1>1, <1>3, <1>4, RestartRecent, TickRecent DEF Next

LEMMA InitRecent == Init => Capped /\ RecentBounded
<1> SUFFICES ASSUME Init
             PROVE  Capped /\ RecentBounded
  OBVIOUS
<1>1. Capped
  BY FreshType, LimitAssumption DEF Init, Capped, Keys
<1>2. ASSUME NEW k \in NameKeys, NEW m \in 1..Window
      PROVE  /\ IsFiniteSet(Recent(k, m))
             /\ Cardinality(Recent(k, m)) <= Cardinality(Slots(k, m)) + deaths * Limit
  <2>1. m \in Nat /\ \A i \in 0..m - 1 : admitted[k][i] = 0
    BY <1>2, LimitAssumption DEF Init
  <2>2. Recent(k, m) = {}
    BY <1>2, <2>1, RecentMember
  <2>3. deaths * Limit = 0
    BY LimitAssumption DEF Init, PolicyInit
  <2> QED BY <1>2, <2>1, <2>2, <2>3, SlotsFinite, FS_EmptySet
<1> QED BY <1>1, <1>2 DEF RecentBounded

(* For any number of workers, of addresses and of restarts: the logins of  *)
(* a name that get through in the span of a window are at most two limits  *)
(* of each worker, and one more for each worker that has died.             *)
THEOREM FewGetIn ==
  ASSUME LockoutsLast
  PROVE  Spec => []AdmissionBounded
<1>1. Init => IInv /\ Capped /\ RecentBounded
  BY InitInv, InitRecent
<1>2. LockoutsLast => (IInv /\ Capped /\ RecentBounded /\ [Next]_vars
                          => (IInv /\ Capped /\ RecentBounded)')
  BY NextInv, NextRecent
<1>3. ASSUME IInv, RecentBounded
      PROVE  AdmissionBounded
  <2>1. SUFFICES ASSUME NEW k \in NameKeys
                 PROVE  Cardinality(Recent(k, Window))
                            <= (2 * Cardinality(Workers) + deaths) * Limit
    BY <2>1 DEF AdmissionBounded
  <2>2. Window \in 1..Window /\ Window \in Nat /\ Limit \in Nat /\ deaths \in Nat
    BY <1>3, LimitAssumption DEF IInv, TypeOK
  <2>3. /\ IsFiniteSet(Recent(k, Window))
        /\ Cardinality(Recent(k, Window)) <= Cardinality(Slots(k, Window)) + deaths * Limit
    BY <1>3, <2>2 DEF RecentBounded
  <2>4. PICK c \in Nat : c = Cardinality(Workers)
    BY <2>2, SlotsFinite
  <2>5. Cardinality(Slots(k, Window)) <= c * (2 * Limit) /\ Cardinality(Slots(k, Window)) \in Nat
    BY <2>2, <2>4, SlotsFinite
  <2>6. /\ (2 * c + deaths) * Limit = c * (2 * Limit) + deaths * Limit
        /\ c * (2 * Limit) \in Nat /\ deaths * Limit \in Nat
    BY <2>2, <2>4
  <2>7. Cardinality(Recent(k, Window)) \in Nat
    BY <2>3, FS_CardinalityType
  <2> QED BY <2>3, <2>4, <2>5, <2>6, <2>7
<1> QED BY <1>1, <1>2, <1>3, PTL DEF Spec

-----------------------------------------------------------------------------
(* LockoutSimulation, the other module that builds on LockoutPolicy.       *)

(* The types on which the arguments rest.                                  *)
SimTypes ==
    /\ now \in Nat
    /\ number \in [Users -> Nat] /\ failures \in [Users -> Nat] /\ until \in [Users -> Nat]
    /\ user \in Users
    /\ previous \in Nat /\ round \in Nat \ {0} /\ attempt \in 1..MaxFailed /\ latest \in Nat

(* Where the simulation is in its rounds. A round begins with the lockout  *)
(* of the round before, and the newest row it finds is not an old one.     *)
InRound ==
    /\ pc = "start" => lifted = {} /\ round = 1 /\ attempt = 1
    /\ \A n \in lifted : n > previous
    /\ pc = "lock" => due = {user}
    /\ pc \in {"attempt", "lock", "look", "after"} => number[user] >= Expected - 1
    /\ pc = "reset" => number[user] >= latest /\ latest >= Expected

(* The lockout of this round is still to come, and nobody has disturbed    *)
(* the simulation.                                                         *)
Below == number[user] < Expected /\ ~disturbed

(* Until then the account is not locked, so each attempt is a failure more *)
(* and the last one makes the lockout due.                                 *)
Progress ==
    /\ Below /\ pc \in {"attempt", "lock", "look", "after"} => ~Locked(user)
    /\ Below /\ pc = "attempt" => failures[user] >= attempt - 1
    /\ Below /\ pc = "look" => status # 423 /\ failures[user] >= attempt /\ attempt < MaxFailed
    /\ pc = "after" => ~Below
    /\ pc = "failed" => disturbed

SimInv == SimTypes /\ InRound /\ Progress

USE DEF Goto, Expected, Locked

(* What a step of the lockout does to the account of the simulation.       *)
LEMMA SimFail ==
  ASSUME SimTypes, Fail(user)
  PROVE  /\ failures' \in [Users -> Nat] /\ failures'[user] = failures[user] + 1
         /\ due' = IF failures[user] + 1 >= MaxFailed THEN {user} ELSE {}
         /\ UNCHANGED <<now, number, until>>
  BY DEF Fail, SimTypes

(* A refused attempt is counted as well.                                   *)
LEMMA SimRefuse ==
  ASSUME SimTypes, Refuse(user)
  PROVE  /\ failures' \in [Users -> Nat] /\ failures'[user] = failures[user] + 1
         /\ UNCHANGED <<now, number, until, due>>
  BY DEF Refuse, SimTypes

(* A login forgets the failures.                                           *)
LEMMA SimSucceed ==
  ASSUME SimTypes, Succeed(user)
  PROVE  /\ failures' \in [Users -> Nat] /\ UNCHANGED <<now, number, until, due>>
  BY DEF Succeed, SimTypes

(* A lockout counts, and the account has its next number.                  *)
LEMMA SimLock ==
  ASSUME LockoutsLast, SimTypes, LockNow
  PROVE  /\ failures' \in [Users -> Nat] /\ number' \in [Users -> Nat] /\ until' \in [Users -> Nat]
         /\ number'[user] = number[user] + 1 /\ now' = now
<1>1. PICK d \in Nat : d = Duration(number[user] + 1)
  BY DEF LockoutsLast, SimTypes
<1>2. PICK t \in 0..now : until' = [until EXCEPT ![user] = t + d]
  BY <1>1 DEF LockNow, Lock
<1>3. t + d \in Nat
  BY <1>1, <1>2 DEF SimTypes
<1> QED BY <1>2, <1>3 DEF LockNow, Lock, SimTypes

(* The end of a lockout changes nothing else.                              *)
LEMMA SimUnlock ==
  ASSUME SimTypes, Unlock(user), until'[user] = now
  PROVE  /\ until' \in [Users -> Nat] /\ UNCHANGED <<now, failures, number, due>>
<1>1. PICK t \in 0..now : until' = [until EXCEPT ![user] = t]
  BY DEF Unlock
<1> QED BY <1>1 DEF Unlock, SimTypes

(* The simulation has not begun.                                           *)
LEMMA SimInit ==
  ASSUME SimulationInit
  PROVE  SimInv
<1>1. MaxFailed \in Nat \ {0}
  BY RoundsAssumption
<1>2. SimTypes
  BY <1>1 DEF SimulationInit, PolicyInit, SimTypes
<1>3. pc = "start" /\ lifted = {} /\ round = 1 /\ attempt = 1
  BY DEF SimulationInit
<1> QED BY <1>2, <1>3 DEF SimInv, InRound, Progress

(* The service and the clock leave the simulation where it is.             *)
LEMMA SimService ==
  ASSUME LockoutsLast, SimInv, Service \/ TimePasses
  PROVE  SimInv'
<1> USE DEF SimInv
<1>1. UNCHANGED sim
  BY DEF Service, Live, LiveUnlock, LiveLock, TimePasses
<1>2. UNCHANGED <<caller, user, pc, round, attempt, previous, status, latest, lifted>>
  BY <1>1 DEF sim
<1>3. CASE LiveWrong /\ Live
  <2>1. /\ pc # "lock"
        /\ failures' \in [Users -> Nat] /\ failures'[user] = failures[user] + 1
        /\ UNCHANGED <<now, number, until, disturbed>>
    BY <1>3, SimFail DEF LiveWrong, Live
  <2>2. SimTypes'
    BY <1>2, <2>1 DEF SimTypes
  <2>3. InRound'
    BY <1>2, <2>1 DEF InRound
  <2>4. Progress'
    BY <1>2, <2>1 DEF SimTypes, Progress, Below
  <2> QED BY <2>2, <2>3, <2>4
<1>4. CASE LiveRefused /\ Live
  BY <1>2, <1>4, SimRefuse DEF LiveRefused, Live, SimTypes, InRound, Progress, Below
<1>5. CASE LiveRight /\ Live
  BY <1>2, <1>5, SimSucceed DEF LiveRight, Live, SimTypes, InRound, Progress, Below
<1>6. CASE LiveUnlock
  BY <1>2, <1>6, SimUnlock DEF LiveUnlock, SimTypes, InRound, Progress, Below
<1>7. CASE LiveLock
  BY <1>2, <1>7, SimLock DEF LiveLock, SimTypes, InRound, Progress, Below
<1>8. CASE TimePasses
  BY <1>2, <1>8 DEF TimePasses, Pass, SimTypes, InRound, Progress, Below
<1> QED BY <1>3, <1>4, <1>5, <1>6, <1>7, <1>8 DEF Service, Live

(* An attempt is one more failure, refused only if the account is locked.  *)
LEMMA SimAttempt ==
  ASSUME LockoutsLast, SimInv, Attempt
  PROVE  SimInv'
<1> USE DEF SimInv
<1>0. MaxFailed \in Nat \ {0} /\ failures[user] \in Nat
  BY RoundsAssumption DEF SimTypes
<1>1. /\ UNCHANGED <<caller, user, round, attempt, previous, latest, live, lifted>>
      /\ pc = "attempt"
  BY DEF Attempt
<1>2. CASE Refused
  BY <1>1, <1>2, SimRefuse DEF Refused, IsRefused, SimTypes, InRound, Progress, Below
<1>3. CASE Rejected
  <2>1. /\ UNCHANGED <<now, number, until, disturbed>>
        /\ failures' \in [Users -> Nat] /\ failures'[user] = failures[user] + 1
        /\ due' = IF failures[user] + 1 >= MaxFailed THEN {user} ELSE {}
        /\ status' = 401 /\ pc' = IF due' = {} THEN "look" ELSE "lock"
    BY <1>3, SimFail DEF Rejected
  <2>2. CASE failures[user] + 1 >= MaxFailed
    <3>1. pc' = "lock" /\ due' = {user}
      BY <2>1, <2>2
    <3> QED BY <1>1, <2>1, <3>1 DEF SimTypes, InRound, Progress, Below
  <2>3. CASE failures[user] + 1 < MaxFailed
    <3>1. pc' = "look"
      BY <1>0, <2>1, <2>3
    <3> QED BY <1>0, <1>1, <2>1, <2>3, <3>1 DEF SimTypes, InRound, Progress, Below
  <2> QED BY <1>0, <2>2, <2>3
<1>4. CASE Accepted
  BY <1>1, <1>4, SimSucceed DEF Accepted, SimTypes, InRound, Progress, Below
<1> QED BY <1>2, <1>3, <1>4 DEF Attempt

(* The other steps of the simulation.                                      *)
LEMMA SimOther ==
  ASSUME LockoutsLast, SimInv,
         Start \/ AttemptLocks \/ Look \/ LookAgain \/ Reset
  PROVE  SimInv'
<1> USE DEF SimInv
<1>0. MaxFailed \in Nat \ {0}
  BY RoundsAssumption
<1>1. CASE Start
  <2>1. /\ previous' = number[user] /\ pc' = "attempt"
        /\ lifted = {} /\ round = 1 /\ attempt = 1
        /\ UNCHANGED <<now, failures, number, until, due, caller, user, round, attempt, latest,
                      lifted>>
    BY <1>1 DEF Start, policyVars, InRound
  <2>2. ~disturbed' => ~Locked(user)
    BY <1>1 DEF Start
  <2> QED BY <1>0, <2>1, <2>2 DEF SimTypes, InRound, Progress, Below
<1>2. CASE AttemptLocks
  BY <1>2, SimLock DEF AttemptLocks, SimTypes, InRound, Progress, Below
<1>3. CASE Look
  BY <1>0, <1>3 DEF Look, MoreAttempts, policyVars, SimTypes, InRound, Progress, Below
<1>4. CASE LookAgain
  BY <1>4 DEF LookAgain, Reached, policyVars, SimTypes, InRound, Progress, Below
<1>5. CASE Reset
  <2>1. /\ pc = "reset" /\ pc' = "attempt" /\ lifted' = lifted \cup {latest}
        /\ round' = round + 1 /\ attempt' = 1
        /\ UNCHANGED <<caller, user, previous, status, latest, live, disturbed>>
    BY <1>5 DEF Reset
  <2>2. /\ until' \in [Users -> Nat] /\ UNCHANGED <<now, failures, number>>
        /\ latest = number[user] => until'[user] = now
    BY <1>5, SimUnlock DEF Reset, Expire, policyVars, SimTypes
  <2> QED BY <1>0, <2>1, <2>2 DEF SimTypes, InRound, Progress, Below
<1> QED BY <1>1, <1>2, <1>3, <1>4, <1>5

LEMMA SimStep ==
  ASSUME LockoutsLast, SimInv, [SimulationNext]_simulationVars
  PROVE  SimInv'
<1>1. CASE UNCHANGED simulationVars
  BY <1>1 DEF simulationVars, policyVars, sim, SimInv, SimTypes, InRound, Progress, Below
<1> QED BY <1>1, SimService, SimAttempt, SimOther DEF SimulationNext, Simulate

LEMMA SimSpecInv ==
  ASSUME LockoutsLast
  PROVE  SimulationSpec => []SimInv
<1>1. LockoutsLast /\ SimulationInit => SimInv
  BY SimInit
<1>2. LockoutsLast => (SimInv /\ [SimulationNext]_simulationVars => SimInv')
  BY SimStep
<1> QED BY <1>1, <1>2, PTL DEF SimulationSpec

(* Whatever the service does to the account in between, each round of the  *)
(* simulation ends with a lockout of its own, unless the account was       *)
(* locked when it began or somebody has logged in.                         *)
THEOREM SimulationReachesItsLockouts ==
  ASSUME LockoutsLast
  PROVE  SimulationSpec => []FailsForAReason
<1>1. SimInv => FailsForAReason
  BY DEF SimInv, Progress, FailsForAReason
<1> QED BY <1>1, SimSpecInv, PTL

(* A lockout that was in force when the simulation began is never ended by *)
(* it.                                                                     *)
THEOREM OldLockoutsAreKept ==
  ASSUME LockoutsLast
  PROVE  SimulationSpec => []OldLockoutsStand
<1>1. SimInv => OldLockoutsStand
  BY DEF SimInv, SimTypes, InRound, OldLockoutsStand
<1> QED BY <1>1, SimSpecInv, PTL

==============================================================================
