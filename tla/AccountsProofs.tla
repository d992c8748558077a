--------------------------- MODULE AccountsProofs ---------------------------
(***************************************************************************)
(* Theorems about Accounts, for any names, passwords and finite set of     *)
(* workers, any size of the history and any number of requests. Base is    *)
(* inductive: it adds to the invariants that the tables are empty until    *)
(* the setup process has made the administrator (BootInv) and that the     *)
(* history refers to ids handed out (Ids). For the bound on replaced       *)
(* passwords ProofInv adds to the rows already written the requests that   *)
(* may still write one more, and so does CopyInv for repeated ones.        *)
(***************************************************************************)
EXTENDS Accounts, TLAPS, FiniteSetTheorems, WellFoundedInduction

-----------------------------------------------------------------------------
(* Type correctness and boot.                                              *)

(* Before the setup process is done there are no accounts and no workers,  *)
(* and afterwards there is an administrator.                               *)
BootInv ==
    IF pc[Setup] = "ready"
    THEN AdminExists /\ \A p \in Processes : pc[p] \notin {"seed", "failed"}
    ELSE /\ users = {} /\ pc[Setup] \in {"down", "seed"}
         /\ \A w \in Workers : pc[w] = "down"

(* The rows of the history refer to ids that have been handed out.         *)
Ids == \A k \in 1..Len(history) : history[k].user \in 1..seq

Base == TypeOK /\ NamesUnique /\ OneAdmin /\ BootInv /\ Ids

LEMMA FinishEffect ==
  ASSUME TypeOK, NEW w \in Workers, Finish(w)
  PROVE  /\ pc' \in [Processes -> PCs] /\ req' \in [Workers -> Request]
         /\ \A p \in Processes : pc'[p] = IF p = w THEN "ready" ELSE pc[p]
         /\ \A v \in Workers : req'[v] = IF v = w THEN NoRequest ELSE req[v]
<1>1. NoRequest \in Request
  BY DEF NoRequest, Request
<1> QED BY <1>1 DEF TypeOK, Finish, Goto, PCs, Processes

(* The requests that arrive, and what their handlers keep.                 *)
Starts(w, step, r) ==
    /\ Accept(w, step, r)
    /\ step \in {"insert", "recent", "rename"} /\ r \in Request
    /\ step \in {"insert", "rename"} => r.username \in Names
    /\ step \in {"insert", "recent"} => r.password \in Validated
    /\ step \in {"recent", "rename"} => r.user \in tokens /\ \E u \in users : u.id = r.user
    /\ step = "recent" => \E u \in users : u.id = r.user /\ r.proof = u.changes

LEMMA ArriveEffect ==
  ASSUME TypeOK, NEW w \in Workers, Arrive(w)
  PROVE  \E step \in PCs, r \in Request : Starts(w, step, r)
<1>0. \A p \in Validated : p \in Passwords
  BY DEF Validated
<1>1. CASE Register(w)
  <2>1. PICK n \in Names, p \in Validated :
            Accept(w, "insert", [NoRequest EXCEPT !.username = n, !.password = p])
    BY <1>1 DEF Register
  <2> DEFINE r == [NoRequest EXCEPT !.username = n, !.password = p]
  <2>2. r \in Request /\ r.username = n /\ r.password = p
    BY <1>0 DEF NoRequest, Request
  <2>3. "insert" \in PCs
    BY DEF PCs
  <2> HIDE DEF r
  <2>4. Starts(w, "insert", r)
    BY <2>1, <2>2 DEF Starts, r
  <2> QED BY <2>2, <2>3, <2>4
<1>2. CASE ChangePassword(w)
  <2>1. PICK u \in users, p \in Validated :
            /\ u.id \in tokens
            /\ Accept(w, "recent",
                      [NoRequest EXCEPT !.user = u.id, !.password = p, !.proof = u.changes])
    BY <1>2 DEF ChangePassword
  <2> DEFINE r == [NoRequest EXCEPT !.user = u.id, !.password = p, !.proof = u.changes]
  <2>2. r \in Request /\ r.user = u.id /\ r.password = p /\ r.proof = u.changes
    BY <1>0 DEF NoRequest, Request, TypeOK, User
  <2>3. "recent" \in PCs
    BY DEF PCs
  <2> HIDE DEF r
  <2>4. Starts(w, "recent", r)
    BY <2>1, <2>2 DEF Starts, r
  <2> QED BY <2>2, <2>3, <2>4
<1>3. CASE UpdateAccount(w)
  <2>1. PICK u \in users, n \in Names :
            u.id \in tokens /\ Accept(w, "rename", [NoRequest EXCEPT !.user = u.id, !.username = n])
    BY <1>3 DEF UpdateAccount
  <2> DEFINE r == [NoRequest EXCEPT !.user = u.id, !.username = n]
  <2>2. r \in Request /\ r.user = u.id /\ r.username = n
    BY DEF NoRequest, Request, TypeOK, User
  <2>3. "rename" \in PCs
    BY DEF PCs
  <2> HIDE DEF r
  <2>4. Starts(w, "rename", r)
    BY <2>1, <2>2 DEF Starts, r
  <2> QED BY <2>2, <2>3, <2>4
<1> QED BY <1>1, <1>2, <1>3 DEF Arrive

(* A request that starts takes over an idle worker.                        *)
LEMMA StartsEffect ==
  ASSUME TypeOK, NEW w \in Workers, NEW step \in PCs, NEW r \in Request, Starts(w, step, r)
  PROVE  /\ pc[w] = "ready" /\ arrived' \in Nat
         /\ pc' \in [Processes -> PCs] /\ req' \in [Workers -> Request]
         /\ \A p \in Processes : pc'[p] = IF p = w THEN step ELSE pc[p]
         /\ \A v \in Workers : req'[v] = IF v = w THEN r ELSE req[v]
         /\ UNCHANGED <<users, seq, history, tokens, crashes>>
  BY DEF Starts, Accept, Goto, TypeOK, Processes

(* What a request keeps remains good when no handler goes on and accounts  *)
(* are only added or changed in place.                                     *)
Active == {"insert", "reload", "remember", "recent", "change", "rename"}

Kept ==
    \A v \in Workers :
          /\ pc[v] \in {"insert", "rename"} => req[v].username \in Names
          /\ pc[v] \in {"insert", "remember", "recent", "change"} => req[v].password \in Passwords
          /\ pc[v] \in {"reload", "remember", "recent", "change", "rename"} =>
                \E u \in users : u.id = req[v].user

LEMMA KeptTyped ==
  ASSUME TypeOK,
         \A v \in Workers : pc'[v] \in Active => pc'[v] = pc[v] /\ req'[v] = req[v],
         \A u \in users : \E v \in users' : v.id = u.id
  PROVE  Kept'
  BY DEF TypeOK, Kept, Active

LEMMA ArriveBase ==
  ASSUME Base, NEW w \in Workers, Arrive(w)
  PROVE  Base'
<1>0. TypeOK /\ WorkersAssumption
  BY WorkersAssumption DEF Base
<1>1. PICK step \in PCs, r \in Request : Starts(w, step, r)
  BY <1>0, ArriveEffect
<1>2. /\ pc[w] = "ready" /\ arrived' \in Nat
      /\ pc' \in [Processes -> PCs] /\ req' \in [Workers -> Request]
      /\ \A p \in Processes : pc'[p] = IF p = w THEN step ELSE pc[p]
      /\ \A v \in Workers : req'[v] = IF v = w THEN r ELSE req[v]
      /\ UNCHANGED <<users, seq, history, tokens, crashes>>
  BY <1>0, <1>1, StartsEffect
<1>3. /\ step \in {"insert", "recent", "rename"}
      /\ step \in {"insert", "rename"} => r.username \in Names
      /\ step \in {"insert", "recent"} => r.password \in Passwords
      /\ step \in {"recent", "rename"} => \E u \in users : u.id = r.user
  BY <1>1 DEF Starts, Validated
<1>4. \A v \in Workers :
          /\ pc'[v] \in {"insert", "rename"} => req'[v].username \in Names
          /\ pc'[v] \in {"insert", "remember", "recent", "change"} => req'[v].password \in Passwords
          /\ pc'[v] \in {"reload", "remember", "recent", "change", "rename"} =>
                \E u \in users' : u.id = req'[v].user
  BY <1>0, <1>2, <1>3 DEF TypeOK, Processes
<1>5. TypeOK'
  BY <1>0, <1>2, <1>4 DEF TypeOK
<1>6. BootInv'
  BY <1>2, <1>3, WorkersAssumption DEF Base, BootInv, AdminExists, Processes
<1>7. NamesUnique' /\ OneAdmin' /\ Ids'
  BY <1>2 DEF Base, NamesUnique, OneAdmin, Ids
<1> QED BY <1>5, <1>6, <1>7 DEF Base

LEMMA BootBase ==
  ASSUME Base, NEW p \in Processes, Boot(p)
  PROVE  Base'
<1>1. /\ pc[p] = "down" /\ MayBoot(p)
      /\ pc' = [pc EXCEPT ![p] = IF AdminExists THEN "ready" ELSE "seed"]
      /\ UNCHANGED <<users, seq, history, tokens, req, arrived, crashes>>
  BY DEF Boot, Goto
<1>2. pc' \in [Processes -> PCs] /\ \A q \in Processes : q # p => pc'[q] = pc[q]
  BY <1>1 DEF Base, TypeOK, PCs
<1>3. pc'[p] = IF AdminExists THEN "ready" ELSE "seed"
  BY <1>1 DEF Base, TypeOK
<1>4. \A v \in Workers : pc'[v] \in Active => pc'[v] = pc[v] /\ req'[v] = req[v]
  BY <1>1, <1>2, <1>3 DEF Processes, Active
<1>5. Kept'
  BY <1>1, <1>4, KeptTyped DEF Base
<1>6. TypeOK'
  BY <1>1, <1>2, <1>5 DEF Base, TypeOK, Kept
<1>7. BootInv'
  <2>1. CASE p = Setup
    BY <1>1, <1>2, <1>3, <2>1, WorkersAssumption DEF Base, BootInv, AdminExists, Processes
  <2>2. CASE p # Setup
    <3>1. pc[Setup] = "ready" /\ pc'[Setup] = "ready" /\ AdminExists
      BY <1>1, <1>2, <2>2 DEF MayBoot, Base, BootInv, Processes
    <3> QED BY <1>1, <1>2, <1>3, <3>1 DEF Base, BootInv, AdminExists
  <2> QED BY <2>1, <2>2
<1>8. NamesUnique' /\ OneAdmin' /\ Ids'
  BY <1>1 DEF Base, NamesUnique, OneAdmin, Ids
<1> QED BY <1>6, <1>7, <1>8 DEF Base

(* The rows of a registration or of the seeding.                           *)
LEMMA NewUserTyped ==
  ASSUME TypeOK, NEW n \in Names, NEW q \in Passwords, NEW b \in BOOLEAN
  PROVE  \E r \in User : /\ r = NewUser(n, q, b)
                         /\ r.id = seq + 1 /\ r.username = n /\ r.is_admin = b /\ r.changes = 0
<1>1. NewUser(n, q, b) \in User
  BY DEF NewUser, User, TypeOK
<1> QED BY <1>1 DEF NewUser

LEMMA SeedBase ==
  ASSUME Base, NEW p \in Processes, Seed(p)
  PROVE  Base'
<1>1. pc[p] = "seed" /\ pc[Setup] # "ready"
  BY DEF Seed, Base, BootInv
<1>2. p = Setup /\ users = {} /\ \A v \in Workers : pc[v] = "down"
  BY <1>1 DEF Base, BootInv, Processes
<1>3. ~Taken(AdminName) /\ \A i : i \notin tokens
  BY <1>2 DEF Taken, Base, TypeOK
<1>4. AdminName \in Names /\ SeedPassword \in Passwords
  BY NamesAssumption, PasswordsAssumption
<1>5. PICK n \in User : /\ n = NewUser(AdminName, SeedPassword, TRUE)
                        /\ n.id = seq + 1 /\ n.username = AdminName /\ n.is_admin = TRUE
                        /\ n.changes = 0
  BY <1>4, NewUserTyped DEF Base
<1>6. /\ users' = {n} /\ seq' = seq + 1
      /\ pc' = [pc EXCEPT ![Setup] = "ready"]
      /\ UNCHANGED <<history, tokens, req, arrived, crashes>>
  BY <1>2, <1>3, <1>5 DEF Seed, Goto
<1>7. /\ pc' \in [Processes -> PCs] /\ pc'[Setup] = "ready"
      /\ \A v \in Workers : pc'[v] = "down"
  BY <1>2, <1>6, WorkersAssumption DEF Base, TypeOK, PCs, Processes
<1>8. TypeOK'
  <2>1. users' \subseteq User /\ seq' \in Nat /\ \A u \in users' : u.id <= seq'
    <3>1. seq + 1 \in Nat /\ seq + 1 <= seq + 1
      BY DEF Base, TypeOK
    <3> QED BY <1>5, <1>6, <3>1
  <2>2. tokens' \subseteq {u.id : u \in users'}
    BY <1>3, <1>6
  <2> QED BY <1>6, <1>7, <2>1, <2>2 DEF Base, TypeOK
<1>9. BootInv'
  BY <1>5, <1>6, <1>7 DEF BootInv, AdminExists, Processes
<1>10. NamesUnique' /\ OneAdmin'
  BY <1>6 DEF NamesUnique, OneAdmin
<1>11. Ids'
  BY <1>6 DEF Base, Ids, TypeOK
<1> QED BY <1>8, <1>9, <1>10, <1>11 DEF Base

(* A worker that handles a request was started after the setup.            *)
LEMMA BootDone ==
  ASSUME Base, NEW w \in Workers, pc[w] # "down"
  PROVE  pc[Setup] = "ready" /\ AdminExists /\ w # Setup
  BY WorkersAssumption DEF Base, BootInv

LEMMA BootKept ==
  ASSUME Base, pc[Setup] = "ready", AdminExists', pc'[Setup] = pc[Setup],
         \A v \in Workers : pc'[v] = pc[v] \/ pc'[v] \notin {"seed", "failed"}
  PROVE  BootInv'
  BY DEF Base, BootInv, Processes

LEMMA InsertBase ==
  ASSUME Base, NEW w \in Workers, InsertUser(w)
  PROVE  Base'
<1>1. /\ pc[w] = "insert" /\ seq' = seq + 1
      /\ UNCHANGED <<history, tokens, arrived, crashes>>
  BY DEF InsertUser
<1>2. /\ req[w].username \in Names /\ req[w].password \in Passwords
      /\ pc[Setup] = "ready" /\ AdminExists /\ w # Setup
  BY <1>1, BootDone DEF Base, TypeOK
<1>3. Ids'
  BY <1>1 DEF Base, Ids, TypeOK
<1>4. CASE ~Taken(req[w].username)
  <2>1. PICK n \in User : /\ n = NewUser(req[w].username, req[w].password, FALSE)
                          /\ n.id = seq + 1 /\ n.username = req[w].username
                          /\ n.is_admin = FALSE /\ n.changes = 0
    BY <1>2, NewUserTyped DEF Base
  <2>2. /\ users' = users \cup {n} /\ pc' = [pc EXCEPT ![w] = "reload"]
        /\ req' = [req EXCEPT ![w] = [NoRequest EXCEPT !.user = seq + 1]]
    BY <1>4, <2>1 DEF InsertUser, Goto
  <2>3. /\ [NoRequest EXCEPT !.user = seq + 1] \in Request
        /\ [NoRequest EXCEPT !.user = seq + 1].user = seq + 1
    BY DEF NoRequest, Request, Base, TypeOK
  <2>4. /\ pc' \in [Processes -> PCs] /\ req' \in [Workers -> Request]
        /\ pc'[w] = "reload" /\ req'[w].user = n.id
        /\ \A v \in Processes : v # w => pc'[v] = pc[v]
        /\ \A v \in Workers : v # w => req'[v] = req[v]
    BY <2>1, <2>2, <2>3 DEF Base, TypeOK, PCs, Processes
  <2>5. Kept'
    BY <2>2, <2>4 DEF Base, TypeOK, Kept, Processes
  <2>6. /\ users' \subseteq User /\ seq' \in Nat
        /\ \A u, v \in users' : u.id = v.id => u = v
        /\ \A u \in users' : u.id <= seq'
        /\ tokens' \subseteq {u.id : u \in users'}
    <3>1. seq \in Nat /\ \A u \in users : u.id \in Nat /\ u.id <= seq
      BY DEF Base, TypeOK, User
    <3>0. n.id = seq + 1
      BY ONLY <2>1
    <3>2. \A u \in users : u.id # n.id /\ u.id <= seq + 1
      BY ONLY <3>0, <3>1
    <3>3. users \subseteq User /\ (\A u, v \in users : u.id = v.id => u = v)
      BY DEF Base, TypeOK
    <3>4. \A u \in users' : u \in users \/ u = n
      BY <2>2
    <3>5. \A u, v \in users' : u.id = v.id => u = v
      BY <3>2, <3>3, <3>4
    <3>6. tokens' \subseteq {u.id : u \in users'}
      BY <1>1, <2>2 DEF Base, TypeOK
    <3>7. seq' \in Nat /\ n.id <= seq'
      BY <1>1, <3>0, <3>1
    <3>8. \A u \in users' : u \in User /\ u.id <= seq'
      BY <1>1, <3>2, <3>3, <3>4, <3>7
    <3> QED BY <3>5, <3>6, <3>7, <3>8
  <2>7. TypeOK'
    BY <1>1, <2>4, <2>5, <2>6 DEF Base, TypeOK, Kept
  <2>8. NamesUnique' /\ OneAdmin' /\ AdminExists'
    <3>1. \A u \in users : u.username # n.username
      BY <1>4, <2>1 DEF Taken
    <3>2. ~n.is_admin /\ \A u \in users' : u \in users \/ u = n
      BY <2>1, <2>2
    <3>3. NamesUnique'
      BY <3>1, <3>2 DEF Base, NamesUnique
    <3>4. OneAdmin'
      BY <3>2 DEF Base, OneAdmin
    <3> QED BY <1>2, <2>2, <3>3, <3>4 DEF AdminExists
  <2>9. BootInv'
    BY <1>2, <2>4, <2>8, BootKept DEF Processes
  <2> QED BY <1>3, <2>7, <2>8, <2>9 DEF Base
<1>5. CASE Taken(req[w].username)
  <2>1. Finish(w) /\ UNCHANGED users
    BY <1>5 DEF InsertUser
  <2>2. /\ pc' \in [Processes -> PCs] /\ req' \in [Workers -> Request]
        /\ \A q \in Processes : pc'[q] = IF q = w THEN "ready" ELSE pc[q]
        /\ \A v \in Workers : req'[v] = IF v = w THEN NoRequest ELSE req[v]
    BY <2>1, FinishEffect DEF Base
  <2>3. Kept'
    BY <2>1, <2>2, KeptTyped DEF Base, Active, Processes
  <2>4. TypeOK'
    <3>1. seq' \in Nat /\ \A u \in users' : u.id <= seq'
      BY <1>1, <2>1 DEF Base, TypeOK, User
    <3> QED BY <1>1, <2>1, <2>2, <2>3, <3>1 DEF Base, TypeOK, Kept
  <2>5. NamesUnique' /\ OneAdmin' /\ AdminExists'
    BY <1>2, <2>1 DEF Base, NamesUnique, OneAdmin, AdminExists
  <2>6. BootInv'
    BY <1>2, <2>2, <2>5, BootKept DEF Processes
  <2> QED BY <1>3, <2>4, <2>5, <2>6 DEF Base
<1> QED BY <1>4, <1>5

(* A row of the history, written for an account that exists.               *)
LEMMA HistoryTyped ==
  ASSUME Base, NEW w \in Workers, pc[w] \in {"remember", "change"}, NEW k \in Nat \cup {-1},
         seq' = seq,
         history' = Append(history, [user |-> req[w].user, password |-> req[w].password,
                                     proof |-> k])
  PROVE  /\ Ids' /\ history' \in Seq(PasswordHistory)
         /\ Len(history') = Len(history) + 1
         /\ \A j \in 1..Len(history) : history'[j] = history[j]
         /\ history'[Len(history) + 1].user = req[w].user
         /\ history'[Len(history) + 1].proof = k
         /\ history'[Len(history) + 1].password = req[w].password
<1>1. PICK u \in users : u.id = req[w].user
  BY DEF Base, TypeOK
<1>2. req[w].user \in 1..seq /\ req[w].user \in Nat /\ req[w].password \in Passwords
  BY <1>1 DEF Base, TypeOK, User
<1> DEFINE row == [user |-> req[w].user, password |-> req[w].password, proof |-> k]
<1>3. /\ row \in PasswordHistory /\ row.user = req[w].user /\ row.proof = k
      /\ row.password = req[w].password
  BY <1>2 DEF PasswordHistory
<1>4. history \in Seq(PasswordHistory)
  BY DEF Base, TypeOK
<1>5. history' = Append(history, row)
  OBVIOUS
<1> HIDE DEF row
<1>6. /\ history' \in Seq(PasswordHistory) /\ Len(history') = Len(history) + 1
      /\ \A j \in 1..Len(history) : history'[j] = history[j]
      /\ history'[Len(history) + 1] = row
  BY <1>3, <1>4, <1>5
<1>7. Ids'
  <2>1. \A j \in 1..Len(history) : history[j].user \in 1..seq
    BY DEF Base, Ids
  <2>2. \A j \in 1..Len(history') : j \in 1..Len(history) \/ j = Len(history) + 1
    BY <1>4, <1>6
  <2> QED BY <1>2, <1>3, <1>6, <2>1, <2>2 DEF Ids
<1> QED BY <1>3, <1>6, <1>7

(* Handlers that only go on or answer: the tables keep what they hold, but *)
(* for a row of the history.                                               *)
LEMMA ReadBase ==
  ASSUME Base, NEW w \in Workers, ReloadUser(w) \/ RememberPassword(w) \/ ReadRecent(w)
  PROVE  Base'
<1>0. /\ pc[w] \in {"reload", "remember", "recent"}
      /\ UNCHANGED <<users, seq, tokens, arrived, crashes>>
  BY DEF ReloadUser, RememberPassword, ReadRecent
<1>1. pc[Setup] = "ready" /\ AdminExists /\ w # Setup
  BY <1>0, BootDone
<1>2. NamesUnique' /\ OneAdmin' /\ AdminExists'
  BY <1>0, <1>1 DEF Base, NamesUnique, OneAdmin, AdminExists
<1> DEFINE Typed == /\ pc' \in [Processes -> PCs] /\ req' \in [Workers -> Request]
                    /\ Kept' /\ history' \in Seq(PasswordHistory) /\ Ids'
                    /\ pc'[w] \notin {"seed", "failed"}
                    /\ \A p \in Processes : p # w => pc'[p] = pc[p]
<1>3. SUFFICES Typed
  <2>1. TypeOK'
    BY <1>0, <1>3 DEF Base, TypeOK, Kept
  <2>2. BootInv'
    BY <1>1, <1>2, <1>3, BootKept DEF Processes
  <2> QED BY <1>2, <1>3, <2>1, <2>2 DEF Base
<1>4. CASE ReloadUser(w)
  <2>1. PICK u \in users : /\ u.id = req[w].user
                           /\ req' = [req EXCEPT ![w].password = u.password]
    BY <1>4 DEF ReloadUser
  <2>2. pc' = [pc EXCEPT ![w] = "remember"] /\ history' = history
    BY <1>4 DEF ReloadUser, Goto
  <2>3. /\ pc' \in [Processes -> PCs] /\ pc'[w] = "remember"
        /\ \A p \in Processes : p # w => pc'[p] = pc[p]
    BY <2>2 DEF Base, TypeOK, PCs, Processes
  <2>4. u.password \in Passwords
    BY DEF Base, TypeOK, User
  <2>5. /\ req' \in [Workers -> Request]
        /\ req'[w].user = req[w].user /\ req'[w].password \in Passwords
        /\ \A v \in Workers : v # w => req'[v] = req[v]
    BY ZenonT(30), <2>1, <2>4 DEF Base, TypeOK, Request
  <2>6. Kept'
    BY <1>0, <2>1, <2>3, <2>5 DEF Base, TypeOK, Kept, Processes
  <2>7. Ids' /\ history' \in Seq(PasswordHistory)
    BY <1>0, <2>2 DEF Base, Ids, TypeOK
  <2> QED BY <2>3, <2>5, <2>6, <2>7
<1>5. ASSUME Finish(w)
      PROVE  /\ pc' \in [Processes -> PCs] /\ req' \in [Workers -> Request] /\ Kept'
             /\ pc'[w] = "ready" /\ \A p \in Processes : p # w => pc'[p] = pc[p]
  <2>1. /\ pc' \in [Processes -> PCs] /\ req' \in [Workers -> Request]
        /\ \A q \in Processes : pc'[q] = IF q = w THEN "ready" ELSE pc[q]
        /\ \A v \in Workers : req'[v] = IF v = w THEN NoRequest ELSE req[v]
    BY <1>5, FinishEffect DEF Base
  <2>2. Kept'
    BY <1>0, <2>1, KeptTyped DEF Base, Active, Processes
  <2> QED BY <2>1, <2>2 DEF Processes
<1>6. CASE RememberPassword(w)
  <2>1. history' = Append(history, [user |-> req[w].user, password |-> req[w].password,
                                    proof |-> -1]) /\ Finish(w) /\ pc[w] = "remember"
    BY <1>6 DEF RememberPassword
  <2>2. Ids' /\ history' \in Seq(PasswordHistory)
    BY <1>0, <2>1, HistoryTyped DEF Base, Processes
  <2> QED BY <1>5, <2>1, <2>2
<1>7. CASE ReadRecent(w)
  <2>1. history' = history /\ Ids' /\ history' \in Seq(PasswordHistory)
    BY <1>0, <1>7 DEF ReadRecent, Base, Ids, TypeOK
  <2>2. CASE Finish(w)
    BY <1>5, <2>1, <2>2
  <2>3. CASE Goto(w, "change") /\ UNCHANGED req
    <3>1. /\ pc' \in [Processes -> PCs] /\ pc'[w] = "change"
          /\ \A p \in Processes : p # w => pc'[p] = pc[p]
      BY <2>3 DEF Goto, Base, TypeOK, PCs, Processes
    <3>2. pc[w] = "recent"
      BY <1>7 DEF ReadRecent
    <3>3. Kept'
      BY <1>0, <2>3, <3>1, <3>2 DEF Base, TypeOK, Kept, Processes
    <3> QED BY <2>1, <2>3, <3>1, <3>3 DEF Base, TypeOK
  <2> QED BY <1>7, <2>2, <2>3 DEF ReadRecent
<1> QED BY <1>0, <1>4, <1>6, <1>7

(* Accounts are changed in place: their ids and their roles stay.          *)
InPlace(f) ==
    /\ users' = {f[u] : u \in users}
    /\ \A u \in users : f[u] \in User /\ f[u].id = u.id /\ f[u].is_admin = u.is_admin

LEMMA InPlaceEffect ==
  ASSUME Base, NEW f, InPlace(f), seq' = seq
  PROVE  /\ users' \subseteq User
         /\ \A u, v \in users' : u.id = v.id => u = v
         /\ \A u \in users' : u.id <= seq'
         /\ {u.id : u \in users'} = {u.id : u \in users}
         /\ \A u \in users : \E v \in users' : v.id = u.id
         /\ OneAdmin'
         /\ AdminExists => AdminExists'
         /\ users = {} => users' = {}
<1>1. /\ \A v \in users' : \E u \in users : v = f[u]
      /\ \A u \in users : f[u] \in users'
  BY DEF InPlace
<1>2. users' \subseteq User /\ \A u \in users' : u.id <= seq'
  BY <1>1 DEF InPlace, Base, TypeOK
<1>3. \A u, v \in users' : u.id = v.id => u = v
  BY <1>1 DEF InPlace, Base, TypeOK
<1>4. OneAdmin'
  BY <1>1 DEF InPlace, Base, OneAdmin
<1>5. AdminExists => AdminExists'
  BY <1>1 DEF InPlace, AdminExists
<1>6. \A u \in users : \E v \in users' : v.id = u.id
  BY <1>1 DEF InPlace
<1>7. \A v \in users' : \E u \in users : v.id = u.id
  BY <1>1 DEF InPlace
<1> QED BY <1>1, <1>2, <1>3, <1>4, <1>5, <1>6, <1>7

LEMMA ChangedEffect ==
  ASSUME NEW u \in User, NEW p \in Passwords
  PROVE  /\ Changed(u, p) \in User
         /\ Changed(u, p).id = u.id /\ Changed(u, p).username = u.username
         /\ Changed(u, p).is_admin = u.is_admin /\ Changed(u, p).changes = u.changes + 1
         /\ Changed(u, p).password = p
<1>1. u.changes + 1 \in Nat
  BY DEF User
<1>2. Changed(u, p) = [[[u EXCEPT !.password = p] EXCEPT !.changes = u.changes + 1]
                       EXCEPT !.expired = FALSE]
  BY DEF Changed, User
<1> DEFINE v == [u EXCEPT !.password = p]
           x == [v EXCEPT !.changes = u.changes + 1]
           y == [x EXCEPT !.expired = FALSE]
<1>3. /\ v \in User /\ v.id = u.id /\ v.username = u.username /\ v.is_admin = u.is_admin
      /\ v.password = p
  BY DEF User
<1> HIDE DEF v
<1>4. /\ x \in User /\ x.changes = u.changes + 1
      /\ x.id = v.id /\ x.username = v.username /\ x.is_admin = v.is_admin
      /\ x.password = v.password
  BY <1>1, <1>3 DEF User
<1> HIDE DEF x
<1>5. /\ y \in User /\ y.changes = x.changes
      /\ y.id = x.id /\ y.username = x.username /\ y.is_admin = x.is_admin
      /\ y.password = x.password
  BY <1>4 DEF User
<1> QED BY <1>2, <1>3, <1>4, <1>5 DEF v, x, y

(* The handlers that write to an account and are done with it.             *)
LEMMA WriteBase ==
  ASSUME Base, NEW w \in Workers, CommitChange(w) \/ Rename(w)
  PROVE  Base'
<1>0. pc[w] \in {"change", "rename"} /\ Finish(w) /\ UNCHANGED <<seq, tokens, arrived, crashes>>
  BY DEF CommitChange, Rename
<1>1. pc[Setup] = "ready" /\ AdminExists /\ w # Setup
  BY <1>0, BootDone
<1>2. /\ pc' \in [Processes -> PCs] /\ req' \in [Workers -> Request]
      /\ \A q \in Processes : pc'[q] = IF q = w THEN "ready" ELSE pc[q]
      /\ \A v \in Workers : req'[v] = IF v = w THEN NoRequest ELSE req[v]
  BY <1>0, FinishEffect DEF Base
<1>3. ASSUME NEW f, InPlace(f), NamesUnique', Ids', history' \in Seq(PasswordHistory)
      PROVE  Base'
  <2>1. /\ users' \subseteq User
        /\ \A u, v \in users' : u.id = v.id => u = v
        /\ \A u \in users' : u.id <= seq'
        /\ {u.id : u \in users'} = {u.id : u \in users}
        /\ \A u \in users : \E v \in users' : v.id = u.id
        /\ OneAdmin' /\ AdminExists'
    BY <1>0, <1>1, <1>3, InPlaceEffect
  <2>2. Kept'
    BY <1>2, <2>1, KeptTyped DEF Base, Active, Processes
  <2>3. TypeOK'
    BY <1>0, <1>2, <1>3, <2>1, <2>2 DEF Base, TypeOK, Kept
  <2>4. BootInv'
    BY <1>1, <1>2, <2>1, BootKept DEF Processes
  <2> QED BY <1>3, <2>1, <2>3, <2>4 DEF Base
<1>4. CASE CommitChange(w)
  <2> DEFINE f == [u \in users |-> IF u.id = req[w].user THEN Changed(u, req[w].password) ELSE u]
  <2>1. req[w].password \in Passwords /\ req[w].proof \in Nat /\ pc[w] = "change"
    BY <1>4 DEF CommitChange, Base, TypeOK, Request
  <2>2. \A u \in users : /\ Changed(u, req[w].password) \in User
                         /\ Changed(u, req[w].password).id = u.id
                         /\ Changed(u, req[w].password).username = u.username
                         /\ Changed(u, req[w].password).is_admin = u.is_admin
    BY <2>1, ChangedEffect DEF Base, TypeOK
  <2>3. \A u \in users : /\ f[u] \in User /\ f[u].id = u.id /\ f[u].is_admin = u.is_admin
                         /\ f[u].username = u.username
    BY <2>2 DEF Base, TypeOK
  <2>4. users' = {f[u] : u \in users}
    BY <1>4 DEF CommitChange
  <2> HIDE DEF f
  <2>5. InPlace(f)
    BY <2>3, <2>4 DEF InPlace
  <2>6. NamesUnique'
    BY <2>3, <2>4 DEF Base, NamesUnique
  <2>7. history' = Append(history, [user |-> req[w].user, password |-> req[w].password,
                                    proof |-> req[w].proof])
    BY <1>4 DEF CommitChange
  <2>8. Ids' /\ history' \in Seq(PasswordHistory)
    BY <1>0, <2>1, <2>7, HistoryTyped
  <2> QED BY <1>3, <2>5, <2>6, <2>8
<1>5. CASE Rename(w)
  <2>1. history' = history /\ Ids' /\ history' \in Seq(PasswordHistory)
    BY <1>0, <1>5 DEF Rename, Base, Ids, TypeOK
  <2>2. CASE Taken(req[w].username) /\ UNCHANGED users
    <3> DEFINE f == [u \in users |-> u]
    <3>1. InPlace(f)
      BY <2>2 DEF InPlace, Base, TypeOK
    <3>2. NamesUnique'
      BY <2>2 DEF Base, NamesUnique
    <3> HIDE DEF f
    <3> QED BY <1>3, <2>1, <3>1, <3>2
  <2>3. CASE /\ ~Taken(req[w].username)
             /\ users' = {IF u.id = req[w].user THEN [u EXCEPT !.username = req[w].username]
                          ELSE u : u \in users}
    <3> DEFINE f == [u \in users |-> IF u.id = req[w].user
                                     THEN [u EXCEPT !.username = req[w].username] ELSE u]
    <3>1. req[w].username \in Names
      BY <1>5 DEF Rename, Base, TypeOK
    <3>2. \A u \in users : LET v == [u EXCEPT !.username = req[w].username] IN
             /\ v \in User /\ v.id = u.id /\ v.username = req[w].username
             /\ v.is_admin = u.is_admin
      BY <3>1 DEF Base, TypeOK, User
    <3>3. \A u \in users : /\ f[u] \in User /\ f[u].id = u.id /\ f[u].is_admin = u.is_admin
                           /\ f[u].username = IF u.id = req[w].user THEN req[w].username
                                              ELSE u.username
      BY <3>2 DEF Base, TypeOK
    <3>4. users' = {f[u] : u \in users}
      BY <2>3
    <3> HIDE DEF f
    <3>5. InPlace(f)
      BY <3>3, <3>4 DEF InPlace
    <3>6. NamesUnique'
      <4>1. \A u \in users : u.username # req[w].username
        BY <2>3 DEF Taken
      <4>2. \A u, v \in users : f[u].username = f[v].username => u.id = v.id \/ u.username = v.username
        BY <3>3, <4>1
      <4>3. \A u, v \in users : f[u].username = f[v].username => u = v
        BY <4>2 DEF Base, TypeOK, NamesUnique
      <4> QED BY <3>4, <4>3 DEF NamesUnique
    <3> QED BY <1>3, <2>1, <3>5, <3>6
  <2> QED BY <1>5, <2>2, <2>3 DEF Rename
<1> QED BY <1>4, <1>5

(* What happens outside the workers.                                       *)
LEMMA OutsideBase ==
  ASSUME Base, Outside
  PROVE  Base'
<1>0. UNCHANGED <<seq, history, pc, req, arrived, crashes>> /\ Ids'
  BY DEF Outside, Login, PasswordExpires, LoseTokens, Base, Ids
<1>1. CASE UNCHANGED users
  <2>1. tokens' \subseteq {u.id : u \in users'}
    BY <1>1 DEF Outside, Login, PasswordExpires, LoseTokens, Base, TypeOK
  <2>2. TypeOK'
    BY <1>0, <1>1, <2>1 DEF Base, TypeOK
  <2> QED BY <1>0, <1>1, <2>2 DEF Base, NamesUnique, OneAdmin, BootInv, AdminExists
<1>2. ASSUME NEW u \in users, PasswordExpires(u) PROVE Base'
  <2> DEFINE f == [x \in users |-> IF x = u THEN [u EXCEPT !.expired = TRUE] ELSE x]
             v == [u EXCEPT !.expired = TRUE]
  <2>1. v \in User /\ v.id = u.id /\ v.username = u.username /\ v.is_admin = u.is_admin
    BY DEF Base, TypeOK, User
  <2>2. \A x \in users : f[x] = IF x = u THEN v ELSE x
    OBVIOUS
  <2>3. users' = (users \ {u}) \cup {v} /\ tokens' = tokens
    BY <1>2 DEF PasswordExpires
  <2> HIDE DEF f, v
  <2>4. \A x \in users : /\ f[x] \in User /\ f[x].id = x.id /\ f[x].is_admin = x.is_admin
                         /\ f[x].username = x.username
    BY <2>1, <2>2 DEF Base, TypeOK
  <2>5. users' = {f[x] : x \in users}
    BY <2>2, <2>3
  <2>6. InPlace(f)
    BY <2>4, <2>5 DEF InPlace
  <2>7. NamesUnique'
    BY <2>4, <2>5 DEF Base, NamesUnique
  <2>8. /\ users' \subseteq User
        /\ \A x, y \in users' : x.id = y.id => x = y
        /\ \A x \in users' : x.id <= seq'
        /\ {x.id : x \in users'} = {x.id : x \in users}
        /\ \A x \in users : \E y \in users' : y.id = x.id
        /\ OneAdmin' /\ (AdminExists => AdminExists') /\ (users = {} => users' = {})
    BY <1>0, <2>6, InPlaceEffect
  <2>9. Kept'
    BY <1>0, <2>8, KeptTyped DEF Base
  <2>10. TypeOK'
    BY <1>0, <2>3, <2>8, <2>9 DEF Base, TypeOK, Kept
  <2>11. BootInv'
    BY <1>0, <2>8 DEF Base, BootInv
  <2> QED BY <1>0, <2>7, <2>8, <2>10, <2>11 DEF Base
<1> QED BY <1>1, <1>2 DEF Outside, Login, LoseTokens

LEMMA CrashBase ==
  ASSUME Base, NEW w \in Workers, Crash(w)
  PROVE  Base'
<1>0. /\ UNCHANGED <<users, seq, history, tokens, arrived>> /\ crashes' \in Nat
      /\ pc' = [pc EXCEPT ![w] = "down"] /\ req' = [req EXCEPT ![w] = NoRequest]
      /\ w # Setup /\ w \in Processes
  BY WorkersAssumption DEF Crash, Goto, Base, TypeOK, Processes
<1>1. NoRequest \in Request
  BY DEF NoRequest, Request
<1>2. /\ pc' \in [Processes -> PCs] /\ req' \in [Workers -> Request]
      /\ \A p \in Processes : pc'[p] = IF p = w THEN "down" ELSE pc[p]
      /\ \A v \in Workers : v # w => req'[v] = req[v]
  BY <1>0, <1>1 DEF Base, TypeOK, PCs
<1>3. Kept'
  BY <1>0, <1>2, KeptTyped DEF Base, Active, Processes
<1>4. TypeOK'
  BY <1>0, <1>2, <1>3 DEF Base, TypeOK, Kept
<1>5. BootInv'
  BY <1>0, <1>2 DEF Base, BootInv, AdminExists, Processes
<1> QED BY <1>0, <1>4, <1>5 DEF Base, NamesUnique, OneAdmin, Ids

LEMMA InitBase == Init => Base
<1> SUFFICES ASSUME Init PROVE Base
  OBVIOUS
<1>1. NoRequest \in Request
  BY DEF NoRequest, Request
<1>2. TypeOK
  BY <1>1 DEF Init, TypeOK, PCs, Processes
<1> QED BY <1>2, WorkersAssumption
        DEF Init, Base, NamesUnique, OneAdmin, BootInv, Ids, Processes

LEMMA StepBase == Base /\ [Next]_vars => Base'
<1> SUFFICES ASSUME Base, [Next]_vars PROVE Base'
  OBVIOUS
<1>1. CASE UNCHANGED vars
  BY <1>1 DEF vars, Base, TypeOK, NamesUnique, OneAdmin, BootInv, AdminExists, Ids
<1>2. CASE \E p \in Processes : Boot(p) \/ Seed(p)
  BY <1>2, BootBase, SeedBase
<1>3. ASSUME NEW w \in Workers, Arrive(w) \/ Continue(w) \/ Crash(w) PROVE Base'
  BY <1>3, ArriveBase, InsertBase, ReadBase, WriteBase, CrashBase DEF Continue
<1> QED BY <1>1, <1>2, <1>3, OutsideBase DEF Next

-----------------------------------------------------------------------------
(* Every variable keeps its type, and whatever a handler keeps between its *)
(* queries still fits the tables when it goes on.                          *)
THEOREM TypeCorrect == Spec => []TypeOK
<1>1. Base => TypeOK
  BY DEF Base
<1> QED BY InitBase, StepBase, <1>1, PTL DEF Spec

(* No two accounts ever have the same name, however registrations and      *)
(* renamings race: the second of two commits fails.                        *)
THEOREM NamesStayUnique == Spec => []NamesUnique
<1>1. Base => NamesUnique
  BY DEF Base
<1> QED BY InitBase, StepBase, <1>1, PTL DEF Spec

(* There is never a second administrator, with any number of workers and   *)
(* of respawns, also when the first has been renamed.                      *)
THEOREM AdminIsUnique == Spec => []OneAdmin
<1>1. Base => OneAdmin
  BY DEF Base
<1> QED BY InitBase, StepBase, <1>1, PTL DEF Spec

(* No process fails to boot: entrypoint.sh has the setup process create    *)
(* the administrator alone, and nothing deletes an account.                *)
THEOREM BootsSucceed == Spec => []NoBootFails
<1>1. Base => NoBootFails
  BY DEF Base, BootInv, NoBootFails, Processes
<1> QED BY InitBase, StepBase, <1>1, PTL DEF Spec

-----------------------------------------------------------------------------
(* The dead end.                                                           *)

(* The expired account stays as it is unless a change of its password is   *)
(* already under way, and none can start without a token.                  *)
LEMMA DeadEndStep ==
  ASSUME Base, [Next]_vars, NEW i, LockedOut(i)
  PROVE  LockedOut(i)'
<1> USE DEF LockedOut
<1>1. PICK u \in users : u.id = i /\ u.expired
  OBVIOUS
<1>2. /\ i \notin tokens /\ \A w \in Workers : pc[w] \in {"recent", "change"} => req[w].user # i
      /\ TypeOK /\ users # {}
  BY <1>1 DEF Base
<1>3. \A v \in users : v.id = i => v = u
  BY <1>1 DEF Base, TypeOK
<1>4. CASE UNCHANGED vars
  BY <1>4 DEF vars
<1>5. ASSUME NEW p \in Processes, Boot(p) \/ Seed(p) PROVE LockedOut(i)'
  <2>1. pc[p] # "seed"
    BY <1>2 DEF Base, BootInv, Processes
  <2>2. Boot(p)
    BY <1>5, <2>1 DEF Seed
  <2>3. \A w \in Workers : pc'[w] \in {"recent", "change"} => pc[w] = pc'[w]
    BY <1>2, <2>2 DEF Boot, Goto, TypeOK, Processes
  <2> QED BY <1>1, <1>2, <2>2, <2>3 DEF Boot
<1>6. ASSUME NEW w \in Workers, Arrive(w) PROVE LockedOut(i)'
  <2>1. PICK step \in PCs, r \in Request : Starts(w, step, r)
    BY <1>2, <1>6, ArriveEffect
  <2>2. /\ \A p \in Processes : pc'[p] = IF p = w THEN step ELSE pc[p]
        /\ \A v \in Workers : req'[v] = IF v = w THEN r ELSE req[v]
        /\ UNCHANGED <<users, seq, history, tokens, crashes>>
    BY <1>2, <2>1, StartsEffect
  <2>3. step \in {"recent", "change"} => r.user # i
    BY <1>2, <2>1 DEF Starts
  <2> QED BY <1>1, <1>2, <2>2, <2>3 DEF Processes
<1>7. ASSUME NEW w \in Workers, Continue(w) PROVE LockedOut(i)'
  <2>1. tokens' = tokens
    BY <1>7 DEF Continue, InsertUser, ReloadUser, RememberPassword, ReadRecent, CommitChange, Rename
  <2>2. ASSUME NEW v \in Workers, pc'[v] \in {"recent", "change"}
        PROVE  pc[v] \in {"recent", "change"} /\ req'[v].user = req[v].user
    <3>1. CASE Finish(w)
      BY <1>2, <2>2, <3>1, FinishEffect DEF Processes
    <3>2. CASE InsertUser(w) /\ Goto(w, "reload")
               /\ req' = [req EXCEPT ![w] = [NoRequest EXCEPT !.user = seq + 1]]
      BY <1>2, <2>2, <3>2 DEF Goto, TypeOK, Processes
    <3>3. CASE ReloadUser(w)
      BY <1>2, <2>2, <3>3 DEF ReloadUser, Goto, TypeOK, Processes
    <3>4. CASE pc[w] = "recent" /\ Goto(w, "change") /\ UNCHANGED req
      BY <1>2, <2>2, <3>4 DEF Goto, TypeOK, Processes
    <3> QED
      BY <1>7, <3>1, <3>2, <3>3, <3>4
      DEF Continue, InsertUser, RememberPassword, ReadRecent, CommitChange, Rename
  <2>3. \E v \in users' : v.id = i /\ v.expired
    <3>1. CASE u \in users'
      BY <1>1, <3>1
    <3>2. CASE CommitChange(w)
      BY <1>1, <1>2, <3>2 DEF CommitChange
    <3>3. CASE Rename(w) /\ ~(u \in users')
      <4>1. [u EXCEPT !.username = req[w].username] \in users'
        BY <3>3 DEF Rename
      <4>2. [u EXCEPT !.username = req[w].username].id = i
            /\ [u EXCEPT !.username = req[w].username].expired
        BY <1>1, <1>2 DEF TypeOK, User
      <4> QED BY <4>1, <4>2
    <3>4. UNCHANGED users \/ InsertUser(w) \/ CommitChange(w) \/ Rename(w)
      BY <1>7 DEF Continue, ReloadUser, RememberPassword, ReadRecent
    <3>5. UNCHANGED users \/ InsertUser(w) => u \in users'
      BY DEF InsertUser
    <3> QED BY <3>1, <3>2, <3>3, <3>4, <3>5
  <2> QED BY <1>2, <2>1, <2>2, <2>3
<1>8. ASSUME NEW w \in Workers, Crash(w) PROVE LockedOut(i)'
  <2>1. \A v \in Workers : pc'[v] \in {"recent", "change"} => v # w /\ pc[v] = pc'[v]
    BY <1>2, <1>8 DEF Crash, Goto, TypeOK, Processes
  <2>2. \A v \in Workers : v # w => req'[v] = req[v]
    BY <1>2, <1>8 DEF Crash, TypeOK
  <2> QED BY <1>1, <1>2, <1>8, <2>1, <2>2 DEF Crash
<1>9. CASE Outside
  <2>1. UNCHANGED <<pc, req>> /\ u \in users'
    BY <1>1, <1>9 DEF Outside, Login, PasswordExpires, LoseTokens
  <2>2. i \notin tokens'
    BY <1>1, <1>2, <1>3, <1>9 DEF Outside, Login, PasswordExpires, LoseTokens
  <2> QED BY <1>1, <1>2, <2>1, <2>2
<1> QED BY <1>4, <1>5, <1>6, <1>7, <1>8, <1>9 DEF Next

(* An owner with an expired password and no token stays outside, whatever  *)
(* anybody does: /change-password asks for the token /login withholds.     *)
THEOREM ExpiryIsADeadEnd == Spec => DeadEnd
<1>1. Base /\ [Next]_vars => [\A i \in 1..seq : LockedOut(i) => LockedOut(i)']_vars
  BY DeadEndStep
<1> QED BY InitBase, StepBase, <1>1, PTL DEF Spec, DeadEnd

-----------------------------------------------------------------------------
(* Replaced passwords.                                                     *)

(* The requests that gave the k-th password of account i and have not      *)
(* written their row yet.                                                  *)
Pending(i, k) ==
    {w \in Workers : pc[w] \in {"recent", "change"} /\ req[w].user = i /\ req[w].proof = k}

(* Nothing is written on the proof of the current password, and once it    *)
(* is replaced no request can join those that gave it.                     *)
ProofInv ==
    \A u \in users : \A k \in Nat :
        /\ k >= u.changes => ProvedBy(u.id, k) = {}
        /\ k > u.changes => Pending(u.id, k) = {}
        /\ Cardinality(ProvedBy(u.id, k)) + Cardinality(Pending(u.id, k)) <= Cardinality(Workers)

LEMMA ProofSets ==
  ASSUME TypeOK, NEW i, NEW k
  PROVE  /\ IsFiniteSet(ProvedBy(i, k)) /\ ProvedBy(i, k) \subseteq 1..Len(history)
         /\ IsFiniteSet(Pending(i, k)) /\ Pending(i, k) \subseteq Workers
         /\ Cardinality(ProvedBy(i, k)) \in Nat /\ Cardinality(Pending(i, k)) \in Nat
         /\ Cardinality(Pending(i, k)) <= Cardinality(Workers)
         /\ Cardinality(Workers) \in Nat
<1>0. Len(history) \in Int
  BY DEF TypeOK
<1>1. IsFiniteSet(1..Len(history))
  BY <1>0, FS_Interval
<1>2. ProvedBy(i, k) \subseteq 1..Len(history) /\ Pending(i, k) \subseteq Workers
  BY DEF ProvedBy, RowsOf, Pending
<1>3. IsFiniteSet(ProvedBy(i, k))
  BY <1>1, <1>2, FS_Subset
<1>4. IsFiniteSet(Pending(i, k)) /\ Cardinality(Pending(i, k)) <= Cardinality(Workers)
  BY <1>2, FS_Subset, WorkersAssumption
<1> QED BY <1>2, <1>3, <1>4, FS_CardinalityType, WorkersAssumption

(* No row is written and no request starts; accounts may be added.         *)
LEMMA FewerProofs ==
  ASSUME Base, Base', ProofInv,
         \A i \in Nat, k \in Nat : /\ ProvedBy(i, k)' = ProvedBy(i, k)
                                  /\ Pending(i, k)' \subseteq Pending(i, k),
         \A v \in users' : v.id = seq + 1 \/ \E u \in users : u.id = v.id /\ u.changes = v.changes
  PROVE  ProofInv'
<1> SUFFICES ASSUME NEW v \in users', NEW k \in Nat
             PROVE  /\ k >= v.changes => ProvedBy(v.id, k)' = {}
                    /\ k > v.changes => Pending(v.id, k)' = {}
                    /\ Cardinality(ProvedBy(v.id, k)') + Cardinality(Pending(v.id, k)')
                          <= Cardinality(Workers)
  BY DEF ProofInv
<1>1. v.id \in Nat
  BY DEF Base, TypeOK, User
<1>2. PICK i \in Nat : i = v.id
  BY <1>1
<1> DEFINE A == ProvedBy(i, k)  B == Pending(i, k)  C == Pending(i, k)'
<1>3. ProvedBy(v.id, k)' = A /\ C \subseteq B /\ Pending(v.id, k)' = C
  BY <1>2
<1>4. /\ IsFiniteSet(A) /\ IsFiniteSet(B)
      /\ Cardinality(A) \in Nat /\ Cardinality(B) \in Nat /\ Cardinality(B) <= Cardinality(Workers)
      /\ Cardinality(Workers) \in Nat
  BY ProofSets DEF Base
<1>5. CASE v.id = seq + 1
  <2>1. A = {}
    BY <1>2, <1>5 DEF Base, Ids, ProvedBy, RowsOf, TypeOK
  <2>2. B = {}
    BY <1>2, <1>5 DEF Base, TypeOK, Pending
  <2>3. C = {}
    BY <1>3, <2>2
  <2>4. Cardinality({}) = 0
    BY FS_EmptySet
  <2> HIDE DEF A, B, C
  <2> QED BY <1>3, <1>4, <2>1, <2>3, <2>4
<1>6. ASSUME NEW u \in users, u.id = v.id, u.changes = v.changes
      PROVE  /\ k >= v.changes => A = {}
             /\ k > v.changes => C = {}
             /\ Cardinality(A) + Cardinality(C) <= Cardinality(Workers)
  <2>1. /\ k >= v.changes => A = {}
        /\ k > v.changes => B = {}
        /\ Cardinality(A) + Cardinality(B) <= Cardinality(Workers)
    BY <1>2, <1>6 DEF ProofInv
  <2> HIDE DEF A, B, C
  <2>2. IsFiniteSet(C) /\ Cardinality(C) <= Cardinality(B)
    BY <1>3, <1>4, FS_Subset
  <2>3. Cardinality(C) \in Nat
    BY <2>2, FS_CardinalityType
  <2> QED BY <1>3, <1>4, <2>1, <2>2, <2>3
<1> QED BY <1>3, <1>5, <1>6

LEMMA ArriveProof ==
  ASSUME Base, Base', ProofInv, NEW w \in Workers, Arrive(w)
  PROVE  ProofInv'
<1>0. TypeOK
  BY DEF Base
<1>1. PICK step \in PCs, r \in Request : Starts(w, step, r)
  BY <1>0, ArriveEffect
<1>2. /\ pc[w] = "ready"
      /\ \A p \in Processes : pc'[p] = IF p = w THEN step ELSE pc[p]
      /\ \A v \in Workers : req'[v] = IF v = w THEN r ELSE req[v]
      /\ UNCHANGED <<users, seq, history, tokens, crashes>>
  BY <1>0, <1>1, StartsEffect
<1>3. \A i \in Nat, k \in Nat : ProvedBy(i, k)' = ProvedBy(i, k)
  BY <1>2 DEF ProvedBy, RowsOf
<1>4. CASE step # "recent"
  <2>1. step \notin {"recent", "change"}
    BY <1>1, <1>4 DEF Starts
  <2>2. \A i \in Nat, k \in Nat : Pending(i, k)' \subseteq Pending(i, k)
    BY <1>2, <2>1 DEF Pending, Processes
  <2> QED BY <1>2, <1>3, <2>2, FewerProofs
<1>5. CASE step = "recent"
  <2>1. PICK x \in users : x.id = r.user /\ r.proof = x.changes
    BY <1>1, <1>5 DEF Starts
  <2> SUFFICES ASSUME NEW u \in users, NEW k \in Nat
               PROVE  /\ k >= u.changes => ProvedBy(u.id, k)' = {}
                      /\ k > u.changes => Pending(u.id, k)' = {}
                      /\ Cardinality(ProvedBy(u.id, k)') + Cardinality(Pending(u.id, k)')
                            <= Cardinality(Workers)
    BY <1>2 DEF ProofInv
  <2>2. u.id \in Nat /\ u.changes \in Nat
    BY <1>0 DEF TypeOK, User
  <2>3. PICK i \in Nat : i = u.id
    BY <2>2
  <2>4. ProvedBy(u.id, k)' = ProvedBy(i, k) /\ Pending(u.id, k)' = Pending(i, k)'
    BY <1>2, <1>3, <2>3
  <2>5. /\ k >= u.changes => ProvedBy(i, k) = {}
        /\ k > u.changes => Pending(i, k) = {}
        /\ Cardinality(ProvedBy(i, k)) + Cardinality(Pending(i, k)) <= Cardinality(Workers)
    BY <2>3 DEF ProofInv
  <2>6. CASE i = r.user /\ k = r.proof
    <3>1. u = x
      BY <2>1, <2>3, <2>6, <1>0 DEF TypeOK
    <3>2. ProvedBy(i, k) = {}
      BY <2>1, <2>2, <2>5, <2>6, <3>1
    <3>3. Pending(i, k)' \subseteq Workers
      BY DEF Pending
    <3> DEFINE C == Pending(i, k)'
    <3>4. IsFiniteSet(C) /\ Cardinality(C) <= Cardinality(Workers)
      BY <3>3, FS_Subset, WorkersAssumption
    <3>5. Cardinality(C) \in Nat /\ Cardinality({}) = 0 /\ Cardinality(Workers) \in Nat
      BY <3>4, FS_CardinalityType, FS_EmptySet, WorkersAssumption
    <3>6. ~(k > u.changes)
      BY <2>1, <2>2, <2>6, <3>1
    <3> HIDE DEF C
    <3>7. Cardinality(ProvedBy(i, k)) + Cardinality(C) <= Cardinality(Workers)
      BY <3>2, <3>4, <3>5
    <3> QED BY <2>4, <2>5, <3>6, <3>7 DEF C
  <2>7. CASE ~(i = r.user /\ k = r.proof)
    <3>1. Pending(i, k)' = Pending(i, k)
      BY <1>2, <2>7 DEF Pending, Processes
    <3> QED BY <2>4, <2>5, <3>1
  <2> QED BY <2>6, <2>7
<1> QED BY <1>4, <1>5

(* A row that is written takes the place of the request that wrote it.     *)
LEMMA ChangeProof ==
  ASSUME Base, Base', ProofInv, NEW w \in Workers, CommitChange(w)
  PROVE  ProofInv'
<1> DEFINE m == req[w].user  q == req[w].proof  n == Len(history) + 1
<1>0. /\ pc[w] = "change" /\ Finish(w) /\ UNCHANGED seq /\ TypeOK /\ q \in Nat
      /\ history' = Append(history, [user |-> req[w].user, password |-> req[w].password,
                                     proof |-> req[w].proof])
  BY DEF CommitChange, Base, TypeOK, Request
<1>1. /\ Len(history') = n /\ history'[n].user = m /\ history'[n].proof = q
      /\ \A j \in 1..Len(history) : history'[j] = history[j]
      /\ Len(history) \in Nat
  BY <1>0, HistoryTyped DEF TypeOK
<1>2. /\ \A p \in Processes : pc'[p] = IF p = w THEN "ready" ELSE pc[p]
      /\ \A v \in Workers : req'[v] = IF v = w THEN NoRequest ELSE req[v]
  BY <1>0, FinishEffect
<1>3. \A v \in users' : \E u \in users :
         u.id = v.id /\ v.changes = IF u.id = m THEN u.changes + 1 ELSE u.changes
  <2>1. \A u \in users : LET c == Changed(u, req[w].password) IN
           c.id = u.id /\ c.changes = u.changes + 1
    BY <1>0, ChangedEffect DEF TypeOK
  <2>2. \A v \in users' : \E u \in users :
           v = IF u.id = m THEN Changed(u, req[w].password) ELSE u
    BY DEF CommitChange
  <2> QED BY <2>1, <2>2
<1> HIDE DEF m, q, n
<1>4. \A i \in Nat, k \in Nat : Pending(i, k)' = Pending(i, k) \ {w}
  BY <1>2 DEF Pending, Processes
<1>5. \A i \in Nat, k \in Nat :
         ProvedBy(i, k)' = ProvedBy(i, k) \cup (IF i = m /\ k = q THEN {n} ELSE {})
  <2>1. \A j : j \in 1..n <=> j \in 1..Len(history) \/ j = n
    BY <1>1 DEF n
  <2>2. TAKE i \in Nat, k \in Nat
  <2>3. \A j : j \in ProvedBy(i, k)' <=>
                  j \in 1..n /\ history'[j].user = i /\ history'[j].proof = k
    BY <1>1 DEF ProvedBy, RowsOf
  <2>4. \A j : j \in ProvedBy(i, k) <=>
                  j \in 1..Len(history) /\ history[j].user = i /\ history[j].proof = k
    BY DEF ProvedBy, RowsOf
  <2> QED BY <1>1, <2>1, <2>3, <2>4
<1>6. w \in Pending(m, q)
  BY <1>0 DEF Pending, m, q
<1> SUFFICES ASSUME NEW v \in users', NEW k \in Nat
             PROVE  /\ k >= v.changes => ProvedBy(v.id, k)' = {}
                    /\ k > v.changes => Pending(v.id, k)' = {}
                    /\ Cardinality(ProvedBy(v.id, k)') + Cardinality(Pending(v.id, k)')
                          <= Cardinality(Workers)
  BY DEF ProofInv
<1>7. PICK u \in users : /\ u.id = v.id
                         /\ v.changes = IF u.id = m THEN u.changes + 1 ELSE u.changes
  BY <1>3
<1>8. u.id \in Nat /\ u.changes \in Nat
  BY <1>0 DEF TypeOK, User
<1>9. PICK i \in Nat : i = v.id
  BY <1>7, <1>8
<1> DEFINE A == ProvedBy(i, k)  B == Pending(i, k)  A1 == ProvedBy(i, k)'  B1 == Pending(i, k)'
<1>10. ProvedBy(v.id, k)' = A1 /\ Pending(v.id, k)' = B1
  BY <1>9
<1>11. /\ A1 = A \cup (IF i = m /\ k = q THEN {n} ELSE {})
       /\ B1 = B \ {w}
  BY <1>4, <1>5
<1>12. /\ k >= u.changes => A = {}
       /\ k > u.changes => B = {}
       /\ Cardinality(A) + Cardinality(B) <= Cardinality(Workers)
  BY <1>7, <1>9 DEF ProofInv
<1>13. /\ IsFiniteSet(A) /\ A \subseteq 1..Len(history) /\ IsFiniteSet(B)
       /\ Cardinality(A) \in Nat /\ Cardinality(B) \in Nat /\ Cardinality(Workers) \in Nat
  BY <1>0, ProofSets
<1>14. i = m /\ k = q => w \in B
  BY <1>6
<1> HIDE DEF A, B, A1, B1
<1>15. i = m /\ k = q => ~(k > u.changes) /\ v.changes = u.changes + 1
  BY <1>7, <1>9, <1>12, <1>14
<1>16. k >= v.changes => A1 = {}
  BY <1>7, <1>8, <1>11, <1>12, <1>15
<1>17. k > v.changes => B1 = {}
  BY <1>7, <1>8, <1>11, <1>12
<1>18. IsFiniteSet(B1) /\ Cardinality(B1) <= Cardinality(B) /\ Cardinality(B1) \in Nat
  <2>1. B1 \subseteq B
    BY <1>11
  <2> QED BY <2>1, <1>13, FS_Subset, FS_CardinalityType
<1>19. Cardinality(A1) + Cardinality(B1) <= Cardinality(Workers)
  <2>1. CASE i = m /\ k = q
    <3>1. n \notin A
      BY <1>1, <1>13 DEF n
    <3>2. Cardinality(A1) = Cardinality(A) + 1
      BY <1>11, <1>13, <2>1, <3>1, FS_AddElement
    <3>3. Cardinality(B1) = Cardinality(B) - 1
      BY <1>11, <1>13, <1>14, <2>1, FS_RemoveElement
    <3> QED BY <1>12, <1>13, <3>2, <3>3
  <2>2. CASE ~(i = m /\ k = q)
    <3>1. A1 = A
      BY <1>11, <2>2
    <3> QED BY <1>12, <1>13, <1>18, <3>1
  <2> QED BY <2>1, <2>2
<1> QED BY <1>10, <1>16, <1>17, <1>19

LEMMA ProofStep ==
  ASSUME Base, Base', ProofInv, [Next]_vars
  PROVE  ProofInv'
<1>0. TypeOK
  BY DEF Base
<1> DEFINE Rows == \A i \in Nat, k \in Nat : ProvedBy(i, k)' = ProvedBy(i, k)
           Handlers == \A i \in Nat, k \in Nat : Pending(i, k)' \subseteq Pending(i, k)
           Accs == \A v \in users' :
                      v.id = seq + 1 \/ \E u \in users : u.id = v.id /\ u.changes = v.changes
<1>1. Rows /\ Handlers /\ Accs => ProofInv'
  BY FewerProofs
<1>2. UNCHANGED history => Rows
  BY DEF ProvedBy, RowsOf
<1>3. UNCHANGED <<pc, req>> => Handlers
  BY DEF Pending
<1>4. UNCHANGED users => Accs
  OBVIOUS
<1>5. ASSUME NEW w \in Workers, Finish(w) PROVE Handlers
  BY <1>0, <1>5, FinishEffect DEF Pending, Processes
<1>6. CASE UNCHANGED vars
  BY <1>1, <1>2, <1>3, <1>4, <1>6 DEF vars
<1>7. ASSUME NEW p \in Processes, Boot(p) \/ Seed(p) PROVE ProofInv'
  <2>1. Rows
    BY <1>2, <1>7 DEF Boot, Seed
  <2>2. \A v \in Workers : pc'[v] \in {"recent", "change"} => pc'[v] = pc[v]
    BY <1>0, <1>7 DEF Boot, Seed, Goto, TypeOK, Processes
  <2>3. Handlers
    BY <1>7, <2>2 DEF Boot, Seed, Pending
  <2>4. Accs
    BY <1>7 DEF Boot, Seed, NewUser
  <2> HIDE DEF Rows, Handlers, Accs
  <2> QED BY <1>1, <2>1, <2>3, <2>4
<1>8. ASSUME NEW w \in Workers, Continue(w), ~CommitChange(w) PROVE ProofInv'
  <2>1. Rows
    <3>1. CASE RememberPassword(w)
      <4>1. /\ pc[w] = "remember" /\ UNCHANGED seq /\ -1 \in Nat \cup {-1}
            /\ history' = Append(history, [user |-> req[w].user, password |-> req[w].password,
                                           proof |-> -1])
        BY <3>1 DEF RememberPassword
      <4>2. /\ Len(history') = Len(history) + 1
            /\ \A j \in 1..Len(history) : history'[j] = history[j]
            /\ history'[Len(history) + 1].proof = -1
            /\ Len(history) \in Nat
        BY <4>1, <1>0, HistoryTyped DEF TypeOK
      <4>3. \A j \in 1..Len(history') : j \in 1..Len(history) \/ history'[j].proof = -1
        BY <4>2
      <4>4. \A j \in 1..Len(history) : j \in 1..Len(history')
        BY <4>2
      <4> QED BY <4>2, <4>3, <4>4 DEF ProvedBy, RowsOf
    <3>2. CASE ~RememberPassword(w)
      BY <1>2, <1>8, <3>2 DEF Continue, InsertUser, ReloadUser, ReadRecent, Rename
    <3> QED BY <3>1, <3>2
  <2>2. Handlers
    <3>1. CASE InsertUser(w) \/ ReloadUser(w)
      <4>1. \A v \in Workers : pc'[v] \in {"recent", "change"} =>
               pc'[v] = pc[v] /\ req'[v] = req[v]
        <5>1. CASE Finish(w)
          BY <1>0, <5>1, FinishEffect DEF Processes
        <5>2. CASE ~Finish(w)
          BY <1>0, <3>1, <5>2 DEF InsertUser, ReloadUser, Goto, TypeOK, Processes
        <5> QED BY <5>1, <5>2
      <4> QED BY <4>1 DEF Pending
    <3>2. CASE ReadRecent(w) /\ ~Finish(w)
      <4>1. pc[w] = "recent" /\ pc' = [pc EXCEPT ![w] = "change"] /\ UNCHANGED req
        BY <3>2 DEF ReadRecent, Goto
      <4> QED BY <1>0, <4>1 DEF Pending, TypeOK, Processes
    <3>3. CASE Finish(w)
      BY <1>5, <3>3
    <3> QED BY <1>8, <3>1, <3>2, <3>3 DEF Continue, RememberPassword, Rename
  <2>3. Accs
    <3>1. CASE Rename(w)
      <4>1. \A u \in users : LET x == [u EXCEPT !.username = req[w].username] IN
               x.id = u.id /\ x.changes = u.changes
        BY <1>0 DEF TypeOK, User
      <4>2. \A v \in users' : \E u \in users :
               v = u \/ v = [u EXCEPT !.username = req[w].username]
        BY <3>1 DEF Rename
      <4> QED BY <4>1, <4>2
    <3>2. CASE ~Rename(w)
      BY <1>8, <3>2 DEF Continue, InsertUser, NewUser, ReloadUser, RememberPassword, ReadRecent
    <3> QED BY <3>1, <3>2
  <2> HIDE DEF Rows, Handlers, Accs
  <2> QED BY <1>1, <2>1, <2>2, <2>3
<1>9. ASSUME NEW w \in Workers, Crash(w) PROVE ProofInv'
  <2>1. Rows /\ Accs
    BY <1>2, <1>4, <1>9 DEF Crash
  <2>2. \A v \in Workers : pc'[v] \in {"recent", "change"} => pc'[v] = pc[v] /\ req'[v] = req[v]
    BY <1>0, <1>9 DEF Crash, Goto, TypeOK, Processes
  <2>3. Handlers
    BY <2>2 DEF Pending
  <2> HIDE DEF Rows, Handlers, Accs
  <2> QED BY <1>1, <2>1, <2>3
<1>10. CASE Outside
  <2>1. Rows /\ Handlers
    BY <1>2, <1>3, <1>10 DEF Outside, Login, PasswordExpires, LoseTokens
  <2>2. Accs
    <3>1. \A u \in users : LET x == [u EXCEPT !.expired = TRUE] IN
             x.id = u.id /\ x.changes = u.changes
      BY <1>0 DEF TypeOK, User
    <3> QED BY <1>10, <3>1 DEF Outside, Login, PasswordExpires, LoseTokens
  <2> HIDE DEF Rows, Handlers, Accs
  <2> QED BY <1>1, <2>1, <2>2
<1> QED BY <1>6, <1>7, <1>8, <1>9, <1>10, ArriveProof, ChangeProof DEF Next

(* A password that has been replaced can still be used, by requests that   *)
(* gave it in time, for at most as many changes as there are workers.      *)
THEOREM StaleProofsBounded == Spec => []ProofsBounded
<1>1. Init => ProofInv
  BY DEF Init, ProofInv
<1>2. Base /\ ProofInv /\ [Next]_vars => ProofInv'
  BY StepBase, ProofStep
<1>3. Base /\ ProofInv => ProofsBounded
  <2> SUFFICES ASSUME Base, ProofInv, NEW u \in users, NEW k \in 0..u.changes
               PROVE  Cardinality(ProvedBy(u.id, k)) <= Cardinality(Workers)
    BY DEF ProofsBounded
  <2>1. k \in Nat
    BY DEF Base, TypeOK, User
  <2>2. Cardinality(ProvedBy(u.id, k)) + Cardinality(Pending(u.id, k)) <= Cardinality(Workers)
    BY <2>1 DEF ProofInv
  <2>3. /\ Cardinality(ProvedBy(u.id, k)) \in Nat /\ Cardinality(Pending(u.id, k)) \in Nat
        /\ Cardinality(Workers) \in Nat
    BY ProofSets DEF Base
  <2> QED BY <2>2, <2>3
<1> QED BY InitBase, StepBase, <1>1, <1>2, <1>3, PTL DEF Spec

-----------------------------------------------------------------------------
(* What the steps do to the accounts, the history and the requests. Most   *)
(* steps only end or leave alone what a handler does; those that matter    *)
(* open an account, read or write the history or start a request.          *)

Idle == {"down", "seed", "failed", "ready"}

(* v is, after a step, what the account u was before it.                   *)
SameUser(u, v) == /\ v.id = u.id /\ v.password = u.password
                  /\ v.changes = u.changes /\ v.is_admin = u.is_admin

Quiet ==
    /\ UNCHANGED history /\ crashes' \in Nat /\ crashes <= crashes'
    /\ \A v \in users' : \E u \in users : SameUser(u, v)
    /\ \A w \in Workers :
          \/ pc'[w] = pc[w] /\ req'[w] = req[w]
          \/ pc'[w] \in Idle /\ (pc[w] \in {"reload", "remember"} => crashes' > 0)

Enters(w) == InsertUser(w) /\ ~Taken(req[w].username)

Passes(w) == ReadRecent(w) /\ req[w].password \notin Recent(req[w].user)

LEMMA Kinds ==
  ASSUME Base, [Next]_vars
  PROVE  \/ Quiet
         \/ \E p \in Processes : Seed(p)
         \/ \E w \in Workers : \/ Arrive(w) \/ Enters(w) \/ ReloadUser(w)
                               \/ RememberPassword(w) \/ Passes(w) \/ CommitChange(w)
<1>0. TypeOK /\ crashes \in Nat
  BY DEF Base, TypeOK
<1>1. UNCHANGED users => \A v \in users' : \E u \in users : SameUser(u, v)
  BY DEF SameUser
<1>2. ASSUME UNCHANGED <<history, pc, req, crashes>>,
             \A v \in users' : \E u \in users : SameUser(u, v)
      PROVE  Quiet
  BY <1>0, <1>2 DEF Quiet
<1>3. ASSUME NEW w \in Workers, Finish(w), UNCHANGED <<history, crashes>>,
             pc[w] \notin {"reload", "remember"},
             \A v \in users' : \E u \in users : SameUser(u, v)
      PROVE  Quiet
  <2>1. \A v \in Workers : v # w => pc'[v] = pc[v] /\ req'[v] = req[v]
    BY <1>0, <1>3, FinishEffect DEF Processes
  <2>2. pc'[w] = "ready"
    BY <1>0, <1>3, FinishEffect DEF Processes
  <2> QED BY <1>0, <1>3, <2>1, <2>2 DEF Quiet, Idle
<1>4. CASE UNCHANGED vars
  BY <1>1, <1>2, <1>4 DEF vars
<1>5. ASSUME NEW p \in Processes, Boot(p) PROVE Quiet
  <2>1. /\ pc[p] = "down" /\ UNCHANGED <<users, history, req, crashes>>
        /\ pc'[p] \in {"ready", "seed"} /\ \A q \in Processes : q # p => pc'[q] = pc[q]
    BY <1>0, <1>5 DEF Boot, Goto, TypeOK
  <2> QED BY <1>0, <1>1, <2>1 DEF Quiet, Idle, Processes
<1>6. ASSUME NEW w \in Workers, Crash(w) PROVE Quiet
  <2>1. /\ UNCHANGED <<users, history>> /\ crashes' = crashes + 1
        /\ pc'[w] = "down" /\ \A v \in Workers : v # w => pc'[v] = pc[v]
        /\ \A v \in Workers : v # w => req'[v] = req[v]
    BY <1>0, <1>6 DEF Crash, Goto, TypeOK, Processes
  <2> QED BY <1>0, <1>1, <2>1 DEF Quiet, Idle
<1>7. CASE Outside
  <2>1. ASSUME NEW u \in users, PasswordExpires(u)
        PROVE  \A v \in users' : \E x \in users : SameUser(x, v)
    <3> DEFINE y == [u EXCEPT !.expired = TRUE]
    <3>1. SameUser(u, y)
      BY <1>0 DEF SameUser, TypeOK, User
    <3>2. \A x \in users : SameUser(x, x)
      BY DEF SameUser
    <3>3. users' = (users \ {u}) \cup {y}
      BY <2>1 DEF PasswordExpires
    <3> HIDE DEF y
    <3> QED BY <3>1, <3>2, <3>3
  <2>2. \A v \in users' : \E x \in users : SameUser(x, v)
    BY <1>1, <1>7, <2>1 DEF Outside, Login, LoseTokens
  <2>3. UNCHANGED <<history, pc, req, crashes>>
    BY <1>7 DEF Outside, Login, LoseTokens, PasswordExpires
  <2> QED BY <1>2, <2>2, <2>3
<1>8. ASSUME NEW w \in Workers, InsertUser(w), Taken(req[w].username) PROVE Quiet
  BY <1>1, <1>3, <1>8 DEF InsertUser
<1>9. ASSUME NEW w \in Workers, ReadRecent(w), req[w].password \in Recent(req[w].user) PROVE Quiet
  BY <1>1, <1>3, <1>9 DEF ReadRecent
<1>10. ASSUME NEW w \in Workers, Rename(w) PROVE Quiet
  <2>1. \A u \in users : SameUser(u, u) /\ SameUser(u, [u EXCEPT !.username = req[w].username])
    BY <1>0 DEF SameUser, TypeOK, User
  <2>2. \A v \in users' : \E u \in users : SameUser(u, v)
    <3>1. SUFFICES ASSUME NEW v \in users' PROVE \E u \in users : SameUser(u, v)
      OBVIOUS
    <3>2. PICK u \in users : v \in {u, [u EXCEPT !.username = req[w].username]}
      BY <1>10, <3>1 DEF Rename
    <3> QED BY <2>1, <3>2
  <2> QED BY <1>3, <1>10, <2>2 DEF Rename
<1> QED BY <1>4, <1>5, <1>6, <1>7, <1>8, <1>9, <1>10
        DEF Next, Continue, Enters, Passes

(* A request that starts: only its worker changes.                         *)
LEMMA ArriveKind ==
  ASSUME Base, NEW w \in Workers, Arrive(w)
  PROVE  /\ pc[w] = "ready" /\ UNCHANGED <<users, seq, history, crashes>>
         /\ pc'[w] \in {"insert", "recent", "rename"}
         /\ pc'[w] \in {"insert", "recent"} => req'[w].password \in Validated
         /\ \A v \in Workers : v # w => pc'[v] = pc[v] /\ req'[v] = req[v]
<1>0. TypeOK
  BY DEF Base
<1>1. PICK step \in PCs, r \in Request : Starts(w, step, r)
  BY <1>0, ArriveEffect
<1>2. /\ pc[w] = "ready"
      /\ \A p \in Processes : pc'[p] = IF p = w THEN step ELSE pc[p]
      /\ \A v \in Workers : req'[v] = IF v = w THEN r ELSE req[v]
      /\ UNCHANGED <<users, seq, history, tokens, crashes>>
  BY <1>0, <1>1, StartsEffect
<1> QED BY <1>1, <1>2 DEF Starts, Processes

(* A registration enters its account.                                      *)
LEMMA EnterKind ==
  ASSUME Base, NEW w \in Workers, Enters(w)
  PROVE  /\ pc[w] = "insert" /\ seq' = seq + 1 /\ UNCHANGED <<history, crashes>>
         /\ \E n : /\ users' = users \cup {n}
                   /\ n.id = seq + 1 /\ n.password = req[w].password
                   /\ n.is_admin = FALSE /\ n.changes = 0
         /\ pc'[w] = "reload" /\ req'[w].user = seq + 1
         /\ \A v \in Workers : v # w => pc'[v] = pc[v] /\ req'[v] = req[v]
<1> DEFINE n == NewUser(req[w].username, req[w].password, FALSE)
           r == [NoRequest EXCEPT !.user = seq + 1]
<1>1. /\ pc[w] = "insert" /\ seq' = seq + 1 /\ UNCHANGED <<history, crashes>>
      /\ users' = users \cup {n} /\ pc' = [pc EXCEPT ![w] = "reload"]
      /\ req' = [req EXCEPT ![w] = r]
  BY DEF Enters, InsertUser, Goto
<1>2. n.id = seq + 1 /\ n.password = req[w].password /\ n.is_admin = FALSE /\ n.changes = 0
  BY DEF NewUser
<1>3. r.user = seq + 1
  BY DEF NoRequest
<1> HIDE DEF n, r
<1>4. /\ pc'[w] = "reload" /\ req'[w].user = seq + 1
      /\ \A v \in Workers : v # w => pc'[v] = pc[v] /\ req'[v] = req[v]
  BY <1>1, <1>3 DEF Base, TypeOK, Processes
<1> QED BY <1>1, <1>2, <1>4

(* It reads its row again.                                                 *)
LEMMA ReloadKind ==
  ASSUME Base, NEW w \in Workers, ReloadUser(w)
  PROVE  /\ pc[w] = "reload" /\ UNCHANGED <<users, seq, history, crashes>>
         /\ pc'[w] = "remember" /\ req'[w].user = req[w].user
         /\ \E u \in users : u.id = req[w].user /\ req'[w].password = u.password
         /\ \A v \in Workers : v # w => pc'[v] = pc[v] /\ req'[v] = req[v]
<1>1. PICK u \in users : /\ u.id = req[w].user
                         /\ req' = [req EXCEPT ![w].password = u.password]
  BY DEF ReloadUser
<1>2. /\ pc[w] = "reload" /\ UNCHANGED <<users, seq, history, crashes>>
      /\ pc' = [pc EXCEPT ![w] = "remember"]
  BY DEF ReloadUser, Goto
<1> QED BY <1>1, <1>2 DEF Base, TypeOK, Request, Processes

(* A change of password goes on.                                           *)
LEMMA PassKind ==
  ASSUME Base, NEW w \in Workers, Passes(w)
  PROVE  /\ pc[w] = "recent" /\ pc'[w] = "change" /\ UNCHANGED <<users, seq, history, req, crashes>>
         /\ \A v \in Workers : v # w => pc'[v] = pc[v]
  BY DEF Passes, ReadRecent, Goto, Base, TypeOK, Processes

(* A row is written, and the request that writes it is over.               *)
LEMMA WriteKind ==
  ASSUME Base, NEW w \in Workers, RememberPassword(w) \/ CommitChange(w)
  PROVE  /\ pc'[w] = "ready" /\ UNCHANGED <<seq, crashes>>
         /\ \A v \in Workers : v # w => pc'[v] = pc[v] /\ req'[v] = req[v]
         /\ Len(history) \in Nat /\ Len(history') = Len(history) + 1
         /\ \A j \in 1..Len(history) : history'[j] = history[j]
         /\ history'[Len(history) + 1].user = req[w].user
         /\ history'[Len(history) + 1].password = req[w].password
         /\ RememberPassword(w) => /\ pc[w] = "remember" /\ UNCHANGED users
                                   /\ history'[Len(history) + 1].proof = -1
         /\ CommitChange(w) => /\ pc[w] = "change"
                               /\ history'[Len(history) + 1].proof \in Nat
<1>0. TypeOK /\ Finish(w) /\ UNCHANGED <<seq, crashes>>
  BY DEF Base, RememberPassword, CommitChange
<1>1. pc'[w] = "ready" /\ \A v \in Workers : v # w => pc'[v] = pc[v] /\ req'[v] = req[v]
  BY <1>0, FinishEffect DEF Processes
<1>2. Len(history) \in Nat
  BY <1>0 DEF TypeOK
<1>3. CASE RememberPassword(w)
  <2>1. /\ pc[w] = "remember" /\ UNCHANGED users /\ -1 \in Nat \cup {-1}
        /\ history' = Append(history, [user |-> req[w].user, password |-> req[w].password,
                                       proof |-> -1])
    BY <1>3 DEF RememberPassword
  <2>2. ~CommitChange(w)
    BY <2>1 DEF CommitChange
  <2> QED BY <1>0, <1>1, <1>2, <2>1, <2>2, HistoryTyped
<1>4. CASE CommitChange(w)
  <2>1. /\ pc[w] = "change" /\ req[w].proof \in Nat
        /\ history' = Append(history, [user |-> req[w].user, password |-> req[w].password,
                                       proof |-> req[w].proof])
    BY <1>0, <1>4 DEF CommitChange, TypeOK, Request
  <2>2. ~RememberPassword(w)
    BY <2>1 DEF RememberPassword
  <2> QED BY <1>0, <1>1, <1>2, <2>1, <2>2, HistoryTyped
<1> QED BY <1>3, <1>4

(* The account whose password is changed, and the others.                  *)
LEMMA CommitKind ==
  ASSUME Base, NEW w \in Workers, CommitChange(w)
  PROVE  \A v \in users' : \E u \in users :
            /\ v.id = u.id /\ v.is_admin = u.is_admin
            /\ IF u.id = req[w].user
               THEN v.password = req[w].password /\ v.changes = u.changes + 1
               ELSE v = u
<1>1. req[w].password \in Passwords
  BY DEF CommitChange, Base, TypeOK
<1>2. \A u \in users : LET c == Changed(u, req[w].password) IN
         /\ c.id = u.id /\ c.is_admin = u.is_admin
         /\ c.changes = u.changes + 1 /\ c.password = req[w].password
  BY <1>1, ChangedEffect DEF Base, TypeOK
<1>3. \A v \in users' : \E u \in users :
         v = IF u.id = req[w].user THEN Changed(u, req[w].password) ELSE u
  BY DEF CommitChange
<1> QED BY <1>2, <1>3

(* The setup process enters the administrator; no handler runs yet.        *)
LEMMA SeedKind ==
  ASSUME Base, NEW p \in Processes, Seed(p)
  PROVE  /\ \E n : /\ users' = {n} /\ n.id = seq + 1
                   /\ n.is_admin = TRUE /\ n.changes = 0
         /\ seq' = seq + 1 /\ UNCHANGED <<history, crashes>>
         /\ \A w \in Workers : pc'[w] = "down" /\ pc[w] = "down"
<1>1. pc[p] = "seed" /\ pc[Setup] # "ready"
  BY DEF Seed, Base, BootInv
<1>2. p = Setup /\ users = {} /\ \A v \in Workers : pc[v] = "down"
  BY <1>1 DEF Base, BootInv, Processes
<1>3. ~Taken(AdminName)
  BY <1>2 DEF Taken
<1> DEFINE n == NewUser(AdminName, SeedPassword, TRUE)
<1>4. /\ users' = {n} /\ seq' = seq + 1 /\ UNCHANGED <<history, crashes>>
      /\ pc' = [pc EXCEPT ![Setup] = "ready"]
  BY <1>2, <1>3 DEF Seed, Goto
<1>5. n.id = seq + 1 /\ n.is_admin = TRUE /\ n.changes = 0
  BY DEF NewUser
<1> HIDE DEF n
<1>6. \A w \in Workers : pc'[w] = "down"
  BY <1>2, <1>4, WorkersAssumption DEF Base, TypeOK, Processes
<1> QED BY <1>2, <1>4, <1>5, <1>6

-----------------------------------------------------------------------------
(* The policy.                                                             *)

Good(p) == p \notin Weak \cup (IF FailClosed THEN Breached ELSE Common)

(* Whatever the service answers, a password that passes is good.           *)
LEMMA ValidatedGood ==
  ASSUME NEW p \in Validated
  PROVE  Good(p)
<1>1. PICK reachable \in BOOLEAN : Acceptable(p, reachable)
  BY DEF Validated
<1> QED BY <1>1, PasswordsAssumption DEF Acceptable, Good

VetInv ==
    /\ Vetted
    /\ \A w \in Workers : pc[w] \in {"insert", "recent", "change"} => Good(req[w].password)

LEMMA VetStep ==
  ASSUME Base, VetInv, [Next]_vars
  PROVE  VetInv'
<1> USE DEF VetInv
<1>0. Vetted <=> \A u \in users : (u.is_admin /\ u.changes = 0) \/ Good(u.password)
  BY DEF Vetted, Good
<1>00. Vetted' <=> \A u \in users' : (u.is_admin /\ u.changes = 0) \/ Good(u.password)
  BY DEF Vetted, Good
<1>1. CASE Quiet
  <2>1. Vetted'
    BY <1>0, <1>00, <1>1 DEF Quiet, SameUser
  <2> QED BY <1>1, <2>1 DEF Quiet, Idle, Good
<1>2. ASSUME NEW p \in Processes, Seed(p) PROVE VetInv'
  BY <1>00, <1>2, SeedKind
<1>3. ASSUME NEW w \in Workers, Arrive(w) PROVE VetInv'
  <2>1. Vetted'
    BY <1>0, <1>00, <1>3, ArriveKind
  <2> QED BY <1>3, <2>1, ArriveKind, ValidatedGood DEF Good
<1>4. ASSUME NEW w \in Workers, Enters(w) PROVE VetInv'
  <2>1. Good(req[w].password)
    BY <1>4, EnterKind
  <2>2. Vetted'
    BY <1>0, <1>00, <1>4, <2>1, EnterKind
  <2> QED BY <1>4, <2>2, EnterKind DEF Good
<1>5. ASSUME NEW w \in Workers, ReloadUser(w) PROVE VetInv'
  <2>1. Vetted'
    BY <1>0, <1>00, <1>5, ReloadKind
  <2> QED BY <1>5, <2>1, ReloadKind DEF Good
<1>6. ASSUME NEW w \in Workers, Passes(w) PROVE VetInv'
  <2>1. Vetted'
    BY <1>0, <1>00, <1>6, PassKind
  <2> QED BY <1>6, <2>1, PassKind DEF Good
<1>7. ASSUME NEW w \in Workers, RememberPassword(w) PROVE VetInv'
  <2>1. Vetted'
    BY <1>0, <1>00, <1>7, WriteKind
  <2> QED BY <1>7, <2>1, WriteKind DEF Good
<1>8. ASSUME NEW w \in Workers, CommitChange(w) PROVE VetInv'
  <2>1. Good(req[w].password)
    BY <1>8, WriteKind
  <2>2. Vetted'
    BY <1>0, <1>00, <1>8, <2>1, CommitKind
  <2> QED BY <1>8, <2>2, WriteKind DEF Good
<1> QED BY <1>1, <1>2, <1>3, <1>4, <1>5, <1>6, <1>7, <1>8, Kinds

(* However often the breach service fails, a password on the local list    *)
(* gets into no account but the seeded one, and where the check fails      *)
(* closed, no breached one.                                                *)
THEOREM PasswordsAreVetted == Spec => []Vetted
<1>1. Init => VetInv
  BY DEF Init, VetInv, Vetted, Processes
<1>2. Base /\ VetInv /\ [Next]_vars => VetInv'
  BY VetStep
<1>3. VetInv => Vetted
  BY DEF VetInv
<1> QED BY InitBase, StepBase, <1>1, <1>2, <1>3, PTL DEF Spec

-----------------------------------------------------------------------------
(* The rows of the history when one is written.                            *)

LEMMA RowsWritten ==
  ASSUME Base, NEW w \in Workers, RememberPassword(w) \/ CommitChange(w),
         NEW n, n = Len(history) + 1
  PROVE  /\ \A i : RowsOf(i)' = RowsOf(i) \cup (IF i = req[w].user THEN {n} ELSE {})
         /\ \A i : \A j \in RowsOf(i) : j \in 1..Len(history) /\ j < n
         /\ \A j \in 1..Len(history) :
               Newer(j)' = Newer(j) \cup (IF history[j].user = req[w].user THEN {n} ELSE {})
         /\ Newer(n)' = {}
<1>1. /\ Len(history) \in Nat /\ Len(history') = n
      /\ \A j \in 1..Len(history) : history'[j] = history[j]
      /\ history'[n].user = req[w].user
  BY WriteKind
<1>2. \A j : j \in 1..Len(history') <=> j \in 1..Len(history) \/ j = n
  BY <1>1
<1>3. \A i : RowsOf(i)' = RowsOf(i) \cup (IF i = req[w].user THEN {n} ELSE {})
  BY <1>1, <1>2 DEF RowsOf
<1>4. \A i : \A j \in RowsOf(i) : j \in 1..Len(history) /\ j < n
  BY <1>1 DEF RowsOf
<1>5. ASSUME NEW j \in 1..Len(history)
      PROVE  Newer(j)' = Newer(j) \cup (IF history[j].user = req[w].user THEN {n} ELSE {})
  <2>1. history'[j].user = history[j].user /\ n > j
    BY <1>1
  <2>2. Newer(j)' = {k \in RowsOf(history[j].user)' : k > j}
    BY <2>1 DEF Newer
  <2> QED BY <1>3, <2>1, <2>2 DEF Newer
<1>6. Newer(n)' = {}
  BY <1>1 DEF Newer, RowsOf
<1> QED BY <1>3, <1>4, <1>5, <1>6

LEMMA RowsKept ==
  ASSUME UNCHANGED history
  PROVE  /\ \A i : RowsOf(i)' = RowsOf(i)
         /\ \A j : Newer(j)' = Newer(j)
  BY DEF RowsOf, Newer

-----------------------------------------------------------------------------
(* The current password is remembered. A registration writes one row; it   *)
(* may come after rows of changes, so that the current password is in the  *)
(* newest row or, with a registration's row after it, in the second.       *)

Registering(w, i) == pc[w] \in {"reload", "remember"} /\ req[w].user = i

RegisteredOnce ==
    /\ \A i \in Nat : \A j, k \in RowsOf(i) :
          history[j].proof = -1 /\ history[k].proof = -1 => j = k
    /\ \A i \in Nat : \A v, w \in Workers : Registering(v, i) /\ Registering(w, i) => v = w
    /\ \A i \in Nat : \A w \in Workers : Registering(w, i) =>
          \A j \in RowsOf(i) : history[j].proof # -1

Noted(i, p) ==
    \E j \in RowsOf(i) : /\ history[j].password = p
                         /\ \A k \in Newer(j) : history[k].proof = -1

(* The row of the account is still to be written, with its password.       *)
WillNote(i, p) ==
    \E w \in Workers : Registering(w, i) /\ (pc[w] = "remember" => req[w].password = p)

RememberInv ==
    /\ RegisteredOnce
    /\ \A u \in users :
          \/ Noted(u.id, u.password)
          \/ u.changes = 0 /\ (u.is_admin \/ crashes > 0 \/ WillNote(u.id, u.password))

(* Nothing is written, and no registration begins.                         *)
LEMMA OnceKept ==
  ASSUME RegisteredOnce, UNCHANGED history,
         \A i \in Nat : \A w \in Workers : Registering(w, i)' => Registering(w, i)
  PROVE  RegisteredOnce' /\ \A i, p : Noted(i, p)' <=> Noted(i, p)
<1>1. RegisteredOnce'
  BY RowsKept DEF RegisteredOnce
<1>2. \A i, p : Noted(i, p)' <=> Noted(i, p)
  BY RowsKept DEF Noted
<1> QED BY <1>1, <1>2

(* One account's row is written.                                           *)
LEMMA WriteRemember ==
  ASSUME Base, RememberInv, NEW w \in Workers, RememberPassword(w) \/ CommitChange(w)
  PROVE  RememberInv'
<1>n. PICK n : n = Len(history) + 1
  OBVIOUS
<1>m. PICK m : m = req[w].user
  OBVIOUS
<1>q. PICK q : q = req[w].password
  OBVIOUS
<1>1. /\ \A i : RowsOf(i)' = RowsOf(i) \cup (IF i = m THEN {n} ELSE {})
      /\ \A i : \A j \in RowsOf(i) : j \in 1..Len(history) /\ j < n
      /\ \A j \in 1..Len(history) :
            Newer(j)' = Newer(j) \cup (IF history[j].user = m THEN {n} ELSE {})
      /\ Newer(n)' = {}
  BY <1>n, <1>m, RowsWritten
<1>2. /\ pc'[w] = "ready" /\ UNCHANGED <<seq, crashes>>
      /\ \A v \in Workers : v # w => pc'[v] = pc[v] /\ req'[v] = req[v]
      /\ \A j \in 1..Len(history) : history'[j] = history[j]
      /\ history'[n].password = req[w].password
      /\ RememberPassword(w) => /\ pc[w] = "remember" /\ UNCHANGED users
                                /\ history'[n].proof = -1
      /\ CommitChange(w) => pc[w] = "change" /\ history'[n].proof \in Nat
  BY <1>n, WriteKind
<1>3. /\ \A i \in Nat : \A j, k \in RowsOf(i) :
            history[j].proof = -1 /\ history[k].proof = -1 => j = k
      /\ \A i \in Nat : \A x, v \in Workers : Registering(x, i) /\ Registering(v, i) => x = v
      /\ \A i \in Nat : \A v \in Workers : Registering(v, i) =>
            \A j \in RowsOf(i) : history[j].proof # -1
      /\ \A u \in users :
            \/ Noted(u.id, u.password)
            \/ u.changes = 0 /\ (u.is_admin \/ crashes > 0 \/ WillNote(u.id, u.password))
  BY DEF RememberInv, RegisteredOnce
<1>4. m \in Nat /\ \A v \in Workers : Registering(v, m)' => Registering(v, m)
  BY <1>2, <1>m DEF Base, TypeOK, Request, Registering
<1>5. \A i : \A v \in Workers : Registering(v, i)' => v # w /\ Registering(v, i)
  BY <1>2 DEF Registering
<1>6. RegisteredOnce'
  <2>1. ASSUME NEW i \in Nat, NEW j \in RowsOf(i)', NEW k \in RowsOf(i)',
               history'[j].proof = -1, history'[k].proof = -1
        PROVE  j = k
    <3>1. \A x \in RowsOf(i) : x \in 1..Len(history) /\ history'[x] = history[x]
      BY <1>1, <1>2
    <3>2. CASE j \in RowsOf(i) /\ k \in RowsOf(i)
      BY <1>3, <2>1, <3>1, <3>2
    <3>3. CASE i = m /\ (j = n \/ k = n) /\ RememberPassword(w)
      <4>1. Registering(w, m)
        BY <1>2, <1>m, <3>3 DEF Registering
      <4>2. \A x \in RowsOf(m) : history[x].proof # -1
        BY <1>3, <1>4, <4>1
      <4> QED BY <1>1, <2>1, <3>1, <3>3, <4>2
    <3>4. CASE i = m /\ (j = n \/ k = n) /\ CommitChange(w)
      BY <1>2, <2>1, <3>4
    <3> QED BY <1>1, <3>2, <3>3, <3>4
  <2>2. ASSUME NEW i \in Nat, NEW v \in Workers, Registering(v, i)', NEW j \in RowsOf(i)'
        PROVE  history'[j].proof # -1
    <3>1. v # w /\ Registering(v, i)
      BY <1>5, <2>2
    <3>2. CASE j \in RowsOf(i)
      <4>1. j \in 1..Len(history) /\ history'[j] = history[j]
        BY <1>1, <1>2, <3>2
      <4> QED BY <1>3, <3>1, <3>2, <4>1
    <3>3. CASE i = m /\ j = n /\ RememberPassword(w)
      <4>1. Registering(w, m)
        BY <1>2, <1>m, <3>3 DEF Registering
      <4> QED BY <1>3, <1>4, <3>1, <3>3, <4>1
    <3>4. CASE i = m /\ j = n /\ CommitChange(w)
      BY <1>2, <3>4
    <3> QED BY <1>1, <2>2, <3>2, <3>3, <3>4
  <2>3. \A i \in Nat : \A x, v \in Workers : Registering(x, i)' /\ Registering(v, i)' => x = v
    BY <1>3, <1>5
  <2> QED BY <2>1, <2>2, <2>3 DEF RegisteredOnce
<1>7. ASSUME NEW i, NEW p, Noted(i, p), i # m \/ RememberPassword(w) PROVE Noted(i, p)'
  <2>1. PICK j \in RowsOf(i) : /\ history[j].password = p
                              /\ \A k \in Newer(j) : history[k].proof = -1
    BY <1>7 DEF Noted
  <2>2. j \in 1..Len(history) /\ history'[j] = history[j] /\ j \in RowsOf(i)'
    BY <1>1, <1>2
  <2>3. history[j].user = i /\ \A k \in Newer(j) : k \in 1..Len(history)
    BY DEF RowsOf, Newer
  <2>4. ASSUME NEW k \in Newer(j)' PROVE history'[k].proof = -1
    <3>1. CASE k \in Newer(j)
      BY <1>2, <2>1, <2>3, <3>1
    <3>2. CASE k = n /\ i = m
      BY <1>2, <1>7, <3>2
    <3> QED BY <1>1, <2>2, <2>3, <3>1, <3>2
  <2> QED BY <2>1, <2>2, <2>4 DEF Noted
<1>8. Noted(m, q)'
  <2>1. n \in RowsOf(m)' /\ Newer(n)' = {} /\ history'[n].password = q
    BY <1>1, <1>2, <1>q
  <2> QED BY <2>1 DEF Noted
<1>9. ASSUME NEW i, NEW p, WillNote(i, p), ~WillNote(i, p)'
      PROVE  RememberPassword(w) /\ i = m /\ p = q
  <2>1. PICK v \in Workers : Registering(v, i) /\ (pc[v] = "remember" => req[v].password = p)
    BY <1>9 DEF WillNote
  <2>2. v = w
    BY <1>2, <1>9, <2>1 DEF WillNote, Registering
  <2> QED BY <1>2, <1>m, <1>q, <2>1, <2>2 DEF Registering
<1>10. ASSUME NEW u \in users'
       PROVE  \/ Noted(u.id, u.password)'
              \/ u.changes = 0 /\ (u.is_admin \/ crashes > 0 \/ WillNote(u.id, u.password)')
  <2>1. CASE CommitChange(w)
    <3>1. PICK x \in users :
             /\ u.id = x.id /\ u.is_admin = x.is_admin
             /\ IF x.id = m THEN u.password = q /\ u.changes = x.changes + 1
                ELSE u = x
      BY <1>m, <1>q, <2>1, CommitKind
    <3>2. CASE x.id = m
      BY <1>8, <3>1, <3>2
    <3>3. CASE x.id # m
      <4>1. u = x /\ ~RememberPassword(w)
        BY <1>2, <2>1, <3>1, <3>3
      <4> QED BY <1>3, <1>7, <1>9, <3>3, <4>1
    <3> QED BY <3>2, <3>3
  <2>2. CASE RememberPassword(w)
    <3>1. u \in users
      BY <1>2, <2>2
    <3>2. u.id = m /\ u.password = q => Noted(u.id, u.password)'
      BY <1>8
    <3> QED BY <1>3, <1>7, <1>9, <2>2, <3>1, <3>2
  <2> QED BY <2>1, <2>2
<1> QED BY <1>2, <1>6, <1>10 DEF RememberInv

LEMMA RememberStep ==
  ASSUME Base, RememberInv, [Next]_vars
  PROVE  RememberInv'
<1> USE DEF RememberInv
<1>0. TypeOK
  BY DEF Base
<1>1. CASE Quiet
  <2>1. \A i : \A w \in Workers : Registering(w, i)' => Registering(w, i)
    BY <1>1 DEF Quiet, Registering, Idle
  <2>2. RegisteredOnce' /\ \A i, p : Noted(i, p)' <=> Noted(i, p)
    BY <1>1, <2>1, OnceKept DEF Quiet
  <2>3. ASSUME NEW i, NEW p, WillNote(i, p) PROVE WillNote(i, p)' \/ crashes' > 0
    <3>1. PICK w \in Workers : Registering(w, i) /\ (pc[w] = "remember" => req[w].password = p)
      BY <2>3 DEF WillNote
    <3> QED BY <1>1, <3>1 DEF Quiet, WillNote, Registering
  <2>4. ASSUME NEW v \in users'
        PROVE  \/ Noted(v.id, v.password)'
               \/ v.changes = 0 /\ (v.is_admin \/ crashes' > 0 \/ WillNote(v.id, v.password)')
    <3>1. PICK u \in users : SameUser(u, v)
      BY <1>1 DEF Quiet
    <3>2. crashes > 0 => crashes' > 0
      BY <1>0, <1>1 DEF Quiet, TypeOK
    <3> QED BY <2>2, <2>3, <3>1, <3>2 DEF SameUser
  <2> QED BY <2>2, <2>4
<1>2. ASSUME NEW p \in Processes, Seed(p) PROVE RememberInv'
  <2>1. \A i : \A w \in Workers : Registering(w, i)' => Registering(w, i)
    BY <1>2, SeedKind DEF Registering
  <2>2. RegisteredOnce'
    BY <1>2, <2>1, OnceKept, SeedKind
  <2>3. \A u \in users' : u.changes = 0 /\ u.is_admin
    BY <1>2, SeedKind
  <2> QED BY <2>2, <2>3
<1>3. ASSUME UNCHANGED <<users, history, crashes>>, NEW w \in Workers,
             \A v \in Workers : v # w => pc'[v] = pc[v] /\ req'[v] = req[v],
             pc[w] \notin {"reload", "remember"}, pc'[w] \notin {"reload", "remember"}
      PROVE  RememberInv'
  <2>1. \A i : \A v \in Workers : Registering(v, i)' => Registering(v, i)
    BY <1>3 DEF Registering
  <2>2. RegisteredOnce' /\ \A i, p : Noted(i, p)' <=> Noted(i, p)
    BY <1>3, <2>1, OnceKept
  <2>3. \A i, p : WillNote(i, p) => WillNote(i, p)'
    BY <1>3 DEF WillNote, Registering
  <2> QED BY <1>3, <2>2, <2>3
<1>4. ASSUME NEW w \in Workers, Arrive(w) PROVE RememberInv'
  <2>1. pc[w] \notin {"reload", "remember"} /\ pc'[w] \notin {"reload", "remember"}
    BY <1>4, ArriveKind
  <2> QED BY <1>3, <1>4, <2>1, ArriveKind
<1>5. ASSUME NEW w \in Workers, Passes(w) PROVE RememberInv'
  <2>1. pc[w] \notin {"reload", "remember"} /\ pc'[w] \notin {"reload", "remember"}
    BY <1>5, PassKind
  <2> QED BY <1>3, <1>5, <2>1, PassKind
<1>6. ASSUME NEW w \in Workers, Enters(w) PROVE RememberInv'
  <2>1. PICK n : /\ users' = users \cup {n}
                 /\ n.id = seq + 1 /\ n.password = req[w].password
                 /\ n.is_admin = FALSE /\ n.changes = 0
    BY <1>6, EnterKind
  <2>2. /\ pc[w] = "insert" /\ UNCHANGED <<history, crashes>>
        /\ pc'[w] = "reload" /\ req'[w].user = seq + 1
        /\ \A v \in Workers : v # w => pc'[v] = pc[v] /\ req'[v] = req[v]
    BY <1>6, EnterKind
  <2>3. RowsOf(seq + 1) = {} /\ \A v \in Workers : ~Registering(v, seq + 1)
    BY <1>0 DEF Base, Ids, RowsOf, Registering, TypeOK
  <2>4. \A i : \A v \in Workers : Registering(v, i)' <=> Registering(v, i) \/ (v = w /\ i = seq + 1)
    BY <2>2 DEF Registering
  <2>5. \A i : RowsOf(i)' = RowsOf(i)
    BY <2>2, RowsKept
  <2>6. RegisteredOnce'
    BY <2>2, <2>3, <2>4, <2>5 DEF RegisteredOnce
  <2>7. \A i, p : Noted(i, p)' <=> Noted(i, p)
    BY <2>2, RowsKept DEF Noted
  <2>8. \A i, p : WillNote(i, p) => WillNote(i, p)'
    BY <2>2 DEF WillNote, Registering
  <2>9. WillNote(n.id, n.password)'
    BY <2>1, <2>2 DEF WillNote, Registering
  <2> QED BY <2>1, <2>2, <2>6, <2>7, <2>8, <2>9
<1>7. ASSUME NEW w \in Workers, ReloadUser(w) PROVE RememberInv'
  <2>1. PICK x \in users : x.id = req[w].user /\ req'[w].password = x.password
    BY <1>7, ReloadKind
  <2>2. /\ pc[w] = "reload" /\ UNCHANGED <<users, history, crashes>>
        /\ pc'[w] = "remember" /\ req'[w].user = req[w].user
        /\ \A v \in Workers : v # w => pc'[v] = pc[v] /\ req'[v] = req[v]
    BY <1>7, ReloadKind
  <2>3. \A i : \A v \in Workers : Registering(v, i)' => Registering(v, i)
    BY <2>2 DEF Registering
  <2>4. RegisteredOnce' /\ \A i, p : Noted(i, p)' <=> Noted(i, p)
    BY <2>2, <2>3, OnceKept
  <2>5. ASSUME NEW u \in users, WillNote(u.id, u.password)
        PROVE  WillNote(u.id, u.password)'
    <3>1. PICK v \in Workers :
             Registering(v, u.id) /\ (pc[v] = "remember" => req[v].password = u.password)
      BY <2>5 DEF WillNote
    <3>2. CASE v = w
      <4>1. x = u
        BY <1>0, <2>1, <3>1, <3>2 DEF Registering, TypeOK
      <4> QED BY <2>1, <2>2, <3>1, <3>2, <4>1 DEF WillNote, Registering
    <3>3. CASE v # w
      BY <2>2, <3>1, <3>3 DEF WillNote, Registering
    <3> QED BY <3>2, <3>3
  <2> QED BY <2>2, <2>4, <2>5
<1> QED BY <1>1, <1>2, <1>4, <1>5, <1>6, <1>7, Kinds, WriteRemember

(* With a history of two rows or more, the current password is among those *)
(* that a change refuses, whatever runs beside it: but for the seeded one  *)
(* and those whose registration is unfinished.                             *)
THEOREM CurrentIsRemembered == ASSUME HistorySize > 1 PROVE Spec => []Remembered
<1>1. Init => RememberInv
  BY DEF Init, RememberInv, RegisteredOnce, RowsOf, Registering, Processes
<1>2. Base /\ RememberInv /\ [Next]_vars => RememberInv'
  BY RememberStep
<1>3. Base /\ RememberInv => Remembered
  <2> SUFFICES ASSUME Base, RememberInv, NEW u \in users
               PROVE  \/ u.password \in Recent(u.id)
                      \/ u.changes = 0 /\ (u.is_admin \/ crashes > 0)
                      \/ \E w \in Workers : pc[w] \in {"reload", "remember"} /\ req[w].user = u.id
    BY DEF Remembered
  <2>1. CASE Noted(u.id, u.password)
    <3>1. PICK j \in RowsOf(u.id) : /\ history[j].password = u.password
                                   /\ \A k \in Newer(j) : history[k].proof = -1
      BY <2>1 DEF Noted
    <3>2. u.id \in Nat /\ history[j].user = u.id
      BY DEF Base, TypeOK, User, RowsOf
    <3>3. \A k, l \in Newer(j) : k = l
      BY <3>1, <3>2 DEF RememberInv, RegisteredOnce, Newer
    <3>4. \E x : Newer(j) = {} \/ Newer(j) = {x}
      <4>1. CASE Newer(j) = {}
        BY <4>1
      <4>2. ASSUME NEW x \in Newer(j) PROVE Newer(j) = {x}
        BY <3>3
      <4> QED BY <4>1, <4>2
    <3>5. Cardinality(Newer(j)) = 0 \/ Cardinality(Newer(j)) = 1
      BY <3>4, FS_EmptySet, FS_Singleton
    <3>6. Cardinality(Newer(j)) < HistorySize
      BY <3>5, HistoryAssumption
    <3> QED BY <3>1, <3>6 DEF Recent
  <2>2. CASE WillNote(u.id, u.password)
    BY <2>2 DEF WillNote, Registering
  <2> QED BY <2>1, <2>2 DEF RememberInv
<1> QED BY InitBase, StepBase, <1>1, <1>2, <1>3, PTL DEF Spec

-----------------------------------------------------------------------------
(* Copies of a password. Whoever writes a second copy beside a row that is *)
(* still recent had read the history before that row, or has registered    *)
(* the account, and was carrying its own row already when that one was     *)
(* written: by another worker.                                             *)

(* The rows of account i from the k-th on that hold password p.            *)
Repeats(i, p, k) == {j \in RowsOf(i) : j >= k /\ history[j].password = p}

(* The requests that write such a row whatever the history says.           *)
Carriers(i, p) ==
    {w \in Workers : /\ req[w].user = i
                     /\ \/ pc[w] \in {"reload", "remember"}
                        \/ pc[w] = "change" /\ req[w].password = p}

RecentCopy(i, p, k) ==
    k \in RowsOf(i) /\ history[k].password = p /\ Cardinality(Newer(k)) < HistorySize

CopyInv ==
    \A i \in Nat, p \in Passwords, k \in Nat : RecentCopy(i, p, k) =>
        Cardinality(Repeats(i, p, k)) + Cardinality(Carriers(i, p)) <= Cardinality(Workers)

(* Every set of row numbers has a least one.                               *)
LEMMA LeastRow ==
  ASSUME NEW S \in SUBSET Nat, S # {}
  PROVE  \E n \in S : \A m \in S : n <= m
<1> DEFINE R == OpToRel(<, Nat)
<1>1. IsWellFoundedOn(R, Nat)
  BY NatLessThanWellFounded
<1>2. PICK n \in S : \A m \in S : ~(<<m, n>> \in R)
  <2> HIDE DEF R
  <2> QED BY <1>1, WFMin
<1>3. \A m \in S : ~(m < n)
  BY <1>2 DEF OpToRel
<1> QED BY <1>3

LEMMA CopySets ==
  ASSUME TypeOK
  PROVE  /\ \A i, p, k : /\ IsFiniteSet(Repeats(i, p, k))
                         /\ Cardinality(Repeats(i, p, k)) \in Nat
         /\ \A i, p : /\ IsFiniteSet(Carriers(i, p)) /\ Cardinality(Carriers(i, p)) \in Nat
                      /\ Cardinality(Carriers(i, p)) <= Cardinality(Workers)
         /\ \A k : IsFiniteSet(Newer(k)) /\ Cardinality(Newer(k)) \in Nat
         /\ Cardinality(Workers) \in Nat
<1>0. Len(history) \in Int
  BY DEF TypeOK
<1>1. IsFiniteSet(1..Len(history))
  BY <1>0, FS_Interval
<1>2. \A i, p, k : Repeats(i, p, k) \subseteq 1..Len(history)
  BY DEF Repeats, RowsOf
<1>3. \A k : Newer(k) \subseteq 1..Len(history)
  BY DEF Newer, RowsOf
<1>4. \A i, p : Carriers(i, p) \subseteq Workers
  BY DEF Carriers
<1>5. \A i, p, k : IsFiniteSet(Repeats(i, p, k)) /\ Cardinality(Repeats(i, p, k)) \in Nat
  BY <1>1, <1>2, FS_Subset, FS_CardinalityType
<1>6. \A k : IsFiniteSet(Newer(k)) /\ Cardinality(Newer(k)) \in Nat
  BY <1>1, <1>3, FS_Subset, FS_CardinalityType
<1>7. \A i, p : /\ IsFiniteSet(Carriers(i, p)) /\ Cardinality(Carriers(i, p)) \in Nat
               /\ Cardinality(Carriers(i, p)) <= Cardinality(Workers)
  BY <1>4, FS_Subset, FS_CardinalityType, WorkersAssumption
<1> QED BY <1>5, <1>6, <1>7, FS_CardinalityType, WorkersAssumption

(* Nothing is written, and nobody goes on with a copy of a recent row.     *)
LEMMA CopiesKept ==
  ASSUME TypeOK, TypeOK', CopyInv, CopiesBounded, UNCHANGED history,
         \A i \in Nat, p \in Passwords : \/ Carriers(i, p)' \subseteq Carriers(i, p)
                                         \/ \A k \in Nat : ~RecentCopy(i, p, k)
  PROVE  CopyInv' /\ CopiesBounded'
<1>1. CopiesBounded'
  BY DEF CopiesBounded, Copies, Newer, RowsOf
<1>2. ASSUME NEW i \in Nat, NEW p \in Passwords, NEW k \in Nat, RecentCopy(i, p, k)'
      PROVE  Cardinality(Repeats(i, p, k)') + Cardinality(Carriers(i, p)') <= Cardinality(Workers)
  <2>1. Repeats(i, p, k)' = Repeats(i, p, k) /\ RecentCopy(i, p, k)
    BY <1>2 DEF Repeats, RowsOf, RecentCopy, Newer
  <2> DEFINE A == Repeats(i, p, k)  B == Carriers(i, p)  C == Carriers(i, p)'
  <2>2. Cardinality(A) + Cardinality(B) <= Cardinality(Workers) /\ C \subseteq B
    BY <2>1 DEF CopyInv
  <2>3. /\ IsFiniteSet(B) /\ Cardinality(B) \in Nat /\ Cardinality(A) \in Nat
        /\ Cardinality(Workers) \in Nat
    BY CopySets
  <2> HIDE DEF A, B, C
  <2>4. Cardinality(C) \in Nat /\ Cardinality(C) <= Cardinality(B)
    BY <2>2, <2>3, FS_Subset, FS_CardinalityType
  <2>5. Cardinality(A) + Cardinality(C) <= Cardinality(Workers)
    BY <2>2, <2>3, <2>4
  <2> QED BY <2>1, <2>5 DEF A, C
<1> QED BY <1>1, <1>2 DEF CopyInv

(* A row is written.                                                       *)
LEMMA WriteCopy ==
  ASSUME Base, Base', CopyInv, CopiesBounded,
         NEW w \in Workers, RememberPassword(w) \/ CommitChange(w)
  PROVE  CopyInv' /\ CopiesBounded'
<1>n. PICK n : n = Len(history) + 1
  OBVIOUS
<1>m. PICK m : m = req[w].user
  OBVIOUS
<1>q. PICK q : q = req[w].password
  OBVIOUS
<1>0. TypeOK /\ TypeOK' /\ w \in Workers
  BY DEF Base
<1>1. /\ \A i : RowsOf(i)' = RowsOf(i) \cup (IF i = m THEN {n} ELSE {})
      /\ \A i : \A j \in RowsOf(i) : j \in 1..Len(history) /\ j < n
      /\ \A j \in 1..Len(history) :
            Newer(j)' = Newer(j) \cup (IF history[j].user = m THEN {n} ELSE {})
      /\ Newer(n)' = {}
  BY <1>n, <1>m, RowsWritten
<1>2. /\ pc'[w] = "ready" /\ Len(history) \in Nat /\ Len(history') = n
      /\ \A v \in Workers : v # w => pc'[v] = pc[v] /\ req'[v] = req[v]
      /\ \A j \in 1..Len(history) : history'[j] = history[j]
      /\ history'[n].password = q /\ history'[n].user = m
      /\ pc[w] \in {"remember", "change"}
  BY <1>n, <1>m, <1>q, WriteKind
<1>3. /\ \A j : j \in 1..Len(history') <=> j \in 1..Len(history) \/ j = n
      /\ n \in Nat \ {0} /\ n \notin 1..Len(history)
  BY <1>n, <1>2
<1>4. \A i, p : Carriers(i, p)' \subseteq Carriers(i, p) \ {w}
  BY <1>2 DEF Carriers
<1>5. w \in Carriers(m, q)
  BY <1>2, <1>m, <1>q DEF Carriers
<1>6. \A k \in 1..Len(history) : Newer(k) \subseteq 1..Len(history)
  BY DEF Newer, RowsOf
<1>7. /\ m \in Nat /\ q \in Passwords /\ Cardinality(Workers) \in Nat
      /\ IsFiniteSet(Workers)
  BY <1>0, <1>2, <1>m, <1>q, WorkersAssumption, FS_CardinalityType DEF TypeOK, Request
<1>f. /\ \A k : IsFiniteSet(Newer(k)')
      /\ \A i, p, k : IsFiniteSet(Repeats(i, p, k)')
      /\ \A i, p : IsFiniteSet(Carriers(i, p)')
  <2>1. IsFiniteSet(1..n)
    BY <1>3, FS_Interval
  <2>2. \A i : RowsOf(i)' \subseteq 1..n
    BY <1>2 DEF RowsOf
  <2>3. /\ \A k : Newer(k)' \subseteq 1..n
        /\ \A i, p, k : Repeats(i, p, k)' \subseteq 1..n
        /\ \A i, p : Carriers(i, p)' \subseteq Workers
    BY <2>2 DEF Newer, Repeats, Carriers
  <2> QED BY <1>7, <2>1, <2>3, FS_Subset
<1>8. CopyInv'
  <2> SUFFICES ASSUME NEW i \in Nat, NEW p \in Passwords, NEW k \in Nat, RecentCopy(i, p, k)'
               PROVE  Cardinality(Repeats(i, p, k)') + Cardinality(Carriers(i, p)')
                         <= Cardinality(Workers)
    BY DEF CopyInv
  <2>1. /\ k \in RowsOf(i)' /\ history'[k].password = p
        /\ Cardinality(Newer(k)') < HistorySize
    BY DEF RecentCopy
  <2>2. \A j \in RowsOf(i) : j \in 1..Len(history) /\ history'[j] = history[j]
    BY <1>1, <1>2
  <2> DEFINE A == Repeats(i, p, k)  A1 == Repeats(i, p, k)'
             B == Carriers(i, p)  B1 == Carriers(i, p)'
  <2>3. A1 = {j \in RowsOf(i)' : j >= k /\ history'[j].password = p}
    BY DEF Repeats
  <2>4. A = {j \in RowsOf(i) : j >= k /\ history[j].password = p}
    BY DEF Repeats
  <2>5. B1 \subseteq B \ {w} /\ B \subseteq Workers
    BY <1>4 DEF Carriers
  <2>6. IsFiniteSet(A) /\ IsFiniteSet(B) /\ Cardinality(A) \in Nat /\ Cardinality(B) \in Nat
    BY <1>0, CopySets
  <2>7. i = m /\ p = q => w \in B
    BY <1>5
  <2> HIDE DEF A, A1, B, B1
  <2>8. CASE k = n
    <3>1. A1 \subseteq {n}
      BY <1>1, <1>3, <2>2, <2>3, <2>8
    <3>2. IsFiniteSet(A1) /\ Cardinality(A1) <= 1 /\ Cardinality(A1) \in Nat
      <4>1. IsFiniteSet({n}) /\ Cardinality({n}) = 1
        BY FS_Singleton
      <4> QED BY <3>1, <4>1, FS_Subset, FS_CardinalityType
    <3>3. IsFiniteSet(Workers \ {w}) /\ Cardinality(Workers \ {w}) = Cardinality(Workers) - 1
      BY <1>0, <1>7, FS_RemoveElement
    <3>4. Cardinality(B1) <= Cardinality(Workers) - 1 /\ Cardinality(B1) \in Nat
      <4>1. B1 \subseteq Workers \ {w}
        BY <2>5
      <4> QED BY <3>3, <4>1, FS_Subset, FS_CardinalityType
    <3>5. Cardinality(A1) + Cardinality(B1) <= Cardinality(Workers)
      BY <1>7, <3>2, <3>4
    <3> QED BY <3>5 DEF A1, B1
  <2>9. CASE k # n
    <3>1. k \in RowsOf(i) /\ k \in 1..Len(history) /\ history[k].password = p
      BY <1>1, <2>1, <2>2, <2>9
    <3>2. Cardinality(Newer(k)) <= Cardinality(Newer(k)')
      <4>1. Newer(k) \subseteq Newer(k)'
        BY <1>1, <3>1
      <4>2. IsFiniteSet(Newer(k)')
        BY <1>f
      <4> QED BY <4>1, <4>2, FS_Subset
    <3>3. Cardinality(Newer(k)) < HistorySize
      <4>1. Cardinality(Newer(k)) \in Nat /\ Cardinality(Newer(k)') \in Nat
        <5>1. IsFiniteSet(Newer(k)')
          BY <1>f
        <5>2. IsFiniteSet(Newer(k))
          BY <1>0, CopySets
        <5> QED BY <5>1, <5>2, FS_CardinalityType
      <4> QED BY <2>1, <3>2, <4>1, HistoryAssumption
    <3>4. Cardinality(A) + Cardinality(B) <= Cardinality(Workers)
      BY <3>1, <3>3 DEF CopyInv, RecentCopy, A, B
    <3>5. CASE i = m /\ p = q
      <4>1. A1 = A \cup {n} /\ n \notin A
        BY <1>1, <1>2, <1>3, <2>2, <2>3, <2>4, <3>1, <3>5
      <4>2. Cardinality(A1) = Cardinality(A) + 1
        BY <2>6, <4>1, FS_AddElement
      <4>3. IsFiniteSet(B \ {w}) /\ Cardinality(B \ {w}) = Cardinality(B) - 1
        BY <2>6, <2>7, <3>5, FS_RemoveElement
      <4>4. Cardinality(B1) <= Cardinality(B) - 1 /\ Cardinality(B1) \in Nat
        BY <2>5, <4>3, FS_Subset, FS_CardinalityType
      <4>5. Cardinality(A1) + Cardinality(B1) <= Cardinality(Workers)
        BY <1>7, <2>6, <3>4, <4>2, <4>4
      <4> QED BY <4>5 DEF A1, B1
    <3>6. CASE ~(i = m /\ p = q)
      <4>1. A1 = A
        BY <1>1, <1>2, <2>2, <2>3, <2>4, <3>6
      <4>2. Cardinality(B1) <= Cardinality(B) /\ Cardinality(B1) \in Nat
        <5>1. B1 \subseteq B
          BY <2>5
        <5> QED BY <2>6, <5>1, FS_Subset, FS_CardinalityType
      <4>3. Cardinality(A1) + Cardinality(B1) <= Cardinality(Workers)
        BY <1>7, <2>6, <3>4, <4>1, <4>2
      <4> QED BY <4>3 DEF A1, B1
    <3> QED BY <3>5, <3>6
  <2> QED BY <2>8, <2>9
<1>9. ASSUME NEW j \in 1..Len(history)
      PROVE  Cardinality(Copies(j)') <= Cardinality(Workers)
  <2> DEFINE i == history[j].user
             More == IF i = m THEN {n} ELSE {}
  <2>1. history'[j] = history[j] /\ j \in RowsOf(i) /\ j < n
    BY <1>2, <1>n DEF RowsOf
  <2>2. \A k \in RowsOf(i) : /\ history[k].user = i /\ k \in 1..Len(history)
                             /\ history'[k] = history[k]
    BY <1>2 DEF RowsOf
  <2>3. ASSUME NEW k \in RowsOf(i)
        PROVE  Cardinality(Newer(k)') = Cardinality(Newer(k)) + (IF i = m THEN 1 ELSE 0)
    <3>1. Newer(k)' = Newer(k) \cup More
      BY <1>1, <2>2
    <3>2. IsFiniteSet(Newer(k)) /\ n \notin Newer(k) /\ Cardinality(Newer(k)) \in Nat
      BY <1>0, <1>3, <1>6, <2>2, CopySets
    <3>3. CASE i = m
      BY <3>1, <3>2, <3>3, FS_AddElement
    <3>4. CASE i # m
      <4>1. Newer(k)' = Newer(k)
        BY <3>1, <3>4
      <4> QED BY <3>2, <3>4, <4>1
    <3> QED BY <3>3, <3>4
  <2>4. \A k \in RowsOf(i) :
           Cardinality(Newer(k)') < Cardinality(Newer(j)') + HistorySize
              <=> Cardinality(Newer(k)) < Cardinality(Newer(j)) + HistorySize
    <3> SUFFICES ASSUME NEW k \in RowsOf(i)
                 PROVE  Cardinality(Newer(k)') < Cardinality(Newer(j)') + HistorySize
                           <=> Cardinality(Newer(k)) < Cardinality(Newer(j)) + HistorySize
      OBVIOUS
    <3>1. Cardinality(Newer(k)) \in Nat /\ Cardinality(Newer(j)) \in Nat
      BY <1>0, CopySets
    <3>2. PICK d \in {0, 1} : /\ Cardinality(Newer(k)') = Cardinality(Newer(k)) + d
                             /\ Cardinality(Newer(j)') = Cardinality(Newer(j)) + d
      <4>1. CASE i = m
        BY <2>1, <2>3, <4>1
      <4>2. CASE i # m
        BY <2>1, <2>3, <4>2
      <4> QED BY <4>1, <4>2
    <3> QED BY <3>1, <3>2, HistoryAssumption
  <2>5. Copies(j)' = {k \in RowsOf(i)' : /\ k <= j /\ history'[k].password = history[j].password
                                        /\ Cardinality(Newer(k)') < Cardinality(Newer(j)') + HistorySize}
    BY <2>1 DEF Copies
  <2>6. \A k : k \in RowsOf(i)' /\ k <= j <=> k \in RowsOf(i) /\ k <= j
    BY <1>1, <1>3, <2>1
  <2>7. Copies(j)' = Copies(j)
    BY <2>2, <2>4, <2>5, <2>6 DEF Copies
  <2> QED BY <2>7 DEF CopiesBounded
<1>10. Cardinality(Copies(n)') <= Cardinality(Workers)
  <2>1. Cardinality(Newer(n)') = 0
    BY <1>1, FS_EmptySet
  <2> DEFINE S == Copies(n)'
  <2>2. \A k : k \in S <=> /\ k \in RowsOf(m)' /\ k <= n /\ history'[k].password = q
                           /\ Cardinality(Newer(k)') < HistorySize
    BY <1>2, <2>1, HistoryAssumption DEF Copies
  <2>3. \A k \in RowsOf(m)' : k \in Nat
    BY <1>1, <1>3
  <2>4. n \in S
    <3>1. n \in RowsOf(m)' /\ n <= n
      BY <1>1, <1>3
    <3>2. Cardinality(Newer(n)') < HistorySize
      BY <2>1, HistoryAssumption
    <3> HIDE DEF S
    <3> QED BY <1>2, <2>2, <3>1, <3>2
  <2>5. S \in SUBSET Nat /\ S # {}
    BY <2>2, <2>3, <2>4
  <2> HIDE DEF S
  <2>6. PICK k \in S : \A l \in S : k <= l
    BY <2>5, LeastRow
  <2>7. RecentCopy(m, q, k)' /\ k \in Nat
    BY <2>2, <2>3, <2>6 DEF RecentCopy
  <2>8. Cardinality(Repeats(m, q, k)') + Cardinality(Carriers(m, q)') <= Cardinality(Workers)
    BY <1>7, <1>8, <2>7 DEF CopyInv
  <2>9. S \subseteq Repeats(m, q, k)'
    BY <2>2, <2>3, <2>6 DEF Repeats
  <2>10. /\ IsFiniteSet(Repeats(m, q, k)') /\ IsFiniteSet(Carriers(m, q)')
    BY <1>f
  <2>11. /\ Cardinality(S) <= Cardinality(Repeats(m, q, k)') /\ IsFiniteSet(S)
    BY <2>9, <2>10, FS_Subset
  <2>12. /\ Cardinality(S) \in Nat /\ Cardinality(Repeats(m, q, k)') \in Nat
         /\ Cardinality(Carriers(m, q)') \in Nat
    BY <2>10, <2>11, FS_CardinalityType
  <2>13. Cardinality(S) <= Cardinality(Workers)
    BY <1>7, <2>8, <2>11, <2>12
  <2> QED BY <2>13 DEF S
<1>11. CopiesBounded'
  BY <1>3, <1>9, <1>10 DEF CopiesBounded
<1> QED BY <1>8, <1>11

LEMMA CopyStep ==
  ASSUME Base, Base', CopyInv, CopiesBounded, [Next]_vars
  PROVE  CopyInv' /\ CopiesBounded'
<1>0. TypeOK /\ TypeOK'
  BY DEF Base
<1>1. CASE Quiet
  <2>1. \A i, p : Carriers(i, p)' \subseteq Carriers(i, p)
    BY <1>1 DEF Quiet, Idle, Carriers
  <2> QED BY <1>0, <1>1, <2>1, CopiesKept DEF Quiet
<1>2. ASSUME NEW p \in Processes, Seed(p) PROVE CopyInv' /\ CopiesBounded'
  <2>1. \A i, x : Carriers(i, x)' \subseteq Carriers(i, x)
    BY <1>2, SeedKind DEF Carriers
  <2> QED BY <1>0, <1>2, <2>1, CopiesKept, SeedKind
<1>3. ASSUME NEW w \in Workers, Arrive(w) PROVE CopyInv' /\ CopiesBounded'
  <2>1. \A i, p : Carriers(i, p)' \subseteq Carriers(i, p)
    BY <1>3, ArriveKind DEF Carriers
  <2> QED BY <1>0, <1>3, <2>1, CopiesKept, ArriveKind
<1>4. ASSUME NEW w \in Workers, Enters(w) PROVE CopyInv' /\ CopiesBounded'
  <2>1. \A i, p : i # seq + 1 => Carriers(i, p)' \subseteq Carriers(i, p)
    BY <1>4, EnterKind DEF Carriers
  <2>2. RowsOf(seq + 1) = {}
    BY <1>0 DEF Base, Ids, RowsOf, TypeOK
  <2> QED BY <1>0, <1>4, <2>1, <2>2, CopiesKept, EnterKind DEF RecentCopy
<1>5. ASSUME NEW w \in Workers, ReloadUser(w) PROVE CopyInv' /\ CopiesBounded'
  <2>1. \A i, p : Carriers(i, p)' \subseteq Carriers(i, p)
    BY <1>5, ReloadKind DEF Carriers
  <2> QED BY <1>0, <1>5, <2>1, CopiesKept, ReloadKind
<1>6. ASSUME NEW w \in Workers, Passes(w) PROVE CopyInv' /\ CopiesBounded'
  <2>1. ASSUME NEW i, NEW p, ~(Carriers(i, p)' \subseteq Carriers(i, p))
        PROVE  i = req[w].user /\ p = req[w].password
    BY <1>6, <2>1, PassKind DEF Carriers
  <2>2. \A k \in Nat : ~RecentCopy(req[w].user, req[w].password, k)
    BY <1>6 DEF Passes, Recent, RecentCopy
  <2> QED BY <1>0, <1>6, <2>1, <2>2, CopiesKept, PassKind
<1> QED BY <1>1, <1>2, <1>3, <1>4, <1>5, <1>6, Kinds, WriteCopy

(* Within a window of HistorySize rows one password is set at most once    *)
(* per worker, however the changes and the registration race and die.      *)
THEOREM FewCopies == Spec => []CopiesBounded
<1>1. Init => CopyInv /\ CopiesBounded
  BY DEF Init, CopyInv, CopiesBounded, RecentCopy, RowsOf
<1>2. Base /\ CopyInv /\ CopiesBounded /\ [Next]_vars => CopyInv' /\ CopiesBounded'
  BY StepBase, CopyStep
<1> QED BY InitBase, StepBase, <1>1, <1>2, PTL DEF Spec

=============================================================================
