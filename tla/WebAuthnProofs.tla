--------------------------- MODULE WebAuthnProofs ---------------------------
(***************************************************************************)
(* Theorems about WebAuthn, for any keys, any finite set of workers and    *)
(* any number of signatures, requests and crashes. TypeOK, Ids and LateInv *)
(* are inductive together; LateInv counts, for a key that is gone, the     *)
(* sessions it opened late and the requests that still may open one. The   *)
(* two action properties follow from TypeOK and one step.                  *)
(***************************************************************************)
EXTENDS WebAuthn, TLAPS, FiniteSetTheorems

(* What is kept of a row by a request or by a session refers to an id that *)
(* has been handed out.                                                    *)
Ids ==
    /\ \A w \in Workers : pc[w] \in {"delete", "store", "session"} => req[w].id \in 1..seq
    /\ \A o \in opened : o.id \in 1..seq

LateOf(i) == {o \in opened : o.id = i /\ o.late}

(* The requests that will open a session with row i, removed or not.       *)
Opening(i) == {w \in Workers : pc[w] = "session" /\ req[w].id = i}

Present(i) == \E r \in credentials : r.id = i

LateInv ==
    \A i \in 1..seq :
        IF Present(i) THEN LateOf(i) = {}
        ELSE Cardinality(LateOf(i)) + Cardinality(Opening(i)) < Cardinality(Workers)

IInv == TypeOK /\ Ids /\ LateInv

-----------------------------------------------------------------------------
(* Type correctness.                                                       *)

LEMMA RequestType ==
  /\ NoRequest \in Request /\ NoRequest.id = 0 /\ NoRequest.key = None
  /\ \A k \in Keys : LET r == [NoRequest EXCEPT !.key = k]
                     IN  r \in Request /\ r.key = k
  /\ \A i \in Nat, k \in Keys : LET r == [NoRequest EXCEPT !.id = i, !.key = k]
                                IN  r \in Request /\ r.id = i
  BY DEF NoRequest, Request

(* A request that is accepted takes over an idle worker.                   *)
LEMMA AcceptEffect ==
  ASSUME TypeOK, NEW w \in Workers, NEW step, NEW r, Accept(w, step, r)
  PROVE  /\ pc[w] = "idle"
         /\ \A v \in Workers : IF v = w THEN pc'[v] = step /\ req'[v] = r
                               ELSE pc'[v] = pc[v] /\ req'[v] = req[v]
         /\ step \in PCs => pc' \in [Workers -> PCs]
         /\ r \in Request => req' \in [Workers -> Request]
         /\ arrived' \in Nat
         /\ UNCHANGED <<credentials, seq, keys, opened, crashes>>
  BY DEF TypeOK, Accept, Goto

(* A request that ends leaves the worker idle.                             *)
LEMMA FinishEffect ==
  ASSUME TypeOK, NEW w \in Workers, Finish(w)
  PROVE  /\ pc' \in [Workers -> PCs] /\ req' \in [Workers -> Request]
         /\ \A v \in Workers : IF v = w THEN pc'[v] = "idle" /\ req'[v] = NoRequest
                               ELSE pc'[v] = pc[v] /\ req'[v] = req[v]
  BY RequestType DEF TypeOK, Finish, Goto, PCs

(* The four kinds of request that arrive.                                  *)
LEMMA ArriveEffect ==
  ASSUME TypeOK, Ids, NEW w \in Workers, Arrive(w)
  PROVE  \E step \in PCs \ {"idle", "session"}, r \in Request :
            /\ Accept(w, step, r)
            /\ step \in {"delete", "store"} => r.id \in 1..seq
            /\ step = "insert" => r.key \in Keys
            /\ step = "insert" => attested[r.key] = "live"
            /\ step = "store" => \E q \in credentials : q.id = r.id /\ q.sign_count < r.count
<1> DEFINE Starts(step, r) ==
              /\ Accept(w, step, r)
              /\ step \in {"delete", "store"} => r.id \in 1..seq
              /\ step = "insert" => r.key \in Keys
              /\ step = "insert" => attested[r.key] = "live"
              /\ step = "store" => \E q \in credentials : q.id = r.id /\ q.sign_count < r.count
<1>1. CASE \E k \in Keys : RegisterComplete(w, k)
  <2>1. PICK k \in Keys : RegisterComplete(w, k)
    BY <1>1
  <2>2. PICK r \in Request : r = [NoRequest EXCEPT !.key = k] /\ r.key = k
    BY RequestType
  <2>3. Starts("insert", r)
    BY <2>1, <2>2 DEF RegisterComplete
  <2>4. "insert" \in PCs \ {"idle", "session"}
    BY DEF PCs
  <2> QED BY <2>3, <2>4
<1>2. CASE RemoveCredential(w)
  <2>1. PICK q \in credentials :
            Accept(w, "delete", [NoRequest EXCEPT !.id = q.id, !.key = q.key])
    BY <1>2 DEF RemoveCredential
  <2>2. q.id \in 1..seq /\ q.id \in Nat /\ q.key \in Keys
    BY DEF TypeOK, WebAuthnCredential
  <2>3. PICK r \in Request : r = [NoRequest EXCEPT !.id = q.id, !.key = q.key] /\ r.id = q.id
    BY <2>2, RequestType
  <2>4. Starts("delete", r)
    BY <2>1, <2>2, <2>3
  <2>5. "delete" \in PCs \ {"idle", "session"}
    BY DEF PCs
  <2> QED BY <2>4, <2>5
<1>3. CASE \E a \in asserted : LoginComplete(w, a)
  <2>1. PICK a \in asserted : LoginComplete(w, a)
    BY <1>3
  <2>2. PICK q \in credentials :
            /\ Newer(a, q)
            /\ Accept(w, "store", [id |-> q.id, key |-> q.key, count |-> a.count])
    BY <2>1 DEF LoginComplete
  <2>3. /\ q.id \in 1..seq /\ q.id \in Nat /\ q.key \in Keys /\ a.count \in Nat
        /\ q.sign_count \in Nat
    BY DEF TypeOK, WebAuthnCredential, Assertion
  <2> DEFINE r == [id |-> q.id, key |-> q.key, count |-> a.count]
  <2>4. r \in Request
    BY <2>3 DEF Request
  <2>5. q.sign_count < a.count
    BY <2>2, <2>3 DEF Newer
  <2>6. Starts("store", r)
    BY <2>2, <2>3, <2>5
  <2>7. "store" \in PCs \ {"idle", "session"}
    BY DEF PCs
  <2> QED BY <2>4, <2>6, <2>7
<1> QED BY <1>1, <1>2, <1>3 DEF Arrive

LEMMA ArriveTyped ==
  ASSUME TypeOK, Ids, NEW w \in Workers, Arrive(w)
  PROVE  TypeOK' /\ Ids'
<1>1. PICK step \in PCs \ {"idle", "session"}, r \in Request :
            /\ Accept(w, step, r)
            /\ step \in {"delete", "store"} => r.id \in 1..seq
            /\ step = "insert" => r.key \in Keys
  BY ArriveEffect
<1>2. /\ \A v \in Workers : IF v = w THEN pc'[v] = step /\ req'[v] = r
                               ELSE pc'[v] = pc[v] /\ req'[v] = req[v]
      /\ pc' \in [Workers -> PCs] /\ req' \in [Workers -> Request] /\ arrived' \in Nat
      /\ UNCHANGED <<credentials, seq, keys, opened, crashes>>
  BY <1>1, AcceptEffect
<1>3. \A v \in Workers : pc'[v] = "insert" => req'[v].key \in Keys
  BY <1>1, <1>2 DEF TypeOK
<1>4. \A v \in Workers : pc'[v] \in {"delete", "store", "session"} => req'[v].id \in 1..seq
  BY <1>1, <1>2 DEF Ids
<1>5. TypeOK'
  BY <1>2, <1>3 DEF TypeOK, keys
<1>6. Ids'
  BY <1>2, <1>4 DEF Ids
<1> QED BY <1>5, <1>6

(* A request that ends without touching the tables.                        *)
LEMMA FinishTyped ==
  ASSUME TypeOK, Ids, NEW w \in Workers, Finish(w),
         UNCHANGED <<credentials, seq, keys, opened, arrived>>, crashes' \in Nat
  PROVE  TypeOK' /\ Ids'
<1>1. /\ pc' \in [Workers -> PCs] /\ req' \in [Workers -> Request]
      /\ \A v \in Workers : IF v = w THEN pc'[v] = "idle" /\ req'[v] = NoRequest
                               ELSE pc'[v] = pc[v] /\ req'[v] = req[v]
  BY FinishEffect
<1>2. TypeOK'
  BY <1>1 DEF TypeOK, keys
<1>3. Ids'
  BY <1>1 DEF Ids
<1> QED BY <1>2, <1>3

LEMMA InsertTyped ==
  ASSUME TypeOK, Ids, NEW w \in Workers, InsertCredential(w)
  PROVE  TypeOK' /\ Ids'
<1>1. /\ pc' \in [Workers -> PCs] /\ req' \in [Workers -> Request]
      /\ \A v \in Workers : IF v = w THEN pc'[v] = "idle" /\ req'[v] = NoRequest
                               ELSE pc'[v] = pc[v] /\ req'[v] = req[v]
  BY FinishEffect DEF InsertCredential
<1>2. /\ seq' = seq + 1 /\ seq' \in Nat
      /\ UNCHANGED <<keys, opened, arrived, crashes>>
  BY DEF InsertCredential, TypeOK
<1>3. req[w].key \in Keys
  BY DEF InsertCredential, TypeOK
<1> DEFINE q == [id |-> seq + 1, key |-> req[w].key, sign_count |-> 0]
<1>4. q \in WebAuthnCredential
  BY <1>2, <1>3 DEF WebAuthnCredential, TypeOK
<1>5. \/ credentials' = credentials
      \/ RowOf(req[w].key) = {} /\ credentials' = credentials \cup {q}
  BY DEF InsertCredential
<1>6. /\ credentials' \subseteq WebAuthnCredential
      /\ \A r \in credentials' : r.id <= seq'
  BY <1>2, <1>4, <1>5 DEF TypeOK, WebAuthnCredential
<1>7. \A p, r \in credentials' : p.key = r.key \/ p.id = r.id => p = r
  <2>1. CASE credentials' = credentials
    BY <2>1 DEF TypeOK
  <2>2. CASE RowOf(req[w].key) = {} /\ credentials' = credentials \cup {q}
    <3>1. \A r \in credentials : r.key # q.key /\ r.id # q.id
      BY <2>2, <1>2 DEF RowOf, TypeOK, WebAuthnCredential
    <3> QED BY <2>2, <3>1 DEF TypeOK
  <2> QED BY <1>5, <2>1, <2>2
<1>8. TypeOK'
  BY <1>1, <1>2, <1>6, <1>7 DEF TypeOK, keys
<1>9. Ids'
  BY <1>1, <1>2 DEF Ids, TypeOK
<1> QED BY <1>8, <1>9

LEMMA DeleteTyped ==
  ASSUME TypeOK, Ids, NEW w \in Workers, DeleteCredential(w)
  PROVE  TypeOK' /\ Ids'
<1>1. /\ pc' \in [Workers -> PCs] /\ req' \in [Workers -> Request]
      /\ \A v \in Workers : IF v = w THEN pc'[v] = "idle" /\ req'[v] = NoRequest
                               ELSE pc'[v] = pc[v] /\ req'[v] = req[v]
  BY FinishEffect DEF DeleteCredential
<1>2. credentials' \subseteq credentials /\ UNCHANGED <<seq, keys, opened, arrived, crashes>>
  BY DEF DeleteCredential
<1>3. TypeOK'
  BY <1>1, <1>2 DEF TypeOK, keys
<1>4. Ids'
  BY <1>1, <1>2 DEF Ids
<1> QED BY <1>3, <1>4

(* What writing a count does to a row.                                     *)
LEMMA CountedEffect ==
  ASSUME TypeOK, NEW w \in Workers, NEW r \in credentials
  PROVE  /\ Counted(r, w) \in WebAuthnCredential
         /\ Counted(r, w).id = r.id /\ Counted(r, w).key = r.key
         /\ Counted(r, w).sign_count = IF r.id = req[w].id THEN req[w].count
                                       ELSE r.sign_count
<1>1. r \in WebAuthnCredential /\ req[w] \in Request
  BY DEF TypeOK
<1> QED BY <1>1 DEF Counted, WebAuthnCredential, Request

LEMMA StoreEffect ==
  ASSUME TypeOK, NEW w \in Workers, StoreCount(w)
  PROVE  /\ pc[w] = "store"
         /\ pc' \in [Workers -> PCs] /\ req' \in [Workers -> Request]
         /\ \A v \in Workers \ {w} : pc'[v] = pc[v] /\ req'[v] = req[v]
         /\ \/ pc'[w] = "session" /\ req'[w] = req[w] /\ Present(req[w].id)
            \/ pc'[w] = "idle" /\ req'[w] = NoRequest
         /\ \A i : Present(i)' <=> Present(i)
         /\ UNCHANGED <<seq, keys, opened, arrived, crashes>>
<1>1. pc[w] = "store" /\ UNCHANGED <<seq, keys, opened, arrived, crashes>>
      /\ credentials' = {Counted(r, w) : r \in credentials}
  BY DEF StoreCount
<1>2. \A i : Present(i)' <=> Present(i)
  BY <1>1, CountedEffect DEF Present
<1>3. CASE (\E r \in credentials : r.id = req[w].id) /\ Goto(w, "session") /\ UNCHANGED req
  BY <1>1, <1>2, <1>3 DEF TypeOK, Goto, Present, PCs
<1>4. CASE (\A r \in credentials : r.id # req[w].id) /\ Finish(w)
  BY <1>1, <1>2, <1>4, FinishEffect
<1> QED BY <1>3, <1>4 DEF StoreCount

LEMMA StoreTyped ==
  ASSUME TypeOK, Ids, NEW w \in Workers, StoreCount(w)
  PROVE  TypeOK' /\ Ids'
<1>1. /\ pc[w] = "store"
      /\ pc' \in [Workers -> PCs] /\ req' \in [Workers -> Request]
      /\ \A v \in Workers \ {w} : pc'[v] = pc[v] /\ req'[v] = req[v]
      /\ \/ pc'[w] = "session" /\ req'[w] = req[w]
         \/ pc'[w] = "idle" /\ req'[w] = NoRequest
      /\ UNCHANGED <<seq, keys, opened, arrived, crashes>>
  BY StoreEffect
<1>2. credentials' = {Counted(r, w) : r \in credentials}
  BY DEF StoreCount
<1>3. /\ credentials' \subseteq WebAuthnCredential
      /\ \A r \in credentials' : r.id <= seq
  BY <1>2, CountedEffect DEF TypeOK
<1>4. \A p, r \in credentials' : p.key = r.key \/ p.id = r.id => p = r
  <2>1. SUFFICES ASSUME NEW p \in credentials, NEW r \in credentials,
                        \/ Counted(p, w).key = Counted(r, w).key
                        \/ Counted(p, w).id = Counted(r, w).id
                 PROVE  p = r
    BY <1>2
  <2> QED BY <2>1, CountedEffect DEF TypeOK
<1>5. \A v \in Workers : pc'[v] = "insert" => req'[v].key \in Keys
  BY <1>1 DEF TypeOK
<1>6. TypeOK'
  BY <1>1, <1>3, <1>4, <1>5 DEF TypeOK, keys
<1>7. Ids'
  BY <1>1 DEF Ids
<1> QED BY <1>6, <1>7

LEMMA OpenTyped ==
  ASSUME TypeOK, Ids, NEW w \in Workers, OpenSession(w)
  PROVE  TypeOK' /\ Ids'
<1>1. /\ pc' \in [Workers -> PCs] /\ req' \in [Workers -> Request]
      /\ \A v \in Workers : IF v = w THEN pc'[v] = "idle" /\ req'[v] = NoRequest
                               ELSE pc'[v] = pc[v] /\ req'[v] = req[v]
  BY FinishEffect DEF OpenSession
<1> DEFINE o == [id |-> req[w].id, count |-> req[w].count, nth |-> Cardinality(opened) + 1,
                 late |-> \A r \in credentials : r.id # req[w].id]
<1>2. opened' = opened \cup {o} /\ UNCHANGED <<credentials, seq, keys, arrived, crashes>>
  BY DEF OpenSession
<1>3. req[w] \in Request /\ Cardinality(opened) \in Nat
  BY FS_CardinalityType DEF TypeOK
<1>4. o \in Opened
  BY <1>3 DEF Opened, Request
<1>5. IsFiniteSet(opened')
  BY <1>2, FS_AddElement DEF TypeOK
<1>6. TypeOK'
  BY <1>1, <1>2, <1>4, <1>5 DEF TypeOK, keys
<1>7. o.id \in 1..seq
  BY DEF Ids, OpenSession
<1>8. Ids'
  BY <1>1, <1>2, <1>7 DEF Ids
<1> QED BY <1>6, <1>8

LEMMA CeremonyTyped ==
  ASSUME TypeOK, Ids, Ceremony
  PROVE  TypeOK' /\ Ids' /\ UNCHANGED <<credentials, seq, opened, pc, req>>
<1>1. CASE \E k \in Keys : RegisterBegin(k)
  BY <1>1 DEF TypeOK, Ids, RegisterBegin
<1>2. CASE \E k \in Keys : ExpireRegistration(k)
  BY <1>2 DEF TypeOK, Ids, ExpireRegistration
<1>3. CASE \E k \in Keys : LoginBegin(k)
  <2>1. PICK k \in Keys : LoginBegin(k)
    BY <1>3
  <2>2. counter[k] \in Nat
    BY DEF TypeOK
  <2>3. [key |-> k, count |-> 0] \in Assertion /\ [key |-> k, count |-> counter[k] + 1] \in Assertion
    BY <2>2 DEF Assertion
  <2>4. counter' \in [Keys -> Nat] /\ asserted' \subseteq Assertion
    BY <2>1, <2>2, <2>3 DEF LoginBegin, TypeOK
  <2> QED BY <2>1, <2>4 DEF TypeOK, Ids, LoginBegin
<1>4. CASE \E a \in asserted : ExpireLogin(a)
  BY <1>4 DEF TypeOK, Ids, ExpireLogin
<1> QED BY <1>1, <1>2, <1>3, <1>4 DEF Ceremony

(* A worker that dies leaves the tables alone.                             *)
LEMMA CrashTyped ==
  ASSUME TypeOK, Ids, NEW w \in Workers, Crash(w)
  PROVE  TypeOK' /\ Ids'
<1>1. crashes' \in Nat /\ Finish(w) /\ UNCHANGED <<credentials, seq, keys, opened, arrived>>
  BY DEF Crash, TypeOK
<1> QED BY <1>1, FinishTyped

-----------------------------------------------------------------------------
(* Late sessions.                                                          *)

LEMMA LateFinite ==
  ASSUME TypeOK, NEW i
  PROVE  /\ IsFiniteSet(LateOf(i)) /\ IsFiniteSet(Opening(i))
         /\ Cardinality(LateOf(i)) \in Nat /\ Cardinality(Opening(i)) \in Nat
         /\ Cardinality(Workers) \in Nat
<1>1. LateOf(i) \subseteq opened /\ Opening(i) \subseteq Workers
  BY DEF LateOf, Opening
<1>2. IsFiniteSet(LateOf(i)) /\ IsFiniteSet(Opening(i))
  BY <1>1, FS_Subset, WorkersAssumption DEF TypeOK
<1> QED BY <1>2, FS_CardinalityType, WorkersAssumption

(* A step that removes no row, opens no session and sends no request on to *)
(* open one keeps LateInv.                                                 *)
LEMMA LateKept ==
  ASSUME TypeOK, LateInv, UNCHANGED <<opened, seq>>,
         \A i : Present(i)' <=> Present(i),
         \A w \in Workers : pc'[w] = "session" =>
            \/ pc[w] = "session" /\ req'[w].id = req[w].id
            \/ Present(req'[w].id)
  PROVE  LateInv'
<1>1. SUFFICES ASSUME NEW i \in 1..seq
               PROVE  IF Present(i) THEN LateOf(i)' = {}
                      ELSE Cardinality(LateOf(i)') + Cardinality(Opening(i)') < Cardinality(Workers)
  BY DEF LateInv
<1>2. LateOf(i)' = LateOf(i)
  BY DEF LateOf
<1>3. CASE Present(i)
  BY <1>2, <1>3 DEF LateInv
<1>4. CASE ~Present(i)
  <2>1. Opening(i)' \subseteq Opening(i)
    BY <1>4 DEF Opening
  <2>2. Cardinality(LateOf(i)) + Cardinality(Opening(i)) < Cardinality(Workers)
    BY <1>4 DEF LateInv
  <2>3. Cardinality(Opening(i)') \in Nat /\ Cardinality(Opening(i)') <= Cardinality(Opening(i))
    BY <2>1, LateFinite, FS_Subset, FS_CardinalityType
  <2> QED BY <1>2, <1>4, <2>2, <2>3, LateFinite
<1> QED BY <1>3, <1>4

LEMMA LateFinish ==
  ASSUME TypeOK, LateInv, NEW w \in Workers, Finish(w), UNCHANGED <<credentials, opened, seq>>
  PROVE  LateInv'
<1>1. \A v \in Workers : IF v = w THEN pc'[v] = "idle" ELSE pc'[v] = pc[v] /\ req'[v] = req[v]
  BY FinishEffect
<1>2. \A i : Present(i)' <=> Present(i)
  BY DEF Present
<1> QED BY <1>1, <1>2, LateKept

LEMMA LateArrive ==
  ASSUME TypeOK, Ids, LateInv, NEW w \in Workers, Arrive(w)
  PROVE  LateInv'
<1>1. PICK step \in PCs \ {"idle", "session"}, r \in Request : Accept(w, step, r)
  BY ArriveEffect
<1>2. /\ \A v \in Workers : IF v = w THEN pc'[v] = step /\ req'[v] = r
                               ELSE pc'[v] = pc[v] /\ req'[v] = req[v]
      /\ UNCHANGED <<credentials, seq, opened>>
  BY <1>1, AcceptEffect
<1>3. \A i : Present(i)' <=> Present(i)
  BY <1>2 DEF Present
<1> QED BY <1>1, <1>2, <1>3, LateKept

(* The row of a new id, stored or refused, has no past.                    *)
LEMMA LateInsert ==
  ASSUME TypeOK, Ids, LateInv, NEW w \in Workers, InsertCredential(w)
  PROVE  LateInv'
<1>1. /\ \A v \in Workers : IF v = w THEN pc'[v] = "idle" /\ req'[v] = NoRequest
                               ELSE pc'[v] = pc[v] /\ req'[v] = req[v]
      /\ seq' = seq + 1 /\ opened' = opened
  BY FinishEffect DEF InsertCredential
<1>2. \A i : LateOf(i)' = LateOf(i)
  BY <1>1 DEF LateOf
<1>3. \A i : Opening(i)' \subseteq Opening(i)
  BY <1>1 DEF Opening
<1>4. \A i \in 1..seq : Present(i)' <=> Present(i)
  BY DEF Present, InsertCredential, TypeOK
<1>5. ASSUME NEW i \in 1..seq
      PROVE  IF Present(i)' THEN LateOf(i)' = {}
             ELSE Cardinality(LateOf(i)') + Cardinality(Opening(i)') < Cardinality(Workers)
  <2>1. CASE Present(i)
    BY <1>2, <1>4, <2>1 DEF LateInv
  <2>2. CASE ~Present(i)
    <3>1. Cardinality(LateOf(i)) + Cardinality(Opening(i)) < Cardinality(Workers)
      BY <2>2 DEF LateInv
    <3>2. /\ Cardinality(Opening(i)') \in Nat
          /\ Cardinality(Opening(i)') <= Cardinality(Opening(i))
      BY <1>3, LateFinite, FS_Subset, FS_CardinalityType
    <3> QED BY <1>2, <1>4, <2>2, <3>1, <3>2, LateFinite
  <2> QED BY <2>1, <2>2
<1>6. PICK n : n = seq + 1
  OBVIOUS
<1>7. LateOf(n) = {} /\ Opening(n) = {}
  BY <1>6 DEF LateOf, Opening, Ids, TypeOK
<1>8. LateOf(n)' = {} /\ Opening(n)' = {}
  BY <1>2, <1>3, <1>7
<1>9. Cardinality(LateOf(n)') + Cardinality(Opening(n)') < Cardinality(Workers)
  BY <1>8, WorkersAssumption, FS_EmptySet, FS_CardinalityType
<1>10. \A i \in 1..seq' : i \in 1..seq \/ i = n
  BY <1>1, <1>6 DEF TypeOK
<1>11. ASSUME NEW i \in 1..seq'
       PROVE  IF Present(i)' THEN LateOf(i)' = {}
              ELSE Cardinality(LateOf(i)') + Cardinality(Opening(i)') < Cardinality(Workers)
  BY <1>5, <1>8, <1>9, <1>10
<1> QED BY <1>11 DEF LateInv

(* A removal leaves at most the requests of the other workers on their way *)
(* to a session.                                                           *)
LEMMA LateDelete ==
  ASSUME TypeOK, Ids, LateInv, NEW w \in Workers, DeleteCredential(w)
  PROVE  LateInv'
<1>1. /\ \A v \in Workers : IF v = w THEN pc'[v] = "idle" /\ req'[v] = NoRequest
                               ELSE pc'[v] = pc[v] /\ req'[v] = req[v]
      /\ UNCHANGED <<seq, opened>> /\ pc[w] = "delete"
      /\ credentials' = {r \in credentials : r.id # req[w].id}
  BY FinishEffect DEF DeleteCredential
<1>2. \A i : LateOf(i)' = LateOf(i)
  BY <1>1 DEF LateOf
<1>3. \A i : Opening(i)' = Opening(i)
  BY <1>1 DEF Opening
<1>4. ASSUME NEW i \in 1..seq
      PROVE  IF Present(i)' THEN LateOf(i)' = {}
             ELSE Cardinality(LateOf(i)') + Cardinality(Opening(i)') < Cardinality(Workers)
  <2>1. CASE ~Present(i)
    <3>1. ~Present(i)'
      BY <1>1, <2>1 DEF Present
    <3> QED BY <1>2, <1>3, <2>1, <3>1 DEF LateInv
  <2>2. CASE Present(i)
    <3>1. LateOf(i) = {}
      BY <2>2 DEF LateInv
    <3>2. Opening(i) \subseteq Workers \ {w}
      BY <1>1 DEF Opening
    <3>3. /\ IsFiniteSet(Workers \ {w})
          /\ Cardinality(Workers \ {w}) = Cardinality(Workers) - 1
      BY WorkersAssumption, FS_RemoveElement
    <3>4. Cardinality(Opening(i)) <= Cardinality(Workers \ {w})
      BY <3>2, <3>3, FS_Subset
    <3>5. Cardinality(LateOf(i)) = 0
      BY <3>1, FS_EmptySet
    <3>6. Cardinality(LateOf(i)) + Cardinality(Opening(i)) < Cardinality(Workers)
      BY <3>3, <3>4, <3>5, LateFinite
    <3> QED BY <1>2, <1>3, <3>1, <3>6
  <2> QED BY <2>1, <2>2
<1> QED BY <1>1, <1>4 DEF LateInv

LEMMA LateStore ==
  ASSUME TypeOK, Ids, LateInv, NEW w \in Workers, StoreCount(w)
  PROVE  LateInv'
<1>1. /\ \A v \in Workers \ {w} : pc'[v] = pc[v] /\ req'[v] = req[v]
      /\ \/ pc'[w] = "session" /\ req'[w] = req[w] /\ Present(req[w].id)
         \/ pc'[w] = "idle" /\ req'[w] = NoRequest
      /\ \A i : Present(i)' <=> Present(i)
      /\ UNCHANGED <<seq, opened>>
  BY StoreEffect
<1>2. \A v \in Workers : pc'[v] = "session" =>
            \/ pc[v] = "session" /\ req'[v].id = req[v].id
            \/ Present(req'[v].id)
  BY <1>1
<1> QED BY <1>1, <1>2, LateKept

(* A request that opens a late session is not on its way to one any more.  *)
LEMMA LateOpen ==
  ASSUME TypeOK, Ids, LateInv, NEW w \in Workers, OpenSession(w)
  PROVE  LateInv'
<1> DEFINE o == [id |-> req[w].id, count |-> req[w].count, nth |-> Cardinality(opened) + 1,
                 late |-> \A r \in credentials : r.id # req[w].id]
<1>1. /\ \A v \in Workers : IF v = w THEN pc'[v] = "idle" /\ req'[v] = NoRequest
                               ELSE pc'[v] = pc[v] /\ req'[v] = req[v]
      /\ UNCHANGED <<seq, credentials>> /\ pc[w] = "session"
      /\ opened' = opened \cup {o}
  BY FinishEffect DEF OpenSession
<1>2. \A i : Present(i)' <=> Present(i)
  BY <1>1 DEF Present
<1>3. o.id = req[w].id /\ (o.late <=> ~Present(req[w].id))
  BY DEF Present
<1>4. ASSUME NEW i \in 1..seq
      PROVE  IF Present(i)' THEN LateOf(i)' = {}
             ELSE Cardinality(LateOf(i)') + Cardinality(Opening(i)') < Cardinality(Workers)
  <2>1. CASE Present(i)
    <3>1. LateOf(i)' = LateOf(i)
      BY <1>1, <1>3, <2>1 DEF LateOf
    <3> QED BY <1>2, <2>1, <3>1 DEF LateInv
  <2>2. CASE ~Present(i) /\ i = req[w].id
    <3>1. LateOf(i)' = LateOf(i) \cup {o}
      BY <1>1, <1>3, <2>2 DEF LateOf
    <3>2. Opening(i)' = Opening(i) \ {w} /\ w \in Opening(i)
      BY <1>1, <2>2 DEF Opening
    <3> HIDE DEF o
    <3>3. /\ Cardinality(LateOf(i)') \in Nat
          /\ Cardinality(LateOf(i)') <= Cardinality(LateOf(i)) + 1
      <4>1. IsFiniteSet(LateOf(i)) /\ Cardinality(LateOf(i)) \in Nat
        BY LateFinite
      <4>2. /\ IsFiniteSet(LateOf(i) \cup {o})
            /\ \/ Cardinality(LateOf(i) \cup {o}) = Cardinality(LateOf(i))
               \/ Cardinality(LateOf(i) \cup {o}) = Cardinality(LateOf(i)) + 1
        BY <4>1, FS_AddElement
      <4> QED BY <3>1, <4>1, <4>2
    <3>4. Cardinality(Opening(i)') = Cardinality(Opening(i)) - 1
      BY <3>2, LateFinite, FS_RemoveElement
    <3>5. Cardinality(LateOf(i)) + Cardinality(Opening(i)) < Cardinality(Workers)
      BY <2>2 DEF LateInv
    <3> QED BY <1>2, <2>2, <3>3, <3>4, <3>5, LateFinite
  <2>3. CASE ~Present(i) /\ i # req[w].id
    <3>1. LateOf(i)' = LateOf(i)
      BY <1>1, <1>3, <2>3 DEF LateOf
    <3>2. Opening(i)' = Opening(i)
      BY <1>1, <2>3 DEF Opening
    <3> QED BY <1>2, <2>3, <3>1, <3>2 DEF LateInv
  <2> QED BY <2>1, <2>2, <2>3
<1> QED BY <1>1, <1>4 DEF LateInv

-----------------------------------------------------------------------------
(* The inductive invariant.                                                *)

LEMMA InitInv == Init => IInv
<1> SUFFICES ASSUME Init PROVE IInv
  OBVIOUS
<1>1. /\ credentials = {} /\ seq = 0 /\ opened = {} /\ asserted = {}
      /\ pc = [w \in Workers |-> "idle"] /\ req = [w \in Workers |-> NoRequest]
  BY DEF Init
<1>2. IsFiniteSet(opened)
  BY <1>1, FS_EmptySet
<1>3. attested \in [Keys -> {"none", "live", "expired"}] /\ counter \in [Keys -> Nat]
      /\ arrived \in Nat /\ crashes \in Nat
  BY DEF Init
<1>4. pc \in [Workers -> PCs] /\ req \in [Workers -> Request]
      /\ \A w \in Workers : pc[w] = "idle"
  BY <1>1, RequestType DEF PCs
<1>5. TypeOK
  BY <1>1, <1>2, <1>3, <1>4 DEF TypeOK
<1>6. Ids /\ LateInv
  BY <1>1, <1>4 DEF Ids, LateInv
<1> QED BY <1>5, <1>6 DEF IInv

LEMMA StepInv == IInv /\ [Next]_vars => IInv'
<1> SUFFICES ASSUME IInv, [Next]_vars PROVE IInv'
  OBVIOUS
<1>0. TypeOK /\ Ids /\ LateInv
  BY DEF IInv
<1>1. CASE Ceremony
  <2>1. TypeOK' /\ Ids' /\ UNCHANGED <<credentials, seq, opened, pc, req>>
    BY <1>0, <1>1, CeremonyTyped
  <2>2. \A i : Present(i)' <=> Present(i)
    BY <2>1 DEF Present
  <2>3. LateInv'
    BY <1>0, <2>1, <2>2, LateKept
  <2> QED BY <2>1, <2>3 DEF IInv
<1>2. ASSUME NEW w \in Workers, Arrive(w) PROVE IInv'
  BY <1>0, <1>2, ArriveTyped, LateArrive DEF IInv
<1>3. ASSUME NEW w \in Workers, Continue(w) PROVE IInv'
  <2>1. CASE InsertCredential(w)
    BY <1>0, <2>1, InsertTyped, LateInsert DEF IInv
  <2>2. CASE DeleteCredential(w)
    BY <1>0, <2>2, DeleteTyped, LateDelete DEF IInv
  <2>3. CASE StoreCount(w)
    BY <1>0, <2>3, StoreTyped, LateStore DEF IInv
  <2>4. CASE OpenSession(w)
    BY <1>0, <2>4, OpenTyped, LateOpen DEF IInv
  <2> QED BY <1>3, <2>1, <2>2, <2>3, <2>4 DEF Continue
<1>4. ASSUME NEW w \in Workers, Crash(w) PROVE IInv'
  <2>1. Finish(w) /\ UNCHANGED <<credentials, opened, seq>>
    BY <1>4 DEF Crash
  <2> QED BY <1>0, <1>4, <2>1, CrashTyped, LateFinish DEF IInv
<1>5. CASE UNCHANGED vars
  BY <1>0, <1>5 DEF IInv, TypeOK, Ids, LateInv, LateOf, Opening, Present, vars, keys
<1> QED BY <1>1, <1>2, <1>3, <1>4, <1>5 DEF Next

LEMMA Invariance == Spec => []IInv
  BY InitInv, StepInv, PTL DEF Spec

(* The type invariant of webauthn_credentials and of what requests keep:   *)
(* through every race a key has one row and an id one owner.               *)
THEOREM TypeCorrect == Spec => []TypeOK
<1>1. IInv => TypeOK
  BY DEF IInv
<1> QED BY <1>1, Invariance, PTL

(* With N workers a removed key opens at most N - 1 sessions.              *)
THEOREM FewLateKeys == Spec => []LateKeysBounded
<1>1. ASSUME IInv PROVE LateKeysBounded
  <2>1. TypeOK /\ LateInv
    BY <1>1 DEF IInv
  <2>2. ASSUME NEW i \in 1..seq
        PROVE  Cardinality(LateOf(i)) < Cardinality(Workers)
    <3>1. CASE Present(i)
      <4>1. Cardinality(LateOf(i)) = 0
        BY <2>1, <3>1, FS_EmptySet DEF LateInv
      <4>2. Cardinality(Workers) > 0
        BY WorkersAssumption, FS_EmptySet, FS_CardinalityType
      <4> QED BY <4>1, <4>2
    <3>2. CASE ~Present(i)
      <4>1. Cardinality(LateOf(i)) + Cardinality(Opening(i)) < Cardinality(Workers)
        BY <2>1, <3>2 DEF LateInv
      <4> QED BY <2>1, <4>1, LateFinite
    <3> QED BY <3>1, <3>2
  <2> QED BY <2>2 DEF LateKeysBounded, LateOf
<1> QED BY <1>1, Invariance, PTL

-----------------------------------------------------------------------------
(* The counter.                                                            *)

(* No request but one that has just verified a response starts to store a  *)
(* count, and what it stores is above the row's count.                     *)
LEMMA CounterStep ==
  ASSUME TypeOK, Ids, [Next]_vars, NEW i \in 1..seq, NEW c \in 0..MaxCount, HeldAbove(i, c)
  PROVE  /\ HeldAbove(i, c)' \/ \A r \in credentials' : r.id # i
         /\ \A w \in Workers : pc[w] = "idle" /\ pc'[w] = "store" /\ req'[w].id = i
                                  => c < req'[w].count
<1> DEFINE Held == HeldAbove(i, c)' \/ \A r \in credentials' : r.id # i
           Starting == \A w \in Workers : pc[w] = "idle" /\ pc'[w] = "store" /\ req'[w].id = i
                                              => c < req'[w].count
<1>a. PICK p \in credentials : p.id = i /\ c <= p.sign_count
  BY DEF HeldAbove
<1>b. \A w \in Workers : pc[w] = "store" /\ req[w].id = i => c <= req[w].count
  BY DEF HeldAbove
<1>c. c \in Nat /\ p.sign_count \in Nat
  BY BoundsAssumption DEF TypeOK, WebAuthnCredential
<1>d. ASSUME NEW w \in Workers, Finish(w), p \in credentials' \/ \A r \in credentials' : r.id # i
      PROVE  Held /\ Starting
  <2>1. \A v \in Workers : IF v = w THEN pc'[v] = "idle" /\ req'[v] = NoRequest
                           ELSE pc'[v] = pc[v] /\ req'[v] = req[v]
    BY <1>d, FinishEffect
  <2> QED BY <1>a, <1>b, <1>d, <2>1 DEF HeldAbove
<1>1. CASE Ceremony \/ UNCHANGED vars
  <2>1. UNCHANGED <<credentials, pc, req>>
    BY <1>1, CeremonyTyped DEF vars
  <2> QED BY <1>a, <1>b, <2>1 DEF HeldAbove
<1>2. ASSUME NEW w \in Workers, Arrive(w) PROVE Held /\ Starting
  <2>1. PICK step \in PCs \ {"idle", "session"}, r \in Request :
            /\ Accept(w, step, r)
            /\ step = "store" => \E q \in credentials : q.id = r.id /\ q.sign_count < r.count
    BY <1>2, ArriveEffect
  <2>2. /\ \A v \in Workers : IF v = w THEN pc'[v] = step /\ req'[v] = r
                               ELSE pc'[v] = pc[v] /\ req'[v] = req[v]
        /\ UNCHANGED credentials
    BY <2>1, AcceptEffect
  <2>3. step = "store" /\ r.id = i => c < r.count /\ c <= r.count
    <3>1. SUFFICES ASSUME step = "store", r.id = i PROVE c < r.count /\ c <= r.count
      OBVIOUS
    <3>2. PICK q \in credentials : q.id = i /\ q.sign_count < r.count
      BY <2>1, <3>1
    <3>3. q = p
      BY <1>a, <3>2 DEF TypeOK
    <3>4. r.count \in Nat
      BY DEF Request
    <3> QED BY <1>a, <1>c, <3>2, <3>3, <3>4
  <2>4. Starting
    BY <2>2, <2>3
  <2>5. HeldAbove(i, c)'
    BY <1>a, <1>b, <2>2, <2>3 DEF HeldAbove
  <2> QED BY <2>4, <2>5
<1>3. ASSUME NEW w \in Workers, Continue(w) PROVE Held /\ Starting
  <2>1. CASE InsertCredential(w)
    <3>1. Finish(w) /\ credentials \subseteq credentials'
      BY <2>1 DEF InsertCredential
    <3> QED BY <1>d, <3>1
  <2>2. CASE DeleteCredential(w)
    <3>1. Finish(w) /\ credentials' = {r \in credentials : r.id # req[w].id}
      BY <2>2 DEF DeleteCredential
    <3>2. p \in credentials' \/ \A r \in credentials' : r.id # i
      BY <1>a, <3>1
    <3> QED BY <1>d, <3>1, <3>2
  <2>3. CASE StoreCount(w)
    <3>1. /\ pc[w] = "store" /\ pc'[w] \in {"session", "idle"}
          /\ \A v \in Workers \ {w} : pc'[v] = pc[v] /\ req'[v] = req[v]
      BY <2>3, StoreEffect
    <3>2. Counted(p, w) \in credentials'
      BY <2>3 DEF StoreCount
    <3>3. /\ Counted(p, w).id = i
          /\ Counted(p, w).sign_count = IF p.id = req[w].id THEN req[w].count ELSE p.sign_count
      BY <1>a, CountedEffect
    <3>4. c <= Counted(p, w).sign_count
      BY <1>a, <1>b, <3>1, <3>3
    <3>5. HeldAbove(i, c)'
      BY <1>b, <3>1, <3>2, <3>3, <3>4 DEF HeldAbove
    <3> QED BY <3>1, <3>5
  <2>4. CASE OpenSession(w)
    <3>1. Finish(w) /\ UNCHANGED credentials
      BY <2>4 DEF OpenSession
    <3> QED BY <1>d, <3>1
  <2> QED BY <1>3, <2>1, <2>2, <2>3, <2>4 DEF Continue
<1>4. ASSUME NEW w \in Workers, Crash(w) PROVE Held /\ Starting
  BY <1>d, <1>4 DEF Crash
<1> QED BY <1>1, <1>2, <1>3, <1>4 DEF Next

(* The signature counter for any number of workers: once the row and every *)
(* login in flight are at c or above, no response of c or below is         *)
(* accepted for that row again.                                            *)
THEOREM CounterIsHeld == Spec => CounterHolds
<1>1. IInv /\ [Next]_vars =>
        \A i \in 1..seq, c \in 0..MaxCount :
          HeldAbove(i, c) =>
              /\ HeldAbove(i, c)' \/ \A r \in credentials' : r.id # i
              /\ \A w \in Workers : pc[w] = "idle" /\ pc'[w] = "store" /\ req'[w].id = i
                                       => c < req'[w].count
  BY CounterStep DEF IInv
<1> QED BY <1>1, Invariance, PTL DEF Spec, CounterHolds

LEMMA GoneStep ==
  ASSUME TypeOK, Ids, [Next]_vars, NEW k \in Keys, Gone(k)
  PROVE  Gone(k)'
<1>a. /\ attested[k] = "expired" /\ \A r \in credentials : r.key # k
      /\ \A w \in Workers : pc[w] = "insert" => req[w].key # k
  BY DEF Gone, RowOf
<1>b. SUFFICES /\ attested'[k] = "expired" /\ \A r \in credentials' : r.key # k
               /\ \A w \in Workers : pc'[w] = "insert" => req'[w].key # k
  BY DEF Gone, RowOf
<1>c. ASSUME NEW w \in Workers, Finish(w)
      PROVE  \A v \in Workers : pc'[v] = "insert" => req'[v].key # k
  BY <1>a, <1>c, FinishEffect
<1>1. CASE Ceremony
  <2>1. UNCHANGED <<credentials, pc, req>>
    BY <1>1, CeremonyTyped
  <2>2. attested'[k] = "expired"
    BY <1>1, <1>a DEF Ceremony, RegisterBegin, ExpireRegistration, LoginBegin, ExpireLogin, TypeOK
  <2> QED BY <1>a, <2>1, <2>2
<1>2. CASE UNCHANGED vars
  BY <1>2, <1>a DEF vars, keys
<1>3. ASSUME NEW w \in Workers, Arrive(w)
      PROVE  /\ attested'[k] = "expired" /\ \A r \in credentials' : r.key # k
             /\ \A v \in Workers : pc'[v] = "insert" => req'[v].key # k
  <2>1. PICK step \in PCs \ {"idle", "session"}, r \in Request :
            Accept(w, step, r) /\ (step = "insert" => attested[r.key] = "live")
    BY <1>3, ArriveEffect
  <2>2. /\ \A v \in Workers : IF v = w THEN pc'[v] = step /\ req'[v] = r
                               ELSE pc'[v] = pc[v] /\ req'[v] = req[v]
        /\ UNCHANGED <<credentials, keys>>
    BY <2>1, AcceptEffect
  <2>3. step = "insert" => r.key # k
    BY <1>a, <2>1
  <2> QED BY <1>a, <2>2, <2>3 DEF keys
<1>4. ASSUME NEW w \in Workers, Continue(w)
      PROVE  /\ attested'[k] = "expired" /\ \A r \in credentials' : r.key # k
             /\ \A v \in Workers : pc'[v] = "insert" => req'[v].key # k
  <2>1. CASE InsertCredential(w)
    <3>1. req[w].key # k /\ UNCHANGED attested /\ Finish(w)
      BY <1>a, <2>1 DEF InsertCredential, keys
    <3>2. \A r \in credentials' : r.key # k
      BY <1>a, <2>1, <3>1 DEF InsertCredential
    <3> QED BY <1>a, <1>c, <3>1, <3>2
  <2>2. CASE DeleteCredential(w)
    BY <1>a, <1>c, <2>2 DEF DeleteCredential, keys
  <2>3. CASE StoreCount(w)
    <3>1. \A r \in credentials' : r.key # k
      BY <1>a, <2>3, CountedEffect DEF StoreCount
    <3>2. \A v \in Workers : pc'[v] = "insert" => req'[v].key # k
      BY <1>a, <2>3, StoreEffect
    <3> QED BY <1>a, <2>3, <3>1, <3>2 DEF StoreCount, keys
  <2>4. CASE OpenSession(w)
    BY <1>a, <1>c, <2>4 DEF OpenSession, keys
  <2> QED BY <1>4, <2>1, <2>2, <2>3, <2>4 DEF Continue
<1>5. ASSUME NEW w \in Workers, Crash(w)
      PROVE  /\ attested'[k] = "expired" /\ \A r \in credentials' : r.key # k
             /\ \A v \in Workers : pc'[v] = "insert" => req'[v].key # k
  BY <1>a, <1>c, <1>5 DEF Crash, keys
<1> QED BY <1>1, <1>2, <1>3, <1>4, <1>5 DEF Next

(* A key that was removed and whose registration challenge has run out     *)
(* never returns.                                                          *)
THEOREM KeysStayRemoved == Spec => RemovedForGood
<1>1. IInv /\ [Next]_vars => \A k \in Keys : Gone(k) => Gone(k)'
  BY GoneStep DEF IInv
<1> QED BY <1>1, Invariance, PTL DEF Spec, RemovedForGood

=============================================================================
