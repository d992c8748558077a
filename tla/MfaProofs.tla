----------------------------- MODULE MfaProofs -----------------------------
(***************************************************************************)
(* Theorems about Mfa, for any finite set of workers, any number of codes  *)
(* in a list and any number of requests.  The bounds of the races are      *)
(* counts of requests still in flight: SpendInv, ListInv and LateInv say   *)
(* what a request must have read to add one more, and are inductive with   *)
(* TypeOK and InFlight.                                                    *)
(***************************************************************************)
EXTENDS Mfa, TLAPS, FiniteSetTheorems

-----------------------------------------------------------------------------
(* Type correctness.                                                       *)

(* What a handler keeps for its next step.                                 *)
InFlight ==
    /\ \A w \in Workers :
          /\ pc[w] \in {"store", "show"} => req[w].secret \in 1..secrets
          /\ pc[w] = "tell" => req[w].list \in 1..lists
          /\ pc[w] = "spend" => req[w].code \in Code
          /\ req[w].code # None => req[w].code \in Code /\ req[w].code.list <= lists
          /\ \A t \in req[w].targets : t.list <= lists
    /\ \A o \in opened : o.code # None => o.code.list <= lists
    /\ IsFiniteSet(opened)

(* The request a handler starts with, and what becomes of it.              *)
LEMMA RequestType ==
  /\ NoRequest \in Request
  /\ \A s \in Nat : [NoRequest EXCEPT !.secret = s] \in Request
  /\ \A c \in Code : [NoRequest EXCEPT !.code = c] \in Request
  /\ \A r \in Request, t \in SUBSET Code : [r EXCEPT !.targets = t] \in Request
  /\ \A r \in Request, l \in Nat : [r EXCEPT !.list = l] \in Request
  BY DEF NoRequest, Request

(* A request that is accepted takes over an idle worker.                   *)
LEMMA AcceptEffect ==
  ASSUME TypeOK, NEW w \in Workers, NEW step, NEW r, Accept(w, step, r)
  PROVE  /\ pc[w] = "idle"
         /\ \A v \in Workers : IF v = w THEN pc'[v] = step /\ req'[v] = r
                               ELSE pc'[v] = pc[v] /\ req'[v] = req[v]
         /\ step \in PCs => pc' \in [Workers -> PCs]
         /\ r \in Request => req' \in [Workers -> Request]
         /\ arrived' \in Nat
         /\ UNCHANGED <<totp_secret, mfa_enabled, recovery_codes, lists, kept, crashes>>
  BY DEF TypeOK, Accept, Goto

(* A request that ends leaves the worker idle.                             *)
LEMMA FinishEffect ==
  ASSUME TypeOK, NEW w \in Workers, Finish(w)
  PROVE  /\ pc' \in [Workers -> PCs] /\ req' \in [Workers -> Request]
         /\ \A v \in Workers : IF v = w THEN pc'[v] = "idle" /\ req'[v] = NoRequest
                               ELSE pc'[v] = pc[v] /\ req'[v] = req[v]
  BY RequestType DEF TypeOK, Finish, Goto, PCs

(* Nothing is kept of a request that has ended.                            *)
LEMMA NothingKept == /\ NoRequest.code = None /\ NoRequest.targets = {}
                     /\ NoRequest.secret = 0 /\ NoRequest.list = 0
  BY DEF NoRequest

(* Requests that arrive.                                                   *)
LEMMA ArriveTyped ==
  ASSUME TypeOK, InFlight, NEW w \in Workers, Arrive(w)
  PROVE  TypeOK' /\ InFlight'
<1>1. CASE Setup(w)
  <2> DEFINE r == [NoRequest EXCEPT !.secret = secrets + 1]
  <2>1. Accept(w, "store", r) /\ secrets' = secrets + 1
    BY <1>1 DEF Setup
  <2>2. r \in Request /\ r.code = None /\ r.targets = {} /\ r.secret = secrets + 1
    <3>1. secrets + 1 \in Nat
      BY DEF TypeOK
    <3>2. r \in Request
      BY <3>1, RequestType
    <3> QED BY <3>2 DEF NoRequest
  <2> HIDE DEF r
  <2>3. /\ \A v \in Workers : IF v = w THEN pc'[v] = "store" /\ req'[v] = r
                              ELSE pc'[v] = pc[v] /\ req'[v] = req[v]
        /\ pc' \in [Workers -> PCs] /\ req' \in [Workers -> Request] /\ arrived' \in Nat
        /\ UNCHANGED <<totp_secret, mfa_enabled, recovery_codes, lists, kept, crashes>>
    BY <2>1, <2>2, AcceptEffect DEF PCs
  <2>4. secrets' \in Nat /\ 0..secrets \subseteq 0..secrets' /\ 1..secrets \subseteq 1..secrets'
        /\ secrets + 1 \in 1..secrets'
    BY <2>1 DEF TypeOK
  <2>5. TypeOK'
    BY <2>3, <2>4 DEF TypeOK, kept
  <2>6. InFlight'
    BY <2>2, <2>3, <2>4 DEF InFlight, kept
  <2> QED BY <2>5, <2>6
<1>2. ASSUME NEW step \in {"enable", "session", "spend"}, NEW r \in Request,
             Accept(w, step, r), UNCHANGED secrets, r.targets = {},
             step = "spend" => r.code \in Code,
             r.code # None => r.code \in Code /\ r.code.list <= lists
      PROVE  TypeOK' /\ InFlight'
  <2>1. /\ \A v \in Workers : IF v = w THEN pc'[v] = step /\ req'[v] = r
                              ELSE pc'[v] = pc[v] /\ req'[v] = req[v]
        /\ pc' \in [Workers -> PCs] /\ req' \in [Workers -> Request] /\ arrived' \in Nat
        /\ UNCHANGED <<totp_secret, mfa_enabled, recovery_codes, lists, kept, crashes>>
    BY <1>2, AcceptEffect DEF PCs
  <2>2. TypeOK'
    BY <1>2, <2>1 DEF TypeOK, kept
  <2>3. InFlight'
    BY <1>2, <2>1 DEF InFlight, kept
  <2> QED BY <2>2, <2>3
<1>3. CASE Confirm(w)
  BY <1>2, <1>3, RequestType, NothingKept DEF Confirm
<1>4. CASE VerifyTotp(w)
  <2>1. [NoRequest EXCEPT !.secret = totp_secret] \in Request
    BY RequestType DEF TypeOK
  <2>2. /\ [NoRequest EXCEPT !.secret = totp_secret].code = None
        /\ [NoRequest EXCEPT !.secret = totp_secret].targets = {}
    BY DEF NoRequest
  <2> QED BY <1>2, <1>4, <2>1, <2>2 DEF VerifyTotp
<1>5. CASE VerifyRecoveryCode(w)
  <2>1. PICK r \in recovery_codes :
           /\ Accept(w, "spend", [NoRequest EXCEPT !.code = r.code])
           /\ UNCHANGED secrets
    BY <1>5 DEF VerifyRecoveryCode
  <2>2. r.code \in Code /\ r.code.list <= lists
    BY DEF TypeOK, RecoveryCode
  <2>3. /\ [NoRequest EXCEPT !.code = r.code] \in Request
        /\ [NoRequest EXCEPT !.code = r.code].code = r.code
        /\ [NoRequest EXCEPT !.code = r.code].targets = {}
    BY <2>2, RequestType DEF NoRequest
  <2> QED BY <1>2, <2>1, <2>2, <2>3
<1> QED BY <1>1, <1>3, <1>4, <1>5 DEF Arrive

(* A step that ends a request without touching the rows or the counters.   *)
LEMMA FinishTyped ==
  ASSUME TypeOK, InFlight, NEW w \in Workers, Finish(w),
         UNCHANGED <<totp_secret, mfa_enabled, recovery_codes, secrets, lists, arrived>>,
         crashes' \in Nat, shown' \subseteq 1..secrets, told' \subseteq Code,
         opened' \subseteq Opened, IsFiniteSet(opened'),
         \A o \in opened' : o.code # None => o.code.list <= lists
  PROVE  TypeOK' /\ InFlight'
<1>1. /\ pc' \in [Workers -> PCs] /\ req' \in [Workers -> Request]
      /\ \A v \in Workers : IF v = w THEN pc'[v] = "idle" /\ req'[v] = NoRequest
                            ELSE pc'[v] = pc[v] /\ req'[v] = req[v]
  BY FinishEffect
<1>2. TypeOK'
  BY <1>1 DEF TypeOK
<1>3. InFlight'
  BY <1>1, NothingKept DEF InFlight
<1> QED BY <1>2, <1>3

(* A step that carries a request on without touching the recovery codes.   *)
LEMMA GotoTyped ==
  ASSUME TypeOK, InFlight, NEW w \in Workers, NEW step \in PCs, Goto(w, step),
         step \notin {"tell", "spend"},
         step \in {"store", "show"} => pc[w] \in {"store", "show"},
         totp_secret' \in 0..secrets, mfa_enabled' \in BOOLEAN,
         UNCHANGED <<recovery_codes, secrets, lists, kept, req, arrived, crashes>>
  PROVE  TypeOK' /\ InFlight'
<1>1. /\ pc' \in [Workers -> PCs]
      /\ \A v \in Workers : pc'[v] = IF v = w THEN step ELSE pc[v]
  BY DEF TypeOK, Goto
<1>2. TypeOK'
  BY <1>1 DEF TypeOK, kept
<1>3. InFlight'
  BY <1>1 DEF InFlight, kept
<1> QED BY <1>2, <1>3

(* The rows after MarkUsed are those before it, some of them marked.       *)
LEMMA MarkEffect ==
  ASSUME TypeOK, NEW c, MarkUsed(c)
  PROVE  /\ \A r \in recovery_codes : \E m \in recovery_codes' :
               m.code = r.code /\ (m.used <=> r.used \/ r.code = c)
         /\ \A m \in recovery_codes' : m \in RecoveryCode /\ \E r \in recovery_codes :
               m.code = r.code /\ (m.used <=> r.used \/ r.code = c)
         /\ \A q, m \in recovery_codes' : q.code = m.code => q = m
<1> DEFINE mark(r) == [r EXCEPT !.used = @ \/ r.code = c]
<1>1. ASSUME NEW r \in recovery_codes
      PROVE  /\ mark(r) \in RecoveryCode /\ mark(r).code = r.code
             /\ mark(r).used <=> r.used \/ r.code = c
  <2>1. PICK b \in BOOLEAN : b = (r.used \/ r.code = c)
    OBVIOUS
  <2>2. mark(r) = [r EXCEPT !.used = b]
    BY <2>1 DEF TypeOK, RecoveryCode
  <2> QED BY <2>1, <2>2 DEF TypeOK, RecoveryCode
<1>2. recovery_codes' = {mark(r) : r \in recovery_codes}
  BY DEF MarkUsed
<1>3. \A q, r \in recovery_codes : q.code = r.code => q = r
  BY DEF TypeOK
<1> HIDE DEF mark
<1>4. \A q, m \in recovery_codes' : q.code = m.code => q = m
  BY <1>1, <1>2, <1>3
<1> QED BY <1>1, <1>2, <1>4

(* The rows after InsertCodes: those its DELETE did not find, and new ones *)
(* of a list that is later than any before.                                *)
LEMMA InsertEffect ==
  ASSUME TypeOK, NEW w \in Workers, InsertCodes(w)
  PROVE  /\ \A r \in recovery_codes' :
               \/ r \in recovery_codes /\ r.code \notin req[w].targets
               \/ r.code \in Code /\ r.code.list = lists + 1 /\ ~r.used
         /\ \A r \in recovery_codes : r.code \notin req[w].targets => r \in recovery_codes'
         /\ \E r \in recovery_codes' : r.code.list = lists + 1
         /\ recovery_codes' \subseteq RecoveryCode
         /\ \A q, r \in recovery_codes' : q.code = r.code => q = r
<1> DEFINE new(i) == [code |-> [list |-> lists + 1, nth |-> i], used |-> FALSE]
<1>1. \A i \in 1..CodeCount : /\ new(i) \in RecoveryCode /\ new(i).code.list = lists + 1
                              /\ new(i).code.nth = i /\ ~new(i).used
  BY CountAssumption DEF TypeOK, RecoveryCode, Code
<1>2. recovery_codes' = {r \in recovery_codes : r.code \notin req[w].targets}
                        \cup {new(i) : i \in 1..CodeCount}
  BY DEF InsertCodes
<1>3. 1 \in 1..CodeCount
  BY CountAssumption
<1>4. \A r \in recovery_codes : r \in RecoveryCode /\ r.code \in Code /\ r.code.list <= lists
  BY DEF TypeOK, RecoveryCode
<1>5. lists \in Nat /\ \A q, r \in recovery_codes : q.code = r.code => q = r
  BY DEF TypeOK
<1>6. \A r \in RecoveryCode : r.code \in Code /\ r.code.list \in Nat
  BY DEF RecoveryCode, Code
<1>7. \A i \in 1..CodeCount, r \in recovery_codes : new(i).code # r.code
  BY <1>1, <1>4, <1>5, <1>6
<1> HIDE DEF new
<1>8. \A i, k \in 1..CodeCount : new(i).code = new(k).code => i = k
  BY <1>1
<1>9. \A q, r \in recovery_codes' : q.code = r.code => q = r
  BY <1>2, <1>5, <1>7, <1>8
<1>10. recovery_codes' \subseteq RecoveryCode
  BY <1>1, <1>2, <1>4
<1> QED BY <1>1, <1>2, <1>3, <1>6, <1>9, <1>10

(* The steps of a request that has started.                                *)
LEMMA ContinueTyped ==
  ASSUME TypeOK, InFlight, NEW w \in Workers, Continue(w)
  PROVE  TypeOK' /\ InFlight'
<1>1. CASE StoreSecret(w)
  <2>1. req[w].secret \in 0..secrets /\ "show" \in PCs /\ mfa_enabled' \in BOOLEAN
    BY <1>1 DEF StoreSecret, TypeOK, InFlight, PCs
  <2> QED BY <1>1, <2>1, GotoTyped DEF StoreSecret
<1>2. CASE ShowSecret(w)
  <2>1. shown' \subseteq 1..secrets /\ crashes' \in Nat /\ told' \subseteq Code
    BY <1>2 DEF ShowSecret, TypeOK, InFlight
  <2>2. /\ opened' \subseteq Opened /\ IsFiniteSet(opened')
        /\ \A o \in opened' : o.code # None => o.code.list <= lists
    BY <1>2 DEF ShowSecret, TypeOK, InFlight
  <2> QED BY <1>2, <2>1, <2>2, FinishTyped DEF ShowSecret
<1>3. CASE Enable(w)
  <2>1. totp_secret' \in 0..secrets /\ "delete" \in PCs
    BY <1>3 DEF Enable, TypeOK, PCs
  <2> QED BY <1>3, <2>1, GotoTyped DEF Enable
<1>4. CASE DeleteCodes(w)
  <2>1. /\ pc' \in [Workers -> PCs]
        /\ \A v \in Workers : pc'[v] = IF v = w THEN "lock" ELSE pc[v]
    BY <1>4 DEF DeleteCodes, Goto, TypeOK, PCs
  <2> DEFINE t == {r.code : r \in recovery_codes}
  <2>2. t \in SUBSET Code /\ \A k \in t : k.list <= lists
    BY DEF TypeOK, RecoveryCode
  <2>3. req' = [req EXCEPT ![w] = [req[w] EXCEPT !.targets = t]]
    BY <1>4 DEF DeleteCodes
  <2> HIDE DEF t
  <2>4. [req[w] EXCEPT !.targets = t] \in Request
    BY <2>2, RequestType DEF TypeOK
  <2>5. /\ req' \in [Workers -> Request]
        /\ \A v \in Workers : /\ v # w => req'[v] = req[v]
                              /\ v = w => /\ req'[v].targets = t
                                          /\ req'[v].code = req[v].code
                                          /\ req'[v].secret = req[v].secret
                                          /\ req'[v].list = req[v].list
    BY <2>3, <2>4 DEF TypeOK, Request
  <2>6. TypeOK'
    BY <1>4, <2>1, <2>5 DEF DeleteCodes, TypeOK, kept
  <2>7. InFlight'
    BY <1>4, <2>1, <2>2, <2>5 DEF DeleteCodes, InFlight, kept
  <2> QED BY <2>6, <2>7
<1>5. CASE LockCodes(w)
  <2>1. totp_secret' \in 0..secrets /\ "insert" \in PCs /\ mfa_enabled' \in BOOLEAN
    BY <1>5 DEF LockCodes, TypeOK, PCs
  <2> QED BY <1>5, <2>1, GotoTyped DEF LockCodes
<1>6. CASE InsertCodes(w)
  <2>1. /\ pc' \in [Workers -> PCs]
        /\ \A v \in Workers : pc'[v] = IF v = w THEN "tell" ELSE pc[v]
    BY <1>6 DEF InsertCodes, Goto, TypeOK, PCs
  <2>2. lists' = lists + 1 /\ lists' \in Nat /\ lists' \in 1..lists'
    BY <1>6 DEF InsertCodes, TypeOK
  <2>3. req' = [req EXCEPT ![w] = [req[w] EXCEPT !.list = lists']]
    BY <1>6, <2>2 DEF InsertCodes
  <2>4. [req[w] EXCEPT !.list = lists'] \in Request
    BY <2>2, RequestType DEF TypeOK
  <2>5. /\ req' \in [Workers -> Request]
        /\ \A v \in Workers : /\ v # w => req'[v] = req[v]
                              /\ v = w => /\ req'[v].targets = req[v].targets
                                          /\ req'[v].code = req[v].code
                                          /\ req'[v].secret = req[v].secret
                                          /\ req'[v].list = lists'
    BY <2>3, <2>4 DEF TypeOK, Request
  <2>6. \A r \in recovery_codes' : r.code.list <= lists'
    <3>1. \A r \in recovery_codes' : r.code.list = lists' \/ r \in recovery_codes
      BY <1>6, <2>2, InsertEffect
    <3>2. \A r \in recovery_codes : r.code.list \in Nat /\ r.code.list <= lists
      BY DEF TypeOK, RecoveryCode, Code
    <3> QED BY <2>2, <3>1, <3>2 DEF TypeOK
  <2>7. /\ recovery_codes' \subseteq RecoveryCode
        /\ \A q, r \in recovery_codes' : q.code = r.code => q = r
    BY <1>6, InsertEffect
  <2>8. TypeOK'
    BY <1>6, <2>1, <2>2, <2>5, <2>6, <2>7 DEF InsertCodes, TypeOK, kept
  <2>9. InFlight'
    <3>1. \A v \in Workers : /\ pc'[v] \in {"store", "show"} => req'[v].secret \in 1..secrets'
                             /\ pc'[v] = "spend" => req'[v].code \in Code
      BY <1>6, <2>1, <2>5 DEF InsertCodes, InFlight
    <3>2. \A v \in Workers : pc'[v] = "tell" => req'[v].list \in 1..lists'
      <4>1. 1..lists \subseteq 1..lists'
        BY <2>2 DEF TypeOK
      <4> QED BY <2>1, <2>2, <2>5, <4>1 DEF InFlight
    <3>3. \A k \in Code : k.list <= lists => k.list <= lists'
      BY <2>2 DEF Code, TypeOK
    <3>4. \A v \in Workers :
             req'[v].code # None => req'[v].code \in Code /\ req'[v].code.list <= lists'
      BY <2>5, <3>3 DEF InFlight
    <3>5. \A v \in Workers : \A t \in req'[v].targets : t.list <= lists'
      <4>1. \A v \in Workers : req'[v].targets = req[v].targets /\ req[v].targets \subseteq Code
        BY <2>5 DEF TypeOK, Request
      <4> QED BY <3>3, <4>1 DEF InFlight
    <3>6. \A o \in opened : o.code # None => o.code.list <= lists'
      BY <3>3 DEF InFlight, TypeOK, Opened
    <3>7. opened' = opened
      BY <1>6 DEF InsertCodes, kept
    <3> QED BY <3>1, <3>2, <3>4, <3>5, <3>6, <3>7 DEF InFlight
  <2> QED BY <2>8, <2>9
<1>7. CASE ShowCodes(w)
  <2>1. req[w].list \in Nat \ {0}
    BY <1>7 DEF ShowCodes, InFlight, TypeOK
  <2>2. shown' \subseteq 1..secrets /\ crashes' \in Nat /\ told' \subseteq Code
    BY <1>7, <2>1 DEF ShowCodes, TypeOK, Code
  <2>3. /\ opened' \subseteq Opened /\ IsFiniteSet(opened')
        /\ \A o \in opened' : o.code # None => o.code.list <= lists
    BY <1>7 DEF ShowCodes, TypeOK, InFlight
  <2> QED BY <1>7, <2>2, <2>3, FinishTyped DEF ShowCodes
<1>8. CASE SpendCode(w)
  <2>1. CASE Finish(w) /\ UNCHANGED recovery_codes
    <3>1. /\ shown' \subseteq 1..secrets /\ crashes' \in Nat /\ told' \subseteq Code
          /\ opened' \subseteq Opened /\ IsFiniteSet(opened')
          /\ \A o \in opened' : o.code # None => o.code.list <= lists
      BY <1>8 DEF SpendCode, TypeOK, InFlight, kept
    <3> QED BY <1>8, <2>1, <3>1, FinishTyped DEF SpendCode
  <2>2. CASE MarkUsed(req[w].code) /\ Goto(w, "session") /\ UNCHANGED req
    <3>1. /\ pc' \in [Workers -> PCs]
          /\ \A v \in Workers : pc'[v] = IF v = w THEN "session" ELSE pc[v]
      BY <2>2 DEF Goto, TypeOK, PCs
    <3>2. /\ recovery_codes' \subseteq RecoveryCode
          /\ \A q, r \in recovery_codes' : q.code = r.code => q = r
          /\ \A r \in recovery_codes' : r.code.list <= lists
      BY <2>2, MarkEffect DEF TypeOK
    <3>3. TypeOK'
      BY <1>8, <2>2, <3>1, <3>2 DEF SpendCode, TypeOK, kept
    <3>4. InFlight'
      BY <1>8, <2>2, <3>1 DEF SpendCode, InFlight, kept
    <3> QED BY <3>3, <3>4
  <2> QED BY <1>8, <2>1, <2>2 DEF SpendCode
<1>9. CASE OpenSession(w)
  <2> DEFINE o == [secret |-> req[w].secret, code |-> req[w].code,
                   nth |-> Cardinality(opened) + 1,
                   late |-> req[w].code = None /\ req[w].secret # totp_secret]
  <2>1. opened' = opened \cup {o}
    BY <1>9 DEF OpenSession
  <2>2. Cardinality(opened) + 1 \in Nat
    BY FS_CardinalityType DEF InFlight
  <2>3. o \in Opened /\ o.code = req[w].code
    BY <2>2 DEF Opened, TypeOK, Request
  <2>4. o.code # None => o.code.list <= lists
    BY <2>3 DEF InFlight
  <2> HIDE DEF o
  <2>5. shown' \subseteq 1..secrets /\ crashes' \in Nat /\ told' \subseteq Code
    BY <1>9 DEF OpenSession, TypeOK
  <2>6. opened' \subseteq Opened /\ IsFiniteSet(opened')
    BY <2>1, <2>3, FS_AddElement DEF TypeOK, InFlight
  <2>7. \A p \in opened' : p.code # None => p.code.list <= lists
    BY <2>1, <2>4 DEF InFlight
  <2> QED BY <1>9, <2>5, <2>6, <2>7, FinishTyped DEF OpenSession
<1> QED BY <1>1, <1>2, <1>3, <1>4, <1>5, <1>6, <1>7, <1>8, <1>9 DEF Continue

-----------------------------------------------------------------------------
(* How often a recovery code is spent.                                     *)

(* The sessions a recovery code has opened, and the requests that still    *)
(* may open one with it.                                                   *)
OpenedBy(c) == {o \in opened : o.code = c}
Holders(c) == {w \in Workers : pc[w] \in {"spend", "session"} /\ req[w].code = c}

(* An unused code has opened nothing, and nobody has marked it; so all who *)
(* hold a code when it first opens a session are workers of that moment.   *)
SpendInv ==
    \A c \in Code \ {None} :
        /\ Cardinality(OpenedBy(c)) + Cardinality(Holders(c)) <= Cardinality(Workers)
        /\ (\E r \in recovery_codes : r.code = c /\ ~r.used) =>
              /\ OpenedBy(c) = {}
              /\ \A w \in Workers : ~(pc[w] = "session" /\ req[w].code = c)

(* The sets that are counted are finite.                                   *)
LEMMA SpendFinite ==
  ASSUME InFlight, NEW c
  PROVE  /\ IsFiniteSet(OpenedBy(c)) /\ IsFiniteSet(Holders(c))
         /\ Cardinality(OpenedBy(c)) \in Nat /\ Cardinality(Holders(c)) \in Nat
         /\ Cardinality(Workers) \in Nat
<1>1. OpenedBy(c) \subseteq opened /\ Holders(c) \subseteq Workers
  BY DEF OpenedBy, Holders
<1> QED BY <1>1, WorkersAssumption, FS_Subset, FS_CardinalityType DEF InFlight

(* A step that opens nothing, frees no code and lets no further request    *)
(* hold or mark one keeps the bound.                                       *)
LEMMA SpendKept ==
  ASSUME InFlight, SpendInv, opened' = opened,
         \A c \in Code \ {None} : Holders(c)' \subseteq Holders(c),
         \A r \in recovery_codes' : ~r.used /\ r.code # None =>
            \/ r \in recovery_codes
               /\ \A w \in Workers : pc'[w] = "session" /\ req'[w].code = r.code =>
                                     pc[w] = "session" /\ req[w].code = r.code
            \/ OpenedBy(r.code) = {} /\ Holders(r.code) = {}
  PROVE  SpendInv'
<1> SUFFICES ASSUME NEW c \in Code \ {None}
    PROVE  /\ Cardinality(OpenedBy(c)') + Cardinality(Holders(c)') <= Cardinality(Workers)
           /\ (\E r \in recovery_codes' : r.code = c /\ ~r.used) =>
                 /\ OpenedBy(c)' = {}
                 /\ \A w \in Workers : ~(pc'[w] = "session" /\ req'[w].code = c)
  BY DEF SpendInv
<1>1. OpenedBy(c)' = OpenedBy(c)
  BY DEF OpenedBy
<1>2. Cardinality(OpenedBy(c)) + Cardinality(Holders(c)) <= Cardinality(Workers)
  BY DEF SpendInv
<1>3. Holders(c)' \subseteq Holders(c)
  OBVIOUS
<1>4. Cardinality(Holders(c)') <= Cardinality(Holders(c)) /\ Cardinality(Holders(c)') \in Nat
  BY <1>3, SpendFinite, FS_Subset, FS_CardinalityType
<1>5. Cardinality(OpenedBy(c)') + Cardinality(Holders(c)') <= Cardinality(Workers)
  BY <1>1, <1>2, <1>4, SpendFinite
<1>6. ASSUME NEW r \in recovery_codes', r.code = c, ~r.used
      PROVE  /\ OpenedBy(c)' = {}
             /\ \A w \in Workers : ~(pc'[w] = "session" /\ req'[w].code = c)
  <2>1. CASE r \in recovery_codes
               /\ \A w \in Workers : pc'[w] = "session" /\ req'[w].code = r.code =>
                                     pc[w] = "session" /\ req[w].code = r.code
    BY <1>1, <1>6, <2>1 DEF SpendInv
  <2>2. CASE OpenedBy(r.code) = {} /\ Holders(r.code) = {}
    BY <1>1, <1>3, <1>6, <2>2 DEF Holders
  <2> QED BY <1>6, <2>1, <2>2
<1> QED BY <1>5, <1>6

(* A request takes up a code only while it is unused.                      *)
LEMMA SpendArrive ==
  ASSUME TypeOK, InFlight, SpendInv, NEW w \in Workers, Arrive(w)
  PROVE  SpendInv'
<1>1. UNCHANGED <<recovery_codes, opened>>
  BY DEF Arrive, Setup, Confirm, VerifyTotp, VerifyRecoveryCode, Accept, kept
<1>2. CASE VerifyRecoveryCode(w)
  <2>1. PICK r \in recovery_codes :
           ~r.used /\ Accept(w, "spend", [NoRequest EXCEPT !.code = r.code])
    BY <1>2 DEF VerifyRecoveryCode
  <2>2. r.code \in Code
    BY DEF TypeOK, RecoveryCode
  <2>3. PICK q : q.code = r.code /\ Accept(w, "spend", q)
    BY <2>1 DEF NoRequest
  <2>4. \A v \in Workers : IF v = w THEN pc'[v] = "spend" /\ req'[v].code = r.code
                           ELSE pc'[v] = pc[v] /\ req'[v] = req[v]
    BY <2>1, <2>3, AcceptEffect
  <2>5. pc[w] = "idle"
    BY <2>1 DEF Accept
  <2> SUFFICES ASSUME NEW c \in Code \ {None}
      PROVE  /\ Cardinality(OpenedBy(c)') + Cardinality(Holders(c)') <= Cardinality(Workers)
             /\ (\E m \in recovery_codes' : m.code = c /\ ~m.used) =>
                   /\ OpenedBy(c)' = {}
                   /\ \A v \in Workers : ~(pc'[v] = "session" /\ req'[v].code = c)
    BY DEF SpendInv
  <2>6. OpenedBy(c)' = OpenedBy(c)
    BY <1>1 DEF OpenedBy
  <2>7. CASE c # r.code
    <3>1. Holders(c)' = Holders(c)
      BY <2>4, <2>5, <2>7 DEF Holders
    <3> QED BY <1>1, <2>4, <2>6, <3>1 DEF SpendInv
  <2>8. CASE c = r.code
    <3>1. OpenedBy(c) = {} /\ \A v \in Workers : ~(pc[v] = "session" /\ req[v].code = c)
      BY <2>1, <2>8 DEF SpendInv
    <3>2. Holders(c)' \subseteq Workers
      BY DEF Holders
    <3>3. Cardinality(Holders(c)') <= Cardinality(Workers) /\ Cardinality(Holders(c)') \in Nat
      BY <3>2, WorkersAssumption, FS_Subset, FS_CardinalityType
    <3>4. Cardinality(OpenedBy(c)') = 0
      BY <2>6, <3>1, FS_EmptySet
    <3> QED BY <2>4, <2>6, <3>1, <3>3, <3>4, SpendFinite
  <2> QED BY <2>7, <2>8
<1>3. CASE Setup(w) \/ Confirm(w) \/ VerifyTotp(w)
  <2>1. PICK step, r : step \in PCs /\ Accept(w, step, r) /\ r.code = None
    BY <1>3 DEF Setup, Confirm, VerifyTotp, NoRequest, PCs
  <2>2. \A v \in Workers : IF v = w THEN pc'[v] = step /\ req'[v] = r
                           ELSE pc'[v] = pc[v] /\ req'[v] = req[v]
    BY <2>1, AcceptEffect
  <2>3. \A c \in Code \ {None} : Holders(c)' \subseteq Holders(c)
    BY <2>1, <2>2 DEF Holders
  <2>4. ASSUME NEW q \in recovery_codes', ~q.used, q.code # None, NEW v \in Workers,
               pc'[v] = "session" /\ req'[v].code = q.code
        PROVE  pc[v] = "session" /\ req[v].code = q.code
    BY <2>1, <2>2, <2>4
  <2> QED BY <1>1, <2>3, <2>4, SpendKept
<1> QED BY <1>2, <1>3 DEF Arrive

(* A step of a request that has started: SpendCode marks every row of the  *)
(* code, OpenSession turns a holder into a session, and the codes of a new *)
(* list have never been held.                                              *)
LEMMA SpendContinue ==
  ASSUME TypeOK, InFlight, SpendInv, NEW w \in Workers, Continue(w)
  PROVE  SpendInv'
<1>1. ASSUME NEW step \in {"show", "delete", "lock", "insert"}, Goto(w, step),
             UNCHANGED <<recovery_codes, opened>>,
             \A v \in Workers : req'[v].code = req[v].code
      PROVE  SpendInv'
  <2>1. \A v \in Workers : pc'[v] = IF v = w THEN step ELSE pc[v]
    BY <1>1 DEF Goto, TypeOK
  <2>2. \A c \in Code \ {None} : Holders(c)' \subseteq Holders(c)
    BY <1>1, <2>1 DEF Holders
  <2> QED BY <1>1, <2>1, <2>2, SpendKept
<1>2. ASSUME Finish(w), UNCHANGED <<recovery_codes, opened>> PROVE SpendInv'
  <2>1. \A v \in Workers : IF v = w THEN pc'[v] = "idle" ELSE pc'[v] = pc[v] /\ req'[v] = req[v]
    BY <1>2, FinishEffect
  <2>2. \A c \in Code \ {None} : Holders(c)' \subseteq Holders(c)
    BY <2>1 DEF Holders
  <2> QED BY <1>2, <2>1, <2>2, SpendKept
<1>3. CASE StoreSecret(w) \/ Enable(w) \/ LockCodes(w)
  BY <1>1, <1>3 DEF StoreSecret, Enable, LockCodes, kept
<1>4. CASE DeleteCodes(w)
  <2>1. \A v \in Workers : req'[v].code = req[v].code
    BY <1>4 DEF DeleteCodes, TypeOK, Request
  <2> QED BY <1>1, <1>4, <2>1 DEF DeleteCodes, kept
<1>5. CASE ShowSecret(w) \/ ShowCodes(w)
  BY <1>2, <1>5 DEF ShowSecret, ShowCodes
<1>6. CASE InsertCodes(w)
  <2>1. \A v \in Workers : pc'[v] = IF v = w THEN "tell" ELSE pc[v]
    BY <1>6 DEF InsertCodes, Goto, TypeOK
  <2>2. \A v \in Workers : req'[v].code = req[v].code
    BY <1>6 DEF InsertCodes, TypeOK, Request
  <2>3. opened' = opened
    BY <1>6 DEF InsertCodes, kept
  <2>4. \A c \in Code \ {None} : Holders(c)' \subseteq Holders(c)
    BY <2>1, <2>2 DEF Holders
  <2>5. ASSUME NEW c \in Code, c.list = lists + 1, c # None
        PROVE  OpenedBy(c) = {} /\ Holders(c) = {}
    <3>1. lists \in Nat /\ ~(c.list <= lists)
      BY <2>5 DEF TypeOK
    <3> QED BY <2>5, <3>1 DEF OpenedBy, Holders, InFlight
  <2>6. \A r \in recovery_codes' : \/ r \in recovery_codes
                                   \/ r.code \in Code /\ r.code.list = lists + 1
    BY <1>6, InsertEffect
  <2> QED BY <2>1, <2>2, <2>3, <2>4, <2>5, <2>6, SpendKept
<1>7. CASE SpendCode(w)
  <2>1. CASE Finish(w) /\ UNCHANGED recovery_codes
    BY <1>2, <1>7, <2>1 DEF SpendCode, kept
  <2>2. CASE MarkUsed(req[w].code) /\ Goto(w, "session") /\ UNCHANGED req
    <3>1. \A v \in Workers : pc'[v] = IF v = w THEN "session" ELSE pc[v]
      BY <2>2 DEF Goto, TypeOK
    <3>2. opened' = opened /\ pc[w] = "spend"
      BY <1>7 DEF SpendCode, kept
    <3> SUFFICES ASSUME NEW c \in Code \ {None}
        PROVE  /\ Cardinality(OpenedBy(c)') + Cardinality(Holders(c)') <= Cardinality(Workers)
               /\ (\E r \in recovery_codes' : r.code = c /\ ~r.used) =>
                     /\ OpenedBy(c)' = {}
                     /\ \A v \in Workers : ~(pc'[v] = "session" /\ req'[v].code = c)
      BY DEF SpendInv
    <3>3. OpenedBy(c)' = OpenedBy(c)
      BY <3>2 DEF OpenedBy
    <3>4. Holders(c)' = Holders(c)
      BY <2>2, <3>1, <3>2 DEF Holders
    <3>5. ASSUME NEW m \in recovery_codes', m.code = c, ~m.used
          PROVE  c # req[w].code /\ \E r \in recovery_codes : r.code = c /\ ~r.used
      BY <2>2, <3>5, MarkEffect
    <3> QED BY <2>2, <3>1, <3>3, <3>4, <3>5 DEF SpendInv
  <2> QED BY <1>7, <2>1, <2>2 DEF SpendCode
<1>8. CASE OpenSession(w)
  <2>1. PICK o : opened' = opened \cup {o} /\ o.code = req[w].code
    <3> DEFINE o == [secret |-> req[w].secret, code |-> req[w].code,
                     nth |-> Cardinality(opened) + 1,
                     late |-> req[w].code = None /\ req[w].secret # totp_secret]
    <3>1. opened' = opened \cup {o}
      BY <1>8 DEF OpenSession
    <3>2. o.code = req[w].code
      OBVIOUS
    <3> QED BY <3>1, <3>2
  <2>2. \A v \in Workers : IF v = w THEN pc'[v] = "idle" ELSE pc'[v] = pc[v] /\ req'[v] = req[v]
    BY <1>8, FinishEffect DEF OpenSession
  <2>3. pc[w] = "session" /\ recovery_codes' = recovery_codes
    BY <1>8 DEF OpenSession
  <2> SUFFICES ASSUME NEW c \in Code \ {None}
      PROVE  /\ Cardinality(OpenedBy(c)') + Cardinality(Holders(c)') <= Cardinality(Workers)
             /\ (\E r \in recovery_codes' : r.code = c /\ ~r.used) =>
                   /\ OpenedBy(c)' = {}
                   /\ \A v \in Workers : ~(pc'[v] = "session" /\ req'[v].code = c)
    BY DEF SpendInv
  <2>4. CASE c # req[w].code
    <3>1. OpenedBy(c)' = OpenedBy(c)
      BY <2>1, <2>4 DEF OpenedBy
    <3>2. Holders(c)' = Holders(c)
      BY <2>2, <2>4 DEF Holders
    <3> QED BY <2>2, <2>3, <3>1, <3>2 DEF SpendInv
  <2>5. CASE c = req[w].code
    <3>1. OpenedBy(c)' \subseteq OpenedBy(c) \cup {o}
      BY <2>1 DEF OpenedBy
    <3>2. Cardinality(OpenedBy(c)') <= Cardinality(OpenedBy(c)) + 1
          /\ Cardinality(OpenedBy(c)') \in Nat
      <4>1. /\ IsFiniteSet(OpenedBy(c) \cup {o})
            /\ Cardinality(OpenedBy(c) \cup {o}) <= Cardinality(OpenedBy(c)) + 1
            /\ Cardinality(OpenedBy(c) \cup {o}) \in Nat
        <5>1. /\ IsFiniteSet(OpenedBy(c)) /\ Cardinality(OpenedBy(c)) \in Nat
          BY SpendFinite
        <5>2. /\ IsFiniteSet(OpenedBy(c) \cup {o})
              /\ Cardinality(OpenedBy(c) \cup {o}) =
                 IF o \in OpenedBy(c) THEN Cardinality(OpenedBy(c))
                 ELSE Cardinality(OpenedBy(c)) + 1
          BY <5>1, FS_AddElement
        <5> QED BY <5>1, <5>2
      <4>2. /\ Cardinality(OpenedBy(c)') <= Cardinality(OpenedBy(c) \cup {o})
            /\ Cardinality(OpenedBy(c)') \in Nat
        BY <3>1, <4>1, FS_Subset, FS_CardinalityType
      <4> QED BY <4>1, <4>2, SpendFinite
    <3>3. Holders(c)' = Holders(c) \ {w} /\ w \in Holders(c)
      BY <2>2, <2>3, <2>5 DEF Holders
    <3>4. Cardinality(Holders(c)') = Cardinality(Holders(c)) - 1
      BY <3>3, SpendFinite, FS_RemoveElement
    <3>5. Cardinality(OpenedBy(c)') + Cardinality(Holders(c)') <= Cardinality(Workers)
      <4>1. Cardinality(OpenedBy(c)) + Cardinality(Holders(c)) <= Cardinality(Workers)
        BY DEF SpendInv
      <4> QED BY <3>2, <3>4, <4>1, SpendFinite
    <3>6. ~\E r \in recovery_codes' : r.code = c /\ ~r.used
      BY <2>3, <2>5 DEF SpendInv
    <3> QED BY <3>5, <3>6
  <2> QED BY <2>4, <2>5
<1> QED BY <1>3, <1>4, <1>5, <1>6, <1>7, <1>8 DEF Continue

-----------------------------------------------------------------------------
(* How many lists of recovery codes live side by side.                     *)

(* The lists that have rows, those that have and are not older than l, and *)
(* the confirmations whose DELETE has missed the list l.                   *)
Live == {r.code.list : r \in recovery_codes}
Since(l) == {k \in Live : l <= k}
Deleting == {w \in Workers : pc[w] \in {"lock", "insert"}}
Missed(l) == {w \in Deleting : \A t \in req[w].targets : t.list # l}

(* A DELETE finds a whole list or nothing of it, so whoever adds a list    *)
(* next to l has missed l. That every set of lists has an oldest one holds *)
(* for finite sets of numbers; here it is kept as the lists come and go.   *)
ListInv ==
    /\ \A w \in Deleting : \A r \in recovery_codes, t \in req[w].targets :
          t.list = r.code.list => r.code \in req[w].targets
    /\ \A S \in SUBSET Live : S # {} => \E l \in S : \A k \in S : l <= k
    /\ \A l \in Live : Cardinality(Since(l)) + Cardinality(Missed(l)) <= Cardinality(Workers)

(* The sets that are counted are finite.                                   *)
LEMMA ListFinite ==
  ASSUME TypeOK, NEW l
  PROVE  /\ IsFiniteSet(Live) /\ Cardinality(Live) \in Nat
         /\ IsFiniteSet(Since(l)) /\ Cardinality(Since(l)) \in Nat
         /\ IsFiniteSet(Missed(l)) /\ Cardinality(Missed(l)) \in Nat
         /\ Cardinality(Workers) \in Nat
<1>1. Live \subseteq 1..lists
  <2>1. \A r \in recovery_codes : r.code.list \in Nat \ {0} /\ r.code.list <= lists
    BY DEF TypeOK, RecoveryCode, Code
  <2> QED BY <2>1 DEF Live, TypeOK
<1>2. IsFiniteSet(1..lists)
  BY FS_Interval DEF TypeOK
<1>3. IsFiniteSet(Live)
  BY <1>1, <1>2, FS_Subset
<1>4. Since(l) \subseteq Live /\ Missed(l) \subseteq Workers
  BY DEF Since, Missed, Deleting
<1> QED BY <1>3, <1>4, WorkersAssumption, FS_Subset, FS_CardinalityType

(* A step that adds no row and starts no deletion keeps the invariant.     *)
LEMMA ListKept ==
  ASSUME TypeOK, ListInv,
         \A m \in recovery_codes' : \E r \in recovery_codes : r.code = m.code,
         \A v \in Deleting' : v \in Deleting /\ req'[v].targets = req[v].targets
  PROVE  ListInv'
<1>1. Live' \subseteq Live
  BY DEF Live
<1>2. \A v \in Deleting' : \A r \in recovery_codes', t \in req'[v].targets :
         t.list = r.code.list => r.code \in req'[v].targets
  BY DEF ListInv
<1>3. \A S \in SUBSET Live' : S # {} => \E l \in S : \A k \in S : l <= k
  BY <1>1 DEF ListInv
<1>4. ASSUME NEW l \in Live'
      PROVE  Cardinality(Since(l)') + Cardinality(Missed(l)') <= Cardinality(Workers)
  <2>1. Since(l)' \subseteq Since(l) /\ Missed(l)' \subseteq Missed(l)
    BY <1>1 DEF Since, Missed
  <2>2. /\ Cardinality(Since(l)') <= Cardinality(Since(l)) /\ Cardinality(Since(l)') \in Nat
        /\ Cardinality(Missed(l)') <= Cardinality(Missed(l)) /\ Cardinality(Missed(l)') \in Nat
    BY <2>1, ListFinite, FS_Subset, FS_CardinalityType
  <2>3. Cardinality(Since(l)) + Cardinality(Missed(l)) <= Cardinality(Workers)
    BY <1>1 DEF ListInv
  <2> QED BY <2>2, <2>3, ListFinite
<1> QED BY <1>2, <1>3, <1>4 DEF ListInv

(* A request that arrives deletes nothing yet.                             *)
LEMMA ListArrive ==
  ASSUME TypeOK, ListInv, NEW w \in Workers, Arrive(w)
  PROVE  ListInv'
<1> DEFINE steps == {"store", "enable", "session", "spend"}
<1>0. PICK step \in steps : \E r : Accept(w, step, r)
  BY DEF Arrive, Setup, Confirm, VerifyTotp, VerifyRecoveryCode
<1>1. PICK r : Accept(w, step, r)
  BY <1>0
<1>2. \A v \in Workers : IF v = w THEN pc'[v] = step ELSE pc'[v] = pc[v] /\ req'[v] = req[v]
  BY <1>1, AcceptEffect
<1>3. recovery_codes' = recovery_codes
  BY <1>1 DEF Accept
<1>4. \A v \in Deleting' : v \in Deleting /\ req'[v].targets = req[v].targets
  BY <1>2 DEF Deleting
<1> QED BY <1>3, <1>4, ListKept

(* The new list of a confirmation takes the place its request had among    *)
(* those that missed the older lists.                                      *)
LEMMA ListInsert ==
  ASSUME TypeOK, InFlight, ListInv, NEW w \in Workers, InsertCodes(w)
  PROVE  ListInv'
<1> DEFINE n == lists + 1
<1>1. \A v \in Workers : pc'[v] = IF v = w THEN "tell" ELSE pc[v]
  BY DEF InsertCodes, Goto, TypeOK
<1>2. \A v \in Workers : req'[v].targets = req[v].targets /\ req[v].targets \subseteq Code
  BY DEF InsertCodes, TypeOK, Request
<1>3. w \in Deleting /\ Deleting' = Deleting \ {w}
  BY <1>1 DEF InsertCodes, Deleting
<1>4. lists \in Nat /\ n \in Nat /\ \A l \in Live : l \in Nat /\ l < n
  <2>1. \A r \in recovery_codes : r.code.list \in Nat /\ r.code.list <= lists
    BY DEF TypeOK, RecoveryCode, Code
  <2> QED BY <2>1 DEF Live, TypeOK
<1>5. \A r \in recovery_codes' : \/ r \in recovery_codes /\ r.code \notin req[w].targets
                                 \/ r.code.list = n
  BY InsertEffect
<1>6. \A v \in Deleting' : \A r \in recovery_codes', t \in req'[v].targets :
         t.list = r.code.list => r.code \in req'[v].targets
  <2> SUFFICES ASSUME NEW v \in Deleting', NEW r \in recovery_codes', NEW t \in req'[v].targets,
                      t.list = r.code.list
               PROVE  r.code \in req'[v].targets
    OBVIOUS
  <2>1. v \in Deleting /\ t \in req[v].targets /\ v \in Workers
    BY <1>2, <1>3 DEF Deleting
  <2>2. t.list <= lists /\ t.list \in Nat
    BY <1>2, <2>1 DEF InFlight, Code
  <2>3. r \in recovery_codes
    BY <1>4, <1>5, <2>2
  <2> QED BY <1>2, <2>1, <2>3 DEF ListInv
<1>7. Live' \subseteq Live \cup {n}
  BY <1>5 DEF Live
<1>8. \A S \in SUBSET Live' : S # {} => \E l \in S : \A k \in S : l <= k
  <2> SUFFICES ASSUME NEW S \in SUBSET Live', S # {} PROVE \E l \in S : \A k \in S : l <= k
    OBVIOUS
  <2>1. CASE S \ {n} = {}
    <3>1. n \in S /\ \A k \in S : k = n
      BY <2>1
    <3> QED BY <1>4, <3>1
  <2>2. CASE S \ {n} # {}
    <3>1. S \ {n} \in SUBSET Live
      BY <1>7
    <3>2. PICK l \in S \ {n} : \A k \in S \ {n} : l <= k
      BY <2>2, <3>1 DEF ListInv
    <3>3. l <= n
      BY <1>4, <3>1
    <3> QED BY <3>2, <3>3
  <2> QED BY <2>1, <2>2
<1>9. ASSUME NEW l \in Live'
      PROVE  Cardinality(Since(l)') + Cardinality(Missed(l)') <= Cardinality(Workers)
  <2>1. Missed(l)' \subseteq Missed(l) \ {w} /\ Missed(l)' \subseteq Workers \ {w}
    BY <1>2, <1>3 DEF Missed, Deleting
  <2>2. CASE l = n
    <3>1. Since(l)' \subseteq {n}
      <4>1. \A k \in Live' : l <= k => k = n
        BY <1>4, <1>7, <2>2
      <4> QED BY <4>1 DEF Since
    <3>2. Cardinality(Since(l)') <= 1 /\ Cardinality(Since(l)') \in Nat
      <4>1. IsFiniteSet({n}) /\ Cardinality({n}) = 1
        BY FS_Singleton
      <4>2. Since(l)' \in SUBSET {n}
        BY <3>1
      <4>3. IsFiniteSet(Since(l)') /\ Cardinality(Since(l)') <= Cardinality({n})
        BY <4>1, <4>2, FS_Subset
      <4> QED BY <4>1, <4>3, FS_CardinalityType
    <3>3. /\ IsFiniteSet(Workers \ {w})
          /\ Cardinality(Workers \ {w}) = Cardinality(Workers) - 1
      BY WorkersAssumption, FS_RemoveElement
    <3>4. /\ Cardinality(Missed(l)') <= Cardinality(Workers \ {w})
          /\ Cardinality(Missed(l)') \in Nat
      BY <2>1, <3>3, FS_Subset, FS_CardinalityType
    <3> QED BY <3>2, <3>3, <3>4, ListFinite
  <2>3. CASE l # n
    <3>1. PICK r \in recovery_codes : r.code.list = l /\ r.code \notin req[w].targets
      BY <1>5, <2>3 DEF Live
    <3>2. l \in Live /\ w \in Missed(l)
      BY <1>3, <3>1 DEF ListInv, Live, Missed
    <3>3. Since(l)' \subseteq Since(l) \cup {n}
      BY <1>7 DEF Since
    <3>4. /\ IsFiniteSet(Since(l)) /\ Cardinality(Since(l)) \in Nat
          /\ IsFiniteSet(Missed(l)) /\ Cardinality(Missed(l)) \in Nat
      BY ListFinite
    <3>5. /\ IsFiniteSet(Since(l) \cup {n})
          /\ Cardinality(Since(l) \cup {n}) =
             IF n \in Since(l) THEN Cardinality(Since(l)) ELSE Cardinality(Since(l)) + 1
      BY <3>4, FS_AddElement
    <3>6. /\ Cardinality(Since(l)') <= Cardinality(Since(l) \cup {n})
          /\ Cardinality(Since(l)') \in Nat
      BY <3>3, <3>5, FS_Subset, FS_CardinalityType
    <3>7. /\ IsFiniteSet(Missed(l) \ {w})
          /\ Cardinality(Missed(l) \ {w}) = Cardinality(Missed(l)) - 1
      BY <3>2, <3>4, FS_RemoveElement
    <3>8. /\ Cardinality(Missed(l)') <= Cardinality(Missed(l) \ {w})
          /\ Cardinality(Missed(l)') \in Nat
      BY <2>1, <3>7, FS_Subset, FS_CardinalityType
    <3>9. Cardinality(Since(l)) + Cardinality(Missed(l)) <= Cardinality(Workers)
      BY <3>2 DEF ListInv
    <3> QED BY <3>4, <3>5, <3>6, <3>7, <3>8, <3>9, ListFinite
  <2> QED BY <2>2, <2>3
<1> QED BY <1>6, <1>8, <1>9 DEF ListInv

(* The other steps of a request that has started. A DELETE that starts now *)
(* misses nothing.                                                         *)
LEMMA ListContinue ==
  ASSUME TypeOK, InFlight, ListInv, NEW w \in Workers, Continue(w)
  PROVE  ListInv'
<1>1. ASSUME NEW step \in {"show", "delete", "session"}, Goto(w, step), UNCHANGED req,
             \A m \in recovery_codes' : \E r \in recovery_codes : r.code = m.code
      PROVE  ListInv'
  <2>1. \A v \in Workers : pc'[v] = IF v = w THEN step ELSE pc[v]
    BY <1>1 DEF Goto, TypeOK
  <2>2. \A v \in Deleting' : v \in Deleting /\ req'[v].targets = req[v].targets
    BY <1>1, <2>1 DEF Deleting
  <2> QED BY <1>1, <2>2, ListKept
<1>2. ASSUME Finish(w), UNCHANGED recovery_codes PROVE ListInv'
  <2>1. \A v \in Workers : IF v = w THEN pc'[v] = "idle" ELSE pc'[v] = pc[v] /\ req'[v] = req[v]
    BY <1>2, FinishEffect
  <2>2. \A v \in Deleting' : v \in Deleting /\ req'[v].targets = req[v].targets
    BY <2>1 DEF Deleting
  <2> QED BY <1>2, <2>2, ListKept
<1>3. CASE StoreSecret(w) \/ Enable(w)
  BY <1>1, <1>3 DEF StoreSecret, Enable
<1>4. CASE ShowSecret(w) \/ ShowCodes(w) \/ OpenSession(w)
  BY <1>2, <1>4 DEF ShowSecret, ShowCodes, OpenSession
<1>5. CASE LockCodes(w)
  <2>1. \A v \in Workers : pc'[v] = IF v = w THEN "insert" ELSE pc[v]
    BY <1>5 DEF LockCodes, Goto, TypeOK
  <2>2. pc[w] = "lock" /\ UNCHANGED <<req, recovery_codes>>
    BY <1>5 DEF LockCodes
  <2>3. \A v \in Deleting' : v \in Deleting /\ req'[v].targets = req[v].targets
    BY <2>1, <2>2 DEF Deleting
  <2> QED BY <2>2, <2>3, ListKept
<1>6. CASE SpendCode(w)
  BY <1>1, <1>2, <1>6, MarkEffect DEF SpendCode
<1>7. CASE DeleteCodes(w)
  <2> DEFINE t == {r.code : r \in recovery_codes}
  <2>1. \A v \in Workers : pc'[v] = IF v = w THEN "lock" ELSE pc[v]
    BY <1>7 DEF DeleteCodes, Goto, TypeOK
  <2>2. \A v \in Workers : req'[v].targets = IF v = w THEN t ELSE req[v].targets
    BY <1>7 DEF DeleteCodes, TypeOK, Request
  <2>3. recovery_codes' = recovery_codes /\ pc[w] = "delete"
    BY <1>7 DEF DeleteCodes
  <2>4. Deleting' = Deleting \cup {w}
    BY <2>1 DEF Deleting
  <2>5. Live' = Live
    BY <2>3 DEF Live
  <2>6. \A v \in Deleting' : \A r \in recovery_codes', k \in req'[v].targets :
           k.list = r.code.list => r.code \in req'[v].targets
    <3> SUFFICES ASSUME NEW v \in Deleting', NEW r \in recovery_codes', NEW k \in req'[v].targets,
                        k.list = r.code.list
                 PROVE  r.code \in req'[v].targets
      OBVIOUS
    <3>1. v \in Workers /\ r \in recovery_codes
      BY <2>3 DEF Deleting
    <3>2. CASE v = w
      BY <2>2, <3>1, <3>2
    <3>3. CASE v # w
      BY <2>2, <2>4, <3>1, <3>3 DEF ListInv
    <3> QED BY <3>2, <3>3
  <2>7. ASSUME NEW l \in Live PROVE Since(l)' = Since(l) /\ Missed(l)' = Missed(l)
    <3>1. \E k \in t : k.list = l
      BY DEF Live
    <3>2. Since(l)' = Since(l)
      BY <2>5 DEF Since
    <3>3. w \notin Missed(l) /\ w \notin Missed(l)'
      BY <2>2, <2>3, <3>1 DEF Missed, Deleting
    <3>4. Missed(l)' = Missed(l)
      BY <2>2, <2>4, <3>3 DEF Missed, Deleting
    <3> QED BY <3>2, <3>4
  <2> QED BY <2>5, <2>6, <2>7 DEF ListInv
<1> QED BY <1>3, <1>4, <1>5, <1>6, <1>7, ListInsert DEF Continue

-----------------------------------------------------------------------------
(* How many sessions a replaced secret still opens.                        *)

(* The late sessions of a secret, and the requests that still may open one *)
(* with it.                                                                *)
LateOf(s) == {o \in opened : o.secret = s /\ o.late}
Verified(s) == {w \in Workers : /\ pc[w] = "session"
                                /\ req[w].code = None /\ req[w].secret = s}

(* A secret is stored once, by the setup that generated it. Codes of it    *)
(* are accepted while it is stored; the worker that replaces it is none of *)
(* those that then hold one.                                               *)
LateInv ==
    /\ \A v, w \in Workers :
          pc[v] = "store" /\ pc[w] = "store" /\ req[v].secret = req[w].secret => v = w
    /\ \A w \in Workers : pc[w] = "store" =>
          /\ totp_secret # req[w].secret
          /\ LateOf(req[w].secret) = {} /\ Verified(req[w].secret) = {}
    /\ \A o \in opened : o.secret <= secrets
    /\ \A w \in Workers : pc[w] \in {"spend", "session"} => req[w].secret <= secrets
    /\ LateOf(totp_secret) = {}
    /\ \A s \in 1..secrets : s # totp_secret =>
          Cardinality(LateOf(s)) + Cardinality(Verified(s)) < Cardinality(Workers)

(* The sets that are counted are finite.                                   *)
LEMMA LateFinite ==
  ASSUME InFlight, NEW s
  PROVE  /\ IsFiniteSet(LateOf(s)) /\ IsFiniteSet(Verified(s))
         /\ Cardinality(LateOf(s)) \in Nat /\ Cardinality(Verified(s)) \in Nat
         /\ Cardinality(Workers) \in Nat /\ Cardinality(Workers) > 0
<1>1. LateOf(s) \subseteq opened /\ Verified(s) \subseteq Workers
  BY DEF LateOf, Verified
<1>2. IsFiniteSet(LateOf(s)) /\ IsFiniteSet(Verified(s))
  BY <1>1, WorkersAssumption, FS_Subset DEF InFlight
<1>3. Cardinality(Workers) # 0
  BY WorkersAssumption, FS_EmptySet
<1> QED BY <1>2, <1>3, WorkersAssumption, FS_CardinalityType

(* A step that opens nothing, stores no secret and lets no further request *)
(* hold a code of one but the stored one keeps the invariant.              *)
LEMMA LateKept ==
  ASSUME TypeOK, InFlight, LateInv, UNCHANGED <<totp_secret, opened, secrets>>,
         \A v \in Workers : pc'[v] = "store" => pc[v] = "store" /\ req'[v] = req[v],
         \A s : s # totp_secret => Verified(s)' \subseteq Verified(s),
         \A v \in Workers : pc'[v] \in {"spend", "session"} => req'[v].secret <= secrets
  PROVE  LateInv'
<1>1. \A s : LateOf(s)' = LateOf(s)
  BY DEF LateOf
<1>2. \A s : s # totp_secret => Verified(s)' \subseteq Verified(s)
  OBVIOUS
<1>3. \A v, w \in Workers :
         pc'[v] = "store" /\ pc'[w] = "store" /\ req'[v].secret = req'[w].secret => v = w
  BY DEF LateInv
<1>4. \A w \in Workers : pc'[w] = "store" =>
         /\ totp_secret' # req'[w].secret
         /\ LateOf(req[w].secret)' = {} /\ Verified(req[w].secret)' = {}
  BY <1>1, <1>2 DEF LateInv
<1>5. /\ \A o \in opened' : o.secret <= secrets'
      /\ \A w \in Workers : pc'[w] \in {"spend", "session"} => req'[w].secret <= secrets'
  BY DEF LateInv, TypeOK
<1>6. LateOf(totp_secret)' = {}
  BY <1>1 DEF LateInv, LateOf
<1>7. ASSUME NEW s \in 1..secrets', s # totp_secret'
      PROVE  Cardinality(LateOf(s)') + Cardinality(Verified(s)') < Cardinality(Workers)
  <2>1. Cardinality(LateOf(s)) + Cardinality(Verified(s)) < Cardinality(Workers)
    BY <1>7 DEF LateInv
  <2>2. LateOf(s)' = LateOf(s) /\ Verified(s)' \subseteq Verified(s)
    BY <1>1, <1>2, <1>7
  <2>3. Cardinality(Verified(s)') <= Cardinality(Verified(s)) /\ Cardinality(Verified(s)') \in Nat
    BY <2>2, LateFinite, FS_Subset, FS_CardinalityType
  <2> QED BY <2>1, <2>2, <2>3, LateFinite
<1> QED BY <1>3, <1>4, <1>5, <1>6, <1>7 DEF LateInv, LateOf, Verified

(* A request that ends without opening a session.                          *)
LEMMA LateFinish ==
  ASSUME TypeOK, InFlight, LateInv, NEW w \in Workers, Finish(w),
         UNCHANGED <<totp_secret, opened, secrets>>
  PROVE  LateInv'
<1>1. \A v \in Workers : IF v = w THEN pc'[v] = "idle" ELSE pc'[v] = pc[v] /\ req'[v] = req[v]
  BY FinishEffect
<1>2. \A s : s # totp_secret => Verified(s)' \subseteq Verified(s)
  BY <1>1 DEF Verified
<1>3. \A v \in Workers : pc'[v] \in {"spend", "session"} => req'[v].secret <= secrets
  BY <1>1 DEF LateInv
<1>4. \A v \in Workers : pc'[v] = "store" => pc[v] = "store" /\ req'[v] = req[v]
  BY <1>1
<1> QED BY <1>2, <1>3, <1>4, LateKept

(* A request that arrives: a setup takes a new secret, a verification the  *)
(* stored one.                                                             *)
LEMMA LateArrive ==
  ASSUME TypeOK, InFlight, LateInv, NEW w \in Workers, Arrive(w)
  PROVE  LateInv'
<1>1. CASE Setup(w)
  <2> DEFINE n == secrets + 1
  <2>1. PICK r : r.secret = n /\ Accept(w, "store", r) /\ secrets' = n
    <3>1. [NoRequest EXCEPT !.secret = n].secret = n
      BY DEF NoRequest
    <3> QED BY <1>1, <3>1 DEF Setup
  <2>2. \A v \in Workers : IF v = w THEN pc'[v] = "store" /\ req'[v] = r
                           ELSE pc'[v] = pc[v] /\ req'[v] = req[v]
    BY <2>1, AcceptEffect
  <2>3. UNCHANGED <<totp_secret, opened>> /\ pc[w] = "idle"
    BY <2>1 DEF Accept, kept
  <2>4. secrets \in Nat /\ totp_secret \in 0..secrets /\ 1..n = 1..secrets \cup {n}
    BY DEF TypeOK
  <2>5. \A s : LateOf(s)' = LateOf(s) /\ Verified(s)' = Verified(s)
    BY <2>2, <2>3 DEF LateOf, Verified
  <2>6. LateOf(n) = {} /\ Verified(n) = {}
    <3>1. \A o \in opened : o.secret \in Nat /\ o.secret <= secrets
      BY DEF LateInv, TypeOK, Opened
    <3>2. \A v \in Workers : pc[v] = "session" => req[v].secret \in Nat /\ req[v].secret <= secrets
      BY DEF LateInv, TypeOK, Request
    <3> QED BY <2>4, <3>1, <3>2 DEF LateOf, Verified
  <2>7. \A v \in Workers : pc[v] = "store" => req[v].secret # n
    BY <2>4 DEF InFlight
  <2>8. \A u, v \in Workers :
           pc'[u] = "store" /\ pc'[v] = "store" /\ req'[u].secret = req'[v].secret => u = v
    BY <2>1, <2>2, <2>7 DEF LateInv
  <2>9. \A v \in Workers : pc'[v] = "store" =>
           /\ totp_secret # req'[v].secret
           /\ LateOf(req'[v].secret) = {} /\ Verified(req'[v].secret) = {}
    BY <2>1, <2>2, <2>4, <2>6 DEF LateInv
  <2>10. /\ \A o \in opened : o.secret <= n
         /\ \A v \in Workers : pc'[v] \in {"spend", "session"} => req'[v].secret <= n
    <3>1. \A o \in opened : o.secret \in Nat
      BY DEF TypeOK, Opened
    <3>2. \A v \in Workers : req[v].secret \in Nat
      BY DEF TypeOK, Request
    <3> QED BY <2>2, <2>4, <3>1, <3>2 DEF LateInv
  <2>11. ASSUME NEW s \in 1..n, s # totp_secret
         PROVE  Cardinality(LateOf(s)) + Cardinality(Verified(s)) < Cardinality(Workers)
    <3>1. CASE s = n
      BY <2>6, <3>1, LateFinite, FS_EmptySet
    <3>2. CASE s # n
      BY <2>4, <2>11, <3>2 DEF LateInv
    <3> QED BY <3>1, <3>2
  <2>12. LateOf(totp_secret) = {}
    BY DEF LateInv
  <2>13. \A s : Cardinality(LateOf(s)') = Cardinality(LateOf(s))
                /\ Cardinality(Verified(s)') = Cardinality(Verified(s))
    BY <2>5
  <2>14. \A v \in Workers : pc'[v] = "store" =>
            LateOf(req[v].secret)' = {} /\ Verified(req[v].secret)' = {}
    BY <2>3, <2>5, <2>9 DEF LateOf, Verified
  <2>15. LateOf(totp_secret)' = {}
    BY <2>3, <2>5, <2>12 DEF LateOf
  <2> QED BY <2>1, <2>3, <2>8, <2>9, <2>10, <2>11, <2>13, <2>14, <2>15 DEF LateInv
<1>2. ASSUME NEW step \in {"enable", "session", "spend"}, NEW r, Accept(w, step, r),
             UNCHANGED secrets, r.secret \in {0, totp_secret},
             step = "session" => r.secret = totp_secret
      PROVE  LateInv'
  <2>1. \A v \in Workers : IF v = w THEN pc'[v] = step /\ req'[v] = r
                           ELSE pc'[v] = pc[v] /\ req'[v] = req[v]
    BY <1>2, AcceptEffect
  <2>2. UNCHANGED <<totp_secret, opened, secrets>>
    BY <1>2 DEF Accept, kept
  <2>3. \A s : s # totp_secret => Verified(s)' \subseteq Verified(s)
    BY <1>2, <2>1 DEF Verified
  <2>4. \A v \in Workers : pc'[v] \in {"spend", "session"} => req'[v].secret <= secrets
    <3>1. 0 <= secrets /\ totp_secret <= secrets
      BY DEF TypeOK
    <3> QED BY <1>2, <2>1, <3>1 DEF LateInv
  <2>5. \A v \in Workers : pc'[v] = "store" => pc[v] = "store" /\ req'[v] = req[v]
    BY <2>1
  <2> QED BY <2>2, <2>3, <2>4, <2>5, LateKept
<1>3. CASE Confirm(w)
  BY <1>2, <1>3, NothingKept DEF Confirm
<1>4. CASE VerifyTotp(w)
  <2>1. PICK r : r.code = None /\ r.secret = totp_secret /\ Accept(w, "session", r)
    <3>1. /\ [NoRequest EXCEPT !.secret = totp_secret].code = None
          /\ [NoRequest EXCEPT !.secret = totp_secret].secret = totp_secret
      BY DEF NoRequest
    <3> QED BY <1>4, <3>1 DEF VerifyTotp
  <2> QED BY <1>2, <1>4, <2>1 DEF VerifyTotp
<1>5. CASE VerifyRecoveryCode(w)
  <2>1. PICK r : r.secret = 0 /\ Accept(w, "spend", r) /\ UNCHANGED secrets
    <3>1. \A c : [NoRequest EXCEPT !.code = c].secret = 0
      BY DEF NoRequest
    <3> QED BY <1>5, <3>1 DEF VerifyRecoveryCode
  <2> QED BY <1>2, <2>1
<1> QED BY <1>1, <1>3, <1>4, <1>5 DEF Arrive

(* The setup that replaces a secret leaves one worker fewer to be late.    *)
LEMMA LateStore ==
  ASSUME TypeOK, InFlight, LateInv, NEW w \in Workers, StoreSecret(w)
  PROVE  LateInv'
<1> DEFINE n == req[w].secret
<1>1. /\ pc[w] = "store" /\ totp_secret' = n
      /\ UNCHANGED <<opened, secrets, req>>
      /\ \A v \in Workers : pc'[v] = IF v = w THEN "show" ELSE pc[v]
  BY DEF StoreSecret, Goto, TypeOK, kept
<1>2. \A s : LateOf(s)' = LateOf(s) /\ Verified(s)' = Verified(s)
  BY <1>1 DEF LateOf, Verified
<1>3. LateOf(n) = {} /\ LateOf(totp_secret) = {}
  BY <1>1 DEF LateInv
<1>4. \A u, v \in Workers :
         pc'[u] = "store" /\ pc'[v] = "store" /\ req'[u].secret = req'[v].secret => u = v
  BY <1>1 DEF LateInv
<1>5. \A v \in Workers : pc'[v] = "store" =>
         /\ n # req[v].secret
         /\ LateOf(req[v].secret)' = {} /\ Verified(req[v].secret)' = {}
  <2> SUFFICES ASSUME NEW v \in Workers, pc'[v] = "store"
               PROVE  /\ n # req[v].secret
                      /\ LateOf(req[v].secret)' = {} /\ Verified(req[v].secret)' = {}
    OBVIOUS
  <2>1. v # w /\ pc[v] = "store"
    BY <1>1
  <2>2. n # req[v].secret /\ LateOf(req[v].secret) = {} /\ Verified(req[v].secret) = {}
    BY <1>1, <2>1 DEF LateInv
  <2> QED BY <1>1, <2>2 DEF LateOf, Verified
<1>6. LateOf(totp_secret)' = {}
  BY <1>1, <1>3 DEF LateOf
<1>7. /\ \A o \in opened' : o.secret <= secrets'
      /\ \A v \in Workers : pc'[v] \in {"spend", "session"} => req'[v].secret <= secrets'
  BY <1>1 DEF LateInv
<1>8. ASSUME NEW s \in 1..secrets, s # n
      PROVE  Cardinality(LateOf(s)) + Cardinality(Verified(s)) < Cardinality(Workers)
  <2>1. CASE s # totp_secret
    BY <2>1 DEF LateInv
  <2>2. CASE s = totp_secret
    <3>1. Cardinality(LateOf(s)) = 0
      BY <1>3, <2>2, FS_EmptySet
    <3>2. Verified(s) \in SUBSET (Workers \ {w})
      BY <1>1 DEF Verified
    <3>3. /\ IsFiniteSet(Workers \ {w})
          /\ Cardinality(Workers \ {w}) = Cardinality(Workers) - 1
      BY WorkersAssumption, FS_RemoveElement
    <3>4. Cardinality(Verified(s)) <= Cardinality(Workers \ {w})
      BY <3>2, <3>3, FS_Subset
    <3> QED BY <3>1, <3>3, <3>4, LateFinite
  <2> QED BY <2>1, <2>2
<1>9. \A s : Cardinality(LateOf(s)') = Cardinality(LateOf(s))
             /\ Cardinality(Verified(s)') = Cardinality(Verified(s))
  BY <1>2
<1> QED BY <1>1, <1>4, <1>5, <1>6, <1>7, <1>8, <1>9 DEF LateInv

(* A request that verified a code of a replaced secret opens its session.  *)
LEMMA LateOpen ==
  ASSUME TypeOK, InFlight, LateInv, NEW w \in Workers, OpenSession(w)
  PROVE  LateInv'
<1> DEFINE n == req[w].secret
<1>1. PICK o : /\ opened' = opened \cup {o} /\ o.secret = n /\ o.code = req[w].code
               /\ o.late <=> req[w].code = None /\ n # totp_secret
  <2> DEFINE x == [secret |-> req[w].secret, code |-> req[w].code,
                   nth |-> Cardinality(opened) + 1,
                   late |-> req[w].code = None /\ req[w].secret # totp_secret]
  <2>1. opened' = opened \cup {x}
    BY DEF OpenSession
  <2>2. /\ x.secret = n /\ x.code = req[w].code
        /\ x.late <=> req[w].code = None /\ n # totp_secret
    OBVIOUS
  <2> QED BY <2>1, <2>2
<1>2. /\ pc[w] = "session" /\ UNCHANGED <<totp_secret, secrets>>
      /\ \A v \in Workers : IF v = w THEN pc'[v] = "idle" ELSE pc'[v] = pc[v] /\ req'[v] = req[v]
  BY FinishEffect DEF OpenSession
<1>3. \A s : LateOf(s)' = IF o.late /\ s = n THEN LateOf(s) \cup {o} ELSE LateOf(s)
  BY <1>1 DEF LateOf
<1>4. \A s : Verified(s)' = Verified(s) \ {w}
  BY <1>2 DEF Verified
<1>5. o.late => w \in Verified(n)
  BY <1>1, <1>2 DEF Verified
<1>6. \A u, v \in Workers :
         pc'[u] = "store" /\ pc'[v] = "store" /\ req'[u].secret = req'[v].secret => u = v
  BY <1>2 DEF LateInv
<1>7. \A v \in Workers : pc'[v] = "store" =>
         /\ totp_secret # req'[v].secret
         /\ LateOf(req[v].secret)' = {} /\ Verified(req[v].secret)' = {}
  <2> SUFFICES ASSUME NEW v \in Workers, pc'[v] = "store"
               PROVE  /\ totp_secret # req'[v].secret
                      /\ LateOf(req[v].secret)' = {} /\ Verified(req[v].secret)' = {}
    OBVIOUS
  <2>1. v # w /\ pc[v] = "store" /\ req'[v] = req[v]
    BY <1>2
  <2>2. /\ totp_secret # req[v].secret
        /\ LateOf(req[v].secret) = {} /\ Verified(req[v].secret) = {}
    BY <2>1 DEF LateInv
  <2>3. ~(o.late /\ req[v].secret = n)
    BY <1>5, <2>2
  <2>4. \A p \in opened' : ~(p.secret = req[v].secret /\ p.late)
    BY <1>1, <2>2, <2>3 DEF LateOf
  <2>5. \A u \in Workers : ~(pc'[u] = "session" /\ req'[u].code = None
                             /\ req'[u].secret = req[v].secret)
    BY <1>2, <2>2 DEF Verified
  <2> QED BY <2>1, <2>2, <2>4, <2>5 DEF LateOf, Verified
<1>8. /\ \A p \in opened' : p.secret <= secrets'
      /\ \A v \in Workers : pc'[v] \in {"spend", "session"} => req'[v].secret <= secrets'
  BY <1>1, <1>2 DEF LateInv
<1>9. LateOf(totp_secret)' = {}
  <2>1. \A p \in opened' : ~(p.secret = totp_secret /\ p.late)
    BY <1>1 DEF LateInv, LateOf
  <2> QED BY <1>2, <2>1 DEF LateOf
<1>10. ASSUME NEW s \in 1..secrets, s # totp_secret
       PROVE  Cardinality(LateOf(s)') + Cardinality(Verified(s)') < Cardinality(Workers)
  <2>1. Cardinality(LateOf(s)) + Cardinality(Verified(s)) < Cardinality(Workers)
    BY <1>10 DEF LateInv
  <2>2. /\ IsFiniteSet(LateOf(s)) /\ Cardinality(LateOf(s)) \in Nat
        /\ IsFiniteSet(Verified(s)) /\ Cardinality(Verified(s)) \in Nat
        /\ Cardinality(Workers) \in Nat
    BY LateFinite
  <2>3. Cardinality(Verified(s)') = IF w \in Verified(s) THEN Cardinality(Verified(s)) - 1
                                    ELSE Cardinality(Verified(s))
    BY <1>4, <2>2, FS_RemoveElement
  <2>4. CASE o.late /\ s = n
    <3>1. Cardinality(LateOf(s)') = IF o \in LateOf(s) THEN Cardinality(LateOf(s))
                                    ELSE Cardinality(LateOf(s)) + 1
      BY <1>3, <2>2, <2>4, FS_AddElement
    <3> QED BY <1>5, <2>1, <2>2, <2>3, <2>4, <3>1
  <2>5. CASE ~(o.late /\ s = n)
    <3>1. LateOf(s)' = LateOf(s)
      BY <1>3, <2>5
    <3> QED BY <2>1, <2>2, <2>3, <3>1
  <2> QED BY <2>4, <2>5
<1> QED BY <1>2, <1>6, <1>7, <1>8, <1>9, <1>10 DEF LateInv

(* The other steps of a request that has started.                          *)
LEMMA LateContinue ==
  ASSUME TypeOK, InFlight, LateInv, NEW w \in Workers, Continue(w)
  PROVE  LateInv'
<1>1. ASSUME NEW step \in {"delete", "lock", "insert", "tell"}, Goto(w, step),
             UNCHANGED <<totp_secret, opened, secrets>>,
             \A v \in Workers : v # w => req'[v] = req[v]
      PROVE  LateInv'
  <2>1. \A v \in Workers : pc'[v] = IF v = w THEN step ELSE pc[v]
    BY <1>1 DEF Goto, TypeOK
  <2>2. \A s : s # totp_secret => Verified(s)' \subseteq Verified(s)
    BY <1>1, <2>1 DEF Verified
  <2>3. \A v \in Workers : pc'[v] \in {"spend", "session"} => req'[v].secret <= secrets
    BY <1>1, <2>1 DEF LateInv
  <2>4. \A v \in Workers : pc'[v] = "store" => pc[v] = "store" /\ req'[v] = req[v]
    BY <1>1, <2>1
  <2> QED BY <1>1, <2>2, <2>3, <2>4, LateKept
<1>2. ASSUME Finish(w), UNCHANGED <<totp_secret, opened, secrets>> PROVE LateInv'
  BY <1>2, LateFinish
<1>3. CASE ShowSecret(w) \/ ShowCodes(w)
  BY <1>2, <1>3 DEF ShowSecret, ShowCodes
<1>4. CASE Enable(w) \/ LockCodes(w)
  BY <1>1, <1>4 DEF Enable, LockCodes, kept
<1>5. CASE DeleteCodes(w) \/ InsertCodes(w)
  <2>1. \A v \in Workers : v # w => req'[v] = req[v]
    BY <1>5 DEF DeleteCodes, InsertCodes, TypeOK
  <2> QED BY <1>1, <1>5, <2>1 DEF DeleteCodes, InsertCodes, kept
<1>6. CASE SpendCode(w)
  <2>1. UNCHANGED <<totp_secret, opened, secrets>> /\ pc[w] = "spend"
    BY <1>6 DEF SpendCode, kept
  <2>2. CASE Finish(w)
    BY <1>2, <2>1, <2>2
  <2>3. CASE Goto(w, "session") /\ UNCHANGED req
    <3>1. \A v \in Workers : pc'[v] = IF v = w THEN "session" ELSE pc[v]
      BY <2>3 DEF Goto, TypeOK
    <3>2. req[w].code # None
      BY <2>1, NoneAssumption DEF InFlight
    <3>3. \A s : s # totp_secret => Verified(s)' \subseteq Verified(s)
      BY <2>3, <3>1, <3>2 DEF Verified
    <3>4. \A v \in Workers : pc'[v] \in {"spend", "session"} => req'[v].secret <= secrets
      BY <2>1, <2>3, <3>1 DEF LateInv
    <3>5. \A v \in Workers : pc'[v] = "store" => pc[v] = "store" /\ req'[v] = req[v]
      BY <2>3, <3>1
    <3> QED BY <2>1, <3>3, <3>4, <3>5, LateKept
  <2> QED BY <1>6, <2>2, <2>3 DEF SpendCode
<1> QED BY <1>3, <1>4, <1>5, <1>6, LateStore, LateOpen DEF Continue

-----------------------------------------------------------------------------
(* The invariant.                                                          *)
IInv == TypeOK /\ InFlight /\ SpendInv /\ ListInv /\ LateInv

(* Nothing has been generated, shown or opened at the start.               *)
LEMMA InitInv == Init => IInv
<1> SUFFICES ASSUME Init PROVE IInv
  OBVIOUS
<1>1. TypeOK
  <2>1. pc \in [Workers -> PCs] /\ req \in [Workers -> Request]
    BY RequestType DEF Init, PCs
  <2>2. recovery_codes = {} /\ shown = {} /\ told = {} /\ opened = {}
    BY DEF Init
  <2>3. totp_secret = 0 /\ secrets = 0 /\ lists = 0 /\ arrived = 0 /\ crashes = 0
    BY DEF Init
  <2>4. mfa_enabled \in BOOLEAN
    BY ZenonT(10) DEF Init
  <2> QED BY <2>1, <2>2, <2>3, <2>4 DEF TypeOK
<1>2. \A w \in Workers : pc[w] = "idle" /\ req[w] = NoRequest
  BY DEF Init
<1>3. InFlight
  BY <1>2, NothingKept, FS_EmptySet DEF Init, InFlight
<1>4. SpendInv
  <2> SUFFICES ASSUME NEW c \in Code \ {None}
      PROVE  Cardinality(OpenedBy(c)) + Cardinality(Holders(c)) <= Cardinality(Workers)
    BY DEF Init, SpendInv
  <2>1. OpenedBy(c) = {} /\ Holders(c) = {}
    BY <1>2 DEF Init, OpenedBy, Holders
  <2> QED BY <2>1, WorkersAssumption, FS_EmptySet, FS_CardinalityType
<1>5. ListInv
  BY DEF Init, ListInv, Live
<1>6. LateInv
  BY <1>2 DEF Init, LateInv, LateOf
<1> QED BY <1>1, <1>3, <1>4, <1>5, <1>6 DEF IInv

(* A request that dies leaves its commits and nothing else.                *)
LEMMA CrashInv ==
  ASSUME IInv, NEW w \in Workers, Crash(w)
  PROVE  IInv'
<1> USE DEF IInv
<1>1. /\ Finish(w) /\ crashes' \in Nat
      /\ UNCHANGED <<totp_secret, mfa_enabled, recovery_codes, secrets, lists, shown, told,
                     opened, arrived>>
  BY DEF Crash, kept, TypeOK
<1>2. TypeOK' /\ InFlight'
  <2>1. /\ shown' \subseteq 1..secrets /\ told' \subseteq Code
        /\ opened' \subseteq Opened /\ IsFiniteSet(opened')
        /\ \A o \in opened' : o.code # None => o.code.list <= lists
    BY <1>1 DEF TypeOK, InFlight
  <2> QED BY <1>1, <2>1, FinishTyped
<1>3. \A v \in Workers : IF v = w THEN pc'[v] = "idle" ELSE pc'[v] = pc[v] /\ req'[v] = req[v]
  BY <1>1, FinishEffect
<1>4. SpendInv'
  <2>1. \A c \in Code \ {None} : Holders(c)' \subseteq Holders(c)
    BY <1>3 DEF Holders
  <2> QED BY <1>1, <1>3, <2>1, SpendKept
<1>5. ListInv'
  <2>1. \A v \in Deleting' : v \in Deleting /\ req'[v].targets = req[v].targets
    BY <1>3 DEF Deleting
  <2> QED BY <1>1, <2>1, ListKept
<1>6. LateInv'
  BY <1>1, LateFinish
<1> QED BY <1>2, <1>4, <1>5, <1>6

(* Every step keeps the invariant.                                         *)
LEMMA StepInv == IInv /\ [Next]_vars => IInv'
<1> SUFFICES ASSUME IInv, [Next]_vars PROVE IInv'
  OBVIOUS
<1>1. ASSUME NEW w \in Workers, Arrive(w) PROVE IInv'
  BY <1>1, ArriveTyped, SpendArrive, ListArrive, LateArrive DEF IInv
<1>2. ASSUME NEW w \in Workers, Continue(w) PROVE IInv'
  BY <1>2, ContinueTyped, SpendContinue, ListContinue, LateContinue DEF IInv
<1>3. ASSUME NEW w \in Workers, Crash(w) PROVE IInv'
  BY <1>3, CrashInv
<1>4. CASE UNCHANGED vars
  <2>1. TypeOK' /\ InFlight'
    BY <1>4 DEF vars, kept, IInv, TypeOK, InFlight
  <2>2. SpendInv'
    BY <1>4 DEF vars, kept, IInv, SpendInv, OpenedBy, Holders
  <2>3. ListInv'
    BY <1>4 DEF vars, kept, IInv, ListInv, Live, Since, Missed, Deleting
  <2>4. LateInv'
    BY <1>4 DEF vars, kept, IInv, LateInv, LateOf, Verified
  <2> QED BY <2>1, <2>2, <2>3, <2>4 DEF IInv
<1> QED BY <1>1, <1>2, <1>3, <1>4 DEF Next

(* Every variable keeps its type; in particular no code has two rows.      *)
THEOREM TypeCorrect == Spec => []TypeOK
<1>1. IInv => TypeOK
  BY DEF IInv
<1> QED BY InitInv, StepInv, <1>1, PTL DEF Spec

(* With N workers a recovery code opens at most N sessions, however the    *)
(* requests that use it, fresh confirmations and crashes interleave.       *)
THEOREM FewSpends == Spec => []SpendsBounded
<1>1. IInv => SpendsBounded
  <2> SUFFICES ASSUME IInv, NEW o \in opened, o.code # None
               PROVE  Cardinality({p \in opened : p.code = o.code}) <= Cardinality(Workers)
    BY DEF SpendsBounded
  <2>1. o.code \in Code \ {None}
    BY DEF IInv, TypeOK, Opened
  <2>2. Cardinality(OpenedBy(o.code)) + Cardinality(Holders(o.code)) <= Cardinality(Workers)
    BY <2>1 DEF IInv, SpendInv
  <2>3. Cardinality(OpenedBy(o.code)) <= Cardinality(Workers)
    BY <2>2, SpendFinite DEF IInv
  <2> QED BY <2>3 DEF OpenedBy
<1> QED BY InitInv, StepInv, <1>1, PTL DEF Spec

(* With N workers at most N lists of recovery codes live side by side.     *)
THEOREM FewLists == Spec => []ListsBounded
<1>1. IInv => ListsBounded
  <2> SUFFICES ASSUME IInv PROVE Cardinality(Live) <= Cardinality(Workers)
    BY DEF ListsBounded, Live
  <2>1. CASE Live = {}
    BY <2>1, FS_EmptySet, WorkersAssumption, FS_CardinalityType
  <2>2. CASE Live # {}
    <3>1. PICK l \in Live : \A k \in Live : l <= k
      BY <2>2 DEF IInv, ListInv
    <3>2. Since(l) = Live
      BY <3>1 DEF Since
    <3>3. Cardinality(Since(l)) + Cardinality(Missed(l)) <= Cardinality(Workers)
      BY <3>1 DEF IInv, ListInv
    <3> QED BY <3>2, <3>3, ListFinite DEF IInv
  <2> QED BY <2>1, <2>2
<1> QED BY InitInv, StepInv, <1>1, PTL DEF Spec

(* With N workers a replaced secret opens at most N - 1 sessions.          *)
THEOREM FewLateSecrets == Spec => []LateSecretsBounded
<1>1. IInv => LateSecretsBounded
  <2> SUFFICES ASSUME IInv, NEW s \in shown
               PROVE  Cardinality(LateOf(s)) < Cardinality(Workers)
    BY DEF LateSecretsBounded, LateOf
  <2>1. s \in 1..secrets
    BY DEF IInv, TypeOK
  <2>2. CASE s = totp_secret
    BY <2>2, LateFinite, FS_EmptySet DEF IInv, LateInv
  <2>3. CASE s # totp_secret
    <3>1. Cardinality(LateOf(s)) + Cardinality(Verified(s)) < Cardinality(Workers)
      BY <2>1, <2>3 DEF IInv, LateInv
    <3> QED BY <3>1, LateFinite DEF IInv
  <2> QED BY <2>2, <2>3
<1> QED BY InitInv, StepInv, <1>1, PTL DEF Spec

-----------------------------------------------------------------------------
(* One crash. A crash loses the secret that is about to be shown or the    *)
(* list of codes that is, but never both: one of the two still reaches the *)
(* owner.                                                                  *)

(* The stored secret has been shown or is about to be.                     *)
SecretKnown ==
    totp_secret \in shown \/ \E w \in Workers : pc[w] = "show" /\ req[w].secret = totp_secret

(* A stored recovery code has been shown, or a request is about to store   *)
(* or show some.                                                           *)
CodesKnown ==
    \/ \E r \in recovery_codes : r.code \in told
    \/ \E w \in Workers :
          \/ pc[w] \in {"delete", "lock", "insert"}
          \/ pc[w] = "tell" /\ \E r \in recovery_codes : r.code.list = req[w].list

SurviveInv ==
    /\ \A w \in Workers : pc[w] = "enable" => totp_secret # 0
    /\ mfa_enabled => totp_secret # 0
    /\ crashes = 0 => (totp_secret # 0 => SecretKnown) /\ (mfa_enabled => CodesKnown)
    /\ crashes = 1 => (mfa_enabled => SecretKnown \/ CodesKnown)

(* Another worker's request is left alone.                                 *)
LEMMA OthersKeep ==
  ASSUME TypeOK, NEW w \in Workers, Arrive(w) \/ Continue(w) \/ Crash(w),
         NEW v \in Workers, v # w
  PROVE  pc'[v] = pc[v] /\ req'[v] = req[v]
<1> USE DEF TypeOK, Goto, Finish
<1>1. CASE Arrive(w)
  <2>1. PICK step, r : Accept(w, step, r)
    BY <1>1 DEF Arrive, Setup, Confirm, VerifyTotp, VerifyRecoveryCode
  <2> QED BY <2>1, AcceptEffect
<1>2. CASE StoreSecret(w) \/ Enable(w) \/ LockCodes(w)
  BY <1>2 DEF StoreSecret, Enable, LockCodes
<1>3. CASE ShowSecret(w) \/ ShowCodes(w) \/ OpenSession(w) \/ Crash(w)
  BY <1>3 DEF ShowSecret, ShowCodes, OpenSession, Crash
<1>4. CASE DeleteCodes(w)
  BY <1>4 DEF DeleteCodes
<1>5. CASE InsertCodes(w)
  BY <1>5 DEF InsertCodes
<1>6. CASE SpendCode(w)
  BY <1>6 DEF SpendCode
<1> QED BY <1>1, <1>2, <1>3, <1>4, <1>5, <1>6 DEF Continue

(* Rows stay, if only by their code, unless a new list replaces them.      *)
LEMMA CodesStay ==
  ASSUME TypeOK, NEW w \in Workers, Arrive(w) \/ Continue(w) \/ Crash(w), ~InsertCodes(w)
  PROVE  \A r \in recovery_codes : \E m \in recovery_codes' : m.code = r.code
<1>1. CASE SpendCode(w)
  <2>1. UNCHANGED recovery_codes \/ MarkUsed(req[w].code)
    BY <1>1 DEF SpendCode
  <2> QED BY <2>1, MarkEffect
<1>2. CASE ~SpendCode(w)
  <2>1. UNCHANGED recovery_codes
    BY <1>2 DEF Arrive, Setup, Confirm, VerifyTotp, VerifyRecoveryCode, Accept, Continue,
                StoreSecret, ShowSecret, Enable, DeleteCodes, LockCodes, ShowCodes,
                OpenSession, Crash
  <2> QED BY <2>1
<1> QED BY <1>1, <1>2

(* The secret: only storing another one puts it out of sight, until its    *)
(* own response.                                                           *)
LEMMA SecretStep ==
  ASSUME TypeOK, InFlight, NEW w \in Workers, Arrive(w) \/ Continue(w)
  PROVE  /\ SecretKnown => SecretKnown'
         /\ totp_secret # 0 => totp_secret' # 0
         /\ totp_secret' = totp_secret \/ SecretKnown'
<1>1. CASE StoreSecret(w)
  <2>1. /\ pc'[w] = "show" /\ req'[w].secret = totp_secret' /\ totp_secret' \in 1..secrets
        /\ secrets \in Nat
    BY <1>1 DEF StoreSecret, Goto, TypeOK, InFlight
  <2>2. SecretKnown'
    BY <2>1 DEF SecretKnown
  <2> QED BY <2>1, <2>2
<1>2. CASE ~StoreSecret(w)
  <2>1. UNCHANGED totp_secret /\ shown \subseteq shown'
    BY <1>2 DEF Arrive, Setup, Confirm, VerifyTotp, VerifyRecoveryCode, Accept, kept, Continue,
                ShowSecret, Enable, DeleteCodes, LockCodes, InsertCodes, ShowCodes, SpendCode,
                OpenSession
  <2>2. ASSUME NEW v \in Workers, pc[v] = "show", req[v].secret = totp_secret
        PROVE  SecretKnown'
    <3>1. CASE v = w
      <4>1. ShowSecret(w)
        BY <1>2, <2>2, <3>1
        DEF Arrive, Setup, Confirm, VerifyTotp, VerifyRecoveryCode, Accept, Continue,
            Enable, DeleteCodes, LockCodes, InsertCodes, ShowCodes, SpendCode, OpenSession
      <4> QED BY <2>1, <2>2, <3>1, <4>1 DEF ShowSecret, SecretKnown
    <3>2. CASE v # w
      <4>1. pc'[v] = pc[v] /\ req'[v] = req[v]
        BY <3>2, OthersKeep
      <4> QED BY <2>1, <2>2, <4>1 DEF SecretKnown
    <3> QED BY <3>1, <3>2
  <2> QED BY <2>1, <2>2 DEF SecretKnown
<1> QED BY <1>1, <1>2

(* The codes: whoever replaces a list is about to show its own.            *)
LEMMA CodesStep ==
  ASSUME TypeOK, InFlight, NEW w \in Workers, Arrive(w) \/ Continue(w)
  PROVE  /\ CodesKnown => CodesKnown'
         /\ mfa_enabled' => mfa_enabled \/ (pc[w] = "enable" /\ CodesKnown')
<1>1. CASE Enable(w)
  <2>1. pc[w] = "enable" /\ pc'[w] = "delete"
    BY <1>1 DEF Enable, Goto, TypeOK
  <2> QED BY <2>1 DEF CodesKnown
<1>2. CASE InsertCodes(w)
  <2>1. /\ pc'[w] = "tell" /\ req'[w].list = lists + 1 /\ UNCHANGED mfa_enabled
    BY <1>2 DEF InsertCodes, Goto, TypeOK, Request
  <2>2. \E r \in recovery_codes' : r.code.list = req'[w].list
    BY <1>2, <2>1, InsertEffect
  <2> QED BY <2>1, <2>2 DEF CodesKnown
<1>3. CASE ~Enable(w) /\ ~InsertCodes(w)
  <2>1. UNCHANGED mfa_enabled /\ told \subseteq told'
    BY <1>3 DEF Arrive, Setup, Confirm, VerifyTotp, VerifyRecoveryCode, Accept, kept, Continue,
                StoreSecret, ShowSecret, DeleteCodes, LockCodes, ShowCodes, SpendCode, OpenSession
  <2>2. \A r \in recovery_codes : \E m \in recovery_codes' : m.code = r.code
    BY <1>3, CodesStay
  <2>3. ASSUME NEW v \in Workers,
               \/ pc[v] \in {"delete", "lock", "insert"}
               \/ pc[v] = "tell" /\ \E r \in recovery_codes : r.code.list = req[v].list
        PROVE  CodesKnown'
    <3>1. CASE v # w
      <4>1. pc'[v] = pc[v] /\ req'[v] = req[v]
        BY <3>1, OthersKeep
      <4> QED BY <2>2, <2>3, <4>1 DEF CodesKnown
    <3>2. CASE v = w
      <4>1. DeleteCodes(w) \/ LockCodes(w) \/ ShowCodes(w)
        BY <1>3, <2>3, <3>2
        DEF Arrive, Setup, Confirm, VerifyTotp, VerifyRecoveryCode, Accept, Continue,
            StoreSecret, ShowSecret, SpendCode, OpenSession
      <4>2. CASE DeleteCodes(w) \/ LockCodes(w)
        <5>1. pc'[w] \in {"lock", "insert"}
          BY <4>2 DEF DeleteCodes, LockCodes, Goto, TypeOK
        <5> QED BY <5>1 DEF CodesKnown
      <4>3. CASE ShowCodes(w)
        <5>1. pc[w] = "tell" /\ told' = told \cup [list: {req[w].list}, nth: 1..CodeCount]
          BY <4>3 DEF ShowCodes
        <5>2. PICK r \in recovery_codes : r.code.list = req[w].list
          BY <2>3, <3>2, <5>1
        <5>3. r.code \in Code
          BY DEF TypeOK, RecoveryCode
        <5>4. r.code \in [list: {req[w].list}, nth: 1..CodeCount]
          BY <5>2, <5>3 DEF Code
        <5> QED BY <2>2, <5>1, <5>4 DEF CodesKnown
      <4> QED BY <4>1, <4>2, <4>3
    <3> QED BY <3>1, <3>2
  <2> QED BY <2>1, <2>2, <2>3 DEF CodesKnown
<1> QED BY <1>1, <1>2, <1>3

LEMMA SurviveStep ==
  ASSUME TypeOK, TypeOK', InFlight, SurviveInv, [Next]_vars
  PROVE  SurviveInv'
<1>1. ASSUME NEW w \in Workers, Arrive(w) \/ Continue(w) PROVE SurviveInv'
  <2>1. /\ SecretKnown => SecretKnown'
        /\ totp_secret # 0 => totp_secret' # 0
        /\ totp_secret' = totp_secret \/ SecretKnown'
    BY <1>1, SecretStep
  <2>2. /\ CodesKnown => CodesKnown'
        /\ mfa_enabled' => mfa_enabled \/ (pc[w] = "enable" /\ CodesKnown')
    BY <1>1, CodesStep
  <2>3. UNCHANGED crashes
    BY <1>1 DEF Arrive, Setup, Confirm, VerifyTotp, VerifyRecoveryCode, Accept, Continue,
                StoreSecret, ShowSecret, Enable, DeleteCodes, LockCodes, InsertCodes, ShowCodes,
                SpendCode, OpenSession
  <2>4. ASSUME NEW v \in Workers, pc'[v] = "enable" PROVE totp_secret' # 0
    <3>1. CASE pc[v] = "enable"
      BY <2>1, <3>1 DEF SurviveInv
    <3>2. CASE v = w /\ pc[w] # "enable"
      <4>1. Confirm(w)
        <5>1. CASE Continue(w)
          BY <2>4, <3>2, <5>1
          DEF Continue, StoreSecret, ShowSecret, Enable, DeleteCodes, LockCodes, InsertCodes,
              ShowCodes, SpendCode, OpenSession, Goto, Finish, TypeOK
        <5>2. CASE Arrive(w) /\ ~Confirm(w)
          <6>1. \/ \E r : Accept(w, "store", r)
                \/ \E r : Accept(w, "session", r)
                \/ \E r : Accept(w, "spend", r)
            BY <5>2 DEF Arrive, Setup, VerifyTotp, VerifyRecoveryCode
          <6> QED BY <2>4, <3>2, <6>1, AcceptEffect
        <5> QED BY <1>1, <5>1, <5>2
      <4>2. totp_secret \in shown /\ shown \subseteq 1..secrets /\ secrets \in Nat
        BY <4>1 DEF Confirm, TypeOK
      <4> QED BY <2>1, <4>2
    <3>3. CASE v # w
      BY <1>1, <2>4, <3>1, <3>3, OthersKeep
    <3> QED BY <3>1, <3>2, <3>3
  <2>5. mfa_enabled' => totp_secret' # 0
    BY <2>1, <2>2 DEF SurviveInv
  <2>6. ASSUME crashes = 0
        PROVE  (totp_secret' # 0 => SecretKnown') /\ (mfa_enabled' => CodesKnown')
    BY <2>1, <2>2, <2>6 DEF SurviveInv
  <2>7. ASSUME crashes = 1
        PROVE  mfa_enabled' => SecretKnown' \/ CodesKnown'
    BY <2>1, <2>2, <2>7 DEF SurviveInv
  <2> QED BY <2>3, <2>4, <2>5, <2>6, <2>7 DEF SurviveInv
<1>2. ASSUME NEW w \in Workers, Crash(w) PROVE SurviveInv'
  <2>1. /\ UNCHANGED <<totp_secret, mfa_enabled, recovery_codes, shown, told>>
        /\ crashes' = crashes + 1 /\ crashes \in Nat
    BY <1>2 DEF Crash, kept, TypeOK
  <2>2. /\ pc'[w] = "idle"
        /\ \A v \in Workers : v # w => pc'[v] = pc[v] /\ req'[v] = req[v]
    BY <1>2, FinishEffect DEF Crash
  <2>3. pc[w] # "show" => (SecretKnown => SecretKnown')
    BY <2>1, <2>2 DEF SecretKnown
  <2>4. pc[w] = "show" => (CodesKnown => CodesKnown')
    BY <2>1, <2>2 DEF CodesKnown
  <2>5. ASSUME crashes = 0, mfa_enabled PROVE SecretKnown' \/ CodesKnown'
    BY <2>3, <2>4, <2>5 DEF SurviveInv
  <2>6. \A v \in Workers : pc'[v] = "enable" => totp_secret' # 0
    BY <2>1, <2>2 DEF SurviveInv
  <2>7. mfa_enabled' => totp_secret' # 0
    BY <2>1 DEF SurviveInv
  <2>8. crashes' # 0 /\ (crashes' = 1 => crashes = 0)
    BY <2>1
  <2> QED BY <2>1, <2>5, <2>6, <2>7, <2>8 DEF SurviveInv
<1>3. CASE UNCHANGED vars
  BY <1>3 DEF vars, kept, SurviveInv, SecretKnown, CodesKnown
<1> QED BY <1>1, <1>2, <1>3 DEF Next

(* A single crash, at whatever moment and whatever else runs, leaves the   *)
(* owner of an account with MFA either the secret or a recovery code.      *)
THEOREM OneCrashLocksNobodyOut == Spec => []OneCrashIsSurvived
<1>1. Init => SurviveInv
  BY DEF Init, SurviveInv
<1>2. IInv /\ SurviveInv /\ [Next]_vars => SurviveInv'
  BY StepInv, SurviveStep DEF IInv
<1>3. IInv /\ SurviveInv => OneCrashIsSurvived
  <2> SUFFICES ASSUME IInv, SurviveInv, mfa_enabled, crashes <= 1,
                      \A w \in Workers : pc[w] = "idle"
               PROVE  \/ totp_secret \in shown
                      \/ \E r \in recovery_codes : r.code \in told
    BY DEF OneCrashIsSurvived
  <2>1. crashes = 0 \/ crashes = 1
    BY DEF IInv, TypeOK
  <2>2. SecretKnown \/ CodesKnown
    BY <2>1 DEF SurviveInv
  <2> QED BY <2>2 DEF SecretKnown, CodesKnown
<1> QED BY InitInv, StepInv, <1>1, <1>2, <1>3, PTL DEF Spec

=============================================================================
