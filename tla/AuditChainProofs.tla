-------------------------- MODULE AuditChainProofs --------------------------
(***************************************************************************)
(* Theorems about AuditChain, for every number of workers, rows and texts. *)
(*                                                                         *)
(* The argument: a hash holds the id it was computed with, so as long as   *)
(* nobody touches the table two rows never share a hash, and a row's       *)
(* prev_hash is the hash of one row that was committed before it (IInv). A *)
(* row that commits late can therefore never be the one a broken link was  *)
(* looking for. With a single worker no row can come in between, so that   *)
(* no link breaks in the first place. A single change of the table leaves  *)
(* a trace that nothing logged later covers up (Traced).                   *)
(***************************************************************************)
EXTENDS AuditChain, TLAPS, FiniteSetTheorems, WellFoundedInduction

(* The prev_hash of e was read when no row was there or from a row of R.   *)
ReadFrom(e, R) == e.prev_hash = NoHash \/ \E f \in R : e.prev_hash = f.hash

(* What e's columns say about its hash and about the rows before it.       *)
Sealed(e) ==
    /\ e.hash = ComputeHash(e.id, e.details, e.prev_hash)
    /\ ReadFrom(e, Before(e))

(* Workers that flushed their row hold distinct ids.                       *)
DistinctIds ==
    /\ entry = [w \in Workers |-> entry[w]]
    /\ \A v, w \in Workers :
          v # w /\ pc[v] = "commit" /\ pc[w] = "commit" => entry[v].id # entry[w].id

(* Nothing was changed outside the application, so every row is sealed.    *)
Chained ==
    edits = {} =>
        /\ \A e \in rows : Sealed(e)
        /\ \A w \in Workers : pc[w] = "commit" => Sealed(entry[w])
        /\ \A w \in Workers : pc[w] = "flush" => ReadFrom(entry[w], rows)

IInv == TypeOK /\ DistinctIds /\ Chained

-----------------------------------------------------------------------------
(* Rows with different ids have different hashes, and no hash is NULL.     *)
LEMMA HashInjective ==
    ASSUME NEW i, NEW d, NEW p, NEW j, NEW c, NEW q
    PROVE  /\ ComputeHash(i, d, p) = ComputeHash(j, c, q) => i = j
           /\ ComputeHash(i, d, p) # NoHash
  BY DEF ComputeHash, NoHash

(* The state log_event starts from.                                        *)
LEMMA InitInv == Init => IInv
  BY TextsAssumption
  DEF Init, IInv, TypeOK, DistinctIds, Chained, AuditLog, NoEntry, Details

(* The first half of log_event: nothing is written yet.                    *)
LEMMA ReadInv ==
    ASSUME IInv, NEW w \in Workers, ReadLastEntry(w)
    PROVE  IInv'
<1> USE DEF IInv
<1>1. PICK d \in Details, h \in LastHashes :
         entry' = [entry EXCEPT ![w] = AuditLog(0, d, h, NoHash)]
  BY DEF ReadLastEntry
<1>2. entry' = [v \in Workers |-> IF v = w THEN AuditLog(0, d, h, NoHash) ELSE entry[v]]
  BY <1>1 DEF DistinctIds
<1>3. ReadFrom(entry'[w], rows)
  BY <1>2 DEF LastHashes, ReadFrom, AuditLog
<1>4. TypeOK'
  BY <1>2 DEF TypeOK, ReadLastEntry, AuditLog
<1>5. DistinctIds'
  BY <1>2 DEF TypeOK, DistinctIds, ReadLastEntry
<1>6. Chained'
  <2>1. \A e : Sealed(e) => Sealed(e)'
    BY DEF Sealed, ReadFrom, Before, ReadLastEntry
  <2>2. \A v \in Workers : pc'[v] = "commit" => pc[v] = "commit" /\ entry'[v] = entry[v]
    BY <1>2 DEF TypeOK, ReadLastEntry
  <2>3. ASSUME edits' = {}, NEW v \in Workers, pc'[v] = "commit" PROVE Sealed(entry[v])'
    BY <2>2, <2>3 DEF Chained, Sealed, ReadFrom, Before, ReadLastEntry
  <2>4. ASSUME edits' = {}, NEW v \in Workers, pc'[v] = "flush" PROVE ReadFrom(entry[v], rows)'
    BY <1>2, <1>3, <2>4 DEF Chained, ReadFrom, ReadLastEntry, TypeOK
  <2> QED BY <2>1, <2>3, <2>4 DEF Chained, ReadLastEntry
<1> QED BY <1>4, <1>5, <1>6

(* The row gets an id past every id handed out before.                     *)
LEMMA FlushInv ==
    ASSUME IInv, NEW w \in Workers, Flush(w)
    PROVE  IInv'
<1> USE DEF IInv
<1> DEFINE n == AuditLog(seq + 1, entry[w].details, entry[w].prev_hash,
                         ComputeHash(seq + 1, entry[w].details, entry[w].prev_hash))
<1>1. entry' = [v \in Workers |-> IF v = w THEN n ELSE entry[v]]
  BY DEF Flush, NextId, DistinctIds
<1>2. /\ n.id = seq + 1 /\ n.details = entry[w].details /\ n.prev_hash = entry[w].prev_hash
      /\ n.hash = ComputeHash(n.id, n.details, n.prev_hash)
  BY DEF AuditLog
<1> HIDE DEF n
<1>3. \A e \in rows : e.id < n.id
  BY <1>2 DEF TypeOK
<1>4. \A v \in Workers : pc[v] = "commit" => entry[v].id # n.id
  BY <1>2 DEF TypeOK
<1>5. TypeOK'
  <2>1. \A e \in rows' : e.id \in 1..seq' /\ e.details \in Details
    BY DEF TypeOK, Flush
  <2>2. \A v \in Workers : entry'[v].details \in Details
    BY <1>1, <1>2 DEF TypeOK
  <2>3. \A v \in Workers : pc'[v] = "commit" => v = w \/ pc[v] = "commit"
    BY DEF TypeOK, Flush
  <2>4. rows' = rows /\ seq' = seq + 1
    BY DEF Flush
  <2>5. \A v \in Workers : pc'[v] = "commit" =>
           entry'[v].id \in 1..seq' /\ \A e \in rows' : e.id # entry'[v].id
    <3> SUFFICES ASSUME NEW v \in Workers, pc'[v] = "commit"
                 PROVE  entry'[v].id \in 1..seq' /\ \A e \in rows' : e.id # entry'[v].id
      OBVIOUS
    <3>1. CASE v = w
      BY <1>1, <1>2, <1>3, <2>4, <3>1 DEF TypeOK
    <3>2. CASE v # w
      BY <1>1, <2>3, <2>4, <3>2 DEF TypeOK
    <3> QED BY <3>1, <3>2
  <2> QED BY <2>1, <2>2, <2>5 DEF TypeOK, Flush
<1>6. DistinctIds'
  BY <1>1, <1>2, <1>4 DEF TypeOK, DistinctIds, Flush
<1>7. Chained'
  <2> SUFFICES ASSUME edits = {} PROVE Chained'
    BY DEF Chained, Flush
  <2>1. Before(n) = rows
    BY <1>3 DEF Before
  <2>2. Sealed(n)
    BY <1>2, <2>1 DEF Chained, Sealed, ReadFrom, Flush
  <2>3. \A e \in rows : Sealed(e)'
    BY DEF Chained, Sealed, ReadFrom, Before, Flush
  <2>4. \A v \in Workers : pc'[v] = "commit" => Sealed(entry'[v])
    BY <1>1, <2>2 DEF Chained, TypeOK, Flush
  <2>5. \A v \in Workers : pc'[v] = "commit" => Sealed(entry[v])'
    BY <2>4 DEF Sealed, ReadFrom, Before, Flush
  <2>6. \A v \in Workers : pc'[v] = "flush" => pc[v] = "flush" /\ entry'[v] = entry[v]
    BY <1>1 DEF TypeOK, Flush
  <2>7. \A v \in Workers : pc'[v] = "flush" => ReadFrom(entry[v], rows)'
    BY <2>6 DEF Chained, ReadFrom, Flush
  <2>8. rows' = rows
    BY DEF Flush
  <2> QED BY <2>3, <2>5, <2>7, <2>8 DEF Chained
<1> QED BY <1>5, <1>6, <1>7

(* A row becomes visible, perhaps after rows with a greater id.            *)
LEMMA CommitInv ==
    ASSUME IInv, NEW w \in Workers, Commit(w)
    PROVE  IInv'
<1> USE DEF IInv
<1>1. /\ rows' = rows \cup {entry[w]} /\ pc[w] = "commit"
      /\ pc' = [pc EXCEPT ![w] = "idle"]
      /\ entry' = [v \in Workers |-> IF v = w THEN NoEntry ELSE entry[v]]
      /\ UNCHANGED <<seq, edits>>
  BY DEF Commit, DistinctIds
<1>2. NoEntry.details \in Details
  BY DEF NoEntry, AuditLog, Details
<1>3. \A v \in Workers : pc'[v] # "idle" => pc'[v] = pc[v] /\ entry'[v] = entry[v] /\ v # w
  BY <1>1 DEF TypeOK
<1>4. TypeOK'
  BY <1>1, <1>2, <1>3 DEF TypeOK, DistinctIds
<1>5. DistinctIds'
  BY <1>1, <1>3 DEF TypeOK, DistinctIds
<1>6. Chained'
  <2> SUFFICES ASSUME edits = {} PROVE Chained'
    BY <1>1 DEF Chained
  <2>1. \A e : Before(e) \subseteq Before(e)'
    BY <1>1 DEF Before
  <2>2. \A e : Sealed(e) => Sealed(e)'
    BY <2>1 DEF Sealed, ReadFrom
  <2>3. \A e \in rows' : Sealed(e)'
    BY <1>1, <2>2 DEF Chained
  <2>4. \A v \in Workers : pc'[v] = "commit" => Sealed(entry[v])'
    BY <1>3, <2>2 DEF Chained, Sealed
  <2>5. \A v \in Workers : pc'[v] = "flush" => ReadFrom(entry[v], rows)'
    BY <1>1, <1>3 DEF Chained, ReadFrom
  <2> QED BY <2>3, <2>4, <2>5 DEF Chained
<1> QED BY <1>4, <1>5, <1>6

(* A row that is given up leaves the table as it was.                      *)
LEMMA AbortInv ==
    ASSUME IInv, NEW w \in Workers, Abort(w)
    PROVE  IInv'
<1> USE DEF IInv
<1>1. /\ pc' = [pc EXCEPT ![w] = "idle"]
      /\ entry' = [v \in Workers |-> IF v = w THEN NoEntry ELSE entry[v]]
      /\ UNCHANGED <<rows, seq, edits>>
  BY DEF Abort, DistinctIds
<1>2. NoEntry.details \in Details
  BY DEF NoEntry, AuditLog, Details
<1>3. \A v \in Workers : pc'[v] # "idle" => pc'[v] = pc[v] /\ entry'[v] = entry[v] /\ v # w
  BY <1>1 DEF TypeOK
<1>4. TypeOK' /\ DistinctIds'
  BY <1>1, <1>2, <1>3 DEF TypeOK, DistinctIds
<1>5. Chained'
  <2>1. \A v \in Workers : pc'[v] # "idle" => Sealed(entry[v])' = Sealed(entry[v])
    BY <1>1, <1>3 DEF Sealed, ReadFrom, Before
  <2>2. \A e : Sealed(e)' = Sealed(e)
    BY <1>1 DEF Sealed, ReadFrom, Before
  <2>3. ASSUME NEW v \in Workers, pc'[v] = "flush", ReadFrom(entry[v], rows)
        PROVE  ReadFrom(entry[v], rows)'
    BY <1>1, <1>3, <2>3 DEF ReadFrom
  <2> QED BY <1>1, <1>3, <2>1, <2>2, <2>3 DEF Chained
<1> QED BY <1>4, <1>5

(* A change from outside ends the innocence Chained speaks of.             *)
LEMMA ChangeInv ==
    ASSUME IInv, NEW e \in rows, Delete(e) \/ \E d \in Details : Edit(e, d)
    PROVE  IInv'
<1> USE DEF IInv, Change
<1>1. edits' # {}
  BY DEF Delete, Edit
<1>2. UNCHANGED <<seq, pc, entry>>
  BY DEF Delete, Edit
<1>3. CASE Delete(e)
  BY <1>1, <1>2, <1>3 DEF Delete, TypeOK, DistinctIds, Chained
<1>4. ASSUME NEW d \in Details, Edit(e, d) PROVE IInv'
  <2> DEFINE n == AuditLog(e.id, d, e.prev_hash, e.hash)
  <2>1. rows' = (rows \ {e}) \cup {n} /\ n.id = e.id /\ n.details = d
    BY <1>4 DEF Edit, AuditLog
  <2> HIDE DEF n
  <2>2. TypeOK'
    BY <1>2, <2>1 DEF TypeOK
  <2> QED BY <1>1, <1>2, <2>2 DEF DistinctIds, Chained
<1> QED BY <1>3, <1>4

(* Every step keeps the invariant.                                         *)
LEMMA StepInv == IInv /\ [Next]_vars => IInv'
<1> SUFFICES ASSUME IInv, [Next]_vars PROVE IInv'
  OBVIOUS
<1>1. CASE UNCHANGED vars
  BY <1>1 DEF IInv, vars, TypeOK, DistinctIds, Chained, Sealed, ReadFrom, Before
<1>2. CASE Next
  BY <1>1, <1>2, ReadInv, FlushInv, CommitInv, AbortInv, ChangeInv DEF Next, Over
<1> QED BY <1>1, <1>2

-----------------------------------------------------------------------------
(* Ids are unique and every variable keeps its type, however the workers   *)
(* interleave: log_event's ids come from a sequence.                       *)
THEOREM TypeCorrect == Spec => []TypeOK
<1>1. IInv => TypeOK
  BY DEF IInv
<1> QED BY InitInv, StepInv, <1>1, PTL DEF Spec

(* A row in Broken keeps a wrong link when another row commits: the row    *)
(* its prev_hash names was there before.                                   *)
LEMMA LinkStaysBroken ==
    ASSUME IInv, edits = {}, NEW w \in Workers, Commit(w), NEW e \in rows, ~LinkOK(e)
    PROVE  ~LinkOK(e)'
<1> USE DEF IInv
<1> DEFINE n == entry[w]
<1>1. rows' = rows \cup {n} /\ pc[w] = "commit"
  BY DEF Commit
<1>2. Sealed(e) /\ Sealed(n) /\ \A f \in rows : Sealed(f)
  BY <1>1 DEF Chained
<1>3. \A f \in rows : f.id # n.id
  BY <1>1 DEF TypeOK
<1>4. n.hash # NoHash /\ \A f \in rows : f.hash # n.hash /\ f.hash # NoHash
  BY <1>2, <1>3, HashInjective DEF Sealed
<1>5. e.prev_hash # n.hash
  BY <1>2, <1>4 DEF Sealed, ReadFrom, Before
<1>6. Before(e)' = Before(e) \cup (IF n.id < e.id THEN {n} ELSE {})
  BY <1>1 DEF Before
<1>7. \A f \in rows : f.id \in Int
  BY DEF TypeOK
<1> HIDE DEF n
<1> SUFFICES ASSUME LinkOK(e)' PROVE FALSE
  OBVIOUS
<1>8. CASE Before(e)' = {}
  BY <1>6, <1>8 DEF LinkOK
<1>9. CASE Before(e)' # {}
  <2>1. PICK f \in Before(e)' : e.prev_hash = f.hash /\ \A g \in Before(e)' : g.id <= f.id
    BY <1>9 DEF LinkOK
  <2>2. f \in Before(e)
    BY <1>5, <1>6, <2>1
  <2> QED BY <1>6, <2>1, <2>2 DEF LinkOK
<1> QED BY <1>8, <1>9

(* A fork or a late commit that verify_chain reports is reported for ever, *)
(* with any number of workers: nothing log_event does later mends it.      *)
THEOREM AlarmNeverMends == Spec => AlarmPermanent
<1>1. ASSUME IInv, [Next]_vars, edits' = {} PROVE Broken \subseteq Broken'
  <2>1. edits = {}
    BY <1>1 DEF Next, ReadLastEntry, Flush, Commit, Abort, Delete, Edit, Change, Over, vars
  <2>2. CASE UNCHANGED rows
    BY <2>2 DEF Broken, EntryOK, LinkOK, Before
  <2>3. ASSUME NEW w \in Workers, Commit(w) PROVE Broken \subseteq Broken'
    <3>1. \A e \in Broken : e \in rows /\ ~LinkOK(e)
      BY <1>1, <2>1 DEF Broken, EntryOK, IInv, Chained, Sealed
    <3>2. \A e \in Broken : e \in rows' /\ ~LinkOK(e)'
      BY <1>1, <2>1, <2>3, <3>1, LinkStaysBroken DEF Commit
    <3> QED BY <3>2 DEF Broken, EntryOK
  <2>4. UNCHANGED rows \/ \E w \in Workers : Commit(w)
    BY <1>1 DEF Next, ReadLastEntry, Flush, Abort, Delete, Edit, Change, Over, vars
  <2> QED BY <2>2, <2>3, <2>4
<1>2. IInv /\ [Next]_vars => [edits' = {} => Broken \subseteq Broken']_vars
  BY <1>1
<1> QED BY InitInv, StepInv, <1>2, PTL DEF Spec, AlarmPermanent

-----------------------------------------------------------------------------
(* One worker.                                                             *)

Serial == \A v, w \in Workers : v = w

(* Every link holds, and the row being written continues from the newest.  *)
Linked ==
    edits = {} =>
        /\ \A e \in rows : LinkOK(e)
        /\ \A w \in Workers : pc[w] # "idle" => entry[w].prev_hash \in LastHashes
        /\ \A w \in Workers, e \in rows : pc[w] = "commit" => e.id < entry[w].id

(* With one worker nothing comes between the read and the commit.          *)
LEMMA LinkedStep ==
    ASSUME Serial, IInv, Linked, [Next]_vars
    PROVE  Linked'
<1> USE DEF Serial
<1>1. CASE UNCHANGED vars
  BY <1>1 DEF vars, Linked, LinkOK, Before, LastHashes, IsNewest
<1>2. ASSUME NEW w \in Workers, ReadLastEntry(w) PROVE Linked'
  <2>1. UNCHANGED <<rows, seq, edits>> /\ pc' = [pc EXCEPT ![w] = "flush"]
    BY <1>2 DEF ReadLastEntry
  <2>2. PICK d \in Details, h \in LastHashes :
           entry' = [entry EXCEPT ![w] = AuditLog(0, d, h, NoHash)]
    BY <1>2 DEF ReadLastEntry
  <2>3. entry'[w].prev_hash \in LastHashes
    BY <2>2 DEF AuditLog, IInv, DistinctIds
  <2>4. LastHashes' = LastHashes
    BY <2>1 DEF LastHashes, IsNewest
  <2>5. \A v \in Workers : pc'[v] = "flush" /\ entry'[v].prev_hash \in LastHashes'
    BY <2>1, <2>3, <2>4 DEF IInv, TypeOK
  <2>6. \A e : LinkOK(e)' = LinkOK(e)
    BY <2>1 DEF LinkOK, Before
  <2> QED BY <2>1, <2>5, <2>6 DEF Linked
<1>3. ASSUME NEW w \in Workers, Flush(w) PROVE Linked'
  <2>1. UNCHANGED <<rows, edits>> /\ pc[w] = "flush"
    BY <1>3 DEF Flush
  <2>2. entry'[w].prev_hash = entry[w].prev_hash /\ entry'[w].id = seq + 1
    BY <1>3 DEF Flush, NextId, AuditLog, IInv, DistinctIds
  <2>3. LastHashes' = LastHashes
    BY <2>1 DEF LastHashes, IsNewest
  <2>4. ASSUME edits' = {}, NEW v \in Workers PROVE entry'[v].prev_hash \in LastHashes'
    <3>1. v = w
      OBVIOUS
    <3>2. entry[w].prev_hash \in LastHashes
      BY <2>1, <2>4 DEF Linked
    <3> QED BY <2>2, <2>3, <3>1, <3>2
  <2>5. ASSUME NEW v \in Workers, NEW e \in rows' PROVE e.id < entry'[v].id
    <3>1. v = w
      OBVIOUS
    <3>2. e.id < seq + 1
      BY <2>1 DEF IInv, TypeOK
    <3> QED BY <2>2, <3>1, <3>2
  <2>6. ASSUME edits' = {}, NEW e \in rows' PROVE LinkOK(e)'
    BY <2>1, <2>6 DEF Linked, LinkOK, Before
  <2> QED BY <2>4, <2>5, <2>6 DEF Linked
<1>4. ASSUME NEW w \in Workers, Commit(w) PROVE Linked'
  <2> SUFFICES ASSUME edits = {} PROVE Linked'
    BY <1>4 DEF Commit, Linked
  <2>1. PICK n : n = entry[w]
    OBVIOUS
  <2>2. rows' = rows \cup {n} /\ pc[w] = "commit" /\ pc' = [pc EXCEPT ![w] = "idle"]
    BY <1>4, <2>1 DEF Commit
  <2>3. /\ \A e \in rows : e.id < n.id /\ LinkOK(e)
        /\ n.prev_hash \in LastHashes
    BY <2>1, <2>2 DEF Linked
  <2>4. n.id \in Int /\ \A e \in rows : e.id \in Int
    BY <2>1, <2>2 DEF IInv, TypeOK
  <2>5. Before(n)' = rows
    <3>1. {f \in rows \cup {n} : f.id < n.id} = rows
      BY <2>3, <2>4
    <3> QED BY <2>2, <3>1 DEF Before
  <2>6. LinkOK(n)'
    BY <2>3, <2>5 DEF LinkOK, LastHashes, IsNewest
  <2>7. ASSUME NEW e \in rows PROVE LinkOK(e)'
    <3>1. Before(e)' = Before(e)
      BY <2>2, <2>3, <2>4 DEF Before
    <3> QED BY <2>3, <3>1 DEF LinkOK
  <2>8. \A v \in Workers : pc'[v] = "idle"
    BY <2>2 DEF IInv, TypeOK
  <2>9. \A e \in rows' : LinkOK(e)'
    BY <2>2, <2>6, <2>7
  <2> QED BY <2>8, <2>9 DEF Linked
<1>5. ASSUME NEW w \in Workers, Abort(w) PROVE Linked'
  <2>1. UNCHANGED <<rows, edits>> /\ pc' = [pc EXCEPT ![w] = "idle"]
    BY <1>5 DEF Abort
  <2>2. \A v \in Workers : pc'[v] = "idle"
    BY <2>1 DEF IInv, TypeOK
  <2>3. \A e : LinkOK(e)' = LinkOK(e)
    BY <2>1 DEF LinkOK, Before
  <2> QED BY <2>1, <2>2, <2>3 DEF Linked
<1>6. ASSUME NEW e \in rows, Delete(e) \/ \E d \in Details : Edit(e, d) PROVE Linked'
  BY <1>6 DEF Delete, Edit, Change, Linked
<1> QED BY <1>1, <1>2, <1>3, <1>4, <1>5, <1>6 DEF Next, Over

(* When one worker logs at a time and nobody touches the table,            *)
(* verify_chain finds the chain intact, however much is logged.            *)
THEOREM SerialChain == ASSUME Serial PROVE Spec => []NoFalseAlarm
<1>1. Init => Linked
  BY DEF Init, Linked
<1>2. IInv /\ Linked /\ [Next]_vars => Linked'
  BY LinkedStep
<1>3. IInv /\ Linked => NoFalseAlarm
  BY DEF IInv, Chained, Sealed, Linked, NoFalseAlarm, Intact, Broken, EntryOK
<1> QED BY InitInv, StepInv, <1>1, <1>2, <1>3, PTL DEF Spec

-----------------------------------------------------------------------------
(* Forks. A row names the row whose hash it holds, which is one before it. *)
(* Its link is broken when another row came to stand in between.           *)

(* The hash of e was computed from some text, not always the one e has.    *)
Genuine(e) == \E d \in Details : e.hash = ComputeHash(e.id, d, e.prev_hash)

Threaded == \A e \in rows : Genuine(e) /\ ReadFrom(e, Before(e))

(* e names the row with id i; no row is named by 0.                        *)
Names(e, i) == \/ e.prev_hash = NoHash /\ i = 0
               \/ \E f \in rows : f.id = i /\ e.prev_hash = f.hash

(* Every set of ids has a least one.                                       *)
LEMMA LeastId ==
  ASSUME NEW S \in SUBSET Nat, S # {}
  PROVE  \E n \in S : \A m \in S : n <= m
<1> DEFINE R == OpToRel(<, Nat)
<1>1. IsWellFoundedOn(R, Nat)
  BY NatLessThanWellFounded
<1>2. PICK n \in S : \A m \in S : ~(<<m, n>> \in R)
  <2> HIDE DEF R
  <2> QED BY <1>1, WFMin
<1>3. \A m \in S : ~(m < n)
  BY <1>2 DEF OpToRel
<1> QED BY <1>3

(* A hash tells the row it belongs to.                                     *)
LEMMA HashTells ==
  ASSUME TypeOK, NEW e \in rows, Genuine(e), NEW f \in rows, Genuine(f)
  PROVE  e.hash # NoHash /\ (e.hash = f.hash => e = f)
  BY HashInjective DEF Genuine, TypeOK

(* A row is named by an id below its own, and only by one.                 *)
LEMMA NamesOne ==
  ASSUME TypeOK, Threaded, NEW e \in rows
  PROVE  /\ \E i \in Nat : Names(e, i)
         /\ \A i : Names(e, i) => i \in Nat /\ i < e.id
         /\ \A i, j : Names(e, i) /\ Names(e, j) => i = j
<1>1. \A f \in rows : f.id \in Nat \ {0}
  BY DEF TypeOK
<1>2. \A f, g \in rows : f.hash # NoHash /\ (f.hash = g.hash => f = g)
  BY HashTells DEF Threaded
<1>3. ReadFrom(e, Before(e))
  BY DEF Threaded
<1> QED BY <1>1, <1>2, <1>3 DEF Names, ReadFrom, Before

(* A link is broken exactly when a row stands between it and the row named.*)
LEMMA BrokenLink ==
  ASSUME TypeOK, Threaded, NEW e \in rows, NEW i \in Nat, Names(e, i)
  PROVE  LinkOK(e) <=> \A g \in Before(e) : g.id <= i
<1>1. \A f \in rows : f.id \in Nat \ {0}
  BY DEF TypeOK
<1>2. \A f, g \in rows : f.hash # NoHash /\ (f.hash = g.hash => f = g)
  BY HashTells DEF Threaded
<1>3. i < e.id
  BY NamesOne
<1>4. CASE e.prev_hash = NoHash
  <2>1. i = 0
    BY <1>2, <1>4 DEF Names
  <2>2. Before(e) \subseteq rows
    BY DEF Before
  <2> QED BY <1>1, <1>2, <1>4, <2>1, <2>2 DEF LinkOK
<1>5. CASE e.prev_hash # NoHash
  <2>1. PICK f \in rows : f.id = i /\ e.prev_hash = f.hash
    BY <1>5 DEF Names
  <2>2. f \in Before(e)
    BY <1>3, <2>1 DEF Before
  <2>3. \A g \in Before(e) : e.prev_hash = g.hash => g = f
    BY <1>2, <2>1 DEF Before
  <2> QED BY <2>1, <2>2, <2>3 DEF LinkOK
<1> QED BY <1>4, <1>5

(* A fork breaks the later of the two rows that name the same one.         *)
LEMMA ForkBreaks ==
  ASSUME TypeOK, Threaded, NEW e \in rows, NEW f \in rows, e.id < f.id,
         e.prev_hash = f.prev_hash
  PROVE  ~LinkOK(f)
<1>1. PICK i \in Nat : Names(e, i) /\ i < e.id
  BY NamesOne
<1>2. Names(f, i)
  BY <1>1 DEF Names
<1>3. e \in Before(f) /\ e.id \in Nat
  BY DEF Before, TypeOK
<1> QED BY <1>1, <1>2, <1>3, BrokenLink

(* Among the broken links take one that names the least row. The first row *)
(* after the one it names must name that row too.                          *)
LEMMA BreakForks ==
  ASSUME TypeOK, Threaded, NEW b \in rows, ~LinkOK(b)
  PROVE  Forked
<1> DEFINE Named == {i \in Nat : \E e \in rows : ~LinkOK(e) /\ Names(e, i)}
<1>1. \A f \in rows : f.id \in Nat \ {0}
  BY DEF TypeOK
<1>2. Named # {}
  BY NamesOne
<1>3. PICK i \in Named : \A j \in Named : i <= j
  <2> HIDE DEF Named
  <2>1. Named \in SUBSET Nat
    BY DEF Named
  <2> QED BY <1>2, <2>1, LeastId
<1>4. PICK e \in rows : ~LinkOK(e) /\ Names(e, i)
  OBVIOUS
<1> DEFINE Between == {g \in Before(e) : i < g.id}
           Ids == {g.id : g \in Between}
<1>5. Between # {}
  BY <1>1, <1>4, BrokenLink DEF Before
<1>6. PICK g \in Between : \A h \in Between : g.id <= h.id
  <2>1. Ids \in SUBSET Nat /\ Ids # {}
    BY <1>1, <1>5 DEF Before
  <2>2. PICK n \in Ids : \A m \in Ids : n <= m
    <3> HIDE DEF Ids
    <3> QED BY <2>1, LeastId
  <2> QED BY <2>2
<1>7. g \in rows /\ g # e /\ i < g.id /\ g.id < e.id /\ i \in Nat
  BY <1>1 DEF Before
<1>8. PICK k \in Nat : Names(g, k) /\ k < g.id
  BY <1>7, NamesOne
<1>9. k <= i
  <2> SUFFICES ASSUME i < k PROVE FALSE
    BY <1>7
  <2>1. PICK f \in rows : f.id = k
    BY <1>7, <1>8 DEF Names
  <2>2. f \in Between
    BY <1>1, <1>7, <1>8, <2>1 DEF Before
  <2> QED BY <1>1, <1>6, <1>7, <1>8, <2>1, <2>2
<1>10. k = i
  <2> SUFFICES ASSUME k < i PROVE FALSE
    BY <1>7, <1>9
  <2>1. PICK f \in rows : f.id = i
    BY <1>4, <1>7 DEF Names
  <2>2. f \in Before(g)
    BY <1>7, <2>1 DEF Before
  <2>3. ~LinkOK(g)
    BY <1>7, <1>8, <2>1, <2>2, BrokenLink
  <2>4. k \in Named
    BY <1>7, <1>8, <2>3
  <2> QED BY <1>3, <1>7, <2>4
<1>11. g.prev_hash = e.prev_hash
  <2>1. \A f, h \in rows : f.id = h.id => f = h
    BY DEF TypeOK
  <2> QED BY <1>1, <1>4, <1>8, <1>10, <2>1 DEF Names
<1> QED BY <1>7, <1>11 DEF Forked

(* Rows that were only ever logged are broken exactly when some are forked.*)
LEMMA LinksAndForks ==
  ASSUME TypeOK, Threaded
  PROVE  (\A e \in rows : LinkOK(e)) <=> ~Forked
<1>1. ASSUME Forked PROVE \E e \in rows : ~LinkOK(e)
  <2>1. PICK e \in rows, f \in rows : e # f /\ e.prev_hash = f.prev_hash
    BY <1>1 DEF Forked
  <2>2. e.id \in Nat /\ f.id \in Nat /\ e.id # f.id
    BY <2>1 DEF TypeOK
  <2> QED BY <2>1, <2>2, ForkBreaks
<1> QED BY <1>1, BreakForks

(* However many workers log at once, the alarm over a table nobody touched *)
(* means that two of them have forked the chain, and a fork never hides.   *)
THEOREM AlarmsAreForks == Spec => []AlarmMeansFork
<1>1. ASSUME IInv, edits = {} PROVE Intact <=> ~Forked
  <2>1. TypeOK /\ \A e \in rows : Sealed(e)
    BY <1>1 DEF IInv, Chained
  <2>2. Threaded
    BY <2>1 DEF Threaded, Sealed, Genuine, TypeOK
  <2>3. Intact <=> \A e \in rows : LinkOK(e)
    BY <2>1 DEF Intact, Broken, EntryOK, Sealed
  <2> QED BY <2>1, <2>2, <2>3, LinksAndForks
<1>2. IInv => AlarmMeansFork
  BY <1>1 DEF AlarmMeansFork
<1> QED BY InitInv, StepInv, <1>2, PTL DEF Spec

-----------------------------------------------------------------------------
(* Changes made outside the application. One change leaves a trace that    *)
(* nothing log_event does covers up: the hash of an edited row is that of  *)
(* its old text, and the row that named a deleted one names no row.        *)

Matches(e) == e.hash = ComputeHash(e.id, e.details, e.prev_hash)

(* Every row and every entry on its way continues from a row before it.    *)
Continued ==
    /\ \A e \in rows : ReadFrom(e, Before(e))
    /\ \A w \in Workers : pc[w] = "commit" => ReadFrom(entry[w], Before(entry[w]))
    /\ \A w \in Workers : pc[w] = "flush" => ReadFrom(entry[w], rows)

(* What the only change, an edit, has left behind.                         *)
EditTrace(x) ==
    \E e \in rows : /\ e.id = x.id /\ e.details = x.new
                    /\ e.hash = ComputeHash(e.id, x.old, e.prev_hash)

(* What the only change, a deletion, has left behind. A hash starts with   *)
(* the id it was computed from.                                            *)
DeleteTrace(x) ==
    /\ \A e \in rows : e.id # x.id
    /\ ~x.last => \E e \in rows : /\ x.id < e.id
                                  /\ e.prev_hash # NoHash /\ e.prev_hash[1] = x.id

Traced ==
    /\ IsFiniteSet(edits)
    /\ \A x \in edits : /\ x.kind \in {"edit", "delete"} /\ x.id \in 1..seq
                        /\ \A w \in Workers : pc[w] = "commit" => entry[w].id # x.id
    /\ \A e \in rows : Genuine(e) /\ ((\A x \in edits : x.id # e.id) => Matches(e))
    /\ \A w \in Workers : pc[w] = "commit" => Matches(entry[w])
    /\ (\A x \in edits : x.kind = "edit") => Continued
    /\ \A x \in edits : edits = {x} => IF x.kind = "edit" THEN EditTrace(x) ELSE DeleteTrace(x)

(* Steps that leave the table alone keep what is said of the rows.         *)
LEMMA TracedRows ==
  ASSUME TypeOK, Traced, UNCHANGED <<rows, edits>>, seq' \in {seq, seq + 1}
  PROVE  /\ IsFiniteSet(edits')
         /\ \A x \in edits' : x.kind \in {"edit", "delete"} /\ x.id \in 1..seq'
         /\ \A e \in rows' : Genuine(e)' /\ ((\A x \in edits' : x.id # e.id) => Matches(e)')
         /\ \A x \in edits' : edits' = {x} =>
               IF x.kind = "edit" THEN EditTrace(x)' ELSE DeleteTrace(x)'
<1>1. \A x \in edits : x.id \in 1..seq'
  BY DEF TypeOK, Traced
<1> QED BY <1>1 DEF Traced, Genuine, Matches, EditTrace, DeleteTrace

LEMMA ReadTraced ==
  ASSUME IInv, Traced, NEW w \in Workers, ReadLastEntry(w)
  PROVE  Traced'
<1> USE DEF IInv
<1>1. PICK d \in Details, h \in LastHashes :
         entry' = [v \in Workers |-> IF v = w THEN AuditLog(0, d, h, NoHash) ELSE entry[v]]
  BY DEF ReadLastEntry, DistinctIds
<1>2. UNCHANGED <<rows, seq, edits>>
  BY DEF ReadLastEntry
<1>3. \A v \in Workers : pc'[v] = "commit" => pc[v] = "commit" /\ entry'[v] = entry[v]
  BY <1>1 DEF ReadLastEntry, TypeOK
<1>4. \A v \in Workers : pc'[v] = "flush" =>
         v = w \/ (pc[v] = "flush" /\ entry'[v] = entry[v])
  BY <1>1 DEF ReadLastEntry, TypeOK
<1>5. ReadFrom(entry'[w], rows)
  BY <1>1 DEF LastHashes, ReadFrom, AuditLog
<1>6. ASSUME Continued PROVE Continued'
  <2>1. ASSUME NEW v \in Workers, pc'[v] = "commit"
        PROVE  ReadFrom(entry'[v], {f \in rows' : f.id < entry'[v].id})
    BY <1>2, <1>3, <1>6, <2>1 DEF Continued, Before
  <2>2. ASSUME NEW v \in Workers, pc'[v] = "flush" PROVE ReadFrom(entry'[v], rows')
    BY <1>2, <1>4, <1>5, <1>6, <2>2 DEF Continued
  <2> QED BY <1>2, <1>6, <2>1, <2>2 DEF Continued, Before, ReadFrom
<1> QED BY <1>2, <1>3, <1>6, TracedRows DEF Traced, Matches

LEMMA FlushTraced ==
  ASSUME IInv, Traced, NEW w \in Workers, Flush(w)
  PROVE  Traced'
<1> USE DEF IInv
<1> DEFINE n == AuditLog(seq + 1, entry[w].details, entry[w].prev_hash,
                         ComputeHash(seq + 1, entry[w].details, entry[w].prev_hash))
<1>1. entry' = [v \in Workers |-> IF v = w THEN n ELSE entry[v]]
  BY DEF Flush, NextId, DistinctIds
<1>2. /\ n.id = seq + 1 /\ n.prev_hash = entry[w].prev_hash
      /\ n.hash = ComputeHash(n.id, n.details, n.prev_hash)
  BY DEF AuditLog
<1> HIDE DEF n
<1>3. UNCHANGED <<rows, edits>> /\ seq' = seq + 1 /\ pc[w] = "flush"
  BY DEF Flush
<1>4. \A v \in Workers : pc'[v] = "commit" =>
         v = w \/ (pc[v] = "commit" /\ entry'[v] = entry[v])
  BY <1>1 DEF Flush, TypeOK
<1>5. \A v \in Workers : pc'[v] = "flush" => pc[v] = "flush" /\ entry'[v] = entry[v]
  BY <1>1 DEF Flush, TypeOK
<1>6. \A x \in edits : x.id # n.id
  BY <1>2 DEF Traced, TypeOK
<1>7. {f \in rows : f.id < n.id} = rows
  BY <1>2 DEF TypeOK
<1>8. ASSUME Continued PROVE Continued'
  <2>1. ASSUME NEW v \in Workers, pc'[v] = "commit"
        PROVE  ReadFrom(entry'[v], {f \in rows' : f.id < entry'[v].id})
    <3>1. CASE v = w
      BY <1>1, <1>2, <1>3, <1>7, <1>8, <3>1 DEF Continued, ReadFrom
    <3>2. CASE v # w
      BY <1>3, <1>4, <1>8, <2>1, <3>2 DEF Continued, Before
    <3> QED BY <3>1, <3>2
  <2>2. ASSUME NEW v \in Workers, pc'[v] = "flush" PROVE ReadFrom(entry'[v], rows')
    BY <1>3, <1>5, <1>8, <2>2 DEF Continued
  <2> QED BY <1>3, <1>8, <2>1, <2>2 DEF Continued, Before, ReadFrom
<1>9. \A v \in Workers : pc'[v] = "commit" =>
         /\ entry'[v].hash = ComputeHash(entry'[v].id, entry'[v].details, entry'[v].prev_hash)
         /\ \A x \in edits : x.id # entry'[v].id
  BY <1>1, <1>2, <1>4, <1>6 DEF Traced, Matches
<1> QED BY <1>3, <1>8, <1>9, TracedRows DEF Traced, Matches

LEMMA AbortTraced ==
  ASSUME IInv, Traced, NEW w \in Workers, Abort(w)
  PROVE  Traced'
<1> USE DEF IInv
<1>1. UNCHANGED <<rows, seq, edits>>
  BY DEF Abort
<1>2. \A v \in Workers : pc'[v] # "idle" => pc'[v] = pc[v] /\ entry'[v] = entry[v]
  BY DEF Abort, TypeOK, DistinctIds
<1>3. ASSUME Continued PROVE Continued'
  <2>1. ASSUME NEW v \in Workers, pc'[v] = "commit"
        PROVE  ReadFrom(entry'[v], {f \in rows' : f.id < entry'[v].id})
    BY <1>1, <1>2, <1>3, <2>1 DEF Continued, Before
  <2>2. ASSUME NEW v \in Workers, pc'[v] = "flush" PROVE ReadFrom(entry'[v], rows')
    BY <1>1, <1>2, <1>3, <2>2 DEF Continued
  <2> QED BY <1>1, <1>3, <2>1, <2>2 DEF Continued, Before, ReadFrom
<1> QED BY <1>1, <1>2, <1>3, TracedRows DEF Traced, Matches

LEMMA CommitTraced ==
  ASSUME IInv, Traced, NEW w \in Workers, Commit(w)
  PROVE  Traced'
<1> USE DEF IInv
<1>1. PICK n : n = entry[w]
  OBVIOUS
<1>2. rows' = rows \cup {n} /\ UNCHANGED <<seq, edits>> /\ pc[w] = "commit"
  BY <1>1 DEF Commit
<1>3. \A v \in Workers : pc'[v] # "idle" => pc'[v] = pc[v] /\ entry'[v] = entry[v]
  BY DEF Commit, TypeOK, DistinctIds
<1>4. /\ Matches(n) /\ n.details \in Details
      /\ \A x \in edits : x.id # n.id
  BY <1>1, <1>2 DEF Traced, TypeOK
<1>5. \A e \in rows' : Genuine(e)' /\ ((\A x \in edits' : x.id # e.id) => Matches(e)')
  <2>1. \A e : Genuine(e)' = Genuine(e) /\ Matches(e)' = Matches(e)
    BY DEF Genuine, Matches
  <2>2. Genuine(n)
    BY <1>4 DEF Genuine, Matches
  <2> QED BY <1>2, <1>4, <2>1, <2>2 DEF Traced
<1>6. ASSUME Continued PROVE Continued'
  <2>1. \A e : ReadFrom(e, {f \in rows : f.id < e.id}) =>
               ReadFrom(e, {f \in rows' : f.id < e.id})
    BY <1>2 DEF ReadFrom
  <2>2. ASSUME NEW v \in Workers, pc'[v] = "commit"
        PROVE  ReadFrom(entry'[v], {f \in rows' : f.id < entry'[v].id})
    BY <1>3, <1>6, <2>1, <2>2 DEF Continued, Before
  <2>3. ASSUME NEW v \in Workers, pc'[v] = "flush" PROVE ReadFrom(entry'[v], rows')
    BY <1>2, <1>3, <1>6, <2>3 DEF Continued, ReadFrom
  <2>4. \A e \in rows' : ReadFrom(e, {f \in rows' : f.id < e.id})
    <3>1. ReadFrom(n, {f \in rows : f.id < n.id})
      BY <1>1, <1>2, <1>6 DEF Continued, Before
    <3>2. \A e \in rows : ReadFrom(e, {f \in rows : f.id < e.id})
      BY <1>6 DEF Continued, Before
    <3> QED BY <1>2, <2>1, <3>1, <3>2
  <2> QED BY <2>2, <2>3, <2>4 DEF Continued, Before, ReadFrom
<1>7. ASSUME NEW x \in edits, EditTrace(x) PROVE EditTrace(x)'
  BY <1>2, <1>7 DEF EditTrace
<1>8. ASSUME NEW x \in edits, DeleteTrace(x) PROVE DeleteTrace(x)'
  BY <1>2, <1>4, <1>8 DEF DeleteTrace
<1> QED BY <1>2, <1>3, <1>5, <1>6, <1>7, <1>8 DEF Traced, Matches

(* Only one row has the id of e, and no row on its way has.                *)
LEMMA EditTraced ==
  ASSUME IInv, Traced, NEW e \in rows, NEW d \in Details, Edit(e, d)
  PROVE  Traced'
<1> USE DEF IInv
<1> DEFINE r == [kind |-> "edit", id |-> e.id, old |-> e.details, new |-> d,
                 last |-> \A f \in rows : f.prev_hash # e.hash]
           n == AuditLog(e.id, d, e.prev_hash, e.hash)
<1>1. /\ edits' = edits \cup {r} /\ rows' = (rows \ {e}) \cup {n}
      /\ UNCHANGED <<seq, pc, entry>> /\ e.details # d
  BY DEF Edit, Change
<1>2. /\ n.id = e.id /\ n.details = d /\ n.prev_hash = e.prev_hash /\ n.hash = e.hash
      /\ r.kind = "edit" /\ r.id = e.id /\ r.old = e.details /\ r.new = d
  BY DEF AuditLog
<1> HIDE DEF r, n
<1>3. IsFiniteSet(edits')
  BY <1>1, FS_AddElement DEF Traced
<1>4. \A x \in edits' : /\ x.kind \in {"edit", "delete"} /\ x.id \in 1..seq'
                        /\ \A w \in Workers : pc'[w] = "commit" => entry'[w].id # x.id
  BY <1>1, <1>2 DEF Traced, TypeOK
<1>5. \A f \in rows' : Genuine(f)' /\ ((\A x \in edits' : x.id # f.id) => Matches(f)')
  <2>1. \A f : Genuine(f)' = Genuine(f) /\ Matches(f)' = Matches(f)
    BY DEF Genuine, Matches
  <2>2. Genuine(n)
    BY <1>2 DEF Traced, Genuine
  <2> QED BY <1>1, <1>2, <2>1, <2>2 DEF Traced
<1>6. ASSUME Continued PROVE Continued'
  <2>1. \A f, R : ReadFrom(f, R) <=> f.prev_hash = NoHash \/ \E g \in R : f.prev_hash = g.hash
    BY DEF ReadFrom
  <2>2. \A f : ReadFrom(f, {g \in rows : g.id < f.id}) => ReadFrom(f, {g \in rows' : g.id < f.id})
    BY <1>1, <1>2, <2>1
  <2>3. \A f \in rows' : ReadFrom(f, {g \in rows' : g.id < f.id})
    <3>1. ReadFrom(e, {g \in rows : g.id < e.id})
      BY <1>6 DEF Continued, Before
    <3>2. ReadFrom(n, {g \in rows : g.id < n.id})
      BY <1>2, <2>1, <3>1
    <3>3. \A f \in rows : ReadFrom(f, {g \in rows : g.id < f.id})
      BY <1>6 DEF Continued, Before
    <3> QED BY ZenonT(30), <1>1, <2>2, <3>2, <3>3
  <2>4. ASSUME NEW v \in Workers, pc'[v] = "commit"
        PROVE  ReadFrom(entry'[v], {f \in rows' : f.id < entry'[v].id})
    BY <1>1, <1>6, <2>2, <2>4 DEF Continued, Before
  <2>5. ASSUME NEW v \in Workers, pc'[v] = "flush" PROVE ReadFrom(entry'[v], rows')
    BY <1>1, <1>2, <1>6, <2>1, <2>5 DEF Continued
  <2> QED BY <2>3, <2>4, <2>5 DEF Continued, Before, ReadFrom
<1>7. ASSUME NEW x \in edits', edits' = {x}
      PROVE  x.kind = "edit" /\ EditTrace(x)'
  <2>1. x = r
    BY <1>1, <1>7
  <2>2. edits = {}
    <3> SUFFICES ASSUME edits # {} PROVE FALSE
      OBVIOUS
    <3>1. r \in edits /\ edits = {r}
      BY <1>1, <1>7, <2>1
    <3>2. PICK f \in rows : f.id = r.id /\ f.details = r.new
      BY <1>2, <3>1 DEF Traced, EditTrace
    <3>3. f = e
      BY <1>2, <3>2 DEF TypeOK
    <3> QED BY <1>1, <1>2, <3>2, <3>3
  <2>3. e.hash = ComputeHash(e.id, e.details, e.prev_hash)
    BY <2>2 DEF Traced, Matches
  <2> QED BY <1>1, <1>2, <2>1, <2>3 DEF EditTrace
<1> QED BY <1>1, <1>3, <1>4, <1>5, <1>6, <1>7 DEF Traced, Matches

(* A row that is deleted while it is named leaves the one that named it.   *)
LEMMA DeleteTraced ==
  ASSUME IInv, Traced, NEW e \in rows, Delete(e)
  PROVE  Traced'
<1> USE DEF IInv
<1> DEFINE r == [kind |-> "delete", id |-> e.id, old |-> e.details, new |-> e.details,
                 last |-> \A f \in rows : f.prev_hash # e.hash]
<1>1. edits' = edits \cup {r} /\ rows' = rows \ {e} /\ UNCHANGED <<seq, pc, entry>>
  BY DEF Delete, Change
<1>2. r.kind = "delete" /\ r.id = e.id /\ (r.last <=> \A f \in rows : f.prev_hash # e.hash)
  OBVIOUS
<1> HIDE DEF r
<1>3. IsFiniteSet(edits')
  BY <1>1, FS_AddElement DEF Traced
<1>4. \A x \in edits' : /\ x.kind \in {"edit", "delete"} /\ x.id \in 1..seq'
                        /\ \A w \in Workers : pc'[w] = "commit" => entry'[w].id # x.id
  BY <1>1, <1>2 DEF Traced, TypeOK
<1>5. \A f \in rows' : Genuine(f)' /\ ((\A x \in edits' : x.id # f.id) => Matches(f)')
  <2>1. \A f : Genuine(f)' = Genuine(f) /\ Matches(f)' = Matches(f)
    BY DEF Genuine, Matches
  <2> QED BY <1>1, <2>1 DEF Traced
<1>6. ASSUME NEW x \in edits', edits' = {x} PROVE x.kind # "edit" /\ DeleteTrace(x)'
  <2>1. x = r
    BY <1>1, <1>6
  <2>2. \A f \in rows : f.id = e.id => f = e
    BY DEF TypeOK
  <2>3. edits = {}
    <3> SUFFICES ASSUME edits # {} PROVE FALSE
      OBVIOUS
    <3>1. r \in edits /\ edits = {r}
      BY <1>1, <1>6, <2>1
    <3> QED BY <1>2, <3>1 DEF Traced, DeleteTrace
  <2>4. ASSUME ~r.last PROVE \E f \in rows' : /\ r.id < f.id
                                              /\ f.prev_hash # NoHash /\ f.prev_hash[1] = r.id
    <3>1. PICK f \in rows : f.prev_hash = e.hash
      BY <1>2, <2>4
    <3>2. PICK d \in Details : e.hash = ComputeHash(e.id, d, e.prev_hash)
      BY DEF Traced, Genuine
    <3>3. e.hash # NoHash /\ e.hash[1] = e.id
      BY <3>2, HashInjective DEF ComputeHash
    <3>4. ReadFrom(f, Before(f))
      BY <2>3 DEF Traced, Continued
    <3>5. PICK h \in rows : h.id < f.id /\ h.hash = e.hash
      BY <3>1, <3>3, <3>4 DEF ReadFrom, Before
    <3>6. h = e
      BY <3>5, HashTells DEF Traced
    <3>7. f # e
      BY <3>5, <3>6 DEF TypeOK
    <3> QED BY <1>1, <1>2, <3>1, <3>3, <3>5, <3>6, <3>7
  <2> QED BY <1>1, <1>2, <2>1, <2>2, <2>4 DEF DeleteTrace
<1>7. ~ \A x \in edits' : x.kind = "edit"
  BY <1>1, <1>2
<1> QED BY <1>1, <1>3, <1>4, <1>5, <1>6, <1>7 DEF Traced, Matches

LEMMA TracedStep ==
  ASSUME IInv, Traced, [Next]_vars
  PROVE  Traced'
<1>1. CASE UNCHANGED vars
  <2>1. \A e : Before(e)' = Before(e) /\ Genuine(e)' = Genuine(e) /\ Matches(e)' = Matches(e)
    BY <1>1 DEF vars, Before, Genuine, Matches
  <2> QED BY <1>1 DEF vars, Traced, Continued, ReadFrom, Before, EditTrace, DeleteTrace, Matches,
                      Genuine
<1>2. CASE Next
  BY <1>1, <1>2, ReadTraced, FlushTraced, CommitTraced, AbortTraced, EditTraced, DeleteTraced
  DEF Next, Over
<1> QED BY <1>1, <1>2

(* What one edit does to verify_chain's walk: every link holds without a   *)
(* fork, so it stops at the edited entry.                                  *)
LEMMA EditIsBroken ==
  ASSUME IInv, Traced, ~Forked, NEW x \in edits, edits = {x}, x.kind = "edit",
         Str(x.old) # Str(x.new)
  PROVE  BrokenAt(x.id)
<1> USE DEF IInv
<1>1. Threaded
  BY DEF Traced, Continued, Threaded
<1>2. \A e \in rows : LinkOK(e)
  BY <1>1, LinksAndForks
<1>3. PICK e \in rows : /\ e.id = x.id /\ e.details = x.new
                        /\ e.hash = ComputeHash(e.id, x.old, e.prev_hash)
  BY DEF Traced, EditTrace
<1>4. e \in Broken
  BY <1>3 DEF Broken, EntryOK, ComputeHash
<1>5. \A f \in rows : f.id # x.id => f \notin Broken
  BY <1>2 DEF Traced, Matches, Broken, EntryOK
<1>6. \A f \in Broken : f \in rows /\ f.id \in Int
  BY DEF Broken, TypeOK
<1> QED BY <1>3, <1>4, <1>5, <1>6 DEF BrokenAt

(* What one deletion does: the row that named the deleted one names none.  *)
LEMMA DeleteIsBroken ==
  ASSUME IInv, Traced, NEW x \in edits, edits = {x}, x.kind = "delete", ~x.last
  PROVE  \E e \in Broken : x.id < e.id
<1> USE DEF IInv
<1>1. PICK e \in rows : x.id < e.id /\ e.prev_hash # NoHash /\ e.prev_hash[1] = x.id
  BY DEF Traced, DeleteTrace
<1>2. \A f \in rows : f.hash[1] = f.id /\ f.id # x.id
  BY DEF Traced, DeleteTrace, Genuine, ComputeHash
<1>3. ~LinkOK(e)
  BY <1>1, <1>2 DEF LinkOK, Before
<1> QED BY <1>1, <1>3 DEF Broken, EntryOK

(* A set of one change.                                                    *)
LEMMA OneChange ==
  ASSUME Traced, NEW x \in edits, Cardinality(edits) = 1
  PROVE  edits = {x}
  BY FS_Singleton DEF Traced

LEMMA InitTraced == Init => Traced
  BY FS_EmptySet DEF Init, Traced, Continued

(* An edit of a chain without forks is reported at the edited entry,       *)
(* whatever is being logged and will be logged.                            *)
THEOREM EditsShow == Spec => []EditShows
<1>1. IInv /\ Traced /\ [Next]_vars => IInv' /\ Traced'
  BY StepInv, TracedStep
<1>2. IInv /\ Traced => EditShows
  BY OneChange, EditIsBroken DEF EditShows
<1> QED BY InitInv, InitTraced, <1>1, <1>2, PTL DEF Spec

(* The deletion of a row that another one continued from leaves a broken   *)
(* entry behind it for good, in a forked chain too.                        *)
THEOREM DeletionsShow == Spec => []DeleteShows
<1>1. IInv /\ Traced /\ [Next]_vars => IInv' /\ Traced'
  BY StepInv, TracedStep
<1>2. IInv /\ Traced => DeleteShows
  BY OneChange, DeleteIsBroken DEF DeleteShows
<1> QED BY InitInv, InitTraced, <1>1, <1>2, PTL DEF Spec

=============================================================================
