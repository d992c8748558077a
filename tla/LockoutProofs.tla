--------------------------- MODULE LockoutProofs ---------------------------
(***************************************************************************)
(* Proofs about Lockout, for every set of accounts, every finite set of    *)
(* workers and every policy.                                               *)
(*                                                                         *)
(* The argument: what a worker has read may be out of date, but its place  *)
(* in the evaluation says by how much. Bounds count, beside what has been  *)
(* committed, the workers that may still commit one more (IInv,            *)
(* NumbersShared, FewAdmitted); the others hold along the stamps, which no *)
(* two rows share (StampInv). With a single worker nothing is out of date  *)
(* (UpToDate), and every step is one of LockoutPolicy.                     *)
(***************************************************************************)
EXTENDS Lockout, TLAPS, FiniteSetTheorems, WellFoundedInduction

USE DEF history, Goto, Finish

-----------------------------------------------------------------------------
(* Type correctness.                                                       *)

(* A lockout lasts a whole number of ticks.                                *)
LEMMA DurationType == \A n : Duration(n) \in Nat
  BY PolicyAssumption DEF Duration

(* The rows an UPDATE of finitely many rows writes are finitely many.      *)
LEMMA UnlockedFinite ==
  ASSUME NEW S, IsFiniteSet(S), NEW t
  PROVE  IsFiniteSet({Unlocked(l, t) : l \in S})
<1> DEFINE T == {Unlocked(l, t) : l \in S}
           f == [l \in S |-> Unlocked(l, t)]
<1>1. f \in Surjection(S, T)
  BY DEF Surjection
<1> QED BY <1>1, FS_Surjection

(* Unlocking changes only when a lockout ends.                             *)
LEMMA UnlockedType ==
  ASSUME NEW l \in LockoutRow, NEW t \in Nat
  PROVE  /\ Unlocked(l, t) \in LockoutRow
         /\ Unlocked(l, t).user = l.user /\ Unlocked(l, t).locked_at = l.locked_at
  BY DEF Unlocked, LockoutRow

(* What a worker reads of the lockouts are lockouts.                       *)
LEMMA VisibleType ==
  ASSUME NEW l \in LockoutRow, NEW t \in Nat
  PROVE  /\ [l EXCEPT !.visible_at = t] \in LockoutRow
         /\ [l EXCEPT !.visible_at = t].user = l.user
         /\ [l EXCEPT !.visible_at = t].locked_at = l.locked_at
  BY DEF LockoutRow

(* A request that is let in takes over the worker.                         *)
LEMMA EnterType ==
  ASSUME TypeOK, NEW w \in Workers, NEW u \in Users, NEW s \in Stages,
         NEW step \in {"verify", "refuse"}, pc[w] = "idle", Enter(w, u, s, step)
  PROVE  TypeOK'
  BY DEF TypeOK, Enter, PCs, Evaluating, Attempt

(* Whatever request comes in, the state stays well typed.                  *)
LEMMA ArriveType ==
  ASSUME TypeOK, NEW w \in Workers, NEW u \in Users, Arrive(w, u)
  PROVE  TypeOK'
<1>1. CASE Login(w, u)
  BY <1>1, EnterType DEF Login, Accepts, Stages
<1>2. CASE VerifyMfa(w, u)
  BY <1>2, EnterType DEF VerifyMfa, Accepts, Stages
<1>3. CASE WebAuthnLoginBegin(w, u)
  BY <1>3, EnterType DEF WebAuthnLoginBegin, Accepts, Stages
<1>4. CASE WebAuthnLoginComplete(w, u)
  BY <1>4, EnterType DEF WebAuthnLoginComplete, Accepts, Stages
<1>5. CASE ManualUnlock(w, u)
  <2>1. audit' \subseteq AuditEvent
    BY <1>5 DEF ManualUnlock, TypeOK, AuditEvent, Event
  <2>2. pc' \in [Workers -> PCs] /\ lock' \in [Workers -> LockoutRow \cup {None}]
    BY <1>5 DEF ManualUnlock, TypeOK, PCs, LockoutRow, LockoutsOf
  <2>3. \A v \in Workers :
           /\ pc'[v] \notin {"idle", "unlock", "logUnlock"} => row'[v] \in Attempt
           /\ pc'[v] \in {"commitLock", "logLock", "unlock", "logUnlock"}
                 => lock'[v] \in LockoutRow
    BY <1>5 DEF ManualUnlock, TypeOK, PCs, LockoutRow, LockoutsOf, Accepts
  <2> QED BY <1>5, <2>1, <2>2, <2>3 DEF ManualUnlock, TypeOK
<1> QED BY <1>1, <1>2, <1>3, <1>4, <1>5 DEF Arrive

(* Whatever step a request takes, the state stays well typed.              *)
LEMMA ContinueType ==
  ASSUME TypeOK, NEW w \in Workers, Continue(w)
  PROVE  TypeOK'
<1> USE DEF TypeOK, PCs, Evaluating
<1>1. CASE RecordAttempt(w)
  BY <1>1 DEF RecordAttempt, Attempt
<1>2. CASE CommitAttempt(w)
  <2>1. IsFiniteSet(attempts')
    BY <1>2, FS_AddElement DEF CommitAttempt
  <2> QED BY <1>2, <2>1 DEF CommitAttempt
<1>3. CASE ReadLastSuccess(w)
  <2>1. SuccessTimes(row[w].user) \subseteq Nat
    BY DEF SuccessTimes, Attempt
  <2> QED BY <1>3, <2>1 DEF ReadLastSuccess
<1>4. CASE ReadLastLockout(w)
  <2>1. LockTimes(row[w].user) \subseteq Nat
    BY DEF LockTimes, LockoutsOf, LockoutRow
  <2> QED BY <1>4, <2>1 DEF ReadLastLockout
<1>5. CASE CountFailures(w)
  BY <1>5 DEF CountFailures
<1>6. CASE CountPriorLockouts(w)
  <2>1. Cardinality(LockoutsOf(row[w].user)) \in Nat
    BY FS_Subset, FS_CardinalityType DEF LockoutsOf
  <2> QED BY <1>6, <2>1 DEF CountPriorLockouts
<1>7. CASE CreateLockout(w)
  BY <1>7, DurationType DEF CreateLockout, LockoutRow, Attempt
<1>8. CASE CommitLockout(w)
  <2>1. lockouts' \subseteq LockoutRow
    BY <1>8, VisibleType DEF CommitLockout
  <2>2. IsFiniteSet(lockouts')
    BY <1>8, FS_AddElement DEF CommitLockout
  <2> QED BY <1>8, <2>1, <2>2 DEF CommitLockout
<1>9. CASE LogLockout(w)
  BY <1>9 DEF LogLockout, AuditEvent, Event, LockoutRow
<1>10. CASE LogPasswordOk(w)
  BY <1>10, PolicyAssumption DEF LogPasswordOk, AuditEvent, Event, Attempt
<1>11. CASE CreateSession(w)
  BY <1>11 DEF CreateSession, SessionRow, Attempt
<1>12. CASE LogOutcome(w)
  BY <1>12 DEF LogOutcome, AuditEvent, Event, Attempt
<1>13. CASE CommitUnlock(w)
  <2>1. lock[w] \in LockoutRow /\ lock[w].unlock_at \in Nat
    BY <1>13 DEF CommitUnlock, LockoutRow
  <2> DEFINE target == {l \in LockoutsOf(lock[w].user) : l.locked_at = lock[w].locked_at}
  <2>2. target \subseteq lockouts
    BY DEF LockoutsOf
  <2>3. \A l \in target : Unlocked(l, lock[w].unlock_at) \in LockoutRow
    BY <2>1, <2>2, UnlockedType
  <2>4. lockouts' = (lockouts \ target) \cup {Unlocked(l, lock[w].unlock_at) : l \in target}
    BY <1>13 DEF CommitUnlock
  <2> HIDE DEF target
  <2>5. lockouts' \subseteq LockoutRow
    BY <2>3, <2>4
  <2>6. IsFiniteSet(lockouts')
    <3>1. IsFiniteSet(target) /\ IsFiniteSet(lockouts \ target)
      BY <2>2, FS_Subset, FS_Difference
    <3>2. IsFiniteSet({Unlocked(l, lock[w].unlock_at) : l \in target})
      BY <3>1, UnlockedFinite
    <3> QED BY <2>4, <3>1, <3>2, FS_Union
  <2> QED BY <1>13, <2>5, <2>6 DEF CommitUnlock
<1>14. CASE LogUnlock(w)
  BY <1>14 DEF LogUnlock, AuditEvent, Event, LockoutRow
<1> QED
  BY <1>1, <1>2, <1>3, <1>4, <1>5, <1>6, <1>7, <1>8, <1>9, <1>10, <1>11, <1>12, <1>13, <1>14
  DEF Continue

(* A worker that dies leaves a well-typed state.                           *)
LEMMA CrashType ==
  ASSUME TypeOK, NEW w \in Workers, Crash(w)
  PROVE  TypeOK'
  BY DEF Crash, TypeOK, PCs, Evaluating

(* Every step keeps the types.                                             *)
LEMMA TypeStep ==
  ASSUME TypeOK, [Next]_vars
  PROVE  TypeOK'
<1>1. CASE UNCHANGED vars
  BY <1>1 DEF vars, TypeOK
<1>2. CASE Tick
  BY <1>2 DEF Tick, TypeOK
<1>3. CASE Over
  BY <1>3 DEF Over, vars, TypeOK
<1> QED
  BY <1>1, <1>2, <1>3, ContinueType, CrashType, ArriveType DEF Next

(* Every row, stamp and local variable of the lockout service keeps its    *)
(* type in every reachable state.                                          *)
THEOREM TypeCorrect == Spec => []TypeOK
<1>1. Init => TypeOK
  BY FS_EmptySet DEF Init, TypeOK, PCs
<1>2. TypeOK /\ [Next]_vars => TypeOK'
  BY TypeStep
<1> QED BY <1>1, <1>2, PTL DEF Spec

-----------------------------------------------------------------------------
(* The bound on guesses. A failure is settled once the request that        *)
(* recorded it has decided, by counting, not to lock the account. Settled  *)
(* failures since the last reset stay below the threshold; every other one *)
(* belongs to a request in flight, of which a worker has at most one.      *)

Settled(u) ==
    {a \in Fresh(u) : /\ a \notin abandoned
                      /\ \A w \in Workers : pc[w] \in Evaluating => a # row[w]}

SettledBound == \A u \in Users : Cardinality(Settled(u)) < MaxFailed

(* What a request in flight has recorded and read.                         *)
InFlight(w) ==
    /\ pc[w] = "commit" => row[w].created_at \in 1..now
    /\ pc[w] \in Evaluating => /\ row[w] \in attempts /\ row[w].reason = "bad"
                               /\ row[w].created_at \in 1..now
    /\ pc[w] = "readLockout" => cut[w] \in SuccessTimes(row[w].user) \cup {0}
    /\ pc[w] = "count" => cut[w] \in Resets(row[w].user) \cup {0}
    /\ pc[w] = "commitLock" => /\ lock[w].user = row[w].user
                               /\ row[w].created_at < lock[w].locked_at

Stamped == \A a \in attempts : a.created_at > 0

IInv == TypeOK /\ Stamped /\ (\A w \in Workers : InFlight(w)) /\ SettledBound

(* An UPDATE of unlock_at leaves every lockout's account and locked_at.    *)
LEMMA UnlockKeepsLockTimes ==
  ASSUME TypeOK, NEW w \in Workers, CommitUnlock(w), NEW u \in Users
  PROVE  LockTimes(u)' = LockTimes(u)
<1> DEFINE target == {l \in LockoutsOf(lock[w].user) : l.locked_at = lock[w].locked_at}
           t == lock[w].unlock_at
<1>1. t \in Nat
  BY DEF CommitUnlock, TypeOK, LockoutRow
<1>2. target \subseteq lockouts /\ lockouts \subseteq LockoutRow
  BY DEF LockoutsOf, TypeOK
<1>3. \A l \in target : Unlocked(l, t).user = l.user /\ Unlocked(l, t).locked_at = l.locked_at
  BY <1>1, <1>2, UnlockedType
<1>4. lockouts' = (lockouts \ target) \cup {Unlocked(l, t) : l \in target}
  BY DEF CommitUnlock
<1> HIDE DEF target, t
<1>5. ASSUME NEW x \in LockTimes(u) PROVE x \in LockTimes(u)'
  <2>1. PICK l \in lockouts : l.user = u /\ l.locked_at = x
    BY DEF LockTimes, LockoutsOf
  <2>2. PICK m \in lockouts' : m.user = u /\ m.locked_at = x
    BY <2>1, <1>3, <1>4
  <2> QED BY <2>2 DEF LockTimes, LockoutsOf
<1>6. ASSUME NEW x \in LockTimes(u)' PROVE x \in LockTimes(u)
  <2>1. PICK m \in lockouts' : m.user = u /\ m.locked_at = x
    BY DEF LockTimes, LockoutsOf
  <2>2. PICK l \in lockouts : l.user = u /\ l.locked_at = x
    BY <2>1, <1>2, <1>3, <1>4
  <2> QED BY <2>2 DEF LockTimes, LockoutsOf
<1> QED BY <1>5, <1>6

(* A step of a worker leaves the local state of the others alone.          *)
Others(v) ==
    \A w \in Workers \ {v} : /\ pc'[w] = pc[w] /\ row'[w] = row[w]
                             /\ cut'[w] = cut[w] /\ lock'[w] = lock[w]

(* A step of one worker leaves the other requests where they are.          *)
LEMMA OthersKeep ==
  ASSUME TypeOK, NEW v \in Workers,
         Continue(v) \/ Crash(v) \/ \E u \in Users : Arrive(v, u)
  PROVE  Others(v)
<1> USE DEF Others, TypeOK
<1>1. CASE Continue(v)
  BY <1>1
  DEF Continue, RecordAttempt, CommitAttempt, ReadLastSuccess, ReadLastLockout, CountFailures,
      CountPriorLockouts, CreateLockout, CommitLockout, LogLockout, LogPasswordOk,
      CreateSession, LogOutcome, CommitUnlock, LogUnlock
<1>2. CASE Crash(v)
  BY <1>2 DEF Crash
<1>3. ASSUME NEW u \in Users, Arrive(v, u) PROVE Others(v)
  BY <1>3 DEF Arrive, Login, VerifyMfa, WebAuthnLoginBegin, WebAuthnLoginComplete,
              ManualUnlock, Enter
<1> QED BY <1>1, <1>2, <1>3

(* What happens to one request in a step, as far as the rows it has yet to *)
(* commit and the number it has read are concerned.                        *)
Unmoved(w) == /\ pc'[w] = pc[w] /\ row'[w] = row[w]
              /\ number'[w] = number[w] /\ lock'[w] = lock[w]

LEMMA RequestStep ==
  ASSUME TypeOK, [Next]_vars, NEW w \in Workers
  PROVE  \/ RecordAttempt(w) \/ CountPriorLockouts(w) \/ CreateLockout(w) \/ CommitLockout(w)
         \/ pc'[w] \notin {"commit", "create", "commitLock", "logLock"}
         \/ Unmoved(w)
<1> DEFINE Goal == \/ RecordAttempt(w) \/ CountPriorLockouts(w)
                   \/ CreateLockout(w) \/ CommitLockout(w)
                   \/ pc'[w] \notin {"commit", "create", "commitLock", "logLock"}
                   \/ Unmoved(w)
<1>1. CASE Continue(w)
  <2>1. CASE CommitAttempt(w)
    BY <2>1 DEF CommitAttempt, TypeOK
  <2>2. CASE ReadLastSuccess(w) \/ ReadLastLockout(w) \/ CountFailures(w)
    BY <2>2 DEF ReadLastSuccess, ReadLastLockout, CountFailures, TypeOK
  <2>3. CASE LogLockout(w) \/ LogPasswordOk(w) \/ CreateSession(w) \/ LogOutcome(w)
    BY <2>3 DEF LogLockout, LogPasswordOk, CreateSession, LogOutcome, TypeOK
  <2>4. CASE CommitUnlock(w) \/ LogUnlock(w)
    BY <2>4 DEF CommitUnlock, LogUnlock, TypeOK
  <2> QED BY <1>1, <2>1, <2>2, <2>3, <2>4 DEF Continue
<1>2. CASE Crash(w)
  BY <1>2 DEF Crash, TypeOK
<1>3. ASSUME NEW u \in Users, Arrive(w, u) PROVE Goal
  <2>1. ASSUME NEW stage, NEW step, step \in {"refuse", "verify"}, Enter(w, u, stage, step)
        PROVE  pc'[w] \notin {"commit", "create", "commitLock", "logLock"}
    BY <2>1 DEF Enter, TypeOK
  <2>2. CASE Login(w, u)
    BY <2>1, <2>2 DEF Login
  <2>3. CASE VerifyMfa(w, u)
    BY <2>1, <2>3 DEF VerifyMfa
  <2>4. CASE WebAuthnLoginBegin(w, u) \/ WebAuthnLoginComplete(w, u)
    BY <2>1, <2>4 DEF WebAuthnLoginBegin, WebAuthnLoginComplete
  <2>5. CASE ManualUnlock(w, u)
    BY <2>5 DEF ManualUnlock, Accepts, Goto, TypeOK
  <2> QED BY <1>3, <2>2, <2>3, <2>4, <2>5 DEF Arrive
<1>4. ASSUME NEW v \in Workers, v # w, Continue(v) PROVE Unmoved(w)
  BY <1>4
  DEF Unmoved, Continue, RecordAttempt, CommitAttempt, ReadLastSuccess, ReadLastLockout,
      CountFailures, CountPriorLockouts, CreateLockout, CommitLockout, LogLockout,
      LogPasswordOk, CreateSession, LogOutcome, CommitUnlock, LogUnlock, TypeOK
<1>5. ASSUME NEW v \in Workers, v # w, Crash(v) PROVE Unmoved(w)
  BY <1>5 DEF Unmoved, Crash, TypeOK
<1>6. ASSUME NEW v \in Workers, v # w, NEW u \in Users, Arrive(v, u) PROVE Unmoved(w)
  BY <1>6 DEF Unmoved, Arrive, Login, VerifyMfa, WebAuthnLoginBegin, WebAuthnLoginComplete,
              ManualUnlock, Enter, TypeOK
<1>7. ASSUME Tick \/ Over \/ UNCHANGED vars PROVE Unmoved(w)
  BY <1>7 DEF Unmoved, Tick, Over, vars
<1> QED BY <1>1, <1>2, <1>3, <1>4, <1>5, <1>6, <1>7 DEF Next

(* Attempts are committed by no other step.                                *)
LEMMA AttemptStep ==
  ASSUME [Next]_vars
  PROVE  attempts' = attempts \/ \E w \in Workers : CommitAttempt(w)
BY ZenonT(30)
DEF Next, Continue, RecordAttempt, ReadLastSuccess, ReadLastLockout, CommitUnlock,
    CountFailures, CountPriorLockouts, CreateLockout, LogLockout, LogPasswordOk,
    CreateSession, LogOutcome, LogUnlock, Crash, Arrive, Login, VerifyMfa, CommitLockout,
    WebAuthnLoginBegin, WebAuthnLoginComplete, ManualUnlock, Enter, Tick, Over, vars

(* Rows are only ever added, so the reset times only grow.                 *)
LEMMA RowsGrow ==
  ASSUME TypeOK, [Next]_vars
  PROVE  /\ now \in Nat /\ now' \in Nat /\ now <= now'
         /\ attempts \subseteq attempts'
         /\ \A u \in Users : /\ SuccessTimes(u) \subseteq SuccessTimes(u)'
                             /\ LockTimes(u) \subseteq LockTimes(u)'
<1> DEFINE Grow == /\ now \in Nat /\ now' \in Nat /\ now <= now'
                   /\ attempts \subseteq attempts'
                   /\ \A u \in Users : LockTimes(u) \subseteq LockTimes(u)'
<1>1. ASSUME NEW w \in Workers, Continue(w) PROVE Grow
  <2>1. CASE RecordAttempt(w) \/ CommitAttempt(w) \/ CreateLockout(w)
    BY <2>1 DEF RecordAttempt, CommitAttempt, CreateLockout, TypeOK, LockTimes, LockoutsOf
  <2>2. CASE CommitLockout(w)
    BY <2>2 DEF CommitLockout, TypeOK, LockTimes, LockoutsOf
  <2>3. CASE CommitUnlock(w)
    <3>1. \A u \in Users : LockTimes(u)' = LockTimes(u)
      BY <2>3, UnlockKeepsLockTimes
    <3>2. now' = now /\ attempts' = attempts
      BY <2>3 DEF CommitUnlock
    <3> QED BY <3>1, <3>2 DEF TypeOK
  <2>4. CASE now' = now /\ attempts' = attempts /\ lockouts' = lockouts
    BY <2>4 DEF TypeOK, LockTimes, LockoutsOf
  <2> QED BY <1>1, <2>1, <2>2, <2>3, <2>4
    DEF Continue, ReadLastSuccess, ReadLastLockout, CountFailures, CountPriorLockouts,
        LogLockout, LogPasswordOk, CreateSession, LogOutcome, LogUnlock
<1>2. ASSUME NEW w \in Workers, NEW u \in Users, Arrive(w, u) PROVE Grow
  <2>1. now' = now /\ attempts' = attempts /\ lockouts' = lockouts
    BY <1>2 DEF Arrive, Login, VerifyMfa, WebAuthnLoginBegin, WebAuthnLoginComplete,
                ManualUnlock, Enter
  <2> QED BY <2>1 DEF TypeOK, LockTimes, LockoutsOf
<1>3. ASSUME NEW w \in Workers, Crash(w) PROVE Grow
  BY <1>3 DEF Crash, TypeOK, LockTimes, LockoutsOf
<1>4. ASSUME Tick \/ Over \/ UNCHANGED vars PROVE Grow
  BY <1>4 DEF Tick, Over, vars, TypeOK, LockTimes, LockoutsOf
<1>5. Grow
  BY <1>1, <1>2, <1>3, <1>4 DEF Next
<1>6. \A u \in Users : SuccessTimes(u) \subseteq SuccessTimes(u)'
  BY <1>5 DEF SuccessTimes
<1> QED BY <1>5, <1>6

(* A request that does not move keeps what it has recorded and read.       *)
LEMMA InFlightKeeps ==
  ASSUME TypeOK, [Next]_vars, NEW w \in Workers, InFlight(w),
         pc'[w] = pc[w], row'[w] = row[w], cut'[w] = cut[w], lock'[w] = lock[w]
  PROVE  InFlight(w)'
<1>1. CASE pc[w] \notin Evaluating \cup {"commit"}
  BY <1>1 DEF InFlight, Evaluating
<1>2. CASE pc[w] \in Evaluating \cup {"commit"}
  <2>1. PICK u \in Users : row[w].user = u
    BY <1>2 DEF TypeOK, Evaluating, Attempt
  <2>2. row[w].created_at \in Nat
    BY <1>2 DEF TypeOK, Evaluating, Attempt
  <2>3. /\ 1..now \subseteq 1..now' /\ attempts \subseteq attempts'
        /\ SuccessTimes(u) \subseteq SuccessTimes(u)' /\ Resets(u) \subseteq Resets(u)'
    BY RowsGrow DEF Resets
  <2>4. /\ SuccessTimes(row[w].user) = SuccessTimes(u) /\ Resets(row[w].user) = Resets(u)
        /\ SuccessTimes(row[w].user)' = SuccessTimes(u)'
        /\ Resets(row[w].user)' = Resets(u)'
    BY <2>1 DEF Resets, SuccessTimes, LockTimes, LockoutsOf
  <2> QED BY <2>1, <2>2, <2>3, <2>4 DEF InFlight, Evaluating
<1> QED BY <1>1, <1>2

(* A request that moves has recorded and read what its next step relies    *)
(* on.                                                                     *)
LEMMA InFlightMoves ==
  ASSUME TypeOK, [Next]_vars, NEW w \in Workers, InFlight(w), Continue(w)
  PROVE  InFlight(w)'
<1> USE DEF TypeOK
<1>1. CASE RecordAttempt(w)
  BY <1>1 DEF RecordAttempt, InFlight, Evaluating
<1>2. CASE CommitAttempt(w)
  BY <1>2 DEF CommitAttempt, InFlight, Evaluating
<1>3. CASE ReadLastSuccess(w)
  <2>1. cut'[w] \in SuccessTimes(row[w].user) \cup {0} /\ pc'[w] = "readLockout"
    BY <1>3 DEF ReadLastSuccess
  <2>2. SuccessTimes(row[w].user)' = SuccessTimes(row[w].user)
    BY <1>3 DEF ReadLastSuccess, SuccessTimes
  <2> QED BY <1>3, <2>1, <2>2 DEF ReadLastSuccess, InFlight, Evaluating
<1>4. CASE ReadLastLockout(w)
  <2>1. cut'[w] \in Resets(row[w].user) \cup {0} /\ pc'[w] = "count"
    BY <1>4 DEF ReadLastLockout, InFlight, Resets
  <2>2. Resets(row[w].user)' = Resets(row[w].user)
    BY <1>4 DEF ReadLastLockout, Resets, SuccessTimes, LockTimes, LockoutsOf
  <2> QED BY <1>4, <2>1, <2>2 DEF ReadLastLockout, InFlight, Evaluating
<1>5. CASE CountFailures(w) \/ CountPriorLockouts(w)
  BY <1>5 DEF CountFailures, CountPriorLockouts, InFlight, Evaluating
<1>6. CASE CreateLockout(w)
  <2>1. row[w].created_at \in 1..now /\ row[w] \in attempts /\ row[w].reason = "bad"
    BY <1>6 DEF CreateLockout, InFlight, Evaluating
  <2>2. /\ pc'[w] = "commitLock" /\ row' = row /\ attempts' = attempts /\ now' = now + 1
        /\ lock'[w].user = row[w].user /\ lock'[w].locked_at = now + 1
    BY <1>6 DEF CreateLockout
  <2> QED BY <2>1, <2>2 DEF InFlight, Evaluating
<1>7. CASE CommitLockout(w) \/ LogLockout(w) \/ CreateSession(w) \/ CommitUnlock(w)
  BY <1>7 DEF CommitLockout, LogLockout, CreateSession, CommitUnlock, InFlight, Evaluating
<1>8. CASE LogPasswordOk(w) \/ LogOutcome(w) \/ LogUnlock(w)
  BY <1>8 DEF LogPasswordOk, LogOutcome, LogUnlock, InFlight, Evaluating
<1> QED BY <1>1, <1>2, <1>3, <1>4, <1>5, <1>6, <1>7, <1>8 DEF Continue

(* Every step keeps what the requests in flight rely on.                   *)
LEMMA InFlightStep ==
  ASSUME TypeOK, [Next]_vars, \A w \in Workers : InFlight(w)
  PROVE  \A w \in Workers : InFlight(w)'
<1> SUFFICES ASSUME NEW w \in Workers PROVE InFlight(w)'
  OBVIOUS
<1>1. ASSUME NEW v \in Workers, Continue(v) \/ Crash(v) \/ \E u \in Users : Arrive(v, u)
      PROVE  InFlight(w)'
  <2>1. CASE w # v
    BY <1>1, <2>1, OthersKeep, InFlightKeeps DEF Others
  <2>2. CASE w = v /\ Continue(v)
    BY <2>2, InFlightMoves
  <2>3. CASE w = v /\ ~Continue(v)
    <3>1. pc'[w] \notin Evaluating \cup {"commit"}
      BY <1>1, <2>3 DEF Crash, Arrive, Login, VerifyMfa, WebAuthnLoginBegin, Accepts,
                        WebAuthnLoginComplete, ManualUnlock, Enter, TypeOK, Evaluating
    <3> QED BY <3>1 DEF InFlight, Evaluating
  <2> QED BY <1>1, <2>1, <2>2, <2>3
<1>2. ASSUME Tick \/ Over \/ UNCHANGED vars PROVE InFlight(w)'
  BY <1>2, InFlightKeeps DEF Tick, Over, vars
<1> QED BY <1>1, <1>2 DEF Next

(* Every step keeps the rows stamped no later than now.                    *)
LEMMA StampedStep ==
  ASSUME TypeOK, [Next]_vars, Stamped, \A w \in Workers : InFlight(w)
  PROVE  Stamped'
<1>1. ASSUME NEW w \in Workers, CommitAttempt(w) PROVE Stamped'
  <2>1. row[w].created_at > 0 /\ attempts' = attempts \cup {row[w]}
    BY <1>1 DEF CommitAttempt, InFlight, TypeOK
  <2> QED BY <2>1 DEF Stamped
<1>2. CASE attempts' = attempts
  BY <1>2 DEF Stamped
<1>3. ASSUME NEW w \in Workers, Continue(w) PROVE Stamped'
  BY <1>1, <1>2, <1>3
  DEF Continue, RecordAttempt, ReadLastSuccess, ReadLastLockout, CountFailures,
      CountPriorLockouts, CreateLockout, CommitLockout, LogLockout, LogPasswordOk,
      CreateSession, LogOutcome, CommitUnlock, LogUnlock
<1>4. ASSUME NEW w \in Workers, Crash(w) \/ \E u \in Users : Arrive(w, u) PROVE Stamped'
  BY <1>2, <1>4 DEF Crash, Arrive, Login, VerifyMfa, WebAuthnLoginBegin,
                    WebAuthnLoginComplete, ManualUnlock, Enter
<1> QED BY <1>2, <1>3, <1>4 DEF Next, Tick, Over, vars

(* Only a new row can become fresh: the resets grow.                       *)
LEMMA FreshShrinks ==
  ASSUME TypeOK, [Next]_vars, NEW u \in Users
  PROVE  \A a \in Fresh(u)' : a \in Fresh(u) \/ a \in attempts' \ attempts
  BY RowsGrow DEF Fresh, Resets

(* Other requests keep their failures unsettled.                           *)
LEMMA SettledUnless ==
  ASSUME TypeOK, [Next]_vars, NEW w \in Workers, Others(w), NEW u \in Users,
         abandoned \subseteq abandoned', NEW a \in Settled(u)', a \in attempts,
         pc[w] \in Evaluating => a # row[w]
  PROVE  a \in Settled(u)
  BY FreshShrinks DEF Settled, Others

(* A step of a request keeps the failures it does not own settled.         *)
LEMMA SettledContinue ==
  ASSUME IInv, [Next]_vars, NEW w \in Workers, Continue(w), NEW u \in Users,
         ~(CountFailures(w) /\ pc'[w] = "log" /\ row[w].user = u),
         NEW a \in Settled(u)'
  PROVE  a \in Settled(u)
<1> USE DEF IInv
<1>1. Others(w)
  BY OthersKeep
<1>2. CASE CommitAttempt(w)
  <2>1. pc[w] \notin Evaluating /\ abandoned' = abandoned /\ attempts' = attempts \cup {row[w]}
    BY <1>2 DEF CommitAttempt, Evaluating
  <2>2. a # row[w] \/ a \in attempts
    <3>1. SUFFICES ASSUME a = row[w] PROVE FALSE
      OBVIOUS
    <3>2. row[w].reason = "bad"
      BY <3>1 DEF Settled, Fresh
    <3>3. pc'[w] \in Evaluating /\ row'[w] = row[w]
      BY <1>2, <3>2 DEF CommitAttempt, Evaluating, TypeOK
    <3> QED BY <3>1, <3>3 DEF Settled
  <2>3. a \in attempts
    BY <2>1, <2>2 DEF Settled, Fresh
  <2> QED BY <1>1, <2>1, <2>3, SettledUnless
<1>3. CASE CountFailures(w) \/ CommitLockout(w)
  <2>1. pc[w] \in Evaluating /\ abandoned' = abandoned /\ attempts' = attempts /\ row' = row
    BY <1>3 DEF CountFailures, CommitLockout, Evaluating
  <2>2. a \in attempts /\ a.user = u
    BY <2>1 DEF Settled, Fresh
  <2>3. CASE CountFailures(w) /\ pc'[w] = "log"
    BY <1>1, <2>1, <2>2, <2>3, SettledUnless
  <2>4. CASE CountFailures(w) /\ pc'[w] # "log"
    <3>1. pc'[w] \in Evaluating
      BY <2>4 DEF CountFailures, Evaluating, TypeOK
    <3> QED BY <1>1, <2>1, <2>2, <3>1, SettledUnless DEF Settled
  <2>5. CASE CommitLockout(w)
    <3>1. /\ row[w].created_at < lock[w].locked_at /\ lock[w].user = row[w].user
          /\ lock[w] \in LockoutRow /\ now \in Nat
      BY <2>5 DEF CommitLockout, InFlight, TypeOK
    <3>2. PICK l \in lockouts' : l.user = lock[w].user /\ l.locked_at = lock[w].locked_at
      BY <2>5, <3>1, VisibleType DEF CommitLockout
    <3>3. a # row[w]
      <4>1. SUFFICES ASSUME a = row[w] PROVE FALSE
        OBVIOUS
      <4>2. l.locked_at \in LockTimes(u)' /\ a.created_at < l.locked_at
        BY <2>2, <3>1, <3>2, <4>1 DEF LockTimes, LockoutsOf
      <4>3. l.locked_at < a.created_at
        BY <4>2 DEF Settled, Fresh, Resets
      <4>4. a.created_at \in Nat /\ l.locked_at \in Nat
        BY <2>2, <3>1, <3>2 DEF TypeOK, Attempt, LockoutRow
      <4> QED BY <4>2, <4>3, <4>4
    <3> QED BY <1>1, <2>1, <2>2, <3>3, SettledUnless
  <2> QED BY <1>3, <2>3, <2>4, <2>5
<1>4. CASE \/ ReadLastSuccess(w) \/ ReadLastLockout(w) \/ CountPriorLockouts(w)
           \/ CreateLockout(w)
  <2>1. /\ pc'[w] \in Evaluating /\ row' = row
        /\ abandoned' = abandoned /\ attempts' = attempts
    BY <1>4 DEF ReadLastSuccess, ReadLastLockout, CountPriorLockouts, CreateLockout,
                Evaluating, TypeOK
  <2> QED BY <1>1, <2>1, SettledUnless DEF Settled, Fresh
<1>5. CASE \/ RecordAttempt(w) \/ LogLockout(w) \/ LogPasswordOk(w) \/ CreateSession(w)
           \/ LogOutcome(w) \/ CommitUnlock(w) \/ LogUnlock(w)
  <2>1. pc[w] \notin Evaluating /\ abandoned' = abandoned /\ attempts' = attempts
    BY <1>5 DEF RecordAttempt, LogLockout, LogPasswordOk, CreateSession, LogOutcome,
                CommitUnlock, LogUnlock, Evaluating
  <2> QED BY <1>1, <2>1, SettledUnless DEF Settled, Fresh
<1> QED BY <1>2, <1>3, <1>4, <1>5 DEF Continue

(* The other steps settle nothing and unsettle nothing.                    *)
LEMMA SettledElsewhere ==
  ASSUME IInv, [Next]_vars, NEW u \in Users, NEW a \in Settled(u)',
         ~ \E w \in Workers : Continue(w)
  PROVE  a \in Settled(u)
<1> USE DEF IInv
<1>1. ASSUME NEW w \in Workers, NEW v \in Users, Arrive(w, v) PROVE a \in Settled(u)
  <2>1. Others(w)
    BY <1>1, OthersKeep
  <2>2. pc[w] = "idle" /\ abandoned' = abandoned /\ attempts' = attempts
    BY <1>1 DEF Arrive, Login, VerifyMfa, WebAuthnLoginBegin, WebAuthnLoginComplete,
                ManualUnlock, Enter, Accepts
  <2> QED BY <2>1, <2>2, SettledUnless DEF Settled, Fresh, Evaluating
<1>2. ASSUME NEW w \in Workers, Crash(w) PROVE a \in Settled(u)
  <2>1. Others(w)
    BY <1>2, OthersKeep
  <2>2. /\ attempts' = attempts
        /\ abandoned' = IF pc[w] \in Evaluating THEN abandoned \cup {row[w]} ELSE abandoned
    BY <1>2 DEF Crash
  <2> QED BY <2>1, <2>2, SettledUnless DEF Settled, Fresh
<1>3. CASE Tick \/ Over \/ UNCHANGED vars
  <2>1. abandoned' = abandoned /\ attempts' = attempts /\ pc' = pc /\ row' = row
    BY <1>3 DEF Tick, Over, vars
  <2> QED BY <2>1, FreshShrinks DEF Settled
<1> QED BY <1>1, <1>2, <1>3 DEF Next

(* Every step keeps the settled failures below the threshold.              *)
LEMMA SettledStep ==
  ASSUME IInv, [Next]_vars
  PROVE  SettledBound'
<1> SUFFICES ASSUME NEW u \in Users PROVE Cardinality(Settled(u)') < MaxFailed
  BY DEF SettledBound
<1> USE DEF IInv
<1>1. IsFiniteSet(Settled(u)) /\ Cardinality(Settled(u)) \in Nat
  BY FS_Subset, FS_CardinalityType DEF TypeOK, Settled, Fresh
<1>2. CASE \E w \in Workers : CountFailures(w) /\ pc'[w] = "log" /\ row[w].user = u
  <2>1. PICK w \in Workers : CountFailures(w) /\ pc'[w] = "log" /\ row[w].user = u
    BY <1>2
  <2> DEFINE F == FailuresSince(u, cut[w])
  <2>2. Cardinality(F) < MaxFailed
    BY <2>1 DEF CountFailures, TypeOK
  <2>3. IsFiniteSet(F) /\ Cardinality(F) \in Nat
    BY FS_Subset, FS_CardinalityType DEF TypeOK, FailuresSince
  <2>4. cut[w] \in Resets(u) \cup {0}
    BY <2>1 DEF CountFailures, InFlight
  <2>5. Fresh(u) \subseteq F
    BY <2>4 DEF Fresh, FailuresSince, Stamped
  <2>6. Settled(u)' \subseteq Fresh(u)
    BY <2>1, FreshShrinks DEF Settled, CountFailures
  <2> HIDE DEF F
  <2>7. Cardinality(Settled(u)') <= Cardinality(F) /\ Cardinality(Settled(u)') \in Nat
    BY <2>3, <2>5, <2>6, FS_Subset, FS_CardinalityType
  <2> QED BY <2>2, <2>3, <2>7, PolicyAssumption
<1>3. CASE ~ \E w \in Workers : CountFailures(w) /\ pc'[w] = "log" /\ row[w].user = u
  <2>1. Settled(u)' \subseteq Settled(u)
    BY <1>3, SettledContinue, SettledElsewhere
  <2>2. Cardinality(Settled(u)') <= Cardinality(Settled(u)) /\ Cardinality(Settled(u)') \in Nat
    BY <1>1, <2>1, FS_Subset, FS_CardinalityType
  <2> QED BY <1>1, <2>2, PolicyAssumption DEF SettledBound
<1> QED BY <1>2, <1>3

(* A fresh failure is settled, abandoned, or the one a worker has in       *)
(* flight.                                                                 *)
LEMMA GuessesBounded ==
  ASSUME IInv
  PROVE  BoundedGuesses
<1> SUFFICES ASSUME NEW u \in Users
             PROVE  Cardinality(Fresh(u) \ abandoned) <= MaxFailed - 1 + Cardinality(Workers)
  BY DEF BoundedGuesses
<1> DEFINE Busy == {w \in Workers : pc[w] \in Evaluating}
           Owned == {row[w] : w \in Busy}
           f == [w \in Busy |-> row[w]]
<1> USE DEF IInv
<1>1. IsFiniteSet(Workers) /\ Cardinality(Workers) \in Nat
  BY WorkersAssumption, FS_CardinalityType
<1>2. IsFiniteSet(Busy) /\ Cardinality(Busy) <= Cardinality(Workers)
      /\ Cardinality(Busy) \in Nat
  BY <1>1, FS_Subset, FS_CardinalityType
<1>3. f \in Surjection(Busy, Owned)
  BY DEF Surjection
<1>4. IsFiniteSet(Owned) /\ Cardinality(Owned) <= Cardinality(Busy)
      /\ Cardinality(Owned) \in Nat
  <2> HIDE DEF f, Owned, Busy
  <2> QED BY <1>2, <1>3, FS_Surjection, FS_CardinalityType
<1>5. Fresh(u) \ abandoned \subseteq Settled(u) \cup Owned
  BY DEF Settled
<1>6. /\ IsFiniteSet(Settled(u)) /\ Cardinality(Settled(u)) \in Nat
      /\ Cardinality(Settled(u)) < MaxFailed
  BY FS_Subset, FS_CardinalityType DEF TypeOK, Settled, Fresh, SettledBound
<1> HIDE DEF f, Owned, Busy
<1>7. /\ IsFiniteSet(Settled(u) \cup Owned)
      /\ Cardinality(Settled(u) \cup Owned) <= Cardinality(Settled(u)) + Cardinality(Owned)
      /\ Cardinality(Settled(u) \cup Owned) \in Nat
  <2>1. IsFiniteSet(Settled(u) \cap Owned) /\ Cardinality(Settled(u) \cap Owned) \in Nat
    BY <1>4, FS_Intersection, FS_CardinalityType
  <2>2. /\ IsFiniteSet(Settled(u) \cup Owned)
        /\ Cardinality(Settled(u) \cup Owned) =
              Cardinality(Settled(u)) + Cardinality(Owned) - Cardinality(Settled(u) \cap Owned)
    BY <1>4, <1>6, FS_Union
  <2>3. Cardinality(Settled(u) \cup Owned) \in Nat
    BY <2>2, FS_CardinalityType
  <2> QED BY <1>4, <1>6, <2>1, <2>2, <2>3
<1>8. /\ Cardinality(Fresh(u) \ abandoned) <= Cardinality(Settled(u) \cup Owned)
      /\ Cardinality(Fresh(u) \ abandoned) \in Nat
  BY <1>5, <1>7, FS_Subset, FS_CardinalityType
<1> QED BY <1>1, <1>2, <1>4, <1>6, <1>7, <1>8, PolicyAssumption

(* What the bound rests on is an invariant.                                *)
LEMMA Inductive == Spec => []IInv
<1>1. Init => IInv
  <2> SUFFICES ASSUME Init PROVE IInv
    OBVIOUS
  <2>1. TypeOK
    BY FS_EmptySet DEF Init, TypeOK, PCs
  <2>2. Stamped /\ \A w \in Workers : InFlight(w)
    BY DEF Init, Stamped, InFlight, Evaluating
  <2>3. \A u \in Users : Settled(u) = {}
    BY DEF Init, Settled, Fresh
  <2>4. SettledBound
    BY <2>3, FS_EmptySet, PolicyAssumption DEF SettledBound
  <2> QED BY <2>1, <2>2, <2>4 DEF IInv
<1>2. IInv /\ [Next]_vars => IInv'
  BY TypeStep, StampedStep, InFlightStep, SettledStep DEF IInv
<1> QED BY <1>1, <1>2, PTL DEF Spec

(* However the workers interleave, an account sees fewer than MaxFailed    *)
(* plus one per worker wrong credentials since its last reset (failures    *)
(* whose request died before counting them aside).                         *)
THEOREM GuessBound == Spec => []BoundedGuesses
<1>1. IInv => BoundedGuesses
  BY GuessesBounded
<1> QED BY <1>1, Inductive, PTL

-----------------------------------------------------------------------------
(* Stamps. A row is known by its stamp: the clock moves on with each one   *)
(* it gives, and a stamped row stays with one request until its commit.    *)

Stamps ==
    /\ \A a \in attempts : a.created_at <= now
    /\ \A a, b \in attempts : a.created_at = b.created_at => a = b
    /\ \A l \in lockouts : /\ l.locked_at <= now /\ l.visible_at <= now
                            /\ l.free_at <= l.unlock_at
    /\ \A l, m \in lockouts : l.locked_at = m.locked_at => l = m

(* A row that is stamped but not yet committed.                            *)
Uncommitted(w) ==
    /\ pc[w] = "commit" => /\ row[w].created_at <= now
                           /\ \A a \in attempts : a.created_at # row[w].created_at
    /\ pc[w] = "commitLock" =>
          /\ lock[w].user = row[w].user /\ lock[w].lockout_number = number[w]
          /\ lock[w].locked_at <= now /\ lock[w].free_at <= lock[w].unlock_at
          /\ \A l \in lockouts : l.locked_at # lock[w].locked_at
    /\ pc[w] = "logLock" => \E l \in lockouts : /\ l.user = lock[w].user
                                                /\ l.locked_at = lock[w].locked_at

Apart(v, w) ==
    v # w => /\ pc[v] = "commit" /\ pc[w] = "commit" => row[v].created_at # row[w].created_at
             /\ pc[v] = "commitLock" /\ pc[w] = "commitLock"
                   => lock[v].locked_at # lock[w].locked_at

StampInv ==
    /\ Stamps
    /\ \A w \in Workers : Uncommitted(w)
    /\ \A v, w \in Workers : Apart(v, w)

(* m is, after a step, what the lockout l was before it: nothing changes   *)
(* but its end, and the earliest end it has had only gets earlier.         *)
Continues(l, m) ==
    /\ m.user = l.user /\ m.lockout_number = l.lockout_number
    /\ m.locked_at = l.locked_at /\ m.visible_at = l.visible_at
    /\ m.free_at <= l.free_at
    /\ l.free_at <= l.unlock_at => m.free_at <= m.unlock_at

(* Unlocking a lockout continues it.                                       *)
LEMMA UnlockedContinues ==
  ASSUME NEW l \in LockoutRow, NEW t \in Nat
  PROVE  Continues(l, Unlocked(l, t))
  BY DEF Unlocked, LockoutRow, Continues

(* After an UPDATE there are the lockouts of before, one for one.          *)
LEMMA UnlockContinues ==
  ASSUME TypeOK, NEW w \in Workers, CommitUnlock(w)
  PROVE  /\ \A m \in lockouts' : \E l \in lockouts : Continues(l, m)
         /\ \A l \in lockouts : \E m \in lockouts' : Continues(l, m)
         /\ \A m, n \in lockouts' : m.locked_at = n.locked_at =>
               \/ m = n
               \/ \E l, k \in lockouts : l # k /\ l.locked_at = k.locked_at
<1> DEFINE target == {l \in LockoutsOf(lock[w].user) : l.locked_at = lock[w].locked_at}
           t == lock[w].unlock_at
<1>1. t \in Nat
  BY DEF CommitUnlock, TypeOK, LockoutRow
<1>2. target \subseteq lockouts /\ lockouts \subseteq LockoutRow
  BY DEF LockoutsOf, TypeOK
<1>3. \A l \in target : Continues(l, Unlocked(l, t))
  BY <1>1, <1>2, UnlockedContinues
<1>4. lockouts' = (lockouts \ target) \cup {Unlocked(l, t) : l \in target}
  BY DEF CommitUnlock
<1>5. \A l \in lockouts : Continues(l, l)
  BY <1>2 DEF Continues, LockoutRow
<1> HIDE DEF target, t
<1>6. \A m \in lockouts' : \E l \in lockouts :
         Continues(l, m) /\ ((m = l /\ l \notin target) \/ (m = Unlocked(l, t) /\ l \in target))
  <2> TAKE m \in lockouts'
  <2>1. CASE m \in lockouts \ target
    <3>1. m \in lockouts /\ m \notin target /\ Continues(m, m)
      BY <1>5, <2>1
    <3> QED BY <3>1
  <2>2. ASSUME NEW l \in target, m = Unlocked(l, t)
        PROVE  l \in lockouts /\ Continues(l, m)
    BY <1>2, <1>3, <2>2
  <2> QED BY <1>4, <2>1, <2>2
<1>7. \A l \in lockouts : \E m \in lockouts' : Continues(l, m)
  BY <1>3, <1>4, <1>5
<1>8. ASSUME NEW m \in lockouts', NEW n \in lockouts', m.locked_at = n.locked_at, m # n
      PROVE  \E l, k \in lockouts : l # k /\ l.locked_at = k.locked_at
  <2>1. PICK l \in lockouts : Continues(l, m)
            /\ ((m = l /\ l \notin target) \/ (m = Unlocked(l, t) /\ l \in target))
    BY <1>6
  <2>2. PICK k \in lockouts : Continues(k, n)
            /\ ((n = k /\ k \notin target) \/ (n = Unlocked(k, t) /\ k \in target))
    BY <1>6
  <2>3. l # k
    BY <1>8, <2>1, <2>2
  <2> QED BY <1>8, <2>1, <2>2, <2>3 DEF Continues
<1> QED BY <1>6, <1>7, <1>8

(* Every lockout of the next state is a lockout of before, or the one that *)
(* a request has just committed.                                           *)
LEMMA LockoutsContinue ==
  ASSUME TypeOK, [Next]_vars, NEW m \in lockouts'
  PROVE  \/ \E l \in lockouts : Continues(l, m)
         \/ \E w \in Workers : CommitLockout(w) /\ m = [lock[w] EXCEPT !.visible_at = now]
<1>1. CASE lockouts' = lockouts
  BY <1>1 DEF Continues, TypeOK, LockoutRow
<1>2. ASSUME NEW w \in Workers, CommitLockout(w)
      PROVE  m \in lockouts \/ m = [lock[w] EXCEPT !.visible_at = now]
  BY <1>2 DEF CommitLockout
<1>3. ASSUME NEW w \in Workers, CommitUnlock(w)
      PROVE  \E l \in lockouts : Continues(l, m)
  BY <1>3, UnlockContinues
<1>4. \/ lockouts' = lockouts
      \/ \E w \in Workers : CommitLockout(w) \/ CommitUnlock(w)
  BY ZenonT(30) DEF Next, Continue, RecordAttempt, CommitAttempt, ReadLastSuccess, ReadLastLockout,
         CountFailures, CountPriorLockouts, CreateLockout, LogLockout, LogPasswordOk,
         CreateSession, LogOutcome, LogUnlock, Crash, Arrive, Login, VerifyMfa,
         WebAuthnLoginBegin, WebAuthnLoginComplete, ManualUnlock, Enter, Tick, Over, vars
<1>5. \A l \in lockouts : Continues(l, l)
  BY DEF Continues, TypeOK, LockoutRow
<1> QED BY <1>1, <1>2, <1>3, <1>4, <1>5

(* Every lockout of before is still there.                                 *)
LEMMA LockoutsStay ==
  ASSUME TypeOK, [Next]_vars, NEW l \in lockouts
  PROVE  \E m \in lockouts' : Continues(l, m)
<1>1. CASE lockouts \subseteq lockouts'
  BY <1>1 DEF Continues, TypeOK, LockoutRow
<1>2. ASSUME NEW w \in Workers, CommitUnlock(w)
      PROVE  \E m \in lockouts' : Continues(l, m)
  BY <1>2, UnlockContinues
<1>3. \/ lockouts \subseteq lockouts'
      \/ \E w \in Workers : CommitUnlock(w)
  BY ZenonT(30) DEF Next, Continue, RecordAttempt, CommitAttempt, ReadLastSuccess, ReadLastLockout,
         CountFailures, CountPriorLockouts, CreateLockout, LogLockout, LogPasswordOk,
         CreateSession, LogOutcome, LogUnlock, Crash, Arrive, Login, VerifyMfa, CommitLockout,
         WebAuthnLoginBegin, WebAuthnLoginComplete, ManualUnlock, Enter, Tick, Over, vars
<1> QED BY <1>1, <1>2, <1>3

(* The stamps stay unique through every step.                              *)
LEMMA StampsStep ==
  ASSUME TypeOK, [Next]_vars, StampInv
  PROVE  Stamps'
<1> USE DEF StampInv
<1>1. now \in Nat /\ now' \in Nat /\ now <= now'
  BY RowsGrow
<1> DEFINE RowsOk == /\ \A a \in attempts' : a.created_at <= now'
                     /\ \A a, b \in attempts' : a.created_at = b.created_at => a = b
<1>2. RowsOk
  <2>1. ASSUME NEW w \in Workers, CommitAttempt(w) PROVE RowsOk
    BY <2>1 DEF CommitAttempt, Stamps, Uncommitted
  <2>2. CASE attempts' = attempts
    BY <1>1, <2>2 DEF Stamps, TypeOK, Attempt
  <2> QED
    BY <2>1, <2>2, AttemptStep
<1> DEFINE Ok(m) == m.locked_at <= now' /\ m.visible_at <= now' /\ m.free_at <= m.unlock_at
<1>3. ASSUME NEW m \in lockouts' PROVE Ok(m)
  <2>1. ASSUME NEW l \in lockouts, Continues(l, m) PROVE Ok(m)
    BY <1>1, <2>1 DEF Stamps, Continues, TypeOK, LockoutRow
  <2>2. ASSUME NEW w \in Workers, CommitLockout(w), m = [lock[w] EXCEPT !.visible_at = now]
        PROVE Ok(m)
    BY <1>1, <2>2 DEF CommitLockout, Uncommitted, TypeOK, LockoutRow
  <2> QED BY <2>1, <2>2, LockoutsContinue
<1>4. ASSUME NEW m \in lockouts', NEW n \in lockouts', m.locked_at = n.locked_at
      PROVE  m = n
  <2>1. ASSUME NEW w \in Workers, CommitLockout(w) PROVE m = n
    BY <1>4, <2>1 DEF CommitLockout, Stamps, Uncommitted, TypeOK, LockoutRow
  <2>2. ASSUME NEW w \in Workers, CommitUnlock(w) PROVE m = n
    BY <1>4, <2>2, UnlockContinues DEF Stamps
  <2>3. CASE lockouts' = lockouts
    BY <1>4, <2>3 DEF Stamps
  <2> QED
    BY <2>1, <2>2, <2>3
    DEF Next, Continue, RecordAttempt, CommitAttempt, ReadLastSuccess, ReadLastLockout,
        CountFailures, CountPriorLockouts, CreateLockout, LogLockout, LogPasswordOk,
        CreateSession, LogOutcome, LogUnlock, Crash, Arrive, Login, VerifyMfa,
        WebAuthnLoginBegin, WebAuthnLoginComplete, ManualUnlock, Enter, Tick, Over, vars
<1> QED BY <1>2, <1>3, <1>4 DEF Stamps

(* An uncommitted row of a request that does not move stays apart from the *)
(* committed ones.                                                         *)
LEMMA UncommittedKeeps ==
  ASSUME TypeOK, [Next]_vars, StampInv, NEW w \in Workers,
         pc'[w] = pc[w], row'[w] = row[w], number'[w] = number[w], lock'[w] = lock[w]
  PROVE  Uncommitted(w)'
<1> USE DEF StampInv
<1>1. now \in Nat /\ now' \in Nat /\ now <= now'
  BY RowsGrow
<1>2. ASSUME pc[w] = "commit"
      PROVE  row[w].created_at <= now' /\ \A a \in attempts' : a.created_at # row[w].created_at
  <2>1. row[w].created_at <= now /\ row[w].created_at \in Nat
    BY <1>2 DEF Uncommitted, TypeOK, Attempt
  <2>2. ASSUME NEW v \in Workers, CommitAttempt(v), attempts' # attempts
        PROVE  \A a \in attempts' : a.created_at # row[w].created_at
    <3>1. v # w
      BY <1>2, <2>2 DEF CommitAttempt, TypeOK
    <3> QED BY <1>2, <2>2, <3>1 DEF CommitAttempt, Uncommitted, Apart
  <2>3. CASE attempts' = attempts
    BY <1>1, <1>2, <2>1, <2>3 DEF Uncommitted
  <2> QED
    BY <1>1, <2>1, <2>2, <2>3, AttemptStep
<1>3. ASSUME pc[w] = "commitLock", NEW m \in lockouts'
      PROVE  m.locked_at # lock[w].locked_at
  <2>1. ASSUME NEW l \in lockouts, Continues(l, m) PROVE m.locked_at # lock[w].locked_at
    BY <1>3, <2>1 DEF Uncommitted, Continues
  <2>2. ASSUME NEW v \in Workers, CommitLockout(v), m = [lock[v] EXCEPT !.visible_at = now]
        PROVE  m.locked_at # lock[w].locked_at
    <3>1. v # w
      BY <1>3, <2>2 DEF CommitLockout, TypeOK
    <3>2. m.locked_at = lock[v].locked_at
      BY <2>2 DEF CommitLockout, TypeOK, LockoutRow
    <3> QED BY <1>3, <2>2, <3>1, <3>2 DEF CommitLockout, Apart
  <2> QED BY <2>1, <2>2, LockoutsContinue
<1>4. ASSUME pc[w] = "logLock"
      PROVE  \E m \in lockouts' : m.user = lock[w].user /\ m.locked_at = lock[w].locked_at
  BY <1>4, LockoutsStay DEF Uncommitted, Continues
<1>5. ASSUME pc[w] = "commitLock" PROVE lock[w].locked_at <= now'
  BY <1>1, <1>5 DEF Uncommitted, TypeOK, LockoutRow
<1> QED BY <1>2, <1>3, <1>4, <1>5 DEF Uncommitted

(* Every step keeps the uncommitted rows apart from the committed ones.    *)
LEMMA UncommittedStep ==
  ASSUME TypeOK, [Next]_vars, StampInv, NEW w \in Workers
  PROVE  Uncommitted(w)'
<1> USE DEF StampInv
<1>1. CASE RecordAttempt(w)
  BY <1>1 DEF RecordAttempt, Uncommitted, Stamps, TypeOK, Attempt
<1>2. CASE CreateLockout(w)
  <2>1. Duration(number[w]) \in Nat
    BY DurationType
  <2> DEFINE d == Duration(number[w])
  <2>2. /\ pc'[w] = "commitLock" /\ now' = now + 1 /\ row' = row /\ number' = number
        /\ lockouts' = lockouts
        /\ lock'[w] = [user |-> row[w].user, lockout_number |-> number[w],
                       locked_at |-> now + 1, unlock_at |-> now + 1 + d,
                       duration |-> d, visible_at |-> 0, free_at |-> now + 1 + d]
    BY <1>2 DEF CreateLockout, TypeOK
  <2> HIDE DEF d
  <2>3. now \in Nat /\ d \in Nat
    BY <2>1 DEF TypeOK, d
  <2>4. \A l \in lockouts : l.locked_at # now + 1
    BY <2>3 DEF Stamps, TypeOK, LockoutRow
  <2> QED BY <2>2, <2>3, <2>4 DEF Uncommitted
<1>3. CASE CommitLockout(w)
  <2> DEFINE m == [lock[w] EXCEPT !.visible_at = now]
  <2>1. lock[w] \in LockoutRow /\ now \in Nat
    BY <1>3 DEF CommitLockout, TypeOK
  <2>2. m.user = lock[w].user /\ m.locked_at = lock[w].locked_at
    BY <2>1, VisibleType
  <2>3. m \in lockouts' /\ pc'[w] = "logLock" /\ lock' = lock
    BY <1>3 DEF CommitLockout, TypeOK
  <2> HIDE DEF m
  <2> QED BY <2>2, <2>3 DEF Uncommitted
<1>4. CASE pc'[w] \notin {"commit", "commitLock", "logLock"}
  BY <1>4 DEF Uncommitted
<1>5. CASE /\ pc'[w] = pc[w] /\ row'[w] = row[w] /\ number'[w] = number[w]
           /\ lock'[w] = lock[w]
  BY <1>5, UncommittedKeeps
<1> QED
  <2>1. CASE CountPriorLockouts(w)
    BY <1>4, <2>1 DEF CountPriorLockouts, TypeOK
  <2> QED BY <1>1, <1>2, <1>3, <1>4, <1>5, <2>1, RequestStep DEF Unmoved

(* Two requests never get the same stamp.                                  *)
LEMMA ApartStep ==
  ASSUME TypeOK, [Next]_vars, StampInv, NEW v \in Workers, NEW w \in Workers
  PROVE  Apart(v, w)'
<1> USE DEF StampInv
<1>1. SUFFICES ASSUME v # w PROVE Apart(v, w)'
  BY DEF Apart
<1> DEFINE Still(x) == /\ pc'[x] \in {"commit", "commitLock"} => pc'[x] = pc[x]
                       /\ row'[x] = row[x] \/ pc'[x] # "commit"
                       /\ lock'[x] = lock[x] \/ pc'[x] # "commitLock"
           New(x) == RecordAttempt(x) \/ CreateLockout(x)
<1>2. Still(v) /\ Still(w) => Apart(v, w)'
  BY DEF Apart
<1>3. ASSUME NEW x \in Workers, NEW y \in Workers, x # y, New(x)
      PROVE  Still(y)
  BY <1>3 DEF RecordAttempt, CreateLockout, TypeOK
<1>4. ASSUME NEW x \in Workers, NEW y \in Workers, x # y, New(x), Still(y)
      PROVE  Apart(x, y)' /\ Apart(y, x)'
  BY <1>4 DEF RecordAttempt, CreateLockout, Apart, Uncommitted, TypeOK, Attempt, LockoutRow
<1>5. ASSUME NEW x \in Workers PROVE New(x) \/ Still(x)
  <2>1. ASSUME NEW y \in Workers, y # x,
               Continue(y) \/ Crash(y) \/ \E u \in Users : Arrive(y, u)
        PROVE  Still(x)
    BY <2>1, OthersKeep DEF Others
  <2>2. CASE Continue(x)
    BY <2>2
    DEF Continue, CommitAttempt, RecordAttempt, ReadLastSuccess, ReadLastLockout,
        CountFailures, CountPriorLockouts, CreateLockout, LogLockout, LogPasswordOk, TypeOK,
        CommitUnlock, CreateSession, LogOutcome, LogUnlock, CommitLockout
  <2>3. CASE Crash(x) \/ \E u \in Users : Arrive(x, u)
    BY <2>3 DEF Crash, Arrive, Login, VerifyMfa, WebAuthnLoginBegin, WebAuthnLoginComplete,
                ManualUnlock, Enter, TypeOK
  <2>4. CASE Tick \/ Over \/ UNCHANGED vars
    BY <2>4 DEF Tick, Over, vars
  <2> QED BY <2>1, <2>2, <2>3, <2>4 DEF Next
<1> QED BY <1>1, <1>2, <1>3, <1>4, <1>5

(* The unique stamps are an invariant.                                     *)
LEMMA StampsInductive == Spec => []StampInv
<1>1. Init => StampInv
  BY DEF Init, StampInv, Stamps, Uncommitted, Apart
<1>2. IInv /\ StampInv /\ [Next]_vars => StampInv'
  BY StampsStep, UncommittedStep, ApartStep DEF StampInv, IInv
<1> QED BY <1>1, <1>2, Inductive, PTL DEF Spec

-----------------------------------------------------------------------------
(* Counting what is handed over.                                           *)

(* If a set C may gain one member over A only when D loses one of B, then  *)
(* together they do not grow.                                              *)
LEMMA Handover ==
  ASSUME NEW A, IsFiniteSet(A), NEW B, IsFiniteSet(B), NEW C, NEW D, NEW x,
         C \subseteq A \cup {x}, D \subseteq B,
         C \subseteq A \/ D # B
  PROVE  Cardinality(C) + Cardinality(D) <= Cardinality(A) + Cardinality(B)
<1>1. /\ Cardinality(A) \in Nat /\ Cardinality(B) \in Nat
      /\ IsFiniteSet(D) /\ Cardinality(D) \in Nat /\ Cardinality(D) <= Cardinality(B)
      /\ Cardinality(D) = Cardinality(B) => D = B
  BY FS_CardinalityType, FS_Subset
<1>2. CASE C \subseteq A
  <2>1. Cardinality(C) <= Cardinality(A) /\ Cardinality(C) \in Nat
    BY <1>2, FS_CardinalityType, FS_Subset
  <2> QED BY <1>1, <2>1
<1>3. CASE ~(C \subseteq A)
  <2>1. /\ IsFiniteSet(A \cup {x})
        /\ Cardinality(A \cup {x}) \in Nat /\ Cardinality(A \cup {x}) <= Cardinality(A) + 1
    <3>1. /\ IsFiniteSet(A \cup {x})
          /\ Cardinality(A \cup {x}) = IF x \in A THEN Cardinality(A) ELSE Cardinality(A) + 1
      BY FS_AddElement
    <3> QED BY <1>1, <3>1
  <2>2. Cardinality(C) <= Cardinality(A \cup {x}) /\ Cardinality(C) \in Nat
    BY <2>1, FS_CardinalityType, FS_Subset
  <2>3. Cardinality(D) < Cardinality(B)
    BY <1>1, <1>3
  <2> QED BY <1>1, <2>1, <2>2, <2>3
<1> QED BY <1>2, <1>3

(* Lockouts of different stamps can be counted by their stamps.            *)
LEMMA StampsCount ==
  ASSUME NEW S, IsFiniteSet(S), \A l, m \in S : l.locked_at = m.locked_at => l = m
  PROVE  /\ IsFiniteSet({l.locked_at : l \in S})
         /\ Cardinality({l.locked_at : l \in S}) = Cardinality(S)
<1> DEFINE T == {l.locked_at : l \in S}
           f == [l \in S |-> l.locked_at]
<1>1. f \in Bijection(S, T)
  <2>1. f \in Surjection(S, T)
    BY DEF Surjection
  <2>2. f \in Injection(S, T)
    BY DEF Injection, IsInjective
  <2> QED BY <2>1, <2>2 DEF Bijection
<1> HIDE DEF f, T
<1>2. ExistsBijection(S, T)
  BY <1>1 DEF ExistsBijection
<1>3. IsFiniteSet(T) /\ Cardinality(T) = Cardinality(S)
  BY <1>2, FS_Bijection
<1> QED BY <1>3 DEF T

(* So can any of the lockouts.                                             *)
LEMMA CountedByStamp ==
  ASSUME TypeOK, Stamps, NEW S \in SUBSET lockouts
  PROVE  /\ IsFiniteSet(S) /\ IsFiniteSet({l.locked_at : l \in S})
         /\ Cardinality({l.locked_at : l \in S}) = Cardinality(S)
<1>1. IsFiniteSet(S)
  BY FS_Subset DEF TypeOK
<1>2. \A l, m \in S : l.locked_at = m.locked_at => l = m
  BY DEF Stamps
<1> QED BY <1>1, <1>2, StampsCount

(* How often an account has been locked is the number of its lock times.   *)
LEMMA LockoutsCounted ==
  ASSUME TypeOK, Stamps, NEW u \in Users
  PROVE  /\ IsFiniteSet(LockTimes(u)) /\ Cardinality(LockTimes(u)) \in Nat
         /\ Cardinality(LockTimes(u)) = Cardinality(LockoutsOf(u))
  BY CountedByStamp, FS_CardinalityType DEF LockTimes, LockoutsOf

-----------------------------------------------------------------------------
(* Shared numbers. The lockouts of one number and the requests that are    *)
(* about to write one more of it are at most one per worker together:      *)
(* whoever counts afresh gets a number no lockout has yet.                 *)

Numbered(u, n) == {l.locked_at : l \in {m \in LockoutsOf(u) : m.lockout_number = n}}

Numbering(u, n) == {w \in Workers : /\ pc[w] \in {"create", "commitLock"}
                                    /\ row[w].user = u /\ number[w] = n}

NumbersGrow ==
    /\ \A l \in lockouts : l.lockout_number <= Cardinality(LockTimes(l.user))
    /\ \A w \in Workers : pc[w] \in {"create", "commitLock"} =>
          number[w] <= Cardinality(LockTimes(row[w].user)) + 1

NumbersShared ==
    \A u \in Users, n \in Nat :
        Cardinality(Numbered(u, n)) + Cardinality(Numbering(u, n)) <= Cardinality(Workers)

(* The lock times only grow in number.                                     *)
LEMMA LockTimesGrow ==
  ASSUME TypeOK, Stamps, TypeOK', Stamps', [Next]_vars, NEW u \in Users
  PROVE  /\ Cardinality(LockTimes(u)) \in Nat /\ Cardinality(LockTimes(u)') \in Nat
         /\ Cardinality(LockTimes(u)) <= Cardinality(LockTimes(u)')
<1>1. LockTimes(u) \subseteq LockTimes(u)'
  BY RowsGrow
<1>2. IsFiniteSet(LockTimes(u)')
  <2>1. {l \in lockouts' : l.user = u} \in SUBSET lockouts' /\ IsFiniteSet(lockouts')
    BY DEF TypeOK
  <2>2. IsFiniteSet({l \in lockouts' : l.user = u})
    BY <2>1, FS_Subset
  <2> DEFINE S == {l \in lockouts' : l.user = u}
             T == {l.locked_at : l \in S}
             f == [l \in S |-> l.locked_at]
  <2>3. f \in Surjection(S, T)
    BY DEF Surjection
  <2>4. IsFiniteSet(T)
    <3> HIDE DEF f, T, S
    <3> QED BY <2>2, <2>3, FS_Surjection DEF S
  <2> QED BY <2>4 DEF LockTimes, LockoutsOf
<1>3. /\ Cardinality(LockTimes(u)') \in Nat
      /\ IsFiniteSet(LockTimes(u)) /\ Cardinality(LockTimes(u)) <= Cardinality(LockTimes(u)')
  BY <1>1, <1>2, FS_Subset, FS_CardinalityType
<1> QED BY <1>3, FS_CardinalityType

(* A number is at most the count of lockouts, the one in preparation       *)
(* included.                                                               *)
LEMMA NumbersGrowStep ==
  ASSUME TypeOK, StampInv, TypeOK', StampInv', NumbersGrow, [Next]_vars
  PROVE  NumbersGrow'
<1> USE DEF StampInv
<1>1. ASSUME NEW m \in lockouts', NEW u \in Users, m.user = u
      PROVE  m.lockout_number <= Cardinality(LockTimes(u)')
  <2>1. m \in LockoutRow /\ m.lockout_number \in Nat
    BY DEF TypeOK, LockoutRow
  <2>2. /\ Cardinality(LockTimes(u)) \in Nat /\ Cardinality(LockTimes(u)') \in Nat
        /\ Cardinality(LockTimes(u)) <= Cardinality(LockTimes(u)')
    BY LockTimesGrow
  <2>3. ASSUME NEW l \in lockouts, Continues(l, m)
        PROVE  m.lockout_number <= Cardinality(LockTimes(u)')
    <3>1. m.lockout_number <= Cardinality(LockTimes(u))
      BY <1>1, <2>3 DEF Continues, NumbersGrow
    <3> QED BY <2>1, <2>2, <3>1
  <2>4. ASSUME NEW w \in Workers, CommitLockout(w), m = [lock[w] EXCEPT !.visible_at = now]
        PROVE  m.lockout_number <= Cardinality(LockTimes(u)')
    <3>1. /\ lock[w] \in LockoutRow /\ lock[w].lockout_number = number[w]
          /\ lock[w].user = row[w].user
          /\ \A l \in lockouts : l.locked_at # lock[w].locked_at
          /\ number[w] <= Cardinality(LockTimes(row[w].user)) + 1
      BY <2>4 DEF CommitLockout, Uncommitted, TypeOK, NumbersGrow
    <3>2. /\ m.user = lock[w].user /\ m.locked_at = lock[w].locked_at
          /\ m.lockout_number = lock[w].lockout_number
      BY <2>4, <3>1 DEF LockoutRow
    <3>3. LockTimes(u)' = LockTimes(u) \cup {m.locked_at}
      <4>1. lockouts' = lockouts \cup {m}
        BY <2>4 DEF CommitLockout
      <4> QED BY <1>1, <4>1 DEF LockTimes, LockoutsOf
    <3>4. m.locked_at \notin LockTimes(u)
      BY <3>1, <3>2 DEF LockTimes, LockoutsOf
    <3>5. Cardinality(LockTimes(u)') = Cardinality(LockTimes(u)) + 1
      BY <3>3, <3>4, FS_AddElement, LockoutsCounted
    <3> QED BY <1>1, <3>1, <3>2, <3>5
  <2> QED BY <2>3, <2>4, LockoutsContinue
<1>2. ASSUME NEW w \in Workers, pc'[w] \in {"create", "commitLock"},
             NEW u \in Users, row'[w].user = u
      PROVE  number'[w] <= Cardinality(LockTimes(u)') + 1
  <2>1. row'[w] \in Attempt /\ number'[w] \in Nat
    BY <1>2 DEF TypeOK
  <2>2. /\ Cardinality(LockTimes(u)) \in Nat /\ Cardinality(LockTimes(u)') \in Nat
        /\ Cardinality(LockTimes(u)) <= Cardinality(LockTimes(u)')
    BY LockTimesGrow
  <2>3. CASE CountPriorLockouts(w)
    <3>1. number'[w] = Cardinality(LockoutsOf(u)) + 1
      BY <1>2, <2>3 DEF CountPriorLockouts, TypeOK
    <3> QED BY <2>1, <2>2, <3>1, LockoutsCounted
  <2>4. CASE pc[w] \in {"create", "commitLock"} /\ row'[w] = row[w] /\ number'[w] = number[w]
    <3>1. number'[w] <= Cardinality(LockTimes(u)) + 1
      BY <1>2, <2>4 DEF NumbersGrow
    <3> QED BY <2>1, <2>2, <3>1
  <2> QED
    <3>1. CASE RecordAttempt(w)
      BY <1>2, <3>1 DEF RecordAttempt, TypeOK
    <3>2. CASE CreateLockout(w)
      BY <1>2, <2>4, <3>2 DEF CreateLockout, TypeOK
    <3>3. CASE CommitLockout(w)
      BY <1>2, <3>3 DEF CommitLockout, TypeOK
    <3> QED BY <1>2, <2>3, <2>4, <3>1, <3>2, <3>3, RequestStep DEF Unmoved
<1>3. /\ \A m \in lockouts' : m.user \in Users
      /\ \A w \in Workers : pc'[w] \in {"create", "commitLock"} => row'[w].user \in Users
  BY DEF TypeOK, LockoutRow, Attempt
<1> QED BY <1>1, <1>2, <1>3 DEF NumbersGrow, LockTimes, LockoutsOf

(* A number fills up only by the requests that hold it, and nobody new     *)
(* gets a number that has been used.                                       *)
LEMMA NumbersSharedStep ==
  ASSUME TypeOK, StampInv, NumbersGrow, NumbersShared, [Next]_vars
  PROVE  NumbersShared'
<1> USE DEF StampInv
<1> SUFFICES ASSUME NEW u \in Users, NEW n \in Nat
             PROVE  Cardinality(Numbered(u, n)') + Cardinality(Numbering(u, n)')
                        <= Cardinality(Workers)
  BY DEF NumbersShared
<1>1. IsFiniteSet(Numbered(u, n)) /\ Cardinality(Numbered(u, n)) \in Nat
  BY CountedByStamp, FS_CardinalityType DEF Numbered, LockoutsOf
<1>2. /\ IsFiniteSet(Numbering(u, n)) /\ Cardinality(Numbering(u, n)) \in Nat
      /\ Cardinality(Workers) \in Nat
      /\ IsFiniteSet(Numbering(u, n)') /\ Cardinality(Numbering(u, n)') \in Nat
      /\ Cardinality(Numbering(u, n)') <= Cardinality(Workers)
  BY WorkersAssumption, FS_Subset, FS_CardinalityType DEF Numbering
<1>3. Cardinality(Numbered(u, n)) + Cardinality(Numbering(u, n)) <= Cardinality(Workers)
  BY DEF NumbersShared
<1>4. ASSUME NEW w \in Workers, CommitLockout(w)
      PROVE  Cardinality(Numbered(u, n)') + Cardinality(Numbering(u, n)')
                 <= Cardinality(Workers)
  <2> DEFINE m == [lock[w] EXCEPT !.visible_at = now]
  <2>1. /\ lock[w] \in LockoutRow /\ lock[w].lockout_number = number[w]
        /\ lock[w].user = row[w].user /\ pc[w] = "commitLock"
    BY <1>4 DEF CommitLockout, Uncommitted, TypeOK
  <2>2. /\ m.user = row[w].user /\ m.locked_at = lock[w].locked_at
        /\ m.lockout_number = number[w]
    BY <2>1 DEF LockoutRow
  <2>3. lockouts' = lockouts \cup {m}
    BY <1>4 DEF CommitLockout
  <2> HIDE DEF m
  <2>4. Numbered(u, n)' \subseteq Numbered(u, n) \cup {m.locked_at}
    BY <2>3 DEF Numbered, LockoutsOf
  <2>5. Numbering(u, n)' = Numbering(u, n) \ {w}
    BY <1>4 DEF CommitLockout, Numbering, TypeOK
  <2>6. Numbered(u, n)' \subseteq Numbered(u, n) \/ w \in Numbering(u, n)
    BY <2>1, <2>2, <2>3 DEF Numbered, LockoutsOf, Numbering
  <2>7. Cardinality(Numbered(u, n)') + Cardinality(Numbering(u, n)')
          <= Cardinality(Numbered(u, n)) + Cardinality(Numbering(u, n))
    BY <1>1, <1>2, <2>4, <2>5, <2>6, Handover
  <2>8. IsFiniteSet(Numbered(u, n)') /\ Cardinality(Numbered(u, n)') \in Nat
    <3>1. IsFiniteSet(Numbered(u, n) \cup {m.locked_at})
      BY <1>1, FS_AddElement
    <3> QED BY <2>4, <3>1, FS_Subset, FS_CardinalityType
  <2> QED BY <1>1, <1>2, <1>3, <2>7, <2>8
<1>5. ASSUME ~ \E w \in Workers : CommitLockout(w)
      PROVE  Cardinality(Numbered(u, n)') + Cardinality(Numbering(u, n)')
                 <= Cardinality(Workers)
  <2>1. Numbered(u, n)' \subseteq Numbered(u, n)
    BY <1>5, LockoutsContinue DEF Numbered, LockoutsOf, Continues
  <2>2. CASE Numbering(u, n)' \subseteq Numbering(u, n)
    <3>1. /\ Cardinality(Numbered(u, n)') <= Cardinality(Numbered(u, n))
          /\ Cardinality(Numbered(u, n)') \in Nat
          /\ Cardinality(Numbering(u, n)') <= Cardinality(Numbering(u, n))
      BY <1>1, <1>2, <2>1, <2>2, FS_Subset, FS_CardinalityType
    <3> QED BY <1>1, <1>2, <1>3, <3>1
  <2>3. ASSUME NEW w \in Numbering(u, n)', w \notin Numbering(u, n)
        PROVE  Numbered(u, n) = {}
    <3>0. /\ pc'[w] \in {"create", "commitLock"} /\ row'[w].user = u /\ number'[w] = n
          /\ w \in Workers /\ ~(/\ pc[w] \in {"create", "commitLock"}
                               /\ row[w].user = u /\ number[w] = n)
      BY <2>3 DEF Numbering
    <3>1. CountPriorLockouts(w)
      <4>1. CASE RecordAttempt(w)
        BY <3>0, <4>1 DEF RecordAttempt, TypeOK
      <4>2. CASE CreateLockout(w)
        BY <3>0, <4>2 DEF CreateLockout, TypeOK
      <4>3. CASE CommitLockout(w)
        BY <3>0, <4>3 DEF CommitLockout, TypeOK
      <4> QED BY <3>0, <4>1, <4>2, <4>3, RequestStep DEF Unmoved
    <3>2. n = Cardinality(LockoutsOf(u)) + 1
      BY <2>3, <3>1 DEF Numbering, CountPriorLockouts, TypeOK
    <3>3. \A l \in LockoutsOf(u) : l.lockout_number < n
      BY <3>2, LockoutsCounted DEF NumbersGrow, LockoutsOf, TypeOK, LockoutRow
    <3> QED BY <3>3 DEF Numbered, LockoutsOf, TypeOK, LockoutRow
  <2>4. CASE ~(Numbering(u, n)' \subseteq Numbering(u, n))
    <3>1. Numbered(u, n)' = {}
      BY <2>1, <2>3, <2>4
    <3> QED BY <1>2, <3>1, FS_EmptySet
  <2> QED BY <2>2, <2>4
<1> QED BY <1>4, <1>5

(* A lockout number is used at most once per worker, so the backoff cannot *)
(* stall on one step.                                                      *)
THEOREM NumbersAreShared == Spec => []SharedNumbers
<1>1. Init => NumbersGrow /\ NumbersShared
  <2> SUFFICES ASSUME Init PROVE NumbersGrow /\ NumbersShared
    OBVIOUS
  <2>1. \A u \in Users, n \in Nat : Numbered(u, n) = {} /\ Numbering(u, n) = {}
    BY DEF Init, Numbered, LockoutsOf, Numbering
  <2>2. Cardinality(Workers) \in Nat
    BY WorkersAssumption, FS_CardinalityType
  <2>3. lockouts = {} /\ Cardinality({}) = 0 /\ \A w \in Workers : pc[w] = "idle"
    BY FS_EmptySet DEF Init
  <2>4. NumbersGrow
    BY <2>3 DEF NumbersGrow
  <2>5. NumbersShared
    BY <2>1, <2>2, <2>3 DEF NumbersShared
  <2> QED BY <2>4, <2>5
<1>2. IInv /\ StampInv /\ IInv' /\ StampInv' /\ NumbersGrow /\ NumbersShared /\ [Next]_vars
        => NumbersGrow' /\ NumbersShared'
  BY NumbersGrowStep, NumbersSharedStep DEF IInv
<1>3. IInv /\ StampInv /\ NumbersShared => SharedNumbers
  <2> SUFFICES ASSUME IInv, StampInv, NumbersShared, NEW l \in lockouts
               PROVE  Cardinality({m \in LockoutsOf(l.user) :
                                      m.lockout_number = l.lockout_number})
                          <= Cardinality(Workers)
    BY DEF SharedNumbers
  <2> DEFINE S == {m \in LockoutsOf(l.user) : m.lockout_number = l.lockout_number}
  <2>1. l.user \in Users /\ l.lockout_number \in Nat
    BY DEF IInv, TypeOK, LockoutRow
  <2>2. Cardinality(S) = Cardinality(Numbered(l.user, l.lockout_number))
    BY CountedByStamp DEF IInv, StampInv, Numbered, LockoutsOf
  <2>3. /\ Cardinality(Numbered(l.user, l.lockout_number)) \in Nat
        /\ Cardinality(Numbering(l.user, l.lockout_number)) \in Nat
        /\ Cardinality(Workers) \in Nat
    <3>1. IsFiniteSet(Numbered(l.user, l.lockout_number))
      BY CountedByStamp DEF IInv, StampInv, Numbered, LockoutsOf
    <3>2. IsFiniteSet(Numbering(l.user, l.lockout_number))
      BY WorkersAssumption, FS_Subset DEF Numbering
    <3> QED BY <3>1, <3>2, WorkersAssumption, FS_CardinalityType
  <2>4. Cardinality(Numbered(l.user, l.lockout_number))
          + Cardinality(Numbering(l.user, l.lockout_number)) <= Cardinality(Workers)
    BY <2>1 DEF NumbersShared
  <2> HIDE DEF S
  <2> QED BY <2>2, <2>3, <2>4 DEF S
<1> QED BY <1>1, <1>2, <1>3, Inductive, StampsInductive, PTL DEF Spec

-----------------------------------------------------------------------------
(* What a lockout lets through. A request that had passed the lockout      *)
(* check when the newest lockout became visible may still be evaluated     *)
(* while it holds. Those that were and those that may yet be are fewer     *)
(* than the workers, since the one that committed the lockout is neither.  *)

Checked == {"password", "webauthn"}

Admitted(l) ==
    {w \in Workers :
        /\ pc[w] \in {"verify", "commit"}
        /\ row[w].user = l.user /\ row[w].stage \in Checked
        /\ pc[w] = "verify" => now < l.free_at
        /\ pc[w] = "commit" => /\ row[w].reason # "locked"
                               /\ l.visible_at < row[w].created_at
                               /\ row[w].created_at <= l.free_at}

FewAdmitted ==
    \A l \in lockouts : IsLatest(l) =>
        Cardinality(EvaluatedDuring(l, Checked)) + Cardinality(Admitted(l))
            < Cardinality(Workers)

(* The newest lockout has been the newest since it was committed.          *)
LEMMA LatestBefore ==
  ASSUME TypeOK, [Next]_vars, NEW m, IsLatest(m)', NEW l \in lockouts, Continues(l, m)
  PROVE  IsLatest(l)
<1> SUFFICES ASSUME NEW k \in lockouts, k.user = l.user PROVE k.locked_at <= l.locked_at
  BY DEF IsLatest, LockoutsOf
<1>1. PICK n \in lockouts' : Continues(k, n)
  BY LockoutsStay
<1> QED BY <1>1 DEF IsLatest, LockoutsOf, Continues

(* Nobody new passes the lockout check while the newest lockout holds.     *)
LEMMA AdmittedShrinks ==
  ASSUME TypeOK, StampInv, [Next]_vars, NEW m, m \in lockouts',
         NEW l \in lockouts, Continues(l, m), IsLatest(l)
  PROVE  Admitted(m)' \subseteq Admitted(l)
<1> SUFFICES ASSUME NEW w \in Workers, w \in Admitted(m)' PROVE w \in Admitted(l)
  BY DEF Admitted
<1>1. /\ now \in Nat /\ now' \in Nat /\ now <= now'
      /\ l.free_at \in Nat /\ m.free_at \in Nat /\ m.free_at <= l.free_at
      /\ l.unlock_at \in Nat /\ l.free_at <= l.unlock_at
      /\ m.user = l.user /\ m.visible_at = l.visible_at
  BY RowsGrow, TypeStep DEF TypeOK, LockoutRow, Continues, StampInv, Stamps
<1>2. /\ pc'[w] \in {"verify", "commit"}
      /\ row'[w].user = l.user /\ row'[w].stage \in Checked
      /\ pc'[w] = "verify" => now' < m.free_at
      /\ pc'[w] = "commit" => /\ row'[w].reason # "locked"
                              /\ l.visible_at < row'[w].created_at
                              /\ row'[w].created_at <= m.free_at
  BY <1>1 DEF Admitted
<1>3. CASE pc'[w] = pc[w] /\ row'[w] = row[w]
  <2>1. row[w] \in Attempt
    BY <1>2, <1>3 DEF TypeOK
  <2> QED BY <1>1, <1>2, <1>3, <2>1 DEF Admitted, Attempt
<1>4. CASE RecordAttempt(w)
  <2>1. /\ pc[w] \in {"verify", "refuse"} /\ pc'[w] = "commit" /\ row[w] \in Attempt
        /\ row'[w].user = row[w].user /\ row'[w].stage = row[w].stage
        /\ row'[w].created_at = now + 1
        /\ pc[w] = "refuse" => row'[w].reason = "locked"
    BY <1>4 DEF RecordAttempt, TypeOK
  <2> QED BY <1>1, <1>2, <2>1 DEF Admitted
<1>5. ASSUME NEW u \in Users, Login(w, u) \/ WebAuthnLoginComplete(w, u),
             pc'[w] = "verify"
      PROVE  FALSE
  <2>1. ~Active(u) /\ u = row'[w].user /\ now' = now
    BY <1>5 DEF Login, WebAuthnLoginComplete, Enter, TypeOK
  <2>2. l \in LockoutsOf(u) /\ ~(l.unlock_at > now)
    BY <1>2, <2>1 DEF Active, LockoutsOf
  <2> QED BY <1>1, <1>2, <1>5, <2>1, <2>2
<1>6. ASSUME NEW u \in Users, Login(w, u) \/ WebAuthnLoginComplete(w, u)
      PROVE  pc'[w] \in {"verify", "refuse"}
  BY <1>6 DEF Login, WebAuthnLoginComplete, Enter, TypeOK
<1>7. ASSUME NEW u \in Users, VerifyMfa(w, u) \/ WebAuthnLoginBegin(w, u)
      PROVE  pc'[w] = "refuse" \/ row'[w].stage = "mfa"
  BY <1>7 DEF VerifyMfa, WebAuthnLoginBegin, Enter, TypeOK
<1>8. \/ pc'[w] = pc[w] /\ row'[w] = row[w]
      \/ RecordAttempt(w)
      \/ pc'[w] \notin {"verify", "commit"}
      \/ \E u \in Users : \/ Login(w, u) \/ WebAuthnLoginComplete(w, u)
                          \/ VerifyMfa(w, u) \/ WebAuthnLoginBegin(w, u)
  <2>1. ASSUME NEW v \in Workers, v # w,
               Continue(v) \/ Crash(v) \/ \E u \in Users : Arrive(v, u)
        PROVE  pc'[w] = pc[w] /\ row'[w] = row[w]
    BY <2>1, OthersKeep DEF Others
  <2>2. CASE Continue(w) \/ Crash(w)
    BY <2>2
    DEF Continue, CommitAttempt, ReadLastSuccess, ReadLastLockout, CountFailures, Crash,
        CountPriorLockouts, CreateLockout, LogLockout, LogPasswordOk, TypeOK,
        CommitUnlock, CreateSession, LogOutcome, LogUnlock, CommitLockout
  <2>3. ASSUME NEW u \in Users, ManualUnlock(w, u)
        PROVE  (pc'[w] = pc[w] /\ row'[w] = row[w]) \/ pc'[w] = "unlock"
    BY <2>3 DEF ManualUnlock, TypeOK
  <2>4. CASE Tick \/ Over \/ UNCHANGED vars
    BY <2>4 DEF Tick, Over, vars
  <2> QED BY <2>1, <2>2, <2>3, <2>4 DEF Next, Arrive
<1> QED BY <1>2, <1>3, <1>4, <1>5, <1>6, <1>7, <1>8 DEF Checked

(* An attempt is evaluated while a lockout holds only by a request it had  *)
(* let through.                                                            *)
LEMMA EvaluatedGrows ==
  ASSUME TypeOK, StampInv, [Next]_vars, NEW m, m \in lockouts',
         NEW l \in lockouts, Continues(l, m)
  PROVE  \/ EvaluatedDuring(m, Checked)' \subseteq EvaluatedDuring(l, Checked)
         \/ \E w \in Workers :
               /\ EvaluatedDuring(m, Checked)'
                     \subseteq EvaluatedDuring(l, Checked) \cup {row[w]}
               /\ w \in Admitted(l) /\ w \notin Admitted(m)'
<1>1. /\ m.user = l.user /\ m.visible_at = l.visible_at
      /\ l.free_at \in Nat /\ m.free_at \in Nat /\ m.free_at <= l.free_at
  BY TypeStep DEF TypeOK, LockoutRow, Continues
<1>2. ASSUME NEW a \in EvaluatedDuring(m, Checked)', a \in attempts
      PROVE  a \in EvaluatedDuring(l, Checked)
  BY <1>1, <1>2 DEF EvaluatedDuring, TypeOK, Attempt
<1>3. CASE attempts' = attempts
  BY <1>2, <1>3 DEF EvaluatedDuring
<1>4. ASSUME NEW w \in Workers, CommitAttempt(w), row[w] \in EvaluatedDuring(m, Checked)'
      PROVE  w \in Admitted(l) /\ w \notin Admitted(m)'
  <2>1. pc[w] = "commit" /\ pc'[w] \notin {"verify", "commit"} /\ row[w].created_at \in Nat
    BY <1>4 DEF CommitAttempt, TypeOK, Attempt
  <2> QED BY <1>1, <1>4, <2>1 DEF EvaluatedDuring, Admitted
<1>5. ASSUME NEW w \in Workers, CommitAttempt(w)
      PROVE  \A a \in EvaluatedDuring(m, Checked)' :
                a \in EvaluatedDuring(l, Checked) \/ a = row[w]
  BY <1>2, <1>5 DEF CommitAttempt, EvaluatedDuring
<1>6. attempts' = attempts \/ \E w \in Workers : CommitAttempt(w)
  BY AttemptStep
<1>7. ASSUME NEW w \in Workers, CommitAttempt(w), row[w] \notin EvaluatedDuring(m, Checked)'
      PROVE  EvaluatedDuring(m, Checked)' \subseteq EvaluatedDuring(l, Checked)
  BY <1>5, <1>7
<1> QED BY <1>3, <1>4, <1>5, <1>6, <1>7

(* Every step keeps the requests let through below the number of workers.  *)
LEMMA FewAdmittedStep ==
  ASSUME TypeOK, StampInv, FewAdmitted, [Next]_vars, NEW m, m \in lockouts', IsLatest(m)'
  PROVE  Cardinality(EvaluatedDuring(m, Checked)') + Cardinality(Admitted(m)')
            < Cardinality(Workers)
<1>1. IsFiniteSet(Workers) /\ Cardinality(Workers) \in Nat
  BY WorkersAssumption, FS_CardinalityType
<1>2. ASSUME NEW l \in lockouts, Continues(l, m)
      PROVE  Cardinality(EvaluatedDuring(m, Checked)') + Cardinality(Admitted(m)')
                < Cardinality(Workers)
  <2>1. IsLatest(l)
    BY <1>2, LatestBefore
  <2>2. /\ IsFiniteSet(EvaluatedDuring(l, Checked)) /\ IsFiniteSet(Admitted(l))
        /\ Cardinality(EvaluatedDuring(l, Checked)) \in Nat /\ Cardinality(Admitted(l)) \in Nat
    BY <1>1, FS_Subset, FS_CardinalityType DEF EvaluatedDuring, Admitted, TypeOK
  <2>3. Admitted(m)' \subseteq Admitted(l)
    BY <1>2, <2>1, AdmittedShrinks
  <2>4. PICK x : /\ EvaluatedDuring(m, Checked)'
                       \subseteq EvaluatedDuring(l, Checked) \cup {x}
                 /\ \/ EvaluatedDuring(m, Checked)' \subseteq EvaluatedDuring(l, Checked)
                    \/ Admitted(m)' # Admitted(l)
    BY <1>2, EvaluatedGrows
  <2>5. Cardinality(EvaluatedDuring(m, Checked)') + Cardinality(Admitted(m)')
           <= Cardinality(EvaluatedDuring(l, Checked)) + Cardinality(Admitted(l))
    BY <2>2, <2>3, <2>4, Handover
  <2>6. /\ Cardinality(EvaluatedDuring(m, Checked)') \in Nat
        /\ Cardinality(Admitted(m)') \in Nat
    <3>1. IsFiniteSet(EvaluatedDuring(l, Checked) \cup {x})
      BY <2>2, FS_AddElement
    <3> QED BY <2>2, <2>3, <2>4, <3>1, FS_Subset, FS_CardinalityType
  <2>7. Cardinality(EvaluatedDuring(l, Checked)) + Cardinality(Admitted(l))
           < Cardinality(Workers)
    BY <2>1 DEF FewAdmitted
  <2> QED BY <1>1, <2>2, <2>5, <2>6, <2>7
<1>3. ASSUME NEW w \in Workers, CommitLockout(w), m = [lock[w] EXCEPT !.visible_at = now]
      PROVE  Cardinality(EvaluatedDuring(m, Checked)') + Cardinality(Admitted(m)')
                < Cardinality(Workers)
  <2>1. /\ lock[w] \in LockoutRow /\ attempts' = attempts /\ pc'[w] = "logLock"
    BY <1>3 DEF CommitLockout, TypeOK
  <2>2. m.visible_at = now
    BY <1>3, <2>1 DEF LockoutRow
  <2>3. EvaluatedDuring(m, Checked)' = {}
    BY <2>1, <2>2 DEF EvaluatedDuring, StampInv, Stamps, TypeOK, Attempt
  <2>4. Admitted(m)' \subseteq Workers \ {w}
    BY <2>1 DEF Admitted
  <2>5. IsFiniteSet(Workers \ {w}) /\ Cardinality(Workers \ {w}) = Cardinality(Workers) - 1
    BY <1>1, FS_RemoveElement
  <2>6. /\ Cardinality(Admitted(m)') <= Cardinality(Workers \ {w})
        /\ Cardinality(Admitted(m)') \in Nat
    BY <2>4, <2>5, FS_Subset, FS_CardinalityType
  <2> QED BY <1>1, <2>3, <2>5, <2>6, FS_EmptySet
<1> QED BY <1>2, <1>3, LockoutsContinue

(* Once a lockout is committed, a password or a security key is evaluated  *)
(* before its end for at most one request per other worker.                *)
THEOREM LockoutHolds == Spec => []LockHoldsBack
<1>1. Init => FewAdmitted
  BY DEF Init, FewAdmitted
<1>2. IInv /\ StampInv /\ FewAdmitted /\ [Next]_vars => FewAdmitted'
  BY FewAdmittedStep DEF IInv, FewAdmitted
<1>3. IInv /\ FewAdmitted => LockHoldsBack
  <2> SUFFICES ASSUME IInv, FewAdmitted, NEW l \in lockouts, IsLatest(l)
               PROVE  Cardinality(EvaluatedDuring(l, Checked)) < Cardinality(Workers)
    BY DEF LockHoldsBack, Checked
  <2>1. /\ Cardinality(EvaluatedDuring(l, Checked)) \in Nat
        /\ Cardinality(Admitted(l)) \in Nat /\ Cardinality(Workers) \in Nat
    BY WorkersAssumption, FS_Subset, FS_CardinalityType
    DEF EvaluatedDuring, Admitted, IInv, TypeOK
  <2> QED BY <2>1 DEF FewAdmitted
<1> QED BY <1>1, <1>2, <1>3, Inductive, StampsInductive, PTL DEF Spec

-----------------------------------------------------------------------------
(* The audit of lockouts. A lockout is unlogged when neither the log nor a *)
(* request on its way to the log accounts for it.                          *)

Unlogged(l) ==
    /\ Event("account_locked", l.user, l.locked_at) \notin audit
    /\ \A w \in Workers : pc[w] = "logLock" => lock[w].locked_at # l.locked_at

UnloggedTimes == {l.locked_at : l \in {m \in lockouts : Unlogged(m)}}

(* Only a crash leaves one more lockout unlogged.                          *)
LEMMA UnloggedStep ==
  ASSUME TypeOK, StampInv, [Next]_vars, NEW t \in UnloggedTimes'
  PROVE  \/ t \in UnloggedTimes
         \/ \E w \in Workers : Crash(w) /\ t = lock[w].locked_at
<1> USE DEF StampInv
<1>1. PICK m : /\ m \in lockouts' /\ m.locked_at = t
               /\ Event("account_locked", m.user, t) \notin audit'
               /\ \A w \in Workers : pc'[w] = "logLock" => lock'[w].locked_at # t
  BY DEF UnloggedTimes, Unlogged
<1>2. audit \subseteq audit'
  BY ZenonT(30) DEF Next, Continue, CommitAttempt, RecordAttempt, ReadLastSuccess, ReadLastLockout,
         CountFailures, CountPriorLockouts, CreateLockout, LogLockout, LogPasswordOk,
         CommitUnlock, CreateSession, LogOutcome, LogUnlock, Crash, Arrive, Login, VerifyMfa,
         CommitLockout, WebAuthnLoginBegin, WebAuthnLoginComplete, ManualUnlock, Enter,
         Tick, Over, vars
<1>3. ASSUME NEW l \in lockouts, Continues(l, m),
             NEW w \in Workers, pc[w] = "logLock", lock[w].locked_at = t
      PROVE  Crash(w)
  <2>1. ~LogLockout(w)
    <3>1. SUFFICES ASSUME LogLockout(w) PROVE FALSE
      OBVIOUS
    <3>2. Event("account_locked", lock[w].user, t) \in audit'
      BY <1>3, <3>1 DEF LogLockout
    <3>3. PICK k \in lockouts : k.user = lock[w].user /\ k.locked_at = t
      BY <1>3 DEF Uncommitted
    <3>4. k = l
      BY <1>1, <1>3, <3>3 DEF Stamps, Continues
    <3> QED BY <1>1, <1>3, <3>2, <3>3, <3>4 DEF Continues
  <2>2. ~(pc'[w] = pc[w] /\ lock'[w] = lock[w])
    BY <1>1, <1>3
  <2>3. ASSUME NEW v \in Workers, v # w,
               Continue(v) \/ Crash(v) \/ \E u \in Users : Arrive(v, u)
        PROVE  FALSE
    BY <2>2, <2>3, OthersKeep DEF Others
  <2>4. ~Continue(w) /\ ~ \E u \in Users : Arrive(w, u)
    BY <1>3, <2>1
    DEF Continue, CommitAttempt, RecordAttempt, ReadLastSuccess, ReadLastLockout, Accepts,
        CountFailures, CountPriorLockouts, CreateLockout, LogPasswordOk, CommitUnlock,
        CreateSession, LogOutcome, LogUnlock, CommitLockout, Arrive, Login, VerifyMfa,
        WebAuthnLoginBegin, WebAuthnLoginComplete, ManualUnlock
  <2> QED BY <2>2, <2>3, <2>4 DEF Next, Tick, Over, vars
<1>4. ASSUME NEW l \in lockouts, Continues(l, m)
      PROVE  \/ t \in UnloggedTimes
             \/ \E w \in Workers : Crash(w) /\ t = lock[w].locked_at
  <2>1. l.locked_at = t /\ Event("account_locked", l.user, t) \notin audit
    BY <1>1, <1>2, <1>4 DEF Continues
  <2>2. CASE \E w \in Workers : pc[w] = "logLock" /\ lock[w].locked_at = t
    BY <1>3, <1>4, <2>2
  <2>3. CASE ~ \E w \in Workers : pc[w] = "logLock" /\ lock[w].locked_at = t
    BY <2>1, <2>3 DEF UnloggedTimes, Unlogged
  <2> QED BY <2>2, <2>3
<1>5. ASSUME NEW w \in Workers, CommitLockout(w), m = [lock[w] EXCEPT !.visible_at = now]
      PROVE  FALSE
  <2>1. pc'[w] = "logLock" /\ lock'[w] = lock[w] /\ m.locked_at = lock[w].locked_at
    BY <1>5 DEF CommitLockout, TypeOK, LockoutRow
  <2> QED BY <1>1, <2>1
<1> QED BY <1>1, <1>4, <1>5, LockoutsContinue

AuditInv == Cardinality(UnloggedTimes) <= crashes

(* Every step leaves at most one lockout unlogged per crash.               *)
LEMMA AuditInvStep ==
  ASSUME TypeOK, StampInv, AuditInv, [Next]_vars
  PROVE  AuditInv'
<1>1. IsFiniteSet(UnloggedTimes) /\ Cardinality(UnloggedTimes) \in Nat
  BY CountedByStamp, FS_CardinalityType DEF UnloggedTimes, StampInv
<1>2. ASSUME NEW w \in Workers, Crash(w) PROVE AuditInv'
  <2> DEFINE x == lock[w].locked_at
  <2>1. ASSUME NEW v \in Workers, Crash(v) PROVE v = w
    BY <1>2, <2>1 DEF Crash, TypeOK
  <2>2. UnloggedTimes' \subseteq UnloggedTimes \cup {x}
    BY <2>1, UnloggedStep
  <2> HIDE DEF x
  <2>3. /\ IsFiniteSet(UnloggedTimes \cup {x})
        /\ Cardinality(UnloggedTimes \cup {x}) = IF x \in UnloggedTimes
              THEN Cardinality(UnloggedTimes) ELSE Cardinality(UnloggedTimes) + 1
    BY <1>1, FS_AddElement
  <2>4. /\ Cardinality(UnloggedTimes') <= Cardinality(UnloggedTimes \cup {x})
        /\ Cardinality(UnloggedTimes') \in Nat
    BY <2>2, <2>3, FS_Subset, FS_CardinalityType
  <2>5. crashes' = crashes + 1 /\ crashes \in Nat
    BY <1>2 DEF Crash, TypeOK
  <2> QED BY <1>1, <2>3, <2>4, <2>5 DEF AuditInv
<1>3. ASSUME ~ \E w \in Workers : Crash(w) PROVE AuditInv'
  <2>1. UnloggedTimes' \subseteq UnloggedTimes
    BY <1>3, UnloggedStep
  <2>2. /\ Cardinality(UnloggedTimes') <= Cardinality(UnloggedTimes)
        /\ Cardinality(UnloggedTimes') \in Nat
    BY <1>1, <2>1, FS_Subset, FS_CardinalityType
  <2>3. crashes' = crashes /\ crashes \in Nat
    BY ZenonT(30), <1>3
    DEF TypeOK, Next, Continue, CommitAttempt, RecordAttempt, ReadLastSuccess, ReadLastLockout,
         CountFailures, CountPriorLockouts, CreateLockout, LogLockout, LogPasswordOk,
         CommitUnlock, CreateSession, LogOutcome, LogUnlock, Arrive, Login, VerifyMfa,
         CommitLockout, WebAuthnLoginBegin, WebAuthnLoginComplete, ManualUnlock, Enter,
         Tick, Over, vars
  <2> QED BY <1>1, <2>2, <2>3 DEF AuditInv
<1> QED BY <1>2, <1>3

(* At most one lockout per crash is missing from the audit log and from    *)
(* the requests that are about to log one.                                 *)
THEOREM LockoutsAreAudited == Spec => []LockoutAudited
<1>1. Init => AuditInv
  <2> SUFFICES ASSUME Init PROVE AuditInv
    OBVIOUS
  <2>1. UnloggedTimes = {}
    BY DEF Init, UnloggedTimes
  <2> QED BY <2>1, FS_EmptySet DEF Init, AuditInv
<1>2. IInv /\ StampInv /\ AuditInv /\ [Next]_vars => AuditInv'
  BY AuditInvStep DEF IInv
<1>3. IInv /\ StampInv /\ AuditInv => LockoutAudited
  <2> SUFFICES ASSUME IInv, StampInv, AuditInv PROVE LockoutAudited
    OBVIOUS
  <2> DEFINE S == {l \in lockouts : Unlogged(l)}
  <2>1. Cardinality(S) = Cardinality(UnloggedTimes)
    BY CountedByStamp DEF IInv, StampInv, UnloggedTimes
  <2> QED BY <2>1 DEF AuditInv, LockoutAudited, Unlogged
<1> QED BY <1>1, <1>2, <1>3, Inductive, StampsInductive, PTL DEF Spec

-----------------------------------------------------------------------------
(* MFA after the password. A pre_mfa token, and a request it has admitted, *)
(* go back to a correct password of an MFA account; the password of such   *)
(* an account opens no session.                                            *)

PasswordOk(u, t) ==
    \E a \in attempts : /\ a.user = u /\ a.stage = "password" /\ a.reason = "ok"
                        /\ a.created_at < t

TokensEarned == \A u \in Users : preMfa[u] > 0 => u \in MfaUsers /\ PasswordOk(u, now + 1)

RequestEarned(w) ==
    /\ pc[w] \in {"verify", "commit", "session"} /\ row[w].stage = "mfa" =>
          row[w].user \in MfaUsers
    /\ pc[w] = "refuse" => row[w].stage # "mfa"
    /\ pc[w] = "verify" /\ row[w].stage = "mfa" => PasswordOk(row[w].user, now + 1)
    /\ pc[w] \in {"commit", "session"} /\ row[w].stage = "mfa" =>
          PasswordOk(row[w].user, row[w].created_at)
    /\ pc[w] \in {"logPassword", "session"} => row[w] \in attempts /\ row[w].reason = "ok"
    /\ pc[w] = "logPassword" => row[w].stage = "password"
    /\ pc[w] = "session" /\ row[w].stage = "password" => row[w].user \notin MfaUsers

RequestsEarned == \A w \in Workers : RequestEarned(w)

SessionsEarned ==
    \A s \in sessions :
        /\ \E a \in attempts : /\ a.user = s.user /\ a.stage = s.stage /\ a.reason = "ok"
                               /\ a.created_at = s.at
        /\ s.stage = "password" => s.user \notin MfaUsers
        /\ s.stage = "mfa" => s.user \in MfaUsers /\ PasswordOk(s.user, s.at)

MfaInv == TokensEarned /\ RequestsEarned /\ SessionsEarned

(* A correct password stays on record.                                     *)
LEMMA PasswordStays ==
  ASSUME TypeOK, [Next]_vars, NEW u, NEW t, PasswordOk(u, t)
  PROVE  PasswordOk(u, t)'
  BY RowsGrow DEF PasswordOk

(* A correct password on record stays one as time passes.                  *)
LEMMA PasswordAges ==
  ASSUME TypeOK, [Next]_vars, NEW u, PasswordOk(u, now + 1)
  PROVE  \E a \in attempts' : /\ a.user = u /\ a.stage = "password" /\ a.reason = "ok"
                              /\ a.created_at < now' + 1
  BY RowsGrow DEF PasswordOk, TypeOK, Attempt

(* A pre_mfa token is issued only after a correct password.                *)
LEMMA TokensStep ==
  ASSUME TypeOK, StampInv, MfaInv, [Next]_vars
  PROVE  TokensEarned'
<1> SUFFICES ASSUME NEW u \in Users, preMfa'[u] > 0
             PROVE  u \in MfaUsers /\ PasswordOk(u, now + 1)'
  BY DEF TokensEarned
<1>1. CASE preMfa'[u] = preMfa[u]
  <2>1. u \in MfaUsers /\ PasswordOk(u, now + 1)
    BY <1>1 DEF MfaInv, TokensEarned
  <2> QED BY <2>1, PasswordAges DEF PasswordOk
<1>2. ASSUME NEW w \in Workers, LogPasswordOk(w), preMfa'[u] # preMfa[u]
      PROVE  u \in MfaUsers /\ PasswordOk(u, now + 1)'
  <2>1. u = row[w].user /\ u \in MfaUsers /\ attempts' = attempts /\ now' = now
    BY <1>2 DEF LogPasswordOk, TypeOK
  <2>2. row[w] \in attempts /\ row[w].stage = "password" /\ row[w].reason = "ok"
    BY <1>2 DEF LogPasswordOk, MfaInv, RequestsEarned, RequestEarned
  <2>3. row[w].created_at < now + 1
    BY <2>2 DEF StampInv, Stamps, TypeOK, Attempt
  <2> QED BY <2>1, <2>2, <2>3 DEF PasswordOk
<1>3. preMfa' = preMfa \/ \E w \in Workers : LogPasswordOk(w)
  BY DEF Next, Continue, CommitAttempt, RecordAttempt, ReadLastSuccess, ReadLastLockout,
         CountFailures, CountPriorLockouts, CreateLockout, LogLockout, CommitUnlock,
         CreateSession, LogOutcome, LogUnlock, Crash, Arrive, Login, VerifyMfa,
         CommitLockout, WebAuthnLoginBegin, WebAuthnLoginComplete, ManualUnlock, Enter,
         Tick, Over, vars
<1> QED BY <1>1, <1>2, <1>3

(* A request that does not move keeps what it was admitted by.             *)
LEMMA RequestKeeps ==
  ASSUME TypeOK, [Next]_vars, NEW w \in Workers, RequestEarned(w),
         pc'[w] = pc[w], row'[w] = row[w]
  PROVE  RequestEarned(w)'
<1> DEFINE u == row[w].user
           t == row[w].created_at
<1>1. attempts \subseteq attempts'
  BY RowsGrow
<1>2. ASSUME PasswordOk(u, t)
      PROVE  \E a \in attempts' : /\ a.user = u /\ a.stage = "password" /\ a.reason = "ok"
                                  /\ a.created_at < t
  BY <1>1, <1>2 DEF PasswordOk
<1>3. ASSUME PasswordOk(u, now + 1)
      PROVE  \E a \in attempts' : /\ a.user = u /\ a.stage = "password" /\ a.reason = "ok"
                                  /\ a.created_at < now' + 1
  BY <1>3, PasswordAges
<1>4. ASSUME pc[w] = "verify", row[w].stage = "mfa" PROVE PasswordOk(row[w].user, now + 1)'
  BY <1>3, <1>4 DEF RequestEarned, PasswordOk
<1>5. ASSUME pc[w] \in {"commit", "session"}, row[w].stage = "mfa"
      PROVE  PasswordOk(row[w].user, row[w].created_at)'
  BY <1>2, <1>5 DEF RequestEarned, PasswordOk
<1> QED BY <1>1, <1>4, <1>5 DEF RequestEarned

(* A request comes to an MFA code, or to a session, only by what it takes  *)
(* to get there.                                                           *)
LEMMA RequestMoves ==
  ASSUME TypeOK, StampInv, MfaInv, [Next]_vars, NEW w \in Workers,
         Continue(w) \/ Crash(w) \/ \E u \in Users : Arrive(w, u)
  PROVE  RequestEarned(w)'
<1> USE DEF TypeOK
<1>1. RequestEarned(w)
  BY DEF MfaInv, RequestsEarned
<1>2. CASE RecordAttempt(w)
  <2>1. /\ pc[w] \in {"verify", "refuse"} /\ pc'[w] = "commit" /\ attempts' = attempts
        /\ row'[w].user = row[w].user /\ row'[w].stage = row[w].stage
        /\ row'[w].created_at = now + 1 /\ now' = now + 1
    BY <1>2 DEF RecordAttempt
  <2>2. CASE pc[w] = "verify"
    BY <1>1, <2>1, <2>2 DEF RequestEarned, PasswordOk
  <2>3. CASE pc[w] = "refuse"
    BY <1>1, <2>1, <2>3 DEF RequestEarned, PasswordOk
  <2> QED BY <2>1, <2>2, <2>3
<1>3. CASE CommitAttempt(w)
  <2>1. /\ pc[w] = "commit" /\ row' = row /\ row[w] \in attempts' /\ attempts \subseteq attempts'
        /\ pc'[w] \notin {"verify", "refuse", "commit"}
        /\ pc'[w] \in {"logPassword", "session"} => row[w].reason = "ok"
        /\ pc'[w] = "logPassword" => row[w].stage = "password"
        /\ pc'[w] = "session" => row[w].stage # "password"
    BY <1>3 DEF CommitAttempt
  <2> QED BY <1>1, <2>1 DEF RequestEarned, PasswordOk
<1>4. CASE LogPasswordOk(w)
  <2>1. /\ pc[w] = "logPassword" /\ attempts' = attempts
        /\ \/ pc'[w] = "idle"
           \/ pc'[w] = "session" /\ row' = row /\ row[w].user \notin MfaUsers
    BY <1>4 DEF LogPasswordOk
  <2> QED BY <1>1, <2>1 DEF RequestEarned
<1>5. ASSUME NEW u \in Users, VerifyMfa(w, u) PROVE RequestEarned(w)'
  <2>1. /\ preMfa[u] > 0 /\ pc'[w] = "verify" /\ row'[w].user = u
        /\ now' = now /\ attempts' = attempts
    BY <1>5 DEF VerifyMfa, Enter
  <2>2. u \in MfaUsers /\ PasswordOk(u, now + 1)
    BY <2>1 DEF MfaInv, TokensEarned
  <2> QED BY <2>1, <2>2 DEF RequestEarned, PasswordOk
<1>6. ASSUME NEW u \in Users,
             \/ Login(w, u) \/ WebAuthnLoginBegin(w, u) \/ WebAuthnLoginComplete(w, u)
      PROVE  RequestEarned(w)'
  <2>1. pc'[w] \in {"verify", "refuse"} /\ row'[w].stage # "mfa"
    BY <1>6 DEF Login, WebAuthnLoginBegin, WebAuthnLoginComplete, Enter
  <2> QED BY <2>1 DEF RequestEarned
<1>7. ASSUME NEW u \in Users, ManualUnlock(w, u) PROVE RequestEarned(w)'
  <2>1. pc'[w] \in {"idle", "unlock"}
    BY <1>7 DEF ManualUnlock, Accepts
  <2> QED BY <2>1 DEF RequestEarned
<1>8. CASE \/ ReadLastSuccess(w) \/ ReadLastLockout(w) \/ CountFailures(w)
           \/ CountPriorLockouts(w) \/ CreateLockout(w) \/ CommitLockout(w)
           \/ LogLockout(w) \/ CreateSession(w) \/ LogOutcome(w)
           \/ CommitUnlock(w) \/ LogUnlock(w) \/ Crash(w)
  <2>1. pc'[w] \notin {"verify", "refuse", "commit", "session", "logPassword"}
    BY <1>8
    DEF ReadLastSuccess, ReadLastLockout, CountFailures, CountPriorLockouts, CreateLockout,
        CommitLockout, LogLockout, CreateSession, LogOutcome, CommitUnlock, LogUnlock, Crash
  <2> QED BY <2>1 DEF RequestEarned
<1> QED BY <1>2, <1>3, <1>4, <1>5, <1>6, <1>7, <1>8 DEF Continue, Arrive

(* A session is opened by an accepted row, of the right stage.             *)
LEMMA SessionsEarnedStep ==
  ASSUME TypeOK, MfaInv, [Next]_vars
  PROVE  SessionsEarned'
<1> SUFFICES ASSUME NEW s \in sessions'
             PROVE  /\ \E a \in attempts' : /\ a.user = s.user /\ a.stage = s.stage
                                            /\ a.reason = "ok" /\ a.created_at = s.at
                    /\ s.stage = "password" => s.user \notin MfaUsers
                    /\ s.stage = "mfa" =>
                         /\ s.user \in MfaUsers
                         /\ \E a \in attempts' : /\ a.user = s.user /\ a.stage = "password"
                                                 /\ a.reason = "ok" /\ a.created_at < s.at
  BY DEF SessionsEarned, PasswordOk
<1>1. attempts \subseteq attempts'
  BY RowsGrow
<1>2. CASE s \in sessions
  BY <1>1, <1>2 DEF MfaInv, SessionsEarned, PasswordOk
<1>3. ASSUME NEW w \in Workers, CreateSession(w), s \notin sessions
      PROVE  s = [user |-> row[w].user, stage |-> row[w].stage, at |-> row[w].created_at]
             /\ RequestEarned(w) /\ pc[w] = "session"
  BY <1>3 DEF CreateSession, MfaInv, RequestsEarned
<1>4. sessions' = sessions \/ \E w \in Workers : CreateSession(w)
  BY DEF Next, Continue, CommitAttempt, RecordAttempt, ReadLastSuccess, ReadLastLockout,
         CountFailures, CountPriorLockouts, CreateLockout, LogLockout, CommitUnlock,
         LogPasswordOk, LogOutcome, LogUnlock, Crash, Arrive, Login, VerifyMfa,
         CommitLockout, WebAuthnLoginBegin, WebAuthnLoginComplete, ManualUnlock, Enter,
         Tick, Over, vars
<1>5. ASSUME NEW w \in Workers, RequestEarned(w), pc[w] = "session",
             s = [user |-> row[w].user, stage |-> row[w].stage, at |-> row[w].created_at]
      PROVE  /\ \E a \in attempts : /\ a.user = s.user /\ a.stage = s.stage
                                    /\ a.reason = "ok" /\ a.created_at = s.at
             /\ s.stage = "password" => s.user \notin MfaUsers
             /\ s.stage = "mfa" => s.user \in MfaUsers /\ PasswordOk(s.user, s.at)
  BY <1>5 DEF RequestEarned
<1> QED BY <1>1, <1>2, <1>3, <1>4, <1>5 DEF PasswordOk

(* A session opened by an MFA code comes after a correct password that     *)
(* opened none.                                                            *)
LEMMA SessionsComeAfter ==
  ASSUME TypeOK, StampInv, MfaInv
  PROVE  MfaAfterPassword
<1> SUFFICES ASSUME NEW s \in sessions, s.stage = "mfa"
             PROVE  \E a \in attempts :
                       /\ a.user = s.user /\ a.stage = "password" /\ a.reason = "ok"
                       /\ a.created_at < s.at
                       /\ \A r \in sessions : r.user = s.user => r.at # a.created_at
  BY DEF MfaAfterPassword
<1>1. s.user \in MfaUsers /\ PasswordOk(s.user, s.at)
  BY DEF MfaInv, SessionsEarned
<1>2. PICK a \in attempts : /\ a.user = s.user /\ a.stage = "password" /\ a.reason = "ok"
                            /\ a.created_at < s.at
  BY <1>1 DEF PasswordOk
<1>3. ASSUME NEW r \in sessions, r.user = s.user, r.at = a.created_at PROVE FALSE
  <2>1. PICK b \in attempts : b.stage = r.stage /\ b.created_at = r.at
    BY DEF MfaInv, SessionsEarned
  <2>2. b = a
    BY <1>3, <2>1 DEF StampInv, Stamps
  <2> QED BY <1>1, <1>2, <1>3, <2>1, <2>2 DEF MfaInv, SessionsEarned
<1> QED BY <1>2, <1>3

(* Every session that an MFA code opened follows a correct password of the *)
(* same account, and that password opened no session itself.               *)
THEOREM MfaNeedsPassword == Spec => []MfaAfterPassword
<1>1. Init => MfaInv
  BY DEF Init, MfaInv, TokensEarned, RequestsEarned, RequestEarned, SessionsEarned
<1>2. IInv /\ StampInv /\ MfaInv /\ [Next]_vars => MfaInv'
  <2> SUFFICES ASSUME TypeOK, StampInv, MfaInv, [Next]_vars PROVE MfaInv'
    BY DEF IInv
  <2>1. ASSUME NEW w \in Workers PROVE RequestEarned(w)'
    <3>1. RequestEarned(w)
      BY DEF MfaInv, RequestsEarned
    <3>2. CASE Continue(w) \/ Crash(w) \/ \E u \in Users : Arrive(w, u)
      BY <3>2, RequestMoves
    <3>3. ASSUME NEW v \in Workers, v # w,
                 Continue(v) \/ Crash(v) \/ \E u \in Users : Arrive(v, u)
          PROVE  RequestEarned(w)'
      BY <3>1, <3>3, OthersKeep, RequestKeeps DEF Others
    <3>4. CASE Tick \/ Over \/ UNCHANGED vars
      <4>1. pc'[w] = pc[w] /\ row'[w] = row[w]
        BY <3>4 DEF Tick, Over, vars
      <4> QED BY <3>1, <4>1, RequestKeeps
    <3> QED BY <3>2, <3>3, <3>4 DEF Next
  <2> QED BY <2>1, TokensStep, SessionsEarnedStep DEF MfaInv, RequestsEarned
<1>3. IInv /\ StampInv /\ MfaInv => MfaAfterPassword
  BY SessionsComeAfter DEF IInv
<1> QED BY <1>1, <1>2, <1>3, Inductive, StampsInductive, PTL DEF Spec

-----------------------------------------------------------------------------
(* One worker implements the policy. With requests handled one after the   *)
(* other, what a request has read is still true when it acts on it.        *)

Serial == \A v, w \in Workers : v = w

UpToDate(w) ==
    /\ pc[w] = "refuse" \/ (pc[w] = "commit" /\ row[w].reason = "locked")
          => LockoutsOf(row[w].user) # {}
    /\ pc[w] = "commit" => /\ \A a \in attempts : a.created_at < row[w].created_at
                           /\ \A l \in lockouts : l.locked_at < row[w].created_at
    /\ pc[w] = "readLockout" => \A t \in SuccessTimes(row[w].user) : t <= cut[w]
    /\ pc[w] = "count" => \A t \in Resets(row[w].user) : t <= cut[w]
    /\ pc[w] \in {"prior", "create", "commitLock"}
          => Cardinality(SinceReset(row[w].user)) >= MaxFailed
    /\ pc[w] \in {"create", "commitLock"}
          => number[w] = Cardinality(LockoutsOf(row[w].user)) + 1
    /\ pc[w] = "commitLock" =>
          /\ lock[w].unlock_at = lock[w].locked_at + Duration(number[w])
          /\ \A a \in attempts : a.created_at < lock[w].locked_at
          /\ \A l \in lockouts : l.locked_at < lock[w].locked_at
    /\ pc[w] = "unlock" =>
          /\ \E l \in lockouts : /\ IsLatest(l) /\ l.user = lock[w].user
                                 /\ l.locked_at = lock[w].locked_at
          /\ lock[w].unlock_at <= now

(* What queries answer depends on the rows only.                           *)
LEMMA SameAnswers ==
  ASSUME attempts' = attempts, lockouts' = lockouts
  PROVE  /\ \A u : /\ LockoutsOf(u)' = LockoutsOf(u) /\ LockTimes(u)' = LockTimes(u)
                   /\ SuccessTimes(u)' = SuccessTimes(u) /\ Resets(u)' = Resets(u)
                   /\ SinceReset(u)' = SinceReset(u)
         /\ \A l : IsLatest(l)' <=> IsLatest(l)
<1>1. \A u : /\ LockoutsOf(u)' = LockoutsOf(u) /\ LockTimes(u)' = LockTimes(u)
             /\ SuccessTimes(u)' = SuccessTimes(u) /\ Resets(u)' = Resets(u)
  BY DEF LockoutsOf, LockTimes, SuccessTimes, Resets
<1>2. \A u : SinceReset(u)' = SinceReset(u)
  BY <1>1 DEF SinceReset
<1> QED BY <1>1, <1>2 DEF IsLatest

(* Alone, a request counts the failures since the account's last reset.    *)
LEMMA CountsSinceReset ==
  ASSUME IInv, NEW w \in Workers, UpToDate(w), pc[w] = "count"
  PROVE  FailuresSince(row[w].user, cut[w]) = SinceReset(row[w].user)
<1> DEFINE u == row[w].user
<1>1. cut[w] \in Resets(u) \cup {0} /\ \A t \in Resets(u) : t <= cut[w]
  BY DEF IInv, InFlight, UpToDate
<1>2. Resets(u) \subseteq Nat /\ cut[w] \in Nat
  BY DEF IInv, TypeOK, Resets, SuccessTimes, LockTimes, LockoutsOf, Attempt, LockoutRow
<1>3. \A a \in attempts : a.created_at \in Nat /\ a.created_at > 0
  BY DEF IInv, TypeOK, Attempt, Stamped
<1>4. ASSUME NEW a \in attempts
      PROVE  a.created_at > cut[w] <=> \A t \in Resets(u) : t < a.created_at
  BY <1>1, <1>2, <1>3
<1> QED BY <1>4 DEF FailuresSince, SinceReset

(* A step of a request leaves it up to date.                               *)
LEMMA UpToDateMoves ==
  ASSUME IInv, StampInv, [Next]_vars, NEW w \in Workers, UpToDate(w),
         Continue(w) \/ Crash(w) \/ \E u \in Users : Arrive(w, u)
  PROVE  UpToDate(w)'
<1> USE DEF IInv, TypeOK
<1> DEFINE Quiet == {"idle", "verify", "log", "readSuccess", "logLock", "logPassword",
                     "session", "logUnlock"}
<1>1. pc'[w] \in Quiet => UpToDate(w)'
  BY DEF UpToDate
<1>2. CASE RecordAttempt(w)
  <2>1. /\ pc'[w] = "commit" /\ row'[w].created_at = now + 1
        /\ row'[w].user = row[w].user
        /\ row'[w].reason = "locked" => pc[w] = "refuse"
        /\ attempts' = attempts /\ lockouts' = lockouts
    BY <1>2 DEF RecordAttempt
  <2>2. /\ \A a \in attempts : a.created_at < now + 1
        /\ \A l \in lockouts : l.locked_at < now + 1
    BY DEF StampInv, Stamps, Attempt, LockoutRow
  <2>3. row'[w].reason = "locked" => LockoutsOf(row[w].user)' # {}
    BY <2>1 DEF UpToDate, LockoutsOf
  <2> QED BY <2>1, <2>2, <2>3 DEF UpToDate
<1>3. CASE ReadLastSuccess(w)
  <2>1. /\ pc'[w] = "readLockout" /\ row' = row /\ attempts' = attempts
        /\ \A t \in SuccessTimes(row[w].user) : t <= cut'[w]
    BY <1>3 DEF ReadLastSuccess
  <2>2. SuccessTimes(row[w].user)' = SuccessTimes(row[w].user)
    BY <2>1 DEF SuccessTimes
  <2> QED BY <2>1, <2>2 DEF UpToDate
<1>4. CASE ReadLastLockout(w)
  <2>1. /\ pc[w] = "readLockout" /\ pc'[w] = "count" /\ row' = row
        /\ attempts' = attempts /\ lockouts' = lockouts
        /\ cut[w] <= cut'[w] /\ \A t \in LockTimes(row[w].user) : t <= cut'[w]
    BY <1>4 DEF ReadLastLockout
  <2>2. \A t \in SuccessTimes(row[w].user) : t <= cut[w] /\ t \in Nat
    BY <2>1 DEF UpToDate, SuccessTimes, Attempt
  <2>3. cut[w] \in Nat /\ cut'[w] \in Nat
    BY TypeStep
  <2>4. \A t \in Resets(row[w].user) : t <= cut'[w]
    BY <2>1, <2>2, <2>3 DEF Resets
  <2>5. Resets(row[w].user)' = Resets(row[w].user)
    BY <2>1, SameAnswers
  <2> QED BY <2>1, <2>4, <2>5 DEF UpToDate
<1>5. CASE CountFailures(w)
  <2>1. /\ pc[w] = "count" /\ row' = row /\ attempts' = attempts /\ lockouts' = lockouts
        /\ pc'[w] = IF Cardinality(FailuresSince(row[w].user, cut[w])) < MaxFailed
                    THEN "log" ELSE "prior"
    BY <1>5 DEF CountFailures
  <2>2. FailuresSince(row[w].user, cut[w]) = SinceReset(row[w].user)
    BY <2>1, CountsSinceReset
  <2>3. SinceReset(row[w].user)' = SinceReset(row[w].user)
    BY <2>1, SameAnswers
  <2>4. Cardinality(SinceReset(row[w].user)) \in Nat
    BY FS_Subset, FS_CardinalityType DEF SinceReset
  <2> QED BY <1>1, <2>1, <2>2, <2>3, <2>4, PolicyAssumption DEF UpToDate
<1>6. CASE CountPriorLockouts(w)
  <2>1. /\ pc[w] = "prior" /\ pc'[w] = "create" /\ row' = row
        /\ attempts' = attempts /\ lockouts' = lockouts
        /\ number'[w] = Cardinality(LockoutsOf(row[w].user)) + 1
    BY <1>6 DEF CountPriorLockouts
  <2>2. /\ SinceReset(row[w].user)' = SinceReset(row[w].user)
        /\ LockoutsOf(row[w].user)' = LockoutsOf(row[w].user)
    BY <2>1, SameAnswers
  <2> QED BY <2>1, <2>2 DEF UpToDate
<1>7. CASE CreateLockout(w)
  <2> DEFINE d == Duration(number[w])
  <2>1. /\ pc[w] = "create" /\ pc'[w] = "commitLock" /\ row' = row /\ number' = number
        /\ attempts' = attempts /\ lockouts' = lockouts
        /\ lock'[w].locked_at = now + 1 /\ lock'[w].unlock_at = now + 1 + d
    BY <1>7 DEF CreateLockout
  <2>2. /\ SinceReset(row[w].user)' = SinceReset(row[w].user)
        /\ LockoutsOf(row[w].user)' = LockoutsOf(row[w].user)
    BY <2>1, SameAnswers
  <2>3. /\ \A a \in attempts : a.created_at < now + 1
        /\ \A l \in lockouts : l.locked_at < now + 1
    BY DEF StampInv, Stamps, Attempt, LockoutRow
  <2>4. Duration(number[w])' = d
    BY <2>1 DEF Duration
  <2> HIDE DEF d
  <2> QED BY <2>1, <2>2, <2>3, <2>4 DEF UpToDate
<1>8. ASSUME NEW u \in Users,
             \/ Login(w, u) \/ VerifyMfa(w, u)
             \/ WebAuthnLoginBegin(w, u) \/ WebAuthnLoginComplete(w, u)
      PROVE  UpToDate(w)'
  <2>1. /\ row'[w].user = u /\ lockouts' = lockouts /\ pc'[w] \in {"verify", "refuse"}
        /\ pc'[w] = "refuse" => Active(u)
    BY <1>8 DEF Login, VerifyMfa, WebAuthnLoginBegin, WebAuthnLoginComplete, Enter
  <2>2. pc'[w] = "refuse" => LockoutsOf(u)' # {}
    BY <2>1 DEF Active, LockoutsOf
  <2> QED BY <2>1, <2>2 DEF UpToDate
<1>9. ASSUME NEW u \in Users, ManualUnlock(w, u) PROVE UpToDate(w)'
  <2>1. pc[w] = "idle" /\ attempts' = attempts /\ lockouts' = lockouts /\ now' = now
    BY <1>9 DEF ManualUnlock, Accepts
  <2>2. CASE pc' = pc
    BY <1>1, <2>1, <2>2
  <2>3. CASE pc' # pc
    <3>1. PICK l \in LockoutsOf(u) : IsLatest(l) /\ lock'[w] = [l EXCEPT !.unlock_at = now]
      BY <1>9, <2>3 DEF ManualUnlock
    <3>2. /\ l \in lockouts /\ l.user = lock'[w].user
          /\ l.locked_at = lock'[w].locked_at /\ lock'[w].unlock_at = now
      BY <3>1 DEF LockoutsOf, LockoutRow
    <3>3. IsLatest(l)'
      BY <2>1, <3>1, SameAnswers
    <3>4. pc'[w] = "unlock"
      BY <1>9, <2>3 DEF ManualUnlock
    <3> QED BY <2>1, <3>2, <3>3, <3>4 DEF UpToDate
  <2> QED BY <2>2, <2>3
<1>10. CASE \/ CommitAttempt(w) \/ CommitLockout(w) \/ LogLockout(w) \/ LogPasswordOk(w)
            \/ CreateSession(w) \/ LogOutcome(w) \/ CommitUnlock(w) \/ LogUnlock(w)
            \/ Crash(w)
  <2>1. pc'[w] \in Quiet
    BY <1>10
    DEF CommitAttempt, CommitLockout, LogLockout, LogPasswordOk, CreateSession, LogOutcome,
        CommitUnlock, LogUnlock, Crash
  <2> QED BY <1>1, <2>1
<1> QED
  BY <1>2, <1>3, <1>4, <1>5, <1>6, <1>7, <1>8, <1>9, <1>10 DEF Continue, Arrive

(* Alone, a request stays up to date through every step.                   *)
LEMMA UpToDateStep ==
  ASSUME Serial, IInv, StampInv, [Next]_vars, NEW w \in Workers, UpToDate(w)
  PROVE  UpToDate(w)'
<1>1. ASSUME NEW v \in Workers, Continue(v) \/ Crash(v) \/ \E u \in Users : Arrive(v, u)
      PROVE  UpToDate(w)'
  <2>1. v = w
    BY DEF Serial
  <2> QED BY <1>1, <2>1, UpToDateMoves
<1>2. CASE Tick \/ Over \/ UNCHANGED vars
  <2>1. /\ pc' = pc /\ row' = row /\ cut' = cut /\ number' = number /\ lock' = lock
        /\ attempts' = attempts /\ lockouts' = lockouts
    BY <1>2 DEF Tick, Over, vars
  <2>2. now \in Nat /\ now' \in Nat /\ now <= now'
    BY RowsGrow DEF IInv
  <2>3. pc[w] = "unlock" => lock[w].unlock_at \in Nat
    BY DEF IInv, TypeOK, LockoutRow
  <2>4. Duration(number[w])' = Duration(number[w])
    BY <2>1 DEF Duration
  <2> QED BY <2>1, <2>2, <2>3, <2>4, SameAnswers DEF UpToDate
<1> QED BY <1>1, <1>2 DEF Next

(* The variables of the policy, as the INSTANCE Policy maps them.          *)
Failures == [u \in Users |-> Cardinality(SinceReset(u))]
LockCount == [u \in Users |-> Cardinality(LockoutsOf(u))]
Until == [u \in Users |-> IF LockoutsOf(u) = {} THEN 0
                          ELSE (CHOOSE l \in LockoutsOf(u) : IsLatest(l)).unlock_at]
Due == {u \in Users : /\ Cardinality(SinceReset(u)) >= MaxFailed
                      /\ \E w \in Workers : pc[w] \in Evaluating /\ row[w].user = u}

(* An account that has been locked has a newest lockout.                   *)
LEMMA LatestExists ==
  ASSUME TypeOK, Stamps, NEW u \in Users, LockoutsOf(u) # {}
  PROVE  \E l \in LockoutsOf(u) : IsLatest(l)
<1> DEFINE S == {now - l.locked_at : l \in LockoutsOf(u)}
           R == OpToRel(<, Nat)
<1>1. now \in Nat /\ \A l \in LockoutsOf(u) : l.locked_at \in Nat /\ l.locked_at <= now
  BY DEF TypeOK, LockoutsOf, LockoutRow, Stamps
<1>2. S \subseteq Nat /\ S # {}
  BY <1>1
<1>3. IsWellFoundedOn(R, Nat)
  BY NatLessThanWellFounded
<1>4. PICK n \in S : \A m \in S : ~(<<m, n>> \in R)
  <2> HIDE DEF R, S
  <2> QED BY <1>2, <1>3, WFMin
<1>5. PICK l \in LockoutsOf(u) : n = now - l.locked_at
  OBVIOUS
<1>6. ASSUME NEW k \in LockoutsOf(u) PROVE k.locked_at <= l.locked_at
  <2>1. now - k.locked_at \in S /\ now - k.locked_at \in Nat /\ n \in Nat
    BY <1>2
  <2>2. ~(now - k.locked_at < n)
    <3> HIDE DEF S
    <3> QED BY <1>4, <2>1 DEF OpToRel
  <2> QED BY <1>1, <1>5, <2>2
<1> QED BY <1>6 DEF IsLatest, LockoutsOf

(* The newest lockout decides until when its account is locked.            *)
LEMMA UntilLatest ==
  ASSUME Stamps, TypeOK, NEW l \in lockouts, IsLatest(l)
  PROVE  Until[l.user] = l.unlock_at
<1> DEFINE k == CHOOSE m \in LockoutsOf(l.user) : IsLatest(m)
<1>1. l \in LockoutsOf(l.user) /\ l.user \in Users
  BY DEF LockoutsOf, TypeOK, LockoutRow
<1>2. k \in LockoutsOf(l.user) /\ IsLatest(k)
  BY <1>1
<1>3. k.locked_at = l.locked_at
  <2> HIDE DEF k
  <2> QED BY <1>1, <1>2 DEF IsLatest, LockoutsOf, TypeOK, LockoutRow
<1>4. k = l
  <2> HIDE DEF k
  <2> QED BY <1>2, <1>3 DEF Stamps, LockoutsOf
<1> QED BY <1>1, <1>4 DEF Until

(* The same in the state after a step.                                     *)
LEMMA UntilLatestNext ==
  ASSUME Stamps', TypeOK', NEW l, l \in lockouts', IsLatest(l)', NEW u \in Users, u = l.user
  PROVE  Until'[u] = l.unlock_at
<1> DEFINE S == {m \in lockouts' : m.user = u}
           k == CHOOSE m \in S : m \in lockouts' /\ \A n \in lockouts' :
                                    n.user = m.user => n.locked_at <= m.locked_at
<1>1. l \in S /\ \A n \in lockouts' : n.user = l.user => n.locked_at <= l.locked_at
  BY DEF LockoutsOf, IsLatest
<1>2. k \in S /\ \A n \in lockouts' : n.user = k.user => n.locked_at <= k.locked_at
  BY <1>1
<1>3. k.locked_at = l.locked_at
  <2> HIDE DEF k
  <2> QED BY <1>1, <1>2 DEF TypeOK, LockoutRow
<1>4. k = l
  <2> HIDE DEF k
  <2> QED BY <1>2, <1>3 DEF Stamps
<1> QED BY <1>1, <1>4 DEF Until, LockoutsOf, IsLatest

(* A step that changes nothing of an account's lockouts changes nothing of *)
(* when it is locked.                                                      *)
LEMMA SameUntil ==
  ASSUME Stamps, TypeOK, Stamps', TypeOK', NEW u \in Users, LockoutsOf(u)' = LockoutsOf(u)
  PROVE  Until'[u] = Until[u]
<1>1. CASE LockoutsOf(u) = {}
  BY <1>1 DEF Until
<1>2. CASE LockoutsOf(u) # {}
  <2>1. PICK l \in LockoutsOf(u) : IsLatest(l)
    BY <1>2, LatestExists
  <2>2. l \in lockouts /\ l.user = u /\ l \in lockouts'
    BY DEF LockoutsOf
  <2>3. IsLatest(l)'
    BY <2>1, <2>2 DEF IsLatest
  <2>4. Until'[u] = l.unlock_at
    BY <2>2, <2>3, UntilLatestNext
  <2>5. Until[u] = l.unlock_at
    BY <2>1, <2>2, UntilLatest
  <2> QED BY <2>4, <2>5
<1> QED BY <1>1, <1>2

(* A step that adds and changes no row is, to the policy, only about who   *)
(* is due.                                                                 *)
LEMMA SameRows ==
  ASSUME Stamps, TypeOK, Stamps', TypeOK', attempts' = attempts, lockouts' = lockouts
  PROVE  Failures' = Failures /\ LockCount' = LockCount /\ Until' = Until
<1>1. \A u : SinceReset(u)' = SinceReset(u) /\ LockoutsOf(u)' = LockoutsOf(u)
  BY SameAnswers
<1>2. \A u \in Users : Until'[u] = Until[u]
  BY <1>1, SameUntil
<1>3. Until' = Until
  BY <1>2 DEF Until
<1> QED BY <1>1, <1>3 DEF Failures, LockCount

(* The account that is due is the one of the request being evaluated.      *)
LEMMA DueAlone ==
  ASSUME Serial, NEW w \in Workers
  PROVE  /\ pc[w] \notin Evaluating => Due = {}
         /\ pc[w] \in Evaluating =>
               Due = {u \in Users : u = row[w].user /\ Cardinality(SinceReset(u)) >= MaxFailed}
  BY DEF Serial, Due

(* The same in the state after a step.                                     *)
LEMMA DueAloneNext ==
  ASSUME Serial, NEW w \in Workers
  PROVE  /\ pc'[w] \notin Evaluating => Due' = {}
         /\ pc'[w] \in Evaluating =>
               Due' = {u \in Users : /\ u = row'[w].user
                                     /\ Cardinality(SinceReset(u)') >= MaxFailed}
  BY DEF Serial, Due

(* A step of a request that adds no row and leaves its evaluation where it *)
(* is, or ends it below the threshold, shows nothing to the policy.        *)
LEMMA QuietStep ==
  ASSUME Serial, Stamps, TypeOK, Stamps', TypeOK', NEW w \in Workers,
         attempts' = attempts, lockouts' = lockouts,
         \/ pc[w] \notin Evaluating /\ pc'[w] \notin Evaluating
         \/ pc[w] \in Evaluating /\ pc'[w] \in Evaluating /\ row'[w] = row[w]
         \/ /\ pc[w] \in Evaluating /\ pc'[w] \notin Evaluating
            /\ Cardinality(SinceReset(row[w].user)) < MaxFailed
  PROVE  Failures' = Failures /\ LockCount' = LockCount /\ Until' = Until /\ Due' = Due
<1>1. Failures' = Failures /\ LockCount' = LockCount /\ Until' = Until
  BY SameRows
<1>2. \A u : SinceReset(u)' = SinceReset(u)
  BY SameAnswers
<1>3. \A u \in Users : Cardinality(SinceReset(u)) \in Nat
  BY FS_Subset, FS_CardinalityType DEF SinceReset, TypeOK
<1>4. Due' = Due
  <2>1. CASE pc[w] \notin Evaluating /\ pc'[w] \notin Evaluating
    BY <2>1, DueAlone, DueAloneNext
  <2>2. CASE pc[w] \in Evaluating /\ pc'[w] \in Evaluating /\ row'[w] = row[w]
    BY <1>2, <2>2, DueAlone, DueAloneNext
  <2>3. CASE /\ pc[w] \in Evaluating /\ pc'[w] \notin Evaluating
             /\ Cardinality(SinceReset(row[w].user)) < MaxFailed
    <3>1. Due' = {}
      BY <2>3, DueAloneNext
    <3>2. Due = {}
      BY <1>3, <2>3, DueAlone, PolicyAssumption
    <3> QED BY <3>1, <3>2
  <2> QED BY <2>1, <2>2, <2>3
<1> QED BY <1>1, <1>4

PolicyStutters ==
    /\ now' = now /\ Failures' = Failures /\ LockCount' = LockCount /\ Until' = Until
    /\ Due' = Due /\ crashes' = crashes

(* A failed or refused attempt, and a success, are what the policy says.   *)
LEMMA AttemptIsPolicy ==
  ASSUME Serial, IInv, StampInv, IInv', StampInv', NEW w \in Workers, UpToDate(w),
         CommitAttempt(w)
  PROVE  Policy!PolicyNext
<1> DEFINE a == row[w]
<1>1. PICK u \in Users : u = row[w].user
  BY DEF CommitAttempt, IInv, TypeOK, Attempt
<1>2. /\ pc[w] = "commit" /\ pc'[w] \in PCs /\ row' = row /\ attempts' = attempts \cup {a}
      /\ lockouts' = lockouts /\ now' = now /\ crashes' = crashes
      /\ a \in Attempt /\ a.user = u /\ a \notin attempts
  BY <1>1 DEF CommitAttempt, IInv, TypeOK, Attempt, StampInv, Uncommitted
<1>3. /\ a.created_at \in Nat
      /\ \A b \in attempts : b.created_at \in Nat /\ b.created_at < a.created_at
      /\ \A l \in lockouts : l.locked_at \in Nat /\ l.locked_at < a.created_at
  BY <1>2 DEF UpToDate, IInv, TypeOK, Attempt, LockoutRow
<1>4. \A t \in Resets(u) : t < a.created_at
  BY <1>3 DEF Resets, SuccessTimes, LockTimes, LockoutsOf
<1>5. \A v \in Users : /\ LockoutsOf(v)' = LockoutsOf(v) /\ LockTimes(v)' = LockTimes(v)
  BY <1>2 DEF LockoutsOf, LockTimes
<1>6. Until' = Until /\ LockCount' = LockCount
  <2>1. \A v \in Users : Until'[v] = Until[v]
    BY <1>5, SameUntil DEF IInv, StampInv
  <2> QED BY <1>5, <2>1 DEF Until, LockCount
<1>7. Due = {}
  BY <1>2, DueAlone DEF Evaluating
<1>8. \A v \in Users \ {u} : SinceReset(v)' = SinceReset(v)
  <2> SUFFICES ASSUME NEW v \in Users \ {u} PROVE SinceReset(v)' = SinceReset(v)
    OBVIOUS
  <2>1. Resets(v)' = Resets(v)
    BY <1>2, <1>5 DEF Resets, SuccessTimes
  <2> QED BY <1>2, <2>1 DEF SinceReset
<1>9. IsFiniteSet(SinceReset(u)) /\ Cardinality(SinceReset(u)) \in Nat
  BY FS_Subset, FS_CardinalityType DEF SinceReset, IInv, TypeOK
<1>10. ASSUME a.reason # "ok"
      PROVE  Failures' = [Failures EXCEPT ![u] = @ + 1]
             /\ Cardinality(SinceReset(u)') = Cardinality(SinceReset(u)) + 1
  <2>1. Resets(u)' = Resets(u)
    BY <1>2, <1>5, <1>10 DEF Resets, SuccessTimes
  <2>2. SinceReset(u)' = SinceReset(u) \cup {a}
    BY <1>2, <1>4, <1>10, <2>1 DEF SinceReset
  <2>3. a \notin SinceReset(u)
    BY <1>2 DEF SinceReset
  <2>4. Cardinality(SinceReset(u)') = Cardinality(SinceReset(u)) + 1
    BY <1>9, <2>2, <2>3, FS_AddElement
  <2> QED BY <1>2, <1>8, <2>4 DEF Failures
<1>11. CASE a.reason = "bad"
  <2>1. pc'[w] \in Evaluating
    BY <1>11 DEF CommitAttempt, Evaluating, IInv, TypeOK
  <2>2. Due' = IF Cardinality(SinceReset(u)) + 1 >= MaxFailed THEN {u} ELSE {}
    BY <1>1, <1>2, <1>10, <1>11, <2>1, DueAloneNext
  <2>3. Policy!Fail(u)
    BY <1>2, <1>6, <1>7, <1>10, <1>11, <2>2 DEF Policy!Fail, Failures, LockCount, Until, Due
  <2> QED BY <2>3 DEF Policy!PolicyNext
<1>12. CASE a.reason = "locked"
  <2>1. pc'[w] = "log"
    BY <1>12 DEF CommitAttempt, IInv, TypeOK
  <2>2. Due' = {}
    BY <2>1, DueAloneNext DEF Evaluating
  <2>3. LockCount[u] > 0
    <3>1. LockoutsOf(u) # {}
      BY <1>1, <1>2, <1>12 DEF UpToDate
    <3>2. IsFiniteSet(LockoutsOf(u))
      BY FS_Subset DEF LockoutsOf, IInv, TypeOK
    <3>3. Cardinality(LockoutsOf(u)) \in Nat /\ Cardinality(LockoutsOf(u)) # 0
      BY <3>1, <3>2, FS_EmptySet, FS_CardinalityType
    <3> QED BY <1>2, <3>3 DEF LockCount
  <2>4. Policy!Refuse(u)
    BY <1>2, <1>6, <1>7, <1>10, <1>12, <2>2, <2>3
    DEF Policy!Refuse, Failures, LockCount, Until, Due
  <2> QED BY <2>4 DEF Policy!PolicyNext
<1>13. CASE a.reason = "ok"
  <2>1. pc'[w] \notin Evaluating
    BY <1>13 DEF CommitAttempt, Evaluating, IInv, TypeOK
  <2>2. Due' = {}
    BY <2>1, DueAloneNext
  <2>3. a.created_at \in Resets(u)'
    BY <1>2, <1>13 DEF Resets, SuccessTimes
  <2>4. SinceReset(u)' = {}
    BY <1>2, <1>3, <1>13, <2>3 DEF SinceReset
  <2>5. Failures' = [Failures EXCEPT ![u] = 0]
    BY <1>2, <1>8, <2>4, FS_EmptySet DEF Failures
  <2>6. Policy!Succeed(u)
    BY <1>2, <1>6, <1>7, <2>2, <2>5 DEF Policy!Succeed, Failures, LockCount, Until, Due
  <2> QED BY <2>6 DEF Policy!PolicyNext
<1> QED BY <1>2, <1>11, <1>12, <1>13 DEF Attempt

(* The lockout that is due is written, with the right number and end.      *)
LEMMA LockoutIsPolicy ==
  ASSUME Serial, IInv, StampInv, IInv', StampInv', NEW w \in Workers, UpToDate(w),
         CommitLockout(w)
  PROVE  Policy!PolicyNext
<1>1. PICK m : m = [lock[w] EXCEPT !.visible_at = now]
  OBVIOUS
<1>2. PICK u \in Users : u = row[w].user
  BY DEF CommitLockout, IInv, TypeOK, Attempt
<1>3. /\ pc[w] = "commitLock" /\ pc'[w] = "logLock" /\ attempts' = attempts
      /\ lockouts' = lockouts \cup {m} /\ now' = now /\ crashes' = crashes /\ now \in Nat
      /\ lock[w] \in LockoutRow
  BY <1>1 DEF CommitLockout, IInv, TypeOK, Attempt
<1>4. /\ m.user = u /\ m.locked_at = lock[w].locked_at /\ m.unlock_at = lock[w].unlock_at
      /\ m.locked_at \in 0..now
      /\ m.unlock_at = m.locked_at + Duration(Cardinality(LockoutsOf(u)) + 1)
      /\ m \notin lockouts
      /\ \A b \in attempts : b.created_at < m.locked_at
      /\ \A l \in lockouts : l.locked_at < m.locked_at
  BY <1>2, <1>1, <1>3 DEF StampInv, Uncommitted, UpToDate, LockoutRow
<1>5. Due = {u}
  BY <1>2, <1>3, DueAlone DEF UpToDate, Evaluating
<1>6. Due' = {}
  BY <1>3, DueAloneNext DEF Evaluating
<1>7. LockoutsOf(u)' = LockoutsOf(u) \cup {m}
      /\ \A v \in Users \ {u} : LockoutsOf(v)' = LockoutsOf(v)
  BY <1>3, <1>4 DEF LockoutsOf
<1>8. Failures' = [Failures EXCEPT ![u] = 0]
  <2>1. m.locked_at \in Resets(u)'
    BY <1>7 DEF Resets, LockTimes
  <2>2. \A b \in attempts : b.created_at \in Nat
    BY DEF IInv, TypeOK, Attempt
  <2>3. SinceReset(u)' = {}
    BY <1>3, <1>4, <2>1, <2>2 DEF SinceReset
  <2>4. ASSUME NEW v \in Users \ {u} PROVE SinceReset(v)' = SinceReset(v)
    <3>1. Resets(v)' = Resets(v)
      BY <1>3, <1>7 DEF Resets, SuccessTimes, LockTimes
    <3> QED BY <1>3, <3>1 DEF SinceReset
  <2> QED BY <1>3, <2>3, <2>4, FS_EmptySet DEF Failures
<1>9. LockCount' = [LockCount EXCEPT ![u] = @ + 1]
  <2>1. IsFiniteSet(LockoutsOf(u)) /\ m \notin LockoutsOf(u)
    BY <1>4, FS_Subset DEF LockoutsOf, IInv, TypeOK
  <2>2. Cardinality(LockoutsOf(u)') = Cardinality(LockoutsOf(u)) + 1
    BY <1>7, <2>1, FS_AddElement
  <2> QED BY <1>3, <1>7, <2>2 DEF LockCount
<1>30. Until' = [Until EXCEPT ![u] = m.locked_at + Duration(LockCount[u] + 1)]
  <2>1. m \in lockouts' /\ IsLatest(m)'
    <3>1. \A l \in lockouts : l.locked_at <= m.locked_at
      BY <1>4 DEF IInv, TypeOK, LockoutRow
    <3>2. m.locked_at <= m.locked_at
      BY <1>4
    <3> QED BY <1>3, <1>4, <3>1, <3>2 DEF IsLatest, LockoutsOf
  <2>2. Until'[u] = m.unlock_at
    BY <1>3, <1>4, <2>1, UntilLatestNext DEF IInv, StampInv
  <2>3. \A v \in Users \ {u} : Until'[v] = Until[v]
    BY <1>7, SameUntil DEF IInv, StampInv
  <2>4. LockCount[u] = Cardinality(LockoutsOf(u))
    BY <1>3 DEF LockCount
  <2>5. Until' = [v \in Users |-> Until'[v]] /\ Until = [v \in Users |-> Until[v]]
    BY DEF Until
  <2> QED BY <1>3, <1>4, <2>2, <2>3, <2>4, <2>5
<1>31. Policy!Lock(u)
  BY <1>3, <1>4, <1>5, <1>6, <1>8, <1>9, <1>30
  DEF Policy!Lock, Failures, LockCount, Until, Due
<1> QED BY <1>31 DEF Policy!PolicyNext

(* An administrator's UPDATE ends the newest lockout and nothing else.     *)
LEMMA UnlockIsPolicy ==
  ASSUME Serial, IInv, StampInv, IInv', StampInv', NEW w \in Workers, UpToDate(w),
         CommitUnlock(w)
  PROVE  Policy!PolicyNext
<1>1. PICK t : t = lock[w].unlock_at
  OBVIOUS
<1>2. PICK u \in Users : u = lock[w].user
  BY DEF CommitUnlock, IInv, TypeOK, LockoutRow
<1>3. /\ pc[w] = "unlock" /\ pc'[w] = "logUnlock" /\ attempts' = attempts
      /\ now' = now /\ crashes' = crashes
      /\ lock[w] \in LockoutRow /\ now \in Nat
  BY DEF CommitUnlock, IInv, TypeOK
<1>4. t \in 0..now
  BY <1>1, <1>3 DEF UpToDate, LockoutRow
<1>5. PICK l \in lockouts : /\ IsLatest(l) /\ l.user = u /\ l.locked_at = lock[w].locked_at
  BY <1>2, <1>3 DEF UpToDate
<1>6. PICK target : target = {k \in LockoutsOf(u) : k.locked_at = l.locked_at}
  OBVIOUS
<1>7. lockouts' = (lockouts \ target) \cup {Unlocked(k, t) : k \in target}
  BY <1>1, <1>2, <1>5, <1>6 DEF CommitUnlock
<1>8. /\ l \in target /\ target \subseteq lockouts /\ lockouts \subseteq LockoutRow
      /\ \A k \in target : k.user = u
  BY <1>5, <1>6 DEF LockoutsOf, IInv, TypeOK
<1>9. PICK m : m = Unlocked(l, t)
  OBVIOUS
<1>10. m \in lockouts' /\ Continues(l, m) /\ m.unlock_at = t
  <2>1. l \in LockoutRow /\ t \in Nat
    BY <1>4, <1>8
  <2>2. m.unlock_at = t
    BY <1>9, <2>1 DEF Unlocked, LockoutRow
  <2>3. Continues(l, m)
    BY <1>9, <2>1, UnlockedContinues
  <2> QED BY <1>7, <1>8, <1>9, <2>2, <2>3
<1>11. ASSUME NEW v \in Users \ {u} PROVE LockoutsOf(v)' = LockoutsOf(v)
  <2>1. \A k \in target : Unlocked(k, t).user = u
    BY <1>4, <1>8, UnlockedType
  <2> QED BY <1>7, <1>8, <2>1 DEF LockoutsOf
<1>12. Until' = [Until EXCEPT ![u] = t]
  <2>1. IsLatest(m)'
    <3> SUFFICES ASSUME NEW n, n \in lockouts', n.user = u PROVE n.locked_at <= m.locked_at
      BY <1>5, <1>10 DEF IsLatest, LockoutsOf, Continues
    <3>1. PICK k \in lockouts : Continues(k, n)
      BY UnlockContinues DEF IInv
    <3> QED BY <1>5, <1>10, <3>1 DEF IsLatest, LockoutsOf, Continues
  <2>2. Until'[u] = t
    BY <1>5, <1>10, <2>1, UntilLatestNext DEF IInv, StampInv, Continues
  <2>3. \A v \in Users \ {u} : Until'[v] = Until[v]
    BY <1>11, SameUntil DEF IInv, StampInv
  <2>4. Until' = [v \in Users |-> Until'[v]] /\ Until = [v \in Users |-> Until[v]]
    BY DEF Until
  <2> QED BY <2>2, <2>3, <2>4
<1>13. \A v \in Users : LockTimes(v)' = LockTimes(v)
  BY UnlockKeepsLockTimes DEF IInv
<1>14. Failures' = Failures
  <2>1. \A v \in Users : Resets(v)' = Resets(v)
    BY <1>3, <1>13 DEF Resets, SuccessTimes
  <2>2. \A v \in Users : SinceReset(v)' = SinceReset(v)
    BY <1>3, <2>1 DEF SinceReset
  <2> QED BY <2>2 DEF Failures
<1>15. LockCount' = LockCount
  <2> SUFFICES ASSUME NEW v \in Users
               PROVE  Cardinality(LockoutsOf(v)') = Cardinality(LockoutsOf(v))
    BY DEF LockCount
  <2>1. IsFiniteSet(LockoutsOf(v)')
    BY FS_Subset DEF LockoutsOf, IInv, TypeOK
  <2>2. \A k, n \in LockoutsOf(v)' : k.locked_at = n.locked_at => k = n
    BY DEF LockoutsOf, StampInv, Stamps
  <2>3. Cardinality(LockTimes(v)') = Cardinality(LockoutsOf(v)')
    BY <2>1, <2>2, StampsCount DEF LockTimes
  <2>4. Cardinality(LockTimes(v)) = Cardinality(LockoutsOf(v))
    BY LockoutsCounted DEF IInv, StampInv
  <2> QED BY <1>13, <2>3, <2>4
<1>16. Due = {} /\ Due' = {}
  BY <1>3, DueAlone, DueAloneNext DEF Evaluating
<1>17. LockCount[u] > 0
  <2>1. IsFiniteSet(LockoutsOf(u)) /\ LockoutsOf(u) # {}
    BY <1>5, FS_Subset DEF LockoutsOf, IInv, TypeOK
  <2>2. Cardinality(LockoutsOf(u)) \in Nat /\ Cardinality(LockoutsOf(u)) # 0
    BY <2>1, FS_EmptySet, FS_CardinalityType
  <2> QED BY <2>2 DEF LockCount
<1>18. Policy!Unlock(u)
  BY <1>3, <1>4, <1>12, <1>14, <1>15, <1>16, <1>17
  DEF Policy!Unlock, Failures, LockCount, Until, Due
<1> QED BY <1>18 DEF Policy!PolicyNext

(* The remaining steps of a request stutter, or only take time.            *)
LEMMA QuietIsPolicy ==
  ASSUME Serial, IInv, StampInv, IInv', StampInv', NEW w \in Workers, UpToDate(w),
         \/ Continue(w) /\ ~CommitAttempt(w) /\ ~CommitLockout(w) /\ ~CommitUnlock(w)
         \/ \E u \in Users : Arrive(w, u)
  PROVE  PolicyStutters \/ Policy!PolicyNext
<1>1. attempts' = attempts /\ lockouts' = lockouts /\ crashes' = crashes
  BY DEF Continue, RecordAttempt, ReadLastSuccess, ReadLastLockout, CountFailures,
         CountPriorLockouts, CreateLockout, LogLockout, LogPasswordOk, CreateSession,
         LogOutcome, LogUnlock, Arrive, Login, VerifyMfa, WebAuthnLoginBegin,
         WebAuthnLoginComplete, ManualUnlock, Enter
<1>2. \/ pc[w] \notin Evaluating /\ pc'[w] \notin Evaluating
      \/ pc[w] \in Evaluating /\ pc'[w] \in Evaluating /\ row'[w] = row[w]
      \/ /\ pc[w] \in Evaluating /\ pc'[w] \notin Evaluating
         /\ Cardinality(SinceReset(row[w].user)) < MaxFailed
  <2>1. CASE CountFailures(w)
    <3>1. FailuresSince(row[w].user, cut[w]) = SinceReset(row[w].user)
      BY <2>1, CountsSinceReset DEF CountFailures
    <3> QED BY <2>1, <3>1 DEF CountFailures, Evaluating, IInv, TypeOK
  <2>2. CASE \/ ReadLastSuccess(w) \/ ReadLastLockout(w) \/ CountPriorLockouts(w)
             \/ CreateLockout(w)
    BY <2>2 DEF ReadLastSuccess, ReadLastLockout, CountPriorLockouts, CreateLockout,
                Evaluating, IInv, TypeOK
  <2>3. CASE \/ RecordAttempt(w) \/ LogLockout(w) \/ LogPasswordOk(w) \/ CreateSession(w)
             \/ LogOutcome(w) \/ LogUnlock(w)
    BY <2>3 DEF RecordAttempt, LogLockout, LogPasswordOk, CreateSession, LogOutcome,
                LogUnlock, Evaluating, IInv, TypeOK
  <2>4. ASSUME NEW u \in Users, Arrive(w, u)
        PROVE  pc[w] \notin Evaluating /\ pc'[w] \notin Evaluating
    BY <2>4 DEF Arrive, Login, VerifyMfa, WebAuthnLoginBegin, WebAuthnLoginComplete,
                ManualUnlock, Enter, Accepts, Evaluating, IInv, TypeOK
  <2> QED BY <2>1, <2>2, <2>3, <2>4 DEF Continue
<1>3. Failures' = Failures /\ LockCount' = LockCount /\ Until' = Until /\ Due' = Due
  BY <1>1, <1>2, QuietStep DEF IInv, StampInv
<1>4. now' = now \/ now' = now + 1
  BY DEF Continue, RecordAttempt, ReadLastSuccess, ReadLastLockout, CountFailures,
         CountPriorLockouts, CreateLockout, LogLockout, LogPasswordOk, CreateSession,
         LogOutcome, LogUnlock, Arrive, Login, VerifyMfa, WebAuthnLoginBegin,
         WebAuthnLoginComplete, ManualUnlock, Enter
<1>5. CASE now' = now
  BY <1>1, <1>3, <1>5 DEF PolicyStutters
<1>6. CASE now' = now + 1
  <2>1. now' > now
    BY <1>6 DEF IInv, TypeOK
  <2>2. Policy!Pass
    BY <1>1, <1>3, <2>1 DEF Policy!Pass, Failures, LockCount, Until, Due
  <2> QED BY <2>2 DEF Policy!PolicyNext
<1> QED BY <1>4, <1>5, <1>6

(* Every step of a lone worker is a step of the policy or a stutter.       *)
LEMMA StepIsPolicy ==
  ASSUME Serial, IInv, StampInv, IInv', StampInv', [Next]_vars,
         \A w \in Workers : UpToDate(w)
  PROVE  PolicyStutters \/ Policy!PolicyNext
<1>1. ASSUME NEW w \in Workers, Continue(w) \/ \E u \in Users : Arrive(w, u)
      PROVE  PolicyStutters \/ Policy!PolicyNext
  BY <1>1, AttemptIsPolicy, LockoutIsPolicy, UnlockIsPolicy, QuietIsPolicy
<1>2. ASSUME NEW w \in Workers, Crash(w) PROVE Policy!PolicyNext
  <2>1. attempts' = attempts /\ lockouts' = lockouts /\ now' = now
        /\ crashes' = crashes + 1 /\ pc'[w] = "idle"
    BY <1>2 DEF Crash, IInv, TypeOK
  <2>2. Failures' = Failures /\ LockCount' = LockCount /\ Until' = Until
    BY <2>1, SameRows DEF IInv, StampInv
  <2>3. Due' = {}
    BY <2>1, DueAloneNext DEF Evaluating
  <2>4. Policy!Die
    BY <2>1, <2>2, <2>3 DEF Policy!Die, Failures, LockCount, Until, Due
  <2> QED BY <2>4 DEF Policy!PolicyNext
<1>3. CASE Tick \/ Over \/ UNCHANGED vars
  <2>1. /\ attempts' = attempts /\ lockouts' = lockouts /\ crashes' = crashes
        /\ pc' = pc /\ row' = row
    BY <1>3 DEF Tick, Over, vars
  <2>2. Failures' = Failures /\ LockCount' = LockCount /\ Until' = Until
    BY <2>1, SameRows DEF IInv, StampInv
  <2>3. Due' = Due
    BY <2>1, SameAnswers DEF Due
  <2>4. now' = now \/ now' > now
    BY <1>3 DEF Tick, Over, vars, IInv, TypeOK
  <2>5. CASE now' = now
    BY <2>1, <2>2, <2>3, <2>5 DEF PolicyStutters
  <2>6. CASE now' > now
    <3>1. Policy!Pass
      BY <2>1, <2>2, <2>3, <2>6 DEF Policy!Pass, Failures, LockCount, Until, Due
    <3> QED BY <3>1 DEF Policy!PolicyNext
  <2> QED BY <2>4, <2>5, <2>6
<1> QED BY <1>1, <1>2, <1>3 DEF Next

(* With one worker process every account is locked as the policy says: the *)
(* failure that completes the threshold is followed by the lockout of that *)
(* number and duration before anything else happens to any account, unless *)
(* its request dies.                                                       *)
THEOREM SerialImplementsPolicy ==
  ASSUME Serial
  PROVE  Spec => ImplementsPolicy
<1>1. Init => \A w \in Workers : UpToDate(w)
  BY DEF Init, UpToDate
<1>2. IInv /\ StampInv /\ [Next]_vars /\ (\A w \in Workers : UpToDate(w))
        => (\A w \in Workers : UpToDate(w))'
  BY UpToDateStep
<1>3. Init => Policy!PolicyInit
  <2> SUFFICES ASSUME Init PROVE Policy!PolicyInit
    OBVIOUS
  <2>1. \A u \in Users : SinceReset(u) = {} /\ LockoutsOf(u) = {}
    BY DEF Init, SinceReset, LockoutsOf
  <2>2. Failures = [u \in Users |-> 0] /\ LockCount = [u \in Users |-> 0]
        /\ Until = [u \in Users |-> 0]
    BY <2>1, FS_EmptySet DEF Failures, LockCount, Until
  <2>3. Due = {}
    BY DEF Init, Due, Evaluating
  <2> QED BY <2>2, <2>3 DEF Init, Policy!PolicyInit, Failures, LockCount, Until, Due
<1>4. IInv /\ StampInv /\ IInv' /\ StampInv' /\ [Next]_vars
        /\ (\A w \in Workers : UpToDate(w))
        => [Policy!PolicyNext]_(Policy!policyVars)
  BY StepIsPolicy DEF PolicyStutters, Policy!policyVars, Failures, LockCount, Until, Due
<1> QED
  BY <1>1, <1>2, <1>3, <1>4, Inductive, StampsInductive, PTL
  DEF Spec, ImplementsPolicy, Policy!PolicySpec

=============================================================================
