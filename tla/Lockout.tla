------------------------------ MODULE Lockout ------------------------------
(***************************************************************************)
(* The adaptive lockout of app/security/brute_force.py together with the   *)
(* handlers that drive it: POST /login, /verify-mfa, /webauthn/login/begin *)
(* and /complete (app/routes/auth.py) and the administrator's              *)
(* POST /unlock/<id> (app/routes/admin.py).                                *)
(*                                                                         *)
(* The service runs as several gunicorn worker processes over one          *)
(* database. A request is a sequence of queries and of separately          *)
(* committed transactions, no row is locked, and the database isolates at  *)
(* READ COMMITTED, so every query sees what is committed at that moment.   *)
(* One action below is one query, one commit or one clock reading of one   *)
(* worker; the interleaving of the workers is free. A row gets its         *)
(* timestamp when it is flushed and becomes visible at a later commit.     *)
(*                                                                         *)
(* Time is a counter. A timestamp advances it, so no two stamps are equal  *)
(* (the code's stamps have microseconds); Tick lets it pass otherwise.     *)
(***************************************************************************)
EXTENDS Integers, FiniteSets

CONSTANTS
    Users,        \* the accounts
    Workers,      \* the gunicorn worker processes (entrypoint.sh: 2)
    MfaUsers,     \* the accounts with mfa_enabled
    KeyUsers,     \* the accounts with a registered security key
    ExpiredUsers, \* the accounts whose password is past PASSWORD_EXPIRY_DAYS
    MaxFailed,    \* MAX_FAILED_ATTEMPTS
    Base,         \* BASE_LOCKOUT_SECONDS
    Factor,       \* LOCKOUT_BACKOFF_FACTOR
    MaxLockout,   \* MAX_LOCKOUT_SECONDS
    PreMfaTtl,    \* life of a pre_mfa token
    None,         \* SQL NULL / no row; not a value of the program's types
    Horizon,      \* bound: requests arrive before this time only
    MaxCrashes    \* bound: how many requests die half-way

ASSUME UsersAssumption ==
    MfaUsers \subseteq Users /\ KeyUsers \subseteq Users /\ ExpiredUsers \subseteq Users
ASSUME WorkersAssumption == IsFiniteSet(Workers)
ASSUME PolicyAssumption ==
    /\ MaxFailed \in Nat \ {0}
    /\ Base \in Nat \ {0} /\ Factor \in Nat \ {0} /\ MaxLockout \in Nat \ {0}
    /\ PreMfaTtl \in Nat \ {0}
ASSUME BoundsAssumption == Horizon \in Nat /\ MaxCrashes \in Nat

VARIABLES
    now,       \* the clock
    attempts,  \* the committed rows of login_attempts
    lockouts,  \* the committed rows of lockouts
    sessions,  \* the rows of sessions, by account and creating request
    preMfa,    \* preMfa[u]: when the newest pre_mfa token of u expires
    audit,     \* the audit events written, by the row they report
    pc,        \* pc[w]: what worker w does next
    row,       \* row[w]: the login attempt its request records
    cut,       \* cut[w]: the reset time it has read
    number,    \* number[w]: the lockout_number it has computed
    lock,      \* lock[w]: the lockout row it is about to write
    crashes,   \* how many requests have died half-way
    abandoned  \* history: failures whose evaluation died with the request

history == <<crashes, abandoned>>
vars == <<now, attempts, lockouts, sessions, preMfa, audit,
          pc, row, cut, number, lock, history>>

Stages == {"password", "mfa", "webauthn"}

(* reason is "ok" for a success row, "bad" for credentials that were       *)
(* evaluated and found wrong, "locked" for a request refused unevaluated.  *)
Attempt == [user: Users, stage: Stages, reason: {"ok", "bad", "locked"}, created_at: Nat]

(* visible_at and free_at are history: when the row's transaction          *)
(* committed, and the earliest unlock_at the row has ever had.             *)
LockoutRow == [user: Users, lockout_number: Nat, locked_at: Nat, unlock_at: Nat,
               duration: Nat, visible_at: Nat, free_at: Nat]

SessionRow == [user: Users, stage: Stages, at: Nat]

AuditEvent == [event: {"account_locked", "login_blocked_lockout", "login_failed",
                       "login_password_ok", "login_success", "mfa_failed", "manual_unlock"},
               user: Users, at: Nat]

(* The steps of a failed request between recording its failure and         *)
(* deciding whether that failure locks the account.                        *)
Evaluating == {"readSuccess", "readLockout", "count", "prior", "create", "commitLock"}

PCs == Evaluating \cup {"idle", "verify", "refuse", "commit", "logLock", "logPassword",
                        "session", "log", "unlock", "logUnlock"}

Init ==
    /\ now = 0
    /\ attempts = {} /\ lockouts = {} /\ sessions = {} /\ audit = {}
    /\ preMfa = [u \in Users |-> 0]
    /\ pc = [w \in Workers |-> "idle"]
    /\ row = [w \in Workers |-> None] /\ lock = [w \in Workers |-> None]
    /\ cut = [w \in Workers |-> 0] /\ number = [w \in Workers |-> 0]
    /\ crashes = 0 /\ abandoned = {}

-----------------------------------------------------------------------------
(* Queries.                                                                *)

LockoutsOf(u) == {l \in lockouts : l.user = u}

IsLatest(l) == l \in lockouts /\ \A m \in LockoutsOf(l.user) : m.locked_at <= l.locked_at

(* Fault: the expiry is forgotten.                                         *)
BugActive(u) == LockoutsOf(u) # {}

(* get_active_lockout: only the lockout with the newest locked_at counts.  *)
Active(u) == \E l \in LockoutsOf(u) : IsLatest(l) /\ l.unlock_at > now

SuccessTimes(u) == {a.created_at : a \in {b \in attempts : b.user = u /\ b.reason = "ok"}}

LockTimes(u) == {l.locked_at : l \in LockoutsOf(u)}

(* The rows a failure count with cutoff c counts: every row that is not a  *)
(* success, a request refused while locked included.                       *)
FailuresSince(u, c) == {a \in attempts : a.user = u /\ a.reason # "ok" /\ a.created_at > c}

(* Seconds of the n-th lockout: exponential, capped.                       *)
Duration(n) == LET d == Base * Factor^(n - 1)
               IN  IF d \in 1..MaxLockout THEN d ELSE MaxLockout

-----------------------------------------------------------------------------
(* Control of one worker.                                                  *)

Goto(w, step) == pc' = [pc EXCEPT ![w] = step]

(* The response is sent; the request's local state is gone.                *)
Finish(w) ==
    /\ Goto(w, "idle")
    /\ row' = [row EXCEPT ![w] = None] /\ lock' = [lock EXCEPT ![w] = None]
    /\ cut' = [cut EXCEPT ![w] = 0] /\ number' = [number EXCEPT ![w] = 0]

Accepts(w) == pc[w] = "idle" /\ now < Horizon

Enter(w, u, s, step) ==
    /\ row' = [row EXCEPT ![w] = [user |-> u, stage |-> s, reason |-> "bad", created_at |-> 0]]
    /\ Goto(w, step)
    /\ UNCHANGED <<now, attempts, lockouts, sessions, preMfa, audit, cut, number, lock, history>>

(* Fault: no lockout check before the password is verified.                *)
BugLogin(w, u) == Accepts(w) /\ Enter(w, u, "password", "verify")

(* POST /login for an existing account, up to the lockout check. A request *)
(* for an unknown name only adds a row no query here ever reads.           *)
Login(w, u) ==
    /\ Accepts(w)
    /\ Enter(w, u, "password", IF Active(u) THEN "refuse" ELSE "verify")

(* POST /webauthn/login/begin: it changes state only when it refuses.      *)
WebAuthnLoginBegin(w, u) ==
    /\ Accepts(w) /\ Active(u)
    /\ Enter(w, u, "webauthn", "refuse")

(* POST /webauthn/login/complete, up to the lockout check. The challenge   *)
(* token it needs is issued only for an account with a security key.       *)
WebAuthnLoginComplete(w, u) ==
    /\ Accepts(w) /\ u \in KeyUsers
    /\ Enter(w, u, "webauthn", IF Active(u) THEN "refuse" ELSE "verify")

(* Fault: the MFA endpoint admits a request without a pre_mfa token.       *)
BugVerifyMfa(w, u) == Accepts(w) /\ Enter(w, u, "mfa", "verify")

(* POST /verify-mfa: admitted by an unexpired pre_mfa token, with no       *)
(* lockout check.                                                          *)
VerifyMfa(w, u) ==
    /\ Accepts(w) /\ now < preMfa[u]
    /\ Enter(w, u, "mfa", "verify")

(* Credentials are compared and record_attempt stamps its row.             *)
RecordAttempt(w) ==
    /\ pc[w] \in {"verify", "refuse"}
    /\ \E r \in IF pc[w] = "refuse" THEN {"locked"} ELSE {"ok", "bad"} :
          row' = [row EXCEPT ![w] = [user |-> row[w].user, stage |-> row[w].stage,
                                     reason |-> r, created_at |-> now + 1]]
    /\ now' = now + 1
    /\ Goto(w, "commit")
    /\ UNCHANGED <<attempts, lockouts, sessions, preMfa, audit, cut, number, lock, history>>

(* The commit that ends record_attempt.                                    *)
CommitAttempt(w) ==
    /\ pc[w] = "commit"
    /\ attempts' = attempts \cup {row[w]}
    /\ \/ row[w].reason = "locked" /\ Goto(w, "log")
       \/ row[w].reason = "bad" /\ Goto(w, "readSuccess")
       \/ row[w].reason = "ok" /\ row[w].stage = "password" /\ Goto(w, "logPassword")
       \/ row[w].reason = "ok" /\ row[w].stage # "password" /\ Goto(w, "session")
    /\ UNCHANGED <<now, lockouts, sessions, preMfa, audit, row, cut, number, lock, history>>

-----------------------------------------------------------------------------
(* register_failure_and_maybe_lock                                         *)

ReadLastSuccess(w) ==
    /\ pc[w] = "readSuccess"
    /\ \E c \in SuccessTimes(row[w].user) \cup {0} :
          /\ \A t \in SuccessTimes(row[w].user) : t <= c
          /\ cut' = [cut EXCEPT ![w] = c]
    /\ Goto(w, "readLockout")
    /\ UNCHANGED <<now, attempts, lockouts, sessions, preMfa, audit, row, number, lock, history>>

(* The later of the last success and the last lockout is the cutoff.       *)
ReadLastLockout(w) ==
    /\ pc[w] = "readLockout"
    /\ \E c \in LockTimes(row[w].user) \cup {cut[w]} :
          /\ cut[w] <= c /\ \A t \in LockTimes(row[w].user) : t <= c
          /\ cut' = [cut EXCEPT ![w] = c]
    /\ Goto(w, "count")
    /\ UNCHANGED <<now, attempts, lockouts, sessions, preMfa, audit, row, number, lock, history>>

(* Fault: the threshold is off by one.                                     *)
BugCountFailures(w) ==
    /\ pc[w] = "count"
    /\ Goto(w, IF Cardinality(FailuresSince(row[w].user, cut[w])) <= MaxFailed
               THEN "log" ELSE "prior")
    /\ UNCHANGED <<now, attempts, lockouts, sessions, preMfa, audit, row, cut, number, lock,
                   history>>

CountFailures(w) ==
    /\ pc[w] = "count"
    /\ Goto(w, IF Cardinality(FailuresSince(row[w].user, cut[w])) < MaxFailed
               THEN "log" ELSE "prior")
    /\ UNCHANGED <<now, attempts, lockouts, sessions, preMfa, audit, row, cut, number, lock,
                   history>>

(* Fault: only lockouts still in force count toward the backoff.           *)
BugCountPriorLockouts(w) ==
    /\ pc[w] = "prior"
    /\ number' = [number EXCEPT ![w] =
                    Cardinality({l \in LockoutsOf(row[w].user) : l.unlock_at > now}) + 1]
    /\ Goto(w, "create")
    /\ UNCHANGED <<now, attempts, lockouts, sessions, preMfa, audit, row, cut, lock, history>>

CountPriorLockouts(w) ==
    /\ pc[w] = "prior"
    /\ number' = [number EXCEPT ![w] = Cardinality(LockoutsOf(row[w].user)) + 1]
    /\ Goto(w, "create")
    /\ UNCHANGED <<now, attempts, lockouts, sessions, preMfa, audit, row, cut, lock, history>>

CreateLockout(w) ==
    /\ pc[w] = "create"
    /\ now' = now + 1
    /\ lock' = [lock EXCEPT ![w] =
                  [user |-> row[w].user, lockout_number |-> number[w],
                   locked_at |-> now + 1, unlock_at |-> now + 1 + Duration(number[w]),
                   duration |-> Duration(number[w]), visible_at |-> 0,
                   free_at |-> now + 1 + Duration(number[w])]]
    /\ Goto(w, "commitLock")
    /\ UNCHANGED <<attempts, lockouts, sessions, preMfa, audit, row, cut, number, history>>

(* Fault: the lockout is not logged.                                       *)
BugCommitLockout(w) ==
    /\ pc[w] = "commitLock"
    /\ lockouts' = lockouts \cup {[lock[w] EXCEPT !.visible_at = now]}
    /\ Goto(w, "log")
    /\ UNCHANGED <<now, attempts, sessions, preMfa, audit, row, cut, number, lock, history>>

CommitLockout(w) ==
    /\ pc[w] = "commitLock"
    /\ lockouts' = lockouts \cup {[lock[w] EXCEPT !.visible_at = now]}
    /\ Goto(w, "logLock")
    /\ UNCHANGED <<now, attempts, sessions, preMfa, audit, row, cut, number, lock, history>>

-----------------------------------------------------------------------------
(* What follows the attempt.                                               *)

Event(name, u, t) == [event |-> name, user |-> u, at |-> t]

LogLockout(w) ==
    /\ pc[w] = "logLock"
    /\ audit' = audit \cup {Event("account_locked", lock[w].user, lock[w].locked_at)}
    /\ Goto(w, "log")
    /\ UNCHANGED <<now, attempts, lockouts, sessions, preMfa, row, cut, number, lock, history>>

(* After a correct password: an expired one ends in 403, an account with   *)
(* MFA gets a pre_mfa token, any other one a session.                      *)
LogPasswordOk(w) ==
    LET u == row[w].user IN
    /\ pc[w] = "logPassword"
    /\ audit' = audit \cup {Event("login_password_ok", u, row[w].created_at)}
    /\ \/ u \in ExpiredUsers /\ Finish(w) /\ UNCHANGED preMfa
       \/ /\ u \in MfaUsers \ ExpiredUsers
          /\ preMfa' = [preMfa EXCEPT ![u] = now + PreMfaTtl]
          /\ Finish(w)
       \/ /\ u \notin MfaUsers \cup ExpiredUsers
          /\ Goto(w, "session")
          /\ UNCHANGED <<preMfa, row, cut, number, lock>>
    /\ UNCHANGED <<now, attempts, lockouts, sessions, history>>

CreateSession(w) ==
    /\ pc[w] = "session"
    /\ sessions' = sessions \cup
          {[user |-> row[w].user, stage |-> row[w].stage, at |-> row[w].created_at]}
    /\ Goto(w, "log")
    /\ UNCHANGED <<now, attempts, lockouts, preMfa, audit, row, cut, number, lock, history>>

(* The request's last audit entry.                                         *)
LogOutcome(w) ==
    /\ pc[w] = "log"
    /\ audit' = audit \cup
          {Event(IF row[w].reason = "locked" THEN "login_blocked_lockout"
                 ELSE IF row[w].reason = "ok" THEN "login_success"
                 ELSE IF row[w].stage = "mfa" THEN "mfa_failed" ELSE "login_failed",
                 row[w].user, row[w].created_at)}
    /\ Finish(w)
    /\ UNCHANGED <<now, attempts, lockouts, sessions, preMfa, history>>

-----------------------------------------------------------------------------
(* POST /admin/unlock/<id>: read the clock and the newest lockout row, ... *)
ManualUnlock(w, u) ==
    /\ Accepts(w)
    /\ \/ /\ LockoutsOf(u) = {}
          /\ audit' = audit \cup {Event("manual_unlock", u, 0)}
          /\ UNCHANGED <<pc, lock>>
       \/ /\ \E l \in LockoutsOf(u) :
                /\ IsLatest(l)
                /\ lock' = [lock EXCEPT ![w] = [l EXCEPT !.unlock_at = now]]
          /\ Goto(w, "unlock")
          /\ UNCHANGED audit
    /\ UNCHANGED <<now, attempts, lockouts, sessions, preMfa, row, cut, number, history>>

Unlocked(l, t) ==
    [l EXCEPT !.unlock_at = t, !.free_at = IF t < l.free_at THEN t ELSE l.free_at]

(* ... then UPDATE that row's unlock_at, whatever was committed meanwhile. *)
CommitUnlock(w) ==
    LET target == {l \in LockoutsOf(lock[w].user) : l.locked_at = lock[w].locked_at} IN
    /\ pc[w] = "unlock"
    /\ lockouts' = (lockouts \ target) \cup {Unlocked(l, lock[w].unlock_at) : l \in target}
    /\ Goto(w, "logUnlock")
    /\ UNCHANGED <<now, attempts, sessions, preMfa, audit, row, cut, number, lock, history>>

LogUnlock(w) ==
    /\ pc[w] = "logUnlock"
    /\ audit' = audit \cup {Event("manual_unlock", lock[w].user, lock[w].locked_at)}
    /\ Finish(w)
    /\ UNCHANGED <<now, attempts, lockouts, sessions, preMfa, history>>

-----------------------------------------------------------------------------
(* The worker process dies (or its request fails) between two commits: the *)
(* rows it has committed stay, the rest of the handler never happens.      *)
Crash(w) ==
    /\ pc[w] # "idle" /\ crashes < MaxCrashes
    /\ crashes' = crashes + 1
    /\ abandoned' = IF pc[w] \in Evaluating THEN abandoned \cup {row[w]} ELSE abandoned
    /\ Finish(w)
    /\ UNCHANGED <<now, attempts, lockouts, sessions, preMfa, audit>>

(* Bound: beyond Horizon time passes only to the end of the last lockout.  *)
Waiting == now < Horizon \/ \E l \in lockouts : now < l.unlock_at

Tick ==
    /\ Waiting
    /\ now' = now + 1
    /\ UNCHANGED <<attempts, lockouts, sessions, preMfa, audit, pc, row, cut, number, lock,
                   history>>

(* The bounded run is over: no request is accepted and none is running.    *)
Over ==
    /\ ~Waiting /\ \A w \in Workers : pc[w] = "idle"
    /\ UNCHANGED vars

Continue(w) ==
    \/ RecordAttempt(w) \/ CommitAttempt(w)
    \/ ReadLastSuccess(w) \/ ReadLastLockout(w) \/ CountFailures(w)
    \/ CountPriorLockouts(w) \/ CreateLockout(w) \/ CommitLockout(w)
    \/ LogLockout(w) \/ LogPasswordOk(w) \/ CreateSession(w) \/ LogOutcome(w)
    \/ CommitUnlock(w) \/ LogUnlock(w)

Arrive(w, u) ==
    \/ Login(w, u) \/ VerifyMfa(w, u)
    \/ WebAuthnLoginBegin(w, u) \/ WebAuthnLoginComplete(w, u)
    \/ ManualUnlock(w, u)

Next ==
    \/ \E w \in Workers : Continue(w) \/ Crash(w)
    \/ \E w \in Workers, u \in Users : Arrive(w, u)
    \/ Tick
    \/ Over

(* A request that has started is carried on, and time passes. Nothing      *)
(* makes a client send a request.                                          *)
Fairness == WF_vars(Tick) /\ \A w \in Workers : WF_vars(Continue(w))

Spec == Init /\ [][Next]_vars /\ Fairness

-----------------------------------------------------------------------------
(* Properties.                                                             *)

(* Every variable keeps its type, and a busy worker has the local state    *)
(* its next step uses.                                                     *)
TypeOK ==
    /\ now \in Nat /\ crashes \in Nat
    /\ attempts \subseteq Attempt /\ abandoned \subseteq Attempt
    /\ lockouts \subseteq LockoutRow
    /\ IsFiniteSet(attempts) /\ IsFiniteSet(lockouts)
    /\ sessions \subseteq SessionRow
    /\ audit \subseteq AuditEvent
    /\ preMfa \in [Users -> Nat]
    /\ pc \in [Workers -> PCs]
    /\ row \in [Workers -> Attempt \cup {None}]
    /\ cut \in [Workers -> Nat] /\ number \in [Workers -> Nat]
    /\ lock \in [Workers -> LockoutRow \cup {None}]
    /\ \A w \in Workers :
          /\ pc[w] \notin {"idle", "unlock", "logUnlock"} => row[w] \in Attempt
          /\ pc[w] \in {"commitLock", "logLock", "unlock", "logUnlock"} => lock[w] \in LockoutRow

Resets(u) == SuccessTimes(u) \cup LockTimes(u)

(* Wrong credentials evaluated since the account's last reset.             *)
Fresh(u) == {a \in attempts : a.user = u /\ a.reason = "bad"
                              /\ \A t \in Resets(u) : t < a.created_at}

(* The lockout check, the recording of the failure and the count are       *)
(* separate transactions, so concurrent requests overshoot the threshold;  *)
(* they overshoot it by at most one wrong credential per further worker    *)
(* (and one per request that died before its failure was counted).         *)
BoundedGuesses ==
    \A u \in Users :
        Cardinality(Fresh(u) \ abandoned) <= MaxFailed - 1 + Cardinality(Workers)

(* Attempts evaluated at a stage in S while lockout l held.                *)
EvaluatedDuring(l, S) ==
    {a \in attempts : /\ a.user = l.user /\ a.reason # "locked" /\ a.stage \in S
                      /\ l.visible_at < a.created_at /\ a.created_at <= l.free_at}

(* Once a lockout is committed, a password or a security key is evaluated  *)
(* before its end only for the requests that had passed the lockout check  *)
(* earlier: at most one per other worker.                                  *)
LockHoldsBack ==
    \A l \in lockouts : IsLatest(l) =>
        Cardinality(EvaluatedDuring(l, {"password", "webauthn"})) < Cardinality(Workers)

(* COUNT + 1 is computed without a lock, so racing requests reuse a        *)
(* lockout_number; a number is used at most once per worker, so the        *)
(* backoff cannot stall on one step.                                       *)
SharedNumbers ==
    \A l \in lockouts :
        Cardinality({m \in LockoutsOf(l.user) : m.lockout_number = l.lockout_number})
            <= Cardinality(Workers)

(* Rows of l's account, with a reason in R, between the reset before l and *)
(* l itself.                                                               *)
FailuresBehind(l, R) ==
    {a \in attempts : /\ a.user = l.user /\ a.reason \in R /\ a.created_at < l.locked_at
                      /\ \A t \in Resets(l.user) : t < l.locked_at => t < a.created_at}

(* A lockout is reported in the audit log, at the latest by the request    *)
(* that is still running; each request that dies leaves out one at most.   *)
LockoutAudited ==
    Cardinality({l \in lockouts :
        /\ Event("account_locked", l.user, l.locked_at) \notin audit
        /\ \A w \in Workers : pc[w] = "logLock" => lock[w].locked_at # l.locked_at}) <= crashes

(* A session opened by an MFA code comes after a correct password of the   *)
(* same account that opened no session itself.                             *)
MfaAfterPassword ==
    \A s \in sessions : s.stage = "mfa" =>
        \E a \in attempts : /\ a.user = s.user /\ a.stage = "password" /\ a.reason = "ok"
                            /\ a.created_at < s.at
                            /\ \A r \in sessions : r.user = s.user => r.at # a.created_at

(* Every lockout ends by itself.                                           *)
AutoUnlock == \A u \in Users : Active(u) ~> ~Active(u)

(* The rows since the account's last success or lockout.                   *)
SinceReset(u) ==
    {a \in attempts : a.user = u /\ a.reason # "ok" /\ \A t \in Resets(u) : t < a.created_at}

(* With one worker the module implements LockoutPolicy: every failure that *)
(* completes the threshold is followed by the lockout of that number and   *)
(* duration before anything else happens to any account, unless the        *)
(* request dies, and only a success or a lockout resets the count.         *)
Policy == INSTANCE LockoutPolicy WITH
    failures <- [u \in Users |-> Cardinality(SinceReset(u))],
    number <- [u \in Users |-> Cardinality(LockoutsOf(u))],
    until <- [u \in Users |->
                IF LockoutsOf(u) = {} THEN 0
                ELSE (CHOOSE l \in LockoutsOf(u) : IsLatest(l)).unlock_at],
    due <- {u \in Users : /\ Cardinality(SinceReset(u)) >= MaxFailed
                          /\ \E w \in Workers : pc[w] \in Evaluating /\ row[w].user = u},
    deaths <- crashes

ImplementsPolicy == Policy!PolicySpec

(* What the documentation says and the code does not do.                   *)

(* brute_force.py: one mistaken attempt costs a short delay. Then every    *)
(* lockout would have MaxFailed evaluated mistakes behind it.              *)
LockoutsNeedMistakes ==
    \A l \in lockouts : Cardinality(FailuresBehind(l, {"bad"})) >= MaxFailed

(* SECURITY.md: wrong codes count toward the lockout, so that they cannot  *)
(* go on. Then an account would be locked before more than MaxFailed wrong *)
(* codes since its last lockout or completed login.                        *)
MfaFailuresLock ==
    \A u \in Users :
        Cardinality({a \in attempts :
            /\ a.user = u /\ a.stage = "mfa" /\ a.reason = "bad"
            /\ \A t \in LockTimes(u) : t < a.created_at
            /\ \A b \in attempts : b.user = u /\ b.reason = "ok" /\ b.stage # "password"
                                      => b.created_at < a.created_at}) <= MaxFailed

=============================================================================
