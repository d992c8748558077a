-------------------------------- MODULE Mfa --------------------------------
(***************************************************************************)
(* The second factor of one account: TOTP enrolment, recovery codes and    *)
(* their use, in app/security/totp_utils.py and in the handlers mfa_setup, *)
(* mfa_confirm and verify_mfa of app/routes/auth.py. The handlers touch no *)
(* other account's rows.                                                   *)
(*                                                                         *)
(* Several gunicorn workers share one PostgreSQL database at READ          *)
(* COMMITTED. token_required loads the account's row once, so a handler    *)
(* compares a TOTP code with the secret of that moment. The DELETE that    *)
(* replaces the recovery codes sees the rows committed when it starts,     *)
(* waits for the rows that another transaction has locked and holds them   *)
(* until its own commit, while bcrypt hashes the new codes.                *)
(*                                                                         *)
(* A TOTP code is known by the secret it was computed from; its time       *)
(* window and wrong codes, which change nothing here, are left out, as are *)
(* the login attempts and lockouts of verify_mfa (module Lockout).         *)
(***************************************************************************)
EXTENDS Integers, FiniteSets

CONSTANTS
    Workers,    \* the gunicorn worker processes
    CodeCount,  \* RECOVERY_CODE_COUNT
    None,       \* no recovery code
    MaxArrived, \* bound: how many requests arrive
    MaxCrashes  \* bound: how many of them die half-way

ASSUME WorkersAssumption == IsFiniteSet(Workers) /\ Workers # {}
ASSUME CountAssumption == CodeCount \in Nat \ {0}
ASSUME BoundsAssumption == MaxArrived \in Nat /\ MaxCrashes \in Nat

VARIABLES
    totp_secret,    \* users.totp_secret, 0 for NULL
    mfa_enabled,    \* users.mfa_enabled
    recovery_codes, \* the committed rows of recovery_codes
    secrets,        \* how many secrets have been generated
    lists,          \* how many lists of recovery codes have been generated
    shown,          \* the secrets responses have shown
    told,           \* the recovery codes responses have shown
    opened,         \* the sessions opened by a second factor
    pc,             \* pc[w]: what worker w does next
    req,            \* req[w]: what its handler keeps
    arrived,        \* how many requests have arrived
    crashes         \* how many have died half-way

kept == <<shown, told, opened>>
vars == <<totp_secret, mfa_enabled, recovery_codes, secrets, lists, kept, pc, req,
          arrived, crashes>>

Code == [list: Nat \ {0}, nth: 1..CodeCount]

ASSUME NoneAssumption == None \notin Code

RecoveryCode == [code: Code, used: BOOLEAN]

(* A session opened by a code of secret or by the recovery code; late is   *)
(* history: the secret had been replaced.                                  *)
Opened == [secret: Nat, code: Code \cup {None}, late: BOOLEAN, nth: Nat]

(* secret is the one the handler loaded or generated, code the recovery    *)
(* code it accepted, targets the rows its DELETE found, list its new list. *)
Request == [secret: Nat, code: Code \cup {None}, targets: SUBSET Code, list: Nat]

NoRequest == [secret |-> 0, code |-> None, targets |-> {}, list |-> 0]

PCs == {"idle", "store", "show", "enable", "delete", "lock", "insert", "tell", "spend",
        "session"}

Init ==
    /\ totp_secret = 0 /\ mfa_enabled = FALSE /\ recovery_codes = {}
    /\ secrets = 0 /\ lists = 0
    /\ shown = {} /\ told = {} /\ opened = {}
    /\ pc = [w \in Workers |-> "idle"]
    /\ req = [w \in Workers |-> NoRequest]
    /\ arrived = 0 /\ crashes = 0

-----------------------------------------------------------------------------
Goto(w, step) == pc' = [pc EXCEPT ![w] = step]

Finish(w) == Goto(w, "idle") /\ req' = [req EXCEPT ![w] = NoRequest]

Accept(w, step, r) ==
    /\ pc[w] = "idle" /\ arrived < MaxArrived
    /\ arrived' = arrived + 1
    /\ Goto(w, step)
    /\ req' = [req EXCEPT ![w] = r]
    /\ UNCHANGED <<totp_secret, mfa_enabled, recovery_codes, lists, kept, crashes>>

-----------------------------------------------------------------------------
(* POST /mfa/setup: generate a secret, ...                                 *)
Setup(w) ==
    /\ secrets' = secrets + 1
    /\ Accept(w, "store", [NoRequest EXCEPT !.secret = secrets + 1])

(* ... store it, whether or not MFA is enabled, ...                        *)
StoreSecret(w) ==
    /\ pc[w] = "store"
    /\ totp_secret' = req[w].secret
    /\ Goto(w, "show")
    /\ UNCHANGED <<mfa_enabled, recovery_codes, secrets, lists, kept, req, arrived, crashes>>

(* ... and show it.                                                        *)
ShowSecret(w) ==
    /\ pc[w] = "show"
    /\ shown' = shown \cup {req[w].secret}
    /\ Finish(w)
    /\ UNCHANGED <<totp_secret, mfa_enabled, recovery_codes, secrets, lists, told, opened,
                   arrived, crashes>>

-----------------------------------------------------------------------------
(* POST /mfa/confirm with a code of the stored secret.                     *)
Confirm(w) ==
    /\ totp_secret \in shown
    /\ Accept(w, "enable", NoRequest)
    /\ UNCHANGED secrets

(* Fault: the recovery codes are not generated.                            *)
BugEnable(w) ==
    /\ pc[w] = "enable"
    /\ mfa_enabled' = TRUE
    /\ Finish(w)
    /\ UNCHANGED <<totp_secret, recovery_codes, secrets, lists, kept, arrived, crashes>>

Enable(w) ==
    /\ pc[w] = "enable"
    /\ mfa_enabled' = TRUE
    /\ Goto(w, "delete")
    /\ UNCHANGED <<totp_secret, recovery_codes, secrets, lists, kept, req, arrived, crashes>>

(* Fault: the old codes are kept.                                          *)
BugDeleteCodes(w) ==
    /\ pc[w] = "delete"
    /\ Goto(w, "lock")
    /\ UNCHANGED <<totp_secret, mfa_enabled, recovery_codes, secrets, lists, kept, req,
                   arrived, crashes>>

(* generate_recovery_codes: the DELETE finds the rows of this moment, ...  *)
DeleteCodes(w) ==
    /\ pc[w] = "delete"
    /\ req' = [req EXCEPT ![w].targets = {r.code : r \in recovery_codes}]
    /\ Goto(w, "lock")
    /\ UNCHANGED <<totp_secret, mfa_enabled, recovery_codes, secrets, lists, kept, arrived,
                   crashes>>

(* Fault: the rows are locked one by one, while others are waited for.     *)
BugLockedCodes(w) ==
    UNION {req[v].targets : v \in {u \in Workers \ {w} : pc[u] \in {"lock", "insert"}}}

(* The rows that other transactions have deleted but not committed.        *)
LockedCodes(w) == UNION {req[v].targets : v \in {u \in Workers \ {w} : pc[u] = "insert"}}

(* ... waits until nobody else holds one of them, ...                      *)
LockCodes(w) ==
    /\ pc[w] = "lock" /\ req[w].targets \cap LockedCodes(w) = {}
    /\ Goto(w, "insert")
    /\ UNCHANGED <<totp_secret, mfa_enabled, recovery_codes, secrets, lists, kept, req,
                   arrived, crashes>>

(* ... and the new list is committed together with the deletion.           *)
InsertCodes(w) ==
    /\ pc[w] = "insert"
    /\ lists' = lists + 1
    /\ recovery_codes' =
          {r \in recovery_codes : r.code \notin req[w].targets}
          \cup {[code |-> [list |-> lists + 1, nth |-> i], used |-> FALSE] : i \in 1..CodeCount}
    /\ req' = [req EXCEPT ![w].list = lists + 1]
    /\ Goto(w, "tell")
    /\ UNCHANGED <<totp_secret, mfa_enabled, secrets, kept, arrived, crashes>>

(* The response shows the codes, once.                                     *)
ShowCodes(w) ==
    /\ pc[w] = "tell"
    /\ told' = told \cup [list: {req[w].list}, nth: 1..CodeCount]
    /\ Finish(w)
    /\ UNCHANGED <<totp_secret, mfa_enabled, recovery_codes, secrets, lists, shown, opened,
                   arrived, crashes>>

-----------------------------------------------------------------------------
(* Fault: a code of any secret the account ever had is accepted.           *)
BugVerifyTotp(w) ==
    /\ mfa_enabled
    /\ \E s \in shown : Accept(w, "session", [NoRequest EXCEPT !.secret = s])
    /\ UNCHANGED secrets

(* POST /verify-mfa with a code of the stored secret. The pre_mfa token it *)
(* needs was issued because MFA is enabled.                                *)
VerifyTotp(w) ==
    /\ mfa_enabled /\ totp_secret \in shown
    /\ Accept(w, "session", [NoRequest EXCEPT !.secret = totp_secret])
    /\ UNCHANGED secrets

(* ... or with a recovery code: consume_recovery_code finds it among the   *)
(* unused ones, ...                                                        *)
VerifyRecoveryCode(w) ==
    /\ mfa_enabled
    /\ \E r \in recovery_codes :
          /\ r.code \in told /\ ~r.used
          /\ Accept(w, "spend", [NoRequest EXCEPT !.code = r.code])
    /\ UNCHANGED secrets

(* Fault: the row is not marked.                                           *)
BugMarkUsed(c) == UNCHANGED recovery_codes

MarkUsed(c) ==
    recovery_codes' = {[r EXCEPT !.used = @ \/ r.code = c] : r \in recovery_codes}

(* ... and marks it used by its id, whether or not it still is unused. If  *)
(* the row is gone the UPDATE matches nothing and the request fails.       *)
SpendCode(w) ==
    /\ pc[w] = "spend" /\ req[w].code \notin LockedCodes(w)
    /\ \/ /\ \E r \in recovery_codes : r.code = req[w].code
          /\ MarkUsed(req[w].code)
          /\ Goto(w, "session")
          /\ UNCHANGED req
       \/ /\ \A r \in recovery_codes : r.code # req[w].code
          /\ Finish(w)
          /\ UNCHANGED recovery_codes
    /\ UNCHANGED <<totp_secret, mfa_enabled, secrets, lists, kept, arrived, crashes>>

(* _create_session                                                         *)
OpenSession(w) ==
    /\ pc[w] = "session"
    /\ opened' = opened \cup
          {[secret |-> req[w].secret, code |-> req[w].code, nth |-> Cardinality(opened) + 1,
            late |-> req[w].code = None /\ req[w].secret # totp_secret]}
    /\ Finish(w)
    /\ UNCHANGED <<totp_secret, mfa_enabled, recovery_codes, secrets, lists, shown, told,
                   arrived, crashes>>

-----------------------------------------------------------------------------
(* The worker dies: its open transaction is rolled back and nothing of the *)
(* response reaches the client.                                            *)
Crash(w) ==
    /\ pc[w] # "idle" /\ crashes < MaxCrashes
    /\ crashes' = crashes + 1
    /\ Finish(w)
    /\ UNCHANGED <<totp_secret, mfa_enabled, recovery_codes, secrets, lists, kept, arrived>>

Arrive(w) == Setup(w) \/ Confirm(w) \/ VerifyTotp(w) \/ VerifyRecoveryCode(w)

Continue(w) ==
    \/ StoreSecret(w) \/ ShowSecret(w)
    \/ Enable(w) \/ DeleteCodes(w) \/ LockCodes(w) \/ InsertCodes(w) \/ ShowCodes(w)
    \/ SpendCode(w) \/ OpenSession(w)

(* Nothing makes a client send a request, so the service may stand still   *)
(* when no request is being handled; Answered says that none is stuck.     *)
Next == \E w \in Workers : Arrive(w) \/ Continue(w) \/ Crash(w)

(* A request that has started is carried on.                               *)
Fairness == \A w \in Workers : WF_vars(Continue(w))

Spec == Init /\ [][Next]_vars /\ Fairness

-----------------------------------------------------------------------------
(* Properties.                                                             *)

(* Every variable keeps its type; a recovery code has one row.             *)
TypeOK ==
    /\ totp_secret \in 0..secrets /\ mfa_enabled \in BOOLEAN
    /\ secrets \in Nat /\ lists \in Nat /\ arrived \in Nat /\ crashes \in Nat
    /\ recovery_codes \subseteq RecoveryCode
    /\ \A q, r \in recovery_codes : q.code = r.code => q = r
    /\ \A r \in recovery_codes : r.code.list <= lists
    /\ shown \subseteq 1..secrets /\ told \subseteq Code /\ opened \subseteq Opened
    /\ pc \in [Workers -> PCs] /\ req \in [Workers -> Request]

(* consume_recovery_code checks and marks a code in separate steps, so a   *)
(* code can open several sessions, but only those of requests that read it *)
(* before the first of them marked it: one per worker.                     *)
SpendsBounded ==
    \A o \in opened : o.code # None =>
        Cardinality({p \in opened : p.code = o.code}) <= Cardinality(Workers)

(* "Create fresh recovery codes for a user, replacing any existing ones":  *)
(* confirmations that race miss each other's new rows, but no more lists   *)
(* survive side by side than there are workers.                            *)
ListsBounded == Cardinality({r.code.list : r \in recovery_codes}) <= Cardinality(Workers)

(* A code of a replaced secret opens a session only for requests that      *)
(* loaded the account before the replacement: one per further worker.      *)
LateSecretsBounded ==
    \A s \in shown :
        Cardinality({o \in opened : o.secret = s /\ o.late}) < Cardinality(Workers)

(* One request that dies half-way, of whatever kind and next to whatever   *)
(* others, never leaves an account with MFA enabled whose owner has        *)
(* neither been shown the stored secret nor a stored recovery code (which  *)
(* may be used up).                                                        *)
OneCrashIsSurvived ==
    (mfa_enabled /\ crashes <= 1 /\ \A w \in Workers : pc[w] = "idle")
        => \/ totp_secret \in shown
           \/ \E r \in recovery_codes : r.code \in told

(* Every confirmation comes to its end: the waits of the DELETE for other  *)
(* confirmations' rows, and of a recovery code for its row, are finite.    *)
Answered == \A w \in Workers : pc[w] # "idle" ~> pc[w] = "idle"

(* What the documentation says and the code does not do.                   *)

(* SECURITY.md: each recovery code is single-use.                          *)
SingleUse ==
    \A o, p \in opened : o.code = p.code /\ o.code # None => o = p

=============================================================================
