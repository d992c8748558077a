------------------------------ MODULE Accounts ------------------------------
(***************************************************************************)
(* The accounts and their passwords: the seeding of an administrator when  *)
(* a process boots (app/__init__.py, entrypoint.sh), registration, change  *)
(* of password and of account details (app/routes/auth.py), the password   *)
(* policy, history and expiry (app/security/password_validator.py).        *)
(*                                                                         *)
(* The entry point first runs one process that creates the tables and the  *)
(* administrator and then the gunicorn workers; each of them creates the   *)
(* application again, also when it is respawned after a crash. Workers     *)
(* handle requests over one database at READ COMMITTED; an action is one   *)
(* query or one commit. The UPDATE of a password holds its row of users    *)
(* until the commit, so history rows get their created_at in that order.   *)
(*                                                                         *)
(* A name stands for the username and the e-mail address, which are unique *)
(* in the same way. Hashes are left out: a row holds the password.         *)
(***************************************************************************)
EXTENDS Integers, FiniteSets, Sequences

CONSTANTS
    Workers,      \* the gunicorn worker processes
    Setup,        \* the process that entrypoint.sh runs before them
    Names,        \* usernames
    AdminName,    \* SEED_ADMIN_USERNAME
    Passwords,    \* passwords
    SeedPassword, \* SEED_ADMIN_PASSWORD
    Weak,         \* the passwords that break a length or character rule
    Breached,     \* the passwords Have I Been Pwned knows
    Common,       \* COMMON_PASSWORDS
    FailClosed,   \* BREACH_CHECK_FAIL_CLOSED
    HistorySize,  \* PASSWORD_HISTORY_SIZE
    None,         \* nothing
    MaxArrived,   \* bound: how many requests arrive
    MaxCrashes    \* bound: how often a worker dies

ASSUME WorkersAssumption == IsFiniteSet(Workers) /\ Workers # {} /\ Setup \notin Workers
ASSUME NamesAssumption == AdminName \in Names /\ None \notin Names
ASSUME PasswordsAssumption ==
    /\ SeedPassword \in Passwords /\ None \notin Passwords
    /\ Weak \subseteq Passwords /\ Common \subseteq Breached /\ Breached \subseteq Passwords
    /\ FailClosed \in BOOLEAN
ASSUME HistoryAssumption == HistorySize \in Nat \ {0}
ASSUME BoundsAssumption == MaxArrived \in Nat /\ MaxCrashes \in Nat

VARIABLES
    users,    \* the committed rows of users
    seq,      \* the id sequence of that table
    history,  \* password_history in the order of created_at
    tokens,   \* the accounts whose owner holds a token, access or refresh
    pc,       \* pc[p]: what process p does next
    req,      \* req[w]: what the handler of worker w keeps
    arrived,  \* how many requests have arrived
    crashes   \* how often a worker has died

vars == <<users, seq, history, tokens, pc, req, arrived, crashes>>

Processes == Workers \cup {Setup}

(* changes is history: how often the password has been changed. expired is *)
(* what is_password_expired says of password_changed_at.                   *)
User == [id: Nat \ {0}, username: Names, password: Passwords, changes: Nat,
         expired: BOOLEAN, is_admin: BOOLEAN]

(* proof is history: which of the account's passwords the request gave as  *)
(* its current one; -1 for the row that a registration writes.             *)
PasswordHistory == [user: Nat, password: Passwords, proof: Nat \cup {-1}]

Request == [user: Nat, username: Names \cup {None}, password: Passwords \cup {None}, proof: Nat]

NoRequest == [user |-> 0, username |-> None, password |-> None, proof |-> 0]

PCs == {"down", "seed", "failed", "ready", "insert", "reload", "remember", "recent", "change",
        "rename"}

Init ==
    /\ users = {} /\ seq = 0 /\ history = <<>> /\ tokens = {}
    /\ pc = [p \in Processes |-> "down"]
    /\ req = [w \in Workers |-> NoRequest]
    /\ arrived = 0 /\ crashes = 0

-----------------------------------------------------------------------------
Goto(p, step) == pc' = [pc EXCEPT ![p] = step]

Finish(w) == Goto(w, "ready") /\ req' = [req EXCEPT ![w] = NoRequest]

Accept(w, step, r) ==
    /\ pc[w] = "ready" /\ arrived < MaxArrived
    /\ arrived' = arrived + 1
    /\ Goto(w, step)
    /\ req' = [req EXCEPT ![w] = r]
    /\ UNCHANGED <<users, seq, history, tokens, crashes>>

Taken(n) == \E u \in users : u.username = n

NewUser(n, p, admin) == [id |-> seq + 1, username |-> n, password |-> p, changes |-> 0,
                         expired |-> FALSE, is_admin |-> admin]

-----------------------------------------------------------------------------
(* Booting.                                                                *)

(* Fault: the workers do not wait for the setup process.                   *)
BugMayBoot(p) == TRUE

(* entrypoint.sh, line by line.                                            *)
MayBoot(p) == p = Setup \/ pc[Setup] = "ready"

(* Fault: the account with the seeded name is looked for.                  *)
BugAdminExists == \E u \in users : u.username = AdminName

AdminExists == \E u \in users : u.is_admin

(* create_app: _seed_admin asks whether there is an administrator ...      *)
Boot(p) ==
    /\ pc[p] = "down" /\ MayBoot(p)
    /\ Goto(p, IF AdminExists THEN "ready" ELSE "seed")
    /\ UNCHANGED <<users, seq, history, tokens, req, arrived, crashes>>

(* ... and creates one, without a row in the password history. If its name *)
(* is taken by then the boot fails.                                        *)
Seed(p) ==
    /\ pc[p] = "seed"
    /\ seq' = seq + 1
    /\ \/ /\ ~Taken(AdminName)
          /\ users' = users \cup {NewUser(AdminName, SeedPassword, TRUE)}
          /\ Goto(p, "ready")
       \/ Taken(AdminName) /\ Goto(p, "failed") /\ UNCHANGED users
    /\ UNCHANGED <<history, tokens, req, arrived, crashes>>

-----------------------------------------------------------------------------
(* The password policy.                                                    *)

(* Fault: an unreachable service means that the password is not breached.  *)
BugAcceptable(p, reachable) == p \notin Weak /\ (reachable => p \notin Breached)

(* validate_password_strength: check_pwned asks the service, and when it   *)
(* cannot be reached the local list decides, or nothing passes.            *)
Acceptable(p, reachable) ==
    /\ p \notin Weak
    /\ IF reachable THEN p \notin Breached ELSE p \notin Common /\ ~FailClosed

(* The service may fail at any time.                                       *)
Validated == {p \in Passwords : \E reachable \in BOOLEAN : Acceptable(p, reachable)}

-----------------------------------------------------------------------------
(* POST /register: the name is free and the password passes, ...           *)
Register(w) ==
    \E n \in Names, p \in Validated :
        /\ ~Taken(n)
        /\ Accept(w, "insert", [NoRequest EXCEPT !.username = n, !.password = p])

(* ... the account is committed, unless the name is taken by now, ...      *)
InsertUser(w) ==
    /\ pc[w] = "insert"
    /\ seq' = seq + 1
    /\ \/ /\ ~Taken(req[w].username)
          /\ users' = users \cup {NewUser(req[w].username, req[w].password, FALSE)}
          /\ Goto(w, "reload")
          /\ req' = [req EXCEPT ![w] = [NoRequest EXCEPT !.user = seq + 1]]
       \/ Taken(req[w].username) /\ Finish(w) /\ UNCHANGED users
    /\ UNCHANGED <<history, tokens, arrived, crashes>>

(* ... its row is read again ...                                           *)
ReloadUser(w) ==
    /\ pc[w] = "reload"
    /\ \E u \in users :
          /\ u.id = req[w].user
          /\ req' = [req EXCEPT ![w].password = u.password]
    /\ Goto(w, "remember")
    /\ UNCHANGED <<users, seq, history, tokens, arrived, crashes>>

(* ... and its password remembered in a second transaction.                *)
RememberPassword(w) ==
    /\ pc[w] = "remember"
    /\ history' = Append(history, [user |-> req[w].user, password |-> req[w].password,
                                   proof |-> -1])
    /\ Finish(w)
    /\ UNCHANGED <<users, seq, tokens, arrived, crashes>>

-----------------------------------------------------------------------------
(* Fault: an expired password is accepted at the login.                    *)
BugLogin(u) ==
    /\ tokens' = tokens \cup {u.id}
    /\ UNCHANGED <<users, seq, history, pc, req, arrived, crashes>>

(* A login (module Lockout) with a password that has not expired; with an  *)
(* expired one it is answered 403 and gives no token.                      *)
Login(u) ==
    /\ ~u.expired
    /\ tokens' = tokens \cup {u.id}
    /\ UNCHANGED <<users, seq, history, pc, req, arrived, crashes>>

(* The last token of an account expires or is revoked.                     *)
LoseTokens(i) ==
    /\ tokens' = tokens \ {i}
    /\ UNCHANGED <<users, seq, history, pc, req, arrived, crashes>>

(* PASSWORD_EXPIRY_DAYS after the last change.                             *)
PasswordExpires(u) ==
    /\ ~u.expired
    /\ users' = (users \ {u}) \cup {[u EXCEPT !.expired = TRUE]}
    /\ UNCHANGED <<seq, history, tokens, pc, req, arrived, crashes>>

(* The passwords among the account's HistorySize newest rows.              *)
RowsOf(i) == {k \in 1..Len(history) : history[k].user = i}

Newer(k) == {j \in RowsOf(history[k].user) : j > k}

Recent(i) == {history[k].password : k \in {j \in RowsOf(i) : Cardinality(Newer(j)) < HistorySize}}

(* Fault: any password the account ever had is accepted as current one.    *)
BugChangePassword(w) ==
    \E u \in users, p \in Validated :
        /\ u.id \in tokens
        /\ \E k \in 0..u.changes :
              Accept(w, "recent", [NoRequest EXCEPT !.user = u.id, !.password = p, !.proof = k])

(* POST /change-password: the row is loaded, the current password compared *)
(* with it and the new one validated, ...                                  *)
ChangePassword(w) ==
    \E u \in users, p \in Validated :
        /\ u.id \in tokens
        /\ Accept(w, "recent",
                  [NoRequest EXCEPT !.user = u.id, !.password = p, !.proof = u.changes])

(* Fault: the history is not asked.                                        *)
BugReadRecent(w) ==
    /\ pc[w] = "recent"
    /\ Goto(w, "change")
    /\ UNCHANGED <<users, seq, history, tokens, req, arrived, crashes>>

(* ... the history is asked whether it was used lately, ...                *)
ReadRecent(w) ==
    /\ pc[w] = "recent"
    /\ \/ req[w].password \in Recent(req[w].user) /\ Finish(w)
       \/ req[w].password \notin Recent(req[w].user) /\ Goto(w, "change") /\ UNCHANGED req
    /\ UNCHANGED <<users, seq, history, tokens, arrived, crashes>>

Changed(u, p) == [u EXCEPT !.password = p, !.changes = @ + 1, !.expired = FALSE]

(* Fault: the new password is not written to the history.                  *)
BugCommitChange(w) ==
    /\ pc[w] = "change"
    /\ users' = {IF u.id = req[w].user THEN Changed(u, req[w].password) ELSE u : u \in users}
    /\ Finish(w)
    /\ UNCHANGED <<seq, history, tokens, arrived, crashes>>

(* ... and the account and its history are written together, whatever the  *)
(* password is by now.                                                     *)
CommitChange(w) ==
    /\ pc[w] = "change"
    /\ users' = {IF u.id = req[w].user THEN Changed(u, req[w].password) ELSE u : u \in users}
    /\ history' = Append(history, [user |-> req[w].user, password |-> req[w].password,
                                   proof |-> req[w].proof])
    /\ Finish(w)
    /\ UNCHANGED <<seq, tokens, arrived, crashes>>

-----------------------------------------------------------------------------
(* POST /update-account: the new name is free ...                          *)
UpdateAccount(w) ==
    \E u \in users, n \in Names :
        /\ u.id \in tokens /\ ~Taken(n)
        /\ Accept(w, "rename", [NoRequest EXCEPT !.user = u.id, !.username = n])

(* ... and is written, unless another account has taken it by now.         *)
Rename(w) ==
    /\ pc[w] = "rename"
    /\ \/ /\ ~Taken(req[w].username)
          /\ users' = {IF u.id = req[w].user THEN [u EXCEPT !.username = req[w].username] ELSE u
                       : u \in users}
       \/ Taken(req[w].username) /\ UNCHANGED users
    /\ Finish(w)
    /\ UNCHANGED <<seq, history, tokens, arrived, crashes>>

-----------------------------------------------------------------------------
(* A worker dies and gunicorn starts another in its place.                 *)
Crash(w) ==
    /\ pc[w] \notin {"down", "failed"} /\ crashes < MaxCrashes
    /\ crashes' = crashes + 1
    /\ Goto(w, "down") /\ req' = [req EXCEPT ![w] = NoRequest]
    /\ UNCHANGED <<users, seq, history, tokens, arrived>>

Outside ==
    \/ \E u \in users : Login(u) \/ PasswordExpires(u)
    \/ \E i \in tokens : LoseTokens(i)

Arrive(w) == Register(w) \/ ChangePassword(w) \/ UpdateAccount(w)

Continue(w) ==
    \/ InsertUser(w) \/ ReloadUser(w) \/ RememberPassword(w)
    \/ ReadRecent(w) \/ CommitChange(w) \/ Rename(w)

(* Nothing makes a client send a request, so the service may stand still.  *)
Next ==
    \/ \E p \in Processes : Boot(p) \/ Seed(p)
    \/ \E w \in Workers : Arrive(w) \/ Continue(w) \/ Crash(w)
    \/ Outside

Spec == Init /\ [][Next]_vars

-----------------------------------------------------------------------------
(* Properties.                                                             *)

(* Every variable keeps its type, and a request keeps the account it is    *)
(* about.                                                                  *)
TypeOK ==
    /\ users \subseteq User /\ seq \in Nat
    /\ \A u, v \in users : u.id = v.id => u = v
    /\ \A u \in users : u.id <= seq
    /\ history \in Seq(PasswordHistory)
    /\ tokens \subseteq {u.id : u \in users}
    /\ pc \in [Processes -> PCs] /\ req \in [Workers -> Request]
    /\ \A w \in Workers :
          /\ pc[w] \in {"insert", "rename"} => req[w].username \in Names
          /\ pc[w] \in {"insert", "remember", "recent", "change"} => req[w].password \in Passwords
          /\ pc[w] \in {"reload", "remember", "recent", "change", "rename"} =>
                \E u \in users : u.id = req[w].user
    /\ arrived \in Nat /\ crashes \in Nat

(* Registrations and renamings that all found a name free still end with   *)
(* one account of that name.                                               *)
NamesUnique == \A u, v \in users : u.username = v.username => u = v

(* There is one administrator, however often a worker is respawned and     *)
(* whatever the administrator calls itself by then.                        *)
OneAdmin == \A u, v \in users : u.is_admin /\ v.is_admin => u = v

(* No process finds its administrator created by another one between its   *)
(* question and its INSERT: the workers start after the setup process.     *)
NoBootFails == \A p \in Processes : pc[p] # "failed"

(* The rows of account i that were written on the proof of its k-th        *)
(* password.                                                               *)
ProvedBy(i, k) == {j \in RowsOf(i) : history[j].proof = k}

(* The current password is compared when the request starts and the new    *)
(* one committed seconds later, so a replaced password still changes the   *)
(* account, but for no more requests than there are workers.               *)
ProofsBounded ==
    \A u \in users : \A k \in 0..u.changes :
        Cardinality(ProvedBy(u.id, k)) <= Cardinality(Workers)

(* The rows of j's account in the window of HistorySize rows up to j that  *)
(* hold j's password.                                                      *)
Copies(j) == {k \in RowsOf(history[j].user) :
                /\ k <= j /\ history[k].password = history[j].password
                /\ Cardinality(Newer(k)) < Cardinality(Newer(j)) + HistorySize}

(* "Cannot reuse any of your last N passwords": racing changes may all set *)
(* the same password, but no more of them than there are workers, the      *)
(* registration that is still to write its row included.                   *)
CopiesBounded ==
    \A j \in 1..Len(history) : Cardinality(Copies(j)) <= Cardinality(Workers)

(* Whoever reads the history finds the current password in it, so it       *)
(* cannot be kept by "changing" to it. The exceptions are the seeded       *)
(* administrator and an account whose registration died between its two    *)
(* commits, until the first change.                                        *)
Remembered ==
    \A u \in users :
        \/ u.password \in Recent(u.id)
        \/ u.changes = 0 /\ (u.is_admin \/ crashes > 0)
        \/ \E w \in Workers : pc[w] \in {"reload", "remember"} /\ req[w].user = u.id

(* Whatever the outages of the breach service, no account but the seeded   *)
(* one has a password of the local list, and none has a breached one when  *)
(* the check fails closed.                                                 *)
Vetted ==
    \A u \in users : \/ u.is_admin /\ u.changes = 0
                     \/ u.password \notin Weak \cup (IF FailClosed THEN Breached ELSE Common)

(* The password of account i has expired, its owner holds no token and no  *)
(* request of his is running.                                              *)
LockedOut(i) ==
    /\ \E u \in users : u.id = i /\ u.expired
    /\ i \notin tokens
    /\ \A w \in Workers : pc[w] \in {"recent", "change"} => req[w].user # i

(* An owner who has let the password expire and holds no token is told to  *)
(* change it, but /change-password needs a token that /login denies him:   *)
(* without a security key he never gets in again.                          *)
DeadEnd == [][\A i \in 1..seq : LockedOut(i) => LockedOut(i)']_vars

=============================================================================
