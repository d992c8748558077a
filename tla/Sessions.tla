------------------------------ MODULE Sessions ------------------------------
(***************************************************************************)
(* Tokens and sessions: the JWTs of app/security/jwt_utils.py, the check   *)
(* of app/security/decorators.py, and the handlers of app/routes/auth.py   *)
(* that open, refresh, list and end sessions, over the tables sessions and *)
(* revoked_tokens of app/models.py.                                        *)
(*                                                                         *)
(* A request passes token_required first and reads, flushes and commits    *)
(* afterwards, so the token it was admitted with may be revoked before it  *)
(* is done. Workers share one PostgreSQL database at READ COMMITTED. An    *)
(* INSERT of a unique jti and an UPDATE of a session row hold their lock   *)
(* until the transaction ends: a second transaction waits, two that wait   *)
(* for each other are a deadlock of which the database aborts one, and an  *)
(* INSERT of a jti that has been committed meanwhile fails.                *)
(*                                                                         *)
(* The database's last_seen_at, ip_address and user_agent columns are only *)
(* displayed and are left out, as are the signing keys.                    *)
(***************************************************************************)
EXTENDS Integers, FiniteSets

CONSTANTS
    Users,      \* the accounts
    Workers,    \* the gunicorn worker processes
    Jtis,       \* the token ids; each is used for one token
    AccessTtl,  \* JWT_ACCESS_TOKEN_MINUTES
    RefreshTtl, \* JWT_REFRESH_TOKEN_DAYS
    None,       \* no value
    Horizon,    \* bound: the clock stops here
    MaxCrashes  \* bound: how many requests die half-way

ASSUME WorkersAssumption == IsFiniteSet(Workers)
ASSUME NoneAssumption == None \notin Jtis
ASSUME TtlAssumption == AccessTtl \in Nat \ {0} /\ RefreshTtl \in Nat \ {0}
ASSUME BoundsAssumption == Horizon \in Nat /\ MaxCrashes \in Nat

VARIABLES
    now,      \* the clock
    tokens,   \* the tokens signed so far
    held,     \* the jtis of the tokens clients were given
    sessions, \* the committed rows of sessions
    revoked,  \* the committed rows of revoked_tokens
    pc,       \* pc[w]: what worker w does next
    req,      \* req[w]: the request it is working on
    locks,    \* locks[w]: the row locks its transaction holds
    crashes,  \* how many requests have died half-way
    refused   \* history: sessions whose revocation a unique constraint refused

vars == <<now, tokens, held, sessions, revoked, pc, req, locks, crashes, refused>>

(* An access token carries no parent in the code: its session row names    *)
(* the refresh token. Here refresh is that token's jti, a refresh token's  *)
(* own for a refresh token.                                                *)
Token == [jti: Jtis, purpose: {"access", "refresh"}, user: Users, exp: Nat]

(* late is history: the row was committed after its refresh token had been *)
(* revoked.                                                                *)
Session == [user: Users, jti: Jtis, refresh_jti: Jtis, revoked: BOOLEAN, late: BOOLEAN]

RevokedToken == [jti: Jtis, expires_at: Nat]

(* What a handler keeps while it runs: the jtis of the session it opens or *)
(* ends, when a revocation of each expires, and whether its commit inserts *)
(* the refresh token's revocation.                                         *)
Request == [op: {"login", "refresh", "logout", "revoke"}, user: Users,
            access: Jtis \cup {None}, refresh: Jtis \cup {None},
            exp: Nat, refresh_exp: Nat, both: BOOLEAN]

PCs == {"idle", "mint", "create", "respond", "read", "flush", "check", "commit"}

Init ==
    /\ now = 0
    /\ tokens = {} /\ held = {} /\ sessions = {} /\ revoked = {}
    /\ pc = [w \in Workers |-> "idle"]
    /\ req = [w \in Workers |-> None]
    /\ locks = [w \in Workers |-> {}]
    /\ crashes = 0 /\ refused = {}

-----------------------------------------------------------------------------
Fresh(j) == j \in Jtis /\ \A t \in tokens : t.jti # j

Ttl(purpose) == IF purpose = "access" THEN AccessTtl ELSE RefreshTtl

(* _encode: sign a token now.                                              *)
NewToken(j, purpose, u) ==
    [jti |-> j, purpose |-> purpose, user |-> u, exp |-> now + Ttl(purpose)]

Revoked(j) == \E r \in revoked : r.jti = j

(* Fault: revocation is not checked.                                       *)
BugAdmits(t, purpose) == t.jti \in held /\ t.purpose = purpose /\ now < t.exp

(* token_required: the token is unexpired, of the right purpose and not    *)
(* revoked.                                                                *)
Admits(t, purpose) ==
    /\ t \in tokens /\ t.jti \in held
    /\ t.purpose = purpose /\ now < t.exp /\ ~Revoked(t.jti)

Goto(w, step) == pc' = [pc EXCEPT ![w] = step]

(* The request is over; what its transaction held is released.             *)
Finish(w) ==
    /\ Goto(w, "idle")
    /\ req' = [req EXCEPT ![w] = None]
    /\ locks' = [locks EXCEPT ![w] = {}]

Start(w, step, r) ==
    /\ pc[w] = "idle"
    /\ Goto(w, step)
    /\ req' = [req EXCEPT ![w] = r]
    /\ UNCHANGED <<held, sessions, revoked, locks, crashes, refused>>

-----------------------------------------------------------------------------
(* Opening a session.                                                      *)

(* The end of /login, /verify-mfa and /webauthn/login/complete: sign an    *)
(* access and a refresh token.                                             *)
Login(w, u) ==
    \E a, r \in Jtis :
        /\ Fresh(a) /\ Fresh(r) /\ a # r
        /\ tokens' = tokens \cup {NewToken(a, "access", u), NewToken(r, "refresh", u)}
        /\ Start(w, "create", [op |-> "login", user |-> u, access |-> a, refresh |-> r,
                               exp |-> 0, refresh_exp |-> 0, both |-> FALSE])
        /\ UNCHANGED now

(* POST /refresh is admitted.                                              *)
Refresh(w, t) ==
    /\ Admits(t, "refresh")
    /\ Start(w, "mint", [op |-> "refresh", user |-> t.user, access |-> None,
                         refresh |-> t.jti, exp |-> 0, refresh_exp |-> 0, both |-> FALSE])
    /\ UNCHANGED <<now, tokens>>

(* Its new access token is signed.                                         *)
Mint(w) ==
    /\ pc[w] = "mint"
    /\ \E a \in Jtis :
          /\ Fresh(a)
          /\ tokens' = tokens \cup {NewToken(a, "access", req[w].user)}
          /\ req' = [req EXCEPT ![w].access = a]
    /\ Goto(w, "create")
    /\ UNCHANGED <<now, held, sessions, revoked, locks, crashes, refused>>

(* Fault: the two jtis are passed in the wrong order.                      *)
BugCreateSession(w) ==
    /\ pc[w] = "create"
    /\ sessions' = sessions \cup
          {[user |-> req[w].user, jti |-> req[w].refresh, refresh_jti |-> req[w].access,
            revoked |-> FALSE, late |-> Revoked(req[w].access)]}
    /\ Goto(w, "respond")
    /\ UNCHANGED <<now, tokens, held, revoked, req, locks, crashes, refused>>

(* _create_session                                                         *)
CreateSession(w) ==
    /\ pc[w] = "create"
    /\ sessions' = sessions \cup
          {[user |-> req[w].user, jti |-> req[w].access, refresh_jti |-> req[w].refresh,
            revoked |-> FALSE, late |-> Revoked(req[w].refresh)]}
    /\ Goto(w, "respond")
    /\ UNCHANGED <<now, tokens, held, revoked, req, locks, crashes, refused>>

(* The client gets the tokens.                                             *)
Respond(w) ==
    /\ pc[w] = "respond"
    /\ held' = held \cup {req[w].access, req[w].refresh}
    /\ Finish(w)
    /\ UNCHANGED <<now, tokens, sessions, revoked, crashes, refused>>

-----------------------------------------------------------------------------
(* Ending a session.                                                       *)

(* POST /logout is admitted: it ends the token's own session and knows     *)
(* when the token expires.                                                 *)
Logout(w, t) ==
    /\ Admits(t, "access")
    /\ \E s \in sessions :
          /\ s.jti = t.jti
          /\ Start(w, "flush", [op |-> "logout", user |-> t.user, access |-> s.jti,
                                refresh |-> s.refresh_jti, exp |-> t.exp,
                                refresh_exp |-> 0, both |-> FALSE])
    /\ UNCHANGED <<now, tokens>>

(* POST /sessions/<id>/revoke is admitted, for any session of the account. *)
RevokeSession(w, t) ==
    /\ Admits(t, "access")
    /\ \E s \in sessions :
          /\ s.user = t.user
          /\ Start(w, "read", [op |-> "revoke", user |-> t.user, access |-> s.jti,
                               refresh |-> s.refresh_jti, exp |-> 0,
                               refresh_exp |-> 0, both |-> FALSE])
    /\ UNCHANGED <<now, tokens>>

(* A session that is already revoked is left alone.                        *)
ReadSession(w) ==
    /\ pc[w] = "read"
    /\ \/ /\ \E s \in sessions : s.jti = req[w].access /\ s.revoked
          /\ Finish(w)
       \/ /\ \E s \in sessions : s.jti = req[w].access /\ ~s.revoked
          /\ req' = [req EXCEPT ![w].exp = now + AccessTtl]
          /\ Goto(w, "flush")
          /\ UNCHANGED locks
    /\ UNCHANGED <<now, tokens, held, sessions, revoked, crashes, refused>>

(* Another transaction on the same session holds the lock.                 *)
Locked(w, lock) ==
    \E v \in Workers \ {w} : lock \in locks[v] /\ req[v].access = req[w].access

Take(w, lock) ==
    /\ lock \notin locks[w] /\ ~Locked(w, lock)
    /\ locks' = [locks EXCEPT ![w] = @ \cup {lock}]
    /\ Goto(w, IF locks[w] = {} THEN "flush" ELSE "check")
    /\ UNCHANGED <<now, tokens, held, sessions, revoked, req, crashes, refused>>

(* The INSERT into revoked_tokens is flushed ...                           *)
InsertRevoked(w) ==
    /\ pc[w] = "flush" /\ ~Revoked(req[w].access)
    /\ Take(w, "revoked_tokens")

(* ... and the UPDATE of the session row: in logout at a later query, in   *)
(* revoke_session in the same flush, in either order.                      *)
UpdateSession(w) ==
    /\ pc[w] = "flush"
    /\ req[w].op = "logout" => "revoked_tokens" \in locks[w]
    /\ Take(w, "sessions")

(* The INSERT violates the unique constraint: the transaction rolls back   *)
(* and the request fails.                                                  *)
Refuse(w) ==
    /\ refused' = refused \cup {req[w].access}
    /\ Finish(w)
    /\ UNCHANGED <<now, tokens, held, sessions, revoked, crashes>>

RefuseInsert(w) ==
    /\ pc[w] = "flush" /\ "revoked_tokens" \notin locks[w]
    /\ Revoked(req[w].access) /\ ~Locked(w, "revoked_tokens")
    /\ Refuse(w)

(* Fault: nobody breaks the tie.                                           *)
BugDeadlock(w) == FALSE

(* Two transactions hold what the other waits for: one is aborted.         *)
Deadlock(w) ==
    /\ \E v \in Workers \ {w} :
          /\ pc[v] = "flush" /\ pc[w] = "flush" /\ req[v].access = req[w].access
          /\ \/ locks[v] = {"sessions"} /\ locks[w] = {"revoked_tokens"}
             \/ locks[v] = {"revoked_tokens"} /\ locks[w] = {"sessions"}
    /\ Finish(w)
    /\ UNCHANGED <<now, tokens, held, sessions, revoked, crashes, refused>>

(* _revoke_refresh_jti: is the refresh token in revoked_tokens already?    *)
ReadRefresh(w) ==
    /\ pc[w] = "check"
    /\ req' = [req EXCEPT ![w].both = ~Revoked(req[w].refresh),
                          ![w].refresh_exp = now + RefreshTtl]
    /\ Goto(w, "commit")
    /\ UNCHANGED <<now, tokens, held, sessions, revoked, locks, crashes, refused>>

(* Fault: the sibling sessions are marked, though their tokens still work. *)
BugMarkRevoked(j) ==
    LET ended == {s.refresh_jti : s \in {t \in sessions : t.jti = j}}
    IN  sessions' = {[s EXCEPT !.revoked = @ \/ s.refresh_jti \in ended] : s \in sessions}

Ended(s, j) == [s EXCEPT !.revoked = @ \/ s.jti = j]

MarkRevoked(j) == sessions' = {Ended(s, j) : s \in sessions}

(* Fault: only the access token is revoked, as before refresh_jti.         *)
BugCommit(w) ==
    /\ pc[w] = "commit"
    /\ revoked' = revoked \cup {[jti |-> req[w].access, expires_at |-> req[w].exp]}
    /\ MarkRevoked(req[w].access)
    /\ Finish(w)
    /\ UNCHANGED <<now, tokens, held, crashes, refused>>

(* The commit writes the session and both revocations at once, ...         *)
Commit(w) ==
    /\ pc[w] = "commit" /\ ~(req[w].both /\ Revoked(req[w].refresh))
    /\ revoked' = revoked \cup {[jti |-> req[w].access, expires_at |-> req[w].exp]}
                  \cup (IF req[w].both
                        THEN {[jti |-> req[w].refresh, expires_at |-> req[w].refresh_exp]}
                        ELSE {})
    /\ MarkRevoked(req[w].access)
    /\ Finish(w)
    /\ UNCHANGED <<now, tokens, held, crashes, refused>>

(* ... or nothing, when another session with the same refresh token was    *)
(* ended since the query.                                                  *)
RefuseCommit(w) ==
    /\ pc[w] = "commit" /\ req[w].both /\ Revoked(req[w].refresh)
    /\ Refuse(w)

-----------------------------------------------------------------------------
(* The worker dies or loses its database connection: its transaction is    *)
(* rolled back.                                                            *)
Crash(w) ==
    /\ pc[w] # "idle" /\ crashes < MaxCrashes
    /\ crashes' = crashes + 1
    /\ Finish(w)
    /\ UNCHANGED <<now, tokens, held, sessions, revoked, refused>>

Tick ==
    /\ now < Horizon
    /\ now' = now + 1
    /\ UNCHANGED <<tokens, held, sessions, revoked, pc, req, locks, crashes, refused>>

(* The bounded run is over (a refresh may be left without a token id).     *)
Over == now >= Horizon /\ UNCHANGED vars

Lock(w) == InsertRevoked(w) \/ UpdateSession(w) \/ RefuseInsert(w)

Continue(w) ==
    \/ Mint(w) \/ CreateSession(w) \/ Respond(w)
    \/ ReadSession(w) \/ Lock(w) \/ Deadlock(w)
    \/ ReadRefresh(w) \/ Commit(w) \/ RefuseCommit(w)

Arrive(w) ==
    \/ \E u \in Users : Login(w, u)
    \/ \E t \in tokens : Refresh(w, t) \/ Logout(w, t) \/ RevokeSession(w, t)

Next ==
    \/ \E w \in Workers : Arrive(w) \/ Continue(w) \/ Crash(w)
    \/ Tick
    \/ Over

(* A request that has started is carried on; the database grants locks in  *)
(* the order they are asked for, so none is passed over for ever.          *)
Fairness == \A w \in Workers : WF_vars(Continue(w)) /\ SF_vars(Lock(w))

Spec == Init /\ [][Next]_vars /\ Fairness

-----------------------------------------------------------------------------
(* Properties.                                                             *)

(* Every variable keeps its type; a jti names one token, one session and   *)
(* one revocation; a busy worker has the jtis its next step uses.          *)
TypeOK ==
    /\ now \in Nat /\ crashes \in Nat
    /\ tokens \subseteq Token /\ held \subseteq Jtis /\ refused \subseteq Jtis
    /\ sessions \subseteq Session /\ revoked \subseteq RevokedToken
    /\ \A s, t \in tokens : s.jti = t.jti => s = t
    /\ \A s, t \in sessions : s.jti = t.jti => s = t
    /\ \A r, q \in revoked : r.jti = q.jti => r = q
    /\ pc \in [Workers -> PCs]
    /\ req \in [Workers -> Request \cup {None}]
    /\ locks \in [Workers -> SUBSET {"revoked_tokens", "sessions"}]
    /\ \A w \in Workers : pc[w] # "idle" =>
          /\ req[w] \in Request /\ req[w].refresh \in Jtis
          /\ pc[w] # "mint" => req[w].access \in Jtis

(* A session is marked revoked exactly when its access token is revoked,   *)
(* and then its refresh token is revoked too: "both its access and refresh *)
(* jti at once", whatever requests end the same or sibling sessions        *)
(* meanwhile and whichever of them fail.                                   *)
EndedTogether ==
    \A s \in sessions :
        (s.revoked <=> Revoked(s.jti)) /\ (s.revoked => Revoked(s.refresh_jti))

(* The sessions that a refresh admitted earlier opens after its refresh    *)
(* token was revoked are at most one per further worker: nothing lets a    *)
(* client go on refreshing after a logout.                                 *)
LateSessionsBounded ==
    \A r \in revoked :
        Cardinality({s \in sessions : s.refresh_jti = r.jti /\ s.late})
            < Cardinality(Workers)

(* Every access token a client can use shows up in the account's session   *)
(* list, where it can be ended.                                            *)
LiveTokensListed ==
    \A t \in tokens : Admits(t, "access") =>
        \E s \in sessions : s.jti = t.jti /\ s.user = t.user /\ ~s.revoked

(* A logout or revocation refused by the unique constraint does no harm:   *)
(* the session it was to end cannot be refreshed any more.                 *)
RefusedIsHarmless ==
    \A s \in sessions : s.jti \in refused => Revoked(s.refresh_jti)

(* No request waits for ever for another one's locks.                      *)
Answered == \A w \in Workers : pc[w] \notin {"idle", "mint"} ~> pc[w] = "idle"

-----------------------------------------------------------------------------
(* Refinement.                                                             *)

PairOf(s) == [access |-> s.jti, refresh |-> s.refresh_jti]

(* The committed rows, seen as TokenFamilies: a worker too few to open     *)
(* another late session is the one that has revoked the refresh token.     *)
Families ==
    INSTANCE TokenFamilies WITH
        Slack  <- Cardinality(Workers) - 1,
        opened <- {PairOf(s) : s \in sessions},
        ended  <- {r.jti : r \in revoked},
        late   <- {PairOf(s) : s \in {t \in sessions : t.late}}

(* Seen from the database, every interleaving of requests is a sequence of *)
(* sessions that open with an access token of their own and end with both  *)
(* their tokens in one step: waiting, refusals, deadlocks and crashes      *)
(* change nothing, and only a commit of logout or revoke_session ends a    *)
(* token.                                                                  *)
ImplementsFamilies == Families!FamilySpec

-----------------------------------------------------------------------------
(* What the documentation says and the code does not do.                   *)

(* SECURITY.md: a token stops working the moment it is revoked.            *)
NothingLate == \A s \in sessions : ~s.late

=============================================================================
