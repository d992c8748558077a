--------------------------- MODULE SessionsProofs ---------------------------
(***************************************************************************)
(* Theorems about Sessions, for every set of accounts and token ids and    *)
(* every finite set of workers.                                            *)
(*                                                                         *)
(* The argument: a session row's jti is an access token's and its          *)
(* refresh_jti a refresh token's, so revoking a refresh token touches no   *)
(* other session's access token (Linked); a request on its way to opening  *)
(* a session was admitted before its refresh token was revoked, and the    *)
(* worker that revokes it is not on that way (LateBound); a token reaches  *)
(* its client after the row of its session was committed (Listed).         *)
(***************************************************************************)
EXTENDS Sessions, TLAPS, FiniteSetTheorems

USE DEF Goto, Finish

-----------------------------------------------------------------------------
(* The inductive invariant.                                                *)

IsAccess(j) == \E t \in tokens : t.jti = j /\ t.purpose = "access"
IsRefresh(j) == \E t \in tokens : t.jti = j /\ t.purpose = "refresh"

Opens == {"mint", "create"}
Closes == {"read", "flush", "check", "commit"}

(* What the jtis of rows and of requests refer to.                         *)
Linked ==
    /\ \A s \in sessions : IsAccess(s.jti) /\ IsRefresh(s.refresh_jti)
    /\ \A j : Revoked(j) => IsRefresh(j) \/ \E s \in sessions : s.jti = j
    /\ \A w \in Workers : pc[w] \in Opens => IsRefresh(req[w].refresh)
    /\ \A w \in Workers : pc[w] = "create" =>
          IsAccess(req[w].access) /\ \A s \in sessions : s.jti # req[w].access
    /\ \A v, w \in Workers :
          v # w /\ pc[v] = "create" /\ pc[w] = "create" => req[v].access # req[w].access
    /\ \A w \in Workers : pc[w] \in Closes =>
          \E s \in sessions : s.jti = req[w].access /\ s.refresh_jti = req[w].refresh
    /\ \A w \in Workers : pc[w] = "commit" /\ ~req[w].both => Revoked(req[w].refresh)

(* The unique index lets one transaction at a time revoke an access token, *)
(* and only while it is not revoked.                                       *)
Exclusive ==
    /\ \A w \in Workers : locks[w] # {} => pc[w] \in {"flush", "check", "commit"}
    /\ \A w \in Workers : pc[w] \in {"check", "commit"} => "revoked_tokens" \in locks[w]
    /\ \A w \in Workers : "revoked_tokens" \in locks[w] => ~Revoked(req[w].access)
    /\ \A v, w \in Workers :
          v # w /\ "revoked_tokens" \in locks[v] /\ "revoked_tokens" \in locks[w]
            => req[v].access # req[w].access

Late(j) == {s \in sessions : s.refresh_jti = j /\ s.late}

(* The workers on their way to a new session of refresh token j.           *)
Opening(j) == {w \in Workers : pc[w] \in Opens /\ req[w].refresh = j}

(* One worker revoked j, the others may still be opening sessions with it. *)
LateBound ==
    /\ IsFiniteSet(sessions)
    /\ \A s \in sessions : s.late => Revoked(s.refresh_jti)
    /\ \A j : Revoked(j) =>
          Cardinality(Late(j)) + Cardinality(Opening(j)) < Cardinality(Workers)

IInv == TypeOK /\ Linked /\ Exclusive /\ EndedTogether /\ LateBound

-----------------------------------------------------------------------------
(* Type correctness.                                                       *)

(* Signed tokens are tokens.                                               *)
LEMMA NewTokenType ==
  ASSUME NEW j \in Jtis, NEW p \in {"access", "refresh"}, NEW u \in Users, now \in Nat
  PROVE  NewToken(j, p, u) \in Token /\ NewToken(j, p, u).jti = j
  BY TtlAssumption DEF NewToken, Token, Ttl

(* A request that is admitted takes over the worker.                       *)
LEMMA StartType ==
  ASSUME TypeOK, NEW w \in Workers, NEW step \in PCs, NEW r \in Request,
         r.refresh \in Jtis, step # "mint" => r.access \in Jtis, Start(w, step, r)
  PROVE  /\ pc' \in [Workers -> PCs] /\ req' \in [Workers -> Request \cup {None}]
         /\ UNCHANGED <<held, sessions, revoked, locks, crashes, refused>>
         /\ \A v \in Workers : pc'[v] # "idle" =>
               /\ req'[v] \in Request /\ req'[v].refresh \in Jtis
               /\ pc'[v] # "mint" => req'[v].access \in Jtis
  BY DEF TypeOK, Start

(* The end of a request leaves the other workers' requests alone.          *)
LEMMA FinishType ==
  ASSUME TypeOK, NEW w \in Workers, Finish(w)
  PROVE  /\ pc' \in [Workers -> PCs] /\ req' \in [Workers -> Request \cup {None}]
         /\ locks' \in [Workers -> SUBSET {"revoked_tokens", "sessions"}]
         /\ \A v \in Workers : pc'[v] # "idle" =>
               /\ req'[v] \in Request /\ req'[v].refresh \in Jtis
               /\ pc'[v] # "mint" => req'[v].access \in Jtis
  BY DEF TypeOK, PCs

(* New tokens are of the right type and keep jtis unique.                  *)
LEMMA LoginType ==
  ASSUME TypeOK, NEW w \in Workers, NEW u \in Users, Login(w, u)
  PROVE  TypeOK'
<1>1. PICK a \in Jtis, r \in Jtis :
        /\ Fresh(a) /\ Fresh(r) /\ a # r
        /\ tokens' = tokens \cup {NewToken(a, "access", u), NewToken(r, "refresh", u)}
        /\ Start(w, "create", [op |-> "login", user |-> u, access |-> a, refresh |-> r,
                               exp |-> 0, refresh_exp |-> 0, both |-> FALSE])
        /\ UNCHANGED now
  BY DEF Login
<1>2. /\ NewToken(a, "access", u) \in Token /\ NewToken(a, "access", u).jti = a
      /\ NewToken(r, "refresh", u) \in Token /\ NewToken(r, "refresh", u).jti = r
  BY NewTokenType DEF TypeOK
<1>3. tokens' \subseteq Token /\ \A s, t \in tokens' : s.jti = t.jti => s = t
  BY <1>1, <1>2 DEF TypeOK, Fresh
<1> DEFINE q == [op |-> "login", user |-> u, access |-> a, refresh |-> r,
                 exp |-> 0, refresh_exp |-> 0, both |-> FALSE]
<1>4. q \in Request /\ q.refresh \in Jtis /\ q.access \in Jtis
  BY DEF Request
<1> HIDE DEF q
<1>5. Start(w, "create", q)
  BY <1>1 DEF q
<1>6. "create" \in PCs
  BY DEF PCs
<1>7. /\ pc' \in [Workers -> PCs] /\ req' \in [Workers -> Request \cup {None}]
      /\ UNCHANGED <<held, sessions, revoked, locks, crashes, refused>>
      /\ \A v \in Workers : pc'[v] # "idle" =>
            /\ req'[v] \in Request /\ req'[v].refresh \in Jtis
            /\ pc'[v] # "mint" => req'[v].access \in Jtis
  BY <1>4, <1>5, <1>6, StartType
<1> QED BY <1>1, <1>3, <1>7 DEF TypeOK

(* The other requests only read when they are admitted.                    *)
LEMMA ArriveType ==
  ASSUME TypeOK, NEW w \in Workers, NEW t \in tokens,
         Refresh(w, t) \/ Logout(w, t) \/ RevokeSession(w, t)
  PROVE  TypeOK'
<1>1. t \in Token
  BY DEF TypeOK
<1>2. PICK step \in {"mint", "flush", "read"}, q \in Request :
         /\ q.refresh \in Jtis /\ (step # "mint" => q.access \in Jtis)
         /\ Start(w, step, q)
         /\ UNCHANGED <<now, tokens>>
  <2>1. CASE Refresh(w, t)
    <3>1. [op |-> "refresh", user |-> t.user, access |-> None, refresh |-> t.jti,
           exp |-> 0, refresh_exp |-> 0, both |-> FALSE] \in Request
      BY <1>1 DEF Token, Request
    <3> QED BY <1>1, <2>1, <3>1 DEF Refresh, Token
  <2>2. CASE Logout(w, t)
    <3>1. PICK s \in sessions : Start(w, "flush",
             [op |-> "logout", user |-> t.user, access |-> s.jti, refresh |-> s.refresh_jti,
              exp |-> t.exp, refresh_exp |-> 0, both |-> FALSE])
      BY <2>2 DEF Logout
    <3>2. s.jti \in Jtis /\ s.refresh_jti \in Jtis
      BY DEF TypeOK, Session
    <3>3. [op |-> "logout", user |-> t.user, access |-> s.jti, refresh |-> s.refresh_jti,
           exp |-> t.exp, refresh_exp |-> 0, both |-> FALSE] \in Request
      BY <1>1, <3>2 DEF Token, Request
    <3> QED BY <2>2, <3>1, <3>2, <3>3 DEF Logout
  <2>3. CASE RevokeSession(w, t)
    <3>1. PICK s \in sessions : Start(w, "read",
             [op |-> "revoke", user |-> t.user, access |-> s.jti, refresh |-> s.refresh_jti,
              exp |-> 0, refresh_exp |-> 0, both |-> FALSE])
      BY <2>3 DEF RevokeSession
    <3>2. s.jti \in Jtis /\ s.refresh_jti \in Jtis
      BY DEF TypeOK, Session
    <3>3. [op |-> "revoke", user |-> t.user, access |-> s.jti, refresh |-> s.refresh_jti,
           exp |-> 0, refresh_exp |-> 0, both |-> FALSE] \in Request
      BY <1>1, <3>2 DEF Token, Request
    <3> QED BY <2>3, <3>1, <3>2, <3>3 DEF RevokeSession
  <2> QED BY <2>1, <2>2, <2>3
<1>3. step \in PCs
  BY DEF PCs
<1>4. /\ pc' \in [Workers -> PCs] /\ req' \in [Workers -> Request \cup {None}]
      /\ UNCHANGED <<held, sessions, revoked, locks, crashes, refused>>
      /\ \A v \in Workers : pc'[v] # "idle" =>
            /\ req'[v] \in Request /\ req'[v].refresh \in Jtis
            /\ pc'[v] # "mint" => req'[v].access \in Jtis
  BY <1>2, <1>3, StartType
<1> QED BY <1>2, <1>4 DEF TypeOK

(* The steps of a request that opens a session.                            *)
LEMMA OpenType ==
  ASSUME TypeOK, NEW w \in Workers, Mint(w) \/ CreateSession(w) \/ Respond(w),
         \A s \in sessions : pc[w] = "create" => s.jti # req[w].access
  PROVE  TypeOK'
<1>1. CASE Mint(w)
  <2>1. PICK a \in Jtis :
          /\ Fresh(a) /\ tokens' = tokens \cup {NewToken(a, "access", req[w].user)}
          /\ req' = [req EXCEPT ![w].access = a]
    BY <1>1 DEF Mint
  <2>2. req[w] \in Request /\ pc[w] = "mint"
    BY <1>1 DEF Mint, TypeOK
  <2>3. /\ NewToken(a, "access", req[w].user) \in Token
        /\ NewToken(a, "access", req[w].user).jti = a
    BY <2>2, NewTokenType DEF TypeOK, Request
  <2>4. tokens' \subseteq Token /\ \A t, u \in tokens' : t.jti = u.jti => t = u
    BY <2>1, <2>3 DEF TypeOK, Fresh
  <2>5. PICK q : q = [req[w] EXCEPT !.access = a]
    OBVIOUS
  <2>6. q \in Request /\ q.refresh = req[w].refresh /\ q.access = a
    BY <2>2, <2>5 DEF Request
  <2>7. req' = [req EXCEPT ![w] = q]
    BY <2>1, <2>5
  <2>8. req' \in [Workers -> Request \cup {None}] /\ pc' \in [Workers -> PCs]
    BY <1>1, <2>6, <2>7 DEF TypeOK, Mint, PCs
  <2>9. \A v \in Workers : pc'[v] # "idle" =>
               /\ req'[v] \in Request /\ req'[v].refresh \in Jtis
               /\ pc'[v] # "mint" => req'[v].access \in Jtis
    BY <1>1, <2>2, <2>6, <2>7 DEF TypeOK, Mint
  <2> QED BY <1>1, <2>4, <2>8, <2>9 DEF TypeOK, Mint
<1>2. CASE CreateSession(w)
  <2> DEFINE s == [user |-> req[w].user, jti |-> req[w].access,
                   refresh_jti |-> req[w].refresh, revoked |-> FALSE,
                   late |-> Revoked(req[w].refresh)]
  <2>1. /\ pc[w] = "create" /\ sessions' = sessions \cup {s}
        /\ pc' = [pc EXCEPT ![w] = "respond"]
        /\ UNCHANGED <<now, tokens, held, revoked, req, locks, crashes, refused>>
    BY <1>2 DEF CreateSession
  <2>2. s \in Session
    <3>1. req[w] \in Request /\ req[w].access \in Jtis /\ req[w].refresh \in Jtis
      BY <2>1 DEF TypeOK
    <3>2. Revoked(req[w].refresh) \in BOOLEAN
      BY DEF Revoked
    <3> QED BY <3>1, <3>2 DEF Session, Request
  <2>3. s.jti = req[w].access
    OBVIOUS
  <2> HIDE DEF s
  <2>4. sessions' \subseteq Session /\ \A t, u \in sessions' : t.jti = u.jti => t = u
    BY <2>1, <2>2, <2>3 DEF TypeOK
  <2> QED BY <2>1, <2>4 DEF TypeOK, PCs
<1>3. CASE Respond(w)
  <2>1. held' \subseteq Jtis
    BY <1>3 DEF Respond, TypeOK
  <2> QED BY <1>3, <2>1, FinishType DEF Respond, TypeOK
<1> QED BY <1>1, <1>2, <1>3

(* A session that is marked stays the same session.                        *)
LEMMA EndedType ==
  ASSUME NEW j, NEW s \in Session
  PROVE  /\ Ended(s, j) \in Session /\ Ended(s, j).jti = s.jti
         /\ Ended(s, j).refresh_jti = s.refresh_jti /\ Ended(s, j).late = s.late
         /\ (Ended(s, j).revoked <=> s.revoked \/ s.jti = j)
<1>1. PICK b \in BOOLEAN : b = (s.revoked \/ s.jti = j)
  OBVIOUS
<1>2. Ended(s, j) = [s EXCEPT !.revoked = b]
  BY <1>1 DEF Ended
<1> QED BY <1>1, <1>2 DEF Session

(* The steps of a request that ends a session.                             *)
LEMMA CloseType ==
  ASSUME TypeOK, NEW w \in Workers,
         ReadSession(w) \/ InsertRevoked(w) \/ UpdateSession(w) \/ RefuseInsert(w)
           \/ Deadlock(w) \/ ReadRefresh(w) \/ RefuseCommit(w)
  PROVE  TypeOK'
<1>1. CASE ReadSession(w)
  <2>1. CASE Finish(w) /\ UNCHANGED <<now, tokens, held, sessions, revoked, crashes, refused>>
    BY <2>1, FinishType DEF TypeOK
  <2>2. CASE /\ pc[w] = "read" /\ req' = [req EXCEPT ![w].exp = now + AccessTtl]
             /\ pc' = [pc EXCEPT ![w] = "flush"]
             /\ UNCHANGED <<now, tokens, held, sessions, revoked, locks, crashes, refused>>
    <3>1. now + AccessTtl \in Nat /\ req[w] \in Request
      BY <2>2, TtlAssumption DEF TypeOK
    <3>2. PICK q : q = [req[w] EXCEPT !.exp = now + AccessTtl]
      OBVIOUS
    <3>3. q \in Request /\ q.refresh = req[w].refresh /\ q.access = req[w].access
      BY <3>1, <3>2 DEF Request
    <3>4. req' = [req EXCEPT ![w] = q]
      BY <2>2, <3>2
    <3> QED BY <2>2, <3>3, <3>4 DEF TypeOK, PCs
  <2> QED BY <1>1, <2>1, <2>2 DEF ReadSession
<1>2. CASE InsertRevoked(w) \/ UpdateSession(w)
  <2>1. PICK lock \in {"revoked_tokens", "sessions"} : pc[w] = "flush" /\ Take(w, lock)
    BY <1>2 DEF InsertRevoked, UpdateSession
  <2>2. locks' \in [Workers -> SUBSET {"revoked_tokens", "sessions"}]
    BY <2>1 DEF Take, TypeOK
  <2>3. PICK step \in {"flush", "check"} : pc' = [pc EXCEPT ![w] = step]
    BY <2>1 DEF Take
  <2> QED BY <2>1, <2>2, <2>3 DEF Take, TypeOK, PCs
<1>3. CASE RefuseInsert(w) \/ RefuseCommit(w)
  <2>1. pc[w] # "idle" /\ Refuse(w)
    BY <1>3 DEF RefuseInsert, RefuseCommit
  <2>2. refused' \subseteq Jtis
    BY <1>3, <2>1 DEF Refuse, TypeOK, RefuseInsert, RefuseCommit
  <2> QED BY <2>1, <2>2, FinishType DEF Refuse, TypeOK
<1>4. CASE Deadlock(w)
  BY <1>4, FinishType DEF Deadlock, TypeOK
<1>5. CASE ReadRefresh(w)
  <2>1. now + RefreshTtl \in Nat /\ req[w] \in Request
    BY <1>5, TtlAssumption DEF TypeOK, ReadRefresh
  <2>2. PICK b \in BOOLEAN : b = ~Revoked(req[w].refresh)
    BY DEF Revoked
  <2>3. PICK q : q = [req[w] EXCEPT !.both = b, !.refresh_exp = now + RefreshTtl]
    OBVIOUS
  <2>4. q \in Request /\ q.refresh = req[w].refresh /\ q.access = req[w].access
    BY <2>1, <2>3 DEF Request
  <2>5. req' = [req EXCEPT ![w] = q]
    BY <1>5, <2>2, <2>3 DEF ReadRefresh, TypeOK
  <2>6. pc[w] = "check" /\ pc' = [pc EXCEPT ![w] = "commit"]
        /\ UNCHANGED <<now, tokens, held, sessions, revoked, locks, crashes, refused>>
    BY <1>5 DEF ReadRefresh
  <2> QED BY <2>4, <2>5, <2>6 DEF TypeOK, PCs
<1> QED BY <1>1, <1>2, <1>3, <1>4, <1>5

(* What a commit adds to revoked_tokens and what it makes of the sessions. *)
LEMMA CommitEffect ==
  ASSUME TypeOK, NEW w \in Workers, Commit(w)
  PROVE  /\ \A j : Revoked(j)' <=>
                \/ Revoked(j)
                \/ j = req[w].access
                \/ req[w].both /\ j = req[w].refresh
         /\ \A s \in sessions : \E m \in sessions' :
                /\ m.jti = s.jti /\ m.refresh_jti = s.refresh_jti /\ m.late = s.late
                /\ (m.revoked <=> s.revoked \/ s.jti = req[w].access)
         /\ \A m \in sessions' : m \in Session /\ \E s \in sessions :
                /\ m.jti = s.jti /\ m.refresh_jti = s.refresh_jti /\ m.late = s.late
                /\ (m.revoked <=> s.revoked \/ s.jti = req[w].access)
<1>1. PICK x, y :
         /\ x.jti = req[w].access /\ y.jti = req[w].refresh
         /\ revoked' = revoked \cup {x} \cup (IF req[w].both THEN {y} ELSE {})
  <2>1. [jti |-> req[w].access, expires_at |-> req[w].exp].jti = req[w].access
    OBVIOUS
  <2>2. [jti |-> req[w].refresh, expires_at |-> req[w].refresh_exp].jti = req[w].refresh
    OBVIOUS
  <2> QED BY <2>1, <2>2 DEF Commit
<1>2. \A j : Revoked(j)' <=>
         \/ Revoked(j)
         \/ j = req[w].access
         \/ req[w].both /\ j = req[w].refresh
  <2>1. CASE req[w].both
    BY <1>1, <2>1 DEF Revoked
  <2>2. CASE ~req[w].both
    BY <1>1, <2>2 DEF Revoked
  <2> QED BY <2>1, <2>2
<1>3. sessions' = {Ended(s, req[w].access) : s \in sessions}
  BY DEF Commit, MarkRevoked
<1>4. \A s \in sessions : LET m == Ended(s, req[w].access) IN
         /\ m \in Session /\ m.jti = s.jti /\ m.refresh_jti = s.refresh_jti
         /\ m.late = s.late /\ (m.revoked <=> s.revoked \/ s.jti = req[w].access)
  BY EndedType DEF TypeOK
<1> QED BY <1>2, <1>3, <1>4

-----------------------------------------------------------------------------
(* Counting.                                                               *)

(* The sets the bound counts are finite.                                   *)
LEMMA Finite ==
  ASSUME LateBound, NEW j
  PROVE  /\ IsFiniteSet(Late(j)) /\ IsFiniteSet(Opening(j))
         /\ Cardinality(Late(j)) \in Nat /\ Cardinality(Opening(j)) \in Nat
         /\ Cardinality(Workers) \in Nat
<1>1. Late(j) \subseteq sessions /\ Opening(j) \subseteq Workers
  BY DEF Late, Opening
<1> QED BY <1>1, WorkersAssumption, FS_Subset, FS_CardinalityType DEF LateBound

(* A step that revokes nothing and lets nobody in keeps the bound.         *)
LEMMA BoundKept ==
  ASSUME LateBound, IsFiniteSet(sessions'),
         \A s \in sessions' : s.late => Revoked(s.refresh_jti)',
         \A j : Revoked(j)' => Revoked(j),
         \A j : Revoked(j) => Late(j)' = Late(j) /\ Opening(j)' \subseteq Opening(j)
  PROVE  LateBound'
<1> SUFFICES ASSUME NEW j, Revoked(j)'
             PROVE  Cardinality(Late(j))' + Cardinality(Opening(j))' < Cardinality(Workers)
  BY DEF LateBound
<1>1. Cardinality(Late(j)) + Cardinality(Opening(j)) < Cardinality(Workers)
  BY DEF LateBound
<1>2. Late(j)' = Late(j) /\ Opening(j)' \subseteq Opening(j)
  OBVIOUS
<1>3. /\ Cardinality(Opening(j)') <= Cardinality(Opening(j))
      /\ Cardinality(Opening(j)') \in Nat
  BY <1>2, Finite, FS_Subset, FS_CardinalityType
<1> QED BY <1>1, <1>2, <1>3, Finite

-----------------------------------------------------------------------------
(* Each step keeps the invariant.                                          *)

(* A token has one purpose.                                                *)
LEMMA OnePurpose == TypeOK => \A j : ~(IsAccess(j) /\ IsRefresh(j))
  BY DEF TypeOK, IsAccess, IsRefresh

(* A request that ends without a commit.                                   *)
LEMMA FinishInv ==
  ASSUME IInv, NEW w \in Workers, Finish(w), UNCHANGED <<tokens, sessions, revoked>>
  PROVE  Linked' /\ Exclusive' /\ EndedTogether' /\ LateBound'
<1> USE DEF IInv
<1>1. \A j : (IsAccess(j)' <=> IsAccess(j)) /\ (IsRefresh(j)' <=> IsRefresh(j))
              /\ (Revoked(j)' <=> Revoked(j))
  BY DEF IsAccess, IsRefresh, Revoked
<1>2. \A v \in Workers :
         IF v = w THEN pc'[v] = "idle" /\ locks'[v] = {}
         ELSE pc'[v] = pc[v] /\ req'[v] = req[v] /\ locks'[v] = locks[v]
  BY DEF TypeOK
<1>3. Linked'
  BY <1>1, <1>2 DEF Linked, Opens, Closes
<1>4. Exclusive'
  BY <1>1, <1>2 DEF Exclusive
<1>5. EndedTogether'
  BY <1>1 DEF EndedTogether
<1>6. \A j : Late(j)' = Late(j) /\ Opening(j)' \subseteq Opening(j)
  BY <1>2 DEF Late, Opening, Opens
<1>7. LateBound'
  BY <1>1, <1>6, BoundKept DEF LateBound
<1> QED BY <1>3, <1>4, <1>5, <1>7

(* Nothing is signed, written or revoked, and worker w goes on with the    *)
(* same session.                                                           *)
LEMMA MoveInv ==
  ASSUME IInv, NEW w \in Workers, UNCHANGED <<tokens, sessions, revoked>>,
         NEW step \in {"flush", "check", "commit"}, pc' = [pc EXCEPT ![w] = step],
         pc[w] \in Closes,
         \A v \in Workers : req'[v].access = req[v].access /\ req'[v].refresh = req[v].refresh,
         \A v \in Workers \ {w} : req'[v] = req[v],
         step = "commit" /\ ~req'[w].both => Revoked(req[w].refresh),
         Exclusive'
  PROVE  Linked' /\ EndedTogether' /\ LateBound'
<1> USE DEF IInv
<1>1. \A j : (IsAccess(j)' <=> IsAccess(j)) /\ (IsRefresh(j)' <=> IsRefresh(j))
              /\ (Revoked(j)' <=> Revoked(j))
  BY DEF IsAccess, IsRefresh, Revoked
<1>2. \A v \in Workers : IF v = w THEN pc'[v] = step ELSE pc'[v] = pc[v]
  BY DEF TypeOK
<1>3. Linked'
  BY <1>1, <1>2 DEF Linked, Opens, Closes
<1>4. EndedTogether'
  BY <1>1 DEF EndedTogether
<1>5. \A j : Late(j)' = Late(j) /\ Opening(j)' \subseteq Opening(j)
  BY <1>2 DEF Late, Opening, Opens
<1>6. LateBound'
  BY <1>1, <1>5, BoundKept DEF LateBound
<1> QED BY <1>3, <1>4, <1>6

(* Reading the session, taking a lock and querying the refresh token.      *)
LEMMA CloseInv ==
  ASSUME IInv, NEW w \in Workers,
         ReadSession(w) \/ InsertRevoked(w) \/ UpdateSession(w) \/ ReadRefresh(w)
  PROVE  IInv'
<1> USE DEF IInv
<1>0. TypeOK'
  BY CloseType
<1>1. CASE Finish(w) /\ UNCHANGED <<tokens, sessions, revoked>>
  BY <1>0, <1>1, FinishInv
<1>2. CASE ReadSession(w) /\ ~Finish(w)
  <2>1. /\ pc[w] = "read" /\ req' = [req EXCEPT ![w].exp = now + AccessTtl]
        /\ pc' = [pc EXCEPT ![w] = "flush"]
        /\ UNCHANGED <<now, tokens, held, sessions, revoked, locks, crashes, refused>>
    BY <1>2 DEF ReadSession
  <2>2. req[w] \in Request
    BY <2>1 DEF TypeOK
  <2>3. PICK q : q = [req[w] EXCEPT !.exp = now + AccessTtl]
    OBVIOUS
  <2>4. q.access = req[w].access /\ q.refresh = req[w].refresh
    BY <2>2, <2>3 DEF Request
  <2>5. req' = [req EXCEPT ![w] = q]
    BY <2>1, <2>3
  <2>6. \A v \in Workers :
           /\ req'[v].access = req[v].access /\ req'[v].refresh = req[v].refresh
           /\ v # w => req'[v] = req[v]
    BY <2>4, <2>5 DEF TypeOK
  <2>7. Exclusive'
    BY <2>1, <2>6 DEF Exclusive, Revoked, TypeOK
  <2> QED BY <1>0, <2>1, <2>6, <2>7, MoveInv DEF Closes
<1>3. ASSUME NEW lock \in {"revoked_tokens", "sessions"}, pc[w] = "flush", Take(w, lock),
             lock = "revoked_tokens" => ~Revoked(req[w].access)
      PROVE  IInv'
  <2>1. /\ lock \notin locks[w] /\ locks' = [locks EXCEPT ![w] = @ \cup {lock}]
        /\ pc' = [pc EXCEPT ![w] = IF locks[w] = {} THEN "flush" ELSE "check"]
        /\ UNCHANGED <<now, tokens, held, sessions, revoked, req, crashes, refused>>
        /\ \A v \in Workers \ {w} : lock \in locks[v] => req[v].access # req[w].access
    BY <1>3 DEF Take, Locked
  <2>2. PICK step \in {"flush", "check"} :
           /\ pc' = [pc EXCEPT ![w] = step]
           /\ step = "check" => locks[w] # {}
    BY <2>1
  <2>3. locks[w] \subseteq {"revoked_tokens", "sessions"}
    BY DEF TypeOK
  <2>4. step = "check" => "revoked_tokens" \in locks'[w]
    BY <2>1, <2>2, <2>3 DEF TypeOK
  <2>5. \A v \in Workers : IF v = w THEN pc'[v] = step ELSE pc'[v] = pc[v]
    BY <2>2 DEF TypeOK
  <2>6. \A v \in Workers : IF v = w THEN locks'[v] = locks[w] \cup {lock}
                                   ELSE locks'[v] = locks[v]
    BY <2>1 DEF TypeOK
  <2>7. \A j : Revoked(j)' <=> Revoked(j)
    BY <2>1 DEF Revoked
  <2>8. Exclusive'
    BY <1>3, <2>1, <2>4, <2>5, <2>6, <2>7 DEF Exclusive
  <2> QED BY <1>0, <1>3, <2>1, <2>2, <2>8, MoveInv DEF Closes
<1>4. CASE ReadRefresh(w)
  <2>1. PICK b \in BOOLEAN : b = ~Revoked(req[w].refresh)
    BY DEF Revoked
  <2>2. PICK q : q = [req[w] EXCEPT !.both = b, !.refresh_exp = now + RefreshTtl]
    OBVIOUS
  <2>3. req' = [req EXCEPT ![w] = q]
    BY <1>4, <2>1, <2>2 DEF ReadRefresh, TypeOK
  <2>4. /\ pc[w] = "check" /\ pc' = [pc EXCEPT ![w] = "commit"]
        /\ UNCHANGED <<now, tokens, held, sessions, revoked, locks, crashes, refused>>
    BY <1>4 DEF ReadRefresh
  <2>5. req[w] \in Request
    BY <2>4 DEF TypeOK
  <2>6. q.access = req[w].access /\ q.refresh = req[w].refresh /\ q.both = b
    BY <2>2, <2>5 DEF Request
  <2>7. \A v \in Workers :
           /\ req'[v].access = req[v].access /\ req'[v].refresh = req[v].refresh
           /\ v # w => req'[v] = req[v]
           /\ v = w => req'[v].both = b
    BY <2>3, <2>6 DEF TypeOK
  <2>8. Exclusive'
    BY <2>4, <2>7 DEF Exclusive, Revoked, TypeOK
  <2> QED BY <1>0, <2>1, <2>4, <2>7, <2>8, MoveInv DEF Closes
<1> QED BY <1>1, <1>2, <1>3, <1>4 DEF InsertRevoked, UpdateSession, ReadSession

(* An admitted logout or revocation names a committed session, and an      *)
(* admitted refresh a refresh token that is not revoked.                   *)
LEMMA ArriveInv ==
  ASSUME IInv, NEW w \in Workers, NEW t \in tokens,
         Refresh(w, t) \/ Logout(w, t) \/ RevokeSession(w, t)
  PROVE  IInv'
<1> USE DEF IInv
<1>1. TypeOK'
  BY ArriveType
<1>0. PICK step \in {"mint", "flush", "read"} : \E q :
         /\ Start(w, step, q) /\ UNCHANGED <<now, tokens>>
         /\ step = "mint" => IsRefresh(q.refresh) /\ ~Revoked(q.refresh)
         /\ step # "mint" => \E s \in sessions : s.jti = q.access /\ s.refresh_jti = q.refresh
  <2>1. CASE Refresh(w, t)
    <3>1. PICK q : q.refresh = t.jti /\ Start(w, "mint", q)
      BY <2>1 DEF Refresh
    <3>2. IsRefresh(t.jti) /\ ~Revoked(t.jti)
      BY <2>1 DEF Refresh, Admits, IsRefresh
    <3> QED BY <2>1, <3>1, <3>2 DEF Refresh
  <2>2. CASE Logout(w, t)
    <3>1. PICK s, q :
             s \in sessions /\ q.access = s.jti /\ q.refresh = s.refresh_jti /\ Start(w, "flush", q)
      BY <2>2 DEF Logout
    <3> QED BY <2>2, <3>1 DEF Logout
  <2>3. CASE RevokeSession(w, t)
    <3>1. PICK s, q :
             s \in sessions /\ q.access = s.jti /\ q.refresh = s.refresh_jti /\ Start(w, "read", q)
      BY <2>3 DEF RevokeSession
    <3> QED BY <2>3, <3>1 DEF RevokeSession
  <2> QED BY <2>1, <2>2, <2>3
<1>2. PICK q :
         /\ Start(w, step, q) /\ UNCHANGED <<now, tokens>>
         /\ step = "mint" => IsRefresh(q.refresh) /\ ~Revoked(q.refresh)
         /\ step # "mint" => \E s \in sessions : s.jti = q.access /\ s.refresh_jti = q.refresh
  BY <1>0
<1>3. /\ pc[w] = "idle"
      /\ UNCHANGED <<tokens, sessions, revoked, locks>>
      /\ \A v \in Workers : IF v = w THEN pc'[v] = step /\ req'[v] = q
                             ELSE pc'[v] = pc[v] /\ req'[v] = req[v]
  BY <1>2 DEF Start, TypeOK
<1>4. \A j : (IsAccess(j)' <=> IsAccess(j)) /\ (IsRefresh(j)' <=> IsRefresh(j))
              /\ (Revoked(j)' <=> Revoked(j))
  BY <1>3 DEF IsAccess, IsRefresh, Revoked
<1>5. Linked'
  BY <1>2, <1>3, <1>4 DEF Linked, Opens, Closes
<1>6. Exclusive'
  BY <1>3, <1>4 DEF Exclusive
<1>7. EndedTogether'
  BY <1>3, <1>4 DEF EndedTogether
<1>8. ASSUME NEW j, Revoked(j) PROVE Late(j)' = Late(j) /\ Opening(j)' \subseteq Opening(j)
  BY <1>2, <1>3, <1>8 DEF Late, Opening, Opens
<1>9. LateBound'
  BY <1>3, <1>4, <1>8, BoundKept DEF LateBound
<1> QED BY <1>1, <1>5, <1>6, <1>7, <1>9

(* A signed token has the jti and the purpose it was signed with.          *)
LEMMA NewTokenClaims ==
  \A j, p, u : NewToken(j, p, u).jti = j /\ NewToken(j, p, u).purpose = p
  BY DEF NewToken

(* New tokens are nobody's yet.                                            *)
LEMMA LoginInv ==
  ASSUME IInv, NEW w \in Workers, NEW u \in Users, Login(w, u)
  PROVE  IInv'
<1> USE DEF IInv
<1>1. TypeOK'
  BY LoginType
<1>2. PICK a, r, q :
        /\ a \in Jtis /\ r \in Jtis
        /\ Fresh(a) /\ Fresh(r) /\ a # r
        /\ tokens' = tokens \cup {NewToken(a, "access", u), NewToken(r, "refresh", u)}
        /\ q.access = a /\ q.refresh = r
        /\ Start(w, "create", q)
  BY DEF Login
<1>3. \A j : /\ IsAccess(j)' <=> IsAccess(j) \/ j = a
             /\ IsRefresh(j)' <=> IsRefresh(j) \/ j = r
  <2>1. PICK x, y : /\ tokens' = tokens \cup {x, y}
                    /\ x.jti = a /\ x.purpose = "access"
                    /\ y.jti = r /\ y.purpose = "refresh"
    BY <1>2, NewTokenClaims
  <2> QED BY <2>1 DEF IsAccess, IsRefresh
<1>4. /\ pc[w] = "idle"
      /\ UNCHANGED <<sessions, revoked, locks>>
      /\ \A v \in Workers : IF v = w THEN pc'[v] = "create" /\ req'[v] = q
                             ELSE pc'[v] = pc[v] /\ req'[v] = req[v]
  BY <1>2 DEF Start, TypeOK
<1>5. \A j : Revoked(j)' <=> Revoked(j)
  BY <1>4 DEF Revoked
<1>6. ~IsAccess(a) /\ ~IsRefresh(a) /\ ~IsAccess(r) /\ ~IsRefresh(r)
  BY <1>2 DEF Fresh, IsAccess, IsRefresh
<1>7. ~Revoked(r) /\ \A s \in sessions : s.jti # a
  BY <1>6 DEF Linked
<1>8. Linked'
  BY <1>2, <1>3, <1>4, <1>5, <1>6, <1>7 DEF Linked, Opens, Closes
<1>9. Exclusive'
  BY <1>4, <1>5 DEF Exclusive
<1>10. EndedTogether'
  BY <1>4, <1>5 DEF EndedTogether
<1>11. ASSUME NEW j, Revoked(j) PROVE Late(j)' = Late(j) /\ Opening(j)' \subseteq Opening(j)
  BY <1>2, <1>4, <1>7, <1>11 DEF Late, Opening, Opens
<1>12. LateBound'
  BY <1>4, <1>5, <1>11, BoundKept DEF LateBound
<1> QED BY <1>1, <1>8, <1>9, <1>10, <1>12

(* A refresh signs a new access token.                                     *)
LEMMA MintInv ==
  ASSUME IInv, NEW w \in Workers, Mint(w)
  PROVE  IInv'
<1> USE DEF IInv
<1>1. TypeOK'
  BY OpenType DEF Mint
<1>2. PICK a \in Jtis :
        /\ Fresh(a) /\ tokens' = tokens \cup {NewToken(a, "access", req[w].user)}
        /\ req' = [req EXCEPT ![w].access = a]
  BY DEF Mint
<1>3. \A j : /\ IsAccess(j)' <=> IsAccess(j) \/ j = a
             /\ IsRefresh(j)' <=> IsRefresh(j)
  <2>1. PICK x : tokens' = tokens \cup {x} /\ x.jti = a /\ x.purpose = "access"
    BY <1>2, NewTokenClaims
  <2> QED BY <2>1 DEF IsAccess, IsRefresh
<1>4. pc[w] = "mint" /\ req[w] \in Request /\ UNCHANGED <<sessions, revoked, locks>>
  BY DEF Mint, TypeOK
<1>5. PICK q : q = [req[w] EXCEPT !.access = a]
  OBVIOUS
<1>6. q.access = a /\ q.refresh = req[w].refresh
  BY <1>4, <1>5 DEF Request
<1>7. req' = [req EXCEPT ![w] = q]
  BY <1>2, <1>5
<1>8. \A v \in Workers : IF v = w THEN pc'[v] = "create" /\ req'[v] = q
                         ELSE pc'[v] = pc[v] /\ req'[v] = req[v]
  BY <1>7 DEF Mint, TypeOK
<1>9. \A j : Revoked(j)' <=> Revoked(j)
  BY <1>4 DEF Revoked
<1>10. ~IsAccess(a) /\ \A s \in sessions : s.jti # a
  BY <1>2 DEF Fresh, IsAccess, Linked
<1>11. Linked'
  BY <1>3, <1>4, <1>6, <1>8, <1>9, <1>10 DEF Linked, Opens, Closes
<1>12. Exclusive'
  BY <1>4, <1>8, <1>9 DEF Exclusive
<1>13. EndedTogether'
  BY <1>4, <1>9 DEF EndedTogether
<1>14. \A j : Late(j)' = Late(j) /\ Opening(j)' \subseteq Opening(j)
  BY <1>4, <1>6, <1>8 DEF Late, Opening, Opens
<1>15. LateBound'
  BY <1>4, <1>9, <1>14, BoundKept DEF LateBound
<1> QED BY <1>1, <1>11, <1>12, <1>13, <1>15

(* The new session is late if its refresh token has been revoked, and its  *)
(* worker is no longer on the way to it.                                   *)
LEMMA CreateInv ==
  ASSUME IInv, NEW w \in Workers, CreateSession(w)
  PROVE  IInv'
<1> USE DEF IInv
<1>1. TypeOK'
  BY OpenType DEF Linked
<1>2. PICK s : /\ sessions' = sessions \cup {s}
               /\ s.jti = req[w].access /\ s.refresh_jti = req[w].refresh
               /\ ~s.revoked /\ (s.late <=> Revoked(req[w].refresh))
  <2> DEFINE s == [user |-> req[w].user, jti |-> req[w].access,
                   refresh_jti |-> req[w].refresh, revoked |-> FALSE,
                   late |-> Revoked(req[w].refresh)]
  <2>1. /\ s.jti = req[w].access /\ s.refresh_jti = req[w].refresh
        /\ ~s.revoked /\ (s.late <=> Revoked(req[w].refresh))
    OBVIOUS
  <2>2. sessions' = sessions \cup {s}
    BY DEF CreateSession
  <2> QED BY <2>1, <2>2
<1>3. /\ pc[w] = "create" /\ pc' = [pc EXCEPT ![w] = "respond"]
      /\ UNCHANGED <<tokens, revoked, req, locks>>
  BY DEF CreateSession
<1>4. \A v \in Workers : IF v = w THEN pc'[v] = "respond" ELSE pc'[v] = pc[v]
  BY <1>3 DEF TypeOK
<1>5. \A j : (IsAccess(j)' <=> IsAccess(j)) /\ (IsRefresh(j)' <=> IsRefresh(j))
              /\ (Revoked(j)' <=> Revoked(j))
  BY <1>3 DEF IsAccess, IsRefresh, Revoked
<1>6. IsAccess(s.jti) /\ IsRefresh(s.refresh_jti) /\ \A t \in sessions : t.jti # s.jti
  BY <1>2, <1>3 DEF Linked, Opens
<1>7. Linked'
  BY <1>2, <1>3, <1>4, <1>5, <1>6 DEF Linked, Opens, Closes
<1>8. Exclusive'
  BY <1>3, <1>4, <1>5 DEF Exclusive
<1>9. ~Revoked(s.jti)
  BY <1>6, OnePurpose DEF Linked
<1>10. EndedTogether'
  BY <1>2, <1>5, <1>9 DEF EndedTogether
<1>11. IsFiniteSet(sessions') /\ \A t \in sessions' : t.late => Revoked(t.refresh_jti)'
  BY <1>2, <1>5, FS_AddElement DEF LateBound
<1>12. ASSUME NEW j, Revoked(j)
       PROVE  Cardinality(Late(j))' + Cardinality(Opening(j))' < Cardinality(Workers)
  <2>1. Cardinality(Late(j)) + Cardinality(Opening(j)) < Cardinality(Workers)
    BY <1>12 DEF LateBound
  <2>2. CASE req[w].refresh # j
    <3>1. Late(j)' = Late(j) /\ Opening(j)' = Opening(j)
      BY <1>2, <1>3, <1>4, <2>2 DEF Late, Opening, Opens
    <3> QED BY <2>1, <3>1
  <2>3. CASE req[w].refresh = j
    <3>1. Late(j)' = Late(j) \cup {s} /\ s \notin Late(j)
      BY <1>2, <1>6, <1>12, <2>3 DEF Late
    <3>2. Opening(j)' = Opening(j) \ {w} /\ w \in Opening(j)
      BY <1>3, <1>4, <2>3 DEF Opening, Opens
    <3>3. Cardinality(Late(j)') = Cardinality(Late(j)) + 1
      BY <3>1, Finite, FS_AddElement
    <3>4. Cardinality(Opening(j)') = Cardinality(Opening(j)) - 1
      BY <3>2, Finite, FS_RemoveElement
    <3> QED BY <2>1, <3>3, <3>4, Finite
  <2> QED BY <2>2, <2>3
<1>13. LateBound'
  BY <1>5, <1>11, <1>12 DEF LateBound
<1> QED BY <1>1, <1>7, <1>8, <1>10, <1>13

(* Ending sessions does not make any more of them late.                    *)
LEMMA EndedLate ==
  ASSUME IInv, NEW w \in Workers, Commit(w), NEW j
  PROVE  /\ IsFiniteSet(sessions') /\ IsFiniteSet(Late(j)')
         /\ Cardinality(Late(j)') <= Cardinality(Late(j))
         /\ Cardinality(Late(j)') \in Nat
<1> USE DEF IInv
<1>1. sessions' = {Ended(s, req[w].access) : s \in sessions}
  BY DEF Commit, MarkRevoked
<1>2. \A s \in sessions : LET m == Ended(s, req[w].access) IN
         m.refresh_jti = s.refresh_jti /\ m.late = s.late
  BY EndedType DEF TypeOK
<1> DEFINE f == [s \in sessions |-> Ended(s, req[w].access)]
           g == [s \in Late(j) |-> Ended(s, req[w].access)]
<1>3. f \in Surjection(sessions, sessions')
  BY <1>1 DEF Surjection
<1>4. Late(j)' = {Ended(s, req[w].access) : s \in Late(j)}
  BY <1>1, <1>2 DEF Late
<1>5. g \in Surjection(Late(j), Late(j)')
  BY <1>4 DEF Surjection
<1>6. IsFiniteSet(sessions')
  BY <1>3, FS_Surjection DEF LateBound
<1>7. IsFiniteSet(Late(j)') /\ Cardinality(Late(j)') <= Cardinality(Late(j))
  BY <1>5, Finite, FS_Surjection
<1> QED BY <1>6, <1>7, FS_CardinalityType

(* The commit that ends a session: its unique jtis keep every other        *)
(* session's tokens out of it.                                             *)
LEMMA CommitInv ==
  ASSUME IInv, NEW w \in Workers, Commit(w)
  PROVE  IInv'
<1> USE DEF IInv
<1> DEFINE a == req[w].access
           r == req[w].refresh
<1>1. /\ pc[w] = "commit" /\ req[w] \in Request /\ Finish(w)
      /\ UNCHANGED <<now, tokens, held, crashes, refused>>
      /\ ~(req[w].both /\ Revoked(r))
  BY DEF Commit, TypeOK
<1>2. PICK c \in sessions : c.jti = a /\ c.refresh_jti = r
  BY <1>1 DEF Linked, Closes
<1>3. IsAccess(a) /\ IsRefresh(r) /\ ~Revoked(a) /\ (~req[w].both => Revoked(r))
  BY <1>1, <1>2 DEF Linked, Exclusive
<1>4. \A j : Revoked(j)' <=> Revoked(j) \/ j = a \/ j = r
  BY <1>3, CommitEffect
<1>5. \A v \in Workers :
         IF v = w THEN pc'[v] = "idle" /\ locks'[v] = {}
         ELSE pc'[v] = pc[v] /\ req'[v] = req[v] /\ locks'[v] = locks[v]
  BY <1>1 DEF TypeOK
<1>6. \A j : (IsAccess(j)' <=> IsAccess(j)) /\ (IsRefresh(j)' <=> IsRefresh(j))
  BY <1>1 DEF IsAccess, IsRefresh
<1>7. a # r
  BY <1>3, OnePurpose
<1>8. TypeOK'
  <2>1. /\ sessions' \subseteq Session
        /\ \A s, t \in sessions' : s.jti = t.jti => s = t
    <3>1. sessions' = {Ended(s, a) : s \in sessions}
      BY DEF Commit, MarkRevoked
    <3>2. \A s \in sessions : Ended(s, a) \in Session /\ Ended(s, a).jti = s.jti
      BY EndedType DEF TypeOK
    <3> QED BY <3>1, <3>2 DEF TypeOK
  <2>2. /\ revoked' \subseteq RevokedToken
        /\ \A x, y \in revoked' : x.jti = y.jti => x = y
    <3> DEFINE x == [jti |-> a, expires_at |-> req[w].exp]
               y == [jti |-> r, expires_at |-> req[w].refresh_exp]
    <3>1. x \in RevokedToken /\ y \in RevokedToken /\ x.jti = a /\ y.jti = r
      BY <1>1 DEF TypeOK, RevokedToken, Request
    <3>2. revoked' = revoked \cup {x} \cup (IF req[w].both THEN {y} ELSE {})
      BY DEF Commit
    <3> HIDE DEF x, y
    <3>3. \A q \in revoked : q.jti # a /\ (req[w].both => q.jti # r)
      BY <1>1, <1>3 DEF Revoked
    <3> QED BY <1>7, <3>1, <3>2, <3>3 DEF TypeOK
  <2> QED BY <1>1, <2>1, <2>2, FinishType DEF TypeOK
<1>9. Linked'
  <2>1. \A s \in sessions : \E m \in sessions' : m.jti = s.jti /\ m.refresh_jti = s.refresh_jti
    BY CommitEffect
  <2>2. \A m \in sessions' : \E s \in sessions : m.jti = s.jti /\ m.refresh_jti = s.refresh_jti
    BY CommitEffect
  <2>3. \A s \in sessions' : IsAccess(s.jti)' /\ IsRefresh(s.refresh_jti)'
    BY <1>6, <2>2 DEF Linked
  <2>4. ASSUME NEW j, Revoked(j)' PROVE IsRefresh(j)' \/ \E s \in sessions' : s.jti = j
    BY <1>2, <1>3, <1>4, <1>6, <2>1, <2>4 DEF Linked
  <2>5. \A v \in Workers : pc'[v] \in Closes =>
           \E s \in sessions' : s.jti = req'[v].access /\ s.refresh_jti = req'[v].refresh
    BY <1>5, <2>1 DEF Linked, Closes
  <2>6. \A v \in Workers : pc'[v] = "create" =>
           IsAccess(req[v].access)' /\ \A s \in sessions' : s.jti # req'[v].access
    BY <1>5, <1>6, <2>2 DEF Linked
  <2>7. \A v \in Workers : pc'[v] \in Opens => IsRefresh(req[v].refresh)'
    BY <1>5, <1>6 DEF Linked, Opens
  <2>8. \A v \in Workers : pc'[v] = "commit" /\ ~req'[v].both => Revoked(req[v].refresh)'
    BY <1>4, <1>5 DEF Linked
  <2>9. \A u, v \in Workers :
           u # v /\ pc'[u] = "create" /\ pc'[v] = "create" => req'[u].access # req'[v].access
    BY <1>5 DEF Linked
  <2> QED BY <2>3, <2>4, <2>5, <2>6, <2>7, <2>8, <2>9 DEF Linked
<1>10. Exclusive'
  <2>1. ASSUME NEW v \in Workers, "revoked_tokens" \in locks'[v]
        PROVE  ~Revoked(req[v].access)'
    <3>1. v # w /\ "revoked_tokens" \in locks[v] /\ req'[v] = req[v]
      BY <1>5, <2>1
    <3>2. req[v].access # a /\ ~Revoked(req[v].access)
      BY <1>1, <3>1 DEF Exclusive
    <3>3. pc[v] \in Closes
      BY <3>1 DEF Exclusive, Closes
    <3>4. IsAccess(req[v].access)
      BY <3>3 DEF Linked
    <3>5. req[v].access # r
      BY <1>3, <3>4, OnePurpose
    <3> QED BY <1>4, <3>1, <3>2, <3>5
  <2> QED BY <1>5, <2>1 DEF Exclusive
<1>11. EndedTogether'
  <2> SUFFICES ASSUME NEW m \in sessions'
               PROVE  (m.revoked <=> Revoked(m.jti)') /\ (m.revoked => Revoked(m.refresh_jti)')
    BY DEF EndedTogether, Revoked
  <2>1. PICK s \in sessions : /\ m.jti = s.jti /\ m.refresh_jti = s.refresh_jti
                              /\ (m.revoked <=> s.revoked \/ s.jti = a)
    BY CommitEffect
  <2>2. s.jti # r
    BY <1>3, OnePurpose DEF Linked
  <2>3. s.jti = a => s = c
    BY <1>2 DEF TypeOK
  <2>4. (s.revoked <=> Revoked(s.jti)) /\ (s.revoked => Revoked(s.refresh_jti))
    BY DEF EndedTogether
  <2> QED BY <1>2, <1>4, <2>1, <2>2, <2>3, <2>4
<1>12. LateBound'
  <2>1. IsFiniteSet(sessions')
    BY EndedLate
  <2>2. \A m \in sessions' : m.late => Revoked(m.refresh_jti)'
    <3> SUFFICES ASSUME NEW m \in sessions', m.late PROVE Revoked(m.refresh_jti)'
      BY DEF Revoked
    <3>1. PICK s \in sessions : m.refresh_jti = s.refresh_jti /\ m.late = s.late
      BY CommitEffect
    <3> QED BY <1>4, <3>1 DEF LateBound
  <2>3. ASSUME NEW j, Revoked(j)'
        PROVE  Cardinality(Late(j)') + Cardinality(Opening(j)') < Cardinality(Workers)
    <3>1. Opening(j)' \subseteq Opening(j) /\ Opening(j)' \subseteq Workers \ {w}
      BY <1>5 DEF Opening, Opens
    <3>2. /\ Cardinality(Opening(j)') <= Cardinality(Opening(j))
          /\ Cardinality(Opening(j)') \in Nat
          /\ Cardinality(Opening(j)') <= Cardinality(Workers \ {w})
      BY <3>1, Finite, WorkersAssumption, FS_Subset, FS_RemoveElement, FS_CardinalityType
    <3>3. Cardinality(Workers \ {w}) = Cardinality(Workers) - 1
      BY WorkersAssumption, FS_RemoveElement
    <3>4. CASE Revoked(j)
      BY <3>2, <3>4, Finite, EndedLate DEF LateBound
    <3>5. CASE ~Revoked(j)
      <4>1. Late(j) = {}
        BY <3>5 DEF Late, LateBound
      <4>2. Cardinality(Late(j)) = 0
        BY <4>1, FS_EmptySet
      <4> QED BY <3>2, <3>3, <4>2, Finite, EndedLate
    <3> QED BY <3>4, <3>5
  <2>4. \A j : Cardinality(Late(j))' = Cardinality(Late(j)')
    OBVIOUS
  <2> QED BY <2>1, <2>2, <2>3 DEF LateBound
<1> QED BY <1>8, <1>9, <1>10, <1>11, <1>12

-----------------------------------------------------------------------------
(* The invariant.                                                          *)

(* Nothing is signed, written or running at the start.                     *)
LEMMA InitInv == Init => IInv
<1> SUFFICES ASSUME Init PROVE IInv
  OBVIOUS
<1>1. TypeOK
  BY DEF Init, TypeOK, PCs
<1>2. Linked /\ Exclusive /\ EndedTogether
  BY DEF Init, Linked, Exclusive, EndedTogether, Opens, Closes, Revoked
<1>3. LateBound
  BY FS_EmptySet DEF Init, LateBound, Revoked
<1> QED BY <1>1, <1>2, <1>3 DEF IInv

(* Every step of a worker or of the clock keeps the invariant.             *)
LEMMA StepInv == IInv /\ [Next]_vars => IInv'
<1> SUFFICES ASSUME IInv, [Next]_vars PROVE IInv'
  OBVIOUS
<1>1. ASSUME NEW w \in Workers, Arrive(w) PROVE IInv'
  BY <1>1, LoginInv, ArriveInv DEF Arrive
<1>2. ASSUME NEW w \in Workers, Mint(w) \/ CreateSession(w) PROVE IInv'
  BY <1>2, MintInv, CreateInv
<1>3. ASSUME NEW w \in Workers, Respond(w) PROVE IInv'
  <2>1. TypeOK'
    BY <1>3, OpenType DEF IInv, Respond
  <2> QED BY <1>3, <2>1, FinishInv DEF IInv, Respond
<1>4. ASSUME NEW w \in Workers,
             ReadSession(w) \/ InsertRevoked(w) \/ UpdateSession(w) \/ ReadRefresh(w)
      PROVE  IInv'
  BY <1>4, CloseInv
<1>5. ASSUME NEW w \in Workers, RefuseInsert(w) \/ RefuseCommit(w) \/ Deadlock(w)
      PROVE  IInv'
  <2>1. TypeOK'
    BY <1>5, CloseType DEF IInv
  <2>2. Finish(w) /\ UNCHANGED <<tokens, sessions, revoked>>
    BY <1>5 DEF RefuseInsert, RefuseCommit, Deadlock, Refuse
  <2> QED BY <2>1, <2>2, FinishInv DEF IInv
<1>6. ASSUME NEW w \in Workers, Commit(w) PROVE IInv'
  BY <1>6, CommitInv
<1>7. ASSUME NEW w \in Workers, Crash(w) PROVE IInv'
  <2>1. TypeOK'
    <3>1. /\ TypeOK /\ Finish(w) /\ crashes' = crashes + 1
          /\ UNCHANGED <<now, tokens, held, sessions, revoked, refused>>
      BY <1>7 DEF IInv, Crash
    <3>2. /\ pc' \in [Workers -> PCs] /\ req' \in [Workers -> Request \cup {None}]
          /\ locks' \in [Workers -> SUBSET {"revoked_tokens", "sessions"}]
          /\ \A v \in Workers : pc'[v] # "idle" =>
                /\ req'[v] \in Request /\ req'[v].refresh \in Jtis
                /\ pc'[v] # "mint" => req'[v].access \in Jtis
      BY <3>1, FinishType
    <3> QED BY <3>1, <3>2 DEF TypeOK
  <2> QED BY <1>7, <2>1, FinishInv DEF IInv, Crash
<1>8. CASE Tick
  <2>1. TypeOK'
    <3>1. now' \in Nat
      BY <1>8 DEF IInv, TypeOK, Tick
    <3> QED BY <1>8, <3>1 DEF IInv, TypeOK, Tick
  <2>2. UNCHANGED <<tokens, sessions, revoked, pc, req, locks>>
    BY <1>8 DEF Tick
  <2>3. Linked'
    BY <2>2 DEF IInv, Linked, IsAccess, IsRefresh, Revoked
  <2>4. Exclusive' /\ EndedTogether'
    BY <2>2 DEF IInv, Exclusive, EndedTogether, Revoked
  <2>5. LateBound'
    BY <2>2 DEF IInv, LateBound, Late, Opening, Revoked
  <2> QED BY <2>1, <2>3, <2>4, <2>5 DEF IInv
<1>9. CASE UNCHANGED vars
  <2>1. TypeOK'
    BY <1>9 DEF vars, IInv, TypeOK
  <2>2. Linked'
    BY <1>9 DEF vars, IInv, Linked, IsAccess, IsRefresh, Revoked
  <2>3. Exclusive' /\ EndedTogether'
    BY <1>9 DEF vars, IInv, Exclusive, EndedTogether, Revoked
  <2>4. LateBound'
    BY <1>9 DEF vars, IInv, LateBound, Late, Opening, Revoked
  <2> QED BY <2>1, <2>2, <2>3, <2>4 DEF IInv
<1> QED BY <1>1, <1>2, <1>3, <1>4, <1>5, <1>6, <1>7, <1>8, <1>9
        DEF Next, Continue, Lock, Over

(* Every variable keeps its type; in particular a jti names one token, one *)
(* session and one revocation, as the unique columns demand.               *)
THEOREM TypeCorrect == Spec => []TypeOK
<1>1. IInv => TypeOK
  BY DEF IInv
<1> QED BY InitInv, StepInv, <1>1, PTL DEF Spec

(* However many logouts and revocations run against each other, fail, wait *)
(* or die, a session is never left half ended: with its access token       *)
(* revoked but not its refresh token, or marked but still usable.          *)
THEOREM NeverHalfEnded == Spec => []EndedTogether
<1>1. IInv => EndedTogether
  BY DEF IInv
<1> QED BY InitInv, StepInv, <1>1, PTL DEF Spec

(* With N workers a revoked refresh token opens at most N - 1 sessions     *)
(* more: those of the refreshes that were in flight.                       *)
THEOREM FewLateSessions == Spec => []LateSessionsBounded
<1>1. IInv => LateSessionsBounded
  <2> SUFFICES ASSUME IInv, NEW r \in revoked
               PROVE  Cardinality(Late(r.jti)) < Cardinality(Workers)
    BY DEF LateSessionsBounded, Late
  <2>1. Revoked(r.jti)
    BY DEF Revoked
  <2>2. Cardinality(Late(r.jti)) + Cardinality(Opening(r.jti)) < Cardinality(Workers)
    BY <2>1 DEF IInv, LateBound
  <2> QED BY <2>2, Finite DEF IInv
<1> QED BY InitInv, StepInv, <1>1, PTL DEF Spec

-----------------------------------------------------------------------------
(* What a client holds is listed. The token ids a client has are those of  *)
(* a session row, or of a refresh token; a row names the owner of its      *)
(* access token.                                                           *)

OfCaller(w) ==
    /\ pc[w] = "create" => \A t \in tokens : t.jti = req[w].access => t.user = req[w].user
    /\ pc[w] = "respond" => \E s \in sessions : /\ s.jti = req[w].access
                                                /\ s.refresh_jti = req[w].refresh

Listed ==
    /\ \A j \in held : IsAccess(j) \/ IsRefresh(j)
    /\ \A s \in sessions, t \in tokens : t.jti = s.jti => t.user = s.user
    /\ \A t \in tokens : t.purpose = "access" /\ t.jti \in held
          => \E s \in sessions : s.jti = t.jti
    /\ \A w \in Workers : OfCaller(w)

(* Which steps hand out tokens, revoke and refuse.                         *)
LEMMA Changes ==
  ASSUME [Next]_vars
  PROVE  /\ held' = held \/ \E w \in Workers : Respond(w)
         /\ revoked' = revoked \/ \E w \in Workers : Commit(w)
         /\ \/ refused' = refused
            \/ \E w \in Workers : RefuseInsert(w) \/ RefuseCommit(w)
<1>1. ASSUME NEW w \in Workers, Arrive(w) \/ Crash(w)
      PROVE  UNCHANGED <<held, revoked, refused>>
  BY <1>1 DEF Arrive, Login, Refresh, Logout, RevokeSession, Start, Crash
<1>2. ASSUME NEW w \in Workers, Mint(w) \/ CreateSession(w) \/ ReadSession(w) \/ Deadlock(w)
                                \/ ReadRefresh(w) \/ InsertRevoked(w) \/ UpdateSession(w)
      PROVE  UNCHANGED <<held, revoked, refused>>
  BY <1>2 DEF Mint, CreateSession, ReadSession, Deadlock, ReadRefresh, InsertRevoked,
              UpdateSession, Take
<1>3. ASSUME NEW w \in Workers, Respond(w) PROVE UNCHANGED <<revoked, refused>>
  BY <1>3 DEF Respond
<1>4. ASSUME NEW w \in Workers, Commit(w) PROVE UNCHANGED <<held, refused>>
  BY <1>4 DEF Commit
<1>5. ASSUME NEW w \in Workers, RefuseInsert(w) \/ RefuseCommit(w)
      PROVE  UNCHANGED <<held, revoked>>
  BY <1>5 DEF RefuseInsert, RefuseCommit, Refuse
<1>6. CASE Tick \/ UNCHANGED vars
  BY <1>6 DEF Tick, vars
<1> QED BY <1>1, <1>2, <1>3, <1>4, <1>5, <1>6 DEF Next, Continue, Lock, Over

(* A step leaves the request of any other worker alone.                    *)
LEMMA OthersKeep ==
  ASSUME TypeOK, NEW v \in Workers, NEW w \in Workers, v # w, Arrive(v) \/ Continue(v) \/ Crash(v)
  PROVE  pc'[w] = pc[w] /\ req'[w] = req[w]
<1> USE DEF TypeOK, Goto, Finish
<1>1. CASE Arrive(v)
  BY <1>1 DEF Arrive, Login, Refresh, Logout, RevokeSession, Start
<1>2. CASE Mint(v)
  BY <1>2 DEF Mint
<1>3. CASE CreateSession(v) \/ InsertRevoked(v) \/ UpdateSession(v)
  BY <1>3 DEF CreateSession, InsertRevoked, UpdateSession, Take
<1>4. CASE ReadRefresh(v)
  BY <1>4 DEF ReadRefresh
<1>5. CASE ReadSession(v)
  BY <1>5 DEF ReadSession
<1>6. CASE Respond(v) \/ Deadlock(v) \/ Commit(v) \/ Crash(v)
  BY <1>6 DEF Respond, Deadlock, Commit, Crash
<1>7. CASE RefuseInsert(v) \/ RefuseCommit(v)
  BY <1>7 DEF RefuseInsert, RefuseCommit, Refuse
<1> QED BY <1>1, <1>2, <1>3, <1>4, <1>5, <1>6, <1>7 DEF Continue, Lock

(* m is, after a step, what the session s was before it.                   *)
SameSession(s, m) == m.jti = s.jti /\ m.refresh_jti = s.refresh_jti /\ m.user = s.user

(* Marking a session leaves its owner and its tokens.                      *)
LEMMA EndedSame ==
  ASSUME NEW j, NEW s \in Session
  PROVE  SameSession(s, Ended(s, j))
<1>1. PICK b \in BOOLEAN : b = (s.revoked \/ s.jti = j)
  OBVIOUS
<1>2. Ended(s, j) = [s EXCEPT !.revoked = b]
  BY <1>1 DEF Ended
<1> QED BY <1>1, <1>2 DEF Session, SameSession

(* The row that CreateSession writes names what its request names.         *)
LEMMA RowOfRequest ==
  ASSUME NEW w, CreateSession(w)
  PROVE  \E n : /\ sessions' = sessions \cup {n}
                /\ n.jti = req[w].access /\ n.user = req[w].user
                /\ n.refresh_jti = req[w].refresh
<1> DEFINE n == [user |-> req[w].user, jti |-> req[w].access,
                 refresh_jti |-> req[w].refresh,
                 revoked |-> FALSE, late |-> Revoked(req[w].refresh)]
<1>1. n.jti = req[w].access /\ n.user = req[w].user /\ n.refresh_jti = req[w].refresh
  OBVIOUS
<1>2. sessions' = sessions \cup {n}
  BY DEF CreateSession
<1> QED BY <1>1, <1>2

(* Which steps change the sessions.                                        *)
LEMMA SessionsChange ==
  ASSUME [Next]_vars
  PROVE  \/ sessions' = sessions /\ revoked' = revoked
         \/ \E w \in Workers : CreateSession(w) \/ Commit(w)
<1>1. sessions' = sessions \/ \E w \in Workers : CreateSession(w) \/ Commit(w)
  BY ZenonT(60) DEF Next, Arrive, Login, Refresh, Logout, RevokeSession, Start, Continue, Mint, Respond,
         ReadSession, Lock, InsertRevoked, UpdateSession, RefuseInsert, Take, Refuse, Deadlock,
         ReadRefresh, RefuseCommit, Crash, Tick, Over, vars
<1> QED BY <1>1, Changes

(* Sessions are opened by CreateSession, and never go away.                *)
LEMMA SessionsStay ==
  ASSUME TypeOK, [Next]_vars
  PROVE  /\ \A s \in sessions : \E m \in sessions' : SameSession(s, m)
         /\ \A m \in sessions' :
               \/ \E s \in sessions : SameSession(s, m)
               \/ \E w \in Workers : /\ CreateSession(w)
                                     /\ m.jti = req[w].access /\ m.user = req[w].user
                                     /\ m.refresh_jti = req[w].refresh
<1> DEFINE Stay == \A s \in sessions : \E m \in sessions' : SameSession(s, m)
           Made(w, m) == /\ CreateSession(w)
                         /\ m.jti = req[w].access /\ m.user = req[w].user
                         /\ m.refresh_jti = req[w].refresh
           Come == \A m \in sessions' : \/ \E s \in sessions : SameSession(s, m)
                                        \/ \E w \in Workers : Made(w, m)
<1>1. \A s \in sessions : SameSession(s, s)
  BY DEF SameSession
<1>2. CASE sessions' = sessions
  BY <1>1, <1>2
<1>3. ASSUME NEW w \in Workers, CreateSession(w) PROVE Stay /\ Come
  <2>1. PICK n : /\ sessions' = sessions \cup {n}
                 /\ n.jti = req[w].access /\ n.user = req[w].user
                 /\ n.refresh_jti = req[w].refresh
    BY <1>3, RowOfRequest
  <2> QED BY <1>1, <1>3, <2>1
<1>4. ASSUME NEW w \in Workers, Commit(w) PROVE Stay /\ Come
  <2>1. sessions' = {Ended(s, req[w].access) : s \in sessions} /\ sessions \subseteq Session
    BY <1>4 DEF Commit, MarkRevoked, TypeOK
  <2>2. \A s \in sessions : SameSession(s, Ended(s, req[w].access))
    BY <2>1, EndedSame
  <2> QED BY <2>1, <2>2
<1>5. sessions' = sessions \/ \E w \in Workers : CreateSession(w) \/ Commit(w)
  BY SessionsChange
<1> QED BY <1>2, <1>3, <1>4, <1>5

(* A token that is signed has a jti nobody has used.                       *)
LEMMA TokensAreNew ==
  ASSUME [Next]_vars
  PROVE  /\ tokens \subseteq tokens'
         /\ \A t \in tokens' : t \in tokens \/ Fresh(t.jti)
<1>1. ASSUME NEW w \in Workers, NEW u \in Users, Login(w, u)
      PROVE  \E x, y : tokens' = tokens \cup {x, y} /\ Fresh(x.jti) /\ Fresh(y.jti)
  BY <1>1, NewTokenClaims DEF Login
<1>2. ASSUME NEW w \in Workers, Mint(w)
      PROVE  \E x : tokens' = tokens \cup {x} /\ Fresh(x.jti)
  BY <1>2, NewTokenClaims DEF Mint
<1>3. \/ tokens' = tokens
      \/ \E w \in Workers : Mint(w) \/ \E u \in Users : Login(w, u)
  BY ZenonT(30) DEF Next, Arrive, Refresh, Logout, RevokeSession, Start, Continue, Respond, Commit,
         ReadSession, Lock, InsertRevoked, UpdateSession, RefuseInsert, Take, Refuse, Deadlock,
         ReadRefresh, RefuseCommit, Crash, Tick, Over, vars, CreateSession
<1> QED BY <1>1, <1>2, <1>3

(* What a request opens a session with stays its caller's.                 *)
LEMMA CallersStep ==
  ASSUME IInv, Listed, [Next]_vars, NEW w \in Workers
  PROVE  OfCaller(w)'
<1> USE DEF IInv
<1>1. OfCaller(w)
  BY DEF Listed
<1>2. CASE pc'[w] = pc[w] /\ req'[w] = req[w]
  <2>1. ASSUME pc[w] = "create", NEW t \in tokens', t.jti = req[w].access
        PROVE  t.user = req[w].user
    <3>1. t \in tokens
      BY <2>1, TokensAreNew DEF Linked, IsAccess, Fresh
    <3> QED BY <1>1, <2>1, <3>1 DEF OfCaller
  <2>2. ASSUME pc[w] = "respond"
        PROVE  \E s \in sessions' : s.jti = req[w].access /\ s.refresh_jti = req[w].refresh
    BY <1>1, <2>2, SessionsStay DEF OfCaller, SameSession
  <2> QED BY <1>2, <2>1, <2>2 DEF OfCaller
<1>3. ASSUME NEW u \in Users, Login(w, u) PROVE OfCaller(w)'
  <2>1. PICK a, r : /\ Fresh(a) /\ a # r /\ pc' = [pc EXCEPT ![w] = "create"]
                    /\ tokens' = tokens \cup {NewToken(a, "access", u),
                                              NewToken(r, "refresh", u)}
                    /\ req'[w].access = a /\ req'[w].user = u
    BY <1>3 DEF Login, Start, TypeOK
  <2>2. NewToken(a, "access", u).user = u /\ NewToken(r, "refresh", u).jti = r
    BY DEF NewToken
  <2> QED BY <2>1, <2>2 DEF OfCaller, Fresh, TypeOK
<1>4. CASE Mint(w)
  <2>1. PICK a : /\ Fresh(a) /\ pc' = [pc EXCEPT ![w] = "create"]
                 /\ tokens' = tokens \cup {NewToken(a, "access", req[w].user)}
                 /\ req' = [req EXCEPT ![w].access = a]
    BY <1>4 DEF Mint
  <2>2. req[w] \in Request
    BY <1>4 DEF Mint, TypeOK
  <2>3. req'[w].access = a /\ req'[w].user = req[w].user
    BY <2>1, <2>2 DEF TypeOK, Request
  <2>4. NewToken(a, "access", req[w].user).user = req[w].user
    BY DEF NewToken
  <2> QED BY <2>1, <2>3, <2>4 DEF OfCaller, Fresh, TypeOK
<1>5. CASE CreateSession(w)
  <2>1. PICK n : /\ sessions' = sessions \cup {n}
                 /\ n.jti = req[w].access /\ n.refresh_jti = req[w].refresh
    BY <1>5, RowOfRequest
  <2>2. req' = req /\ pc'[w] = "respond"
    BY <1>5 DEF CreateSession, Goto, TypeOK
  <2> QED BY <2>1, <2>2 DEF OfCaller
<1>6. CASE pc'[w] \notin {"create", "respond"}
  BY <1>6 DEF OfCaller
<1>7. ASSUME NEW t, Refresh(w, t) \/ Logout(w, t) \/ RevokeSession(w, t)
      PROVE  pc'[w] \notin {"create", "respond"}
  BY <1>7 DEF Refresh, Logout, RevokeSession, Start, Goto, TypeOK
<1>8. ASSUME \/ Respond(w) \/ Deadlock(w) \/ Commit(w) \/ Crash(w)
             \/ RefuseInsert(w) \/ RefuseCommit(w)
      PROVE  pc'[w] \notin {"create", "respond"}
  BY <1>8 DEF Respond, Deadlock, Commit, Crash, RefuseInsert, RefuseCommit, Refuse,
              Finish, Goto, TypeOK
<1>9. ASSUME ReadSession(w) \/ InsertRevoked(w) \/ UpdateSession(w) \/ ReadRefresh(w)
      PROVE  pc'[w] \notin {"create", "respond"}
  BY <1>9 DEF ReadSession, InsertRevoked, UpdateSession, ReadRefresh, Take,
              Finish, Goto, TypeOK
<1>10. ASSUME NEW v \in Workers, v # w, Arrive(v) \/ Continue(v) \/ Crash(v)
       PROVE  OfCaller(w)'
  BY <1>2, <1>10, OthersKeep
<1>11. ASSUME Arrive(w) \/ Continue(w) \/ Crash(w) PROVE OfCaller(w)'
  BY <1>3, <1>4, <1>5, <1>6, <1>7, <1>8, <1>9, <1>11 DEF Arrive, Continue, Lock
<1>12. CASE Tick \/ UNCHANGED vars
  BY <1>2, <1>12 DEF Tick, vars
<1> QED BY <1>10, <1>11, <1>12 DEF Next, Over

(* Every step keeps what clients hold listed.                              *)
LEMMA ListedStep ==
  ASSUME IInv, Listed, [Next]_vars
  PROVE  Listed'
<1> USE DEF IInv
<1>1. \A j : (IsAccess(j) => IsAccess(j)') /\ (IsRefresh(j) => IsRefresh(j)')
  BY TokensAreNew DEF IsAccess, IsRefresh
<1>2. \A j \in held' : \/ j \in held
                       \/ \E w \in Workers : /\ pc[w] = "respond"
                                             /\ j \in {req[w].access, req[w].refresh}
  BY Changes DEF Respond
<1>3. ASSUME NEW w \in Workers, pc[w] = "respond"
      PROVE  /\ \E s \in sessions : s.jti = req[w].access
             /\ IsAccess(req[w].access) /\ IsRefresh(req[w].refresh)
  BY <1>3 DEF Listed, OfCaller, Linked
<1>4. \A j \in held' : IsAccess(j)' \/ IsRefresh(j)'
  BY <1>1, <1>2, <1>3 DEF Listed
<1>5. ASSUME NEW m \in sessions', NEW t \in tokens', t.jti = m.jti PROVE t.user = m.user
  <2>1. ASSUME NEW s \in sessions, SameSession(s, m) PROVE t.user = m.user
    <3>1. t \in tokens
      BY <1>5, <2>1, TokensAreNew DEF SameSession, Linked, IsAccess, Fresh
    <3> QED BY <1>5, <2>1, <3>1 DEF Listed, SameSession
  <2>2. ASSUME NEW w \in Workers, CreateSession(w),
               m.jti = req[w].access, m.user = req[w].user
        PROVE  t.user = m.user
    <3>1. t \in tokens /\ pc[w] = "create"
      BY <2>2 DEF CreateSession
    <3> QED BY <1>5, <2>2, <3>1 DEF Listed, OfCaller
  <2> QED BY <2>1, <2>2, SessionsStay
<1>6. ASSUME NEW t \in tokens', t.purpose = "access", t.jti \in held'
      PROVE  \E m \in sessions' : m.jti = t.jti
  <2>1. t \in tokens
    <3>1. CASE t.jti \in held
      BY <3>1, TokensAreNew DEF Listed, IsAccess, IsRefresh, Fresh
    <3>2. ASSUME NEW w \in Workers, pc[w] = "respond",
                 t.jti \in {req[w].access, req[w].refresh}
          PROVE  t \in tokens
      BY <1>3, <3>2, TokensAreNew DEF IsAccess, IsRefresh, Fresh
    <3> QED BY <1>2, <1>6, <3>1, <3>2
  <2>2. \E s \in sessions : s.jti = t.jti
    <3>1. CASE t.jti \in held
      BY <1>6, <2>1, <3>1 DEF Listed
    <3>2. ASSUME NEW w \in Workers, pc[w] = "respond",
                 t.jti \in {req[w].access, req[w].refresh}
          PROVE  \E s \in sessions : s.jti = t.jti
      <4>1. IsAccess(t.jti)
        BY <1>6, <2>1 DEF IsAccess
      <4>2. t.jti # req[w].refresh
        BY <1>3, <3>2, <4>1, OnePurpose
      <4> QED BY <1>3, <3>2, <4>2
    <3> QED BY <1>2, <1>6, <3>1, <3>2
  <2> QED BY <2>2, SessionsStay DEF SameSession
<1> QED BY <1>4, <1>5, <1>6, CallersStep DEF Listed

(* Every access token that a client can use belongs to a session the       *)
(* account's list shows as live, where it can be ended.                    *)
THEOREM TokensAreListed == Spec => []LiveTokensListed
<1>1. Init => Listed
  BY DEF Init, Listed, OfCaller
<1>2. IInv /\ Listed /\ [Next]_vars => Listed'
  BY ListedStep
<1>3. IInv /\ Listed => LiveTokensListed
  <2> SUFFICES ASSUME IInv, Listed, NEW t \in tokens, Admits(t, "access")
               PROVE  \E s \in sessions : s.jti = t.jti /\ s.user = t.user /\ ~s.revoked
    BY DEF LiveTokensListed
  <2>1. t.purpose = "access" /\ t.jti \in held /\ ~Revoked(t.jti)
    BY DEF Admits
  <2>2. PICK s \in sessions : s.jti = t.jti
    BY <2>1 DEF Listed
  <2>3. s.user = t.user
    BY <2>2 DEF Listed
  <2>4. ~s.revoked
    BY <2>1, <2>2 DEF IInv, EndedTogether
  <2> QED BY <2>2, <2>3, <2>4
<1> QED BY InitInv, StepInv, <1>1, <1>2, <1>3, PTL DEF Spec

-----------------------------------------------------------------------------
(* A refused revocation. The constraint refuses a revocation only because  *)
(* another request has revoked the same session, or its refresh token.     *)

Harmless ==
    \A j \in refused : \E s \in sessions : s.jti = j /\ Revoked(s.refresh_jti)

(* A revocation is never taken back.                                       *)
LEMMA RevokedStays ==
  ASSUME [Next]_vars, NEW j, Revoked(j)
  PROVE  Revoked(j)'
<1>1. revoked \subseteq revoked'
  BY Changes DEF Commit
<1> QED BY <1>1 DEF Revoked

(* Every step refuses only what has been done.                             *)
LEMMA HarmlessStep ==
  ASSUME IInv, Harmless, [Next]_vars
  PROVE  Harmless'
<1> USE DEF IInv
<1>1. SUFFICES ASSUME NEW j \in refused'
               PROVE  \E s \in sessions : s.jti = j /\ Revoked(s.refresh_jti)
  BY SessionsStay, RevokedStays DEF Harmless, SameSession
<1>2. CASE j \in refused
  BY <1>2 DEF Harmless
<1>3. ASSUME NEW w \in Workers, RefuseInsert(w), j = req[w].access
      PROVE  \E s \in sessions : s.jti = j /\ Revoked(s.refresh_jti)
  <2>1. PICK s \in sessions : s.jti = j
    BY <1>3 DEF RefuseInsert, Linked, Closes
  <2> QED BY <1>3, <2>1 DEF RefuseInsert, EndedTogether
<1>4. ASSUME NEW w \in Workers, RefuseCommit(w), j = req[w].access
      PROVE  \E s \in sessions : s.jti = j /\ Revoked(s.refresh_jti)
  BY <1>4 DEF RefuseCommit, Linked, Closes
<1>5. \/ j \in refused
      \/ \E w \in Workers : (RefuseInsert(w) \/ RefuseCommit(w)) /\ j = req[w].access
  BY Changes DEF RefuseInsert, RefuseCommit, Refuse
<1> QED BY <1>2, <1>3, <1>4, <1>5

(* When the unique constraint makes a logout or a revocation fail, the     *)
(* session it was to end cannot be refreshed any more all the same.        *)
THEOREM RefusalsAreHarmless == Spec => []RefusedIsHarmless
<1>1. Init => Harmless
  BY DEF Init, Harmless
<1>2. IInv /\ Harmless /\ [Next]_vars => Harmless'
  BY HarmlessStep
<1>3. IInv /\ Harmless => RefusedIsHarmless
  BY DEF IInv, TypeOK, Harmless, RefusedIsHarmless
<1> QED BY InitInv, StepInv, <1>1, <1>2, <1>3, PTL DEF Spec

-----------------------------------------------------------------------------
(* The refinement. A step either leaves the sessions, seen as pairs of     *)
(* tokens, and the revoked tokens alone, or is the row of a new session or *)
(* the commit of a logout or of a revocation.                              *)

Opened == {PairOf(s) : s \in sessions}
Revocations == {r.jti : r \in revoked}
LatePairs == {PairOf(s) : s \in {t \in sessions : t.late}}

(* The mapped tokens are the rows' tokens.                                 *)
LEMMA PairFields ==
  \A s : PairOf(s).access = s.jti /\ PairOf(s).refresh = s.refresh_jti
  BY DEF PairOf

(* Marking a session is not seen.                                          *)
LEMMA MarkedUnseen ==
  ASSUME TypeOK, NEW w \in Workers, Commit(w)
  PROVE  Opened' = Opened /\ LatePairs' = LatePairs
<1>1. sessions' = {Ended(s, req[w].access) : s \in sessions}
  BY DEF Commit, MarkRevoked
<1>2. \A s \in sessions :
         /\ PairOf(Ended(s, req[w].access)) = PairOf(s)
         /\ Ended(s, req[w].access).late = s.late
  BY EndedType DEF TypeOK, PairOf
<1>3. Opened' = Opened
  BY <1>1, <1>2 DEF Opened
<1>4. LatePairs' = LatePairs
  BY <1>1, <1>2 DEF LatePairs
<1> QED BY <1>3, <1>4

(* A worker on its way to a session of j is not the one that revoked j, so *)
(* fewer than all the others have opened late sessions of j.               *)
LEMMA LateRoom ==
  ASSUME IInv, NEW w \in Workers, pc[w] = "create", Revoked(req[w].refresh)
  PROVE  Cardinality({p \in LatePairs : p.refresh = req[w].refresh})
           < Cardinality(Workers) - 1
<1> DEFINE j == req[w].refresh
           Seen == {p \in LatePairs : p.refresh = j}
           f == [s \in Late(j) |-> PairOf(s)]
<1>1. Cardinality(Late(j)) + Cardinality(Opening(j)) < Cardinality(Workers)
  BY DEF IInv, LateBound
<1>2. w \in Opening(j)
  BY DEF Opening, Opens
<1>3. /\ IsFiniteSet(Late(j)) /\ IsFiniteSet(Opening(j))
      /\ Cardinality(Late(j)) \in Nat /\ Cardinality(Opening(j)) \in Nat
      /\ Cardinality(Workers) \in Nat
  BY Finite DEF IInv
<1>4. Cardinality(Opening(j)) # 0
  BY <1>2, <1>3, FS_EmptySet
<1>5. Seen = {PairOf(s) : s \in Late(j)}
  BY PairFields DEF LatePairs, Late
<1>6. f \in Surjection(Late(j), Seen)
  BY <1>5 DEF Surjection
<1>7. IsFiniteSet(Seen) /\ Cardinality(Seen) <= Cardinality(Late(j))
  BY <1>3, <1>6, FS_Surjection
<1>8. Cardinality(Seen) \in Nat
  BY <1>7, FS_CardinalityType
<1> QED BY <1>1, <1>3, <1>4, <1>7, <1>8

(* The row of a new session opens it.                                      *)
LEMMA CreateOpens ==
  ASSUME IInv, NEW w \in Workers, CreateSession(w)
  PROVE  \E p \in Families!Pair : Families!Open(p)
<1> USE DEF IInv
<1>1. PICK s : /\ sessions' = sessions \cup {s}
               /\ s.jti = req[w].access /\ s.refresh_jti = req[w].refresh
               /\ (s.late <=> Revoked(req[w].refresh))
  <2> DEFINE s == [user |-> req[w].user, jti |-> req[w].access,
                   refresh_jti |-> req[w].refresh, revoked |-> FALSE,
                   late |-> Revoked(req[w].refresh)]
  <2>1. /\ s.jti = req[w].access /\ s.refresh_jti = req[w].refresh
        /\ (s.late <=> Revoked(req[w].refresh))
    OBVIOUS
  <2>2. sessions' = sessions \cup {s}
    BY DEF CreateSession
  <2> QED BY <2>1, <2>2
<1>2. pc[w] = "create" /\ revoked' = revoked
  BY DEF CreateSession
<1>3. IsAccess(req[w].access) /\ IsRefresh(req[w].refresh)
      /\ \A t \in sessions : t.jti # req[w].access
  BY <1>2 DEF Linked, Opens
<1> DEFINE p == PairOf(s)
<1>4. p.access = req[w].access /\ p.refresh = req[w].refresh
  BY <1>1, PairFields
<1>5. p \in Families!Pair
  <2>1. req[w].access \in Jtis /\ req[w].refresh \in Jtis
    BY <1>2 DEF TypeOK
  <2> QED BY <1>1, <2>1 DEF PairOf, Families!Pair
<1>6. Opened' = Opened \cup {p} /\ Revocations' = Revocations
  BY <1>1, <1>2 DEF Opened, Revocations
<1>7. \A j : j \in Revocations <=> Revoked(j)
  BY DEF Revocations, Revoked
<1>8. Families!IsNew(p)
  <2>1. p.access # p.refresh
    BY <1>3, <1>4, OnePurpose
  <2>2. p.access \notin Revocations
    BY <1>3, <1>4, <1>7, OnePurpose DEF Linked
  <2>3. ASSUME NEW q \in Opened
        PROVE  p.access \notin {q.access, q.refresh} /\ p.refresh # q.access
    <3>1. PICK t \in sessions : q.access = t.jti /\ q.refresh = t.refresh_jti
      BY <2>3, PairFields DEF Opened
    <3>2. IsAccess(t.jti) /\ IsRefresh(t.refresh_jti) /\ t.jti # p.access
      BY <1>3, <1>4 DEF Linked
    <3> QED BY <1>3, <1>4, <3>1, <3>2, OnePurpose
  <2> QED BY <2>1, <2>2, <2>3 DEF Families!IsNew, Opened, Revocations
<1>9. CASE ~Revoked(req[w].refresh)
  <2>1. LatePairs' = LatePairs
    BY <1>1, <1>9 DEF LatePairs
  <2>2. p.refresh \notin Revocations
    BY <1>4, <1>7, <1>9
  <2> HIDE DEF p
  <2>3. Families!Open(p)
    BY <1>6, <1>8, <2>1, <2>2 DEF Families!Open, Opened, Revocations, LatePairs
  <2> QED BY <1>5, <2>3
<1>10. CASE Revoked(req[w].refresh)
  <2>1. LatePairs' = LatePairs \cup {p}
    BY <1>1, <1>10 DEF LatePairs
  <2>2. Families!Cardinality(Families!LateOf(p.refresh)) < Cardinality(Workers) - 1
    <3>1. Cardinality(Families!LateOf(p.refresh)) < Cardinality(Workers) - 1
      BY <1>2, <1>4, <1>10, LateRoom DEF Families!LateOf, LatePairs
    \* the operator of FiniteSets, seen through the instance
    <3> QED BY <3>1 DEF Cardinality, Families!Cardinality
  <2>3. p.refresh \in Revocations
    BY <1>4, <1>7, <1>10
  <2> HIDE DEF p
  <2>4. Families!Open(p)
    BY <1>6, <1>8, <2>1, <2>2, <2>3 DEF Families!Open, Opened, Revocations, LatePairs
  <2> QED BY <1>5, <2>4
<1> QED BY <1>9, <1>10

(* The commit of a logout or of a revocation ends its session.             *)
LEMMA CommitEnds ==
  ASSUME IInv, NEW w \in Workers, Commit(w)
  PROVE  \E p \in Families!Pair : Families!End(p)
<1> USE DEF IInv
<1>1. pc[w] = "commit"
  BY DEF Commit
<1>2. PICK s \in sessions : s.jti = req[w].access /\ s.refresh_jti = req[w].refresh
  BY <1>1 DEF Linked, Closes
<1>3. ~Revoked(s.jti) /\ (~req[w].both => Revoked(s.refresh_jti))
  BY <1>1, <1>2 DEF Linked, Exclusive
<1>4. \A j : Revoked(j)' <=> Revoked(j) \/ j = s.jti \/ j = s.refresh_jti
  BY <1>2, <1>3, CommitEffect
<1>5. (\A j : j \in Revocations <=> Revoked(j)) /\ (\A j : j \in Revocations' <=> Revoked(j)')
  BY DEF Revocations, Revoked
<1>6. Revocations' = Revocations \cup {s.jti, s.refresh_jti}
  BY <1>4, <1>5
<1> DEFINE p == PairOf(s)
<1>7. p \in Opened /\ p.access = s.jti /\ p.refresh = s.refresh_jti
  BY PairFields DEF Opened
<1>8. p \in Families!Pair
  BY DEF PairOf, Families!Pair, TypeOK, Session
<1>9. Opened' = Opened /\ LatePairs' = LatePairs
  BY MarkedUnseen
<1>10. p.access \notin Revocations
  BY <1>3, <1>5, <1>7
<1> QED BY <1>6, <1>7, <1>8, <1>9, <1>10 DEF Families!End, Opened, Revocations, LatePairs

(* Sessions as their clients see them: however the requests of any number  *)
(* of workers interleave, wait for each other, are refused or die, the     *)
(* tables go through sessions that are opened under tokens of their own    *)
(* and ended at once with both tokens, and through nothing else.           *)
THEOREM SessionsImplementFamilies == Spec => ImplementsFamilies
<1>1. Init => Families!FamilyInit
  BY DEF Init, Families!FamilyInit
<1>2. IInv /\ [Next]_vars => [Families!FamilyNext]_(Families!familyVars)
  <2> SUFFICES ASSUME IInv, [Next]_vars
               PROVE  Families!FamilyNext \/ UNCHANGED Families!familyVars
    OBVIOUS
  <2>1. ASSUME NEW w \in Workers, CreateSession(w) PROVE Families!FamilyNext
    BY <2>1, CreateOpens DEF Families!FamilyNext
  <2>2. ASSUME NEW w \in Workers, Commit(w) PROVE Families!FamilyNext
    BY <2>2, CommitEnds DEF Families!FamilyNext
  <2>3. CASE sessions' = sessions /\ revoked' = revoked
    BY <2>3 DEF Families!familyVars
  <2>4. \/ sessions' = sessions /\ revoked' = revoked
        \/ \E w \in Workers : CreateSession(w) \/ Commit(w)
    BY SessionsChange
  <2> QED BY <2>1, <2>2, <2>3, <2>4
<1> QED BY InitInv, StepInv, <1>1, <1>2, PTL DEF Spec, ImplementsFamilies, Families!FamilySpec

=============================================================================
