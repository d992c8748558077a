--------------------------- MODULE TokenFamilies ---------------------------
(***************************************************************************)
(* What the tables sessions and revoked_tokens promise about tokens, one   *)
(* atomic step at a time: a session is an access token nobody has seen     *)
(* before together with the refresh token of its login, which all sessions *)
(* refreshed from that login share. A session ends with both its tokens at *)
(* once, once, and no token is ever ended in another way or comes back.    *)
(* Under a refresh token that has ended only Slack sessions more can be    *)
(* opened. Module Sessions, with its workers, locks, refusals and crashes, *)
(* implements this specification.                                          *)
(***************************************************************************)
EXTENDS Integers, FiniteSets

CONSTANTS
    Jtis,   \* the token ids
    Slack   \* how many sessions may outlive the end of their refresh token

VARIABLES
    opened, \* the sessions: pairs of an access and a refresh token
    ended,  \* the tokens that are revoked
    late    \* the sessions opened after their refresh token had ended

familyVars == <<opened, ended, late>>

Pair == [access: Jtis, refresh: Jtis]

FamilyInit == opened = {} /\ ended = {} /\ late = {}

LateOf(r) == {p \in late : p.refresh = r}

(* No session has the access token of p yet, nor is it a refresh token, or *)
(* the refresh token of p an access token.                                 *)
IsNew(p) ==
    /\ p.access # p.refresh /\ p.access \notin ended
    /\ \A q \in opened : p.access \notin {q.access, q.refresh} /\ p.refresh # q.access

(* A login, or a refresh, opens a session.                                 *)
Open(p) ==
    /\ IsNew(p)
    /\ opened' = opened \cup {p}
    /\ \/ p.refresh \notin ended /\ UNCHANGED late
       \/ /\ p.refresh \in ended /\ Cardinality(LateOf(p.refresh)) < Slack
          /\ late' = late \cup {p}
    /\ UNCHANGED ended

(* A logout, or a revocation, ends a session with both its tokens.         *)
End(p) ==
    /\ p \in opened /\ p.access \notin ended
    /\ ended' = ended \cup {p.access, p.refresh}
    /\ UNCHANGED <<opened, late>>

FamilyNext == \E p \in Pair : Open(p) \/ End(p)

FamilySpec == FamilyInit /\ [][FamilyNext]_familyVars

=============================================================================
