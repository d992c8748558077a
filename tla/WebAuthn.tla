------------------------------ MODULE WebAuthn ------------------------------
(***************************************************************************)
(* The security keys of one account: registration, removal and login in    *)
(* the handlers webauthn_register_begin and _complete,                     *)
(* remove_webauthn_credential, webauthn_login_begin and _complete of       *)
(* app/routes/auth.py, and the signature counter that is to make every     *)
(* login response usable once.                                             *)
(*                                                                         *)
(* Several gunicorn workers share one database. A challenge is a signed    *)
(* token that lives five minutes; the server keeps nothing of it, so a     *)
(* response to it may arrive again while it lives. A login reads the key's *)
(* row, compares the counters and writes the new count in a transaction of *)
(* its own; a removal likewise reads and then deletes.                     *)
(*                                                                         *)
(* A key is one credential of an authenticator. Signatures, the lockout    *)
(* check and the recorded attempts of the login (module Lockout) are left  *)
(* out; a response that does not verify changes nothing here.              *)
(***************************************************************************)
EXTENDS Integers, FiniteSets

CONSTANTS
    Keys,        \* the credentials authenticators may create for the account
    Counterless, \* those whose authenticator always sends the count 0
    Workers,     \* the gunicorn worker processes
    None,        \* no key
    MaxCount,    \* bound: how often a key signs
    MaxArrived,  \* bound: how many requests arrive
    MaxCrashes   \* bound: how many of them die half-way

ASSUME KeysAssumption == Counterless \subseteq Keys /\ None \notin Keys
ASSUME WorkersAssumption == IsFiniteSet(Workers) /\ Workers # {}
ASSUME BoundsAssumption == MaxCount \in Nat /\ MaxArrived \in Nat /\ MaxCrashes \in Nat

VARIABLES
    credentials, \* the committed rows of webauthn_credentials
    seq,         \* the id sequence of that table
    attested,    \* attested[k]: the state of k's registration challenge
    counter,     \* counter[k]: how often k has signed
    asserted,    \* the login responses whose challenge has not expired
    opened,      \* the sessions opened by a key
    pc,          \* pc[w]: what worker w does next
    req,         \* req[w]: what its handler keeps
    arrived,     \* how many requests have arrived
    crashes      \* how many have died half-way

keys == <<attested, counter, asserted>>
vars == <<credentials, seq, keys, opened, pc, req, arrived, crashes>>

WebAuthnCredential == [id: Nat \ {0}, key: Keys, sign_count: Nat]

Assertion == [key: Keys, count: Nat]

(* late is history: the key's row had been removed.                        *)
Opened == [id: Nat, count: Nat, late: BOOLEAN, nth: Nat]

(* id and key are those of the row the handler has read, count is that of  *)
(* the verified response.                                                  *)
Request == [id: Nat, key: Keys \cup {None}, count: Nat]

NoRequest == [id |-> 0, key |-> None, count |-> 0]

PCs == {"idle", "insert", "delete", "store", "session"}

Init ==
    /\ credentials = {} /\ seq = 0
    /\ attested = [k \in Keys |-> "none"]
    /\ counter = [k \in Keys |-> 0] /\ asserted = {}
    /\ opened = {}
    /\ pc = [w \in Workers |-> "idle"]
    /\ req = [w \in Workers |-> NoRequest]
    /\ arrived = 0 /\ crashes = 0

-----------------------------------------------------------------------------
Goto(w, step) == pc' = [pc EXCEPT ![w] = step]

Finish(w) == Goto(w, "idle") /\ req' = [req EXCEPT ![w] = NoRequest]

Accept(w, step, r) ==
    /\ pc[w] = "idle" /\ arrived < MaxArrived
    /\ arrived' = arrived + 1
    /\ Goto(w, step)
    /\ req' = [req EXCEPT ![w] = r]
    /\ UNCHANGED <<credentials, seq, keys, opened, crashes>>

RowOf(k) == {r \in credentials : r.key = k}

-----------------------------------------------------------------------------
(* POST /webauthn/register/begin and an authenticator that answers its     *)
(* challenge with a new credential.                                        *)
RegisterBegin(k) ==
    /\ attested[k] = "none"
    /\ attested' = [attested EXCEPT ![k] = "live"]
    /\ UNCHANGED <<credentials, seq, counter, asserted, opened, pc, req, arrived, crashes>>

(* The registration challenge is past its five minutes.                    *)
ExpireRegistration(k) ==
    /\ attested[k] = "live"
    /\ attested' = [attested EXCEPT ![k] = "expired"]
    /\ UNCHANGED <<credentials, seq, counter, asserted, opened, pc, req, arrived, crashes>>

(* Fault: the challenge token's expiry is not checked.                     *)
BugRegisterComplete(w, k) ==
    /\ attested[k] # "none"
    /\ Accept(w, "insert", [NoRequest EXCEPT !.key = k])

(* POST /webauthn/register/complete with the response, or with a copy of   *)
(* it, ...                                                                 *)
RegisterComplete(w, k) ==
    /\ attested[k] = "live"
    /\ Accept(w, "insert", [NoRequest EXCEPT !.key = k])

(* ... which is stored with the counter of a fresh credential, unless the  *)
(* unique credential_id has a row already: then the request fails. An id   *)
(* is used up either way.                                                  *)
InsertCredential(w) ==
    /\ pc[w] = "insert"
    /\ seq' = seq + 1
    /\ \/ /\ RowOf(req[w].key) = {}
          /\ credentials' = credentials \cup
                {[id |-> seq + 1, key |-> req[w].key, sign_count |-> 0]}
       \/ RowOf(req[w].key) # {} /\ UNCHANGED credentials
    /\ Finish(w)
    /\ UNCHANGED <<keys, opened, arrived, crashes>>

(* DELETE /webauthn/credentials/<id> finds the row ...                     *)
RemoveCredential(w) ==
    \E r \in credentials : Accept(w, "delete", [NoRequest EXCEPT !.id = r.id, !.key = r.key])

(* ... and deletes it; if it is gone the DELETE matches nothing, which is  *)
(* only a warning.                                                         *)
DeleteCredential(w) ==
    /\ pc[w] = "delete"
    /\ credentials' = {r \in credentials : r.id # req[w].id}
    /\ Finish(w)
    /\ UNCHANGED <<seq, keys, opened, arrived, crashes>>

-----------------------------------------------------------------------------
(* POST /webauthn/login/begin, which gives a challenge to an account that  *)
(* has a key, and the key that signs it.                                   *)
LoginBegin(k) ==
    /\ RowOf(k) # {} /\ counter[k] < MaxCount
    /\ \/ /\ k \in Counterless
          /\ asserted' = asserted \cup {[key |-> k, count |-> 0]}
          /\ UNCHANGED counter
       \/ /\ k \notin Counterless
          /\ counter' = [counter EXCEPT ![k] = @ + 1]
          /\ asserted' = asserted \cup {[key |-> k, count |-> counter[k] + 1]}
    /\ UNCHANGED <<credentials, seq, attested, opened, pc, req, arrived, crashes>>

(* The login challenge is past its five minutes.                           *)
ExpireLogin(a) ==
    /\ asserted' = asserted \ {a}
    /\ UNCHANGED <<credentials, seq, attested, counter, opened, pc, req, arrived, crashes>>

(* Fault: an equal count is accepted.                                      *)
BugNewer(a, r) == r.key = a.key /\ a.count >= r.sign_count

(* The counter has grown. Neither the library nor the check that follows   *)
(* its verification lets an equal count pass, so a key that does not count *)
(* never opens a session.                                                  *)
Newer(a, r) == r.key = a.key /\ a.count > r.sign_count

(* Fault: the key is looked up among those the challenge was made for, and *)
(* its row is not read again.                                              *)
BugLoginComplete(w, a) ==
    \E i \in 1..seq : Accept(w, "session", [id |-> i, key |-> a.key, count |-> a.count])

(* POST /webauthn/login/complete with a response, or with a copy of it: it *)
(* verifies against the row of this moment, ...                            *)
LoginComplete(w, a) ==
    \E r \in credentials :
        /\ Newer(a, r)
        /\ Accept(w, "store", [id |-> r.id, key |-> r.key, count |-> a.count])

Counted(r, w) == IF r.id = req[w].id THEN [r EXCEPT !.sign_count = req[w].count] ELSE r

(* ... its count is written to that row, whatever count the row has by     *)
(* now, or the request fails because the row is gone, ...                  *)
StoreCount(w) ==
    /\ pc[w] = "store"
    /\ credentials' = {Counted(r, w) : r \in credentials}
    /\ \/ (\E r \in credentials : r.id = req[w].id) /\ Goto(w, "session") /\ UNCHANGED req
       \/ (\A r \in credentials : r.id # req[w].id) /\ Finish(w)
    /\ UNCHANGED <<seq, keys, opened, arrived, crashes>>

(* ... and a session is opened.                                            *)
OpenSession(w) ==
    /\ pc[w] = "session"
    /\ opened' = opened \cup
          {[id |-> req[w].id, count |-> req[w].count, nth |-> Cardinality(opened) + 1,
            late |-> \A r \in credentials : r.id # req[w].id]}
    /\ Finish(w)
    /\ UNCHANGED <<credentials, seq, keys, arrived, crashes>>

-----------------------------------------------------------------------------
(* The worker dies: what it has not committed is lost.                     *)
Crash(w) ==
    /\ pc[w] # "idle" /\ crashes < MaxCrashes
    /\ crashes' = crashes + 1
    /\ Finish(w)
    /\ UNCHANGED <<credentials, seq, keys, opened, arrived>>

Ceremony ==
    \/ \E k \in Keys : RegisterBegin(k) \/ ExpireRegistration(k) \/ LoginBegin(k)
    \/ \E a \in asserted : ExpireLogin(a)

Arrive(w) ==
    \/ \E k \in Keys : RegisterComplete(w, k)
    \/ RemoveCredential(w)
    \/ \E a \in asserted : LoginComplete(w, a)

Continue(w) ==
    InsertCredential(w) \/ DeleteCredential(w) \/ StoreCount(w) \/ OpenSession(w)

(* Nothing makes a client send a request, so the service may stand still.  *)
Next == Ceremony \/ \E w \in Workers : Arrive(w) \/ Continue(w) \/ Crash(w)

Spec == Init /\ [][Next]_vars

-----------------------------------------------------------------------------
(* Properties.                                                             *)

(* Every variable keeps its type; a key has one row and an id one owner.   *)
TypeOK ==
    /\ credentials \subseteq WebAuthnCredential
    /\ \A q, r \in credentials : q.key = r.key \/ q.id = r.id => q = r
    /\ seq \in Nat /\ \A r \in credentials : r.id <= seq
    /\ attested \in [Keys -> {"none", "live", "expired"}]
    /\ counter \in [Keys -> Nat] /\ asserted \subseteq Assertion
    /\ opened \subseteq Opened /\ IsFiniteSet(opened)
    /\ pc \in [Workers -> PCs] /\ req \in [Workers -> Request]
    /\ \A w \in Workers : pc[w] = "insert" => req[w].key \in Keys
    /\ arrived \in Nat /\ crashes \in Nat

(* Row i and every login that is still to store its count there are at c   *)
(* or above.                                                               *)
HeldAbove(i, c) ==
    /\ \E r \in credentials : r.id = i /\ c <= r.sign_count
    /\ \A w \in Workers : pc[w] = "store" /\ req[w].id = i => c <= req[w].count

(* A login that stores its count after another has stored a greater one    *)
(* turns the counter back, and a response may be accepted again. But it    *)
(* turns it back no further than to the smallest count in flight: once the *)
(* row and every login in flight are at c or above they stay there, and no *)
(* response with a count of c or below is accepted any more.               *)
CounterHolds ==
    [][\A i \in 1..seq, c \in 0..MaxCount :
          HeldAbove(i, c) =>
              /\ HeldAbove(i, c)' \/ \A r \in credentials' : r.id # i
              /\ \A w \in Workers : pc[w] = "idle" /\ pc'[w] = "store" /\ req'[w].id = i
                                       => c < req'[w].count]_vars

(* A removed key opens a session only for requests that had stored their   *)
(* count before the removal: at most one per further worker.               *)
LateKeysBounded ==
    \A i \in 1..seq : Cardinality({o \in opened : o.id = i /\ o.late}) < Cardinality(Workers)

(* k has no row, and no request can give it one.                           *)
Gone(k) ==
    /\ attested[k] = "expired" /\ RowOf(k) = {}
    /\ \A w \in Workers : pc[w] = "insert" => req[w].key # k

(* A late copy of the registration brings a removed key back, but only     *)
(* while its challenge lives: after that a removed key stays removed.      *)
RemovedForGood == [][\A k \in Keys : Gone(k) => Gone(k)']_vars

(* What the documentation says and the code does not do.                   *)

(* SECURITY.md: sign_count must strictly increase on every use.            *)
CounterIncreases ==
    [][\A q \in credentials, r \in credentials' :
          q.id = r.id => q.sign_count <= r.sign_count]_vars

=============================================================================
