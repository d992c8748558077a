----------------------------- MODULE AuditChain -----------------------------
(***************************************************************************)
(* The hash-chained audit log of app/security/audit_logger.py. log_event   *)
(* reads the newest row's hash, flushes a new row (which gives it its id   *)
(* and its timestamp), computes the row's hash and commits; verify_chain   *)
(* walks the committed rows in id order. Several gunicorn workers log at   *)
(* once over one database at READ COMMITTED: a flushed row is invisible to *)
(* the others until it commits, and ids come from a sequence that never    *)
(* goes back. Rows may also be edited or deleted outside the application,  *)
(* which is what the chain is there to show.                               *)
(*                                                                         *)
(* SHA-256 is taken to be injective: a hash is the tuple of what it is     *)
(* computed from. The columns user_id, event_type, ip_address, details and *)
(* created_at are one value, details; Null is SQL NULL, and str() turns it *)
(* into the text "None".                                                   *)
(***************************************************************************)
EXTENDS Integers, FiniteSets

CONSTANTS
    Workers,    \* the gunicorn worker processes
    Texts,      \* the values of the text columns
    Null,       \* SQL NULL in a text column
    MaxEntries, \* bound: how many rows are flushed
    MaxEdits    \* bound: how many rows are changed outside the application

ASSUME TextsAssumption == "None" \in Texts /\ Null \notin Texts
ASSUME BoundsAssumption == MaxEntries \in Nat /\ MaxEdits \in Nat

VARIABLES
    rows,   \* the committed rows of audit_log
    seq,    \* the id sequence
    pc,     \* pc[w]: where worker w is in log_event
    entry,  \* entry[w]: the row it is writing
    edits   \* history: the changes made outside the application

vars == <<rows, seq, pc, entry, edits>>

Details == Texts \cup {Null}

(* The text the hash is computed from: str(entry.details).                 *)
Str(d) == IF d = Null THEN "None" ELSE d

(* SQL NULL in prev_hash: the first row has no row before it.              *)
NoHash == <<>>

(* Fault: the text columns are left out of the hash.                       *)
BugComputeHash(id, details, prev_hash) == <<id, prev_hash>>

(* _compute_hash                                                           *)
ComputeHash(id, details, prev_hash) == <<id, Str(details), prev_hash>>

(* An AuditLog row; id 0 is a row that is not flushed yet.                 *)
AuditLog(i, d, p, h) == [id |-> i, details |-> d, prev_hash |-> p, hash |-> h]

NoEntry == AuditLog(0, Null, NoHash, NoHash)

Init ==
    /\ rows = {} /\ seq = 0 /\ edits = {}
    /\ pc = [w \in Workers |-> "idle"]
    /\ entry = [w \in Workers |-> NoEntry]

-----------------------------------------------------------------------------
(* The row with the greatest id.                                           *)
IsNewest(e) == e \in rows /\ \A f \in rows : f.id <= e.id

(* Fault: rows other workers have not committed are read too.              *)
BugDirtyHashes ==
    LET seen == rows \cup {entry[w] : w \in {v \in Workers : pc[v] = "commit"}}
    IN  IF seen = {} THEN {NoHash} ELSE {e.hash : e \in {f \in seen : \A g \in seen : g.id <= f.id}}

(* The hash of the newest row, NULL when there is none.                    *)
LastHashes ==
    IF rows = {} THEN {NoHash} ELSE {e.hash : e \in {f \in rows : IsNewest(f)}}

(* log_event, line by line: the newest row's hash is read, ...             *)
ReadLastEntry(w) ==
    /\ pc[w] = "idle" /\ seq < MaxEntries
    /\ \E d \in Details, h \in LastHashes :
          entry' = [entry EXCEPT ![w] = AuditLog(0, d, h, NoHash)]
    /\ pc' = [pc EXCEPT ![w] = "flush"]
    /\ UNCHANGED <<rows, seq, edits>>

(* The id a flushed row gets.                                              *)
NextId == seq + 1

(* Fault: the hash is computed before the flush has set the id.            *)
BugFlush(w) ==
    LET d == entry[w].details  p == entry[w].prev_hash IN
    /\ pc[w] = "flush"
    /\ seq' = seq + 1
    /\ entry' = [entry EXCEPT ![w] = AuditLog(NextId, d, p, ComputeHash(0, d, p))]
    /\ pc' = [pc EXCEPT ![w] = "commit"]
    /\ UNCHANGED <<rows, edits>>

(* ... the row is flushed with a new id and its hash computed, ...         *)
Flush(w) ==
    LET d == entry[w].details  p == entry[w].prev_hash IN
    /\ pc[w] = "flush"
    /\ seq' = seq + 1
    /\ entry' = [entry EXCEPT ![w] = AuditLog(NextId, d, p, ComputeHash(NextId, d, p))]
    /\ pc' = [pc EXCEPT ![w] = "commit"]
    /\ UNCHANGED <<rows, edits>>

(* ... and committed.                                                      *)
Commit(w) ==
    /\ pc[w] = "commit"
    /\ rows' = rows \cup {entry[w]}
    /\ pc' = [pc EXCEPT ![w] = "idle"]
    /\ entry' = [entry EXCEPT ![w] = NoEntry]
    /\ UNCHANGED <<seq, edits>>

(* The worker dies or its transaction fails: the id is used up, the row is *)
(* not written.                                                            *)
Abort(w) ==
    /\ pc[w] # "idle"
    /\ pc' = [pc EXCEPT ![w] = "idle"]
    /\ entry' = [entry EXCEPT ![w] = NoEntry]
    /\ UNCHANGED <<rows, seq, edits>>

(* A row is edited or deleted directly in the database.                    *)
Change(kind, e, d) ==
    /\ Cardinality(edits) < MaxEdits
    /\ edits' = edits \cup {[kind |-> kind, id |-> e.id, old |-> e.details, new |-> d,
                             last |-> \A f \in rows : f.prev_hash # e.hash]}
    /\ UNCHANGED <<seq, pc, entry>>

Edit(e, d) ==
    /\ e.details # d
    /\ Change("edit", e, d)
    /\ rows' = (rows \ {e}) \cup {AuditLog(e.id, d, e.prev_hash, e.hash)}

Delete(e) ==
    /\ Change("delete", e, e.details)
    /\ rows' = rows \ {e}

(* The bounded run is over.                                                *)
Over ==
    /\ seq >= MaxEntries /\ \A w \in Workers : pc[w] = "idle"
    /\ UNCHANGED vars

Next ==
    \/ \E w \in Workers : ReadLastEntry(w) \/ Flush(w) \/ Commit(w) \/ Abort(w)
    \/ \E e \in rows : Delete(e) \/ \E d \in Details : Edit(e, d)
    \/ Over

Spec == Init /\ [][Next]_vars

-----------------------------------------------------------------------------
(* verify_chain: an entry is broken when its prev_hash is not the hash     *)
(* stored in the row before it in id order, or its own hash does not match *)
(* its columns. The walk stops at the first such entry.                    *)

Before(e) == {f \in rows : f.id < e.id}

(* Fault: only the first row's link is checked.                            *)
BugLinkOK(e) == Before(e) = {} => e.prev_hash = NoHash

LinkOK(e) ==
    IF Before(e) = {} THEN e.prev_hash = NoHash
    ELSE \E f \in Before(e) : e.prev_hash = f.hash /\ \A g \in Before(e) : g.id <= f.id

EntryOK(e) == LinkOK(e) /\ ComputeHash(e.id, e.details, e.prev_hash) = e.hash

Broken == {e \in rows : ~EntryOK(e)}

(* verify_chain's (False, broken_at_id) with broken_at_id = i.             *)
BrokenAt(i) == /\ \E e \in Broken : e.id = i
               /\ \A e \in Broken : i <= e.id

Intact == Broken = {}

-----------------------------------------------------------------------------
(* Properties.                                                             *)

(* Ids are handed out once; a worker in log_event holds the row it writes. *)
TypeOK ==
    /\ seq \in Nat
    /\ \A e \in rows : e.id \in 1..seq /\ e.details \in Details
    /\ \A e, f \in rows : e.id = f.id => e = f
    /\ pc \in [Workers -> {"idle", "flush", "commit"}]
    /\ \A w \in Workers :
          /\ entry[w].details \in Details
          /\ pc[w] = "commit" => entry[w].id \in 1..seq /\ \A e \in rows : e.id # entry[w].id

(* Nothing was changed outside the application, so verify-audit-log has    *)
(* nothing to report. It holds when one worker logs at a time.             *)
NoFalseAlarm == edits = {} => Intact

(* A broken link between rows that nobody touched never mends, whatever is *)
(* logged afterwards and however late a row of a slow worker commits: once *)
(* two workers have forked the chain, verify-audit-log reports it forever. *)
AlarmPermanent == [][edits' = {} => Broken \subseteq Broken']_vars

(* verify-audit-log raises a tampering alarm over a table nobody touched   *)
(* exactly when two committed rows continue from the same row: a row that  *)
(* commits late, an id that an aborted transaction used up, a gap: none of *)
(* them alarms by itself.                                                  *)
Forked == \E e, f \in rows : e # f /\ e.prev_hash = f.prev_hash

AlarmMeansFork == edits = {} => (Intact <=> ~Forked)

(* As long as the workers have not forked the chain, an edit of what the   *)
(* hash covers is reported at the edited entry itself, whatever was being  *)
(* logged at the time and whatever is logged afterwards.                   *)
EditShows ==
    \A x \in edits :
        /\ Cardinality(edits) = 1 /\ x.kind = "edit" /\ Str(x.old) # Str(x.new)
        /\ ~Forked
        => BrokenAt(x.id)

(* Deleting a row another one continues from leaves a broken entry behind  *)
(* it that no row logged or committed later mends, forked chain or not.    *)
DeleteShows ==
    \A x \in edits :
        Cardinality(edits) = 1 /\ x.kind = "delete" /\ ~x.last
            => \E e \in Broken : x.id < e.id

=============================================================================
