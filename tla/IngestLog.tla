------------------------------ MODULE IngestLog ------------------------------
(***************************************************************************)
(* The records table of the archive database and the change log that its   *)
(* three SQLite triggers keep: every INSERT, UPDATE and DELETE of a row     *)
(* advances archive_ingest_clock and appends one archive_ingest_events row  *)
(* in the writer's own transaction (internal/archive/store.go, OpenStore).  *)
(*                                                                         *)
(* A row is abstracted to its session and its body: the body stands for     *)
(* every other column a stable export prints (timestamps, principal, refs   *)
(* into the content-addressed blobs, facets).  Session identifiers are      *)
(* numbers, so that their bytewise order is <.                              *)
(***************************************************************************)
EXTENDS Integers, Sequences, FiniteSets, FiniteSetsExt

CONSTANTS Requests,     \* request identifiers
          Sessions,     \* session identifiers, ordered as numbers
          Bodies,       \* what the other exported columns of a row can say
          MaxTx,        \* bound: rows changed by one transaction
          MaxClock      \* bound: value of archive_ingest_clock

ASSUME SessionsAssumption == Sessions \subseteq Nat /\ IsFiniteSet(Sessions)
ASSUME RequestsAssumption == IsFiniteSet(Requests)
ASSUME IngestBoundsAssumption == MaxTx \in Nat \ {0} /\ MaxClock \in Nat

\* No row with this request_id; the empty previous_session_id.
NoRow == [session |-> -1, body |-> "none"]
NoSession == -1

Rows == [session : Sessions, body : Bodies]
Tables == [Requests -> Rows \cup {NoRow}]

VARIABLES records,  \* the records table: request_id -> row
          clock,    \* archive_ingest_clock.sequence
          events    \* archive_ingest_events

logVars == <<records, clock, events>>

Events == [sequence : Nat, session : Sessions, previous : Sessions \cup {NoSession}]

-----------------------------------------------------------------------------
\* What a stable export of session s prints: the rows whose session_id is s.
Content(table, s) ==
    {<<r, table[r].body>> : r \in {q \in Requests : table[q] # NoRow /\ table[q].session = s}}

AllContents == SUBSET (Requests \X Bodies)

View(table) == [s \in Sessions |-> Content(table, s)]

\* "events.session_id = s OR events.previous_session_id = s"
Concerns(e, s) == e.session = s \/ e.previous = s

\* COALESCE((SELECT MAX(sequence) FROM archive_ingest_events WHERE ...), 0)
SequencesOf(s) == {e.sequence : e \in {x \in events : Concerns(x, s)}}
SessionFence(s) == IF SequencesOf(s) = {} THEN 0 ELSE Max(SequencesOf(s))

\* WITH changed(session_id): sessions named by an event in (after, fence].
Changed(after, fence) ==
    {s \in Sessions : \E e \in events :
        e.sequence > after /\ e.sequence <= fence /\ Concerns(e, s)}

-----------------------------------------------------------------------------
\* Mutant: an update trigger that does not record where a row came from.
MutantTriggerPrevious(old, new) == NoSession

\* The row an INSERT, UPDATE or DELETE trigger writes about one changed row.
TriggerSession(old, new) == IF new = NoRow THEN old.session ELSE new.session
TriggerPrevious(old, new) ==
    IF old # NoRow /\ new # NoRow /\ old.session # new.session
    THEN old.session ELSE NoSession

\* One committed transaction: it changes the rows named by order, in that
\* order, to the rows of new; the triggers fire once for each.
Commit(order, new) ==
    /\ clock + Len(order) <= MaxClock
    /\ records' = [r \in Requests |-> IF r \in Range(order) THEN new[r] ELSE records[r]]
    /\ clock' = clock + Len(order)
    /\ events' = events \cup
          {[sequence |-> clock + i,
            session  |-> TriggerSession(records[order[i]], new[order[i]]),
            previous |-> TriggerPrevious(records[order[i]], new[order[i]])] :
           i \in DOMAIN order}

\* The rows a transaction visits: distinct requests, at most MaxTx of them.
Orders == UNION {{f \in [1..n -> Requests] : IsInjective(f)} : n \in 1..MaxTx}

Stored(r) == records[r] # NoRow

\* Store.PutBatch: a row is inserted, or its ON CONFLICT(request_id) clause
\* updates columns of the existing row, never its session_id.  A batch that
\* names a request twice has the effect of two batches in a row.
PutBatch ==
    \E order \in Orders : \E new \in [Range(order) -> Rows] :
        /\ \A r \in Range(order) : Stored(r) => new[r].session = records[r].session
        /\ Commit(order, new)

\* ApplyCredentialPrincipals, NormalizeHistoricalSSE, RepairRecordPreviews and
\* MigrateLegacy: one transaction that updates columns of existing rows, which
\* keep their session.
UpdateRows ==
    \E order \in Orders : \E new \in [Range(order) -> Rows] :
        /\ \A r \in Range(order) : Stored(r) /\ new[r].session = records[r].session
        /\ Commit(order, new)

\* RepairCanonicalSessions: one transaction that moves rows to other sessions
\* (session_id, and the session facet that is part of the body).
RepairCanonicalSessions ==
    \E order \in Orders : \E new \in [Range(order) -> Rows] :
        /\ \A r \in Range(order) : Stored(r) /\ new[r].session # records[r].session
        /\ Commit(order, new)

\* The program never deletes a row; the delete trigger is there for an operator
\* who does.
OperatorDelete ==
    \E order \in Orders :
        /\ \A r \in Range(order) : Stored(r)
        /\ Commit(order, [r \in Range(order) |-> NoRow])

WriteRows == PutBatch \/ UpdateRows \/ RepairCanonicalSessions \/ OperatorDelete

-----------------------------------------------------------------------------
\* The database when OpenStore has created the tables: rows written before the
\* upgrade have no events and the clock starts at MAX(records.id).  An archive
\* that these triggers have already written is a later state of this one; one
\* whose events an older release wrote without previous_session_id is left out.
LogInit ==
    /\ records \in Tables
    /\ clock = Cardinality({r \in Requests : Stored(r)})
    /\ events = {}

LogTypeOK ==
    /\ records \in Tables
    /\ clock \in Nat
    /\ events \subseteq Events
=============================================================================
