------------------------------ MODULE BlobStore ------------------------------
(***************************************************************************)
(* The blobs table and the references of the records table into it: the     *)
(* writers that add payloads (putPayload in PutBatch, MigrateLegacy and     *)
(* NormalizeHistoricalSSE) and the garbage collection of                    *)
(* POST /v1/maintenance/gc (internal/archive/store.go, session_index.go).   *)
(*                                                                         *)
(* The set of blobs that a payload stands for is constant here;             *)
(* PayloadCodec shows that the set nestedBlobRefs finds is the one that     *)
(* compaction stored and expansion loads.                                   *)
(*                                                                         *)
(* Transactions are SQLite's deferred ones: a transaction that starts with  *)
(* a write is serial; one that starts with a read sees the database of that *)
(* moment and may only write while no other transaction has committed a     *)
(* write since.                                                             *)
(***************************************************************************)
EXTENDS BlobContract

CONSTANT MaxCommits   \* bound: write transactions

ASSUME BlobsAssumption == MaxCommits \in Nat

VARIABLES normalized, \* the normalized_response_requests table
          commits,    \* write transactions so far
          gc,         \* GC: the commits its transaction has seen, and what it will delete
          normalize,  \* NormalizeHistoricalSSE: the same, with the row and its payload
          migrate     \* MigrateLegacy: the row and the payload it has read

vars == <<refs, legacy, sent, normalized, blobs, commits, gc, normalize, migrate>>

Idle == [at |-> -1]

Commit == commits < MaxCommits /\ commits' = commits + 1

-----------------------------------------------------------------------------
\* putPayload: every blob of the payload, INSERT OR IGNORE.
PutPayload(p) == blobs' = blobs \cup (IF p = NoPayload THEN {} ELSE Parts[Terminal[p]])

\* PutBatch: the ON CONFLICT clause replaces the reference of a stored row and
\* leaves its legacy columns alone.
PutBatch(r, p) ==
    /\ Commit
    /\ PutPayload(p)
    /\ refs' = [refs EXCEPT ![r] = Stored(p)]
    /\ sent' = [sent EXCEPT ![r] = p]
    /\ UNCHANGED <<legacy, normalized, gc, normalize, migrate>>

\* MigrateLegacy selects rows with a legacy column outside its transaction, also
\* those that an ingest without an original request has reached, and writes what
\* it read: no response when only the original request was there.
MigrateRead(r) ==
    /\ migrate = Idle
    /\ legacy[r] # Moved
    /\ migrate' = [at |-> commits, request |-> r, payload |-> legacy[r]]
    /\ UNCHANGED <<refs, legacy, sent, normalized, blobs, commits, gc, normalize>>

MigrateWrite ==
    /\ migrate # Idle
    /\ Commit
    /\ PutPayload(migrate.payload)
    /\ refs' = [refs EXCEPT ![migrate.request] = Stored(migrate.payload)]
    /\ legacy' = [legacy EXCEPT ![migrate.request] = Moved]
    /\ migrate' = Idle
    /\ UNCHANGED <<sent, normalized, gc, normalize>>

\* NormalizeHistoricalSSE reads a row that is not marked, and its blobs, in the
\* transaction that then writes; a missing blob is an error.
NormalizeRead(r) ==
    /\ normalize = Idle
    /\ r \notin normalized
    /\ refs[r] # NoPayload => Parts[refs[r]] \subseteq blobs
    /\ normalize' = [at |-> commits, request |-> r, payload |-> refs[r]]
    /\ UNCHANGED <<refs, legacy, sent, normalized, blobs, commits, gc, migrate>>

\* Mutant: the mark without the last event in place.
MutantNormalizeWrite ==
    /\ normalize # Idle /\ normalize.at = commits
    /\ Commit
    /\ normalized' = normalized \cup {normalize.request}
    /\ normalize' = Idle
    /\ UNCHANGED <<refs, blobs, legacy, sent, gc, migrate>>

\* Mutant: the write in a transaction of its own, after the reading one.
MutantNormalizeLate ==
    /\ normalize # Idle
    /\ Commit
    /\ IF Stored(normalize.payload) # normalize.payload
       THEN /\ PutPayload(normalize.payload)
            /\ refs' = [refs EXCEPT ![normalize.request] = Stored(normalize.payload)]
       ELSE UNCHANGED <<refs, blobs>>
    /\ normalized' = normalized \cup {normalize.request}
    /\ normalize' = Idle
    /\ UNCHANGED <<legacy, sent, gc, migrate>>

\* A completed stream is replaced by its last event; every row is marked.
NormalizeWrite ==
    /\ normalize # Idle /\ normalize.at = commits
    /\ Commit
    /\ IF Stored(normalize.payload) # normalize.payload
       THEN /\ PutPayload(normalize.payload)
            /\ refs' = [refs EXCEPT ![normalize.request] = Stored(normalize.payload)]
       ELSE UNCHANGED <<refs, blobs>>
    /\ normalized' = normalized \cup {normalize.request}
    /\ normalize' = Idle
    /\ UNCHANGED <<legacy, sent, gc, migrate>>

\* SQLite refuses the first write of a transaction whose snapshot is old; the
\* error ends the task's attempt.
NormalizeRefused ==
    /\ normalize # Idle /\ normalize.at # commits
    /\ normalize' = Idle
    /\ UNCHANGED <<refs, legacy, sent, normalized, blobs, commits, gc, migrate>>

-----------------------------------------------------------------------------
\* GC, the reading half: what the rows reach, every blob of it found, and every
\* blob that is not in it.
GCRead ==
    /\ gc = Idle
    /\ Reachable \subseteq blobs
    /\ gc' = [at |-> commits, stale |-> blobs \ Reachable]
    /\ UNCHANGED <<refs, legacy, sent, normalized, blobs, commits, normalize, migrate>>

\* Mutant: a deletion in a transaction of its own, after the reading one.
MutantGCDelete ==
    /\ gc # Idle /\ gc.stale # {}
    /\ Commit
    /\ blobs' = blobs \ gc.stale
    /\ gc' = Idle
    /\ UNCHANGED <<refs, legacy, sent, normalized, normalize, migrate>>

\* The deleting half, in the same transaction.
GCDelete ==
    /\ gc # Idle /\ gc.stale # {}
    /\ gc.at = commits
    /\ Commit
    /\ blobs' = blobs \ gc.stale
    /\ gc' = Idle
    /\ UNCHANGED <<refs, legacy, sent, normalized, normalize, migrate>>

\* It has nothing to delete, or its first DELETE is refused.
GCEnds ==
    /\ gc # Idle
    /\ gc.stale = {} \/ gc.at # commits
    /\ gc' = Idle
    /\ UNCHANGED <<refs, legacy, sent, normalized, blobs, commits, normalize, migrate>>

-----------------------------------------------------------------------------
\* An archive of an earlier version: rows with a reference, maybe to a whole
\* event stream, rows with their payloads in them, and the
\* blobs of payloads that no row names any more.
Init ==
    /\ refs \in [Requests -> Refs]
    /\ legacy \in [Requests -> Refs \cup {Moved}]
    /\ \A r \in Requests : refs[r] = NoPayload \/ legacy[r] = Moved
    /\ sent = refs
    /\ normalized = {}
    /\ \E ps \in SUBSET Payloads : blobs = Reachable \cup UNION {Parts[p] : p \in ps}
    /\ commits = 0
    /\ gc = Idle /\ normalize = Idle /\ migrate = Idle

Next ==
    \/ \E r \in Requests, p \in Refs : PutBatch(r, p)
    \/ \E r \in Requests : MigrateRead(r) \/ NormalizeRead(r)
    \/ MigrateWrite \/ NormalizeWrite \/ NormalizeRefused
    \/ GCRead \/ GCDelete \/ GCEnds

Spec == Init /\ [][Next]_vars

-----------------------------------------------------------------------------
Tasks == [at : Nat, request : Requests, payload : Refs]

\* Every reference names a stored manifest, as SessionRange and GC follow it.
TypeOK ==
    /\ refs \in [Requests -> Refs]
    /\ legacy \in [Requests -> Refs \cup {Moved}]
    /\ sent \in [Requests -> Refs]
    /\ normalized \subseteq Requests
    /\ blobs \subseteq Blobs
    /\ commits \in 0..MaxCommits
    /\ gc \in [at : Nat, stale : SUBSET Blobs] \cup {Idle}
    /\ normalize \in Tasks \cup {Idle}
    /\ migrate \in Tasks \cup {Idle}

\* A transaction that deletes a blob is a collection, and it leaves exactly what
\* the rows reach: all garbage goes and nothing else (GC).
CollectsExactly ==
    [][blobs \ blobs' # {} => blobs' = Reachable']_vars

\* A row marked in normalized_response_requests never again has a completed
\* event stream: not by a later ingest of the same request, not by a migration
\* (NormalizeHistoricalSSE never visits a marked row again).
MarkedIsNormalized ==
    \A r \in normalized : refs[r] = Stored(refs[r])

\* Until another transaction commits, what a task has read still holds: the
\* collector's garbage is the garbage, the normalizer's payload is the row's.
OpenTransactionsAreFresh ==
    /\ gc # Idle => gc.at <= commits /\ (gc.at = commits => gc.stale = blobs \ Reachable)
    /\ normalize # Idle =>
           /\ normalize.at <= commits
           /\ normalize.at = commits => normalize.payload = refs[normalize.request]

\* The store keeps its contract with its readers.  Only an ingest brings a row a
\* new payload: NormalizeHistoricalSSE leaves the last event of what the row
\* refers to when it commits, whatever was ingested since it began to read, and
\* MigrateLegacy the row's own legacy copy, which goes nowhere but into the
\* store.  Collections are exact, and a refused transaction leaves no trace.
KeepsContract == ContractSpec
=============================================================================
