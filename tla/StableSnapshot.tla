--------------------------- MODULE StableSnapshot ---------------------------
(***************************************************************************)
(* The stable session snapshot protocol of the collector (internal/archive/ *)
(* snapshot.go and the digest worker of cmd/cpa-session-collector/          *)
(* snapshot.go), between the writers of IngestLog and an importer that      *)
(* keeps a copy of the archive up to date with delta snapshots.             *)
(*                                                                         *)
(* A SHA-256 over a session's canonical JSON lines is modelled by the       *)
(* session's content itself: equal digests mean equal contents.             *)
(***************************************************************************)
EXTENDS IngestLog

CONSTANTS InvalidSessions,     \* session ids outside the protocol limits
          QueueCap,            \* maxQueuedSessionDigests
          BatchLimit,          \* sessions per run of the digest worker
          OlderCopies,         \* what an importer may have kept from an older fence
          MaxFaults            \* bound: failures, expiries and restarts

ASSUME SnapshotAssumption ==
    /\ InvalidSessions \subseteq Sessions
    /\ OlderCopies \subseteq [Sessions -> AllContents]
    /\ QueueCap \in Nat \ {0} /\ BatchLimit \in Nat \ {0} /\ MaxFaults \in Nat

VARIABLES
    mode,               \* "offline" with ARCHIVE_ALLOW_OFFLINE_FULL_SNAPSHOT, else "live"
    tombstoneSafeAfter, \* archive_snapshot_contract.tombstone_safe_after_sequence
    digests,            \* session_export_digests: session -> row or NoDigest
    digestQueue,        \* Store.digestQueue
    batch,              \* sessions the digest worker still has to refresh
    reading,            \* what its read transaction saw of Head(batch), or NotRead
    snap,               \* the registry's one active snapshot, or NoSnapshot
    attempting,         \* the importer works on snap
    fetched,            \* sessions of snap whose download it has verified
    target,             \* the importer's copy: session -> content
    checkpoint,         \* the ingest fence it has committed
    faults              \* failures so far

snapVars == <<snap, attempting, fetched>>
workVars == <<digestQueue, batch, reading>>
copyVars == <<target, checkpoint>>
vars == <<logVars, mode, tombstoneSafeAfter, digests, workVars, snapVars, copyVars, faults>>

Modes == {"live", "offline"}

NoDigest == [fence |-> -1]       \* COALESCE(d.max_ingest_sequence, -1)
NotRead == [fence |-> -1]
NoSnapshot == [fence |-> -1]

Digests == [fence : Nat, content : AllContents]
Reads == [fence : Nat, content : AllContents]
Summaries == [deleted : BOOLEAN, digest : AllContents]
Snapshots == [fence : Nat, full : BOOLEAN, view : Tables,
              summaries : UNION {[S -> Summaries] : S \in SUBSET Sessions}]

-----------------------------------------------------------------------------
\* queueSessionExportDigests: ids are added in turn while the queue is below
\* its capacity.
Enqueue(queue, ids) ==
    queue \cup {ids[j] : j \in {k \in DOMAIN ids :
        Cardinality(queue \cup {ids[i] : i \in 1..(k - 1)}) < QueueCap}}

Orderings(S) == {f \in [1..Cardinality(S) -> S] : IsInjective(f)}

Ascending(f) == \A i, j \in DOMAIN f : i < j => f[i] < f[j]

\* takeSessionExportDigests: the first BatchLimit ids in sorted order.
TakeQueued ==
    /\ mode = "live"
    /\ batch = <<>> /\ digestQueue # {}
    /\ \E taken \in SUBSET digestQueue :
          /\ Cardinality(taken) = Min({BatchLimit, Cardinality(digestQueue)})
          /\ \A s \in taken, t \in digestQueue \ taken : s < t
          /\ batch' \in {f \in Orderings(taken) : Ascending(f)}
          /\ digestQueue' = digestQueue \ taken
    /\ UNCHANGED <<logVars, mode, tombstoneSafeAfter, digests, reading, snapVars, copyVars, faults>>

\* The query of RefreshSessionExportDigests, used in offline mode: sessions
\* with rows whose digest is missing or behind the session's fence.  It starts
\* from session_summaries, which has every session with rows once the backfill of
\* an older archive is done (ReadyIsComplete of SessionProjections).
Stale(s) == Content(records, s) # {} /\ digests[s].fence # SessionFence(s)

TakeStale ==
    /\ mode = "offline"
    /\ batch = <<>>
    /\ LET stale == {s \in Sessions : Stale(s)} IN
       \E taken \in SUBSET stale :
          /\ taken # {}
          /\ Cardinality(taken) = Min({BatchLimit, Cardinality(stale)})
          /\ batch' \in Orderings(taken)
    /\ UNCHANGED <<logVars, mode, tombstoneSafeAfter, digests, digestQueue, reading, snapVars, copyVars, faults>>

\* refreshSessionExportDigest, first half: the read transaction, which ends in
\* a rollback before anything is written.
RefreshRead ==
    /\ batch # <<>> /\ reading = NotRead
    /\ reading' = [fence |-> SessionFence(Head(batch)),
                   content |-> Content(records, Head(batch))]
    /\ UNCHANGED <<logVars, mode, tombstoneSafeAfter, digests, digestQueue, batch, snapVars, copyVars, faults>>

\* Mutant: an INSERT without the condition on the session's fence.
MutantRefreshSave ==
    /\ reading # NotRead /\ reading.content # {}
    /\ digests' = [digests EXCEPT ![Head(batch)] = [reading EXCEPT !.fence = SessionFence(Head(batch))]]
    /\ batch' = Tail(batch)
    /\ reading' = NotRead
    /\ UNCHANGED <<logVars, mode, tombstoneSafeAfter, digestQueue, snapVars, copyVars, faults>>

\* Second half, when the read found rows: INSERT ... WHERE the session's fence
\* is still the one that was read.
RefreshSave ==
    /\ reading # NotRead /\ reading.content # {}
    /\ digests' = IF SessionFence(Head(batch)) = reading.fence
                  THEN [digests EXCEPT ![Head(batch)] = reading]
                  ELSE digests
    /\ batch' = Tail(batch)
    /\ reading' = NotRead
    /\ UNCHANGED <<logVars, mode, tombstoneSafeAfter, digestQueue, snapVars, copyVars, faults>>

\* Second half, when the read found no row: DELETE ... WHERE NOT EXISTS(rows).
RefreshDrop ==
    /\ reading # NotRead /\ reading.content = {}
    /\ digests' = IF Content(records, Head(batch)) = {}
                  THEN [digests EXCEPT ![Head(batch)] = NoDigest]
                  ELSE digests
    /\ batch' = Tail(batch)
    /\ reading' = NotRead
    /\ UNCHANGED <<logVars, mode, tombstoneSafeAfter, digestQueue, snapVars, copyVars, faults>>

\* An error of either half ends the worker's run: the queue gets the session
\* that failed and the ones after it back.
RefreshFail ==
    /\ batch # <<>>
    /\ faults < MaxFaults
    /\ faults' = faults + 1
    /\ digestQueue' = IF mode = "offline" THEN digestQueue ELSE Enqueue(digestQueue, batch)
    /\ batch' = <<>>
    /\ reading' = NotRead
    /\ UNCHANGED <<logVars, mode, tombstoneSafeAfter, digests, snapVars, copyVars>>

-----------------------------------------------------------------------------
Live == {s \in Sessions : Content(records, s) # {}}

\* Mutant: a digest is used although it is behind.
MutantMissing(selected) == {s \in selected \cap Live : digests[s] = NoDigest}

\* The sessions a snapshot lists.  With no prior fence: every session with
\* rows.  After a fence: the sessions changed since (those without rows become
\* tombstones) and the ones inside the timestamp overlap, an arbitrary set here.
SelectedFull == Live
SelectedDelta(after, overlap) == Changed(after, clock) \cup (overlap \cap Live)

Missing(selected) == {s \in selected \cap Live : digests[s].fence # SessionFence(s)}

Summary(s) == [deleted |-> s \notin Live,
               digest  |-> IF s \in Live THEN digests[s].content ELSE {}]

\* Mutant: the request is answered 503 and nothing is queued.
MutantSnapshotNotReady(selected) ==
    /\ Missing(selected) # {}
    /\ UNCHANGED <<workVars, snapVars>>

\* BeginStableSessionSnapshot once the request has passed its checks: either
\* some digest is not ready and the request is answered 503 ...
SnapshotNotReady(selected) ==
    /\ Missing(selected) # {}
    /\ \E ids \in Orderings(Missing(selected)) : digestQueue' = Enqueue(digestQueue, ids)
    /\ UNCHANGED <<batch, reading, snapVars>>

\* ... or the read transaction stays open, with its view of the rows.
SnapshotOpened(selected, full) ==
    /\ Missing(selected) = {}
    /\ snap' = [fence |-> clock, full |-> full, view |-> records,
                summaries |-> [s \in selected |-> Summary(s)]]
    /\ attempting' = TRUE
    /\ fetched' = {}
    /\ UNCHANGED workVars

Begin(selected, full) ==
    /\ snap = NoSnapshot
    /\ selected \cap InvalidSessions = {}
    /\ SnapshotNotReady(selected) \/ SnapshotOpened(selected, full)
    /\ UNCHANGED <<logVars, mode, tombstoneSafeAfter, digests, copyVars, faults>>

\* Mutant: any fence up to the clock is accepted.
MutantBeginDelta ==
    /\ checkpoint <= clock
    /\ \E overlap \in SUBSET Sessions : Begin(SelectedDelta(checkpoint, overlap), FALSE)

\* A fence below the upgrade fence is refused (409), one above the clock too.
BeginDelta ==
    /\ checkpoint <= clock
    /\ checkpoint >= tombstoneSafeAfter
    /\ \E overlap \in SUBSET Sessions : Begin(SelectedDelta(checkpoint, overlap), FALSE)

\* Without a fence the request is refused (403) unless the collector is offline.
BeginFull ==
    /\ mode = "offline"
    /\ Begin(SelectedFull, TRUE)

\* ExportSessionJSONL: the rows of the view, checked against the digest.
Export ==
    /\ attempting
    /\ \E s \in DOMAIN snap.summaries \ fetched :
          /\ ~snap.summaries[s].deleted
          /\ Content(snap.view, s) = snap.summaries[s].digest
          /\ fetched' = fetched \cup {s}
    /\ UNCHANGED <<logVars, mode, tombstoneSafeAfter, digests, workVars, snap, attempting, copyVars, faults>>

\* The registry closes a snapshot at its absolute or idle expiry.
Expire ==
    /\ snap # NoSnapshot
    /\ IF attempting THEN faults < MaxFaults /\ faults' = faults + 1 ELSE UNCHANGED faults
    /\ snap' = NoSnapshot
    /\ attempting' = FALSE
    /\ fetched' = {}
    /\ UNCHANGED <<logVars, mode, tombstoneSafeAfter, digests, workVars, copyVars>>

\* The collector process stops and starts again: the database stays, the
\* queue, the worker's run and the snapshot are gone.
Restart ==
    /\ faults < MaxFaults
    /\ faults' = faults + 1
    /\ digestQueue' = {} /\ batch' = <<>> /\ reading' = NotRead
    /\ snap' = NoSnapshot /\ attempting' = FALSE /\ fetched' = {}
    /\ mode' \in Modes
    /\ UNCHANGED <<logVars, tombstoneSafeAfter, digests, copyVars>>

-----------------------------------------------------------------------------
\* The importer (not part of the repository; its duties are the ones
\* docs/stable-session-snapshots.md gives it): once every download is verified
\* it applies summaries and tombstones and advances its checkpoint.
Applied(s) == IF snap.summaries[s].deleted THEN {} ELSE snap.summaries[s].digest

ImporterCommit ==
    /\ attempting
    /\ \A s \in DOMAIN snap.summaries : snap.summaries[s].deleted \/ s \in fetched
    /\ target' = [s \in Sessions |->
          IF s \in DOMAIN snap.summaries THEN Applied(s)
          ELSE IF snap.full THEN {} ELSE target[s]]
    /\ checkpoint' = snap.fence
    /\ attempting' = FALSE
    /\ UNCHANGED <<logVars, mode, tombstoneSafeAfter, digests, workVars, snap, fetched, faults>>

-----------------------------------------------------------------------------
Write ==
    /\ WriteRows
    /\ UNCHANGED <<mode, tombstoneSafeAfter, digests, workVars, snapVars, copyVars, faults>>

\* The upgrade fence is the clock when OpenStore creates the contract row.  The
\* importer starts from a copy of the archive at that fence, or from an older
\* copy, which may differ from it in any way.
Init ==
    /\ LogInit
    /\ mode \in Modes
    /\ tombstoneSafeAfter = clock
    /\ digests = [s \in Sessions |-> NoDigest]
    /\ digestQueue = {} /\ batch = <<>> /\ reading = NotRead
    /\ snap = NoSnapshot /\ attempting = FALSE /\ fetched = {}
    /\ checkpoint \in 0..clock
    /\ target \in IF checkpoint = tombstoneSafeAfter THEN {View(records)} ELSE OlderCopies
    /\ faults = 0

Next ==
    \/ Write
    \/ TakeQueued \/ TakeStale \/ RefreshRead \/ RefreshSave \/ RefreshDrop \/ RefreshFail
    \/ BeginDelta \/ BeginFull \/ Export \/ Expire \/ Restart
    \/ ImporterCommit

Spec == Init /\ [][Next]_vars

\* The digest worker, the registry's cleanup and the importer keep running; the
\* writers need not.
FairSpec ==
    /\ Spec
    /\ WF_vars(TakeQueued) /\ WF_vars(TakeStale)
    /\ WF_vars(RefreshRead) /\ WF_vars(RefreshSave) /\ WF_vars(RefreshDrop)
    /\ WF_vars(BeginDelta) /\ WF_vars(Export) /\ WF_vars(ImporterCommit)
    /\ WF_vars(Expire /\ ~attempting)

-----------------------------------------------------------------------------
TypeOK ==
    /\ LogTypeOK
    /\ mode \in Modes
    /\ tombstoneSafeAfter \in Nat
    /\ digests \in [Sessions -> Digests \cup {NoDigest}]
    /\ digestQueue \subseteq Sessions
    /\ batch \in Seq(Sessions)
    /\ reading \in Reads \cup {NotRead}
    /\ snap \in Snapshots \cup {NoSnapshot}
    /\ attempting \in BOOLEAN
    /\ fetched \subseteq Sessions
    /\ target \in [Sessions -> AllContents]
    /\ checkpoint \in Nat
    /\ faults \in Nat

\* A stored digest that carries the session's current fence is the digest of
\* the session's current rows, although it was computed in one transaction and
\* written in another while rows were inserted, updated, moved and deleted
\* (refreshSessionExportDigest, the three triggers).
DigestSound ==
    \A s \in Sessions :
        digests[s].fence = SessionFence(s) => digests[s].content = Content(records, s)

\* Every summary of an open snapshot describes the rows of the snapshot's own
\* view: a listed digest always verifies (ExportSessionJSONL never answers
\* "digest mismatch") and a tombstone is a session without rows.
SummariesMatchView ==
    snap # NoSnapshot => \A s \in DOMAIN snap.summaries :
        /\ snap.summaries[s].digest = Content(snap.view, s)
        /\ snap.summaries[s].deleted <=> Content(snap.view, s) = {}

\* No change is lost between two delta snapshots: a session that no event
\* after the importer's checkpoint names is, in the importer's copy, what it is
\* in the archive (BeginStableSessionSnapshot's "changed" query).
CopyCurrent ==
    checkpoint >= tombstoneSafeAfter =>
        \A s \in Sessions \ Changed(checkpoint, clock) : target[s] = Content(records, s)

\* A transaction that changes what an export of a session prints leaves an event
\* that raises the session's fence above the old clock: for a move, in the
\* session the row left as well as in the one it entered.
ChangesAreLogged ==
    [][\A s \in Sessions :
          Content(records', s) # Content(records, s) => SessionFence(s)' > clock]_vars

\* The protocol implements the abstract copy: applying a delta snapshot leaves
\* the importer with the whole archive as it was at the snapshot's fence.
Replica == INSTANCE SnapshotReplica WITH
    Contents <- AllContents,
    source <- View(records),
    fence <- clock,
    frozen <- IF snap = NoSnapshot THEN [fence |-> -1]
              ELSE [fence |-> snap.fence, view |-> View(snap.view)],
    replica <- target

ImplementsReplica == Replica!Spec

\* When the writers stop, an importer with a usable checkpoint that keeps asking
\* ends up with the newest fence: digests are prepared, the queue's capacity
\* only delays them, and failures, expiries and restarts are recovered from.
CatchesUp == checkpoint >= tombstoneSafeAfter => <>[](checkpoint = clock)
=============================================================================
