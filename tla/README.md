# A verification project for cpa-session-archive

TLA+ modules, TLC runs and TLAPS proofs about the archive's own logic: how a
model request becomes a row, how its payload becomes shared blobs, how the
searchable projections are kept and repaired, what timelines, turns and exports
show of the rows, how the rows' changes are logged, how importers follow them
through stable snapshots, and how a backup is published. Every definition is
translated from the Go source; `PROJECT.json` maps each one to its lines.

Check a run with `tlc -workers 2 -config X.cfg M` and the proofs of a module
`*Proofs.tla` with `tlapm`.

## The system

```
 CPA host --hooks--> plugin (active map, queue, sender)
                        | POST /ingest, retried
                        v
 collector: handler -> queue -> writer -> PutBatch -> SQLite (WAL)
                                                      | records + triggers -> clock, events
                                                      | projections, CAS blobs
            digest worker -> session_export_digests --+
            registry -> read transaction (snapshot) --+
                ^ pages, tickets, exports
            importer
```

| Component | State | Operations | Where it is hard |
|---|---|---|---|
| Plugin (`plugin.go`) | `active` map, bounded queue, one sender, `stop` | request, response and chunk hooks, `complete`, `configure`, `Shutdown`, `sendWithRetry` | hooks of many requests in any order, late hooks, a full queue, an answer that never comes |
| Ingest and writer (collector `main.go`, `store.go`) | in-memory queue, batch, rows, session counters | `/ingest`, `writer`, `flush`, `PutBatch`, `indexSessionRecord` | duplicates of a retried record, locks, a batch that fails, a restart after 202 |
| Ingest log (`store.go` schema) | clock, events | three triggers | a move changes two sessions with one event; upgrades without history |
| Stable snapshots (`archive/snapshot.go`) | digests, digest queue, open read transaction | digest worker, `BeginStableSessionSnapshot`, `ExportSessionJSONL` | digests computed and saved in different transactions, a bounded queue, tombstones |
| Registry and tickets (collector `snapshot.go`, `main.go`) | entries, cursors, `ActiveExports`, tickets | create, get, page, cursor, ticket, export, cleanup | two mutexes, snapshots closed between two steps of a handler, expiry during an export |
| Session index and repairs (`session_index.go`, `session_repair.go`) | `session_indexed_requests`, summaries, facets, versions | backfill, repairs, SSE normalisation | work lists read outside the transaction, live ingest, restarts |
| Identities (`identity.go`) | `credential_principals`, `principal_id` of rows and projections | `ApplyCredentialPrincipals`, `resolveIdentity` | an index read before the transaction that uses it |
| Startup (collector `main.go`) | attempt counters, `startupReady` | task chain, retry, `/readyz` | bounded retries against a busy writer |
| CAS and GC (`cas.go`, `store.go`) | blobs, manifests | compact, expand, `putPayload`, `GC` | reuse of a blob that is being collected |
| Live exports (`store.go`) | a cursor, a batch, its cache | session export by batches, archive export row by row | no transaction holds them together: rows arrive, move, are rewritten and collected |
| Turns (`turns.go`, `turn_projection.go`, collector `main.go`) | `turn_records`, `turn_texts`, text jobs | two backfills, grouping, background text | copies of rows that change, ids and commands that lack, polls that race the end of a job |
| Timeline and training export (`timeline.go`, `training_export.go`) | none | the difference of two requests, the conversation of a session | records that arrive out of order, retries, compactions, replayed answers |
| Backup (`backup.go`) | temporary and final file | online copy, check, hash, link | a crash between steps, two backups at once |
| Management UI | none | proxying, a static page | - |

## What is modelled

| Module | Models | Status |
|---|---|---|
| `IngestLog` | rows, triggers, clock, events; one action per kind of writing transaction | done |
| `SnapshotReplica` | the promise to importers, abstractly: a copy that jumps from fence to fence | done |
| `StableSnapshot` | digest worker, snapshots, exports, restart, and the documented importer; extends `IngestLog`, implements `SnapshotReplica` | done |
| `SnapshotRegistry` | the registry and tickets with concurrent handlers and time | done |
| `IngestPipeline` | plugin hooks, queue, sender, collector queue, writer, upsert and session counters | done |
| `SessionProjections` | session index, summaries, turn rows and identities under ingest, mappings and the startup tasks; extends `TurnGroups` | done |
| `BlobContract` | what the store promises its readers: payloads with all their blobs, exact collections | done |
| `BlobStore` | payload references and garbage collection in concurrent transactions; implements `BlobContract` | done |
| `ArchiveExport` | the exports of the live database over `BlobContract` | done |
| `PayloadCodec` | compaction and expansion of payloads, the two walks over references | done |
| `TurnGroups` | the grouping of a session's rows into turns, as operators | done |
| `Timeline`, `TrainingExport` | the timeline of a request and the training sample of a session, as operators | done, without `RequestTimelinePreview` |
| `SessionViews` | a client's conversation, its records as they arrive, and the three views of them | done |
| `TurnTexts` | the turn text endpoint, its jobs and its cache, over `SessionViews` | done |
| `BackupPublish` | the online backup from its temporary copy to the published file | done |
| `StableSnapshotProofs` (with the log's), `BlobStoreProofs`, `SnapshotRegistryProofs`, `BackupPublishProofs`, `ArchiveExportProofs`, `IngestPipelineProofs`, `SessionProjectionsProofs`, `SessionViewsProofs` (with those of `Timeline`, `TrainingExport`, `TurnGroups` and `TurnTexts`) | the theorems | done |
| `MC*` | constant values for TLC, and symmetry where only safety is checked | done |

### IngestLog and StableSnapshot

A row is its session and a body; the body stands for every exported column. A
session's content is the set of its requests with their bodies, and a SHA-256
over the exported lines is the content itself (equal digests, equal contents).
`Commit` is one transaction: it changes rows one after the other and the
triggers append one event for each, with the session the row left when an
UPDATE moves it. The writing transactions differ in what they may do to a row:
`PutBatch` inserts or updates in place, `UpdateRows` (identities, SSE
normalisation, previews, legacy migration) updates in place,
`RepairCanonicalSessions` moves rows. The program deletes no row;
`OperatorDelete` is the operator the delete trigger exists for.

The digest worker is three steps, as in `refreshSessionExportDigest`: take
sessions (from the bounded queue, or in offline mode from the scan for stale
digests; `mode` is the environment variable, read when the process starts, and
may differ after a restart), read one in a read transaction, then save or drop its digest under
the condition of the SQL statement. Any step can fail. `Begin` is
`BeginStableSessionSnapshot` in one step: it is one read transaction, and
nothing it reads can change during it. It either queues what is missing (503)
or opens the snapshot. The timestamp overlap of a delta is an arbitrary set of
live sessions. `Restart` keeps the database and loses everything else. The
importer is not in the repository; it does what
`docs/stable-session-snapshots.md` requires of it, and is marked external.

### SnapshotRegistry

A handler is a process whose steps are the critical sections of the registry's
mutex, of the ticket mutex, and the calls on the snapshot between them. Time
is a counter, `now`, that moves between any two steps. A snapshot is open or
closed and has `PageCount` pages; a cursor is the page it leads to. Answers are
HTTP statuses. An export is five steps: counted into its entry, through
`exportMu`, streamed, counted out, and, if it was the last of an expired
snapshot, the rollback after the mutex is released.

### IngestPipeline

A body is its length, so `limit` and the stream buffer are the minimum with
`max_body_bytes` and a flag. The host calls the hooks of a request in any
order, before and after it completes; the first hook may be one after
authentication, or the completion itself. A response hook after the completion
is ignored by the code, a request hook (`LateHooks`, `Reopened`) opens a new
entry. That the host completes a request once is the one thing assumed of it
(`Over`): the code counts on it too, as a second completion would make a second
record of the same id. The sender is one process:
posted, answered, in backoff. A timeout leaves the post with a handler that may
still queue it (`late`), which is how duplicates arise. The writer takes,
ticks and flushes; a flush commits, meets a lock and stays, or drops the batch.
`accepted` and `lost` are history variables. A record is `Rejected` when
`/ingest` can only answer 400 (no request id, or JSON above 192 MiB) and
`Unstorable` when `PutBatch` fails on it.

### SessionProjections

Requests are numbers in the order of `started_at`, and a summary is the request
it quotes. The projections are one record, because the code changes them in one
transaction. `PutBatch` is two steps, since it reads the identity index before
it begins its transaction. Each startup task is its work list, its writes (one
step per transaction) and its version; a task may fail at any step with a busy
database and is tried again from its start, `Attempts` times, then the chain
stops. `Restart` keeps the database. An archive of an earlier version, with
rows under transient session ids, some without summary and with no projections,
is the initial state.

Two rules name a request's session and both are modelled from the ids it
carries: `SentSession` is `sessionID` of the plugin, `Canonical` is the repair's.
They differ, on a Session-Id header without a thread id and on a thread id with
a colon, so what the repair promises is stated for the rows of an older version
(`Legacy`) and not of new ones; see the findings.

The chain is canonical repair, index backfill, summary repair, preview repair,
turn backfill, facet backfill. Summary and turn id of a row are each one bit,
filled or not: `said` in the row and in its turn row, `filled` in the turn row.
`TurnRead` copies columns that `TurnWrite` writes in a later transaction, and
it writes no turn id; `FacetWrite` fills that afterwards. `TurnViewsAgree` then
says of the whole chain that the groups of `TurnGroups` over the turn rows are
those over the requests' own ids and commands. A work list is a set; the step
that takes from it takes the item the code's query puts first, or any item
where the order cannot matter. `Reindexed` is the rebuild of the canonical
repair as a recursive function of the request's number.

### BlobContract, BlobStore, ArchiveExport and PayloadCodec

`BlobContract` is the abstract store. Only an ingest gives a row a new payload
(`Deliver`; `sent` is the history of it, which tells it from the rest).
Maintenance may settle a row (`Settle`) on the last event of what it refers to,
or on the copy in its own legacy columns, which leaves them only that way; a
transaction that changes a reference stores the payload's blobs, and a
collection removes exactly the garbage. `BlobStore` implements it. The legacy
columns are a response, an original request only (`NoPayload`) or empty
(`Moved`). That the migration puts the legacy copy also over a newer ingest is
what the code does and the contract allows.

`BlobStore` knows of a payload only the set of blobs it needs. What it models
is SQLite's deferred transactions: GC and `NormalizeHistoricalSSE` read first
and write later, and their first write is refused when another transaction has
committed since (`at # commits`); `PutBatch` writes first and is atomic;
`MigrateLegacy` reads outside its transaction.

`ArchiveExport` runs over the contract alone, because an export sees no more of
the store. A session's export is a query of up to `BatchSize` rows behind the
cursor, which the byte limit may cut after any row, a prefetch into a new
cache, and a load per row from the cache or the table; the archive's export
lists the ids and reads row by row. A load is one step; the blobs of a
reference that is still the row's are there through all of it, and one that has
been replaced may be found, or end the export. `steady` and `had` are history
variables: the rows an export must hold, and the payloads a row has had. While
it runs, rows arrive, are rewritten, move and are collected.

`PayloadCodec` opens the payload: a JSON value is a small tree whose strings
and subtrees have sizes on both sides of the two thresholds, and a blob is its
own content, as its SHA-256 stands for it. It checks what `BlobStore` takes for
granted: rows that share blobs load what they were given, in the normal form
`Normal`, after any replacement and collection. A `float64` has `Mantissa` bits
instead of 53. A payload with a literal `$cpa_blob` key is not among the
inputs.

### TurnGroups, Timeline, TrainingExport, SessionViews and TurnTexts

The three views are pure functions of the records, so they are operators. What
makes them hard is which records there are and in which order, and that is
`SessionViews`: a client that sends its whole conversation with each request.
It asks, answers tool calls, retries what failed, compacts, resumes, and names
its turns or does not; its conversation may be older than the archive. The
client is not in the repository and is marked external. It makes one request at
a time, so a successful request completes before the next begins, and the
plugin's one sender delivers in the order of completion; a request that its
client gave up may complete, and arrive, after its successors (`Arrive`). A
compaction belongs to the turn it happens in.

A payload is a sequence of items, an item is its type, role, text and call;
`EntryRole` and `TrainingRole` are the type switches of `collectTimeline` and
`appendTrainingItems`. `Groups` is `sessionTurnGroups`, one step of its loop is
`Grouped`. The limit of 24 entries is `HistoryLimit`, of which the code needs
no more than that it is above one. `Picked` is the code's loop that appends the
elements it keeps. `Priors` are the conversations that began before the
archive, any that were not compacted then; `TurnNames` are the ids a client
gives its turns, a different one to each.

`TurnTexts` adds pages that poll `GET /v1/turn-text`. The cache lookup and the
claim of the job under `turnTextMu` are two steps, the job is three: build
(with any payloads failing to load), save (which may fail) and the deferred
release. A restart loses the jobs.

### BackupPublish

A page is the number of the commit that last wrote it, so a file that mixes two
versions shows it. `sqlite3_backup_step` restarts when the source has changed.
Page 1 holds `archive_ingest_clock`; a commit writes any pages, that one or not,
so several versions may share a fence. Every call of `createOnlineBackup` that
can fail may fail, in the order of the code, with the deferred removal at each
error return, whose own failure is ignored; a crash undoes what the directory
has not been synced for and tears a file that has not been synced. `temps` is
the temporary names in the directory and `stale` those that were removed since
the last sync, which a crash may bring back; the sync of one run serves all,
as they share the directory.

## Runs

| Run | Shows | Bounds |
|---|---|---|
| `snapshot` | sound digests, snapshots that verify, no change lost, refinement of `SnapshotReplica`, and an importer that catches up | 2 requests, 2 sessions, 1 body, transactions of 2 rows, 3 log entries, queue of 1, 1 fault |
| `registry` | exports keep their transaction, counts are exact, no reader leaks, every reader is closed and every request answered | 2 clients, 2 snapshots of 2 pages, TTL 2, idle 1, tickets 2, time to 3, 1 restart |
| `pipeline_capture` | the capture of one body of any size, in any order of hooks, late ones included | bodies 0, 1, 3 against a limit of 2, 2 faults, of which a late request hook is one |
| `pipeline_delivery` | exact counters, no unexplained loss, accepted records are archived | 2 requests, one of them unstorable, 2 faults, queues of 1 and 2 |
| `projections` | the index counts every row once, versions are recorded after their work, owners are kept, the turns shown are the rows', the collector becomes ready | 4 requests, 2 of them older than the index, one with a Session-Id header only, 2 batches, 2 mappings, 2 faults against 2 attempts |
| `blob_collection` | no dangling reference, marked rows stay normalised, the contract with its exact collections is kept; exports are complete and genuine and fail only over rewritten rows | 2 rows, 3 payloads that share blobs, 2 commits, any earlier archive with the garbage of one payload; batches of 2, a cache of 2 blobs, 2 writes during an export |
| `codec_round_trip` | payloads load in normal form, prefetches are exact | 2 rows, 2 writes, 129 payloads of up to 5 levels |
| `session_views` | timelines hide nothing and are exact, turns and samples are the client's, one job per turn, texts of the right turn, every page answered | 4 requests, 2 commands, 24 entries scaled to 2, any failed request late; 1 reader of sessions of up to 2 requests, 1 fault |
| `backup` | a published file is one version, is durable, replaces nothing; after a success no temporary name is left or comes back; each run ends | 2 backups, 3 pages, 1 commit during the copies, 1 fault |
| `registry_gone` (violation) | 400 or 404 instead of 410 | TTL 3, idle 2, time to 5 |
| `pipeline_rejected` (violation) | a record that is always refused blocks the sender | 2 requests, no fault |
| `projection_principals` (violation) | the canonical repair drops the owners of sessions | 2 mappings, no ingest, no fault |

The type invariants of `SnapshotRegistry`, `IngestPipeline`,
`SessionProjections` and `BackupPublish` are conjuncts of the structural
invariant of their runs (`NeverClosedWhileExporting`, `CutIsFlagged` and
`AcceptedIsKept`, `IndexExact`, `PublishedIsOneVersion`); those of
`StableSnapshot` and `BlobStore` are proved. `ChangesAreLogged`,
`CollectsExactly` and `OpenTransactionsAreFresh` are proved too and no run
repeats them.

The bounds are the smallest in which the hard cases happen: two sessions so
that a row can move, two requests so that one session can hold a mixture and a
batch can mix requests, a queue of one so that it overflows, two clients so
that one cleans up under the other, a time that lets a snapshot idle out,
expire and be followed by another, enough faults for a duplicate to meet
its original in a batch, an archive with a row to move, a row that starts
earlier than all others and arrives last, payloads that share a blob with the
one that replaces them, subtrees in subtrees on both sides of the threshold,
a commit between any two steps of a copy, a kill, a failure or a power loss at
any of them, a batch that the byte limit cuts and one that it does not,
and four requests so that a late one can follow a retry, a compaction or a tool
call of the turn after it. For the safety of every module with proofs the
theorems cover what these bounds leave out: several bodies, invalid session
ids, larger batches and queues, more requests, mappings and faults.

Fairness. The digest worker loops for ever, the registry's ticker runs every 30
seconds, handlers that have started go on (an export that holds `exportMu` ends,
with its result, an error or its deadline, and gives it back), the sender and the writer are
goroutines that only block on each other: each of them gets weak fairness.
A turn page polls until it is answered and a text job runs to its end: they
get it too. The startup goroutine and the backup's loop only block on SQLite, which
answers, and a deadline passes: they get weak fairness too. Hosts, clients,
writers and operators get none. `CatchesUp` also assumes an
importer that keeps asking. Faults are bounded in number, never fair.

## Findings

Three runs disagree with what the repository says; each is in `PROJECT.json`
with the quoted line.

1. `registry_gone`: a cleanup between the registry's lookup and
   `Snapshot.Page` or `Summary` makes an expired snapshot answer 400 or 404,
   where the document promises 410.
2. `pipeline_rejected`: one record that `/ingest` can only refuse is retried
   without limit by the only sender, and nothing behind it is delivered.
3. `projection_principals`: the canonical repair rebuilds the session summaries
   without the principal of their rows.

The modules show further places where code and text part. They are modelled as
the code has them and no run asserts the text:

- `ExportFinish`, `ExportClose`: the last export of an expired snapshot frees
  its slot before it rolls the transaction back, so for a moment two readers
  can be open where the document says one.
- `CaptureBefore`, `CaptureAfter`: `captureRequest` starts an entry for a request
  that has completed, and nothing removes it.
- `Fail`: an error of the backup whose deferred removal also fails leaves the
  temporary file, and only the first error is reported.
- `Offer`: a completion that finds the queue full drops its record; the README
  says a full queue is retried.
- `PutBatchReads`: a mapping applied between the read of the identity index and
  the batch's transaction does not reach the batch's rows.
- `SentSession`, `Canonical`: the plugin names the session of a new request by
  its thread id, uncut, or by its window, an id in its body or its
  `execution_session_id`, and does not look at the Session-Id header
  (`plugin.go:477`); the repair goes by thread id or Session-Id header, cut by
  `stableWindowID` (`session_repair.go:24-39`), and runs once. A request that
  arrives afterwards with that header and no other id stays under its execution
  id, of which README:165 says that it no longer splits sessions. In the run
  `projections` request 4 is such a one.
- `TurnWrite`: the turn backfill leaves out the principals as the canonical
  repair does. `SummaryWrite`: the summary repair may write what it read over
  the summary of a request that has become the first meanwhile.
- `CompactString`, `CompactPayload`: the parameters of a data URL are lost, and
  of a body of several JSON values all but the first.
- `Float64`: compaction keeps every digit of a number, expansion decodes into
  float64 (`cas.go:81`), so an integer above 2^53 leaves the "lossless
  normalized record stream" (README:158) as a neighbour of itself.
- `MigrateWrite`: the migration overwrites `response_ref` with the payload it
  read, also when an ingest of the same request has replaced it since.
- `LineFails`: a live export that meets a collected blob ends a 200 that looks
  complete; the error is only logged. `SessionRange`, not modelled, shows such
  a payload as empty.
- `FindTurn`: a turn id that comes back after another turn makes two cards of
  one id, and opening either shows the first. `TurnsMatch` holds because the
  client has one turn at a time.
- `Build`, `Save`: when payloads fail to load, or a job runs before the request
  with the command has arrived, the compact or empty text is cached and never
  built again. A page of a turn that is gone polls for ever, each poll starting
  a job in vain.
- `Selected`, `IsTrainingExample`: requests that tie for the newest
  `started_at` give a line each, and a session whose newest success has no user
  message left, after a compaction, gives none (README:159 speaks of one
  transcript per session). `started_at` is compared as text, in which
  a time with fewer digits of a second sorts wrongly.
- `TrainingRole`: an item without role prints its role as `<nil>`, so the
  branch that would make it the assistant's is never taken.
- The tool entries of `RequestTimelinePreview` come from the facet `tool.name`,
  which holds the tools a request defines and not the ones it calls
  (`plugin.go:857`).
- `Collect` of `PayloadCodec`: a stored text that quotes a manifest makes every garbage
  collection end with an error.

## Proofs

`StableSnapshotProofs` proves, for any finite sets of requests and sessions,
any bodies, batch sizes, queue capacity and set of invalid session ids, from the named assumptions of
`IngestLog` and `StableSnapshot`:

- `TypeCorrect`: `Spec => []TypeOK`
- `DigestsAreSound`: `Spec => []DigestSound`
- `SnapshotsVerify`: `Spec => []SummariesMatchView`
- `NoChangeIsLost`: `Spec => []CopyCurrent`
- `TriggersLogChanges`: `Spec => ChangesAreLogged`
- `ProtocolImplementsReplica`: `Spec => ImplementsReplica`

None of the invariants is inductive alone. A digest is only as good as the
read it was computed from, so `IndInv` adds `ReadSound` (what the worker has
read is still the session's content while the session's fence has not moved).
A copy is only current if what the snapshot did not list was already right, so
it adds `ViewCurrent` and `RestIsCopied` (the open snapshot's view differs
from the rows only where events after its fence say so, and outside its
summaries the importer's copy equals the view), and `FencesOrdered` (upgrade
fence, checkpoint, snapshot fence and clock are in order). All of it rests on
one fact about the log, `WriteLogs`, which needs `IngestLog` alone: a
transaction that changes a session's content appends an event that names the
session with a sequence above the old clock, and removes none. From there
`StepFence` and `StepChanged` say that a session's fence stands still, and the
session stays out of `Changed`, only if its content stood still. The
refinement uses `IndInv` for one step, the importer's commit: its copy becomes
the view of the snapshot.

`BlobStoreProofs` proves for any sets of requests, payloads and blobs and any
sharing between payloads:

- `BlobTyping`: `Spec => []TypeOK`
- `NothingDangles`: `Spec => []NoDanglingReference`
- `MarkedStayNormalized`: `Spec => []MarkedIsNormalized`
- `CollectionIsExact`: `Spec => CollectsExactly`
- `TransactionsStayFresh`: `Spec => []OpenTransactionsAreFresh`
- `StoreKeepsContract`: `Spec => KeepsContract`

The inductive invariant `BlobInv` adds `OpenTransactionsAreFresh`: while no
other transaction has committed, what GC found stale is still exactly the
unreachable part, and what the normaliser read is still the row's. A commit
makes both hold emptily for every other open transaction
(`CommitKeepsFreshness`), and a write keeps every reference
(`PutKeepsReferences`). The refinement rests on it for the normalisation, whose
write must be the last event of what the row refers to at the commit and not of
what it referred to at the read, and needs one fact more, `MigrationIsCurrent`:
what the migration has read is still in its row's legacy columns, since only
the migration empties them. Without it the write could bring a row a payload
that no ingest delivered and the row does not own (`StepKeepsContract`).

`SnapshotRegistryProofs` proves for any finite set of clients, any ids, times,
limits and page counts, from `RegistryAssumption`:

- `ExportsKeepTheirReader`: `Spec => []NeverClosedWhileExporting`
- `ReadersAreOwned`: `Spec => []NoReaderLeaks`

The eviction looks only at the count in an entry, so `RegistryInv` carries
`ExportsCounted` (the count is the number of handlers between the two critical
sections of `export`) and `ExportsPin` (each of them has its entry in the
registry). A reader outside the registry is safe because of `ClosersOwn` and
`ForgottenAreClosed`: it has one closing export and only one, since an entry
is taken out once, by the last export of an expired snapshot.

`BackupPublishProofs` proves for any finite set of runs, any number of pages,
any step size and number of commits, from `BackupAssumption` and
`NamesAssumption`:

- `PublishedIsWhole`: `Spec => []PublishedIsOneVersion`
- `SuccessStays`: `Spec => []SuccessIsDurable`
- `TemporaryRemoved`: `Spec => []NoTemporaryLeft`
- `NothingReplaced`: `Spec => NeverReplaces`

`BackupInv` follows each run from its copy to the link: the copied pages are
pages of one version (`Sound`; a commit between two steps makes the copy start
again), the copy is complete before it is inspected, and what it reports as
fence and hash are those of its file. `Whole` says what has the destination's
name, and `DurableLags` that a crash can take the name away but not give it to
another file. For the temporary names `Clean` is inductive with it: between the
removal and the second sync the name is out of the directory, and after the
report it is out of what a crash can restore, which no step of another run
changes (`Names`, `NamesOfOthers`).

`ArchiveExportProofs` proves over the contract `BlobContract`, which
`BlobStore` implements by `StoreKeepsContract`, for any requests, ranks, batch
and cache sizes, from `ExportAssumption` and the assumptions of the contract:

- `ExportsAreFaithful`: `ExportSpec => []ExportIsFaithful`
- `ExportsFailOnlyWhenRewritten`: `ExportSpec => FailsOnlyWhenRewritten`

`ExportInv` says of each row that must be exported where it still is: written,
in the batch, or where the walk will go on (`SessionWalk` behind the cursor
`after`, `FullWalk` in the queue of ids). `NothingInvented` and `RowsFollowed`
relate the payloads in the batch and in the lines to those the rows had.

`IngestPipelineProofs` proves for any finite set of requests, any threads, body
sizes and capacities and any number of faults, from `PipelineAssumption` and
`NoneAssumption`:

- `ForgottenStayForgotten`: `Spec => []ActiveIsOpen`
- `CutsAreFlagged`: `Spec => []CutIsFlagged`
- `AcceptedStaysKept`: `Spec => []AcceptedIsKept`
- `SummariesAreExact`: `Spec => []SummariesExact`

The argument is about copies. `Known` is every copy of a record on its way:
in the plugin's queue, held by the sender, in a handler whose client gave up,
in the collector's queue, in the batch, in the table. Only `Complete` makes a
record, once for each request (`AcceptedAreDone`), so all copies of a record
are equal (`OneCopy`) and each is flagged if it was cut (`Traced`, from
`Gathering` at the hooks); every other step only moves or forgets copies
(`CopiesCarry`). `AcceptedIsKept` needs `Delivered`: a post that was answered
202 is in the collector's hands, or lost, before the sender forgets it.
`SummariesExact` needs the index and the rows to agree request by request
(`Consistent`); `PutRecordKeeps` keeps that for one record and `PutBatchKeeps`
for a whole batch, by induction over its records. The recursion of `PutBatch`
is unrolled by hand (`PutBatchUnfolds`, from a least counterexample).

`SessionProjectionsProofs` proves for any finite set of requests and sessions,
any credentials, principals, mappings, facets and commands, any number of
attempts, batches, mappings applied and faults, any ids in the requests and any
`stableWindowID`, from `ProjectionAssumption` alone:

- `IndexIsExact`: `Spec => []IndexExact`
- `ReadyMeansComplete`: `Spec => []ReadyIsComplete`
- `RecordedMeansRepaired`: `Spec => []RecordedIsRepaired`
- `TurnsAgreeWhenReady`: `Spec => []TurnViewsAgree`
- `PrincipalsAreKept`: `Spec => PrincipalIsKept`
- `SummariesAreOwn`: `OnePrincipal /\ Spec => []SummaryFromOwnRows`

`ProjectionInv` has three parts. `Typed` gives the types, those of the batch
in memory and of the task's state included. `Consistent` holds wherever the
tasks are: the projections are those of the rows that are indexed (`Exact`), a row that is not indexed is still where
it was sent (`Unmoved`, without which a copy of its request would be indexed
under the wrong session), a batch brings no new row of an older version, and a
turn row agrees with its row. `Work` says what the chain has achieved before
the current task (`Achieved`) and, for each task, that what is not yet done is
on its list (`CanonicalWork` to `FacetWork`): a list is read outside the
transactions that use it, and this is what stays true of it while the writer
goes on. That the writer and the mappings leave it true is one lemma for all
tasks (`UndisturbedKeeps`): a row they add is of the present version, indexed,
told and turned, and one they find keeps what it has. A task that starts, fails or is
restarted has an empty list (`FreshKeeps`), so only `Achieved` is left to show.
`ReadyIsComplete` and `TurnViewsAgree` are then `Achieved("ready")` and
`Consistent`; of the grouping itself nothing is used, since it is given equal
rows. The rebuild is a loop over the rows: `LoopSolved` shows that its
recursive function exists and `ReindexedExact` that it keeps `Exact` from row
to row, from a least counterexample.

`SummariesAreOwn` has the hypothesis `OnePrincipal`: each credential has one
principal, which its mappings and the requests sent with it name. It
is needed: after a mapping has given another principal to a row and its
summary, a copy of the request that still names the old one changes the row and
leaves the summary. The constants of the run satisfy it. Its invariant adds `Owned` (rows, mappings and the identities in
the batch hold that principal or none) and `Shown`.

`SessionViewsProofs` proves for any commands, any earlier conversations without
compactions, any turn names, any number of requests, readers and faults, any
history limit above one and every order of arrival, from `ViewsAssumption`,
`PriorsAssumption`, `HistoryAssumption` and `TextsAssumption`:

- `NothingIsHidden`: `Spec => []NothingHidden`
- `TimelineIsExact`: `Spec => []TimelineExact`
- `TurnsAlwaysMatch`: `Spec => []TurnsMatch`
- `SampleIsAlwaysWhole`: `Spec => []SampleIsWhole`
- `OneJobAlways`: `Spec => []OneJobPerTurn`
- `TextsAreOwn`: `Spec => []TextIsOwn`

The views are loops over conversations, so the module first says what the loops
return: a recursive function of a loop counter exists (`LoopSolved`) and what
holds before and after each step holds at the end (`Loop`, from a least
counterexample). So `Picked` returns the picked positions in order
(`PickedFrom`), entries and messages of two conversations in a row are those of
each (`EntriesConcat`), the common prefix ends where two sequences part
(`CommonIs`), a replay at the front is subtracted whole and nothing else is
(`SubtractFront`, `SubtractOther`), and a deduplicated transcript has one
message for each change (`DedupeHas`). Every client action is one shape,
`Step`: what it adds, what it is answered, what the client holds then.

- `NothingHidden` needs no more than types (`Typed`): what a timeline leaves out
  the request archived before it sent or was answered (`TimelineCovers`), and
  so on down to the first (`AllShown`).
- `TimelineExact` needs `Conversing`: every request but the first follows its
  predecessor in one of four ways. It goes on with the answer (`AfterAnswer`),
  or a compaction came between that failed (`AfterFailedCompaction`), replaced
  a whole conversation (`AfterFirstCompaction`) or one that a compaction
  had begun (`AfterNextCompaction`). In each the common prefix and the
  subtraction give back what was added (`Exact`). The last is the subtle one:
  two conversations that both begin with a compaction share it, and they part
  where their commands do, or the later one repeats the earlier and so is a
  retry. That needs `Shape`: after a compaction stands a command or the model's
  words, never the result of a call.
- `TurnsMatch` needs to know how commands get into requests (`TurnsTold`,
  `CommandsTold`: each turn has one command, and every request quotes its own
  turn's or none, the latter only after a success) and that a record arrives
  once and after the successful ones before it (`ArrivedOnce`). `Sound` is then
  an invariant of the grouping loop: a card's requests are of one turn, or of
  turns that nothing tells apart.
- `SampleIsWhole` needs `Kept`: a successful request that no compaction follows
  is the beginning of every later one.
- `OneJobPerTurn` is inductive with the types of the jobs and pages
  (`ReadingsTyped`). `TextIsOwn` adds `TextsOwned`, of the cached texts and of
  those about to be, and rests on `Sound` for the cards that a build reads.

Each of these inductive invariants was also checked by TLC, with the constants
of the runs of its module.

Only model-checked: the liveness properties `CatchesUp`,
`ReadersEventuallyClose`, `RequestsAnswered`, `AcceptedIsArchived`, `BecomesReady`,
`PagesAreAnswered` and `Terminates`, since the prover has no rule for fairness;
and `LoadsNormalForm` and `PrefetchIsExact` of `PayloadCodec`, whose operators
recurse over JSON trees. The latter would need induction over trees, and the
prover's arithmetic backend does not read modules with recursive operators. That
blobs never dangle does not rest on them: `BlobStoreProofs` takes what a payload
needs as a constant, and the run `codec_round_trip` checks what `PayloadCodec`
makes it.

## Status

Every module of the table is done, and every safety property that a passing run checks
is also proved, but for the two of `PayloadCodec`. What is left is what the next
section leaves out, and the power loss of the hazards' list.

## What is not modelled

- Formatting and parsing of JSON, and what the facet, preview and summary
  extractors of `plugin.go` read out of a body. They decide which session, turn
  and command a request has; the modules take those as given, in every
  combination the bounds allow.
- The listing endpoints (`Sessions`, `SessionRange`, `RequestContext`,
  `SessionTurnPage`, `RequestTimelinePreview`, `Stats`, `Facets`): single
  queries over state that is modelled, sliced into pages.
- The web interface, the management proxy, the attribution migration and the
  release scripts: they keep no state that another part depends on.
- A power loss that rolls back committed transactions, which
  `synchronous=NORMAL` permits; it is listed as a hazard. SQLite is otherwise
  taken at its word (serialisable transactions, snapshot reads).
- Archives whose ingest events an older release wrote without the previous
  session (`LogInit` starts with no events), and SQLite's own `-wal` and `-shm`
  files beside a backup's copy.
- Page order, the set digest and timestamps of a snapshot; the overlap they
  select is arbitrary.
- Media, redaction and the cut of long texts in timelines and samples.
