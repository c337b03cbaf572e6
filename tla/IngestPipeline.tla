---------------------------- MODULE IngestPipeline ----------------------------
(***************************************************************************)
(* How a model request becomes a row of the archive: the plugin's hooks     *)
(* (internal/archive/plugin.go) gather a record, a bounded queue and one    *)
(* sender deliver it to the collector over HTTP, and the collector's        *)
(* handler, queue and writer (cmd/cpa-session-collector/main.go) store it    *)
(* with its session's summary (PutBatch and indexSessionRecord).            *)
(*                                                                         *)
(* A body is its length; a record is what the hooks leave of it.  A         *)
(* request that names no thread is its own session ("request:" + id).       *)
(***************************************************************************)
EXTENDS Integers, Sequences, FiniteSets

CONSTANTS Requests,       \* model requests, each with its request id
          Threads,        \* durable threads that clients name
          BodySizes,      \* lengths of the bodies and chunks the host passes
          MaxSent,        \* bound: bytes of one response
          MaxBody,        \* max_body_bytes
          StoreUpstream,  \* store_upstream_request
          QueueSize,      \* queue_size
          CollectorQueue, \* capacity of server.q
          BatchSize,      \* records the writer flushes at once
          Rejected,       \* requests whose record /ingest answers with 400
          Unstorable,     \* requests whose record PutBatch cannot store
          LateHooks,      \* requests whose request hooks may come after completion
          MaxFaults       \* bound: late hooks, timeouts, refusals, locks, crashes

ASSUME PipelineAssumption ==
    /\ IsFiniteSet(Requests)
    /\ BodySizes \subseteq Nat /\ MaxSent \in Nat
    /\ {MaxBody, QueueSize, CollectorQueue, BatchSize} \subseteq Nat \ {0}
    /\ StoreUpstream \in BOOLEAN
    /\ {Rejected, Unstorable, LateHooks} \subseteq SUBSET Requests
    /\ Threads \cap Requests = {}
    /\ MaxFaults \in Nat

VARIABLES told,       \* what the host has passed of each request
          active,     \* Plugin.active
          configured, \* Plugin.q # nil
          stop,       \* Plugin.stop is closed
          queue,      \* Plugin.q
          sender,     \* where the sender goroutine is, and its record
          late,       \* posts the sender gave up on that a handler still holds
          inbox,      \* server.q
          batch,      \* the writer's batch
          flushing,   \* the writer is in flush
          stored,     \* records, by request id
          indexed,    \* session_indexed_requests
          summaries,  \* session_summaries.requests
          accepted,   \* history: requests whose record entered the queue
          lost,       \* history: requests whose accepted record was dropped
          faults      \* faults so far

hostVars == <<told, active>>
pluginVars == <<configured, stop, queue, sender>>
collectorVars == <<late, inbox, batch, flushing>>
storeVars == <<stored, indexed, summaries>>
historyVars == <<accepted, lost, faults>>
vars == <<hostVars, pluginVars, collectorVars, storeVars, historyVars>>

None == [id |-> "none"]
Sessions == Threads \cup Requests

\* An absent session is no session.
ASSUME NoneAssumption == None \notin Sessions

Least(m, n) == IF m <= n THEN m ELSE n

\* The sender is idle, has posted a record, has an answer, waits to retry, or
\* has returned.
At(pc) == sender.pc = pc
Idle == [pc |-> "idle"]

Fault == faults < MaxFaults /\ faults' = faults + 1
-----------------------------------------------------------------------------
\* A request the plugin has just learned of.
Fresh(r) == [id |-> r, thread |-> None, session |-> None, original |-> 0, upstream |-> 0,
             response |-> 0, chunks |-> 0, truncated |-> FALSE]

\* sessionID: the thread of the client's headers or bodies, or else what the
\* host's metadata names, or else the request itself.
SessionID(thread, hint) == IF thread = None THEN hint ELSE thread

\* The host has completed the request: what it passes afterwards is no part of
\* the record that complete made.  A request hook that comes so late opens the
\* request again.
Over(r) == told[r].stage \in {"done", "again"}
Reopened(r) == IF Over(r) THEN "again" ELSE "open"
LateIsFault(r) == IF told[r].stage = "done" THEN r \in LateHooks /\ Fault ELSE UNCHANGED faults

\* captureRequest before the authentication: the client's headers and body.
\* The plugin does not ask whether the request was completed.
CaptureBefore(r) ==
    /\ told[r].stage \in {"new", "done"} /\ LateIsFault(r)
    /\ \E n \in BodySizes, thread \in Threads \cup {None}, hint \in Threads \cup {r} :
          /\ told' = [told EXCEPT ![r].stage = Reopened(r), ![r].original = IF Over(r) THEN @ ELSE n]
          /\ active' = [active EXCEPT ![r] = [Fresh(r) EXCEPT
                !.thread = thread, !.session = SessionID(thread, hint),
                !.original = Least(n, MaxBody), !.truncated = n > MaxBody]]
    /\ UNCHANGED <<pluginVars, collectorVars, storeVars, accepted, lost>>

\* captureRequest after it, once or more, perhaps as the first hook the plugin
\* sees of the request, or after its completion.
CaptureAfter(r) ==
    /\ LateIsFault(r)
    /\ \E n \in BodySizes, hint \in Threads \cup {r} :
          LET s == IF active[r] = None THEN Fresh(r) ELSE active[r]
              kept == StoreUpstream /\ n > 0
          IN /\ told' = [told EXCEPT ![r].stage = Reopened(r)]
             /\ active' = [active EXCEPT ![r] = [s EXCEPT
                   !.upstream = IF kept THEN Least(n, MaxBody) ELSE @,
                   !.truncated = @ \/ (kept /\ n > MaxBody),
                   !.session = SessionID(s.thread, hint)]]
    /\ UNCHANGED <<pluginVars, collectorVars, storeVars, accepted, lost>>

\* What the host has passed of a response when another n bytes of it arrive.
\* A hook may come after complete, when its stream is cancelled.
Passed(r, n) ==
    IF Over(r) THEN told
    ELSE [told EXCEPT ![r].stage = "open", ![r].response = @ + n]

\* Mutants of the response hooks: one that starts a record as captureRequest
\* does, and one that cuts the stream without a word.
MutantCaptureResponse(r) ==
    /\ told[r].response = 0
    /\ \E n \in BodySizes :
          /\ told' = Passed(r, n)
          /\ active' = [active EXCEPT ![r] =
                [(IF @ = None THEN Fresh(r) ELSE @) EXCEPT !.response = Least(n, MaxBody)]]
    /\ UNCHANGED <<pluginVars, collectorVars, storeVars, historyVars>>

MutantChunkSilent(r) ==
    /\ active[r] # None => active[r].response = 0
    /\ \E n \in BodySizes :
          /\ told[r].response + n <= MaxSent
          /\ told' = Passed(r, n)
          /\ active' = IF active[r] = None THEN active ELSE [active EXCEPT
                ![r].chunks = @ + Least(n, MaxBody - @)]
    /\ UNCHANGED <<pluginVars, collectorVars, storeVars, historyVars>>

\* captureResponse: the body of a response that is not streamed.
CaptureResponse(r) ==
    /\ told[r].response = 0
    /\ \E n \in BodySizes :
          /\ told' = Passed(r, n)
          /\ active' = IF active[r] = None THEN active ELSE [active EXCEPT
                ![r].response = Least(n, MaxBody), ![r].truncated = @ \/ n > MaxBody]
    /\ UNCHANGED <<pluginVars, collectorVars, storeVars, historyVars>>

\* captureChunk: one chunk of a streamed one, of which the buffer keeps what
\* fits.
CaptureChunk(r) ==
    /\ active[r] # None => active[r].response = 0
    /\ \E n \in BodySizes :
          LET remaining == MaxBody - active[r].chunks IN
          /\ told[r].response + n <= MaxSent
          /\ told' = Passed(r, n)
          /\ active' = IF active[r] = None THEN active ELSE [active EXCEPT
                ![r].chunks = @ + Least(n, remaining),
                ![r].truncated = @ \/ remaining <= 0 \/ n > remaining]
    /\ UNCHANGED <<pluginVars, collectorVars, storeVars, historyVars>>

\* The record that complete makes of what the hooks left.
Completed(s, hint) ==
    [id |-> s.id,
     session |-> IF s.session \in Threads THEN s.session ELSE hint,
     original |-> s.original, upstream |-> s.upstream,
     response |-> IF s.response = 0 THEN s.chunks ELSE s.response,
     truncated |-> s.truncated]

\* The send on the queue, which drops the record when there is none or it is
\* full.
Offer(rec) ==
    IF configured /\ Len(queue) < QueueSize
    THEN queue' = Append(queue, rec) /\ accepted' = accepted \cup {rec.id}
    ELSE UNCHANGED <<queue, accepted>>

\* complete, for a request the plugin knows or not.  The host completes a
\* request once.
Complete(r) ==
    /\ ~ Over(r)
    /\ told' = [told EXCEPT ![r].stage = "done"]
    /\ active' = [active EXCEPT ![r] = None]
    /\ \E hint \in Threads \cup {r} :
          Offer(Completed(IF active[r] = None THEN Fresh(r) ELSE active[r], hint))
    /\ UNCHANGED <<configured, stop, sender, collectorVars, storeVars, lost, faults>>

\* plugin.register: the queue and the sender are made once.
Configure ==
    /\ ~configured
    /\ configured' = TRUE
    /\ sender' = Idle
    /\ UNCHANGED <<hostVars, stop, queue, collectorVars, storeVars, historyVars>>

\* Shutdown closes stop.  The sender may still take and deliver records: its
\* selects choose between stop and the queue or the timer.
Shutdown ==
    /\ configured /\ ~stop /\ Fault
    /\ stop' = TRUE
    /\ UNCHANGED <<hostVars, configured, queue, sender, collectorVars, storeVars, accepted, lost>>

-----------------------------------------------------------------------------
\* sender and sendWithRetry.
Take ==
    /\ At("idle") /\ queue # <<>>
    /\ queue' = Tail(queue)
    /\ sender' = [pc |-> "posted", rec |-> Head(queue)]
    /\ UNCHANGED <<hostVars, configured, stop, collectorVars, storeVars, historyVars>>

\* The sender returns: from its own select, or from the one in the backoff,
\* which forgets the record it was to retry.
SenderStops ==
    /\ stop /\ (At("idle") \/ At("backoff"))
    /\ sender' = [pc |-> "returned"]
    /\ lost' = lost \cup {queue[k].id : k \in DOMAIN queue}
                    \cup (IF At("backoff") THEN {sender.rec.id} ELSE {})
    /\ UNCHANGED <<hostVars, configured, stop, queue, collectorVars, storeVars, accepted, faults>>

\* The connection fails, or the answer is lost, or the client's timeout comes
\* before the handler has queued the record.
PostFails ==
    /\ At("posted") \/ At("answered")
    /\ Fault
    /\ sender' = [pc |-> "backoff", rec |-> sender.rec]
    /\ \/ UNCHANGED late
       \/ At("posted") /\ late' = [late EXCEPT ![sender.rec.id] = Append(@, sender.rec)]
    /\ UNCHANGED <<hostVars, configured, stop, queue, inbox, batch, flushing, storeVars,
                   accepted, lost>>

\* Mutant: every answer of the collector counts as a delivery.
MutantAnswered ==
    /\ At("answered")
    /\ sender' = Idle
    /\ UNCHANGED <<hostVars, configured, stop, queue, collectorVars, storeVars, historyVars>>

Answered ==
    /\ At("answered")
    /\ sender' = IF sender.status = 202 THEN Idle ELSE [pc |-> "backoff", rec |-> sender.rec]
    /\ UNCHANGED <<hostVars, configured, stop, queue, collectorVars, storeVars, historyVars>>

Retry ==
    /\ At("backoff")
    /\ sender' = [pc |-> "posted", rec |-> sender.rec]
    /\ UNCHANGED <<hostVars, configured, stop, queue, collectorVars, storeVars, historyVars>>

-----------------------------------------------------------------------------
\* The collector's ingest handler: the status it answers a record with.
IngestStatus(rec) ==
    IF rec.id \in Rejected THEN 400
    ELSE IF Len(inbox) < CollectorQueue THEN 202 ELSE 503

Ingested(rec) == inbox' = IF IngestStatus(rec) = 202 THEN Append(inbox, rec) ELSE inbox

Ingest ==
    /\ At("posted")
    /\ Ingested(sender.rec)
    /\ sender' = [pc |-> "answered", rec |-> sender.rec, status |-> IngestStatus(sender.rec)]
    /\ UNCHANGED <<hostVars, configured, stop, queue, late, batch, flushing, storeVars, historyVars>>

\* A handler whose client has given up.
IngestLate(r) ==
    /\ late[r] # <<>>
    /\ Ingested(Head(late[r]))
    /\ late' = [late EXCEPT ![r] = Tail(@)]
    /\ UNCHANGED <<hostVars, pluginVars, batch, flushing, storeVars, historyVars>>

\* writer
WriterTakes ==
    /\ ~flushing /\ inbox # <<>>
    /\ batch' = Append(batch, Head(inbox))
    /\ inbox' = Tail(inbox)
    /\ flushing' = (Len(batch) + 1 >= BatchSize)
    /\ UNCHANGED <<hostVars, pluginVars, late, storeVars, historyVars>>

\* Mutant: a batch waits until it is full.
MutantWriterTicks ==
    /\ ~flushing /\ Len(batch) >= BatchSize
    /\ flushing' = TRUE
    /\ UNCHANGED <<hostVars, pluginVars, late, inbox, batch, storeVars, historyVars>>

WriterTicks ==
    /\ ~flushing /\ batch # <<>>
    /\ flushing' = TRUE
    /\ UNCHANGED <<hostVars, pluginVars, late, inbox, batch, storeVars, historyVars>>

\* A record of the batch: the first delivery of a request inserts its row, a
\* later one updates outcome and response only.
UpsertRecord(t, rec) ==
    LET row == t.stored[rec.id] IN
    [t EXCEPT !.stored = [t.stored EXCEPT ![rec.id] =
       IF row = None THEN rec
       ELSE [row EXCEPT !.response = rec.response, !.truncated = rec.truncated]]]

\* Mutant: every delivery counts.
MutantIndexSessionRecord(t, rec) ==
    [stored |-> t.stored,
     indexed |-> [t.indexed EXCEPT ![rec.id] = rec.session],
     summaries |-> [t.summaries EXCEPT ![rec.session] = @ + 1]]

\* indexSessionRecord: INSERT OR IGNORE into session_indexed_requests, and the
\* summary counts a request that was new.
IndexSessionRecord(t, rec) ==
    IF t.indexed[rec.id] # None THEN t
    ELSE [stored |-> t.stored,
          indexed |-> [t.indexed EXCEPT ![rec.id] = rec.session],
          summaries |-> [t.summaries EXCEPT ![rec.session] = @ + 1]]

\* PutBatch: the tables after each record of the batch.
Tables == [stored |-> stored, indexed |-> indexed, summaries |-> summaries]
PutBatch[k \in 0..Len(batch)] ==
    IF k = 0 THEN Tables
    ELSE IndexSessionRecord(UpsertRecord(PutBatch[k - 1], batch[k]), batch[k])

BatchIds == {batch[k].id : k \in DOMAIN batch}

\* flush: one transaction.
FlushCommits ==
    /\ flushing /\ BatchIds \cap Unstorable = {}
    /\ LET t == PutBatch[Len(batch)] IN
       stored' = t.stored /\ indexed' = t.indexed /\ summaries' = t.summaries
    /\ batch' = <<>> /\ flushing' = FALSE
    /\ UNCHANGED <<hostVars, pluginVars, late, inbox, historyVars>>

\* The database is locked: nothing is written, flush sleeps and tries again.
FlushLocked ==
    /\ flushing /\ Fault
    /\ UNCHANGED <<hostVars, pluginVars, collectorVars, storeVars, accepted, lost>>

\* Any other error drops the whole batch.
FlushDrops ==
    /\ flushing
    /\ \/ BatchIds \cap Unstorable # {} /\ UNCHANGED faults
       \/ Fault
    /\ lost' = lost \cup BatchIds
    /\ batch' = <<>> /\ flushing' = FALSE
    /\ UNCHANGED <<hostVars, pluginVars, late, inbox, storeVars, accepted>>

\* The collector ends without draining its queue, and starts again.
CollectorRestarts ==
    /\ Fault
    /\ inbox' = <<>> /\ batch' = <<>> /\ flushing' = FALSE
    /\ late' = [r \in Requests |-> <<>>]
    /\ sender' = IF At("posted") \/ At("answered") THEN [pc |-> "backoff", rec |-> sender.rec]
                 ELSE sender
    /\ lost' = lost \cup BatchIds \cup {inbox[k].id : k \in DOMAIN inbox}
    /\ UNCHANGED <<hostVars, configured, stop, queue, storeVars, accepted>>

-----------------------------------------------------------------------------
Init ==
    /\ told = [r \in Requests |-> [stage |-> "new", original |-> 0, response |-> 0]]
    /\ active = [r \in Requests |-> None]
    /\ configured = FALSE /\ stop = FALSE
    /\ queue = <<>> /\ sender = [pc |-> "returned"]
    /\ late = [r \in Requests |-> <<>>]
    /\ inbox = <<>> /\ batch = <<>> /\ flushing = FALSE
    /\ stored = [r \in Requests |-> None]
    /\ indexed = [r \in Requests |-> None]
    /\ summaries = [s \in Sessions |-> 0]
    /\ accepted = {} /\ lost = {} /\ faults = 0

Hooks(r) == CaptureBefore(r) \/ CaptureAfter(r) \/ CaptureResponse(r) \/ CaptureChunk(r) \/ Complete(r)
Sender == Take \/ SenderStops \/ Answered \/ Retry
Writer == WriterTakes \/ WriterTicks \/ FlushCommits \/ FlushDrops

Next ==
    \/ \E r \in Requests : Hooks(r) \/ IngestLate(r)
    \/ Configure \/ Shutdown
    \/ Sender \/ PostFails \/ Ingest
    \/ Writer \/ FlushLocked \/ CollectorRestarts

Spec == Init /\ [][Next]_vars

\* The sender, the handlers and the writer go on; the host need not.
FairSpec ==
    /\ Spec
    /\ WF_vars(Sender) /\ WF_vars(Ingest) /\ WF_vars(Writer)
    /\ \A r \in Requests : WF_vars(IngestLate(r))

-----------------------------------------------------------------------------
Records == [id : Requests, session : Sessions, original : 0..MaxBody, upstream : 0..MaxBody,
            response : 0..MaxBody, truncated : BOOLEAN]
States == [id : Requests, thread : Threads \cup {None}, session : Sessions \cup {None},
           original : 0..MaxBody, upstream : 0..MaxBody, response : 0..MaxBody,
           chunks : 0..MaxBody, truncated : BOOLEAN]
Ids(seq) == {seq[k].id : k \in DOMAIN seq}
Carried == IF "rec" \in DOMAIN sender THEN {sender.rec.id} ELSE {}

\* No buffer outgrows max_body_bytes and no queue its capacity.
TypeOK ==
    /\ active \in [Requests -> States \cup {None}]
    /\ queue \in Seq(Records) /\ Len(queue) <= QueueSize
    /\ inbox \in Seq(Records) /\ Len(inbox) <= CollectorQueue
    /\ batch \in Seq(Records) /\ Len(batch) <= BatchSize
    /\ late \in [Requests -> Seq(Records)]
    /\ stored \in [Requests -> Records \cup {None}]
    /\ indexed \in [Requests -> Sessions \cup {None}]
    /\ summaries \in [Sessions -> Nat]
    /\ sender.pc \in {"idle", "posted", "answered", "backoff", "returned"}
    /\ accepted \subseteq Requests /\ lost \subseteq accepted

\* A session's summary counts each of its requests once, however often the
\* retries of the sender delivered it, whatever copies shared a batch and
\* whichever batches were dropped (INSERT OR IGNORE and the counter of
\* indexSessionRecord in PutBatch's transaction).
SummariesExact ==
    \A s \in Sessions :
       summaries[s] = Cardinality({r \in Requests : stored[r] # None /\ stored[r].session = s})

\* A row that holds less than the host passed of a body it captured says so:
\* truncated survives the cut of the request, of the response and of the
\* stream, none of which outgrows max_body_bytes, the hand-over at completion and every redelivery.
CutIsFlagged ==
    /\ TypeOK
    /\ \A r \in Requests :
          LET row == stored[r] IN
          row # None /\ row.original > 0 =>
             \/ row.truncated
             \/ row.original = told[r].original /\ row.response = told[r].response

\* No queue outgrows its capacity, and an accepted record is somewhere on its
\* way, or in the archive, or one of the drops the code logs or admits to
\* (shutdown, restart, a failed batch) took it: the sender forgets a record only
\* for a 2xx, and the writer a batch only when it is committed.
AcceptedIsKept ==
    /\ TypeOK
    /\ accepted \subseteq Ids(queue) \cup Carried \cup Ids(inbox) \cup Ids(batch)
                           \cup {r \in Requests : stored[r] # None} \cup lost

\* The plugin forgets a request when it completes, and no hook of its response
\* that arrives later brings it back: an entry of active waits for its
\* completion, unless captureRequest itself was called after that (it starts an
\* entry without asking, and nothing removes that one).
ActiveIsOpen == \A r \in Requests : active[r] # None => told[r].stage \in {"open", "again"}

\* A record is archived from the moment the queue accepts it, through any
\* finite number of timeouts, refusals, full queues and locks, unless the
\* plugin is shut down or the collector loses it (README: an "unavailable
\* collector does not fail the model request and is retried with bounded
\* backpressure").  A record that the collector can only refuse is excepted.
AcceptedIsArchived ==
    \A r \in Requests \ Rejected :
       r \in accepted ~> stored[r] # None \/ r \in lost \/ stop
=============================================================================
