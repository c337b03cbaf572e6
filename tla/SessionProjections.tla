------------------------- MODULE SessionProjections -------------------------
(***************************************************************************)
(* The searchable projections of the archive: session_indexed_requests,     *)
(* session_summaries, session_facets and turn_records (session_index.go,    *)
(* session_repair.go, turn_projection.go), the identity columns that the    *)
(* credential mappings fill (identity.go), and the startup tasks of the     *)
(* collector that rebuild all of it while the writer ingests (main.go).     *)
(*                                                                         *)
(* Requests are numbers in the order of started_at.  A row's credential is  *)
(* its credential_hash, or the key_id that stands in for it.  A summary is  *)
(* the request whose user message it quotes.  The previews and the facets   *)
(* thread.source, tool.name and request.kind are filled by the same         *)
(* statements as a row's summary and turn id and are left out.              *)
(***************************************************************************)
EXTENDS Integers, FiniteSets, TurnGroups

CONSTANTS Requests,     \* request ids, ordered by started_at
          Sessions, Credentials, Principals,
          Legacy,       \* requests of a database before the upgrade
          Archived,     \* session_id that an older version stored them with
          ThreadId,     \* thread id in the headers of a request, or None
          SessionHeader,\* its Session-Id header, or None
          Fallback,     \* window, body id or execution id that names it otherwise
          Stable,       \* stableWindowID: a session id up to its colon
          Cred,         \* credential of a request
          Given,        \* principal_id a request was sent with, or None
          Command,      \* the user message a request quotes, or None
          TurnOf,       \* its turn.id facet, or None
          Mappings,     \* credential_principals rows that are ever applied
          Attempts,     \* startupMaxAttempts
          MaxSends,     \* bound: batches begun
          MaxApplies,   \* bound: mappings applied
          MaxFaults     \* bound: failing tasks and restarts

None == Missing
Text == {r \in Requests : Command[r] # None}

ASSUME ProjectionAssumption ==
    /\ Requests \subseteq Nat \ {0} /\ IsFiniteSet(Requests) /\ Legacy \subseteq Requests
    /\ IsFiniteSet(Sessions) /\ None \notin Sessions \cup Principals
    /\ Archived \in [Legacy -> Sessions] /\ Fallback \in [Requests -> Sessions]
    /\ {ThreadId, SessionHeader} \subseteq [Requests -> Sessions \cup {None}]
    /\ Stable \in [Sessions -> Sessions]
    /\ Cred \in [Requests -> Credentials] /\ Given \in [Requests -> Principals \cup {None}]
    /\ DOMAIN Command = Requests /\ DOMAIN TurnOf = Requests
    /\ Mappings \subseteq Credentials \X Principals
    /\ Attempts \in Nat \ {0} /\ {MaxSends, MaxApplies, MaxFaults} \subseteq Nat

\* sessionID: the session a new request is sent with.  It does not look at the
\* Session-Id header, and does not cut the thread id.
SentSession ==
    [r \in Requests |-> IF r \in Legacy THEN Archived[r]
                       ELSE IF ThreadId[r] # None THEN ThreadId[r] ELSE Fallback[r]]

\* The session that RepairCanonicalSessions gives a row: its thread id or its
\* Session-Id header, cut; a row that has neither keeps its own.
Canonical ==
    [r \in Requests |-> IF ThreadId[r] # None THEN Stable[ThreadId[r]]
                       ELSE IF SessionHeader[r] # None THEN Stable[SessionHeader[r]]
                       ELSE SentSession[r]]

VARIABLES rows,       \* records: request -> row or NoRow
          turns,      \* turn_records: request -> row or NoTurn
          proj,       \* the session projections, see Projections
          mapping,    \* credential_principals
          previewed,  \* previewed_requests of the current version
          versions,   \* repair_versions
          writer,     \* the batch PutBatch works on, or NoBatch
          startup,    \* the goroutine of startStartupTasks
          sends, applies, faults

vars == <<rows, turns, proj, mapping, previewed, versions, writer, startup, sends, applies, faults>>
counters == <<sends, applies, faults>>

NoRow == [session |-> None]
NoTurn == [session |-> None]
NoSummary == [requests |-> 0]
NoBatch == [request |-> 0]
Owner == Principals \cup {None}

\* said: the summary column is filled; filled: the turn_id column is not NULL.
Rows == [session : Sessions, principal : Owner, facet : Owner, said : BOOLEAN]
Turns == [session : Sessions, principal : Owner, said : BOOLEAN, filled : BOOLEAN]
Summaries == [requests : Nat \ {0}, first : Requests, principal : Owner,
              summary : Requests \cup {0}, at : Requests \cup {0}]
Projections == [indexed : [Requests -> Sessions \cup {None}],
                summaries : [Sessions -> Summaries \cup {NoSummary}],
                facets : [Sessions -> SUBSET Principals]]

Stored(r) == rows[r] # NoRow
In(s) == {r \in Requests : Stored(r) /\ rows[r].session = s}
Earliest(S) == CHOOSE r \in S : \A q \in S : r <= q
Latest(S) == CHOOSE r \in S : \A q \in S : q <= r

\* The members of a set in the order of started_at.
Ascending(S) ==
    LET left[n \in 0..Cardinality(S)] ==
          IF n = 0 THEN S ELSE left[n - 1] \ {Earliest(left[n - 1])}
    IN  [i \in 1..Cardinality(S) |-> Earliest(left[i - 1])]

-----------------------------------------------------------------------------
\* The ON CONFLICT(session_id) clause of indexSessionRecord.
Merged(old, r, principal, said) ==
    LET earlier == said /\ (old.summary = 0 \/ r < old.at)
    IN  [requests  |-> old.requests + 1,
         first     |-> IF r < old.first THEN r ELSE old.first,
         principal |-> IF old.principal = None THEN principal ELSE old.principal,
         summary   |-> IF earlier THEN r ELSE old.summary,
         at        |-> IF earlier THEN r ELSE old.at]

\* The row of session_summaries that a request of a session leaves.
Counted(old, entry) ==
    IF old = NoSummary
    THEN [requests |-> 1, first |-> entry.request, principal |-> entry.principal,
          summary |-> IF entry.said THEN entry.request ELSE 0, at |-> entry.request]
    ELSE Merged(old, entry.request, entry.principal, entry.said)

Entered(p, entry) ==
    [indexed   |-> [p.indexed EXCEPT ![entry.request] = entry.session],
     summaries |-> [p.summaries EXCEPT ![entry.session] = Counted(@, entry)],
     facets    |-> [p.facets EXCEPT ![entry.session] = @ \cup ({entry.facet} \ {None})]]

\* Mutant: the summary is counted although the request was indexed before.
MutantIndexSessionRecord(p, entry) == Entered(p, entry)

\* indexSessionRecord: a request enters the projections once.
IndexSessionRecord(p, entry) ==
    IF p.indexed[entry.request] # None THEN p ELSE Entered(p, entry)

-----------------------------------------------------------------------------
\* PutBatch, before its transaction: the mappings are read into a map.  The
\* request is new, or a copy of one that is stored.
PutBatchReads(r) ==
    /\ writer = NoBatch /\ sends < MaxSends
    /\ r \notin Legacy \/ Stored(r)
    /\ writer' = [request |-> r, identities |-> mapping]
    /\ sends' = sends + 1
    /\ UNCHANGED <<rows, turns, proj, mapping, previewed, versions, startup, applies, faults>>

\* resolveIdentity: the principal that was sent, or that of the credential.
Resolved(r, identities) == IF Given[r] # None THEN Given[r] ELSE identities[Cred[r]]

\* Mutant: a conflict takes the principal of the new copy, set or not.
MutantUpserted(r, principal) ==
    IF Stored(r) THEN [rows[r] EXCEPT !.principal = principal, !.said = r \in Text]
    ELSE [session |-> SentSession[r], principal |-> principal, facet |-> principal, said |-> r \in Text]

\* The INSERT and its ON CONFLICT(request_id) clause: a copy of a request that is
\* stored fills its principal and summary and leaves session and facets alone.
Upserted(r, principal) ==
    IF Stored(r)
    THEN [rows[r] EXCEPT !.principal = IF principal # None THEN principal ELSE @,
                         !.said = @ \/ r \in Text]
    ELSE [session |-> SentSession[r], principal |-> principal, facet |-> principal,
          said |-> r \in Text]

\* PutBatch's transaction: the row, its turn row, the projections.
PutBatchCommits ==
    /\ writer # NoBatch
    /\ LET r == writer.request
           principal == Resolved(r, writer.identities)
           row == Upserted(r, principal)
       IN  /\ rows' = [rows EXCEPT ![r] = row]
           /\ turns' = [turns EXCEPT ![r] = [session |-> row.session, principal |-> row.principal,
                                             said |-> row.said, filled |-> TRUE]]
           /\ proj' = IndexSessionRecord(proj, [request |-> r, session |-> SentSession[r],
                          principal |-> principal, facet |-> principal, said |-> r \in Text])
    /\ writer' = NoBatch
    /\ UNCHANGED <<mapping, previewed, versions, startup, counters>>

\* ApplyCredentialPrincipals with one mapping, in one transaction: the rows of
\* the credential, their turn rows, and the summaries and facets of every
\* session that has such a row.
ApplyCredentialPrincipals(h, p) ==
    LET named == {r \in Requests : Stored(r) /\ Cred[r] = h}
        affected == {rows[r].session : r \in named}
        new == [r \in Requests |-> IF r \in named THEN [rows[r] EXCEPT !.principal = p] ELSE rows[r]]
        owned(s) == {r \in In(s) : new[r].principal # None}
    IN  /\ applies < MaxApplies /\ applies' = applies + 1
        /\ mapping' = [mapping EXCEPT ![h] = p]
        /\ rows' = new
        /\ turns' = [r \in Requests |->
              IF r \in named /\ turns[r] # NoTurn THEN [turns[r] EXCEPT !.principal = p] ELSE turns[r]]
        /\ proj' = [proj EXCEPT
              !.summaries = [s \in Sessions |->
                  IF s \in affected /\ proj.summaries[s] # NoSummary
                  THEN [proj.summaries[s] EXCEPT
                          !.principal = IF owned(s) = {} THEN None ELSE new[Earliest(owned(s))].principal]
                  ELSE proj.summaries[s]],
              !.facets = [s \in Sessions |->
                  IF s \in affected THEN {new[r].principal : r \in owned(s)} ELSE proj.facets[s]]]
        /\ UNCHANGED <<previewed, versions, writer, startup, sends, faults>>

-----------------------------------------------------------------------------
\* startStartupTasks: the tasks run one after the other, each with retries.
At(task, step) == startup.task = task /\ startup.step = step

NextTask == [canonical |-> "backfill", backfill |-> "summaries", summaries |-> "previews",
             previews |-> "turns", turns |-> "facets", facets |-> "ready"]

\* list: the work list, a set that is taken in the order of its query; copy: the
\* rows that backfillTurnSession has read.
NoCopy == [r \in Requests |-> NoTurn]
Begun(task) == [task |-> task, step |-> "list", list |-> {}, copy |-> NoCopy, attempt |-> 1]

Done == startup' = Begun(NextTask[startup.task])

Goto(step, list) == startup' = [startup EXCEPT !.step = step, !.list = list]

\* Mutant: the version is recorded with the work list, before the repair.
MutantCanonicalList ==
    /\ At("canonical", "list")
    /\ LET repairs == {r \in Requests : Stored(r) /\ Canonical[r] # rows[r].session}
       IN  /\ IF versions.canonical >= 1 \/ repairs = {} THEN Done
              ELSE Goto("write", repairs)
           /\ versions' = [versions EXCEPT !.canonical = 1]
    /\ UNCHANGED <<rows, turns, proj, mapping, previewed, writer, counters>>

\* RepairCanonicalSessions: the work list is read outside the transaction.
CanonicalList ==
    /\ At("canonical", "list")
    /\ LET repairs == {r \in Requests : Stored(r) /\ Canonical[r] # rows[r].session}
       IN  IF versions.canonical >= 1 THEN Done /\ UNCHANGED versions
           ELSE IF repairs = {} THEN Done /\ versions' = [versions EXCEPT !.canonical = 1]
           ELSE Goto("write", repairs) /\ UNCHANGED versions
    /\ UNCHANGED <<rows, turns, proj, mapping, previewed, writer, counters>>

Emptied == [indexed |-> [r \in Requests |-> None], summaries |-> [s \in Sessions |-> NoSummary],
            facets |-> [s \in Sessions |-> {}]]

\* The rows of S enter the emptied projections again, one after the other; the
\* order, that of the ids in the code, does not show in the result.  The query
\* does not select principal_id, and facets_json keeps what the row was inserted
\* with.
Entry(table, r) == [request |-> r, session |-> table[r].session,
                    principal |-> None, facet |-> table[r].facet, said |-> table[r].said]

Reindexed(table, S) ==
    LET after[n \in 0..Latest(S \cup {0})] ==
          IF n = 0 THEN Emptied
          ELSE IF n \in S THEN IndexSessionRecord(after[n - 1], Entry(table, n))
          ELSE after[n - 1]
    IN  after[Latest(S \cup {0})]

\* Mutant: the rows move and their projections stay.
MutantCanonicalWrite ==
    /\ At("canonical", "write")
    /\ LET moved == startup.list
       IN  /\ rows' = [r \in Requests |-> IF r \in moved THEN [rows[r] EXCEPT !.session = Canonical[r]] ELSE rows[r]]
           /\ turns' = [r \in Requests |-> IF r \in moved /\ turns[r] # NoTurn
                                          THEN [turns[r] EXCEPT !.session = Canonical[r]] ELSE turns[r]]
    /\ Goto("version", {})
    /\ UNCHANGED <<proj, mapping, previewed, versions, writer, counters>>

CanonicalWrite ==
    /\ At("canonical", "write")
    /\ LET moved == startup.list
           table == [r \in Requests |->
               IF r \in moved THEN [rows[r] EXCEPT !.session = Canonical[r]] ELSE rows[r]]
       IN  /\ rows' = table
           /\ turns' = [r \in Requests |-> IF r \in moved /\ turns[r] # NoTurn
                                          THEN [turns[r] EXCEPT !.session = Canonical[r]] ELSE turns[r]]
           /\ proj' = Reindexed(table, {r \in Requests : table[r] # NoRow})
    /\ Goto("version", {})
    /\ UNCHANGED <<mapping, previewed, versions, writer, counters>>

\* The version is recorded after the transaction, by a statement of its own.
CanonicalVersion ==
    /\ At("canonical", "version")
    /\ versions' = [versions EXCEPT !.canonical = 1]
    /\ Done
    /\ UNCHANGED <<rows, turns, proj, mapping, previewed, writer, counters>>

\* BackfillSessionIndex: the ids of rows that are not indexed, then small
\* transactions (of one row here).
BackfillList ==
    /\ At("backfill", "list")
    /\ LET ids == {r \in Requests : Stored(r) /\ proj.indexed[r] = None}
       IN  IF ids = {} THEN Done ELSE Goto("write", ids)
    /\ UNCHANGED <<rows, turns, proj, mapping, previewed, versions, writer, counters>>

\* Mutant: the last, short batch is not written.
MutantBackfillWrite ==
    /\ At("backfill", "write")
    /\ \E r \in {Earliest(startup.list)} :
          /\ proj' = IF startup.list = {r} THEN proj
                     ELSE IndexSessionRecord(proj, [Entry(rows, r) EXCEPT !.principal = rows[r].principal])
          /\ IF startup.list = {r} THEN Done ELSE Goto("write", startup.list \ {r})
    /\ UNCHANGED <<rows, turns, mapping, previewed, versions, writer, counters>>

BackfillWrite ==
    /\ At("backfill", "write")
    /\ \E r \in {Earliest(startup.list)} :
          /\ proj' = IndexSessionRecord(proj, [Entry(rows, r) EXCEPT !.principal = rows[r].principal])
          /\ IF startup.list = {r} THEN Done ELSE Goto("write", startup.list \ {r})
    /\ UNCHANGED <<rows, turns, mapping, previewed, versions, writer, counters>>

\* RepairSessionSummaries: sessions with the payload of their first request;
\* all of them until version 3 is recorded, later the ones without a summary.
SummaryList ==
    /\ At("summaries", "list")
    /\ LET sessions == {s \in Sessions : /\ proj.summaries[s] # NoSummary /\ In(s) # {}
                                         /\ versions.summaries < 3 \/ proj.summaries[s].summary = 0}
       IN  Goto("write", {[session |-> s, first |-> Earliest(In(s))] : s \in sessions})
    /\ UNCHANGED <<rows, turns, proj, mapping, previewed, versions, writer, counters>>

SummaryWrite ==
    /\ At("summaries", "write")
    /\ \E item \in startup.list :
          LET old == proj.summaries[item.session]
          IN  /\ proj' = IF item.first \notin Text THEN proj
                         ELSE [proj EXCEPT !.summaries = [proj.summaries EXCEPT ![item.session] =
                                 [old EXCEPT !.summary = item.first, !.at = old.first]]]
              /\ Goto("write", startup.list \ {item})
    /\ UNCHANGED <<rows, turns, mapping, previewed, versions, writer, counters>>

SummaryVersion ==
    /\ At("summaries", "write") /\ startup.list = {}
    /\ versions' = [versions EXCEPT !.summaries = 3]
    /\ Done
    /\ UNCHANGED <<rows, turns, proj, mapping, previewed, writer, counters>>

\* RepairRecordPreviews: the rows without a mark, then small transactions (of
\* one row here) that fill the summary of the row and of its turn row from the
\* payload.  Only a row of this repair gets a mark, not one of PutBatch.
PreviewList ==
    /\ At("previews", "list")
    /\ Goto("write", {r \in Requests : Stored(r) /\ r \notin previewed})
    /\ UNCHANGED <<rows, turns, proj, mapping, previewed, versions, writer, counters>>

PreviewWrite ==
    /\ At("previews", "write") /\ startup.list # {}
    /\ \E r \in {Earliest(startup.list)} :
          /\ rows' = [rows EXCEPT ![r] = [rows[r] EXCEPT !.said = @ \/ r \in Text]]
          /\ turns' = IF turns[r] = NoTurn THEN turns
                      ELSE [turns EXCEPT ![r] = [turns[r] EXCEPT !.said = @ \/ r \in Text]]
          /\ previewed' = previewed \cup {r}
          /\ Goto("write", startup.list \ {r})
    /\ UNCHANGED <<proj, mapping, versions, writer, counters>>

PreviewVersion ==
    /\ At("previews", "write") /\ startup.list = {}
    /\ versions' = [versions EXCEPT !.previews = 4]
    /\ Done
    /\ UNCHANGED <<rows, turns, proj, mapping, previewed, writer, counters>>

\* BackfillTurnProjection: one session after the other.
TurnList ==
    /\ At("turns", "list")
    /\ Goto("count", {s \in Sessions : proj.summaries[s] # NoSummary})
    /\ UNCHANGED <<rows, turns, proj, mapping, previewed, versions, writer, counters>>

\* backfillTurnSession: a session whose counts agree is left alone, else the
\* compact columns of its rows are read.
Projected(s) == {r \in Requests : turns[r] # NoTurn /\ turns[r].session = s}
TurnRead ==
    /\ At("turns", "count")
    /\ \E s \in startup.list :
          IF Cardinality(Projected(s)) = Cardinality(In(s)) THEN Goto("count", startup.list \ {s})
          ELSE startup' = [startup EXCEPT !.step = "write", !.list = startup.list \ {s},
                  !.copy = [r \in Requests |-> IF r \in In(s) THEN [session |-> s, said |-> rows[r].said]
                                               ELSE NoTurn]]
    /\ UNCHANGED <<rows, turns, proj, mapping, previewed, versions, writer, counters>>

CopyWritten == startup' = [startup EXCEPT !.step = "count", !.copy = NoCopy]

\* Mutant: the copy leaves the summary out.
MutantTurnWrite ==
    /\ At("turns", "write")
    /\ LET copy == startup.copy
       IN  turns' = [r \in Requests |->
              IF copy[r] = NoTurn THEN turns[r]
              ELSE IF turns[r] = NoTurn
              THEN [session |-> copy[r].session, principal |-> None, said |-> FALSE, filled |-> FALSE]
              ELSE [turns[r] EXCEPT !.session = copy[r].session]]
    /\ CopyWritten
    /\ UNCHANGED <<rows, proj, mapping, previewed, versions, writer, counters>>

\* The copy is written, in a transaction of its own: without the principal, and
\* without the turn id, which the next task fills; a turn row that is there
\* keeps both.
TurnWrite ==
    /\ At("turns", "write")
    /\ LET copy == startup.copy
       IN  turns' = [r \in Requests |->
              IF copy[r] = NoTurn THEN turns[r]
              ELSE IF turns[r] = NoTurn
              THEN [session |-> copy[r].session, principal |-> None,
                    said |-> copy[r].said, filled |-> FALSE]
              ELSE [turns[r] EXCEPT !.session = copy[r].session, !.said = copy[r].said]]
    /\ CopyWritten
    /\ UNCHANGED <<rows, proj, mapping, previewed, versions, writer, counters>>

TurnsDone ==
    /\ At("turns", "count") /\ startup.list = {}
    /\ Done
    /\ UNCHANGED <<rows, turns, proj, mapping, previewed, versions, writer, counters>>

\* BackfillTurnFacetProjection: the newest turn row without a turn id, below the
\* cursor (batches of one row).  Only rows of the older version lack one; their
\* ids are in the order of the requests.
FacetRead ==
    /\ At("facets", "list")
    /\ LET lacking == {r \in Requests : /\ turns[r] # NoTurn /\ ~turns[r].filled
                                        /\ \A cursor \in startup.list : r < cursor}
       IN  IF lacking = {} THEN Done ELSE Goto("write", {Latest(lacking)})
    /\ UNCHANGED <<rows, turns, proj, mapping, previewed, versions, writer, counters>>

\* writeTurnFacetProjectionBatch; its repeats on a busy database change nothing.
FacetWrite ==
    /\ At("facets", "write")
    /\ \E r \in startup.list : turns' = [turns EXCEPT ![r] = [turns[r] EXCEPT !.filled = TRUE]]
    /\ Goto("list", startup.list)
    /\ UNCHANGED <<rows, proj, mapping, previewed, versions, writer, counters>>

Working == startup.task \notin {"ready", "stopped"}

\* Mutant: no attempt is repeated.
MutantRetried == [startup EXCEPT !.task = "stopped"]

\* retryStartup: an attempt that fails is repeated from its list, the last one
\* stops the chain and leaves the collector unready.
Retried ==
    IF startup.attempt < Attempts
    THEN [Begun(startup.task) EXCEPT !.attempt = startup.attempt + 1]
    ELSE [Begun("stopped") EXCEPT !.attempt = startup.attempt]

TaskFails ==
    /\ Working /\ faults < MaxFaults
    /\ startup' = Retried
    /\ faults' = faults + 1
    /\ UNCHANGED <<rows, turns, proj, mapping, previewed, versions, writer, sends, applies>>

\* The collector is restarted: the batch in memory is lost, the tasks begin
\* again.
Restart ==
    /\ faults < MaxFaults
    /\ startup' = Begun("canonical")
    /\ writer' = NoBatch
    /\ faults' = faults + 1
    /\ UNCHANGED <<rows, turns, proj, mapping, previewed, versions, sends, applies>>

-----------------------------------------------------------------------------
\* A database of an older version: rows without principals or turn rows, some
\* of transient sessions, some not indexed, some without a summary.
Init ==
    /\ \E stored \in SUBSET Legacy : \E old \in SUBSET stored : \E said \in SUBSET (stored \cap Text) :
          /\ rows = [r \in Requests |-> IF r \in stored
                       THEN [session |-> SentSession[r], principal |-> None, facet |-> None,
                             said |-> r \in said] ELSE NoRow]
          /\ proj = Reindexed(rows, old)
    /\ previewed = {}
    /\ turns = [r \in Requests |-> NoTurn]
    /\ mapping = [h \in Credentials |-> None]
    /\ versions = [canonical |-> 0, summaries |-> 0, previews |-> 0]
    /\ writer = NoBatch
    /\ startup = Begun("canonical")
    /\ sends = 0 /\ applies = 0 /\ faults = 0

Tasks ==
    \/ CanonicalList \/ CanonicalWrite \/ CanonicalVersion
    \/ BackfillList \/ BackfillWrite
    \/ SummaryList \/ SummaryWrite \/ SummaryVersion
    \/ PreviewList \/ PreviewWrite \/ PreviewVersion
    \/ TurnList \/ TurnRead \/ TurnWrite \/ TurnsDone
    \/ FacetRead \/ FacetWrite

Next ==
    \/ \E r \in Requests : PutBatchReads(r)
    \/ PutBatchCommits
    \/ \E m \in Mappings : ApplyCredentialPrincipals(m[1], m[2])
    \/ Tasks \/ TaskFails \/ Restart

Spec == Init /\ [][Next]_vars

\* The goroutine of the startup tasks runs; nothing is assumed of the others.
\* This is WF_vars(Tasks), with ENABLED Tasks, which is Working, written out.
FairSpec == Spec /\ (<>[]Working => []<><<Tasks>>_vars)

-----------------------------------------------------------------------------
TypeOK ==
    /\ rows \in [Requests -> Rows \cup {NoRow}]
    /\ turns \in [Requests -> Turns \cup {NoTurn}]
    /\ proj \in Projections
    /\ mapping \in [Credentials -> Owner]
    /\ versions \in [canonical : {0, 1}, summaries : {0, 3}, previews : {0, 4}]
    /\ previewed \subseteq Requests
    /\ startup.task \in {"canonical", "backfill", "summaries", "previews", "turns", "facets",
                        "ready", "stopped"}
    /\ startup.attempt \in 1..Attempts

\* Through duplicates of a request, backfill, repair and restarts, an indexed
\* request is indexed under the session its row has, and a session counts each
\* of its indexed requests once and knows the first of them.
IndexExact ==
    /\ TypeOK
    /\ \A r \in Requests : proj.indexed[r] # None => Stored(r) /\ rows[r].session = proj.indexed[r]
    /\ \A s \in Sessions : LET own == {r \in Requests : proj.indexed[r] = s} IN
          /\ proj.summaries[s].requests = Cardinality(own)
          /\ own # {} => proj.summaries[s].first = Earliest(own)

\* Once /readyz answers, every row is in the projections, rows that arrived
\* during the startup included, and no row of an older version is left in a
\* transient session.
ReadyIsComplete ==
    startup.task = "ready" => \A r \in Requests : Stored(r) =>
        /\ proj.indexed[r] # None
        /\ turns[r] # NoTurn /\ turns[r].session = rows[r].session
        /\ r \in Legacy => rows[r].session = Canonical[r]

\* sessionTurnGroups: the turn rows of a session once it has one, else its
\* records, with what their summary and turn_id columns hold.
TurnRow(r, filled, said) ==
    [request |-> r, explicit |-> IF filled THEN TurnOf[r] ELSE None,
     command |-> IF said THEN Command[r] ELSE None, compaction |-> FALSE]

SessionTurnGroups(s) ==
    LET projected == Projected(s)
    IN  Groups(IF projected # {}
               THEN [i \in DOMAIN Ascending(projected) |-> LET r == Ascending(projected)[i]
                         IN  TurnRow(r, turns[r].filled, turns[r].said)]
               ELSE [i \in DOMAIN Ascending(In(s)) |-> LET r == Ascending(In(s))[i]
                         IN  TurnRow(r, TRUE, rows[r].said)])

\* Once /readyz answers, the turns a session shows are those that its requests
\* make with their own ids and commands, whatever was archived without summary,
\* copied without turn id, sent again or moved while the tasks ran.
TurnViewsAgree ==
    startup.task = "ready" => \A s \in Sessions :
        SessionTurnGroups(s) = Groups([i \in DOMAIN Ascending(In(s)) |->
                                           TurnRow(Ascending(In(s))[i], TRUE, TRUE)])

\* The repair is recorded as done only when every row of an older version has
\* its durable session: a crash between its transaction and its version repeats
\* it and never skips it, and no later copy of such a row undoes it.
RecordedIsRepaired ==
    versions.canonical = 1 => \A r \in Legacy : Stored(r) => rows[r].session = Canonical[r]

\* No copy of a request, however late, takes away the principal that a mapping
\* or an earlier copy gave to its row.
PrincipalIsKept ==
    [][\A r \in Requests : Stored(r) /\ rows[r].principal # None => rows'[r].principal # None]_vars

\* While a credential keeps one principal, the principal a session shows is
\* that of one of its rows, and the request its summary quotes is one of its
\* own, before and after rows move between sessions.
SummaryFromOwnRows ==
    \A s \in Sessions : proj.summaries[s] # NoSummary =>
        /\ proj.summaries[s].principal # None =>
              \E r \in In(s) : rows[r].principal = proj.summaries[s].principal
        /\ proj.summaries[s].summary # 0 => proj.summaries[s].summary \in In(s) \cap Text

\* The collector becomes ready and stays so, unless tasks failed as often as
\* retryStartup tries one: nothing that the writer or a mapping does meanwhile
\* holds the chain of tasks up.
BecomesReady ==
    <>[](startup.task = "ready" \/ (startup.task = "stopped" /\ faults >= Attempts))

-----------------------------------------------------------------------------
\* "Search, session summaries, turn views, and both JSONL export formats expose
\* those fields" (README.md): an indexed session with an owned row shows a
\* principal, and a turn row that of its row.  The code does not keep this: the
\* repairs rebuild summaries and turn rows from queries without principal_id.
PrincipalsAreShown ==
    /\ \A s \in Sessions :
          (\E r \in In(s) : proj.indexed[r] = s /\ rows[r].principal # None)
              => proj.summaries[s].principal # None /\ proj.facets[s] # {}
    /\ \A r \in Requests : turns[r] # NoTurn => turns[r].principal = rows[r].principal
=============================================================================
