---------------------------- MODULE ArchiveExport ----------------------------
(***************************************************************************)
(* The JSONL exports that read the live database (ExportArchiveJSONL in     *)
(* store.go), over a store that keeps BlobContract while they run.          *)
(*                                                                         *)
(* The export of a session walks its rows with a cursor, batch by batch,    *)
(* each batch a query of its own with a cache of its own; the export of the *)
(* whole archive lists the request ids first and then reads row by row.     *)
(* No transaction holds an export together: rows arrive, move between       *)
(* sessions and change their payload while it runs.                         *)
(***************************************************************************)
EXTENDS BlobContract, Sequences

CONSTANTS Rank,        \* the place of a row in the order of started_at and id
          BatchSize,   \* archiveExportBatchSize
          Small,       \* blobs within archiveExportCacheEntryBytes
          CacheSize,   \* archiveExportCacheBytes, counted in blobs
          MaxWrites    \* bound: transactions of others during an export

ASSUME ExportAssumption ==
    /\ Rank \in [Requests -> Nat \ {0}]
    /\ \A r, q \in Requests : Rank[r] = Rank[q] => r = q
    /\ BatchSize \in Nat \ {0} /\ MaxWrites \in Nat
    /\ Small \subseteq Blobs /\ CacheSize \in Nat

VARIABLES home,    \* the session of a row: the exported one, another, or no row yet
          export,  \* the export: see Exports
          steady,  \* the rows that an export must hold: there from its begin until now
          had,     \* the payloads a row has had since the export began
          writes   \* transactions of others so far

readers == <<home, export, steady, had, writes>>
exportVars == <<contractVars, readers>>

Places == {"session", "other", "absent"}
Rows == {r \in Requests : home[r] # "absent"}

\* What a row's response is: the payload it refers to, or the one in it.
Inline(r) == IF legacy[r] = Moved THEN NoPayload ELSE legacy[r]
Content(r) == IF refs[r] # NoPayload THEN refs[r] ELSE Inline(r)

Running == export.step \in {"query", "prefetch", "load"}

-----------------------------------------------------------------------------
\* ExportArchiveJSONL begins, of one session or, with no session id, of all.
ExportBegins(full) ==
    /\ export.step = "idle"
    /\ export' = [export EXCEPT !.step = "query", !.full = full,
                     !.queue = IF full THEN Rows ELSE {}]
    /\ steady' = IF full THEN Rows ELSE {r \in Rows : home[r] = "session"}
    /\ had' = [r \in Requests |-> {Content(r)}]
    /\ UNCHANGED <<contractVars, home, writes>>

Item(r) == [ref |-> refs[r], inline |-> Inline(r)]

\* The rows behind the cursor, and their beginnings in the order of the ranks.
Behind == {r \in Rows : home[r] = "session" /\ Rank[r] > export.after}
Beginnings == {S \in SUBSET Behind : /\ Cardinality(S) <= BatchSize
                                     /\ \A a \in S, b \in Behind \ S : Rank[a] < Rank[b]}

\* Mutant: a batch that the byte limit cut counts as the last one.
MutantBatchRead ==
    /\ export.step = "query" /\ ~export.full
    /\ \E S \in Beginnings :
          /\ S = {} => Behind = {}
          /\ export' = [export EXCEPT !.step = "prefetch", !.batch = [r \in S |-> Item(r)],
                                      !.more = Cardinality(S) = BatchSize]
    /\ UNCHANGED <<contractVars, home, steady, had, writes>>

\* The query of exportSessionArchiveBatches: the next rows behind the cursor, at
\* most a batch.  The byte limit may end the batch after any row of it; the
\* export goes on when the limit did or the batch is full.
BatchRead ==
    /\ export.step = "query" /\ ~export.full
    /\ \E S \in Beginnings, limited \in BOOLEAN :
          /\ limited => S # {}
          /\ S # Behind => limited \/ Cardinality(S) = BatchSize
          /\ export' = [export EXCEPT !.step = "prefetch", !.batch = [r \in S |-> Item(r)],
                                      !.more = limited \/ Cardinality(S) = BatchSize]
    /\ UNCHANGED <<contractVars, home, steady, had, writes>>

\* archivePayloadCacheCanStore: what a cache of that content may take in.
CanStore(cache, new) ==
    {more \in SUBSET (new \cap Small) : Cardinality(cache \cup more) <= CacheSize}

\* prefetchArchivePayloads: a new cache, and of the batch's blobs those that are
\* in the table and fit; which ones depends on the order the table yields.  A
\* blob that is missing is left to the load.
Prefetch ==
    /\ export.step = "prefetch"
    /\ \E cached \in CanStore({}, blobs \cap UNION {BlobsOf(export.batch[r].ref) : r \in DOMAIN export.batch}) :
          export' = [export EXCEPT !.step = "load", !.cache = cached]
    /\ UNCHANGED <<contractVars, home, steady, had, writes>>

\* The next id of the full export, which lists them session by session: Request
\* reads its row, then its blobs.
RequestRead ==
    /\ export.step = "query" /\ export.full
    /\ \E r \in export.queue :
          export' = [export EXCEPT !.step = "load", !.queue = @ \ {r}, !.more = TRUE,
                                   !.batch = [q \in {r} |-> Item(r)], !.cache = {}]
    /\ UNCHANGED <<contractVars, home, steady, had, writes>>

\* The line that encodeArchiveExportRow writes of a row as it was read.
Line(r, item) == [request |-> r, payload |-> IF item.ref # NoPayload THEN item.ref ELSE item.inline]

IsNext(r) == /\ export.step = "load" /\ r \in DOMAIN export.batch
             /\ \A q \in DOMAIN export.batch : Rank[r] <= Rank[q]
Rest(r) == [q \in DOMAIN export.batch \ {r} |-> export.batch[q]]
Found(r) == BlobsOf(export.batch[r].ref) \subseteq export.cache \cup blobs

\* loadPayloadWithCache: each blob comes from the cache or the table, and the
\* cache takes what fits.  The cursor follows the line.
LineLoads(r) ==
    /\ IsNext(r) /\ Found(r)
    /\ \E more \in IF export.full THEN {{}} ELSE CanStore(export.cache, BlobsOf(export.batch[r].ref)) :
          export' = [export EXCEPT !.batch = Rest(r), !.cache = @ \cup more, !.after = Rank[r],
                                   !.lines = Append(@, Line(r, export.batch[r]))]
    /\ UNCHANGED <<contractVars, home, steady, had, writes>>

\* Mutant: what the prefetch did not find is taken as missing.
MutantLineFails(r) ==
    /\ IsNext(r) /\ ~(BlobsOf(export.batch[r].ref) \subseteq export.cache)
    /\ export' = [export EXCEPT !.step = "failed"]
    /\ UNCHANGED <<contractVars, home, steady, had, writes>>

\* A blob that is in neither ends the export, behind the 200 that was sent.
LineFails(r) ==
    /\ IsNext(r) /\ ~Found(r)
    /\ export' = [export EXCEPT !.step = "failed"]
    /\ UNCHANGED <<contractVars, home, steady, had, writes>>

\* The loops go on or end.
BatchEnds ==
    /\ \/ export.step = "load" /\ DOMAIN export.batch = {}
       \/ export.step = "query" /\ export.full /\ export.queue = {}
    /\ export' = [export EXCEPT !.step = IF export.step = "load" /\ export.more THEN "query" ELSE "done"]
    /\ UNCHANGED <<contractVars, home, steady, had, writes>>

-----------------------------------------------------------------------------
\* What others do while an export runs, and what it means for the export.
Others ==
    /\ Running /\ writes < MaxWrites
    /\ writes' = writes + 1
    /\ UNCHANGED export

\* PutBatch rewrites a row or inserts it.
Write(r, p, place) ==
    /\ Others
    /\ home[r] \in {"absent", place}
    /\ Deliver(r, p)
    /\ home' = [home EXCEPT ![r] = place]
    /\ had' = [had EXCEPT ![r] = @ \cup {Content(r)'}]
    /\ UNCHANGED steady

\* MigrateLegacy or NormalizeHistoricalSSE rewrites a row.
Maintain(r) ==
    /\ Others
    /\ r \in Rows
    /\ Settle(r)
    /\ had' = [had EXCEPT ![r] = @ \cup {Content(r)'}]
    /\ UNCHANGED <<home, steady>>

GC ==
    /\ Others
    /\ Collect
    /\ UNCHANGED <<home, steady, had>>

\* RepairCanonicalSessions moves a row into the session or out of it.
Move(r) ==
    /\ Others
    /\ r \in Rows
    /\ home' = [home EXCEPT ![r] = IF @ = "session" THEN "other" ELSE "session"]
    /\ steady' = IF export.full THEN steady ELSE steady \ {r}
    /\ UNCHANGED <<contractVars, had>>

ExportInit ==
    /\ ContractInit
    /\ home \in [Requests -> Places]
    /\ \A r \in Requests : home[r] = "absent" => refs[r] = NoPayload /\ legacy[r] = Moved
    /\ export = [step |-> "idle", full |-> FALSE, queue |-> {}, after |-> 0, batch |-> <<>>,
                 more |-> FALSE, cache |-> {}, lines |-> <<>>]
    /\ steady = {} /\ had = [r \in Requests |-> {}]
    /\ writes = 0

Export ==
    \/ \E full \in BOOLEAN : ExportBegins(full)
    \/ BatchRead \/ Prefetch \/ RequestRead \/ BatchEnds
    \/ \E r \in Requests : LineLoads(r) \/ LineFails(r)

ExportNext ==
    \/ \E r \in Requests, p \in Refs, place \in {"session", "other"} : Write(r, p, place)
    \/ GC
    \/ \E r \in Requests : Maintain(r) \/ Move(r)
    \/ Export

ExportSpec == ExportInit /\ [][ExportNext]_exportVars

-----------------------------------------------------------------------------
Exported == {export.lines[i].request : i \in DOMAIN export.lines}

\* However its batches were cut and whatever arrived, moved, was rewritten or
\* collected meanwhile, an export that ends well holds every row that was there
\* all the time, none twice, and a session's rows in the order of the archive;
\* and no line invents a payload: it carries one that its row had while the
\* export ran (exportSessionArchiveBatches, exportFullArchiveLegacy).
ExportIsFaithful ==
    /\ export.step = "done" => steady \subseteq Exported
    /\ \A i, j \in DOMAIN export.lines :
          /\ export.lines[i].request = export.lines[j].request => i = j
          /\ ~export.full /\ i < j => Rank[export.lines[i].request] < Rank[export.lines[j].request]
    /\ \A i \in DOMAIN export.lines : export.lines[i].payload \in had[export.lines[i].request]

\* An export fails only over a row that was rewritten after it was read: what the
\* row refers to while its line is loaded is there, garbage collection or not.
FailsOnlyWhenRewritten ==
    [][export'.step = "failed" /\ export.step # "failed"
         => \E r \in Requests : IsNext(r) /\ refs[r] # export.batch[r].ref]_exportVars
=============================================================================
