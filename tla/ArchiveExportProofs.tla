------------------------ MODULE ArchiveExportProofs ------------------------
(***************************************************************************)
(* ArchiveExport for every set of requests, any ranks, batch and cache      *)
(* sizes and any number of concurrent transactions: an export that ends     *)
(* well is complete, has no line twice and invents no payload, and it fails *)
(* only over a row that was rewritten under it.                             *)
(***************************************************************************)
EXTENDS ArchiveExport, TLAPS

Items == [ref : Refs, inline : Refs]
Batches == UNION {[D -> Items] : D \in SUBSET Requests}
Lines == [request : Requests, payload : Refs]
Exports == [step : {"idle", "query", "prefetch", "load", "done", "failed"}, full : BOOLEAN,
            queue : SUBSET Requests, after : Nat, batch : Batches, more : BOOLEAN,
            cache : SUBSET Blobs, lines : Seq(Lines)]

ExportTypeOK ==
    /\ refs \in [Requests -> Refs] /\ legacy \in [Requests -> Refs \cup {Moved}]
    /\ home \in [Requests -> Places]
    /\ export \in Exports
    /\ steady \subseteq Requests
    /\ had \in [Requests -> SUBSET Refs]

Written(e, r) == \E i \in 1..Len(e.lines) : e.lines[i].request = r

\* The export of a session: the lines are in order and before the cursor, the
\* batch is behind it, and a row that must be exported and is not yet is in the
\* batch or behind it, where the export will go on.
SessionWalk(e) ==
    /\ \A i, j \in 1..Len(e.lines) : i < j => Rank[e.lines[i].request] < Rank[e.lines[j].request]
    /\ \A i \in 1..Len(e.lines) : Rank[e.lines[i].request] <= e.after
    /\ e.step \in {"prefetch", "load"} => \A r \in DOMAIN e.batch : Rank[r] > e.after
    /\ \A r \in steady : Written(e, r) \/
          /\ e.step = "query" => Rank[r] > e.after
          /\ e.step \in {"prefetch", "load"} =>
                \/ r \in DOMAIN e.batch
                \/ /\ e.more /\ Rank[r] > e.after
                   /\ \A q \in DOMAIN e.batch : Rank[q] < Rank[r]
          /\ e.step # "done"

\* The export of the archive: a row is in the queue, being read or written, and
\* in one of them only.
FullWalk(e) ==
    /\ \A i, j \in 1..Len(e.lines) : e.lines[i].request = e.lines[j].request => i = j
    /\ \A r \in e.queue : ~Written(e, r)
    /\ e.step # "prefetch"
    /\ e.step = "load" => e.more /\ \A r \in DOMAIN e.batch : ~Written(e, r) /\ r \notin e.queue
    /\ \A r \in steady : Written(e, r) \/
          /\ e.step = "query" => r \in e.queue
          /\ e.step = "load" => r \in e.queue \/ r \in DOMAIN e.batch
          /\ e.step # "done"

\* What was read and what was written are payloads that the row had.
NothingInvented(e) ==
    /\ \A r \in DOMAIN e.batch : Line(r, e.batch[r]).payload \in had[r]
    /\ \A i \in 1..Len(e.lines) : e.lines[i].payload \in had[e.lines[i].request]

\* The rows as the export may still read them.
RowsFollowed ==
    export.step \in {"query", "prefetch", "load"} =>
        /\ \A r \in Requests : Content(r) \in had[r]
        /\ \A r \in steady : home[r] # "absent" /\ (~export.full => home[r] = "session")

NotBegun == export.step = "idle" =>
               Len(export.lines) = 0 /\ export.after = 0 /\ DOMAIN export.batch = {}

ExportInv ==
    /\ ExportTypeOK
    /\ NoDanglingReference
    /\ ~export.full => SessionWalk(export)
    /\ export.full => FullWalk(export)
    /\ NothingInvented(export)
    /\ RowsFollowed
    /\ NotBegun

\* A batch as a function.
LEMMA BatchIsFunction ==
  ASSUME NEW B \in Batches
  PROVE  DOMAIN B \subseteq Requests /\ \A r \in DOMAIN B : B[r] \in Items
BY DEF Batches

LEMMA FunctionIsBatch ==
  ASSUME NEW D \in SUBSET Requests, NEW B \in [D -> Items]
  PROVE  B \in Batches
BY DEF Batches

\* The parts of an export.
LEMMA ExportParts ==
  ASSUME NEW e \in Exports
  PROVE  /\ e.full \in BOOLEAN /\ e.more \in BOOLEAN /\ e.queue \subseteq Requests /\ e.after \in Nat
         /\ e.batch \in Batches /\ DOMAIN e.batch \subseteq Requests
         /\ \A r \in DOMAIN e.batch : e.batch[r] \in Items
         /\ e.lines \in Seq(Lines) /\ Len(e.lines) \in Nat
         /\ \A i \in 1..Len(e.lines) : e.lines[i] \in Lines /\ e.lines[i].request \in Requests
<1>1. /\ e.full \in BOOLEAN /\ e.more \in BOOLEAN /\ e.queue \subseteq Requests /\ e.after \in Nat
      /\ e.batch \in Batches /\ e.lines \in Seq(Lines)
  BY DEF Exports
<1>2. DOMAIN e.batch \subseteq Requests /\ \A r \in DOMAIN e.batch : e.batch[r] \in Items
  BY <1>1, BatchIsFunction
<1>3. \A i \in 1..Len(e.lines) : e.lines[i] \in Lines
  BY <1>1
<1>4. \A i \in 1..Len(e.lines) : e.lines[i].request \in Requests
  BY <1>3 DEF Lines
<1>5. Len(e.lines) \in Nat
  BY <1>1
<1>. QED BY <1>1, <1>2, <1>3, <1>4, <1>5

LEMMA InitExportInv == ExportInit => ExportInv
<1> SUFFICES ASSUME ExportInit PROVE ExportInv
  OBVIOUS
<1>1. /\ refs \in [Requests -> Refs] /\ legacy \in [Requests -> Refs \cup {Moved}] /\ Reachable \subseteq blobs
      /\ home \in [Requests -> Places] /\ steady = {} /\ had = [r \in Requests |-> {}]
      /\ export = [step |-> "idle", full |-> FALSE, queue |-> {}, after |-> 0, batch |-> <<>>,
                 more |-> FALSE, cache |-> {}, lines |-> <<>>]
  BY DEF ExportInit, ContractInit
<1>2. <<>> \in Batches /\ DOMAIN <<>> = {}
  <2>1. <<>> \in [{} -> Items] /\ DOMAIN <<>> = {}
    OBVIOUS
  <2>. QED BY <2>1, FunctionIsBatch
<1>3. <<>> \in Seq(Lines) /\ Len(<<>>) = 0
  OBVIOUS
<1>4. /\ export \in Exports /\ export.step = "idle" /\ ~export.full /\ DOMAIN export.batch = {}
      /\ Len(export.lines) = 0 /\ export.after = 0
  BY <1>1, <1>2, <1>3 DEF Exports
<1>5. ExportTypeOK /\ NoDanglingReference /\ RowsFollowed /\ NotBegun
  BY <1>1, <1>4 DEF ExportTypeOK, NoDanglingReference, RowsFollowed, NotBegun
<1>6. SessionWalk(export) /\ NothingInvented(export)
  BY <1>1, <1>4 DEF SessionWalk, NothingInvented
<1>. QED BY <1>4, <1>5, <1>6 DEF ExportInv

-----------------------------------------------------------------------------
(* What others do *)

\* An export that runs does not notice a step that keeps the contract, takes
\* away from what must be exported and adds to what a row has had.
LEMMA OthersKeepWalk ==
  ASSUME ExportInv, export' = export, export.step \in {"query", "prefetch", "load"},
         ExportTypeOK', NoDanglingReference', RowsFollowed',
         steady' \subseteq steady,
         \A r \in Requests : had[r] \subseteq had'[r]
  PROVE  ExportInv'
<1>1. export \in Exports
  BY DEF ExportInv, ExportTypeOK
<1>2. /\ DOMAIN export.batch \subseteq Requests
      /\ \A i \in 1..Len(export.lines) : export.lines[i].request \in Requests
  BY <1>1, ExportParts
<1>3. ASSUME ~export.full PROVE SessionWalk(export)'
  <2>1. SessionWalk(export)
    BY <1>3 DEF ExportInv
  <2>. QED BY <2>1 DEF SessionWalk, Written
<1>4. ASSUME export.full PROVE FullWalk(export)'
  <2>1. FullWalk(export)
    BY <1>4 DEF ExportInv
  <2>. QED BY <2>1 DEF FullWalk, Written
<1>5. NothingInvented(export)'
  <2>1. NothingInvented(export)
    BY DEF ExportInv
  <2>2. ASSUME NEW r \in DOMAIN export.batch
        PROVE  Line(r, export.batch[r]).payload \in had'[r]
    BY <1>2, <2>1 DEF NothingInvented
  <2>3. ASSUME NEW i \in 1..Len(export.lines)
        PROVE  export.lines[i].payload \in had'[export.lines[i].request]
    BY <1>2, <2>1 DEF NothingInvented
  <2>. QED BY <2>2, <2>3 DEF NothingInvented, Line
<1>6. NotBegun'
  BY DEF NotBegun
<1>. QED BY <1>3, <1>4, <1>5, <1>6 DEF ExportInv

LEMMA WriteKeeps ==
  ASSUME ExportInv, NEW r \in Requests,
         \/ \E p \in Refs, place \in {"session", "other"} : Write(r, p, place)
         \/ Maintain(r)
  PROVE  ExportInv'
<1>1. /\ refs \in [Requests -> Refs] /\ legacy \in [Requests -> Refs \cup {Moved}]
      /\ home \in [Requests -> Places] /\ had \in [Requests -> SUBSET Refs]
      /\ Reachable \subseteq blobs
  BY DEF ExportInv, ExportTypeOK, NoDanglingReference
<1>2. /\ export' = export /\ export.step \in {"query", "prefetch", "load"} /\ steady' = steady
      /\ \/ home' = home
         \/ \E place \in {"session", "other"} :
               home[r] \in {"absent", place} /\ home' = [home EXCEPT ![r] = place]
      /\ had' = [had EXCEPT ![r] = had[r] \cup {Content(r)'}]
  BY DEF Write, Maintain, Others, Running
<1>0. PICK p \in Refs : Rewrite(r, p) /\ (legacy' = legacy \/ legacy' = [legacy EXCEPT ![r] = Moved])
  BY <1>1 DEF Write, Maintain, Deliver, Settle
<1>3. Stored(p) \in Refs
  BY PartsAssumption DEF Stored, Refs
<1>4. /\ refs' \in [Requests -> Refs] /\ refs'[r] = Stored(p)
      /\ \A q \in Requests \ {r} : refs'[q] = refs[q]
      /\ blobs' = blobs \cup BlobsOf(Stored(p))
  BY <1>0, <1>1, <1>3 DEF Rewrite
<1>5. legacy' \in [Requests -> Refs \cup {Moved}] /\ \A q \in Requests \ {r} : legacy'[q] = legacy[q]
  BY <1>0, <1>1
<1>6. NoDanglingReference'
  <2> SUFFICES ASSUME NEW b \in Reachable' PROVE b \in blobs'
    BY DEF NoDanglingReference
  <2>1. PICK q \in Requests : refs'[q] # NoPayload /\ b \in Parts[refs'[q]]
    BY Zenon DEF Reachable
  <2>2. CASE q = r
    BY <1>4, <2>1, <2>2 DEF BlobsOf
  <2>3. CASE q # r
    <3>1. refs[q] # NoPayload /\ b \in Parts[refs[q]]
      BY <1>4, <2>1, <2>3
    <3>2. b \in Reachable
      BY <3>1, Zenon DEF Reachable
    <3>. QED BY <1>1, <1>4, <3>2
  <2>. QED BY <2>2, <2>3
<1>7. Content(r)' \in Refs /\ \A q \in Requests \ {r} : Content(q)' = Content(q)
  BY <1>4, <1>5 DEF Content, Inline, Refs
<1>8. /\ had' \in [Requests -> SUBSET Refs] /\ Content(r)' \in had'[r]
      /\ \A q \in Requests : had[q] \subseteq had'[q]
  BY <1>1, <1>2, <1>7
<1>9. home' \in [Requests -> Places]
  BY <1>1, <1>2 DEF Places
<1>10. ExportTypeOK'
  BY <1>2, <1>4, <1>5, <1>8, <1>9 DEF ExportInv, ExportTypeOK
<1>11. RowsFollowed'
  <2>1. /\ \A q \in Requests : Content(q) \in had[q]
        /\ \A q \in steady : home[q] # "absent" /\ (~export.full => home[q] = "session")
    BY <1>2 DEF ExportInv, RowsFollowed
  <2>2. \A q \in Requests : Content(q)' \in had'[q]
    BY <1>7, <1>8, <2>1
  <2>3. \A q \in steady : home'[q] = home[q]
    BY <1>1, <1>2, <2>1 DEF ExportInv, ExportTypeOK
  <2>. QED BY <1>2, <2>1, <2>2, <2>3 DEF RowsFollowed
<1>. QED BY <1>2, <1>6, <1>8, <1>10, <1>11, OthersKeepWalk

LEMMA CollectAndMoveKeep ==
  ASSUME ExportInv, GC \/ \E r \in Requests : Move(r)
  PROVE  ExportInv'
<1>1. /\ refs' = refs /\ legacy' = legacy /\ export' = export /\ had' = had /\ steady' \subseteq steady
      /\ export.step \in {"query", "prefetch", "load"}
  BY DEF GC, Move, Others, Running, Collect, contractVars
<1>2. NoDanglingReference'
  <2>1. Reachable' = Reachable
    BY <1>1 DEF Reachable
  <2>2. blobs' = Reachable \/ blobs' = blobs
    BY DEF GC, Move, Collect, contractVars
  <2>. QED BY <2>1, <2>2 DEF ExportInv, NoDanglingReference
<1>3. /\ home \in [Requests -> Places] /\ steady \subseteq Requests
      /\ \A q \in Requests : Content(q) \in had[q]
      /\ \A q \in steady : home[q] # "absent" /\ (~export.full => home[q] = "session")
  BY <1>1 DEF ExportInv, ExportTypeOK, RowsFollowed
<1>4. /\ home' \in [Requests -> Places]
      /\ \A q \in steady' : home'[q] # "absent" /\ (~export.full => home'[q] = "session")
  <2>1. CASE GC
    BY <1>3, <2>1 DEF GC
  <2>2. ASSUME NEW r \in Requests, Move(r)
        PROVE  /\ home' \in [Requests -> Places]
               /\ \A q \in steady' : home'[q] # "absent" /\ (~export.full => home'[q] = "session")
    <3>1. /\ home' = [home EXCEPT ![r] = IF home[r] = "session" THEN "other" ELSE "session"]
          /\ steady' = IF export.full THEN steady ELSE steady \ {r}
      BY <2>2 DEF Move
    <3>. QED BY <1>3, <3>1 DEF Places
  <2>. QED BY <2>1, <2>2
<1>5. ExportTypeOK'
  BY <1>1, <1>4 DEF ExportInv, ExportTypeOK
<1>6. RowsFollowed'
  <2>1. \A q \in Requests : Content(q)' = Content(q)
    BY <1>1 DEF Content, Inline
  <2>. QED BY <1>1, <1>3, <1>4, <2>1 DEF RowsFollowed
<1>. QED BY <1>1, <1>2, <1>5, <1>6, OthersKeepWalk

-----------------------------------------------------------------------------
(* The export's own steps *)

LEMMA OwnStep ==
  ASSUME ExportInv, UNCHANGED <<contractVars, home, steady, had>>, NEW e \in Exports, export' = e,
         export.step \in {"query", "prefetch", "load"}, e.full = export.full, e.step # "idle",
         ~e.full => SessionWalk(e), e.full => FullWalk(e), NothingInvented(e)
  PROVE  ExportInv'
<1>1. /\ refs' = refs /\ legacy' = legacy /\ blobs' = blobs
      /\ home' = home /\ steady' = steady /\ had' = had
  BY DEF contractVars
<1>2. ExportTypeOK' /\ NoDanglingReference'
  BY <1>1 DEF ExportInv, ExportTypeOK, NoDanglingReference, Reachable
<1>3. /\ ~export'.full => SessionWalk(export)'
      /\ export'.full => FullWalk(export)'
  BY <1>1 DEF SessionWalk, FullWalk, Written
<1>4. NothingInvented(export)'
  BY <1>1 DEF NothingInvented, Line
<1>5. RowsFollowed'
  <2>1. /\ \A r \in Requests : Content(r) \in had[r]
        /\ \A r \in steady : home[r] # "absent" /\ (~export.full => home[r] = "session")
    BY DEF ExportInv, RowsFollowed
  <2>2. \A r : Content(r)' = Content(r)
    BY <1>1 DEF Content, Inline
  <2>. QED BY <1>1, <2>1, <2>2 DEF RowsFollowed
<1>6. NotBegun'
  BY DEF NotBegun
<1>. QED BY <1>2, <1>3, <1>4, <1>5, <1>6 DEF ExportInv

LEMMA BeginsKeeps ==
  ASSUME ExportInv, NEW full \in BOOLEAN, ExportBegins(full)
  PROVE  ExportInv'
<1> DEFINE e == [export EXCEPT !.step = "query", !.full = full, !.queue = IF full THEN Rows ELSE {}]
           first == IF full THEN Rows ELSE {}
<1>1. /\ refs' = refs /\ legacy' = legacy /\ blobs' = blobs /\ home' = home
      /\ export' = e /\ export.step = "idle" /\ export \in Exports
      /\ steady' = (IF full THEN Rows ELSE {r \in Rows : home[r] = "session"})
      /\ had' = [r \in Requests |-> {Content(r)}]
  BY DEF ExportInv, ExportTypeOK, ExportBegins, contractVars
<1>2. /\ refs \in [Requests -> Refs] /\ legacy \in [Requests -> Refs \cup {Moved}] /\ Rows \subseteq Requests
      /\ \A r \in Rows : home[r] # "absent"
  BY DEF ExportInv, ExportTypeOK, Rows
<1>3. first \in SUBSET Requests /\ (full => first = Rows)
  BY <1>2
<1>4. /\ e \in Exports /\ e.step = "query" /\ e.full = full /\ e.queue = first
      /\ e.lines = export.lines /\ e.after = export.after /\ e.batch = export.batch
  <2> HIDE DEF first
  <2>1. e = [export EXCEPT !.step = "query", !.full = full, !.queue = first]
    BY DEF first
  <2>2. first \in SUBSET Requests
    BY <1>3
  <2> HIDE DEF e
  <2>. QED BY <1>1, <2>1, <2>2 DEF Exports
<1> HIDE DEF e, first
<1>5. Len(e.lines) = 0 /\ e.after = 0 /\ DOMAIN e.batch = {}
  BY <1>1, <1>4 DEF ExportInv, NotBegun
<1>6. \A r \in Requests : Content(r) \in Refs /\ Content(r)' = Content(r)
  BY <1>1, <1>2 DEF Content, Inline, Refs
<1>7. ExportTypeOK'
  <2>1. had' \in [Requests -> SUBSET Refs]
    BY <1>1, <1>6
  <2>2. steady' \subseteq Requests
    BY <1>1, <1>2
  <2>. QED BY <1>1, <1>4, <2>1, <2>2 DEF ExportInv, ExportTypeOK
<1>8. NoDanglingReference'
  BY <1>1 DEF ExportInv, NoDanglingReference, Reachable
<1>9. RowsFollowed'
  <2>1. \A r \in steady' : home[r] # "absent" /\ (~full => home[r] = "session")
    BY <1>1, <1>2
  <2>2. \A r \in Requests : Content(r)' \in had'[r]
    BY <1>1, <1>6
  <2>. QED BY <1>1, <1>4, <2>1, <2>2 DEF RowsFollowed
<1>10. NothingInvented(export)' /\ NotBegun'
  BY <1>1, <1>4, <1>5 DEF NothingInvented, NotBegun
<1>11. ~export'.full => SessionWalk(export)'
  <2>1. \A r \in Requests : Rank[r] > 0
    BY ExportAssumption
  <2>2. steady' \subseteq Requests
    BY <1>1, <1>2
  <2>. QED BY <1>1, <1>4, <1>5, <2>1, <2>2 DEF SessionWalk
<1>12. export'.full => FullWalk(export)'
  <2>1. full => steady' = first
    BY <1>1, <1>3
  <2>. QED BY <1>1, <1>4, <1>5, <2>1 DEF FullWalk, Written
<1>. QED BY <1>7, <1>8, <1>9, <1>10, <1>11, <1>12 DEF ExportInv

LEMMA BatchReadKeeps ==
  ASSUME ExportInv, BatchRead
  PROVE  ExportInv'
<1>1. /\ export \in Exports /\ export.step = "query" /\ ~export.full /\ SessionWalk(export)
      /\ NothingInvented(export) /\ RowsFollowed
      /\ UNCHANGED <<contractVars, home, steady, had>>
      /\ refs \in [Requests -> Refs] /\ legacy \in [Requests -> Refs \cup {Moved}] /\ steady \subseteq Requests
  BY DEF ExportInv, ExportTypeOK, BatchRead
<1>2. PICK S \in Beginnings, limited \in BOOLEAN :
        /\ S # Behind => limited \/ Cardinality(S) = BatchSize
        /\ export' = [export EXCEPT !.step = "prefetch", !.batch = [r \in S |-> Item(r)],
                                    !.more = limited \/ Cardinality(S) = BatchSize]
  BY DEF BatchRead
<1> DEFINE B == [r \in S |-> Item(r)]
           more == limited \/ Cardinality(S) = BatchSize
           e == [export EXCEPT !.step = "prefetch", !.batch = B, !.more = more]
<1>3. /\ S \subseteq Behind /\ Behind \subseteq Requests
      /\ \A a \in S, b \in Behind \ S : Rank[a] < Rank[b]
      /\ \A r \in Behind : Rank[r] > export.after
  BY DEF Beginnings, Behind, Rows
<1>4. B \in Batches /\ DOMAIN B = S
  <2>1. \A r \in S : Item(r) \in Items
    BY <1>1, <1>3 DEF Item, Items, Inline, Refs
  <2>2. B \in [S -> Items] /\ S \in SUBSET Requests /\ DOMAIN B = S
    BY <1>3, <2>1
  <2> HIDE DEF B
  <2>. QED BY <2>2, FunctionIsBatch
<1>5. more \in BOOLEAN /\ (S # Behind => more)
  BY <1>2
<1>6. \A r \in S : Line(r, B[r]).payload = Content(r)
  BY <1>3 DEF Line, Item, Content
<1>7. export' = e
  BY <1>2
<1> HIDE DEF B, more
<1>8. /\ e \in Exports /\ e.step = "prefetch" /\ e.full = export.full /\ e.batch = B /\ e.more = more
      /\ e.lines = export.lines /\ e.after = export.after
  BY <1>1, <1>4, <1>5 DEF Exports
<1> HIDE DEF e
<1>9. NothingInvented(e)
  <2>1. \A r \in Requests : Content(r) \in had[r]
    BY <1>1 DEF RowsFollowed
  <2>. QED BY <1>1, <1>3, <1>4, <1>6, <1>8, <2>1 DEF NothingInvented
<1>10. SessionWalk(e)
  <2>1. ASSUME NEW r \in steady, ~Written(e, r)
        PROVE  \/ r \in DOMAIN e.batch
               \/ /\ e.more /\ Rank[r] > e.after
                  /\ \A q \in DOMAIN e.batch : Rank[q] < Rank[r]
    <3>1. ~Written(export, r)
      BY <1>8, <2>1 DEF Written
    <3>2. Rank[r] > export.after
      BY <1>1, <3>1 DEF SessionWalk
    <3>3. home[r] = "session"
      BY <1>1 DEF RowsFollowed
    <3>4. r \in Behind
      BY <1>1, <3>2, <3>3 DEF Behind, Rows
    <3>. QED BY <1>3, <1>4, <1>5, <1>8, <3>2, <3>4
  <2>. QED BY <1>1, <1>3, <1>4, <1>8, <2>1 DEF SessionWalk
<1>. QED BY <1>1, <1>7, <1>8, <1>9, <1>10, OwnStep

LEMMA PrefetchKeeps ==
  ASSUME ExportInv, Prefetch
  PROVE  ExportInv'
<1>1. /\ export \in Exports /\ export.step = "prefetch"
      /\ ~export.full => SessionWalk(export)
      /\ export.full => FullWalk(export)
      /\ NothingInvented(export)
      /\ UNCHANGED <<contractVars, home, steady, had>>
  BY DEF ExportInv, ExportTypeOK, Prefetch
<1>2. PICK cached : cached \subseteq Small /\ export' = [export EXCEPT !.step = "load", !.cache = cached]
  BY DEF Prefetch, CanStore
<1> DEFINE e == [export EXCEPT !.step = "load", !.cache = cached]
<1>3. /\ e \in Exports /\ e.step = "load" /\ e.full = export.full /\ e.batch = export.batch
      /\ e.more = export.more /\ e.lines = export.lines /\ e.after = export.after
  <2>1. cached \in SUBSET Blobs
    BY <1>2, ExportAssumption
  <2>. QED BY <1>1, <2>1 DEF Exports
<1>4. export' = e
  BY <1>2
<1> HIDE DEF e
<1>5. ~export.full
  BY <1>1 DEF FullWalk
<1>6. SessionWalk(e) /\ NothingInvented(e)
  BY <1>1, <1>3, <1>5 DEF SessionWalk, NothingInvented, Written
<1>. QED BY <1>1, <1>3, <1>4, <1>5, <1>6, OwnStep

LEMMA RequestReadKeeps ==
  ASSUME ExportInv, RequestRead
  PROVE  ExportInv'
<1>1. /\ export \in Exports /\ export.step = "query" /\ export.full /\ FullWalk(export)
      /\ NothingInvented(export) /\ RowsFollowed
      /\ UNCHANGED <<contractVars, home, steady, had>>
      /\ refs \in [Requests -> Refs] /\ legacy \in [Requests -> Refs \cup {Moved}]
  BY DEF ExportInv, ExportTypeOK, RequestRead
<1>2. PICK r \in export.queue :
          export' = [export EXCEPT !.step = "load", !.queue = @ \ {r}, !.more = TRUE,
                                   !.batch = [q \in {r} |-> Item(r)], !.cache = {}]
  BY DEF RequestRead
<1> DEFINE B == [q \in {r} |-> Item(r)]
           e == [export EXCEPT !.step = "load", !.queue = @ \ {r}, !.more = TRUE,
                               !.batch = B, !.cache = {}]
<1>3. r \in Requests
  BY <1>1, ExportParts
<1>4. B \in Batches /\ DOMAIN B = {r} /\ B[r] = Item(r)
  <2>1. B \in [{r} -> Items] /\ {r} \in SUBSET Requests
    BY <1>1, <1>3 DEF Item, Items, Inline, Refs
  <2>. QED BY <2>1, FunctionIsBatch
<1>5. export' = e
  BY <1>2
<1> HIDE DEF B
<1>6. /\ e \in Exports /\ e.step = "load" /\ e.full = export.full /\ e.batch = B /\ e.more = TRUE
      /\ e.queue = export.queue \ {r} /\ e.lines = export.lines
  BY <1>1, <1>4 DEF Exports
<1> HIDE DEF e
<1>7. NothingInvented(e)
  <2>1. Line(r, B[r]).payload \in had[r]
    BY <1>1, <1>3, <1>4 DEF RowsFollowed, Line, Item, Content
  <2>. QED BY <1>1, <1>4, <1>6, <2>1 DEF NothingInvented
<1>8. \A q : Written(e, q) <=> Written(export, q)
  BY <1>6 DEF Written
<1>9. FullWalk(e)
  BY <1>1, <1>4, <1>6, <1>8 DEF FullWalk
<1>. QED BY <1>1, <1>5, <1>6, <1>7, <1>9, OwnStep

\* A line is written and the cursor follows.
LEMMA LineLoadsKeeps ==
  ASSUME ExportInv, NEW r \in Requests, LineLoads(r)
  PROVE  ExportInv'
<1>1. /\ export \in Exports /\ export.step = "load" /\ r \in DOMAIN export.batch
      /\ \A q \in DOMAIN export.batch : Rank[r] <= Rank[q]
      /\ ~export.full => SessionWalk(export)
      /\ export.full => FullWalk(export)
      /\ NothingInvented(export)
      /\ UNCHANGED <<contractVars, home, steady, had>>
  BY DEF ExportInv, ExportTypeOK, LineLoads, IsNext
<1> DEFINE B == Rest(r)
           line == Line(r, export.batch[r])
           ls == Append(export.lines, line)
           n == Len(export.lines)
<1>2. PICK more : /\ more \subseteq Blobs
                  /\ export' = [export EXCEPT !.batch = B, !.cache = @ \cup more, !.after = Rank[r],
                                   !.lines = ls]
  <2>1. PICK more \in IF export.full THEN {{}} ELSE CanStore(export.cache, BlobsOf(export.batch[r].ref)) :
           export' = [export EXCEPT !.batch = B, !.cache = @ \cup more, !.after = Rank[r], !.lines = ls]
    BY DEF LineLoads
  <2>2. more \subseteq Blobs
    BY ExportAssumption DEF CanStore
  <2>. QED BY <2>1, <2>2
<1> DEFINE e == [export EXCEPT !.batch = B, !.cache = @ \cup more, !.after = Rank[r], !.lines = ls]
<1>3. /\ export.batch \in Batches /\ DOMAIN export.batch \subseteq Requests
      /\ \A q \in DOMAIN export.batch : export.batch[q] \in Items
      /\ export.lines \in Seq(Lines) /\ n \in Nat
      /\ \A i \in 1..n : export.lines[i] \in Lines /\ export.lines[i].request \in Requests
      /\ export.after \in Nat
  BY <1>1, ExportParts
<1>4. B \in Batches /\ DOMAIN B = DOMAIN export.batch \ {r} /\ \A q \in DOMAIN B : B[q] = export.batch[q]
  <2>1. /\ B \in [DOMAIN export.batch \ {r} -> Items] /\ DOMAIN B = DOMAIN export.batch \ {r}
        /\ \A q \in DOMAIN B : B[q] = export.batch[q]
    BY <1>3 DEF Rest
  <2>2. DOMAIN export.batch \ {r} \in SUBSET Requests
    BY <1>3
  <2> HIDE DEF B
  <2>. QED BY <2>1, <2>2, FunctionIsBatch
<1>5. line \in Lines /\ line.request = r /\ line.payload \in had[r]
  <2>1. export.batch[r] \in Items
    BY <1>1, <1>3
  <2>2. line.payload \in had[r]
    BY <1>1 DEF NothingInvented
  <2>. QED BY <2>1, <2>2 DEF Line, Lines, Items
<1> HIDE DEF line
<1>6. /\ ls \in Seq(Lines) /\ Len(ls) = n + 1 /\ ls[n + 1] = line
      /\ \A i \in 1..n : ls[i] = export.lines[i]
  BY <1>3, <1>5
<1> HIDE DEF B, ls
<1>7. /\ e \in Exports /\ e.step = "load" /\ e.full = export.full /\ e.batch = B
      /\ e.more = export.more /\ e.queue = export.queue /\ e.lines = ls /\ e.after = Rank[r]
  <2>1. Rank[r] \in Nat
    BY ExportAssumption
  <2>. QED BY <1>1, <1>2, <1>4, <1>6, <2>1 DEF Exports
<1>8. export' = e
  BY <1>2
<1> HIDE DEF e, n
<1>9. \A q : Written(e, q) <=> Written(export, q) \/ q = r
  <2>1. \A i \in 1..(n + 1) : i \in 1..n \/ i = n + 1
    BY <1>3
  <2>2. 1..n \subseteq 1..(n + 1) /\ n + 1 \in 1..(n + 1)
    BY <1>3
  <2>. QED BY <1>5, <1>6, <1>7, <2>1, <2>2 DEF Written, n
<1>10. NothingInvented(e)
  <2>1. \A q \in DOMAIN e.batch : Line(q, e.batch[q]).payload \in had[q]
    BY <1>1, <1>4, <1>7 DEF NothingInvented
  <2>2. ASSUME NEW i \in 1..Len(e.lines) PROVE e.lines[i].payload \in had[e.lines[i].request]
    <3>1. CASE i \in 1..n
      BY <1>1, <1>6, <1>7, <3>1 DEF NothingInvented, n
    <3>2. CASE i = n + 1
      BY <1>5, <1>6, <1>7, <3>2
    <3>. QED BY <1>3, <1>6, <1>7, <3>1, <3>2
  <2>. QED BY <2>1, <2>2 DEF NothingInvented
<1>11. ASSUME ~export.full PROVE SessionWalk(e)
  <2>1. /\ \A i, j \in 1..n : i < j => Rank[export.lines[i].request] < Rank[export.lines[j].request]
        /\ \A i \in 1..n : Rank[export.lines[i].request] <= export.after
        /\ \A q \in DOMAIN export.batch : Rank[q] > export.after
        /\ \A q \in steady : Written(export, q) \/
                \/ q \in DOMAIN export.batch
                \/ /\ export.more /\ Rank[q] > export.after
                   /\ \A x \in DOMAIN export.batch : Rank[x] < Rank[q]
    BY <1>1, <1>11 DEF SessionWalk, n
  <2>2. \A q \in Requests : Rank[q] \in Nat
    BY ExportAssumption
  <2>3. \A i \in 1..n : Rank[export.lines[i].request] < Rank[r]
    BY <1>1, <1>3, <2>1, <2>2
  <2>4. ASSUME NEW i \in 1..(n + 1), NEW j \in 1..(n + 1), i < j
        PROVE  Rank[ls[i].request] < Rank[ls[j].request]
    <3>1. i \in 1..n /\ (j \in 1..n \/ j = n + 1)
      BY <1>3, <2>4
    <3>. QED BY <1>5, <1>6, <2>1, <2>3, <2>4, <3>1
  <2>5. ASSUME NEW i \in 1..(n + 1) PROVE Rank[ls[i].request] <= Rank[r]
    <3>1. i \in 1..n \/ i = n + 1
      BY <1>3
    <3>. QED BY <1>3, <1>5, <1>6, <2>2, <2>3, <3>1
  <2>6. ASSUME NEW q \in DOMAIN B PROVE Rank[q] > Rank[r]
    <3>1. q \in Requests /\ q # r /\ Rank[r] <= Rank[q]
      BY <1>1, <1>3, <1>4
    <3>2. Rank[q] # Rank[r]
      BY <3>1, ExportAssumption
    <3>. QED BY <2>2, <3>1, <3>2
  <2>7. ASSUME NEW q \in steady
        PROVE  Written(e, q) \/ q \in DOMAIN B
                \/ (e.more /\ Rank[q] > Rank[r] /\ \A x \in DOMAIN B : Rank[x] < Rank[q])
    <3>1. CASE Written(export, q) \/ q = r
      BY <1>9, <3>1
    <3>2. CASE q \in DOMAIN export.batch /\ q # r
      BY <1>4, <3>2
    <3>3. CASE /\ export.more /\ Rank[q] > export.after
               /\ \A x \in DOMAIN export.batch : Rank[x] < Rank[q]
      <4>1. Rank[r] < Rank[q]
        BY <1>1, <3>3
      <4>2. q \in Requests
        BY DEF ExportInv, ExportTypeOK
      <4>. QED BY <1>4, <1>7, <2>2, <3>3, <4>1, <4>2
    <3>. QED BY <2>1, <3>1, <3>2, <3>3
  <2>. QED BY <1>6, <1>7, <2>4, <2>5, <2>6, <2>7 DEF SessionWalk
<1>12. ASSUME export.full PROVE FullWalk(e)
  <2>1. /\ \A i, j \in 1..n : export.lines[i].request = export.lines[j].request => i = j
        /\ \A q \in export.queue : ~Written(export, q)
        /\ export.more /\ \A q \in DOMAIN export.batch : ~Written(export, q) /\ q \notin export.queue
        /\ \A q \in steady : Written(export, q) \/ q \in export.queue \/ q \in DOMAIN export.batch
    BY <1>1, <1>12 DEF FullWalk, n
  <2>2. \A i \in 1..n : export.lines[i].request # r
    BY <1>1, <2>1 DEF Written, n
  <2>3. ASSUME NEW i \in 1..(n + 1), NEW j \in 1..(n + 1), ls[i].request = ls[j].request
        PROVE  i = j
    <3>1. (i \in 1..n \/ i = n + 1) /\ (j \in 1..n \/ j = n + 1)
      BY <1>3
    <3>. QED BY <1>5, <1>6, <2>1, <2>2, <2>3, <3>1
  <2>4. /\ \A q \in e.queue : ~Written(e, q)
        /\ \A q \in DOMAIN B : ~Written(e, q) /\ q \notin e.queue
        /\ \A q \in steady : Written(e, q) \/ q \in e.queue \/ q \in DOMAIN B
    BY <1>1, <1>4, <1>7, <1>9, <2>1
  <2>. QED BY <1>6, <1>7, <2>1, <2>3, <2>4 DEF FullWalk
<1>. QED BY <1>1, <1>7, <1>8, <1>10, <1>11, <1>12, OwnStep

LEMMA EndsKeep ==
  ASSUME ExportInv, BatchEnds \/ \E r \in Requests : LineFails(r)
  PROVE  ExportInv'
<1>1. PICK step \in {"query", "done", "failed"} : export' = [export EXCEPT !.step = step]
  BY DEF BatchEnds, LineFails
<1>2. /\ export \in Exports /\ export.step \in {"query", "load"}
      /\ ~export.full => SessionWalk(export)
      /\ export.full => FullWalk(export)
      /\ NothingInvented(export)
      /\ UNCHANGED <<contractVars, home, steady, had>>
  BY DEF ExportInv, ExportTypeOK, BatchEnds, LineFails, IsNext
<1> DEFINE e == [export EXCEPT !.step = step]
<1>3. /\ e \in Exports /\ e.step = step /\ e.full = export.full /\ e.batch = export.batch /\ e.queue = export.queue
      /\ e.more = export.more /\ e.lines = export.lines /\ e.after = export.after
  BY <1>2 DEF Exports
<1>4. export' = e
  BY <1>1
<1> HIDE DEF e
<1>5. \A q : Written(e, q) <=> Written(export, q)
  BY <1>3 DEF Written
<1>6. \/ step = "failed"
      \/ export.step = "load" /\ DOMAIN export.batch = {} /\ export.more /\ step = "query"
      \/ export.step = "load" /\ DOMAIN export.batch = {} /\ ~export.more /\ step = "done"
      \/ export.step = "query" /\ export.full /\ export.queue = {} /\ step = "done"
  <2>1. export'.step = step
    BY <1>3, <1>4
  <2>2. CASE \E r \in Requests : LineFails(r)
    <3>1. export' = [export EXCEPT !.step = "failed"]
      BY <2>2 DEF LineFails
    <3>2. export'.step = "failed"
      BY <1>2, <3>1 DEF Exports
    <3>. QED BY <2>1, <3>2
  <2>3. CASE BatchEnds
    <3>1. \/ export.step = "load" /\ DOMAIN export.batch = {}
          \/ export.step = "query" /\ export.full /\ export.queue = {}
      BY <2>3 DEF BatchEnds
    <3> DEFINE s == IF export.step = "load" /\ export.more THEN "query" ELSE "done"
    <3>2. export' = [export EXCEPT !.step = s]
      BY <2>3 DEF BatchEnds
    <3>3. s \in {"query", "done"}
      OBVIOUS
    <3> HIDE DEF s
    <3>4. export'.step = s
      BY <1>2, <3>2, <3>3 DEF Exports
    <3>. QED BY <2>1, <3>1, <3>4 DEF s
  <2>. QED BY <2>2, <2>3
<1>7. NothingInvented(e)
  BY <1>2, <1>3 DEF NothingInvented
<1>8. ASSUME ~export.full PROVE SessionWalk(e)
  BY <1>2, <1>3, <1>5, <1>6, <1>8 DEF SessionWalk
<1>9. ASSUME export.full PROVE FullWalk(e)
  BY <1>2, <1>3, <1>5, <1>6, <1>9 DEF FullWalk
<1>. QED BY <1>2, <1>3, <1>4, <1>7, <1>8, <1>9, OwnStep

\* ExportInv is inductive.
LEMMA ExportInvInductive ==
  /\ ExportInit => ExportInv
  /\ ExportInv /\ [ExportNext]_exportVars => ExportInv'
<1>1. ASSUME ExportInv, UNCHANGED exportVars PROVE ExportInv'
  <2>1. /\ refs' = refs /\ legacy' = legacy /\ blobs' = blobs /\ home' = home
        /\ export' = export /\ steady' = steady /\ had' = had
    BY <1>1 DEF exportVars, contractVars, readers
  <2>. QED BY <1>1, <2>1 DEF ExportInv, ExportTypeOK, NoDanglingReference, Reachable, SessionWalk, FullWalk,
                 Written, NothingInvented, Line, RowsFollowed, Content, Inline, NotBegun
<1>2. ASSUME ExportInv, ExportNext PROVE ExportInv'
  BY <1>2, WriteKeeps, CollectAndMoveKeep, BeginsKeeps, BatchReadKeeps, PrefetchKeeps, RequestReadKeeps,
     LineLoadsKeeps, EndsKeep DEF ExportNext, Export
<1>. QED BY <1>1, <1>2, InitExportInv

LEMMA ExportInvHolds == ExportSpec => []ExportInv
BY ExportInvInductive, PTL DEF ExportSpec

-----------------------------------------------------------------------------
\* exportSessionArchiveBatches and exportFullArchiveLegacy: an export that ends
\* well holds every row that was there from its begin to its end, none twice, a
\* session's rows in order, each with a payload the row had meanwhile, for every
\* archive, batch and cache size, however the byte limit cuts the batches and
\* whatever is written, moved and collected between two queries.
THEOREM ExportsAreFaithful == ExportSpec => []ExportIsFaithful
<1>1. ASSUME ExportInv PROVE ExportIsFaithful
  <2>1. export \in Exports
    BY <1>1 DEF ExportInv, ExportTypeOK
  <2>2. /\ DOMAIN export.lines = 1..Len(export.lines) /\ Len(export.lines) \in Nat
        /\ \A i \in 1..Len(export.lines) : export.lines[i].request \in Requests
    <3>1. export.lines \in Seq(Lines)
      BY <2>1, ExportParts
    <3>. QED BY <2>1, <3>1, ExportParts
  <2>3. \A r \in Requests : Rank[r] \in Nat
    BY ExportAssumption
  <2>4. ASSUME export.step = "done" PROVE steady \subseteq Exported
    <3>1. \A r \in steady : Written(export, r)
      BY <1>1, <2>4 DEF ExportInv, SessionWalk, FullWalk
    <3>. QED BY <2>2, <3>1 DEF Written, Exported
  <2>5. ASSUME NEW i \in 1..Len(export.lines), NEW j \in 1..Len(export.lines),
               export.lines[i].request = export.lines[j].request
        PROVE  i = j
    <3>1. CASE export.full
      BY <1>1, <2>5, <3>1 DEF ExportInv, FullWalk
    <3>2. CASE ~export.full
      <4>1. \A a, b \in 1..Len(export.lines) :
              a < b => Rank[export.lines[a].request] < Rank[export.lines[b].request]
        BY <1>1, <3>2 DEF ExportInv, SessionWalk
      <4>2. ~(i < j) /\ ~(j < i)
        BY <2>2, <2>3, <2>5, <4>1
      <4>. QED BY <2>2, <4>2
    <3>. QED BY <3>1, <3>2
  <2>6. ~export.full => \A i, j \in 1..Len(export.lines) :
              i < j => Rank[export.lines[i].request] < Rank[export.lines[j].request]
    BY <1>1 DEF ExportInv, SessionWalk
  <2>7. \A i \in 1..Len(export.lines) : export.lines[i].payload \in had[export.lines[i].request]
    BY <1>1 DEF ExportInv, NothingInvented
  <2>. QED BY <2>2, <2>4, <2>5, <2>6, <2>7 DEF ExportIsFaithful
<1>. QED BY <1>1, ExportInvHolds, PTL

\* loadPayloadWithCache misses a blob only of a row whose reference was changed
\* between the query of its batch and its line: what the row refers to is in the
\* table, whatever garbage was collected.
THEOREM ExportsFailOnlyWhenRewritten == ExportSpec => FailsOnlyWhenRewritten
<1>1. ASSUME ExportInv, ExportNext, export'.step = "failed", export.step # "failed"
      PROVE  \E r \in Requests : IsNext(r) /\ refs[r] # export.batch[r].ref
  <2>1. export \in Exports
    BY <1>1 DEF ExportInv, ExportTypeOK
  <2>2. ASSUME NEW step, NEW e, e = [export EXCEPT !.step = step] PROVE e.step = step
    BY <2>1, <2>2 DEF Exports
  <2>3. PICK r \in Requests : LineFails(r)
    <3>1. ASSUME NEW full \in BOOLEAN, ExportBegins(full) PROVE export'.step = "query"
      BY <2>1, <3>1 DEF ExportBegins, Exports
    <3>2. ASSUME BatchRead PROVE export'.step = "prefetch"
      BY <2>1, <3>2 DEF BatchRead, Exports
    <3>3. ASSUME Prefetch \/ RequestRead PROVE export'.step = "load"
      BY <2>1, <3>3 DEF Prefetch, RequestRead, Exports
    <3>4. ASSUME NEW r \in Requests, LineLoads(r) PROVE export'.step = export.step
      BY <2>1, <3>4 DEF LineLoads, Exports
    <3>5. ASSUME BatchEnds PROVE export'.step # "failed"
      BY <2>1, <3>5 DEF BatchEnds, Exports
    <3>6. ASSUME GC \/ \E r \in Requests : Maintain(r) \/ Move(r) \/ \E p \in Refs, place \in {"session", "other"} : Write(r, p, place)
          PROVE  export' = export
      BY <3>6 DEF GC, Maintain, Move, Write, Others
    <3>. QED BY <1>1, <3>1, <3>2, <3>3, <3>4, <3>5, <3>6 DEF ExportNext, Export
  <2>4. IsNext(r) /\ ~Found(r)
    BY <2>3 DEF LineFails
  <2>5. ASSUME refs[r] = export.batch[r].ref PROVE FALSE
    <3>1. BlobsOf(refs[r]) \subseteq Reachable
      BY DEF BlobsOf, Reachable
    <3>2. Reachable \subseteq blobs
      BY <1>1 DEF ExportInv, NoDanglingReference
    <3>. QED BY <2>4, <2>5, <3>1, <3>2 DEF Found
  <2>. QED BY <2>4, <2>5
<1>2. ExportInv /\ [ExportNext]_exportVars
        => [export'.step = "failed" /\ export.step # "failed"
              => \E r \in Requests : IsNext(r) /\ refs[r] # export.batch[r].ref]_exportVars
  BY <1>1
<1>. QED BY <1>2, ExportInvHolds, PTL DEF ExportSpec, FailsOnlyWhenRewritten
=============================================================================
