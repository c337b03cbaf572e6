-------------------------- MODULE SnapshotRegistry --------------------------
(***************************************************************************)
(* The collector's registry of stable snapshots and its export tickets      *)
(* (cmd/cpa-session-collector/snapshot.go and the ticket handlers of        *)
(* main.go), with requests of several clients in flight at once.            *)
(*                                                                         *)
(* The registry and the ticket table each have a mutex; a step is what a    *)
(* handler does under one of them, or one call on the snapshot outside      *)
(* them.  Time is a counter; the contents of a snapshot are StableSnapshot's *)
(* business, here it has PageCount pages and may be open or closed.         *)
(***************************************************************************)
EXTENDS Integers, FiniteSets, FiniteSetsExt

CONSTANTS Clients,     \* request handlers
          Ids,         \* bound: snapshot identities, handed out in order
          MaxActive,   \* stableMaxActiveSnapshots
          TTL,         \* stableSnapshotTTL / stableOfflineSnapshotTTL
          IdleTTL,     \* stableSnapshotIdleTTL
          TicketTTL,   \* how long an export ticket is valid
          TicketGrace, \* how long an expired ticket is remembered
          PageCount,   \* pages of a snapshot
          MaxTime,     \* bound: time
          MaxRestarts  \* bound: collector restarts

ASSUME RegistryAssumption ==
    /\ IsFiniteSet(Clients) /\ Ids \subseteq Nat
    /\ {MaxActive, IdleTTL, TTL, TicketTTL, PageCount} \subseteq Nat \ {0}
    /\ {TicketGrace, MaxTime, MaxRestarts} \subseteq Nat
    /\ IdleTTL <= TTL
    /\ TTL <= MaxTime

VARIABLES now,        \* registry.now()
          registered, \* registry.snapshots: the ids in the map
          entry,      \* the entries, by id: expires, lastUsed, active, cursors
          open,       \* ids whose read transaction is open (not snapshot.closed)
          tickets,    \* server.tickets
          req,        \* what each handler is doing
          answer,     \* the status it ended with, 0 while a handler runs
          issued,     \* ids that have been handed out
          restarts

registryVars == <<registered, entry, open>>
vars == <<now, registryVars, tickets, req, answer, issued, restarts>>

NoEntry == [expires |-> 0, lastUsed |-> 0, active |-> 0, cursors |-> {}]
Idle == [pc |-> "idle"]

At(c, pc) == req[c].pc = pc
Reply(c, status) == req' = [req EXCEPT ![c] = Idle] /\ answer' = [answer EXCEPT ![c] = status]
Goto(c, r) == req' = [req EXCEPT ![c] = r] /\ answer' = [answer EXCEPT ![c] = 0]

-----------------------------------------------------------------------------
\* Mutant: a cleanup that does not look at ActiveExports.
MutantEvicted == {i \in registered :
    entry[i].expires <= now \/ now - entry[i].lastUsed >= IdleTTL}

\* cleanupLocked: the entries it closes and removes at time now.
Evicted == {i \in registered :
    /\ entry[i].active = 0
    /\ entry[i].expires <= now \/ now - entry[i].lastUsed >= IdleTTL}

\* An entry that get, getForExport, validateExport and export accept after
\* their cleanup.
Usable(i) == i \in registered \ Evicted /\ now < entry[i].expires

CleanupLocked ==
    /\ registered' = registered \ Evicted
    /\ open' = open \ Evicted

Touched(i) == [entry EXCEPT ![i].lastUsed = now]

\* The ticker's cleanup, and the one of every stats request.
Cleanup ==
    /\ Evicted # {}
    /\ CleanupLocked
    /\ UNCHANGED <<now, entry, tickets, req, answer, issued, restarts>>

-----------------------------------------------------------------------------
\* GET /v1/sessions without a snapshot: create.
CreateRefused(c) ==
    /\ At(c, "idle")
    /\ Cardinality(registered \ Evicted) >= MaxActive
    /\ CleanupLocked
    /\ Reply(c, 429)
    /\ UNCHANGED <<now, entry, tickets, issued, restarts>>

\* BeginStableSessionSnapshot fails: a digest not ready (503), a fence before
\* the tombstone history (409), or an error of the database (500).
CreateFails(c) ==
    /\ At(c, "idle")
    /\ Cardinality(registered \ Evicted) < MaxActive
    /\ CleanupLocked
    /\ \E status \in {409, 500, 503} : Reply(c, status)
    /\ UNCHANGED <<now, entry, tickets, issued, restarts>>

\* A new snapshot: its id is random in the code, here the next one.
Create(c) ==
    /\ At(c, "idle")
    /\ Cardinality(registered \ Evicted) < MaxActive
    /\ now + TTL <= MaxTime
    /\ \E i \in Ids \ issued :
          /\ \A j \in Ids \ issued : i <= j
          /\ issued' = issued \cup {i}
          /\ registered' = (registered \ Evicted) \cup {i}
          /\ open' = (open \ Evicted) \cup {i}
          /\ entry' = [entry EXCEPT ![i] =
                [expires |-> now + TTL, lastUsed |-> now, active |-> 0, cursors |-> {}]]
          /\ Goto(c, [pc |-> "page", id |-> i, page |-> 1])
    /\ UNCHANGED <<now, tickets, restarts>>

\* GET /v1/sessions with a snapshot: get.  A request that repeats other bounds
\* than the ones of the snapshot is refused and does not count as a use.
Get(c) ==
    /\ At(c, "idle")
    /\ \E i \in issued :
          \/ /\ ~Usable(i)
             /\ Reply(c, 410)
             /\ UNCHANGED entry
          \/ /\ Usable(i)
             /\ Reply(c, 400)
             /\ UNCHANGED entry
          \/ /\ Usable(i)
             /\ entry' = Touched(i)
             /\ Reply(c, 200)   \* metadata_touch
          \/ /\ Usable(i)
             /\ entry' = Touched(i)
             /\ \E p \in 1..PageCount :
                   Goto(c, [pc |-> IF p = 1 THEN "page" ELSE "resolve", id |-> i, page |-> p])
    /\ CleanupLocked
    /\ UNCHANGED <<now, tickets, issued, restarts>>

\* resolveCursor and cursor check the entry again; neither cleans up.
Current(i) == i \in registered /\ now < entry[i].expires

ResolveCursor(c) ==
    /\ At(c, "resolve")
    /\ LET i == req[c].id IN
       \/ /\ ~Current(i)
          /\ Reply(c, 410)
          /\ UNCHANGED entry
       \/ /\ Current(i)
          /\ entry' = Touched(i)
          /\ IF req[c].page \in entry[i].cursors
             THEN Goto(c, [req[c] EXCEPT !.pc = "page"])
             ELSE Reply(c, 400)
    /\ UNCHANGED <<now, registered, open, tickets, issued, restarts>>

\* Snapshot.Page: the handler holds the entry, not the registry's mutex.
Page(c) ==
    /\ At(c, "page")
    /\ \/ req[c].id \notin open /\ Reply(c, 400)
       \/ req[c].id \in open /\ req[c].page = PageCount /\ Reply(c, 200)
       \/ /\ req[c].id \in open /\ req[c].page < PageCount
          /\ Goto(c, [req[c] EXCEPT !.pc = "cursor"])
    /\ UNCHANGED <<now, registryVars, tickets, issued, restarts>>

MakeCursor(c) ==
    /\ At(c, "cursor")
    /\ LET i == req[c].id IN
       \/ /\ ~Current(i)
          /\ Reply(c, 410)
          /\ UNCHANGED entry
       \/ /\ Current(i)
          /\ entry' = [Touched(i) EXCEPT ![i].cursors = @ \cup {req[c].page + 1}]
          /\ Reply(c, 200)
    /\ UNCHANGED <<now, registered, open, tickets, issued, restarts>>

-----------------------------------------------------------------------------
\* GET /v1/export-tickets with a snapshot: getForExport, Summary, then the
\* ticket under its own mutex.
TicketGet(c) ==
    /\ At(c, "idle")
    /\ \E i \in issued :
          \/ /\ ~Usable(i)
             /\ Reply(c, 410)
             /\ UNCHANGED entry
          \/ /\ Usable(i)
             /\ entry' = Touched(i)
             /\ Goto(c, [pc |-> "summary", id |-> i])
    /\ CleanupLocked
    /\ UNCHANGED <<now, tickets, issued, restarts>>

TicketSummary(c) ==
    /\ At(c, "summary")
    /\ \/ Reply(c, 404)   \* closed, or no such session in it
       \/ req[c].id \in open /\ Goto(c, [req[c] EXCEPT !.pc = "ticket"])
    /\ UNCHANGED <<now, registryVars, tickets, issued, restarts>>

TicketIssue(c) ==
    /\ At(c, "ticket")
    /\ tickets' = {t \in tickets : now <= t.expires + TicketGrace} \cup
          {[id |-> req[c].id, expires |-> Min({now + TicketTTL, entry[req[c].id].expires})]}
    /\ Reply(c, 200)
    /\ UNCHANGED <<now, registryVars, issued, restarts>>

\* HEAD or GET of a ticket's URL: the ticket first, then the snapshot.
Redeem(c) ==
    /\ At(c, "idle")
    /\ \E t \in tickets :
          \/ now >= t.expires /\ Reply(c, 410)
          \/ now < t.expires /\ \E pc \in {"head", "get"} : Goto(c, [pc |-> pc, id |-> t.id])
    /\ UNCHANGED <<now, registryVars, tickets, issued, restarts>>

ValidateExport(c) ==
    /\ At(c, "head")
    /\ LET i == req[c].id IN
       \/ ~Usable(i) /\ Reply(c, 410) /\ UNCHANGED entry
       \/ Usable(i) /\ entry' = Touched(i) /\ Reply(c, 200)
    /\ CleanupLocked
    /\ UNCHANGED <<now, tickets, issued, restarts>>

-----------------------------------------------------------------------------
\* registry.export, first critical section.
ExportStart(c) ==
    /\ At(c, "get")
    /\ LET i == req[c].id IN
       \/ /\ ~Usable(i)
          /\ Reply(c, 410)
          /\ UNCHANGED entry
       \/ /\ Usable(i)
          /\ entry' = [Touched(i) EXCEPT ![i].active = @ + 1]
          /\ Goto(c, [pc |-> "waiting", id |-> i])
    /\ CleanupLocked
    /\ UNCHANGED <<now, tickets, issued, restarts>>

\* Mutant: an export that failed keeps exportMu, until its client's next request.
MutantExportLock(c) ==
    /\ At(c, "waiting")
    /\ \A d \in Clients : At(d, "exporting") => req[d].id # req[c].id
    /\ \A d \in Clients : answer[d] # 500
    /\ Goto(c, [req[c] EXCEPT !.pc = "exporting"])
    /\ UNCHANGED <<now, registryVars, tickets, issued, restarts>>

\* ExportSessionJSONL, one at a time for a snapshot (exportMu).
ExportLock(c) ==
    /\ At(c, "waiting")
    /\ \A d \in Clients : At(d, "exporting") => req[d].id # req[c].id
    /\ Goto(c, [req[c] EXCEPT !.pc = "exporting"])
    /\ UNCHANGED <<now, registryVars, tickets, issued, restarts>>

\* It ends with the session written, with ErrSnapshotCursor on a closed
\* snapshot, with its deadline (the snapshot's expiry), or because the client
\* went away; the time is read after it.
ExportEnd(c) ==
    /\ At(c, "exporting")
    /\ LET i == req[c].id
           results == IF i \notin open THEN {400}
                      ELSE {500} \cup (IF now < entry[i].expires THEN {200} ELSE {200, 410})
       IN \E r \in results :
             Goto(c, [pc |-> "finish", id |-> i, result |-> r, finishedAt |-> now])
    /\ UNCHANGED <<now, registryVars, tickets, issued, restarts>>

\* The answer of an export that ended at finishedAt.
ExportStatus(r) ==
    IF r.finishedAt >= entry[r.id].expires /\ r.result = 200 THEN 410 ELSE r.result

\* Mutants: an export that returns early on an error, and one that removes the
\* entry of an expired snapshot without closing it.
MutantExportFinish(c) ==
    /\ At(c, "finish")
    /\ LET i == req[c].id
           last == /\ i \in registered
                   /\ req[c].finishedAt >= entry[i].expires
                   /\ entry[i].active = 1
       IN IF req[c].result # 200
          THEN UNCHANGED <<entry, registered>> /\ Reply(c, req[c].result)
          ELSE /\ entry' = [entry EXCEPT ![i].active = @ - 1, ![i].lastUsed = req[c].finishedAt]
               /\ registered' = IF last THEN registered \ {i} ELSE registered
               /\ IF last THEN Goto(c, [req[c] EXCEPT !.pc = "closing"])
                          ELSE Reply(c, ExportStatus(req[c]))
    /\ UNCHANGED <<now, open, tickets, issued, restarts>>

MutantExportClose(c) ==
    /\ At(c, "closing")
    /\ Reply(c, ExportStatus(req[c]))
    /\ UNCHANGED <<now, registryVars, tickets, issued, restarts>>

\* registry.export, second critical section.  The last export of an expired
\* snapshot removes the entry here and closes the snapshot after the unlock.
ExportFinish(c) ==
    /\ At(c, "finish")
    /\ LET i == req[c].id
           last == /\ i \in registered
                   /\ req[c].finishedAt >= entry[i].expires
                   /\ entry[i].active = 1
       IN /\ entry' = [entry EXCEPT ![i] = [entry[i] EXCEPT
                !.active = entry[i].active - 1,
                !.lastUsed = IF i \in registered THEN req[c].finishedAt ELSE entry[i].lastUsed]]
          /\ registered' = IF last THEN registered \ {i} ELSE registered
          /\ IF last THEN Goto(c, [req[c] EXCEPT !.pc = "closing"])
                     ELSE Reply(c, ExportStatus(req[c]))
    /\ UNCHANGED <<now, open, tickets, issued, restarts>>

ExportClose(c) ==
    /\ At(c, "closing")
    /\ open' = open \ {req[c].id}
    /\ Reply(c, ExportStatus(req[c]))
    /\ UNCHANGED <<now, registered, entry, tickets, issued, restarts>>

-----------------------------------------------------------------------------
Tick ==
    /\ now < MaxTime
    /\ now' = now + 1
    /\ UNCHANGED <<registryVars, tickets, req, answer, issued, restarts>>

\* The process ends: the database is closed, everything in memory is gone.
Restart ==
    /\ restarts < MaxRestarts
    /\ restarts' = restarts + 1
    /\ registered' = {} /\ open' = {} /\ tickets' = {}
    /\ req' = [c \in Clients |-> Idle]
    /\ UNCHANGED <<now, entry, answer, issued>>

Init ==
    /\ now = 0
    /\ registered = {} /\ open = {} /\ issued = {} /\ tickets = {}
    /\ entry = [i \in Ids |-> NoEntry]
    /\ req = [c \in Clients |-> Idle]
    /\ answer = [c \in Clients |-> 0]
    /\ restarts = 0

\* A handler's steps after the one that accepted the request.
Handle(c) ==
    \/ ResolveCursor(c) \/ Page(c) \/ MakeCursor(c)
    \/ TicketSummary(c) \/ TicketIssue(c) \/ ValidateExport(c)
    \/ ExportStart(c) \/ ExportLock(c) \/ ExportEnd(c) \/ ExportFinish(c) \/ ExportClose(c)

Accept(c) ==
    \/ CreateRefused(c) \/ CreateFails(c) \/ Create(c) \/ Get(c) \/ TicketGet(c) \/ Redeem(c)

Next ==
    \/ \E c \in Clients : Accept(c) \/ Handle(c)
    \/ Cleanup \/ Tick \/ Restart

Spec == Init /\ [][Next]_vars

\* Handlers that have started go on, time passes, and the ticker of
\* stableRegistry runs.
FairSpec ==
    /\ Spec
    /\ WF_vars(Tick) /\ WF_vars(Cleanup)
    /\ \A c \in Clients : WF_vars(Handle(c))

-----------------------------------------------------------------------------
Statuses == {0, 200, 400, 404, 409, 410, 429, 500, 503}
Times == 0..MaxTime
Exporting(i) == {c \in Clients : req[c].pc \in {"waiting", "exporting", "finish"} /\ req[c].id = i}
Closing(i) == {c \in Clients : At(c, "closing") /\ req[c].id = i}

\* What a handler knows at its points.
Handling ==
    [pc : {"idle"}]
    \cup [pc : {"page", "resolve"}, id : Ids, page : 1..PageCount]
    \cup [pc : {"cursor"}, id : Ids, page : 1..(PageCount - 1)]
    \cup [pc : {"summary", "ticket", "head", "get", "waiting", "exporting"}, id : Ids]
    \cup [pc : {"finish", "closing"}, id : Ids, result : {200, 400, 410, 500}, finishedAt : Times]

\* The registry, the tickets and the handlers hold what their Go types allow.
TypeOK ==
    /\ now \in Times
    /\ registered \subseteq issued /\ open \subseteq issued /\ issued \subseteq Ids
    /\ entry \in [Ids -> [expires : Times, lastUsed : Times, active : Nat,
                          cursors : SUBSET (1..PageCount)]]
    /\ tickets \subseteq [id : issued, expires : Times]
    /\ req \in [Clients -> Handling] /\ answer \in [Clients -> Statuses]
    /\ \A c \in Clients : At(c, "idle") \/ (req[c].id \in issued /\ answer[c] = 0)
    /\ restarts \in 0..MaxRestarts

\* ActiveExports is the number of exports that run, whatever way they end, so
\* an abandoned download cannot pin the read transaction nor a double
\* decrement unpin it.
ExportsCounted ==
    \A i \in registered : entry[i].active = Cardinality(Exporting(i))

\* An export that has been counted reads a transaction that is open: neither
\* the ticker, nor another request's cleanup, nor another export's end closes
\* the snapshot under it (cleanupLocked against the two critical sections of
\* export), because the count it looks at is exact.
NeverClosedWhileExporting ==
    /\ TypeOK /\ ExportsCounted
    /\ \A i \in Ids : Exporting(i) # {} => i \in registered /\ i \in open

\* Every read transaction is one the registry can still close, or is being
\* closed by the export that removed its entry: none is leaked (the stated
\* reason for the TTLs is that a reader holds back the WAL checkpoint).
NoReaderLeaks ==
    /\ registered \subseteq open
    /\ \A i \in open \ registered : Cardinality(Closing(i)) = 1
    /\ Cardinality(registered) <= MaxActive

\* Every read transaction is eventually rolled back, however clients use,
\* share or abandon it.
ReadersEventuallyClose == \A i \in Ids : i \in open ~> i \notin open

\* Every request that was let in is answered.  Exports queue for exportMu, which
\* does not look at their deadline, while other clients come with new ones; the
\* queue drains although the lock is not handed out in order, because an expired
\* snapshot lets no export in and every export in it ends (export).
RequestsAnswered == \A c \in Clients : ~At(c, "idle") ~> At(c, "idle")

\* docs/stable-session-snapshots.md: "Expired snapshot and ticket requests
\* return JSON HTTP 410".  A page or a ticket that is asked of a snapshot the
\* cleanup has closed is answered 410.
ClosedIsGone ==
    [][\A c \in Clients :
          req[c].pc \in {"page", "summary"} /\ req[c].id \notin open /\ answer'[c] # 0
             => answer'[c] = 410]_vars
=============================================================================
