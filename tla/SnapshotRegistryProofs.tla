----------------------- MODULE SnapshotRegistryProofs -----------------------
(***************************************************************************)
(* SnapshotRegistry for any number of clients, snapshots and pages and any  *)
(* times: an export never loses its read transaction, and no read           *)
(* transaction leaks.                                                       *)
(***************************************************************************)
EXTENDS SnapshotRegistry, FiniteSetTheorems, TLAPS

\* A running export pins its entry.
ExportsPin == \A c \in Clients : req[c].pc \in {"waiting", "exporting", "finish"} => req[c].id \in registered

\* An export that closes is alone with a snapshot that has expired and that the
\* registry has forgotten.
ClosersOwn ==
    \A c \in Clients : At(c, "closing") =>
        /\ req[c].id \in open \ registered
        /\ req[c].finishedAt >= entry[req[c].id].expires
        /\ \A d \in Clients : At(d, "closing") /\ req[d].id = req[c].id => d = c

\* A snapshot that the registry has forgotten has an export that closes it.
ForgottenAreClosed ==
    /\ registered \subseteq open
    /\ \A i \in open \ registered : \E c \in Clients : At(c, "closing") /\ req[c].id = i

SlotsBounded == IsFiniteSet(registered) /\ Cardinality(registered) <= MaxActive

RegistryInv ==
    /\ TypeOK
    /\ ExportsCounted
    /\ ExportsPin
    /\ ClosersOwn
    /\ ForgottenAreClosed
    /\ SlotsBounded

\* Min of two times is the earlier one.
LEMMA MinOfTwo ==
  ASSUME NEW a \in Int, NEW b \in Int
  PROVE  Min({a, b}) = IF a <= b THEN a ELSE b
<1>1. \E x \in {a, b} : \A y \in {a, b} : x <= y
  OBVIOUS
<1>2. Min({a, b}) \in {a, b} /\ \A y \in {a, b} : Min({a, b}) <= y
  BY <1>1, Zenon DEF Min
<1>. QED BY <1>2

-----------------------------------------------------------------------------
(* Typing *)

Entries == [expires : Times, lastUsed : Times, active : Nat, cursors : SUBSET (1..PageCount)]

LEMMA TypeInit == Init => TypeOK
BY RegistryAssumption DEF Init, TypeOK, NoEntry, Idle, Handling, At, Times, Statuses

\* A use of an entry changes its time of last use.
LEMMA TouchedEntries ==
  ASSUME TypeOK, NEW i \in Ids
  PROVE  /\ Touched(i) \in [Ids -> Entries]
         /\ \A j \in Ids : /\ Touched(i)[j].active = entry[j].active
                           /\ Touched(i)[j].expires = entry[j].expires
<1>1. entry \in [Ids -> Entries] /\ now \in Times
  BY DEF TypeOK, Entries
<1>2. Touched(i) = [entry EXCEPT ![i] = [entry[i] EXCEPT !.lastUsed = now]]
  BY DEF Touched
<1>3. entry[i] \in Entries
  BY <1>1
<1>4. /\ [entry[i] EXCEPT !.lastUsed = now] \in Entries
      /\ [entry[i] EXCEPT !.lastUsed = now].active = entry[i].active
      /\ [entry[i] EXCEPT !.lastUsed = now].expires = entry[i].expires
  BY <1>1, <1>3 DEF Entries
<1>. QED BY <1>1, <1>2, <1>4

\* A step of handler c that ends it, or takes it to a point with an id that is
\* issued, and leaves the rest within its types.
LEMMA HandlerTyped ==
  ASSUME TypeOK, NEW c \in Clients,
         now' = now /\ restarts' = restarts,
         issued \subseteq issued' /\ issued' \subseteq Ids,
         registered' \subseteq issued' /\ open' \subseteq issued',
         entry' \in [Ids -> Entries],
         tickets' \subseteq [id : issued', expires : Times],
         \/ \E status \in Statuses : Reply(c, status)
         \/ \E r \in Handling : r.pc # "idle" /\ r.id \in issued' /\ Goto(c, r)
  PROVE  TypeOK'
<1>1. req \in [Clients -> Handling] /\ answer \in [Clients -> Statuses]
  BY DEF TypeOK
<1>2. \A d \in Clients : At(d, "idle") \/ (req[d].id \in issued /\ answer[d] = 0)
  BY DEF TypeOK
<1>3. /\ req' \in [Clients -> Handling] /\ answer' \in [Clients -> Statuses]
      /\ \A d \in Clients : At(d, "idle")' \/ (req'[d].id \in issued' /\ answer'[d] = 0)
  <2>1. CASE \E status \in Statuses : Reply(c, status)
    <3>1. Idle \in Handling /\ Idle.pc = "idle"
      BY DEF Idle, Handling
    <3>2. PICK status \in Statuses : Reply(c, status)
      BY <2>1
    <3>. QED BY <1>1, <1>2, <3>1, <3>2 DEF Reply, At
  <2>2. CASE \E r \in Handling : r.pc # "idle" /\ r.id \in issued' /\ Goto(c, r)
    <3>1. PICK r \in Handling : r.pc # "idle" /\ r.id \in issued' /\ Goto(c, r)
      BY <2>2
    <3>2. 0 \in Statuses
      BY DEF Statuses
    <3>. QED BY <1>1, <1>2, <3>1, <3>2 DEF Goto, At
  <2>. QED BY <2>1, <2>2
<1>4. now' \in Times /\ restarts' \in 0..MaxRestarts
  BY DEF TypeOK
<1>. QED BY <1>3, <1>4 DEF TypeOK, Entries

LEMMA TypeAccept ==
  ASSUME TypeOK, NEW c \in Clients, Accept(c)
  PROVE  TypeOK'
<1>1. /\ now \in Times /\ Evicted \subseteq registered
      /\ registered \subseteq issued /\ open \subseteq issued /\ issued \subseteq Ids
      /\ entry \in [Ids -> Entries]
      /\ tickets \subseteq [id : issued, expires : Times]
  BY DEF TypeOK, Evicted, Entries
<1>2. {200, 400, 409, 410, 429, 500, 503} \subseteq Statuses
  BY DEF Statuses
<1>3. CASE CreateRefused(c)
  BY <1>1, <1>2, <1>3, HandlerTyped DEF CreateRefused, CleanupLocked
<1>4. CASE CreateFails(c)
  BY <1>1, <1>2, <1>4, HandlerTyped DEF CreateFails, CleanupLocked
<1>5. CASE Create(c)
  <2>1. PICK i \in Ids \ issued :
          /\ issued' = issued \cup {i}
          /\ registered' = (registered \ Evicted) \cup {i}
          /\ open' = (open \ Evicted) \cup {i}
          /\ entry' = [entry EXCEPT ![i] =
                [expires |-> now + TTL, lastUsed |-> now, active |-> 0, cursors |-> {}]]
          /\ Goto(c, [pc |-> "page", id |-> i, page |-> 1])
    BY <1>5 DEF Create
  <2>2. now + TTL \in Times
    BY <1>1, <1>5, RegistryAssumption DEF Create, Times
  <2>3. [expires |-> now + TTL, lastUsed |-> now, active |-> 0, cursors |-> {}] \in Entries
    BY <1>1, <2>2 DEF Entries
  <2>4. [pc |-> "page", id |-> i, page |-> 1] \in Handling
    BY RegistryAssumption DEF Handling
  <2>5. tickets' \subseteq [id : issued', expires : Times] /\ now' = now /\ restarts' = restarts
    BY <1>1, <1>5, <2>1 DEF Create
  <2>. QED BY <1>1, <2>1, <2>3, <2>4, <2>5, HandlerTyped
<1>6. CASE Get(c)
  <2>1. PICK i \in issued :
          \/ Reply(c, 410) /\ UNCHANGED entry
          \/ Reply(c, 400) /\ UNCHANGED entry
          \/ Reply(c, 200) /\ entry' = Touched(i)
          \/ /\ entry' = Touched(i)
             /\ \E p \in 1..PageCount :
                   Goto(c, [pc |-> IF p = 1 THEN "page" ELSE "resolve", id |-> i, page |-> p])
    BY <1>6 DEF Get
  <2>2. ASSUME NEW p \in 1..PageCount, NEW r,
               r = [pc |-> IF p = 1 THEN "page" ELSE "resolve", id |-> i, page |-> p]
        PROVE  r \in Handling /\ r.pc # "idle" /\ r.id \in issued
    BY <1>1, <2>2 DEF Handling
  <2>3. entry' \in [Ids -> Entries]
    BY <1>1, <2>1, TouchedEntries
  <2>4. \/ \E status \in Statuses : Reply(c, status)
        \/ \E r \in Handling : r.pc # "idle" /\ r.id \in issued /\ Goto(c, r)
    <3>1. CASE Reply(c, 410) \/ Reply(c, 400) \/ Reply(c, 200)
      BY <1>2, <3>1
    <3>2. CASE \E p \in 1..PageCount :
                 Goto(c, [pc |-> IF p = 1 THEN "page" ELSE "resolve", id |-> i, page |-> p])
      BY <2>2, <3>2
    <3>. QED BY <2>1, <3>1, <3>2
  <2>. QED BY <1>1, <1>6, <2>3, <2>4, HandlerTyped DEF Get, CleanupLocked
<1>7. CASE TicketGet(c)
  <2>1. PICK i \in issued :
          \/ Reply(c, 410) /\ UNCHANGED entry
          \/ Goto(c, [pc |-> "summary", id |-> i]) /\ entry' = Touched(i)
    BY <1>7 DEF TicketGet
  <2>2. [pc |-> "summary", id |-> i] \in Handling
    BY <1>1 DEF Handling
  <2>3. entry' \in [Ids -> Entries]
    BY <1>1, <2>1, TouchedEntries
  <2>. QED BY <1>1, <1>2, <1>7, <2>1, <2>2, <2>3, HandlerTyped DEF TicketGet, CleanupLocked
<1>8. CASE Redeem(c)
  <2>1. PICK t \in tickets :
          Reply(c, 410) \/ \E pc \in {"head", "get"} : Goto(c, [pc |-> pc, id |-> t.id])
    BY <1>8 DEF Redeem
  <2>2. \A pc \in {"head", "get"} : [pc |-> pc, id |-> t.id] \in Handling /\ t.id \in issued
    BY <1>1 DEF Handling
  <2>. QED BY <1>1, <1>2, <1>8, <2>1, <2>2, HandlerTyped DEF Redeem, registryVars
<1>. QED BY <1>3, <1>4, <1>5, <1>6, <1>7, <1>8 DEF Accept

\* What a handler holds at a point.
LEMMA AtPoint ==
  ASSUME TypeOK, NEW c \in Clients
  PROVE  /\ req[c].pc # "idle" => req[c].id \in issued /\ req[c].id \in Ids
         /\ req[c].pc \in {"page", "resolve"} =>
               req[c] \in [pc : {"page", "resolve"}, id : Ids, page : 1..PageCount]
         /\ req[c].pc = "cursor" => req[c].page \in 1..(PageCount - 1)
         /\ req[c].pc \in {"summary", "waiting"} => req[c] \in [pc : {"summary", "waiting"}, id : Ids]
         /\ req[c].pc \in {"finish", "closing"} =>
               /\ req[c] \in [pc : {"finish", "closing"}, id : Ids, result : {200, 400, 410, 500}, finishedAt : Times]
               /\ req[c].result \in {200, 400, 410, 500} /\ req[c].finishedAt \in Times
<1>1. req[c] \in Handling /\ issued \subseteq Ids
  BY DEF TypeOK
<1>2. req[c].pc # "idle" => req[c].id \in issued
  BY DEF TypeOK, At
<1>. QED BY <1>1, <1>2 DEF Handling

LEMMA TypeHandle ==
  ASSUME TypeOK, NEW c \in Clients, Handle(c),
         At(c, "finish") => entry[req[c].id].active >= 1
  PROVE  TypeOK'
<1>1. /\ now \in Times /\ Evicted \subseteq registered
      /\ registered \subseteq issued /\ open \subseteq issued /\ issued \subseteq Ids
      /\ entry \in [Ids -> Entries]
      /\ tickets \subseteq [id : issued, expires : Times]
  BY DEF TypeOK, Evicted, Entries
<1>2. {200, 400, 404, 409, 410, 429, 500, 503} \subseteq Statuses
  BY DEF Statuses
<1> DEFINE i == req[c].id
           rest == /\ now' = now /\ restarts' = restarts /\ issued' = issued /\ tickets' = tickets
                   /\ registered' \subseteq registered /\ open' \subseteq open
<1>3. ASSUME rest, entry' \in [Ids -> Entries],
             \/ \E status \in Statuses : Reply(c, status)
             \/ \E r \in Handling : r.pc # "idle" /\ r.id \in issued /\ Goto(c, r)
      PROVE  TypeOK'
  BY <1>1, <1>3, HandlerTyped
<1>4. CASE ResolveCursor(c)
  <2>0. req[c].pc = "resolve"
    BY <1>4 DEF ResolveCursor, At
  <2>1. i \in issued /\ i \in Ids /\ req[c] \in [pc : {"page", "resolve"}, id : Ids, page : 1..PageCount]
    BY <2>0, AtPoint
  <2>2. [req[c] EXCEPT !.pc = "page"] \in Handling /\ [req[c] EXCEPT !.pc = "page"].id = i
           /\ [req[c] EXCEPT !.pc = "page"].pc = "page"
    BY <2>1 DEF Handling
  <2>3. entry' = entry \/ entry' = Touched(i)
    BY <1>4 DEF ResolveCursor
  <2>4. \/ \E status \in Statuses : Reply(c, status)
        \/ Goto(c, [req[c] EXCEPT !.pc = "page"])
    BY <1>2, <1>4 DEF ResolveCursor
  <2>5. rest
    BY <1>4 DEF ResolveCursor
  <2>6. entry' \in [Ids -> Entries]
    BY <1>1, <2>1, <2>3, TouchedEntries
  <2>. QED BY <1>3, <2>1, <2>2, <2>4, <2>5, <2>6
<1>5. CASE Page(c)
  <2>0. req[c].pc = "page"
    BY <1>5 DEF Page, At
  <2>1. i \in issued /\ i \in Ids /\ req[c] \in [pc : {"page", "resolve"}, id : Ids, page : 1..PageCount]
    BY <2>0, AtPoint
  <2>2. req[c].page < PageCount => [req[c] EXCEPT !.pc = "cursor"] \in Handling
    BY <2>1, RegistryAssumption DEF Handling
  <2>3. [req[c] EXCEPT !.pc = "cursor"].id = i /\ [req[c] EXCEPT !.pc = "cursor"].pc = "cursor"
    BY <2>1
  <2>4. \/ \E status \in Statuses : Reply(c, status)
        \/ req[c].page < PageCount /\ Goto(c, [req[c] EXCEPT !.pc = "cursor"])
    BY <1>2, <1>5 DEF Page
  <2>5. rest /\ entry' = entry
    BY <1>5 DEF Page, registryVars
  <2>. QED BY <1>1, <1>3, <2>1, <2>2, <2>3, <2>4, <2>5
<1>6. CASE MakeCursor(c)
  <2>1. i \in Ids /\ req[c].page \in 1..(PageCount - 1)
    BY <1>6, AtPoint DEF MakeCursor, At
  <2>2. Touched(i) \in [Ids -> Entries]
    BY <2>1, TouchedEntries
  <2>3. req[c].page + 1 \in 1..PageCount
    BY <2>1, RegistryAssumption
  <2>4. [Touched(i) EXCEPT ![i].cursors = @ \cup {req[c].page + 1}] \in [Ids -> Entries]
    <3> DEFINE e == Touched(i)[i]
    <3>1. e \in Entries
      BY <2>1, <2>2
    <3>2. [e EXCEPT !.cursors = @ \cup {req[c].page + 1}] \in Entries
      BY <3>1, <2>3 DEF Entries
    <3> HIDE DEF e
    <3>3. [Touched(i) EXCEPT ![i].cursors = @ \cup {req[c].page + 1}]
            = [Touched(i) EXCEPT ![i] = [e EXCEPT !.cursors = @ \cup {req[c].page + 1}]]
      BY DEF e
    <3>. QED BY <2>2, <3>2, <3>3
  <2>5. entry' \in [Ids -> Entries]
    BY <1>1, <1>6, <2>4 DEF MakeCursor
  <2>6. rest /\ \E status \in Statuses : Reply(c, status)
    BY <1>2, <1>6 DEF MakeCursor
  <2>. QED BY <1>3, <2>5, <2>6
<1>7. CASE TicketSummary(c)
  <2>0. req[c].pc = "summary"
    BY <1>7 DEF TicketSummary, At
  <2>1. i \in issued /\ i \in Ids /\ req[c] \in [pc : {"summary", "waiting"}, id : Ids]
    BY <2>0, AtPoint
  <2>2. [req[c] EXCEPT !.pc = "ticket"] = [pc |-> "ticket", id |-> i]
    BY <2>1
  <2>3. [pc |-> "ticket", id |-> i] \in Handling
    BY <2>1 DEF Handling
  <2>4. rest /\ entry' = entry /\ (Reply(c, 404) \/ Goto(c, [pc |-> "ticket", id |-> i]))
    BY <1>7, <2>2 DEF TicketSummary, registryVars
  <2>. QED BY <1>1, <1>2, <1>3, <2>1, <2>3, <2>4
<1>8. CASE TicketIssue(c)
  <2>1. i \in issued /\ i \in Ids
    BY <1>8, AtPoint DEF TicketIssue, At
  <2>2. entry[i].expires \in Times
    BY <1>1, <2>1 DEF Entries
  <2>3. Min({now + TicketTTL, entry[i].expires}) \in Times
    BY <1>1, <2>2, MinOfTwo, RegistryAssumption DEF Times
  <2>4. tickets' \subseteq [id : issued, expires : Times]
    BY <1>1, <1>8, <2>1, <2>3 DEF TicketIssue
  <2>5. Reply(c, 200) /\ UNCHANGED <<now, registered, entry, open, issued, restarts>>
    BY <1>8 DEF TicketIssue, registryVars
  <2>. QED BY <1>1, <1>2, <2>4, <2>5, HandlerTyped
<1>9. CASE ValidateExport(c)
  <2>1. i \in Ids
    BY <1>9, AtPoint DEF ValidateExport, At
  <2>2. entry' \in [Ids -> Entries]
    BY <1>1, <1>9, <2>1, TouchedEntries DEF ValidateExport
  <2>3. rest /\ \E status \in Statuses : Reply(c, status)
    BY <1>2, <1>9 DEF ValidateExport, CleanupLocked
  <2>. QED BY <1>3, <2>2, <2>3
<1>10. CASE ExportStart(c)
  <2>1. i \in issued /\ i \in Ids
    BY <1>10, AtPoint DEF ExportStart, At
  <2>2. [Touched(i) EXCEPT ![i].active = @ + 1] \in [Ids -> Entries]
    <3> DEFINE e == Touched(i)[i]
    <3>1. Touched(i) \in [Ids -> Entries] /\ e \in Entries
      BY <2>1, TouchedEntries
    <3>2. [e EXCEPT !.active = @ + 1] \in Entries
      BY <3>1 DEF Entries
    <3> HIDE DEF e
    <3>3. [Touched(i) EXCEPT ![i].active = @ + 1] = [Touched(i) EXCEPT ![i] = [e EXCEPT !.active = @ + 1]]
      BY DEF e
    <3>. QED BY <3>1, <3>2, <3>3
  <2>3. [pc |-> "waiting", id |-> i] \in Handling
    BY <2>1 DEF Handling
  <2>4. rest
    BY <1>10 DEF ExportStart, CleanupLocked
  <2>5. \/ entry' = entry /\ Reply(c, 410)
        \/ entry' = [Touched(i) EXCEPT ![i].active = @ + 1] /\ Goto(c, [pc |-> "waiting", id |-> i])
    BY <1>10, Zenon DEF ExportStart
  <2>. QED BY <1>1, <1>2, <1>3, <2>1, <2>2, <2>3, <2>4, <2>5
<1>11. CASE ExportLock(c)
  <2>0. req[c].pc = "waiting"
    BY <1>11 DEF ExportLock, At
  <2>1. i \in issued /\ i \in Ids /\ req[c] \in [pc : {"summary", "waiting"}, id : Ids]
    BY <2>0, AtPoint
  <2>2. [req[c] EXCEPT !.pc = "exporting"] = [pc |-> "exporting", id |-> i]
    BY <2>1
  <2>3. [pc |-> "exporting", id |-> i] \in Handling
    BY <2>1 DEF Handling
  <2>4. rest /\ entry' = entry /\ Goto(c, [pc |-> "exporting", id |-> i])
    BY <1>11, <2>2 DEF ExportLock, registryVars
  <2>. QED BY <1>1, <1>3, <2>1, <2>3, <2>4
<1>12. CASE ExportEnd(c)
  <2>1. i \in issued /\ i \in Ids
    BY <1>12, AtPoint DEF ExportEnd, At
  <2>2. PICK r \in {200, 400, 410, 500} : Goto(c, [pc |-> "finish", id |-> i, result |-> r, finishedAt |-> now])
    BY <1>12 DEF ExportEnd
  <2>3. [pc |-> "finish", id |-> i, result |-> r, finishedAt |-> now] \in Handling
    BY <1>1, <2>1 DEF Handling
  <2>4. rest /\ entry' = entry
    BY <1>12 DEF ExportEnd, registryVars
  <2>. QED BY <1>1, <1>3, <2>1, <2>2, <2>3, <2>4
<1>13. CASE ExportFinish(c)
  <2>0. req[c].pc = "finish"
    BY <1>13 DEF ExportFinish, At
  <2>1. /\ i \in issued /\ i \in Ids /\ req[c].result \in {200, 400, 410, 500} /\ req[c].finishedAt \in Times
        /\ req[c] \in [pc : {"finish", "closing"}, id : Ids, result : {200, 400, 410, 500}, finishedAt : Times]
    BY <2>0, AtPoint
  <2>2. ExportStatus(req[c]) \in Statuses
    BY <1>2, <2>1 DEF ExportStatus
  <2>3. [req[c] EXCEPT !.pc = "closing"]
          = [pc |-> "closing", id |-> i, result |-> req[c].result, finishedAt |-> req[c].finishedAt]
    BY <2>1
  <2>4. [pc |-> "closing", id |-> i, result |-> req[c].result, finishedAt |-> req[c].finishedAt] \in Handling
    BY <2>1 DEF Handling
  <2>5. \/ Reply(c, ExportStatus(req[c]))
        \/ Goto(c, [pc |-> "closing", id |-> i, result |-> req[c].result, finishedAt |-> req[c].finishedAt])
    BY <1>13, <2>3 DEF ExportFinish
  <2>6. entry' \in [Ids -> Entries]
    <3> DEFINE t == IF i \in registered THEN req[c].finishedAt ELSE entry[i].lastUsed
               e == [entry[i] EXCEPT !.active = entry[i].active - 1, !.lastUsed = t]
    <3>1. entry[i] \in Entries /\ entry[i].active >= 1
      BY <1>1, <2>0, <2>1 DEF At
    <3>2. t \in Times /\ entry[i].active - 1 \in Nat
      BY <2>1, <3>1 DEF Entries
    <3>3. entry' = [entry EXCEPT ![i] = e]
      BY <1>13 DEF ExportFinish
    <3> HIDE DEF t
    <3>4. e \in Entries
      BY <3>1, <3>2 DEF Entries
    <3> HIDE DEF e
    <3>. QED BY <1>1, <2>1, <3>3, <3>4
  <2>7. rest
    BY <1>13 DEF ExportFinish
  <2>. QED BY <1>3, <2>1, <2>2, <2>4, <2>5, <2>6, <2>7
<1>14. CASE ExportClose(c)
  <2>1. i \in Ids /\ req[c].result \in {200, 400, 410, 500}
    BY <1>14, AtPoint DEF ExportClose, At
  <2>2. ExportStatus(req[c]) \in Statuses
    BY <1>2, <2>1 DEF ExportStatus
  <2>. QED BY <1>1, <1>3, <1>14, <2>2 DEF ExportClose
<1>. QED BY <1>4, <1>5, <1>6, <1>7, <1>8, <1>9, <1>10, <1>11, <1>12, <1>13, <1>14 DEF Handle

LEMMA TypeOther ==
  ASSUME TypeOK, Cleanup \/ Tick \/ Restart \/ UNCHANGED vars
  PROVE  TypeOK'
<1>1. CASE Cleanup
  BY <1>1 DEF Cleanup, CleanupLocked, TypeOK, At
<1>2. CASE Tick
  BY <1>2, RegistryAssumption DEF Tick, TypeOK, At, Times, registryVars
<1>3. CASE Restart
  BY <1>3, RegistryAssumption DEF Restart, TypeOK, At, Idle, Handling
<1>4. CASE UNCHANGED vars
  BY <1>4 DEF vars, registryVars, TypeOK, At
<1>. QED BY <1>1, <1>2, <1>3, <1>4

-----------------------------------------------------------------------------
(* The invariant *)

ExportPoints == {"waiting", "exporting", "finish"}

\* A step that may clean up and moves every handler between points outside an
\* export, or inside one: it disturbs no count, no pin and no closing export.
Quiet ==
    /\ \E E \in {{}, Evicted} : registered' = registered \ E /\ open' = open \ E
    /\ \A i \in Ids : entry'[i].active = entry[i].active /\ entry'[i].expires = entry[i].expires
    /\ \A d \in Clients :
          \/ req'[d] = req[d]
          \/ /\ req[d].pc \notin ExportPoints \cup {"closing"}
             /\ req'[d].pc \notin ExportPoints \cup {"closing"}
          \/ /\ req[d].pc \in ExportPoints /\ req'[d].pc \in ExportPoints
             /\ req'[d].id = req[d].id

\* The exports of a snapshot are a finite set.
LEMMA ExportingFinite ==
  ASSUME NEW i
  PROVE  IsFiniteSet(Exporting(i)) /\ IsFiniteSet(Exporting(i)')
<1>1. Exporting(i) \subseteq Clients /\ Exporting(i)' \subseteq Clients
  BY DEF Exporting
<1>. QED BY <1>1, FS_Subset, RegistryAssumption

\* A snapshot with an export is not evicted.
LEMMA PinnedIsKept ==
  ASSUME RegistryInv, NEW c \in Clients, req[c].pc \in ExportPoints
  PROVE  req[c].id \in registered \ Evicted /\ entry[req[c].id].active >= 1
<1>1. req[c].id \in registered
  BY DEF RegistryInv, ExportsPin, ExportPoints
<1>2. entry[req[c].id].active = Cardinality(Exporting(req[c].id))
  BY <1>1 DEF RegistryInv, ExportsCounted
<1>3. c \in Exporting(req[c].id)
  BY DEF Exporting, ExportPoints
<1>4. Cardinality(Exporting(req[c].id)) \in Nat /\ Cardinality(Exporting(req[c].id)) # 0
  BY <1>3, ExportingFinite, FS_CardinalityType, FS_EmptySet
<1>. QED BY <1>1, <1>2, <1>4 DEF Evicted

LEMMA QuietKeeps ==
  ASSUME RegistryInv, TypeOK', Quiet
  PROVE  RegistryInv'
<1>1. PICK E \in {{}, Evicted} : registered' = registered \ E /\ open' = open \ E
  BY DEF Quiet
<1>2. E \subseteq registered /\ registered \subseteq Ids
  BY DEF Evicted, RegistryInv, TypeOK
<1>3. \A i \in Ids : entry'[i].active = entry[i].active /\ entry'[i].expires = entry[i].expires
  BY DEF Quiet
<1>4. ASSUME NEW i PROVE Exporting(i)' = Exporting(i)
  BY DEF Quiet, Exporting, ExportPoints
<1>5. ASSUME NEW d \in Clients
      PROVE  /\ req'[d].pc \in ExportPoints => req[d].pc \in ExportPoints /\ req'[d].id = req[d].id
             /\ req'[d].pc = "closing" => req'[d] = req[d]
             /\ req[d].pc = "closing" => req'[d] = req[d]
  BY DEF Quiet, ExportPoints
<1>6. ExportsCounted'
  BY <1>1, <1>2, <1>3, <1>4 DEF RegistryInv, ExportsCounted
<1>7. ExportsPin'
  <2> SUFFICES ASSUME NEW d \in Clients, req'[d].pc \in ExportPoints
               PROVE  req'[d].id \in registered'
    BY DEF ExportsPin, ExportPoints
  <2>. QED BY <1>1, <1>5, PinnedIsKept
<1>8. ClosersOwn'
  <2> SUFFICES ASSUME NEW d \in Clients, req'[d].pc = "closing"
               PROVE  /\ req'[d].id \in open' \ registered'
                      /\ req'[d].finishedAt >= entry'[req'[d].id].expires
                      /\ \A f \in Clients : req'[f].pc = "closing" /\ req'[f].id = req'[d].id => f = d
    BY DEF ClosersOwn, At
  <2>1. req'[d] = req[d] /\ req[d].pc = "closing"
    BY <1>5
  <2>2. /\ req[d].id \in open \ registered
        /\ req[d].finishedAt >= entry[req[d].id].expires
        /\ \A f \in Clients : req[f].pc = "closing" /\ req[f].id = req[d].id => f = d
    BY <2>1 DEF RegistryInv, ClosersOwn, At
  <2>3. req[d].id \in Ids
    BY <2>2 DEF RegistryInv, TypeOK
  <2>. QED BY <1>1, <1>2, <1>3, <1>5, <2>1, <2>2, <2>3
<1>9. ForgottenAreClosed'
  <2>1. registered \subseteq open /\ \A i \in open \ registered : \E d \in Clients : req[d].pc = "closing" /\ req[d].id = i
    BY DEF RegistryInv, ForgottenAreClosed, At
  <2>. QED BY <1>1, <1>5, <2>1 DEF ForgottenAreClosed, At
<1>10. SlotsBounded'
  <2>1. IsFiniteSet(registered) /\ Cardinality(registered) <= MaxActive /\ registered' \subseteq registered
    BY <1>1 DEF RegistryInv, SlotsBounded
  <2>2. IsFiniteSet(registered') /\ Cardinality(registered') <= Cardinality(registered)
    BY <2>1, FS_Subset
  <2>. QED BY <2>1, <2>2, FS_CardinalityType, RegistryAssumption DEF SlotsBounded
<1>. QED BY <1>6, <1>7, <1>8, <1>9, <1>10 DEF RegistryInv

\* What a step of a handler does to the handlers.
LEMMA Moves ==
  ASSUME req \in [Clients -> Handling], NEW c \in Clients
  PROVE  /\ \A status : Reply(c, status) =>
               req'[c].pc = "idle" /\ \A d \in Clients \ {c} : req'[d] = req[d]
         /\ \A r : Goto(c, r) => req'[c] = r /\ \A d \in Clients \ {c} : req'[d] = req[d]
BY DEF Reply, Goto, Idle

\* The steps that accept a request, except Create, and those of a page, a
\* cursor, a ticket or a HEAD request are quiet.
LEMMA AcceptIsQuiet ==
  ASSUME RegistryInv, TypeOK', NEW c \in Clients,
         CreateRefused(c) \/ CreateFails(c) \/ Get(c) \/ TicketGet(c) \/ Redeem(c)
  PROVE  RegistryInv'
<1>1. req[c].pc = "idle" /\ TypeOK /\ issued \subseteq Ids /\ req \in [Clients -> Handling]
  BY DEF RegistryInv, TypeOK, CreateRefused, CreateFails, Get, TicketGet, Redeem, At
<1>2. tickets' = tickets /\ \E E \in {{}, Evicted} : registered' = registered \ E /\ open' = open \ E
  BY DEF CreateRefused, CreateFails, Get, TicketGet, Redeem, CleanupLocked, registryVars
<1>3. entry' = entry \/ \E i \in Ids : entry' = Touched(i)
  BY <1>1 DEF CreateRefused, CreateFails, Get, TicketGet, Redeem, registryVars
<1>4. \A i \in Ids : entry'[i].active = entry[i].active /\ entry'[i].expires = entry[i].expires
  BY <1>1, <1>3, TouchedEntries
<1>5. /\ req'[c].pc \in {"idle", "page", "resolve", "summary", "head", "get"}
      /\ \A d \in Clients \ {c} : req'[d] = req[d]
  <2>1. CASE \E status : Reply(c, status)
    BY <1>1, <2>1, Moves
  <2>2. CASE Get(c) /\ ~\E status : Reply(c, status)
    <3>1. PICK i \in issued, p \in 1..PageCount :
            Goto(c, [pc |-> IF p = 1 THEN "page" ELSE "resolve", id |-> i, page |-> p])
      BY <2>2 DEF Get
    <3>. QED BY <1>1, <3>1, Moves
  <2>3. CASE TicketGet(c) /\ ~\E status : Reply(c, status)
    <3>1. PICK i \in issued : Goto(c, [pc |-> "summary", id |-> i])
      BY <2>3 DEF TicketGet
    <3>. QED BY <1>1, <3>1, Moves
  <2>4. CASE Redeem(c) /\ ~\E status : Reply(c, status)
    <3>1. PICK t \in tickets, pc \in {"head", "get"} : Goto(c, [pc |-> pc, id |-> t.id])
      BY <2>4 DEF Redeem
    <3>. QED BY <1>1, <3>1, Moves
  <2>. QED BY <2>1, <2>2, <2>3, <2>4 DEF CreateRefused, CreateFails
<1>6. Quiet
  BY <1>1, <1>2, <1>4, <1>5 DEF Quiet, ExportPoints
<1>. QED BY <1>2, <1>6, QuietKeeps

LEMMA HandleIsQuiet ==
  ASSUME RegistryInv, TypeOK', NEW c \in Clients,
         ResolveCursor(c) \/ Page(c) \/ MakeCursor(c) \/ TicketSummary(c) \/ ValidateExport(c)
  PROVE  RegistryInv'
<1>1. /\ req[c].pc \in {"resolve", "page", "cursor", "summary", "head"}
      /\ TypeOK /\ req \in [Clients -> Handling] /\ req[c].id \in Ids
  BY AtPoint DEF RegistryInv, TypeOK, ResolveCursor, Page, MakeCursor, TicketSummary, ValidateExport, At
<1>2. tickets' = tickets /\ \E E \in {{}, Evicted} : registered' = registered \ E /\ open' = open \ E
  BY DEF ResolveCursor, Page, MakeCursor, TicketSummary, ValidateExport, CleanupLocked, registryVars
<1> DEFINE i == req[c].id
           t == Touched(i)
<1>3. /\ t \in [Ids -> Entries]
      /\ \A j \in Ids : t[j].active = entry[j].active /\ t[j].expires = entry[j].expires
  BY <1>1, TouchedEntries
<1>4. \/ entry' = entry \/ entry' = t
      \/ entry' = [t EXCEPT ![i] = [t[i] EXCEPT !.cursors = t[i].cursors \cup {req[c].page + 1}]]
  BY DEF ResolveCursor, Page, MakeCursor, TicketSummary, ValidateExport, registryVars
<1> HIDE DEF t
<1>5. \A j \in Ids : entry'[j].active = entry[j].active /\ entry'[j].expires = entry[j].expires
  BY <1>1, <1>3, <1>4 DEF Entries
<1>6. /\ req'[c].pc \in {"idle", "page", "cursor", "ticket"}
      /\ \A d \in Clients \ {c} : req'[d] = req[d]
  <2>1. CASE \E status : Reply(c, status)
    BY <1>1, <2>1, Moves
  <2>2. CASE ResolveCursor(c) /\ ~\E status : Reply(c, status)
    <3>1. Goto(c, [req[c] EXCEPT !.pc = "page"]) /\ req[c].pc = "resolve"
      BY <2>2 DEF ResolveCursor, At
    <3>2. [req[c] EXCEPT !.pc = "page"].pc = "page"
      BY <3>1, <1>1, AtPoint
    <3>. QED BY <1>1, <3>1, <3>2, Moves
  <2>3. CASE Page(c) /\ ~\E status : Reply(c, status)
    <3>1. Goto(c, [req[c] EXCEPT !.pc = "cursor"]) /\ req[c].pc = "page"
      BY <2>3 DEF Page, At
    <3>2. [req[c] EXCEPT !.pc = "cursor"].pc = "cursor"
      BY <3>1, <1>1, AtPoint
    <3>. QED BY <1>1, <3>1, <3>2, Moves
  <2>4. CASE TicketSummary(c) /\ ~\E status : Reply(c, status)
    <3>1. Goto(c, [req[c] EXCEPT !.pc = "ticket"]) /\ req[c].pc = "summary"
      BY <2>4 DEF TicketSummary, At
    <3>2. [req[c] EXCEPT !.pc = "ticket"].pc = "ticket"
      BY <3>1, <1>1, AtPoint
    <3>. QED BY <1>1, <3>1, <3>2, Moves
  <2>. QED BY <2>1, <2>2, <2>3, <2>4 DEF MakeCursor, ValidateExport
<1>7. Quiet
  BY <1>1, <1>2, <1>5, <1>6 DEF Quiet, ExportPoints
<1>. QED BY <1>2, <1>7, QuietKeeps

LEMMA TicketIssueKeeps ==
  ASSUME RegistryInv, TypeOK', NEW c \in Clients, TicketIssue(c)
  PROVE  RegistryInv'
<1>1. req[c].pc = "ticket" /\ req \in [Clients -> Handling]
  BY DEF RegistryInv, TypeOK, TicketIssue, At
<1>2. entry' = entry /\ registered' = registered /\ open' = open /\ Reply(c, 200)
  BY DEF TicketIssue, registryVars
<1>3. Quiet
  BY <1>1, <1>2, Moves DEF Quiet, ExportPoints
<1>. QED BY <1>3, QuietKeeps

\* A new snapshot takes a free slot and has no export, no ticket and no
\* closing export yet.
LEMMA CreateKeeps ==
  ASSUME RegistryInv, TypeOK', NEW c \in Clients, Create(c)
  PROVE  RegistryInv'
<1>1. /\ req[c].pc = "idle" /\ TypeOK /\ req \in [Clients -> Handling] /\ tickets' = tickets
      /\ Cardinality(registered \ Evicted) < MaxActive
  BY DEF RegistryInv, TypeOK, Create, At
<1>2. PICK i \in Ids \ issued :
        /\ registered' = (registered \ Evicted) \cup {i}
        /\ open' = (open \ Evicted) \cup {i}
        /\ entry' = [entry EXCEPT ![i] =
              [expires |-> now + TTL, lastUsed |-> now, active |-> 0, cursors |-> {}]]
        /\ Goto(c, [pc |-> "page", id |-> i, page |-> 1])
  BY DEF Create
<1>3. req'[c].pc = "page" /\ \A d \in Clients \ {c} : req'[d] = req[d]
  BY <1>1, <1>2, Moves
<1>4. \A d \in Clients : req[d].pc # "idle" => req[d].id # i /\ req[d].id \in Ids
  BY <1>1, <1>2, AtPoint
<1>5. /\ entry'[i].active = 0
      /\ \A j \in Ids \ {i} : entry'[j] = entry[j]
  BY <1>1, <1>2 DEF TypeOK
<1>6. ASSUME NEW j PROVE Exporting(j)' = Exporting(j)
  BY <1>1, <1>3 DEF Exporting
<1>7. Exporting(i) = {}
  BY <1>4 DEF Exporting
<1>8. ExportsCounted'
  <2>1. Cardinality(Exporting(i)') = 0
    BY <1>6, <1>7, FS_EmptySet
  <2>2. ASSUME NEW j \in registered \ Evicted, j # i
        PROVE  entry'[j].active = Cardinality(Exporting(j)')
    <3>1. j \in Ids /\ entry[j].active = Cardinality(Exporting(j))
      BY <1>1 DEF RegistryInv, ExportsCounted, TypeOK
    <3>. QED BY <1>5, <1>6, <2>2, <3>1
  <2>. QED BY <1>2, <1>5, <2>1, <2>2 DEF ExportsCounted
<1>9. ExportsPin'
  <2> SUFFICES ASSUME NEW d \in Clients, req'[d].pc \in ExportPoints
               PROVE  req'[d].id \in registered'
    BY DEF ExportsPin, ExportPoints
  <2>1. d # c /\ req'[d] = req[d]
    BY <1>3 DEF ExportPoints
  <2>. QED BY <1>2, <2>1, PinnedIsKept
<1>10. ClosersOwn'
  <2> SUFFICES ASSUME NEW d \in Clients, req'[d].pc = "closing"
               PROVE  /\ req'[d].id \in open' \ registered'
                      /\ req'[d].finishedAt >= entry'[req'[d].id].expires
                      /\ \A f \in Clients : req'[f].pc = "closing" /\ req'[f].id = req'[d].id => f = d
    BY DEF ClosersOwn, At
  <2>1. req'[d] = req[d] /\ req[d].pc = "closing"
    BY <1>3
  <2>2. /\ req[d].id \in open \ registered
        /\ req[d].finishedAt >= entry[req[d].id].expires
        /\ \A f \in Clients : req[f].pc = "closing" /\ req[f].id = req[d].id => f = d
    BY <2>1 DEF RegistryInv, ClosersOwn, At
  <2>3. req[d].id # i /\ req[d].id \in Ids
    BY <1>4, <2>1
  <2>4. \A f \in Clients : req'[f].pc = "closing" => req'[f] = req[f]
    BY <1>3
  <2>5. req[d].id \in open' \ registered'
    BY <1>2, <2>2, <2>3 DEF Evicted
  <2>. QED BY <1>5, <2>1, <2>2, <2>3, <2>4, <2>5
<1>11. ForgottenAreClosed'
  <2>1. registered \subseteq open /\ \A j \in open \ registered : \E d \in Clients : req[d].pc = "closing" /\ req[d].id = j
    BY DEF RegistryInv, ForgottenAreClosed, At
  <2>2. \A d \in Clients : req[d].pc = "closing" => req'[d] = req[d]
    BY <1>1, <1>3
  <2>. QED BY <1>2, <2>1, <2>2 DEF ForgottenAreClosed, At
<1>12. SlotsBounded'
  <2>1. IsFiniteSet(registered \ Evicted)
    BY FS_Subset DEF RegistryInv, SlotsBounded
  <2>2. i \notin registered \ Evicted
    BY <1>1 DEF TypeOK
  <2>3. IsFiniteSet(registered') /\ Cardinality(registered') = Cardinality(registered \ Evicted) + 1
    BY <1>2, <2>1, <2>2, FS_AddElement
  <2>. QED BY <1>1, <2>1, <2>3, FS_CardinalityType, RegistryAssumption DEF SlotsBounded
<1>. QED BY <1>8, <1>9, <1>10, <1>11, <1>12 DEF RegistryInv

\* An export is counted before it waits for its turn; when the snapshot is gone
\* the step is quiet.
LEMMA ExportStartKeeps ==
  ASSUME RegistryInv, TypeOK', NEW c \in Clients, ExportStart(c)
  PROVE  RegistryInv'
<1>0. PICK i \in Ids : i = req[c].id
  BY AtPoint DEF RegistryInv, ExportStart, At
<1>1. /\ req[c].pc = "get" /\ TypeOK /\ req \in [Clients -> Handling]
      /\ tickets' = tickets /\ registered' = registered \ Evicted /\ open' = open \ Evicted
  BY DEF RegistryInv, TypeOK, ExportStart, At, CleanupLocked
<1>2. CASE entry' = entry /\ Reply(c, 410)
  <2>1. Quiet
    BY <1>1, <1>2, Moves DEF Quiet, ExportPoints
  <2>. QED BY <1>1, <2>1, QuietKeeps
<1>3. CASE /\ i \in registered \ Evicted
           /\ entry' = [Touched(i) EXCEPT ![i] = [Touched(i)[i] EXCEPT !.active = Touched(i)[i].active + 1]]
           /\ Goto(c, [pc |-> "waiting", id |-> i])
  <2> DEFINE t == Touched(i)
  <2>1. /\ t \in [Ids -> Entries]
        /\ \A j \in Ids : t[j].active = entry[j].active /\ t[j].expires = entry[j].expires
    BY <1>1, TouchedEntries
  <2>2. entry' = [t EXCEPT ![i] = [t[i] EXCEPT !.active = t[i].active + 1]]
    BY <1>3
  <2> HIDE DEF t
  <2>3. /\ entry'[i].active = entry[i].active + 1
        /\ \A j \in Ids \ {i} : entry'[j].active = entry[j].active
        /\ \A j \in Ids : entry'[j].expires = entry[j].expires
    BY <1>1, <2>1, <2>2 DEF Entries
  <2>4. /\ req'[c].pc = "waiting" /\ req'[c].id = i
        /\ \A d \in Clients \ {c} : req'[d] = req[d]
    BY <1>1, <1>3, Moves
  <2>5. /\ Exporting(i)' = Exporting(i) \cup {c} /\ c \notin Exporting(i)
        /\ \A j \in Ids \ {i} : Exporting(j)' = Exporting(j)
    BY <1>0, <1>1, <2>4 DEF Exporting
  <2>6. ExportsCounted'
    <3>1. Cardinality(Exporting(i)') = Cardinality(Exporting(i)) + 1
      BY <2>5, ExportingFinite, FS_AddElement
    <3>2. entry'[i].active = Cardinality(Exporting(i)')
      BY <1>3, <2>3, <3>1 DEF RegistryInv, ExportsCounted
    <3>3. ASSUME NEW j \in registered \ Evicted, j # i
          PROVE  entry'[j].active = Cardinality(Exporting(j)')
      <4>1. j \in Ids /\ entry[j].active = Cardinality(Exporting(j))
        BY <1>1 DEF RegistryInv, ExportsCounted, TypeOK
      <4>. QED BY <2>3, <2>5, <3>3, <4>1
    <3>. QED BY <1>1, <3>2, <3>3 DEF ExportsCounted
  <2>7. ExportsPin'
    <3> SUFFICES ASSUME NEW d \in Clients, req'[d].pc \in ExportPoints
                 PROVE  req'[d].id \in registered'
      BY DEF ExportsPin, ExportPoints
    <3>1. CASE d = c
      BY <1>1, <1>3, <2>4, <3>1
    <3>2. CASE d # c
      BY <1>1, <2>4, <3>2, PinnedIsKept
    <3>. QED BY <3>1, <3>2
  <2>8. ClosersOwn'
    <3> SUFFICES ASSUME NEW d \in Clients, req'[d].pc = "closing"
                 PROVE  /\ req'[d].id \in open' \ registered'
                        /\ req'[d].finishedAt >= entry'[req'[d].id].expires
                        /\ \A f \in Clients : req'[f].pc = "closing" /\ req'[f].id = req'[d].id => f = d
      BY DEF ClosersOwn, At
    <3>1. req'[d] = req[d] /\ req[d].pc = "closing"
      BY <2>4
    <3>2. /\ req[d].id \in open \ registered
          /\ req[d].finishedAt >= entry[req[d].id].expires
          /\ \A f \in Clients : req[f].pc = "closing" /\ req[f].id = req[d].id => f = d
      BY <3>1 DEF RegistryInv, ClosersOwn, At
    <3>3. req[d].id \in Ids /\ \A f \in Clients : req'[f].pc = "closing" => req'[f] = req[f]
      BY <1>1, <2>4, <3>1, AtPoint
    <3>4. req[d].id \in open' \ registered'
      BY <1>1, <3>2 DEF Evicted
    <3>. QED BY <2>3, <3>1, <3>2, <3>3, <3>4
  <2>9. ForgottenAreClosed'
    <3>1. registered \subseteq open /\ \A j \in open \ registered : \E d \in Clients : req[d].pc = "closing" /\ req[d].id = j
      BY DEF RegistryInv, ForgottenAreClosed, At
    <3>2. \A d \in Clients : req[d].pc = "closing" => req'[d] = req[d]
      BY <1>1, <2>4
    <3>. QED BY <1>1, <3>1, <3>2 DEF ForgottenAreClosed, At
  <2>10. SlotsBounded'
    <3>1. IsFiniteSet(registered) /\ Cardinality(registered) <= MaxActive /\ registered' \subseteq registered
      BY <1>1 DEF RegistryInv, SlotsBounded
    <3>2. IsFiniteSet(registered') /\ Cardinality(registered') <= Cardinality(registered)
      BY <3>1, FS_Subset
    <3>. QED BY <3>1, <3>2, FS_CardinalityType, RegistryAssumption DEF SlotsBounded
  <2>. QED BY <2>6, <2>7, <2>8, <2>9, <2>10 DEF RegistryInv
<1>4. \/ entry' = entry /\ Reply(c, 410)
      \/ /\ i \in registered \ Evicted
         /\ entry' = [Touched(i) EXCEPT ![i] = [Touched(i)[i] EXCEPT !.active = Touched(i)[i].active + 1]]
         /\ Goto(c, [pc |-> "waiting", id |-> i])
  BY <1>0 DEF ExportStart, Usable
<1>. QED BY <1>2, <1>3, <1>4

\* An export that gets its turn or ends its work stays counted.
LEMMA ExportMoveKeeps ==
  ASSUME RegistryInv, TypeOK', NEW c \in Clients, ExportLock(c) \/ ExportEnd(c)
  PROVE  RegistryInv'
<1>1. /\ req[c].pc \in {"waiting", "exporting"} /\ TypeOK /\ req \in [Clients -> Handling]
      /\ tickets' = tickets /\ registered' = registered /\ open' = open /\ entry' = entry
  BY DEF RegistryInv, TypeOK, ExportLock, ExportEnd, At, registryVars
<1>2. /\ req'[c].pc \in {"exporting", "finish"} /\ req'[c].id = req[c].id
      /\ \A d \in Clients \ {c} : req'[d] = req[d]
  <2>1. CASE ExportLock(c)
    <3>1. req[c].pc = "waiting"
      BY <2>1 DEF ExportLock, At
    <3>2. req[c] \in [pc : {"summary", "waiting"}, id : Ids]
      BY <1>1, <3>1, AtPoint
    <3>3. /\ [req[c] EXCEPT !.pc = "exporting"].pc = "exporting"
          /\ [req[c] EXCEPT !.pc = "exporting"].id = req[c].id
      BY <3>2
    <3>. QED BY <1>1, <2>1, <3>3, Moves DEF ExportLock
  <2>2. CASE ExportEnd(c)
    <3>1. PICK r : Goto(c, [pc |-> "finish", id |-> req[c].id, result |-> r, finishedAt |-> now])
      BY <2>2 DEF ExportEnd
    <3>. QED BY <1>1, <3>1, Moves
  <2>. QED BY <2>1, <2>2
<1>3. Quiet
  BY <1>1, <1>2 DEF Quiet, ExportPoints
<1>. QED BY <1>1, <1>3, QuietKeeps

\* The count drops with the export; the one that sees it fall to nothing at an
\* expired snapshot takes the entry out and owns the close.
LEMMA ExportFinishKeeps ==
  ASSUME RegistryInv, TypeOK', NEW c \in Clients, ExportFinish(c)
  PROVE  RegistryInv'
<1>0. PICK i \in Ids : i = req[c].id
  BY AtPoint DEF RegistryInv, ExportFinish, At
<1>1. /\ req[c].pc = "finish" /\ TypeOK /\ req \in [Clients -> Handling]
      /\ tickets' = tickets /\ open' = open
  BY DEF RegistryInv, TypeOK, ExportFinish, At
<1>2. /\ i \in registered /\ entry[i].active = Cardinality(Exporting(i))
      /\ c \in Exporting(i) /\ entry[i] \in Entries /\ entry \in [Ids -> Entries]
  BY <1>0, <1>1, PinnedIsKept DEF ExportPoints, RegistryInv, ExportsCounted, Exporting, TypeOK, Entries
<1> DEFINE last == req[c].finishedAt >= entry[i].expires /\ entry[i].active = 1
           t == IF i \in registered THEN req[c].finishedAt ELSE entry[i].lastUsed
           e == [entry[i] EXCEPT !.active = entry[i].active - 1, !.lastUsed = t]
<1>3. entry' = [entry EXCEPT ![i] = e]
  BY <1>0 DEF ExportFinish
<1> HIDE DEF t
<1>4. e.active = entry[i].active - 1 /\ e.expires = entry[i].expires
  BY <1>2 DEF Entries
<1> HIDE DEF e
<1>5. /\ entry'[i].active = entry[i].active - 1
      /\ \A j \in Ids \ {i} : entry'[j].active = entry[j].active
      /\ \A j \in Ids : entry'[j].expires = entry[j].expires
  BY <1>2, <1>3, <1>4
<1>6. /\ registered' = IF last THEN registered \ {i} ELSE registered
      /\ IF last THEN Goto(c, [req[c] EXCEPT !.pc = "closing"])
                 ELSE Reply(c, ExportStatus(req[c]))
  BY <1>0, <1>2 DEF ExportFinish
<1> HIDE DEF last
<1>7. /\ [req[c] EXCEPT !.pc = "closing"].pc = "closing"
      /\ [req[c] EXCEPT !.pc = "closing"].id = i
      /\ [req[c] EXCEPT !.pc = "closing"].finishedAt = req[c].finishedAt
  <2>1. req[c] \in [pc : {"finish", "closing"}, id : Ids, result : {200, 400, 410, 500}, finishedAt : Times]
    BY <1>1, AtPoint
  <2>. QED BY <1>0, <2>1
<1>8. /\ last => req'[c].pc = "closing" /\ req'[c].id = i /\ req'[c].finishedAt = req[c].finishedAt
      /\ ~last => req'[c].pc = "idle"
      /\ \A d \in Clients \ {c} : req'[d] = req[d]
  BY <1>1, <1>6, <1>7, Moves
<1>9. /\ Exporting(i)' = Exporting(i) \ {c}
      /\ \A j \in Ids \ {i} : Exporting(j)' = Exporting(j)
  BY <1>0, <1>1, <1>8 DEF Exporting
<1>10. Cardinality(Exporting(i)') = Cardinality(Exporting(i)) - 1
  BY <1>2, <1>9, ExportingFinite, FS_RemoveElement
<1>11. ASSUME last PROVE Exporting(i)' = {}
  <2>1. Cardinality(Exporting(i)') = 0
    BY <1>2, <1>10, <1>11 DEF last
  <2>. QED BY <2>1, ExportingFinite, FS_EmptySet
<1>12. ExportsCounted'
  <2> SUFFICES ASSUME NEW j \in registered' PROVE entry'[j].active = Cardinality(Exporting(j)')
    BY DEF ExportsCounted
  <2>1. j \in registered /\ j \in Ids /\ entry[j].active = Cardinality(Exporting(j))
    BY <1>1, <1>6 DEF RegistryInv, ExportsCounted, TypeOK
  <2>2. CASE j = i
    BY <1>2, <1>5, <1>10, <2>2
  <2>3. CASE j # i
    BY <1>5, <1>9, <2>1, <2>3
  <2>. QED BY <2>2, <2>3
<1>13. ExportsPin'
  <2> SUFFICES ASSUME NEW d \in Clients, req'[d].pc \in ExportPoints
               PROVE  req'[d].id \in registered'
    BY DEF ExportsPin, ExportPoints
  <2>1. d # c /\ req'[d] = req[d]
    BY <1>8 DEF ExportPoints
  <2>2. req[d].id \in registered
    BY <2>1, PinnedIsKept
  <2>3. ASSUME last PROVE req[d].id # i
    BY <1>11, <2>1, <2>3 DEF Exporting, ExportPoints
  <2>. QED BY <1>6, <2>1, <2>2, <2>3
<1>14. \A d \in Clients : req[d].pc = "closing" =>
          d # c /\ req'[d] = req[d] /\ req[d].id \in open \ registered /\ req[d].id # i /\ req[d].id \in Ids
  BY <1>1, <1>2, <1>8, AtPoint DEF RegistryInv, ClosersOwn, At
<1>15. ClosersOwn'
  <2> SUFFICES ASSUME NEW d \in Clients, req'[d].pc = "closing"
               PROVE  /\ req'[d].id \in open' \ registered'
                      /\ req'[d].finishedAt >= entry'[req'[d].id].expires
                      /\ \A f \in Clients : req'[f].pc = "closing" /\ req'[f].id = req'[d].id => f = d
    BY DEF ClosersOwn, At
  <2>1. CASE d = c
    <3>1. last
      BY <1>8, <2>1
    <3>2. i \in open' \ registered'
      BY <1>1, <1>2, <1>6, <3>1 DEF RegistryInv, ForgottenAreClosed
    <3>3. req[c].finishedAt >= entry'[i].expires
      BY <1>5, <3>1 DEF last
    <3>4. \A f \in Clients : req'[f].pc = "closing" /\ f # c => req'[f].id # i
      BY <1>8, <1>14
    <3>. QED BY <1>8, <2>1, <3>1, <3>2, <3>3, <3>4
  <2>2. CASE d # c
    <3>1. req'[d] = req[d] /\ req[d].pc = "closing"
      BY <1>8, <2>2
    <3>2. /\ req[d].finishedAt >= entry[req[d].id].expires
          /\ \A f \in Clients : req[f].pc = "closing" /\ req[f].id = req[d].id => f = d
      BY <3>1 DEF RegistryInv, ClosersOwn, At
    <3>3. req[d].id \in open' \ registered' /\ req[d].id # i /\ req[d].id \in Ids
      BY <1>1, <1>6, <1>14, <3>1
    <3>4. \A f \in Clients : req'[f].pc = "closing" /\ req'[f].id = req[d].id => f # c /\ req'[f] = req[f]
      BY <1>8, <3>3
    <3>. QED BY <1>5, <3>1, <3>2, <3>3, <3>4
  <2>. QED BY <2>1, <2>2
<1>16. ForgottenAreClosed'
  <2>1. registered \subseteq open /\ \A j \in open \ registered : \E d \in Clients : req[d].pc = "closing" /\ req[d].id = j
    BY DEF RegistryInv, ForgottenAreClosed, At
  <2>2. ASSUME NEW j \in open' \ registered'
        PROVE  \E d \in Clients : req'[d].pc = "closing" /\ req'[d].id = j
    <3>1. CASE j \in registered
      BY <1>6, <1>8, <2>2, <3>1
    <3>2. CASE j \notin registered
      BY <1>1, <1>14, <2>1, <3>2
    <3>. QED BY <3>1, <3>2
  <2>. QED BY <1>1, <1>6, <2>1, <2>2 DEF ForgottenAreClosed, At
<1>17. SlotsBounded'
  <2>1. IsFiniteSet(registered) /\ Cardinality(registered) <= MaxActive /\ registered' \subseteq registered
    BY <1>6 DEF RegistryInv, SlotsBounded
  <2>2. IsFiniteSet(registered') /\ Cardinality(registered') <= Cardinality(registered)
    BY <2>1, FS_Subset
  <2>. QED BY <2>1, <2>2, FS_CardinalityType, RegistryAssumption DEF SlotsBounded
<1>. QED BY <1>12, <1>13, <1>15, <1>16, <1>17 DEF RegistryInv

\* The export that took the entry out closes the snapshot, which nobody else
\* uses or closes.
LEMMA ExportCloseKeeps ==
  ASSUME RegistryInv, TypeOK', NEW c \in Clients, ExportClose(c)
  PROVE  RegistryInv'
<1>0. PICK i \in Ids : i = req[c].id
  BY AtPoint DEF RegistryInv, ExportClose, At
<1>1. /\ req[c].pc = "closing" /\ TypeOK /\ req \in [Clients -> Handling]
      /\ tickets' = tickets /\ registered' = registered /\ entry' = entry
      /\ open' = open \ {i} /\ Reply(c, ExportStatus(req[c]))
  BY <1>0 DEF RegistryInv, TypeOK, ExportClose, At
<1>2. req'[c].pc = "idle" /\ \A d \in Clients \ {c} : req'[d] = req[d]
  BY <1>1, Moves
<1>3. i \notin registered /\ \A d \in Clients \ {c} : req[d].pc = "closing" => req[d].id # i
  BY <1>0, <1>1 DEF RegistryInv, ClosersOwn, At
<1>4. ASSUME NEW j PROVE Exporting(j)' = Exporting(j)
  BY <1>1, <1>2 DEF Exporting
<1>5. ExportsCounted'
  BY <1>1, <1>4 DEF RegistryInv, ExportsCounted
<1>6. ExportsPin'
  BY <1>1, <1>2 DEF RegistryInv, ExportsPin
<1>7. ClosersOwn'
  BY <1>1, <1>2, <1>3 DEF RegistryInv, ClosersOwn, At
<1>8. ForgottenAreClosed'
  BY <1>0, <1>1, <1>2, <1>3 DEF RegistryInv, ForgottenAreClosed, At
<1>9. SlotsBounded'
  BY <1>1 DEF RegistryInv, SlotsBounded
<1>. QED BY <1>5, <1>6, <1>7, <1>8, <1>9 DEF RegistryInv

LEMMA OtherKeeps ==
  ASSUME RegistryInv, TypeOK', Cleanup \/ Tick \/ Restart \/ UNCHANGED vars
  PROVE  RegistryInv'
<1>1. CASE Cleanup \/ Tick \/ UNCHANGED vars
  <2>1. tickets' = tickets /\ entry' = entry /\ req' = req
    BY <1>1 DEF Cleanup, Tick, vars, registryVars
  <2>2. \E E \in {{}, Evicted} : registered' = registered \ E /\ open' = open \ E
    BY <1>1 DEF Cleanup, Tick, vars, registryVars, CleanupLocked
  <2>3. Quiet
    BY <2>1, <2>2 DEF Quiet
  <2>. QED BY <2>1, <2>3, QuietKeeps
<1>2. CASE Restart
  <2>1. registered' = {} /\ open' = {} /\ tickets' = {} /\ \A c \in Clients : req'[c].pc = "idle"
    BY <1>2 DEF Restart, Idle
  <2>2. IsFiniteSet({}) /\ Cardinality({}) = 0 /\ MaxActive \in Nat
    BY FS_EmptySet, RegistryAssumption
  <2>. QED BY <2>1, <2>2 DEF RegistryInv, ExportsCounted, ExportsPin, ClosersOwn, ForgottenAreClosed,
                             SlotsBounded, At
<1>. QED BY <1>1, <1>2

\* RegistryInv is inductive.
LEMMA RegistryInvInductive ==
  /\ Init => RegistryInv
  /\ RegistryInv /\ [Next]_vars => RegistryInv'
<1>1. ASSUME Init PROVE RegistryInv
  <2>1. registered = {} /\ open = {} /\ tickets = {} /\ \A c \in Clients : req[c].pc = "idle"
    BY <1>1 DEF Init, Idle
  <2>2. IsFiniteSet({}) /\ Cardinality({}) = 0 /\ MaxActive \in Nat
    BY FS_EmptySet, RegistryAssumption
  <2>. QED BY <1>1, <2>1, <2>2, TypeInit DEF RegistryInv, ExportsCounted, ExportsPin, ClosersOwn,
                             ForgottenAreClosed, SlotsBounded, At
<1>2. ASSUME RegistryInv, [Next]_vars PROVE RegistryInv'
  <2>1. TypeOK
    BY <1>2 DEF RegistryInv
  <2>2. ASSUME NEW c \in Clients, Accept(c) PROVE RegistryInv'
    <3>1. TypeOK'
      BY <2>1, <2>2, TypeAccept
    <3>. QED BY <1>2, <2>2, <3>1, AcceptIsQuiet, CreateKeeps DEF Accept
  <2>3. ASSUME NEW c \in Clients, Handle(c) PROVE RegistryInv'
    <3>1. At(c, "finish") => entry[req[c].id].active >= 1
      BY <1>2, PinnedIsKept DEF At, ExportPoints
    <3>2. TypeOK'
      BY <2>1, <2>3, <3>1, TypeHandle
    <3>. QED BY <1>2, <2>3, <3>2, HandleIsQuiet, TicketIssueKeeps, ExportStartKeeps, ExportMoveKeeps,
                ExportFinishKeeps, ExportCloseKeeps DEF Handle
  <2>4. ASSUME Cleanup \/ Tick \/ Restart \/ UNCHANGED vars PROVE RegistryInv'
    BY <1>2, <2>1, <2>4, TypeOther, OtherKeeps
  <2>. QED BY <1>2, <2>2, <2>3, <2>4 DEF Next
<1>. QED BY <1>1, <1>2

LEMMA RegistryInvHolds == Spec => []RegistryInv
BY RegistryInvInductive, PTL DEF Spec

-----------------------------------------------------------------------------
\* registry.export counts itself under the mutex before it waits for exportMu
\* and uncounts itself under the mutex after its last read, and cleanupLocked
\* looks at the count: no eviction, of the ticker or of any request, closes the
\* read transaction under a running export, for any number of clients.
THEOREM ExportsKeepTheirReader == Spec => []NeverClosedWhileExporting
<1>1. RegistryInv => NeverClosedWhileExporting
  BY DEF RegistryInv, NeverClosedWhileExporting, ExportsPin, ForgottenAreClosed, Exporting
<1>. QED BY <1>1, RegistryInvHolds, PTL

\* Whatever way requests end, an open read transaction is in the registry,
\* which closes it, or has exactly one export that took its entry out in the
\* second critical section of export and closes it after the unlock; and create
\* never holds more than stableMaxActiveSnapshots of them.
THEOREM ReadersAreOwned == Spec => []NoReaderLeaks
<1>1. ASSUME RegistryInv PROVE NoReaderLeaks
  <2>1. ASSUME NEW i \in open \ registered PROVE Cardinality(Closing(i)) = 1
    <3>1. PICK c \in Clients : At(c, "closing") /\ req[c].id = i
      BY <1>1, <2>1 DEF RegistryInv, ForgottenAreClosed
    <3>2. \A d \in Clients : At(d, "closing") /\ req[d].id = i => d = c
      BY <1>1, <3>1 DEF RegistryInv, ClosersOwn
    <3>3. Closing(i) = {c}
      BY <3>1, <3>2 DEF Closing
    <3>. QED BY <3>3, FS_Singleton
  <2>. QED BY <1>1, <2>1 DEF RegistryInv, ForgottenAreClosed, SlotsBounded, NoReaderLeaks
<1>. QED BY <1>1, RegistryInvHolds, PTL
=============================================================================
