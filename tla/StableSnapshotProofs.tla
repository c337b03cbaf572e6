------------------------ MODULE StableSnapshotProofs ------------------------
(***************************************************************************)
(* Proofs about StableSnapshot for every set of requests, sessions and      *)
(* bodies, every capacity and every bound: digests are sound, an open       *)
(* snapshot describes its own view, and the importer's copy loses nothing.  *)
(* The facts about the change log come first: the fence of a session is the *)
(* largest sequence that names it, and a transaction that changes what a    *)
(* session contains moves that fence above the old clock.                   *)
(***************************************************************************)
EXTENDS StableSnapshot, FiniteSetTheorems, WellFoundedInduction, TLAPS

\* Every set of naturals has a least element.
LEMMA NatHasLeast ==
  ASSUME NEW T, T \subseteq Nat, T # {}
  PROVE  \E x \in T : \A y \in T : x <= y
<1> DEFINE R == {p \in Nat \X Nat : p[1] < p[2]}
<1>1. IsWellFoundedOn(R, Nat)
  BY NatLessThanWellFounded DEF OpToRel
<1> HIDE DEF R
<1>2. PICK x \in T : \A y \in T : ~(<<y, x>> \in R)
  BY <1>1, WFMin, Zenon
<1>3. ASSUME NEW y \in T PROVE x <= y
  <2>1. x \in Nat /\ y \in Nat
    OBVIOUS
  <2>2. ~(<<y, x>> \in R)
    BY <1>2
  <2>3. ~(y < x)
    BY <2>1, <2>2 DEF R
  <2>. QED BY <2>1, <2>3
<1>. QED BY <1>3

\* A non-empty bounded set of naturals has a maximum, which Max returns.
LEMMA MaxOfBounded ==
  ASSUME NEW n \in Nat, NEW T, T \subseteq 0..n, T # {}
  PROVE  Max(T) \in T /\ \A y \in T : y <= Max(T)
<1> DEFINE U == {n - t : t \in T}
<1>1. U \subseteq Nat /\ U # {}
  <2>1. \A t \in T : t \in 0..n
    OBVIOUS
  <2>2. \A t \in T : n - t \in Nat
    BY <2>1
  <2>. QED BY <2>2, Zenon
<1> HIDE DEF U
<1>2. PICK u \in U : \A v \in U : u <= v
  BY <1>1, NatHasLeast
<1>3. PICK x \in T : u = n - x
  BY <1>2 DEF U
<1>4. ASSUME NEW y \in T PROVE x >= y
  <2>1. n - y \in U
    BY Zenon DEF U
  <2>2. n - x <= n - y
    BY <2>1, <1>2, <1>3
  <2>3. x \in 0..n /\ y \in 0..n
    OBVIOUS
  <2>. QED BY <2>2, <2>3
<1>5. \E z \in T : \A y \in T : z >= y
  BY <1>4
<1>6. Max(T) \in T /\ \A y \in T : Max(T) >= y
  BY <1>5, Zenon DEF Max
<1>7. Max(T) \in 0..n /\ \A y \in T : y \in 0..n
  BY <1>6
<1>. QED BY <1>6, <1>7

-----------------------------------------------------------------------------
\* The log is well formed: no event carries a sequence above the clock.
LogInv == LogTypeOK /\ \A e \in events : e.sequence <= clock

\* The largest sequence that names session s in a set ev of events bounded by c.
Named(ev, s) == {e.sequence : e \in {x \in ev : Concerns(x, s)}}

\* A session's fence lies within the log, and no event that concerns the
\* session is after it.
LEMMA FenceOfLog ==
  ASSUME NEW ev, NEW c \in Nat, \A e \in ev : e.sequence \in 0..c, NEW s,
         NEW f, f = IF Named(ev, s) = {} THEN 0 ELSE Max(Named(ev, s))
  PROVE  f \in 0..c /\ \A e \in ev : Concerns(e, s) => e.sequence <= f
<1>1. Named(ev, s) \subseteq 0..c
  BY DEF Named
<1>2. \A e \in ev : Concerns(e, s) => e.sequence \in Named(ev, s)
  BY DEF Named
<1>3. CASE Named(ev, s) = {}
  BY <1>2, <1>3
<1>4. CASE Named(ev, s) # {}
  <2>1. Max(Named(ev, s)) \in Named(ev, s) /\ \A y \in Named(ev, s) : y <= Max(Named(ev, s))
    BY <1>1, <1>4, MaxOfBounded
  <2>. QED BY <1>1, <1>2, <1>4, <2>1
<1>. QED BY <1>3, <1>4

\* The fence of a session is a value the clock has had, and bounds every event
\* that names the session.
LEMMA FenceBound ==
  ASSUME LogInv, NEW s \in Sessions
  PROVE  /\ SessionFence(s) \in 0..clock
         /\ \A e \in events : Concerns(e, s) => e.sequence <= SessionFence(s)
<1>1. clock \in Nat /\ \A e \in events : e.sequence \in 0..clock
  BY DEF LogInv, LogTypeOK, Events
<1>2. SessionFence(s) = IF Named(events, s) = {} THEN 0 ELSE Max(Named(events, s))
  BY DEF SessionFence, SequencesOf, Named
<1>. QED BY <1>1, <1>2, FenceOfLog

\* What every transaction does to the log, and all that the rest of the
\* protocol relies on.
LogStep ==
    /\ LogInv /\ LogInv'
    /\ clock' > clock
    /\ events \subseteq events'
    /\ \A e \in events' \ events : e.sequence > clock
    /\ \A s \in Sessions : Content(records', s) # Content(records, s) =>
          \E e \in events' \ events : Concerns(e, s)

\* Commit is a LogStep: the trigger rows of a transaction name every session
\* whose content it changes, the one a moved row leaves included.
LEMMA CommitLogs ==
  ASSUME LogInv,
         NEW order \in Orders, NEW new \in [Range(order) -> Rows \cup {NoRow}],
         \A r \in Range(order) : Stored(r) \/ new[r] # NoRow,
         Commit(order, new)
  PROVE  LogStep
<1> DEFINE Ev(i) == [sequence |-> clock + i,
                     session  |-> TriggerSession(records[order[i]], new[order[i]]),
                     previous |-> TriggerPrevious(records[order[i]], new[order[i]])]
<1>1. PICK n \in 1..MaxTx : order \in [1..n -> Requests]
  BY DEF Orders
<1>2. n \in Nat /\ n >= 1 /\ DOMAIN order = 1..n /\ Len(order) = n
  BY <1>1, IngestBoundsAssumption
<1>3. clock \in Nat /\ clock' = clock + n
  BY <1>2 DEF Commit, LogInv, LogTypeOK
<1>4. events' = events \cup {Ev(i) : i \in 1..n}
  BY <1>2 DEF Commit
<1>5. \A i \in 1..n : order[i] \in Requests /\ order[i] \in Range(order)
  BY <1>1, <1>2 DEF Range
<1>6. \A r \in Requests : records[r] \in Rows \cup {NoRow}
  BY DEF LogInv, LogTypeOK, Tables
<1>7. ASSUME NEW i \in 1..n
      PROVE  /\ Ev(i) \in Events
             /\ Ev(i).sequence = clock + i /\ Ev(i).sequence > clock /\ Ev(i).sequence <= clock'
  <2> DEFINE old == records[order[i]]
  <2>1. old \in Rows \cup {NoRow} /\ new[order[i]] \in Rows \cup {NoRow}
    BY <1>5, <1>6
  <2>2. old # NoRow \/ new[order[i]] # NoRow
    BY <1>5 DEF Stored
  <2>3. TriggerSession(old, new[order[i]]) \in Sessions
    BY <2>1, <2>2 DEF TriggerSession, Rows
  <2>4. TriggerPrevious(old, new[order[i]]) \in Sessions \cup {NoSession}
    BY <2>1 DEF TriggerPrevious, Rows
  <2>5. i \in Nat /\ i >= 1 /\ i <= n
    BY <1>2
  <2>. QED BY <1>2, <1>3, <2>3, <2>4, <2>5 DEF Events
<1>8. \A e \in events : e.sequence <= clock /\ e \in Events /\ e.sequence \in Nat
  BY DEF LogInv, LogTypeOK, Events
<1>9. \A i \in 1..n : Ev(i) \in events' \ events
  <2> SUFFICES ASSUME NEW i \in 1..n PROVE Ev(i) \in events' /\ Ev(i) \notin events
    OBVIOUS
  <2>1. Ev(i).sequence = clock + i /\ i >= 1 /\ i \in Nat
    BY <1>7, <1>2
  <2>2. Ev(i) \notin events
    BY <2>1, <1>8, <1>3
  <2>. QED BY <1>4, <2>2
<1>10. records' \in Tables
  <2>1. records' = [r \in Requests |-> IF r \in Range(order) THEN new[r] ELSE records[r]]
    BY DEF Commit
  <2>2. \A r \in Requests : (IF r \in Range(order) THEN new[r] ELSE records[r]) \in Rows \cup {NoRow}
    BY <1>6
  <2>. QED BY <2>1, <2>2 DEF Tables
<1>11. LogInv'
  <2>1. \A e \in events' : e \in Events /\ e.sequence <= clock'
    BY <1>2, <1>3, <1>4, <1>7, <1>8
  <2>. QED BY <1>3, <1>2, <1>10, <2>1 DEF LogInv, LogTypeOK
<1>12. clock' > clock /\ events \subseteq events'
  BY <1>2, <1>3, <1>4
<1>13. \A e \in events' \ events : e.sequence > clock
  BY <1>4, <1>7
<1>14. ASSUME NEW s \in Sessions, Content(records', s) # Content(records, s)
       PROVE  \E e \in events' \ events : Concerns(e, s)
  <2>1. PICK r \in Requests :
          \/ /\ <<r, records[r].body>> \in Content(records, s)
             /\ <<r, records[r].body>> \notin Content(records', s)
          \/ /\ <<r, records'[r].body>> \in Content(records', s)
             /\ <<r, records'[r].body>> \notin Content(records, s)
    BY <1>14 DEF Content
  <2>2. records[r] # records'[r]
    BY <2>1 DEF Content
  <2>3. PICK i \in 1..n : order[i] = r /\ records'[r] = new[r]
    <3>1. r \in Range(order) /\ records'[r] = new[r]
      BY <2>2 DEF Commit
    <3>. QED BY <3>1, <1>2 DEF Range
  <2>4. \/ records[r] # NoRow /\ records[r].session = s
        \/ new[r] # NoRow /\ new[r].session = s
    BY <2>1, <2>3 DEF Content
  <2>5. TriggerSession(records[r], new[r]) = s \/ TriggerPrevious(records[r], new[r]) = s
    BY <2>4 DEF TriggerSession, TriggerPrevious
  <2>6. Concerns(Ev(i), s)
    BY <2>3, <2>5 DEF Concerns
  <2>. QED BY <1>9, <2>6
<1>. QED BY <1>11, <1>12, <1>13, <1>14 DEF LogStep

\* Each writer's transaction is a LogStep.
LEMMA WriteLogs ==
  ASSUME LogInv, WriteRows
  PROVE  LogStep
<1>2. ASSUME NEW order \in Orders, NEW new \in [Range(order) -> Rows], Commit(order, new)
      PROVE  LogStep
  <2>1. \A r \in Range(order) : new[r] # NoRow
    <3>1. -1 \notin Sessions
      BY SessionsAssumption
    <3>. QED BY <3>1 DEF Rows, NoRow
  <2>2. new \in [Range(order) -> Rows \cup {NoRow}]
    OBVIOUS
  <2>. QED BY <1>2, <2>1, <2>2, CommitLogs
<1>3. CASE PutBatch
  BY <1>2, <1>3 DEF PutBatch
<1>4. CASE UpdateRows
  BY <1>2, <1>4 DEF UpdateRows
<1>5. CASE RepairCanonicalSessions
  BY <1>2, <1>5 DEF RepairCanonicalSessions
<1>6. CASE OperatorDelete
  <2>1. PICK order \in Orders :
          /\ \A r \in Range(order) : Stored(r)
          /\ Commit(order, [r \in Range(order) |-> NoRow])
    BY <1>6 DEF OperatorDelete
  <2>2. [r \in Range(order) |-> NoRow] \in [Range(order) -> Rows \cup {NoRow}]
    OBVIOUS
  <2>. QED BY <2>1, <2>2, CommitLogs
<1>. QED BY <1>3, <1>4, <1>5, <1>6 DEF WriteRows

-----------------------------------------------------------------------------
\* A session that no new event names keeps its fence and its content; one that
\* a new event names gets a fence above the old clock.
LEMMA StepFence ==
  ASSUME LogStep, NEW s \in Sessions
  PROVE  \/ SessionFence(s)' > clock /\ SessionFence(s)' \in Nat
         \/ /\ SessionFence(s)' = SessionFence(s)
            /\ Content(records', s) = Content(records, s)
<1>1. CASE \E e \in events' \ events : Concerns(e, s)
  <2>1. PICK e \in events' \ events : Concerns(e, s)
    BY <1>1
  <2>2. SessionFence(s)' \in 0..clock' /\ e.sequence <= SessionFence(s)'
    <3>1. LogInv'
      BY DEF LogStep
    <3>2. clock' \in Nat /\ \A x \in events' : x.sequence \in 0..clock'
      BY <3>1 DEF LogInv, LogTypeOK, Events
    <3>3. SessionFence(s)' = IF Named(events', s) = {} THEN 0 ELSE Max(Named(events', s))
      BY DEF SessionFence, SequencesOf, Named, Concerns
    <3>4. SessionFence(s)' \in 0..clock' /\ \A x \in events' : Concerns(x, s) => x.sequence <= SessionFence(s)'
      BY <3>2, <3>3, FenceOfLog
    <3>. QED BY <2>1, <3>4
  <2>3. e.sequence > clock /\ e.sequence \in Nat /\ clock \in Nat /\ clock' \in Nat
    BY <2>1 DEF LogStep, LogInv, LogTypeOK, Events
  <2>. QED BY <2>2, <2>3
<1>2. CASE ~ \E e \in events' \ events : Concerns(e, s)
  <2>1. {x \in events' : Concerns(x, s)} = {x \in events : Concerns(x, s)}
    BY <1>2 DEF LogStep
  <2>2. SequencesOf(s)' = SequencesOf(s)
    BY <2>1 DEF SequencesOf, Concerns
  <2>3. SessionFence(s)' = SessionFence(s)
    BY <2>2 DEF SessionFence
  <2>. QED BY <1>2, <2>3 DEF LogStep
<1>. QED BY <1>1, <1>2

\* A session that counts as unchanged after a transaction, with respect to an
\* older fence, was unchanged before it and keeps its content.
LEMMA StepChanged ==
  ASSUME LogStep, NEW s \in Sessions, NEW after \in Nat, after <= clock,
         s \notin Changed(after, clock)'
  PROVE  s \notin Changed(after, clock) /\ Content(records', s) = Content(records, s)
<1>1. /\ clock \in Nat /\ clock' \in Nat /\ clock' > clock /\ events \subseteq events'
      /\ \A e \in events' : e.sequence \in Nat /\ e.sequence <= clock'
      /\ \A e \in events' \ events : e.sequence > clock
  BY DEF LogStep, LogInv, LogTypeOK, Events
<1>2. \A e \in events' : e.sequence > after => ~Concerns(e, s)
  BY <1>1 DEF Changed, Concerns
<1>3. \A e \in events' \ events : ~Concerns(e, s)
  BY <1>1, <1>2
<1>4. s \notin Changed(after, clock)
  BY <1>1, <1>2 DEF Changed, Concerns
<1>. QED BY <1>3, <1>4 DEF LogStep

-----------------------------------------------------------------------------
(* The protocol. *)

\* No fence of a stored digest, a checkpoint or a snapshot is in the future.
FencesOrdered ==
    /\ \A s \in Sessions : digests[s].fence <= clock
    /\ reading # NotRead => reading.fence <= clock
    /\ checkpoint <= clock
    /\ snap # NoSnapshot => checkpoint <= snap.fence /\ snap.fence <= clock

\* What the digest worker has read is still right if the session's fence has
\* not moved since.
ReadSound ==
    reading # NotRead =>
        /\ batch # <<>>
        /\ SessionFence(Head(batch)) = reading.fence =>
              reading.content = Content(records, Head(batch))

\* A session that no event after the snapshot's fence names still is what the
\* snapshot saw.
ViewCurrent ==
    snap # NoSnapshot =>
        \A s \in Sessions \ Changed(snap.fence, clock) :
            Content(snap.view, s) = Content(records, s)

\* While the importer works on a snapshot, every session the snapshot does not
\* list is already right in its copy.
RestIsCopied ==
    attempting =>
        /\ snap # NoSnapshot
        /\ \A s \in Sessions \ DOMAIN snap.summaries :
              Content(snap.view, s) = IF snap.full THEN {} ELSE target[s]

\* The inductive invariant.
IndInv ==
    /\ TypeOK
    /\ LogInv
    /\ FencesOrdered
    /\ DigestSound
    /\ ReadSound
    /\ SummariesMatchView
    /\ ViewCurrent
    /\ RestIsCopied
    /\ CopyCurrent

-----------------------------------------------------------------------------
\* The content of a session is a set of request and body pairs.
LEMMA ContentType ==
  ASSUME NEW t \in Tables, NEW s
  PROVE  Content(t, s) \in AllContents
<1>1. \A q \in Requests : t[q] # NoRow => t[q].body \in Bodies
  BY DEF Tables, Rows
<1>. QED BY <1>1 DEF Content, AllContents

\* Sequences of the elements of a set of sessions.
LEMMA OrderingsType ==
  ASSUME NEW S \in SUBSET Sessions, NEW f \in Orderings(S)
  PROVE  f \in Seq(Sessions)
<1>1. Cardinality(S) \in Nat
  BY SessionsAssumption, FS_Subset, FS_CardinalityType
<1>2. f \in [1..Cardinality(S) -> Sessions]
  BY DEF Orderings
<1>. QED BY <1>1, <1>2

\* A freshly opened archive satisfies the inductive invariant.
LEMMA InitInd == Init => IndInv
<1> SUFFICES ASSUME Init PROVE IndInv
  OBVIOUS
<1>0. /\ records \in Tables /\ events = {} /\ tombstoneSafeAfter = clock /\ mode \in Modes
      /\ digests = [s \in Sessions |-> NoDigest]
      /\ digestQueue = {} /\ batch = <<>> /\ reading = NotRead
      /\ snap = NoSnapshot /\ attempting = FALSE /\ fetched = {}
      /\ checkpoint \in 0..clock /\ faults = 0
      /\ target \in IF checkpoint = clock THEN {View(records)} ELSE OlderCopies
  BY DEF Init, LogInit
<1>1. clock \in Nat
  <2>1. {r \in Requests : Stored(r)} \subseteq Requests
    OBVIOUS
  <2>. QED BY <2>1, RequestsAssumption, FS_Subset, FS_CardinalityType DEF Init, LogInit
<1>2. LogInv
  BY <1>0, <1>1 DEF LogInv, LogTypeOK
<1>3. \A s \in Sessions : Content(records, s) \in AllContents
  BY <1>0, ContentType
<1>4. target \in [Sessions -> AllContents]
  BY <1>0, <1>3, SnapshotAssumption DEF View
<1>5. TypeOK
  <2>1. batch \in Seq(Sessions) /\ faults \in Nat /\ checkpoint \in Nat
    BY <1>0, <1>1
  <2>3. attempting \in BOOLEAN
    BY <1>0
  <2>2. digests \in [Sessions -> Digests \cup {NoDigest}]
    BY <1>0
  <2>. QED BY <1>0, <1>1, <1>2, <1>4, <2>1, <2>2, <2>3 DEF TypeOK, LogInv
<1>6. \A s \in Sessions : SessionFence(s) = 0
  BY <1>0 DEF SessionFence, SequencesOf
<1>7. FencesOrdered
  <2>1. \A s \in Sessions : digests[s].fence = -1
    BY <1>0 DEF NoDigest
  <2>. QED BY <2>1, <1>0, <1>1 DEF FencesOrdered
<1>8. DigestSound
  BY <1>0, <1>6 DEF DigestSound, NoDigest
<1>9. ReadSound /\ SummariesMatchView /\ ViewCurrent /\ RestIsCopied
  BY <1>0 DEF ReadSound, SummariesMatchView, ViewCurrent, RestIsCopied
<1>10. CopyCurrent
  <2>1. checkpoint >= tombstoneSafeAfter => checkpoint = clock
    BY <1>0, <1>1
  <2>. QED BY <2>1, <1>0 DEF CopyCurrent, View
<1>. QED BY <1>2, <1>5, <1>7, <1>8, <1>9, <1>10 DEF IndInv

-----------------------------------------------------------------------------
\* A writer's transaction keeps the invariant.
LEMMA WriteInd == IndInv /\ Write => IndInv'
<1> SUFFICES ASSUME IndInv, Write PROVE IndInv'
  OBVIOUS
<1>1. LogStep
  BY WriteLogs DEF IndInv, Write
<1>2. UNCHANGED <<mode, tombstoneSafeAfter, digests, digestQueue, batch, reading,
                  snap, attempting, fetched, target, checkpoint, faults>>
  BY DEF Write, workVars, snapVars, copyVars
<1>3. LogInv'
  BY <1>1 DEF LogStep
<1>4. TypeOK'
  BY <1>2, <1>3 DEF IndInv, TypeOK, LogInv
<1>5. clock \in Nat /\ clock' \in Nat /\ clock' > clock
  BY <1>1 DEF LogStep, LogInv, LogTypeOK
<1>6. /\ \A s \in Sessions : digests[s].fence \in Int
      /\ reading # NotRead => reading.fence \in Nat
      /\ snap # NoSnapshot => snap.fence \in Nat
      /\ checkpoint \in Nat
  BY DEF IndInv, TypeOK, Digests, NoDigest, Reads, Snapshots
<1>7. FencesOrdered'
  BY <1>2, <1>5, <1>6 DEF IndInv, FencesOrdered
<1>8. ASSUME NEW s \in Sessions, NEW f \in Int, f <= clock, SessionFence(s)' = f
      PROVE  SessionFence(s) = f /\ Content(records', s) = Content(records, s)
  <2>1. ~(SessionFence(s)' > clock)
    BY <1>8, <1>5
  <2>. QED BY <2>1, <1>1, <1>8, StepFence
<1>9. DigestSound'
  <2> SUFFICES ASSUME NEW s \in Sessions, digests[s].fence = SessionFence(s)'
               PROVE  digests[s].content = Content(records', s)
    BY <1>2 DEF DigestSound
  <2>1. SessionFence(s) = digests[s].fence /\ Content(records', s) = Content(records, s)
    BY <1>6, <1>8 DEF IndInv, FencesOrdered
  <2>. QED BY <2>1 DEF IndInv, DigestSound
<1>10. ReadSound'
  <2>1. CASE reading = NotRead
    BY <1>2, <2>1 DEF ReadSound
  <2>2. CASE reading # NotRead
    <3>1. PICK h \in Sessions : h = Head(batch)
      BY <2>2 DEF IndInv, ReadSound, TypeOK
    <3>2. reading.fence \in Nat /\ reading.fence <= clock
      BY <1>6, <2>2 DEF IndInv, FencesOrdered
    <3>3. SessionFence(h)' = reading.fence =>
             SessionFence(h) = reading.fence /\ Content(records', h) = Content(records, h)
      BY <3>2, <1>8
    <3>4. SessionFence(h)' = reading.fence => reading.content = Content(records', h)
      BY <2>2, <3>1, <3>3 DEF IndInv, ReadSound
    <3>5. SessionFence(Head(batch))' = SessionFence(h)'
      BY <1>2, <3>1 DEF SessionFence, SequencesOf, Concerns
    <3>. QED BY <1>2, <2>2, <3>1, <3>4, <3>5 DEF IndInv, ReadSound
  <2>. QED BY <2>1, <2>2
<1>11. SummariesMatchView' /\ RestIsCopied'
  BY <1>2 DEF IndInv, SummariesMatchView, RestIsCopied, Content
<1>12. ASSUME NEW s \in Sessions, NEW f \in Nat, f <= clock, s \notin Changed(f, clock)'
       PROVE  s \notin Changed(f, clock) /\ Content(records', s) = Content(records, s)
  BY <1>1, <1>12, StepChanged
<1>13. ViewCurrent'
  <2>1. CASE snap = NoSnapshot
    BY <1>2, <2>1 DEF ViewCurrent
  <2>2. CASE snap # NoSnapshot
    <3>1. PICK f \in Nat : f = snap.fence /\ f <= clock
      BY <1>6, <2>2 DEF IndInv, FencesOrdered
    <3>2. Changed(snap.fence, clock)' = Changed(f, clock)'
      BY <1>2, <3>1 DEF Changed
    <3>3. \A s \in Sessions \ Changed(f, clock)' : Content(snap.view, s) = Content(records', s)
      BY <1>12, <2>2, <3>1 DEF IndInv, ViewCurrent
    <3>. QED BY <1>2, <3>2, <3>3 DEF ViewCurrent
  <2>. QED BY <2>1, <2>2
<1>14. CopyCurrent'
  <2>1. PICK f \in Nat : f = checkpoint /\ f <= clock
    BY <1>6 DEF IndInv, FencesOrdered
  <2>2. Changed(checkpoint, clock)' = Changed(f, clock)'
    BY <1>2, <2>1 DEF Changed
  <2>3. checkpoint >= tombstoneSafeAfter =>
           \A s \in Sessions \ Changed(f, clock)' : target[s] = Content(records', s)
    BY <1>12, <2>1 DEF IndInv, CopyCurrent
  <2>. QED BY <1>2, <2>2, <2>3 DEF CopyCurrent
<1>. QED BY <1>3, <1>4, <1>7, <1>9, <1>10, <1>11, <1>13, <1>14 DEF IndInv

-----------------------------------------------------------------------------
\* Steps that leave the log alone keep every fence.
LEMMA Unlogged ==
  ASSUME LogInv, UNCHANGED logVars
  PROVE  /\ LogInv' /\ LogTypeOK'
         /\ \A s \in Sessions : SessionFence(s)' = SessionFence(s)
<1>1. UNCHANGED <<records, clock, events>>
  BY DEF logVars
<1>. QED BY <1>1 DEF LogInv, LogTypeOK, SessionFence, SequencesOf, Concerns

\* Steps of the digest worker leave the snapshot and the copy alone.
LEMMA CopyPartKept ==
  ASSUME IndInv, UNCHANGED <<logVars, tombstoneSafeAfter, snap, attempting, target, checkpoint>>
  PROVE  SummariesMatchView' /\ ViewCurrent' /\ RestIsCopied' /\ CopyCurrent'
<1>1. UNCHANGED <<records, clock, events, tombstoneSafeAfter, snap, attempting, target, checkpoint>>
  BY DEF logVars
<1>2. Changed(checkpoint, clock)' = Changed(checkpoint, clock)
  BY <1>1 DEF Changed, Concerns
<1>3. Changed(snap.fence, clock)' = Changed(snap.fence, clock)
  BY <1>1 DEF Changed, Concerns
<1>4. SummariesMatchView' /\ RestIsCopied'
  BY <1>1 DEF IndInv, SummariesMatchView, RestIsCopied, Content
<1>5. ViewCurrent'
  BY <1>1, <1>3 DEF IndInv, ViewCurrent, Content
<1>6. CopyCurrent'
  BY <1>1, <1>2 DEF IndInv, CopyCurrent, Content
<1>. QED BY <1>4, <1>5, <1>6

\* Steps of the registry and of the importer leave the digests alone.
LEMMA DigestPartKept ==
  ASSUME IndInv, UNCHANGED <<logVars, digests, batch, reading>>
  PROVE  DigestSound' /\ ReadSound'
<1>1. UNCHANGED <<records, clock, events, digests, batch, reading>>
  BY DEF logVars
<1>2. SessionFence(Head(batch))' = SessionFence(Head(batch))
  BY <1>1 DEF SessionFence, SequencesOf, Concerns
<1>3. \A s \in Sessions : SessionFence(s)' = SessionFence(s)
  BY Unlogged DEF IndInv
<1>4. DigestSound'
  BY <1>1, <1>3 DEF IndInv, DigestSound, Content
<1>5. ReadSound'
  BY <1>1, <1>2 DEF IndInv, ReadSound, Content
<1>. QED BY <1>4, <1>5

\* queueSessionExportDigests adds only ids it is given.
LEMMA EnqueueType ==
  ASSUME NEW q \in SUBSET Sessions, NEW ids \in Seq(Sessions)
  PROVE  Enqueue(q, ids) \subseteq Sessions
<1>1. \A j \in DOMAIN ids : ids[j] \in Sessions
  OBVIOUS
<1>. QED BY <1>1, Zenon DEF Enqueue

\* The digest worker takes sessions to refresh, or gives them back.
LEMMA TakeInd ==
  ASSUME IndInv, TakeQueued \/ TakeStale \/ RefreshFail
  PROVE  IndInv'
<1>1. UNCHANGED <<logVars, mode, tombstoneSafeAfter, digests, snap, attempting, fetched, target, checkpoint>>
  BY DEF TakeQueued, TakeStale, RefreshFail, snapVars, copyVars
<1>2. SummariesMatchView' /\ ViewCurrent' /\ RestIsCopied' /\ CopyCurrent'
  BY <1>1, CopyPartKept
<1>3. LogInv' /\ LogTypeOK' /\ \A s \in Sessions : SessionFence(s)' = SessionFence(s)
  BY <1>1, Unlogged DEF IndInv
<1>4. DigestSound'
  BY <1>1, <1>3 DEF IndInv, DigestSound, Content, logVars
<1>5. reading' = NotRead
  <2>1. ASSUME batch = <<>> PROVE reading = NotRead
    BY <2>1 DEF IndInv, ReadSound
  <2>. QED BY <2>1 DEF TakeQueued, TakeStale, RefreshFail
<1>6. ReadSound' /\ FencesOrdered'
  BY <1>1, <1>5 DEF IndInv, ReadSound, FencesOrdered, logVars
<1>7. batch' \in Seq(Sessions)
  <2>1. CASE TakeQueued
    BY <2>1, OrderingsType DEF TakeQueued, IndInv, TypeOK
  <2>2. CASE TakeStale
    BY <2>2, OrderingsType DEF TakeStale
  <2>3. CASE RefreshFail
    BY <2>3 DEF RefreshFail
  <2>. QED BY <2>1, <2>2, <2>3
<1>8. digestQueue' \subseteq Sessions /\ faults' \in Nat
  <2>1. digestQueue \in SUBSET Sessions /\ batch \in Seq(Sessions) /\ faults \in Nat
    BY DEF IndInv, TypeOK
  <2>2. Enqueue(digestQueue, batch) \subseteq Sessions
    BY <2>1, EnqueueType
  <2>. QED BY <2>1, <2>2 DEF TakeQueued, TakeStale, RefreshFail
<1>9. TypeOK'
  BY <1>1, <1>3, <1>5, <1>7, <1>8 DEF IndInv, TypeOK
<1>. QED BY <1>2, <1>3, <1>4, <1>6, <1>9 DEF IndInv

\* The worker's read transaction sees one state of the log and of the rows.
LEMMA RefreshReadInd ==
  ASSUME IndInv, RefreshRead
  PROVE  IndInv'
<1>1. UNCHANGED <<logVars, mode, tombstoneSafeAfter, digests, digestQueue, batch, snap, attempting, fetched, target, checkpoint, faults>>
  BY DEF RefreshRead, snapVars, copyVars
<1>2. SummariesMatchView' /\ ViewCurrent' /\ RestIsCopied' /\ CopyCurrent'
  BY <1>1, CopyPartKept
<1>3. LogInv' /\ LogTypeOK' /\ \A s \in Sessions : SessionFence(s)' = SessionFence(s)
  BY <1>1, Unlogged DEF IndInv
<1>4. DigestSound'
  BY <1>1, <1>3 DEF IndInv, DigestSound, Content, logVars
<1>5. PICK h \in Sessions : h = Head(batch) /\ batch # <<>>
  BY DEF IndInv, TypeOK, RefreshRead
<1>6. reading' = [fence |-> SessionFence(h), content |-> Content(records, h)]
  BY <1>5 DEF RefreshRead
<1>7. SessionFence(h) \in 0..clock /\ clock \in Nat /\ Content(records, h) \in AllContents
  BY FenceBound, ContentType DEF IndInv, LogInv, LogTypeOK
<1>8. SessionFence(Head(batch))' = SessionFence(h)
  BY <1>1, <1>5 DEF SessionFence, SequencesOf, Concerns, logVars
<1>9. ReadSound'
  BY <1>1, <1>5, <1>6, <1>8 DEF ReadSound, Content, logVars
<1>10. FencesOrdered'
  BY <1>1, <1>6, <1>7 DEF IndInv, FencesOrdered, logVars
<1>11. reading' \in Reads
  BY <1>6, <1>7 DEF Reads
<1>12. TypeOK'
  BY <1>1, <1>3, <1>11 DEF IndInv, TypeOK
<1>. QED BY <1>2, <1>3, <1>4, <1>9, <1>10, <1>12 DEF IndInv

\* The conditional write stores what was read only while it is still right.
LEMMA RefreshWriteInd ==
  ASSUME IndInv, RefreshSave \/ RefreshDrop
  PROVE  IndInv'
<1>1. UNCHANGED <<logVars, mode, tombstoneSafeAfter, digestQueue, snap, attempting, fetched, target, checkpoint, faults>>
  BY DEF RefreshSave, RefreshDrop, snapVars, copyVars
<1>2. SummariesMatchView' /\ ViewCurrent' /\ RestIsCopied' /\ CopyCurrent'
  BY <1>1, CopyPartKept
<1>3. LogInv' /\ LogTypeOK' /\ \A s \in Sessions : SessionFence(s)' = SessionFence(s)
  BY <1>1, Unlogged DEF IndInv
<1>4. reading # NotRead /\ reading' = NotRead /\ batch' = Tail(batch)
  BY DEF RefreshSave, RefreshDrop
<1>5. PICK h \in Sessions : h = Head(batch)
  BY <1>4 DEF IndInv, TypeOK, ReadSound
<1>6. \/ digests' = digests
      \/ digests' = [digests EXCEPT ![h] = NoDigest]
      \/ digests' = [digests EXCEPT ![h] = reading] /\ SessionFence(h) = reading.fence
  BY <1>5 DEF RefreshSave, RefreshDrop
<1>7. /\ digests \in [Sessions -> Digests \cup {NoDigest}]
      /\ reading \in Reads /\ reading.fence \in Nat /\ reading.fence <= clock /\ clock \in Nat
  BY <1>4 DEF IndInv, TypeOK, FencesOrdered, LogTypeOK, Reads
<1>8. ASSUME NEW s \in Sessions
      PROVE  /\ digests'[s] \in Digests \cup {NoDigest}
             /\ digests'[s].fence <= clock
             /\ digests'[s].fence = SessionFence(s) => digests'[s].content = Content(records, s)
  <2>0. SessionFence(s) \in Nat
    BY FenceBound DEF IndInv, LogInv, LogTypeOK
  <2>1. CASE digests'[s] = digests[s]
    BY <1>7, <2>1 DEF IndInv, FencesOrdered, DigestSound
  <2>2. CASE digests'[s] = NoDigest
    BY <1>7, <2>0, <2>2 DEF NoDigest
  <2>3. CASE digests'[s] = reading /\ s = h /\ SessionFence(h) = reading.fence
    <3>1. reading.content = Content(records, h)
      BY <1>4, <1>5, <2>3 DEF IndInv, ReadSound
    <3>. QED BY <1>7, <2>3, <3>1 DEF Reads, Digests
  <2>. QED BY <1>6, <1>7, <2>1, <2>2, <2>3
<1>9. DOMAIN digests' = Sessions /\ digests' = [s \in Sessions |-> digests'[s]]
  BY <1>6, <1>7
<1>10. digests' \in [Sessions -> Digests \cup {NoDigest}]
  BY <1>8, <1>9
<1>11. DigestSound'
  BY <1>1, <1>3, <1>8 DEF DigestSound, Content, logVars
<1>12. FencesOrdered'
  BY <1>1, <1>4, <1>8 DEF IndInv, FencesOrdered, logVars
<1>13. ReadSound'
  BY <1>4 DEF ReadSound
<1>14. batch' \in Seq(Sessions)
  BY <1>4 DEF IndInv, TypeOK, ReadSound
<1>15. TypeOK'
  BY <1>1, <1>3, <1>4, <1>10, <1>14 DEF IndInv, TypeOK
<1>. QED BY <1>2, <1>3, <1>11, <1>12, <1>13, <1>15 DEF IndInv

-----------------------------------------------------------------------------
\* A snapshot request, with a prior fence or without, keeps the invariant: what
\* it lists is what the rows of its own transaction are, and what a delta does
\* not list has not changed since the importer's checkpoint.
LEMMA BeginInd ==
  ASSUME IndInv, NEW selected \in SUBSET Sessions, NEW full \in BOOLEAN,
         Begin(selected, full),
         \A s \in Sessions \ selected :
             Content(records, s) = IF full THEN {} ELSE target[s]
  PROVE  IndInv'
<1>1. /\ UNCHANGED <<logVars, mode, tombstoneSafeAfter, digests, batch, reading, target, checkpoint, faults>>
      /\ snap = NoSnapshot
  BY DEF Begin, SnapshotNotReady, SnapshotOpened, copyVars, workVars
<1>2. LogInv' /\ LogTypeOK' /\ \A s \in Sessions : SessionFence(s)' = SessionFence(s)
  BY <1>1, Unlogged DEF IndInv
<1>3. DigestSound' /\ ReadSound'
  BY <1>1, DigestPartKept
<1>4. UNCHANGED <<records, clock, events>> /\ clock \in Nat /\ records \in Tables
  BY <1>1 DEF logVars, IndInv, LogInv, LogTypeOK
<1>5. Changed(checkpoint, clock)' = Changed(checkpoint, clock)
  BY <1>1, <1>4 DEF Changed, Concerns
<1>6. CopyCurrent'
  BY <1>1, <1>4, <1>5 DEF IndInv, CopyCurrent, Content
<1>7. CASE SnapshotNotReady(selected)
  <2>1. PICK ids \in Orderings(Missing(selected)) : digestQueue' = Enqueue(digestQueue, ids)
    BY <1>7 DEF SnapshotNotReady
  <2>2. Missing(selected) \in SUBSET Sessions
    BY DEF Missing
  <2>3. ids \in Seq(Sessions)
    BY <2>1, <2>2, OrderingsType
  <2>4. digestQueue' \subseteq Sessions
    BY <2>1, <2>3, EnqueueType DEF IndInv, TypeOK
  <2>5. UNCHANGED <<snap, attempting, fetched>>
    BY <1>7 DEF SnapshotNotReady, snapVars
  <2>6. SummariesMatchView' /\ ViewCurrent' /\ RestIsCopied' /\ CopyCurrent'
    BY <1>1, <2>5, CopyPartKept
  <2>7. FencesOrdered'
    BY <1>1, <1>4, <2>5 DEF IndInv, FencesOrdered
  <2>8. TypeOK'
    BY <1>1, <1>2, <2>4, <2>5 DEF IndInv, TypeOK
  <2>. QED BY <1>2, <1>3, <2>6, <2>7, <2>8 DEF IndInv
<1>8. CASE SnapshotOpened(selected, full)
  <2> DEFINE sums == [s \in selected |-> Summary(s)]
  <2>1. /\ snap' = [fence |-> clock, full |-> full, view |-> records, summaries |-> sums]
        /\ attempting' = TRUE /\ fetched' = {} /\ digestQueue' = digestQueue
        /\ Missing(selected) = {}
    BY <1>8 DEF SnapshotOpened, workVars
  <2>2. /\ snap'.fence = clock /\ snap'.full = full /\ snap'.view = records
        /\ snap'.summaries = sums /\ DOMAIN sums = selected
    BY <2>1
  <2>3. ASSUME NEW s \in selected
        PROVE  /\ sums[s] \in Summaries
               /\ sums[s].digest = Content(records, s)
               /\ sums[s].deleted <=> Content(records, s) = {}
    <3>0. s \in Sessions
      OBVIOUS
    <3>1. sums[s] = Summary(s)
      OBVIOUS
    <3> HIDE DEF sums
    <3>2. s \in Live <=> Content(records, s) # {}
      BY <3>0 DEF Live
    <3>3. CASE s \in Live
      <4>1. digests[s].fence = SessionFence(s)
        BY <2>1, <3>3 DEF Missing
      <4>2. digests[s].content = Content(records, s)
        BY <3>0, <4>1 DEF IndInv, DigestSound
      <4>3. sums[s] = [deleted |-> FALSE, digest |-> Content(records, s)]
        BY <3>1, <3>3, <4>2, Zenon DEF Summary
      <4>4. Content(records, s) \in AllContents
        BY <1>4, ContentType
      <4>5. sums[s] \in Summaries
        BY <4>3, <4>4 DEF Summaries
      <4>6. sums[s].digest = Content(records, s) /\ ~sums[s].deleted
        BY <4>3
      <4>. QED BY <3>2, <3>3, <4>5, <4>6
    <3>4. CASE s \notin Live
      <4>1. sums[s] = [deleted |-> TRUE, digest |-> {}]
        BY <3>1, <3>4, Zenon DEF Summary
      <4>2. {} \in AllContents
        BY DEF AllContents
      <4>3. sums[s] \in Summaries
        BY <4>1, <4>2 DEF Summaries
      <4>4. sums[s].digest = {} /\ sums[s].deleted
        BY <4>1
      <4>. QED BY <3>2, <3>4, <4>3, <4>4
    <3>. QED BY <3>3, <3>4
  <2> HIDE DEF sums
  <2>4. sums \in [selected -> Summaries]
    <3>1. sums = [s \in selected |-> sums[s]]
      BY DEF sums
    <3>. QED BY <2>3, <3>1
  <2>5. snap' \in Snapshots
    <3>1. sums \in UNION {[S -> Summaries] : S \in SUBSET Sessions}
      BY <2>4
    <3>. QED BY <1>4, <2>1, <3>1 DEF Snapshots
  <2>6. TypeOK'
    <3>1. attempting' \in BOOLEAN
      BY <2>1
    <3>. QED BY <1>1, <1>2, <2>1, <2>5, <3>1 DEF IndInv, TypeOK
  <2>7. FencesOrdered'
    BY <1>1, <1>4, <2>2 DEF IndInv, FencesOrdered
  <2>8. SummariesMatchView'
    BY <2>2, <2>3 DEF SummariesMatchView, Content
  <2>9. ViewCurrent'
    BY <1>4, <2>2 DEF ViewCurrent, Content
  <2>10. snap' # NoSnapshot
    BY <1>4, <2>2 DEF NoSnapshot
  <2>11. RestIsCopied'
    BY <1>1, <2>2, <2>10 DEF RestIsCopied, Content
  <2>. QED BY <1>2, <1>3, <1>6, <2>6, <2>7, <2>8, <2>9, <2>11 DEF IndInv
<1>. QED BY <1>7, <1>8 DEF Begin

\* A delta snapshot selects every session that changed since the checkpoint.
LEMMA BeginDeltaInd ==
  ASSUME IndInv, BeginDelta
  PROVE  IndInv'
<1>1. PICK overlap \in SUBSET Sessions : Begin(SelectedDelta(checkpoint, overlap), FALSE)
  BY DEF BeginDelta
<1>2. SelectedDelta(checkpoint, overlap) \in SUBSET Sessions
  BY DEF SelectedDelta, Changed
<1>3. \A s \in Sessions \ SelectedDelta(checkpoint, overlap) : Content(records, s) = target[s]
  BY DEF IndInv, CopyCurrent, SelectedDelta, BeginDelta
<1>. QED BY <1>1, <1>2, <1>3, BeginInd

\* A full snapshot selects every session that has rows.
LEMMA BeginFullInd ==
  ASSUME IndInv, BeginFull
  PROVE  IndInv'
<1>1. Begin(SelectedFull, TRUE) /\ SelectedFull \in SUBSET Sessions
  BY DEF BeginFull, SelectedFull, Live
<1>2. \A s \in Sessions \ SelectedFull : Content(records, s) = {}
  BY DEF SelectedFull, Live
<1>. QED BY <1>1, <1>2, BeginInd

\* Downloads, expiries and restarts: the snapshot is read or given up.
LEMMA ExportInd ==
  ASSUME IndInv, Export
  PROVE  IndInv'
<1>1. UNCHANGED <<logVars, mode, tombstoneSafeAfter, digests, digestQueue, batch, reading, snap, attempting, target, checkpoint, faults>>
  BY DEF Export, workVars, copyVars
<1>2. LogInv' /\ LogTypeOK'
  BY <1>1, Unlogged DEF IndInv
<1>3. DigestSound' /\ ReadSound' /\ SummariesMatchView' /\ ViewCurrent' /\ RestIsCopied' /\ CopyCurrent'
  BY <1>1, DigestPartKept, CopyPartKept
<1>4. FencesOrdered'
  BY <1>1 DEF IndInv, FencesOrdered, logVars
<1>5. fetched' \subseteq Sessions
  <2>1. snap \in Snapshots
    BY DEF Export, IndInv, TypeOK, RestIsCopied
  <2>2. DOMAIN snap.summaries \subseteq Sessions
    BY <2>1 DEF Snapshots
  <2>. QED BY <2>2 DEF Export, IndInv, TypeOK
<1>6. TypeOK'
  BY <1>1, <1>2, <1>5 DEF IndInv, TypeOK
<1>. QED BY <1>2, <1>3, <1>4, <1>6 DEF IndInv

\* A snapshot that expires or is lost with the process takes nothing with it.
LEMMA CloseInd ==
  ASSUME IndInv, Expire \/ Restart
  PROVE  IndInv'
<1>1. /\ UNCHANGED <<logVars, tombstoneSafeAfter, digests, target, checkpoint>>
      /\ snap' = NoSnapshot /\ attempting' = FALSE /\ fetched' = {}
  BY DEF Expire, Restart, copyVars
<1>2. \/ UNCHANGED <<digestQueue, batch, reading>>
      \/ digestQueue' = {} /\ batch' = <<>> /\ reading' = NotRead
  BY DEF Expire, Restart, workVars
<1>3. faults' \in Nat /\ mode' \in Modes
  BY DEF Expire, Restart, IndInv, TypeOK
<1>4. LogInv' /\ LogTypeOK' /\ \A s \in Sessions : SessionFence(s)' = SessionFence(s)
  BY <1>1, Unlogged DEF IndInv
<1>5. UNCHANGED <<records, clock, events>>
  BY <1>1 DEF logVars
<1>6. DigestSound'
  BY <1>1, <1>4, <1>5 DEF IndInv, DigestSound, Content
<1>7. ReadSound'
  <2>1. CASE UNCHANGED <<digestQueue, batch, reading>>
    BY <1>1, <2>1, DigestPartKept
  <2>2. CASE reading' = NotRead
    BY <2>2 DEF ReadSound
  <2>. QED BY <1>2, <2>1, <2>2
<1>8. SummariesMatchView' /\ ViewCurrent' /\ RestIsCopied'
  BY <1>1 DEF SummariesMatchView, ViewCurrent, RestIsCopied
<1>9. CopyCurrent'
  <2>1. Changed(checkpoint, clock)' = Changed(checkpoint, clock)
    BY <1>1, <1>5 DEF Changed, Concerns
  <2>. QED BY <1>1, <1>5, <2>1 DEF IndInv, CopyCurrent, Content
<1>10. FencesOrdered'
  BY <1>1, <1>2, <1>5 DEF IndInv, FencesOrdered
<1>11. TypeOK'
  <2>1. attempting' \in BOOLEAN
    BY <1>1
  <2>2. batch' \in Seq(Sessions)
    <3>1. batch \in Seq(Sessions) /\ <<>> \in Seq(Sessions)
      BY DEF IndInv, TypeOK
    <3>. QED BY <1>2, <3>1
  <2>. QED BY <1>1, <1>2, <1>3, <1>4, <2>1, <2>2 DEF IndInv, TypeOK
<1>. QED BY <1>4, <1>6, <1>7, <1>8, <1>9, <1>10, <1>11 DEF IndInv

-----------------------------------------------------------------------------
\* Applying a snapshot leaves the importer with the snapshot's whole view.
LEMMA CommitIsExact ==
  ASSUME IndInv, ImporterCommit
  PROVE  target' = View(snap.view) /\ snap \in Snapshots
<1>1. attempting /\ snap # NoSnapshot /\ snap \in Snapshots
  BY DEF ImporterCommit, IndInv, RestIsCopied, TypeOK
<1>2. target' = [s \in Sessions |->
          IF s \in DOMAIN snap.summaries THEN Applied(s)
          ELSE IF snap.full THEN {} ELSE target[s]]
  BY DEF ImporterCommit
<1>3. \A s \in Sessions \cap DOMAIN snap.summaries : Applied(s) = Content(snap.view, s)
  BY <1>1 DEF Applied, IndInv, SummariesMatchView
<1>4. \A s \in Sessions \ DOMAIN snap.summaries :
         Content(snap.view, s) = IF snap.full THEN {} ELSE target[s]
  BY <1>1 DEF IndInv, RestIsCopied
<1>. QED BY <1>1, <1>2, <1>3, <1>4 DEF View

\* The importer's commit preserves the inductive invariant.
LEMMA ImporterCommitInd ==
  ASSUME IndInv, ImporterCommit
  PROVE  IndInv'
<1>1. /\ UNCHANGED <<logVars, mode, tombstoneSafeAfter, digests, digestQueue, batch, reading, snap, fetched, faults>>
      /\ attempting' = FALSE /\ checkpoint' = snap.fence
  BY DEF ImporterCommit, workVars
<1>2. LogInv' /\ LogTypeOK'
  BY <1>1, Unlogged DEF IndInv
<1>3. DigestSound' /\ ReadSound'
  BY <1>1, DigestPartKept
<1>4. UNCHANGED <<records, clock, events>>
  BY <1>1 DEF logVars
<1>5. target' = View(snap.view) /\ snap \in Snapshots /\ snap # NoSnapshot
  BY CommitIsExact DEF IndInv, RestIsCopied, ImporterCommit
<1>6. Changed(snap.fence, clock)' = Changed(snap.fence, clock)
  BY <1>1, <1>4 DEF Changed, Concerns
<1>7. Changed(checkpoint, clock)' = Changed(snap.fence, clock)
  BY <1>1, <1>4 DEF Changed, Concerns
<1>8. SummariesMatchView'
  BY <1>1 DEF IndInv, SummariesMatchView, Content
<1>9. ViewCurrent'
  BY <1>1, <1>4, <1>6 DEF IndInv, ViewCurrent, Content
<1>10. RestIsCopied'
  BY <1>1 DEF RestIsCopied
<1>11. CopyCurrent'
  BY <1>4, <1>5, <1>7 DEF IndInv, ViewCurrent, CopyCurrent, View, Content
<1>12. FencesOrdered'
  <2>1. snap.fence \in Nat /\ clock \in Nat /\ snap.fence <= clock
    BY <1>5 DEF IndInv, FencesOrdered, Snapshots, LogInv, LogTypeOK
  <2>. QED BY <1>1, <1>4, <2>1 DEF IndInv, FencesOrdered
<1>13. TypeOK'
  <2>1. attempting' \in BOOLEAN
    BY <1>1
  <2>2. checkpoint' \in Nat
    BY <1>1, <1>5 DEF Snapshots
  <2>3. target' \in [Sessions -> AllContents]
    BY <1>5, ContentType DEF Snapshots, View
  <2>. QED BY <1>1, <1>2, <2>1, <2>2, <2>3 DEF IndInv, TypeOK
<1>. QED BY <1>2, <1>3, <1>8, <1>9, <1>10, <1>11, <1>12, <1>13 DEF IndInv

-----------------------------------------------------------------------------
\* The state a stuttering step sees is the state that was there.
LEMMA StutterInd ==
  ASSUME IndInv, UNCHANGED vars
  PROVE  IndInv'
<1>1. UNCHANGED <<logVars, mode, tombstoneSafeAfter, digests, digestQueue, batch, reading,
                  snap, attempting, fetched, target, checkpoint, faults>>
  BY DEF vars, workVars, snapVars, copyVars
<1>2. LogInv' /\ LogTypeOK'
  BY <1>1, Unlogged DEF IndInv
<1>3. DigestSound' /\ ReadSound' /\ SummariesMatchView' /\ ViewCurrent' /\ RestIsCopied' /\ CopyCurrent'
  BY <1>1, DigestPartKept, CopyPartKept
<1>4. FencesOrdered'
  BY <1>1 DEF IndInv, FencesOrdered, logVars
<1>5. TypeOK'
  BY <1>1, <1>2 DEF IndInv, TypeOK
<1>. QED BY <1>2, <1>3, <1>4, <1>5 DEF IndInv

\* Every step preserves the inductive invariant.
LEMMA NextInd == IndInv /\ [Next]_vars => IndInv'
<1> SUFFICES ASSUME IndInv, [Next]_vars PROVE IndInv'
  OBVIOUS
<1>1. CASE Write
  BY <1>1, WriteInd
<1>2. CASE TakeQueued \/ TakeStale \/ RefreshFail
  BY <1>2, TakeInd
<1>3. CASE RefreshRead
  BY <1>3, RefreshReadInd
<1>4. CASE RefreshSave \/ RefreshDrop
  BY <1>4, RefreshWriteInd
<1>5. CASE BeginDelta
  BY <1>5, BeginDeltaInd
<1>6. CASE BeginFull
  BY <1>6, BeginFullInd
<1>7. CASE Export
  BY <1>7, ExportInd
<1>8. CASE Expire \/ Restart
  BY <1>8, CloseInd
<1>9. CASE ImporterCommit
  BY <1>9, ImporterCommitInd
<1>10. CASE UNCHANGED vars
  BY <1>10, StutterInd
<1>. QED BY <1>1, <1>2, <1>3, <1>4, <1>5, <1>6, <1>7, <1>8, <1>9, <1>10 DEF Next

\* The inductive invariant holds in every reachable state.
LEMMA AlwaysInd == Spec => []IndInv
<1>. QED BY InitInd, NextInd, PTL DEF Spec

\* Every variable of the protocol keeps its type.
THEOREM TypeCorrect == Spec => []TypeOK
<1>1. IndInv => TypeOK
  BY DEF IndInv
<1>. QED BY <1>1, AlwaysInd, PTL

\* A digest that carries a session's current fence is the digest of the
\* session's current rows (refreshSessionExportDigest and the triggers).
THEOREM DigestsAreSound == Spec => []DigestSound
<1>1. IndInv => DigestSound
  BY DEF IndInv
<1>. QED BY <1>1, AlwaysInd, PTL

\* A session download never fails with "digest mismatch", and a tombstone is
\* never listed for a session with rows (BeginStableSessionSnapshot).
THEOREM SnapshotsVerify == Spec => []SummariesMatchView
<1>1. IndInv => SummariesMatchView
  BY DEF IndInv
<1>. QED BY <1>1, AlwaysInd, PTL

\* Delta snapshots lose no change: what no event after the checkpoint names is
\* the same in the importer's copy and in the archive.
THEOREM NoChangeIsLost == Spec => []CopyCurrent
<1>1. IndInv => CopyCurrent
  BY DEF IndInv
<1>. QED BY <1>1, AlwaysInd, PTL

\* A change of a session's content always raises the session's fence above the
\* old clock (the triggers of OpenStore).
THEOREM TriggersLogChanges == Spec => ChangesAreLogged
<1> DEFINE Logged == \A s \in Sessions :
              Content(records', s) # Content(records, s) => SessionFence(s)' > clock
<1>1. IndInv /\ [Next]_vars => [Logged]_vars
  <2> SUFFICES ASSUME IndInv, Next PROVE Logged
    OBVIOUS
  <2>1. CASE Write
    <3>1. LogStep
      BY <2>1, WriteLogs DEF IndInv, Write
    <3>. QED BY <3>1, StepFence
  <2>2. CASE UNCHANGED logVars
    BY <2>2 DEF logVars, Content
  <2>3. Write \/ UNCHANGED logVars
    BY DEF Next, TakeQueued, TakeStale, RefreshRead, RefreshSave, RefreshDrop, RefreshFail,
           BeginDelta, BeginFull, Begin, Export, Expire, Restart, ImporterCommit
  <2>. QED BY <2>1, <2>2, <2>3
<1>. QED BY <1>1, AlwaysInd, PTL DEF Spec, ChangesAreLogged

-----------------------------------------------------------------------------
\* An initial state maps to an initial state of the abstract copy.
LEMMA InitReplica == Init => Replica!Init
<1> SUFFICES ASSUME Init PROVE Replica!Init
  OBVIOUS
<1>1. IndInv
  BY InitInd
<1>2. records \in Tables /\ clock \in Nat /\ target \in [Sessions -> AllContents] /\ checkpoint \in 0..clock
  BY <1>1 DEF IndInv, TypeOK, LogTypeOK, Init
<1>3. View(records) \in [Sessions -> AllContents]
  BY <1>2, ContentType DEF View
<1>4. snap = NoSnapshot
  BY DEF Init
<1>. QED BY <1>2, <1>3, <1>4 DEF Replica!Init, Replica!Views, Replica!NotFrozen

\* A step maps to a step of the abstract copy or leaves it unchanged.
LEMMA StepReplica == IndInv /\ IndInv' /\ [Next]_vars => [Replica!Next]_(Replica!vars)
<1> SUFFICES ASSUME IndInv, IndInv', [Next]_vars PROVE [Replica!Next]_(Replica!vars)
  OBVIOUS
<1> DEFINE frozen == IF snap = NoSnapshot THEN [fence |-> -1]
                     ELSE [fence |-> snap.fence, view |-> View(snap.view)]
<1> USE DEF Replica!Next, Replica!vars, Replica!Write, Replica!Freeze, Replica!Discard,
            Replica!Apply, Replica!NotFrozen, Replica!Views
<1>1. CASE Write
  <2>1. LogStep
    BY <1>1, WriteLogs DEF IndInv, Write
  <2>2. clock \in Nat /\ clock' \in Nat /\ clock' > clock /\ records' \in Tables
    BY <2>1 DEF LogStep, LogInv, LogTypeOK
  <2>3. View(records') \in [Sessions -> AllContents] /\ View(records)' = View(records')
    BY <2>2, ContentType DEF View, Content
  <2>4. UNCHANGED <<snap, target, checkpoint>>
    BY <1>1 DEF Write, snapVars, copyVars
  <2>5. frozen' = frozen
    BY <2>4 DEF View, Content
  <2>. QED BY <2>2, <2>3, <2>4, <2>5
<1>2. CASE UNCHANGED <<logVars, snap, target, checkpoint>>
  <2>1. UNCHANGED <<View(records), clock, frozen, target, checkpoint>>
    BY <1>2 DEF logVars, View, Content
  <2>. QED BY <2>1
<1>3. CASE UNCHANGED <<logVars, target, checkpoint>> /\ snap' = NoSnapshot
  <2>1. UNCHANGED <<View(records), clock, target, checkpoint>> /\ frozen' = [fence |-> -1]
    BY <1>3 DEF logVars, View, Content
  <2>. QED BY <2>1
<1>4. CASE ImporterCommit
  <2>1. UNCHANGED <<View(records), clock, frozen>>
    BY <1>4 DEF ImporterCommit, logVars, View, Content
  <2>2. snap \in Snapshots /\ snap # NoSnapshot /\ target' = View(snap.view) /\ checkpoint' = snap.fence
    BY <1>4, CommitIsExact DEF ImporterCommit, IndInv, RestIsCopied
  <2>3. snap.fence \in Nat /\ checkpoint <= snap.fence
    BY <2>2 DEF Snapshots, IndInv, FencesOrdered
  <2>4. frozen.fence = snap.fence /\ frozen.view = View(snap.view) /\ frozen # [fence |-> -1]
    BY <2>2, <2>3
  <2>. QED BY <2>1, <2>2, <2>3, <2>4
<1>5. CASE BeginDelta \/ BeginFull
  <2>1. snap = NoSnapshot /\ UNCHANGED <<logVars, target, checkpoint>>
    BY <1>5 DEF BeginDelta, BeginFull, Begin, copyVars
  <2>2. snap' = snap \/ (snap'.fence = clock /\ snap'.view = records)
    BY <1>5 DEF BeginDelta, BeginFull, Begin, SnapshotNotReady, SnapshotOpened, snapVars
  <2>3. CASE snap' = snap
    BY <1>2, <2>1, <2>3
  <2>4. CASE snap'.fence = clock /\ snap'.view = records
    <3>1. clock \in Nat
      BY DEF IndInv, LogInv, LogTypeOK
    <3>2. snap' # NoSnapshot
      BY <2>4, <3>1 DEF NoSnapshot
    <3>3. frozen = [fence |-> -1]
      BY <2>1
    <3>4. frozen' = [fence |-> clock, view |-> View(records)]
      BY <2>4, <3>2 DEF View, Content
    <3>5. UNCHANGED <<View(records), clock, target, checkpoint>>
      BY <2>1 DEF logVars, View, Content
    <3>. QED BY <3>3, <3>4, <3>5
  <2>. QED BY <2>2, <2>3, <2>4
<1>6. CASE TakeQueued \/ TakeStale \/ RefreshRead \/ RefreshSave \/ RefreshDrop \/ RefreshFail \/ Export
  <2>1. UNCHANGED <<logVars, snap, target, checkpoint>>
    BY <1>6 DEF TakeQueued, TakeStale, RefreshRead, RefreshSave, RefreshDrop, RefreshFail,
                Export, snapVars, copyVars
  <2>. QED BY <1>2, <2>1
<1>7. CASE Expire \/ Restart
  <2>1. UNCHANGED <<logVars, target, checkpoint>> /\ snap' = NoSnapshot
    BY <1>7 DEF Expire, Restart, copyVars
  <2>. QED BY <1>3, <2>1
<1>8. CASE UNCHANGED vars
  <2>1. UNCHANGED <<logVars, snap, target, checkpoint>>
    BY <1>8 DEF vars, snapVars, copyVars
  <2>. QED BY <1>2, <2>1
<1>. QED BY <1>1, <1>4, <1>5, <1>6, <1>7, <1>8 DEF Next

\* The protocol with digests, events, deltas and tombstones implements the
\* abstract copy: every import leaves the importer with the whole archive as it
\* was at one value of the ingest fence, and checkpoints never go back.
THEOREM ProtocolImplementsReplica == Spec => ImplementsReplica
<1>1. Init => Replica!Init
  BY InitReplica
<1>2. IndInv /\ IndInv' /\ [Next]_vars => [Replica!Next]_(Replica!vars)
  BY StepReplica
<1>. QED BY <1>1, <1>2, AlwaysInd, PTL DEF Spec, ImplementsReplica, Replica!Spec
=============================================================================
