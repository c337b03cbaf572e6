--------------------------- MODULE BlobStoreProofs ---------------------------
(***************************************************************************)
(* BlobStore for every set of requests, payloads and blobs: no reference    *)
(* dangles, a marked row stays normalized, a collection deletes exactly the *)
(* garbage, and all of it implements BlobContract, which the exports rely   *)
(* on.  The invariant is inductive together with                            *)
(* OpenTransactionsAreFresh: what an open transaction has read is current   *)
(* until another one commits, and then SQLite refuses its write.            *)
(***************************************************************************)
EXTENDS BlobStore, TLAPS

BlobInv ==
    /\ TypeOK
    /\ NoDanglingReference
    /\ MarkedIsNormalized
    /\ OpenTransactionsAreFresh

\* What the rows reach, element by element.
LEMMA ReachableElements ==
  \A b : b \in Reachable <=> \E r \in Requests : refs[r] # NoPayload /\ b \in Parts[refs[r]]
BY Zenon DEF Reachable

\* A stored payload is already its own last event, and putPayload stores its blobs.
LEMMA StoredIsFixed ==
  ASSUME NEW p \in Refs
  PROVE  /\ Stored(p) \in Refs
         /\ Stored(Stored(p)) = Stored(p)
         /\ p # NoPayload => Stored(p) = Terminal[p]
         /\ p = NoPayload => Stored(p) = NoPayload
BY BlobsAssumption, PartsAssumption, Zenon DEF Stored, Refs

\* putPayload keeps the table's type and the rows' blobs, whichever row then
\* names the payload.
LEMMA PutKeepsReferences ==
  ASSUME BlobInv, NEW r \in Requests, NEW p \in Refs,
         PutPayload(p), refs' = [refs EXCEPT ![r] = Stored(p)]
  PROVE  /\ refs' \in [Requests -> Refs]
         /\ blobs' \subseteq Blobs
         /\ blobs \subseteq blobs'
         /\ NoDanglingReference'
         /\ \A q \in Requests : q # r => refs'[q] = refs[q]
         /\ refs'[r] = Stored(p)
<1>1. /\ refs \in [Requests -> Refs] /\ blobs \subseteq Blobs
      /\ NoDanglingReference
  BY DEF BlobInv, TypeOK
<1>2. Stored(p) \in Refs /\ (p # NoPayload => Stored(p) = Terminal[p]) /\ (p = NoPayload => Stored(p) = NoPayload)
  BY StoredIsFixed
<1>3. refs' \in [Requests -> Refs] /\ (\A q \in Requests : q # r => refs'[q] = refs[q]) /\ refs'[r] = Stored(p)
  BY <1>1, <1>2
<1>4. p # NoPayload => Terminal[p] \in Payloads /\ Parts[Terminal[p]] \subseteq Blobs
  BY BlobsAssumption, PartsAssumption DEF Refs
<1>5. blobs' = blobs \cup (IF p = NoPayload THEN {} ELSE Parts[Terminal[p]])
  BY DEF PutPayload
<1>6. blobs' \subseteq Blobs /\ blobs \subseteq blobs'
  BY <1>1, <1>4, <1>5
<1>7. ASSUME NEW b, b \in Reachable' PROVE b \in blobs'
  <2>1. PICK q \in Requests : refs'[q] # NoPayload /\ b \in Parts[refs'[q]]
    BY <1>7, Zenon DEF Reachable
  <2>2. CASE q = r
    BY <2>1, <2>2, <1>2, <1>3, <1>5
  <2>3. CASE q # r
    <3>1. b \in Reachable
      BY <2>1, <2>3, <1>3, ReachableElements
    <3>. QED BY <3>1, <1>1, <1>6 DEF NoDanglingReference
  <2>. QED BY <2>2, <2>3
<1>. QED BY <1>3, <1>6, <1>7 DEF NoDanglingReference

\* A write moves the commit counter, so every other open transaction is stale.
LEMMA CommitEndsOthers ==
  ASSUME BlobInv, Commit
  PROVE  /\ commits' \in 0..MaxCommits
         /\ UNCHANGED gc => \/ gc' = Idle
                            \/ gc'.at < commits'
         /\ UNCHANGED normalize => \/ normalize' = Idle
                                   \/ normalize'.at < commits'
<1>1. commits \in 0..MaxCommits /\ MaxCommits \in Nat /\ commits' = commits + 1 /\ commits < MaxCommits
  BY BlobsAssumption, PartsAssumption DEF BlobInv, TypeOK, Commit
<1>2. gc # Idle => gc.at \in Nat /\ gc.at <= commits
  BY DEF BlobInv, TypeOK, OpenTransactionsAreFresh
<1>3. normalize # Idle => normalize.at \in Nat /\ normalize.at <= commits
  BY DEF BlobInv, TypeOK, OpenTransactionsAreFresh, Tasks
<1>4. UNCHANGED gc => gc' = Idle \/ gc'.at < commits'
  BY <1>1, <1>2
<1>5. UNCHANGED normalize => normalize' = Idle \/ normalize'.at < commits'
  BY <1>1, <1>3
<1>. QED BY <1>1, <1>4, <1>5

\* A write that leaves the open transactions alone, or ends them, makes their
\* freshness hold emptily.
LEMMA CommitKeepsFreshness ==
  ASSUME BlobInv, Commit,
         gc' = gc \/ gc' = Idle,
         normalize' = normalize \/ normalize' = Idle
  PROVE  /\ OpenTransactionsAreFresh'
         /\ gc' \in [at : Nat, stale : SUBSET Blobs] \cup {Idle}
         /\ normalize' \in Tasks \cup {Idle}
         /\ commits' \in 0..MaxCommits
<1>1. /\ commits' \in 0..MaxCommits
      /\ gc' = Idle \/ gc'.at < commits'
      /\ normalize' = Idle \/ normalize'.at < commits'
  BY CommitEndsOthers
<1>2. /\ gc' \in [at : Nat, stale : SUBSET Blobs] \cup {Idle}
      /\ normalize' \in Tasks \cup {Idle}
  BY DEF BlobInv, TypeOK
<1>3. gc' # Idle => gc'.at \in Nat
  BY <1>2
<1>4. normalize' # Idle => normalize'.at \in Nat
  BY <1>2 DEF Tasks
<1>5. commits' \in Nat
  BY <1>1, BlobsAssumption, PartsAssumption
<1>. QED BY <1>1, <1>2, <1>3, <1>4, <1>5 DEF OpenTransactionsAreFresh

\* The first state of an archive of an earlier version satisfies the invariant.
LEMMA InitBlobInv == Init => BlobInv
<1> SUFFICES ASSUME Init PROVE BlobInv
  OBVIOUS
<1>1. /\ refs \in [Requests -> Refs] /\ legacy \in [Requests -> Refs \cup {Moved}] /\ sent \in [Requests -> Refs]
      /\ normalized = {} /\ commits = 0
      /\ gc = Idle /\ normalize = Idle /\ migrate = Idle
  BY DEF Init, Refs
<1>2. PICK ps \in SUBSET Payloads : blobs = Reachable \cup UNION {Parts[p] : p \in ps}
  BY Zenon DEF Init
<1>3. Reachable \subseteq Blobs
  BY <1>1, ReachableElements, BlobsAssumption, PartsAssumption DEF Refs
<1>4. UNION {Parts[p] : p \in ps} \subseteq Blobs
  BY BlobsAssumption, PartsAssumption
<1>5. TypeOK
  BY <1>1, <1>2, <1>3, <1>4, BlobsAssumption, PartsAssumption DEF TypeOK
<1>. QED BY <1>1, <1>2, <1>5 DEF BlobInv, NoDanglingReference, MarkedIsNormalized, OpenTransactionsAreFresh

\* Every step of a writer, of the tasks and of the collector keeps it.
LEMMA NextBlobInv == BlobInv /\ [Next]_vars => BlobInv'
<1> SUFFICES ASSUME BlobInv, [Next]_vars PROVE BlobInv'
  OBVIOUS
<1>0. /\ refs \in [Requests -> Refs] /\ legacy \in [Requests -> Refs \cup {Moved}] /\ sent \in [Requests -> Refs]
      /\ normalized \subseteq Requests /\ blobs \subseteq Blobs
      /\ commits \in 0..MaxCommits /\ MaxCommits \in Nat
      /\ gc \in [at : Nat, stale : SUBSET Blobs] \cup {Idle}
      /\ normalize \in Tasks \cup {Idle} /\ migrate \in Tasks \cup {Idle}
  BY BlobsAssumption, PartsAssumption DEF BlobInv, TypeOK
<1>1. ASSUME NEW r \in Requests, NEW p \in Refs, PutBatch(r, p) PROVE BlobInv'
  <2>1. /\ Commit /\ PutPayload(p) /\ refs' = [refs EXCEPT ![r] = Stored(p)]
        /\ sent' = [sent EXCEPT ![r] = p]
        /\ UNCHANGED <<legacy, normalized, gc, normalize, migrate>>
    BY <1>1 DEF PutBatch
  <2>2. /\ refs' \in [Requests -> Refs] /\ blobs' \subseteq Blobs /\ NoDanglingReference'
        /\ \A q \in Requests : q # r => refs'[q] = refs[q]
        /\ refs'[r] = Stored(p)
    BY <2>1, PutKeepsReferences
  <2>3. MarkedIsNormalized'
    <3> SUFFICES ASSUME NEW q \in normalized PROVE refs'[q] = Stored(refs'[q])
      BY <2>1 DEF MarkedIsNormalized, Stored
    <3>1. q = r => refs'[q] = Stored(refs'[q])
      BY <2>2, StoredIsFixed
    <3>2. q # r => refs'[q] = Stored(refs'[q])
      BY <2>2, <1>0 DEF BlobInv, MarkedIsNormalized
    <3>. QED BY <3>1, <3>2
  <2>4. /\ OpenTransactionsAreFresh' /\ commits' \in 0..MaxCommits
        /\ gc' \in [at : Nat, stale : SUBSET Blobs] \cup {Idle} /\ normalize' \in Tasks \cup {Idle}
    BY <2>1, CommitKeepsFreshness
  <2>5. TypeOK'
    BY <1>0, <2>1, <2>2, <2>4 DEF TypeOK
  <2>. QED BY <2>2, <2>3, <2>4, <2>5 DEF BlobInv
<1>2. ASSUME NEW r \in Requests, MigrateRead(r) PROVE BlobInv'
  <2>1. UNCHANGED <<refs, legacy, sent, normalized, blobs, commits, gc, normalize>>
    BY <1>2 DEF MigrateRead
  <2>2. migrate' \in Tasks
    BY <1>0, <1>2 DEF MigrateRead, Tasks
  <2>. QED BY <1>0, <2>1, <2>2 DEF BlobInv, TypeOK, NoDanglingReference, MarkedIsNormalized,
                                  OpenTransactionsAreFresh, Reachable, Stored
<1>3. ASSUME MigrateWrite PROVE BlobInv'
  <2>1. /\ Commit /\ PutPayload(migrate.payload)
        /\ refs' = [refs EXCEPT ![migrate.request] = Stored(migrate.payload)]
        /\ legacy' = [legacy EXCEPT ![migrate.request] = Moved]
        /\ migrate' = Idle /\ UNCHANGED <<sent, normalized, gc, normalize>>
        /\ migrate # Idle
    BY <1>3 DEF MigrateWrite
  <2>2. migrate.request \in Requests /\ migrate.payload \in Refs
    BY <1>0, <2>1 DEF Tasks
  <2>3. /\ refs' \in [Requests -> Refs] /\ blobs' \subseteq Blobs /\ NoDanglingReference'
        /\ \A q \in Requests : q # migrate.request => refs'[q] = refs[q]
        /\ refs'[migrate.request] = Stored(migrate.payload)
    BY <2>1, <2>2, PutKeepsReferences
  <2>4. MarkedIsNormalized'
    <3> SUFFICES ASSUME NEW q \in normalized PROVE refs'[q] = Stored(refs'[q])
      BY <2>1 DEF MarkedIsNormalized, Stored
    <3>1. q = migrate.request => refs'[q] = Stored(refs'[q])
      BY <2>2, <2>3, StoredIsFixed
    <3>2. q # migrate.request => refs'[q] = Stored(refs'[q])
      BY <2>3, <1>0 DEF BlobInv, MarkedIsNormalized
    <3>. QED BY <3>1, <3>2
  <2>5. /\ OpenTransactionsAreFresh' /\ commits' \in 0..MaxCommits
        /\ gc' \in [at : Nat, stale : SUBSET Blobs] \cup {Idle} /\ normalize' \in Tasks \cup {Idle}
    BY <2>1, CommitKeepsFreshness
  <2>6. legacy' \in [Requests -> Refs \cup {Moved}]
    BY <1>0, <2>1 DEF Refs
  <2>7. TypeOK'
    BY <1>0, <2>1, <2>3, <2>5, <2>6 DEF TypeOK
  <2>. QED BY <2>3, <2>4, <2>5, <2>7 DEF BlobInv
<1>4. ASSUME NEW r \in Requests, NormalizeRead(r) PROVE BlobInv'
  <2>1. /\ UNCHANGED <<refs, legacy, sent, normalized, blobs, commits, gc, migrate>>
        /\ normalize' = [at |-> commits, request |-> r, payload |-> refs[r]]
    BY <1>4 DEF NormalizeRead
  <2>2. commits \in Nat /\ refs[r] \in Refs
    BY <1>0
  <2>3. normalize' \in Tasks
    BY <2>1, <2>2 DEF Tasks
  <2>4. OpenTransactionsAreFresh'
    BY <2>1, <2>2 DEF BlobInv, OpenTransactionsAreFresh, Reachable
  <2>. QED BY <1>0, <2>1, <2>3, <2>4 DEF BlobInv, TypeOK, NoDanglingReference, MarkedIsNormalized,
                                         Reachable, Stored
<1>5. ASSUME NormalizeWrite PROVE BlobInv'
  <2> DEFINE r == normalize.request
             p == normalize.payload
  <2>1. /\ normalize # Idle /\ normalize.at = commits /\ Commit
        /\ normalized' = normalized \cup {r} /\ normalize' = Idle
        /\ UNCHANGED <<legacy, sent, gc, migrate>>
    BY <1>5 DEF NormalizeWrite
  <2>2. r \in Requests /\ p \in Refs
    BY <1>0, <2>1 DEF Tasks
  <2>3. p = refs[r]
    BY <2>1 DEF BlobInv, OpenTransactionsAreFresh
  <2> HIDE DEF r, p
  <2>4. /\ refs' \in [Requests -> Refs] /\ blobs' \subseteq Blobs /\ NoDanglingReference'
        /\ \A q \in Requests : q # r => refs'[q] = refs[q]
        /\ refs'[r] = Stored(p)
    <3>1. CASE Stored(p) # p
      <4>1. PutPayload(p) /\ refs' = [refs EXCEPT ![r] = Stored(p)]
        BY <1>5, <3>1 DEF NormalizeWrite, r, p
      <4>. QED BY <4>1, <2>2, PutKeepsReferences
    <3>2. CASE Stored(p) = p
      <4>1. UNCHANGED <<refs, blobs>>
        BY <1>5, <3>2 DEF NormalizeWrite, p
      <4>. QED BY <4>1, <3>2, <1>0, <2>2, <2>3 DEF BlobInv, NoDanglingReference, Reachable
    <3>. QED BY <3>1, <3>2
  <2>5. MarkedIsNormalized'
    <3> SUFFICES ASSUME NEW q \in normalized \cup {r} PROVE refs'[q] = Stored(refs'[q])
      BY <2>1 DEF MarkedIsNormalized, Stored
    <3>1. q = r => refs'[q] = Stored(refs'[q])
      BY <2>2, <2>4, StoredIsFixed
    <3>2. q # r => refs'[q] = Stored(refs'[q])
      BY <2>4, <1>0 DEF BlobInv, MarkedIsNormalized
    <3>. QED BY <3>1, <3>2
  <2>6. /\ OpenTransactionsAreFresh' /\ commits' \in 0..MaxCommits
        /\ gc' \in [at : Nat, stale : SUBSET Blobs] \cup {Idle} /\ normalize' \in Tasks \cup {Idle}
    BY <2>1, CommitKeepsFreshness
  <2>7. TypeOK'
    BY <1>0, <2>1, <2>2, <2>4, <2>6 DEF TypeOK
  <2>. QED BY <2>4, <2>5, <2>6, <2>7 DEF BlobInv
<1>6. ASSUME NormalizeRefused PROVE BlobInv'
  BY <1>0, <1>6 DEF NormalizeRefused, BlobInv, TypeOK, NoDanglingReference, MarkedIsNormalized,
                    OpenTransactionsAreFresh, Reachable, Stored
<1>7. ASSUME GCRead PROVE BlobInv'
  <2>1. /\ UNCHANGED <<refs, legacy, sent, normalized, blobs, commits, normalize, migrate>>
        /\ gc' = [at |-> commits, stale |-> blobs \ Reachable]
    BY <1>7 DEF GCRead
  <2>2. commits \in Nat /\ blobs \ Reachable \in SUBSET Blobs
    BY <1>0
  <2>3. gc' \in [at : Nat, stale : SUBSET Blobs]
    BY <2>1, <2>2
  <2>4. Reachable' = Reachable
    BY <2>1 DEF Reachable
  <2>5. OpenTransactionsAreFresh'
    BY <2>1, <2>2, <2>4 DEF BlobInv, OpenTransactionsAreFresh
  <2>. QED BY <1>0, <2>1, <2>3, <2>4, <2>5 DEF BlobInv, TypeOK, NoDanglingReference, MarkedIsNormalized, Stored
<1>8. ASSUME GCDelete PROVE BlobInv'
  <2>1. /\ gc # Idle /\ gc.at = commits /\ Commit /\ blobs' = blobs \ gc.stale /\ gc' = Idle
        /\ UNCHANGED <<refs, legacy, sent, normalized, normalize, migrate>>
    BY <1>8 DEF GCDelete
  <2>2. gc.stale = blobs \ Reachable
    BY <2>1 DEF BlobInv, OpenTransactionsAreFresh
  <2>3. Reachable' = Reachable
    BY <2>1 DEF Reachable
  <2>4. NoDanglingReference'
    BY <2>1, <2>2, <2>3 DEF BlobInv, NoDanglingReference
  <2>5. /\ OpenTransactionsAreFresh' /\ commits' \in 0..MaxCommits
        /\ gc' \in [at : Nat, stale : SUBSET Blobs] \cup {Idle} /\ normalize' \in Tasks \cup {Idle}
    BY <2>1, CommitKeepsFreshness
  <2>6. TypeOK'
    BY <1>0, <2>1, <2>5 DEF TypeOK
  <2>. QED BY <2>1, <2>4, <2>5, <2>6 DEF BlobInv, MarkedIsNormalized, Stored
<1>9. ASSUME GCEnds PROVE BlobInv'
  BY <1>0, <1>9 DEF GCEnds, BlobInv, TypeOK, NoDanglingReference, MarkedIsNormalized,
                    OpenTransactionsAreFresh, Reachable, Stored
<1>10. ASSUME UNCHANGED vars PROVE BlobInv'
  BY <1>0, <1>10 DEF vars, BlobInv, TypeOK, NoDanglingReference, MarkedIsNormalized,
                     OpenTransactionsAreFresh, Reachable, Stored
<1>. QED BY <1>1, <1>2, <1>3, <1>4, <1>5, <1>6, <1>7, <1>8, <1>9, <1>10 DEF Next, Refs

\* The blob store's invariant, for every set of requests, payloads and blobs.
THEOREM BlobInvariance == Spec => []BlobInv
<1>. QED BY InitBlobInv, NextBlobInv, PTL DEF Spec

\* Every reference of the records table names a payload, at every moment
\* (PutBatch, MigrateLegacy, NormalizeHistoricalSSE).
THEOREM BlobTyping == Spec => []TypeOK
<1>1. BlobInv => TypeOK
  BY DEF BlobInv
<1>. QED BY <1>1, BlobInvariance, PTL

\* No interleaving of writers with a collection leaves a row whose blobs are
\* gone (GC against putPayload's INSERT OR IGNORE).
THEOREM NothingDangles == Spec => []NoDanglingReference
<1>1. BlobInv => NoDanglingReference
  BY DEF BlobInv
<1>. QED BY <1>1, BlobInvariance, PTL

\* A row that NormalizeHistoricalSSE has marked has no completed event stream.
THEOREM MarkedStayNormalized == Spec => []MarkedIsNormalized
<1>1. BlobInv => MarkedIsNormalized
  BY DEF BlobInv
<1>. QED BY <1>1, BlobInvariance, PTL

\* Only a collection deletes blobs, and it leaves exactly the reachable ones.
THEOREM CollectionIsExact == Spec => CollectsExactly
<1>1. ASSUME BlobInv, [Next]_vars PROVE [blobs \ blobs' # {} => blobs' = Reachable']_vars
  <2>1. ASSUME GCDelete PROVE blobs' = Reachable'
    <3>1. gc # Idle /\ gc.at = commits /\ blobs' = blobs \ gc.stale /\ UNCHANGED refs
      BY <2>1 DEF GCDelete
    <3>2. gc.stale = blobs \ Reachable /\ Reachable \subseteq blobs
      BY <1>1, <3>1 DEF BlobInv, OpenTransactionsAreFresh, NoDanglingReference
    <3>3. Reachable' = Reachable
      BY <3>1 DEF Reachable
    <3>. QED BY <3>1, <3>2, <3>3
  <2>2. ASSUME Next, ~GCDelete PROVE blobs \subseteq blobs'
    BY <2>2 DEF Next, PutBatch, MigrateRead, MigrateWrite, NormalizeRead, NormalizeWrite, NormalizeRefused,
                GCRead, GCEnds, PutPayload
  <2>. QED BY <1>1, <2>1, <2>2 DEF vars
<1>2. BlobInv /\ [Next]_vars => [blobs \ blobs' # {} => blobs' = Reachable']_vars
  BY <1>1
<1>. QED BY <1>2, BlobInvariance, PTL DEF Spec, CollectsExactly

\* What GC and NormalizeHistoricalSSE have read is current until another
\* transaction commits.
THEOREM TransactionsStayFresh == Spec => []OpenTransactionsAreFresh
<1>1. BlobInv => OpenTransactionsAreFresh
  BY DEF BlobInv
<1>. QED BY <1>1, BlobInvariance, PTL

\* Only MigrateLegacy changes a row's own copy, so what it read is still there.
MigrationIsCurrent ==
    migrate # Idle => /\ legacy[migrate.request] = migrate.payload
                      /\ legacy[migrate.request] # Moved

LEMMA MigrationStaysCurrent == Spec => []MigrationIsCurrent
<1>1. Init => MigrationIsCurrent
  BY DEF Init, MigrationIsCurrent
<1>2. ASSUME BlobInv, MigrationIsCurrent, [Next]_vars PROVE MigrationIsCurrent'
  <2>1. CASE \E r \in Requests : MigrateRead(r)
    <3>1. PICK r \in Requests : MigrateRead(r)
      BY <2>1
    <3>. QED BY <3>1 DEF MigrateRead, MigrationIsCurrent
  <2>2. CASE MigrateWrite
    BY <2>2 DEF MigrateWrite, MigrationIsCurrent
  <2>3. CASE UNCHANGED <<legacy, migrate>>
    BY <1>2, <2>3 DEF MigrationIsCurrent
  <2>. QED BY <1>2, <2>1, <2>2, <2>3 DEF Next, vars, PutBatch, NormalizeRead, NormalizeWrite,
             NormalizeRefused, GCRead, GCDelete, GCEnds
<1>3. BlobInv /\ MigrationIsCurrent /\ [Next]_vars => MigrationIsCurrent'
  BY <1>2
<1>. QED BY <1>1, <1>3, BlobInvariance, PTL DEF Spec

\* Every step of the store is, for a reader, a step of its contract: what the
\* tasks write is still the row's own when they commit.
LEMMA StepKeepsContract ==
  ASSUME BlobInv, MigrationIsCurrent, [Next]_vars
  PROVE  [ContractNext]_contractVars
<1>0. migrate \in Tasks \cup {Idle} /\ normalize \in Tasks \cup {Idle}
  BY DEF BlobInv, TypeOK
<1>1. ASSUME NEW r \in Requests, NEW p \in Refs, PutPayload(p), refs' = [refs EXCEPT ![r] = Stored(p)]
      PROVE  Rewrite(r, p)
  <2>1. BlobsOf(Stored(p)) = IF p = NoPayload THEN {} ELSE Parts[Terminal[p]]
    BY PartsAssumption DEF BlobsOf, Stored, Refs
  <2>. QED BY <1>1, <2>1 DEF Rewrite, PutPayload
<1>2. CASE \E r \in Requests, p \in Refs : PutBatch(r, p)
  <2>1. PICK r \in Requests, p \in Refs : PutBatch(r, p)
    BY <1>2
  <2>2. Deliver(r, p)
    BY <1>1, <2>1 DEF PutBatch, Deliver
  <2>. QED BY <2>2 DEF ContractNext
<1>3. CASE MigrateWrite
  <2> DEFINE r == migrate.request
  <2>1. migrate # Idle
    BY <1>3 DEF MigrateWrite
  <2>2. r \in Requests /\ migrate.payload \in Refs /\ migrate.payload = legacy[r] /\ legacy[r] # Moved
    BY <1>0, <2>1 DEF Tasks, MigrationIsCurrent
  <2>3. /\ PutPayload(migrate.payload) /\ refs' = [refs EXCEPT ![r] = Stored(migrate.payload)]
        /\ legacy' = [legacy EXCEPT ![r] = Moved] /\ UNCHANGED sent
    BY <1>3 DEF MigrateWrite
  <2>4. Rewrite(r, legacy[r])
    BY <1>1, <2>2, <2>3
  <2>5. Settle(r)
    BY <2>2, <2>3, <2>4 DEF Settle
  <2>. QED BY <2>2, <2>5 DEF ContractNext
<1>4. CASE NormalizeWrite
  <2> DEFINE r == normalize.request
  <2>1. normalize # Idle /\ normalize.at = commits /\ UNCHANGED <<legacy, sent>>
    BY <1>4 DEF NormalizeWrite
  <2>2. r \in Requests /\ normalize.payload \in Refs /\ normalize.payload = refs[r]
    BY <1>0, <2>1 DEF Tasks, BlobInv, OpenTransactionsAreFresh
  <2>3. CASE Stored(normalize.payload) # normalize.payload
    <3>1. PutPayload(normalize.payload) /\ refs' = [refs EXCEPT ![r] = Stored(normalize.payload)]
      BY <1>4, <2>3 DEF NormalizeWrite
    <3>2. Rewrite(r, refs[r])
      BY <1>1, <2>2, <3>1
    <3>3. Settle(r)
      BY <2>1, <3>2 DEF Settle
    <3>. QED BY <2>2, <3>3 DEF ContractNext
  <2>4. CASE Stored(normalize.payload) = normalize.payload
    <3>1. UNCHANGED <<refs, blobs>>
      BY <1>4, <2>4 DEF NormalizeWrite
    <3>. QED BY <3>1, <2>1 DEF contractVars
  <2>. QED BY <2>3, <2>4
<1>5. CASE GCDelete
  <2>1. gc # Idle /\ gc.at = commits /\ blobs' = blobs \ gc.stale /\ UNCHANGED <<refs, legacy, sent>>
    BY <1>5 DEF GCDelete
  <2>2. gc.stale = blobs \ Reachable /\ Reachable \subseteq blobs
    BY <2>1 DEF BlobInv, OpenTransactionsAreFresh, NoDanglingReference
  <2>3. Collect
    BY <2>1, <2>2 DEF Collect
  <2>. QED BY <2>3 DEF ContractNext
<1>6. CASE UNCHANGED <<refs, legacy, sent, blobs>>
  BY <1>6 DEF contractVars
<1>. QED BY <1>2, <1>3, <1>4, <1>5, <1>6 DEF Next, vars, MigrateRead, NormalizeRead, NormalizeRefused,
           GCRead, GCEnds

\* The store implements what its readers rely on: only PutBatch brings a row a
\* new payload; what NormalizeHistoricalSSE writes is the last event of what the
\* row refers to at that commit, what MigrateLegacy writes the row's own legacy
\* copy, which is kept until then; and GC deletes exactly the garbage.
THEOREM StoreKeepsContract == Spec => KeepsContract
<1>1. Init => ContractInit
  <2> SUFFICES ASSUME Init PROVE ContractInit
    OBVIOUS
  <2>1. BlobInv /\ sent = refs
    BY InitBlobInv DEF Init
  <2>. QED BY <2>1 DEF BlobInv, TypeOK, NoDanglingReference, ContractInit
<1>2. BlobInv /\ MigrationIsCurrent /\ [Next]_vars => [ContractNext]_contractVars
  BY StepKeepsContract
<1>. QED BY <1>1, <1>2, BlobInvariance, MigrationStaysCurrent, PTL DEF Spec, KeepsContract, ContractSpec
=============================================================================
