------------------------ MODULE IngestPipelineProofs ------------------------
(***************************************************************************)
(* The safety of IngestPipeline for every set of requests, threads and body *)
(* sizes, every capacity and any number of faults.                          *)
(***************************************************************************)
EXTENDS IngestPipeline, FiniteSetTheorems, WellFoundedInduction, TLAPS

-----------------------------------------------------------------------------
(* The inductive invariant.                                                 *)

Tellings == [stage : {"new", "open", "done", "again"}, original : Nat, response : Nat]
Waiting == [pc : {"idle", "returned"}]
Carrying == [pc : {"posted", "backoff"}, rec : Records]
Answering == [pc : {"answered"}, rec : Records, status : {202, 400, 503}]

Typed ==
    /\ TypeOK
    /\ told \in [Requests -> Tellings]
    /\ configured \in BOOLEAN /\ stop \in BOOLEAN /\ flushing \in BOOLEAN
    /\ sender \in Waiting \cup Carrying \cup Answering
    /\ faults \in Nat

\* The sender runs only once there is a queue, and a batch is full only when
\* it is being written.
Ordered ==
    /\ ~configured => sender.pc = "returned"
    /\ ~flushing => Len(batch) < BatchSize

\* The bytes of the response that a gathered request would be completed with.
Gathered(s) == IF s.response = 0 THEN s.chunks ELSE s.response

\* What the plugin has gathered as s of request r, when the host has passed h
\* of it: a request that no request hook opened has no entry, and the entry of
\* one that is not completed is flagged when it is shorter.
Sound(r, h, s) ==
    /\ h.stage = "new" => h.original = 0 /\ h.response = 0
    /\ s # None =>
          /\ h.stage \in {"open", "again"} /\ s.id = r
          /\ h.stage = "open" /\ s.original > 0 =>
                s.truncated \/ (s.original = h.original /\ Gathered(s) = h.response)
Gathering == \A r \in Requests : Sound(r, told[r], active[r])

\* Every copy of a record, wherever it is on its way to the archive.
Elements(seq) == {seq[k] : k \in DOMAIN seq}
HeldBy(snd) == IF "rec" \in DOMAIN snd THEN {snd.rec} ELSE {}
Held == HeldBy(sender)
Rows == {stored[r] : r \in Requests} \ {None}
Known == Elements(queue) \cup Held \cup (UNION {Elements(late[r]) : r \in Requests})
            \cup Elements(inbox) \cup Elements(batch) \cup Rows

\* A record is of an accepted request, and shorter than what the host passed
\* of it only if it is flagged.
Flagged(x) ==
    x.original > 0 =>
       \/ x.truncated
       \/ x.original = told[x.id].original /\ x.response = told[x.id].response
Traced == \A x \in Known : x \in Records /\ x.id \in accepted /\ Flagged(x)

\* All copies of a record are the same, because a request completes once.
OneCopy == \A x, y \in Known : x.id = y.id => x = y
AcceptedAreDone == \A r \in accepted : Over(r)

\* A record whose post was answered with 202 is in the collector's hands.
InCollector == Ids(inbox) \cup Ids(batch) \cup {r \in Requests : stored[r] # None} \cup lost
Delivered == sender.pc = "answered" /\ sender.status = 202 => sender.rec.id \in InCollector

\* What PutBatch keeps of its tables: a row is of its request, the index names
\* its session, and a summary counts the rows of its session.
RowsOf(t, s) == {r \in Requests : t.stored[r] # None /\ t.stored[r].session = s}
Consistent(t) ==
    /\ \A r \in Requests : IF t.stored[r] = None THEN t.indexed[r] = None
                           ELSE t.stored[r].id = r /\ t.indexed[r] = t.stored[r].session
    /\ \A s \in Sessions : t.summaries[s] = Cardinality(RowsOf(t, s))

PipelineInv ==
    /\ Typed /\ Ordered /\ Gathering
    /\ Traced /\ OneCopy /\ AcceptedAreDone
    /\ Delivered /\ AcceptedIsKept
    /\ Consistent(Tables)

-----------------------------------------------------------------------------
(* Sequences, by their elements.                                            *)

\* Every set of naturals has a least element.
LEMMA LeastOfNats ==
  ASSUME NEW T, T \subseteq Nat, T # {}
  PROVE  \E x \in T : \A y \in T : x <= y
<1> DEFINE R == {p \in Nat \X Nat : p[1] < p[2]}
<1>1. IsWellFoundedOn(R, Nat)
  BY NatLessThanWellFounded DEF OpToRel
<1> HIDE DEF R
<1>2. PICK x \in T : \A y \in T : ~(<<y, x>> \in R)
  BY <1>1, WFMin, Zenon
<1>3. ASSUME NEW y \in T PROVE x <= y
  <2>1. x \in Nat /\ y \in Nat
    OBVIOUS
  <2>2. ~(<<y, x>> \in R)
    BY <1>2
  <2>. QED BY <2>1, <2>2 DEF R
<1>. QED BY <1>3

\* Appending adds one element.
LEMMA ElementsOfAppend ==
  ASSUME NEW S, NEW seq \in Seq(S), NEW e \in S
  PROVE  /\ Append(seq, e) \in Seq(S)
         /\ Len(Append(seq, e)) = Len(seq) + 1
         /\ Elements(Append(seq, e)) = Elements(seq) \cup {e}
<1>1. DOMAIN seq = 1..Len(seq) /\ Len(seq) \in Nat
  OBVIOUS
<1>2. /\ Append(seq, e) \in Seq(S) /\ Len(Append(seq, e)) = Len(seq) + 1
      /\ DOMAIN Append(seq, e) = 1..(Len(seq) + 1)
      /\ Append(seq, e)[Len(seq) + 1] = e
      /\ \A k \in 1..Len(seq) : Append(seq, e)[k] = seq[k]
  OBVIOUS
<1>3. \A k \in 1..(Len(seq) + 1) : k \in 1..Len(seq) \/ k = Len(seq) + 1
  BY <1>1
<1>4. Len(seq) + 1 \in 1..(Len(seq) + 1) /\ 1..Len(seq) \subseteq 1..(Len(seq) + 1)
  BY <1>1
<1> DEFINE t == Append(seq, e)
           d == Len(seq) + 1
<1> HIDE DEF t, d
<1>5. Elements(t) = Elements(seq) \cup {e}
  <2>1. /\ DOMAIN t = 1..d /\ t[d] = e /\ \A k \in 1..Len(seq) : t[k] = seq[k]
        /\ \A k \in 1..d : k \in 1..Len(seq) \/ k = d
        /\ d \in 1..d /\ \A k \in 1..Len(seq) : k \in 1..d
    BY <1>2, <1>3, <1>4 DEF t, d
  <2>. QED BY <2>1, <1>1, Zenon DEF Elements
<1>. QED BY <1>2, <1>5 DEF t

\* Taking the head of a queue splits its elements.
LEMMA ElementsOfTail ==
  ASSUME NEW S, NEW seq \in Seq(S), seq # <<>>
  PROVE  /\ Head(seq) \in S /\ Tail(seq) \in Seq(S)
         /\ Len(Tail(seq)) = Len(seq) - 1
         /\ Elements(seq) = Elements(Tail(seq)) \cup {Head(seq)}
<1>1. /\ DOMAIN seq = 1..Len(seq) /\ Len(seq) \in Nat /\ Len(seq) > 0
      /\ Head(seq) \in S /\ Tail(seq) \in Seq(S) /\ Head(seq) = seq[1]
      /\ Len(Tail(seq)) = Len(seq) - 1 /\ DOMAIN Tail(seq) = 1..(Len(seq) - 1)
      /\ \A k \in 1..(Len(seq) - 1) : Tail(seq)[k] = seq[k + 1]
  OBVIOUS
<1> DEFINE t == Tail(seq)
           h == Head(seq)
           n == Len(seq)
<1> HIDE DEF t, h, n
<1>2. /\ n \in Nat /\ n > 0 /\ DOMAIN seq = 1..n /\ DOMAIN t = 1..(n - 1) /\ h = seq[1]
      /\ \A k \in 1..(n - 1) : t[k] = seq[k + 1]
  BY <1>1 DEF t, h, n
<1>3. ASSUME NEW k \in 1..n PROVE seq[k] \in Elements(t) \cup {h}
  <2>1. CASE k = 1
    BY <2>1, <1>2
  <2>2. CASE k # 1
    <3>1. k - 1 \in 1..(n - 1) /\ (k - 1) + 1 = k
      BY <2>2, <1>2
    <3>2. seq[k] = t[k - 1] /\ k - 1 \in DOMAIN t
      BY <3>1, <1>2
    <3>. QED BY <3>2, Zenon DEF Elements
  <2>. QED BY <2>1, <2>2
<1>4. ASSUME NEW k \in 1..(n - 1) PROVE t[k] \in Elements(seq)
  <2>1. k + 1 \in 1..n
    BY <1>2
  <2>2. t[k] = seq[k + 1] /\ k + 1 \in DOMAIN seq
    BY <2>1, <1>2
  <2>. QED BY <2>2, Zenon DEF Elements
<1>5. h \in Elements(seq)
  <2>1. 1 \in DOMAIN seq
    BY <1>2
  <2>. QED BY <2>1, <1>2, Zenon DEF Elements
<1>6. Elements(seq) = Elements(t) \cup {h}
  <2>1. Elements(seq) \subseteq Elements(t) \cup {h}
    <3> SUFFICES ASSUME NEW k \in DOMAIN seq PROVE seq[k] \in Elements(t) \cup {h}
      BY Zenon DEF Elements
    <3>. QED BY <1>3, <1>2
  <2>2. Elements(t) \subseteq Elements(seq)
    <3> SUFFICES ASSUME NEW k \in DOMAIN t PROVE t[k] \in Elements(seq)
      BY Zenon DEF Elements
    <3>. QED BY <1>4, <1>2
  <2>. QED BY <2>1, <2>2, <1>5
<1>. QED BY <1>1, <1>6 DEF t, h

\* The ids of a sequence are those of its elements.
LEMMA IdsAreOfElements ==
  ASSUME NEW seq
  PROVE  Ids(seq) = {x.id : x \in Elements(seq)}
BY Zenon DEF Ids, Elements

LEMMA EmptySequence == Elements(<<>>) = {} /\ Ids(<<>>) = {} /\ Len(<<>>) = 0
BY DEF Elements, Ids

LEMMA ElementsAreTyped ==
  ASSUME NEW S, NEW seq \in Seq(S)
  PROVE  Elements(seq) \subseteq S
BY DEF Elements

-----------------------------------------------------------------------------
(* PutBatch, record by record.                                              *)

PutRecord(t, rec) == IndexSessionRecord(UpsertRecord(t, rec), rec)

\* The recursion of PutBatch has a solution: its loop can be unrolled.
LEMMA PutBatchUnfolds ==
  ASSUME Len(batch) \in Nat
  PROVE  /\ PutBatch[0] = Tables
         /\ \A k \in 1..Len(batch) : PutBatch[k] = PutRecord(PutBatch[k - 1], batch[k])
<1> DEFINE Solves(f, n) ==
             f = [k \in 0..n |-> IF k = 0 THEN Tables ELSE PutRecord(f[k - 1], batch[k])]
           Unsolved == {n \in Nat : ~ \E f : Solves(f, n)}
<1>1. Unsolved = {}
  <2>1. SUFFICES ASSUME Unsolved # {} PROVE FALSE
    OBVIOUS
  <2>2. Unsolved \subseteq Nat
    OBVIOUS
  <2>3. PICK m \in Unsolved : \A y \in Unsolved : m <= y
    BY <2>1, <2>2, LeastOfNats
  <2>4. m \in Nat /\ ~ \E f : Solves(f, m)
    BY <2>3
  <2>5. CASE m = 0
    <3> DEFINE f == [k \in 0..0 |-> Tables]
    <3>1. f = [k \in 0..0 |-> IF k = 0 THEN Tables ELSE PutRecord(f[k - 1], batch[k])]
      <4>1. \A k \in 0..0 : k = 0
        OBVIOUS
      <4>. QED BY <4>1, Zenon
    <3>. QED BY <3>1, <2>4, <2>5
  <2>6. CASE m # 0
    <3>1. m - 1 \in Nat /\ ~(m <= m - 1)
      BY <2>4, <2>6
    <3>2. m - 1 \notin Unsolved
      BY <3>1, <2>3
    <3>3. PICK f : Solves(f, m - 1)
      BY <3>1, <3>2
    <3> DEFINE g == [k \in 0..m |-> IF k = m THEN PutRecord(f[m - 1], batch[m]) ELSE f[k]]
    <3>4. ASSUME NEW k \in 0..m
          PROVE  g[k] = IF k = 0 THEN Tables ELSE PutRecord(g[k - 1], batch[k])
      <4>1. CASE k = m
        <5>1. m - 1 \in 0..m /\ m - 1 # m /\ m \in 0..m
          BY <2>4, <2>6
        <5>2. g[m - 1] = f[m - 1] /\ g[m] = PutRecord(f[m - 1], batch[m])
          BY <5>1, Zenon
        <5>. QED BY <4>1, <5>2, <2>6
      <4>2. CASE k # m
        <5>1. k \in 0..(m - 1)
          BY <4>2, <2>4
        <5>2. g[k] = f[k]
          BY <4>2
        <5>3. f[k] = IF k = 0 THEN Tables ELSE PutRecord(f[k - 1], batch[k])
          BY <5>1, <3>3, Zenon
        <5>4. k # 0 => g[k - 1] = f[k - 1]
          <6>1. k # 0 => k - 1 \in 0..m /\ k - 1 # m
            BY <2>4
          <6>. QED BY <6>1
        <5>. QED BY <5>2, <5>3, <5>4
      <4>. QED BY <4>1, <4>2
    <3>5. g = [k \in 0..m |-> g[k]]
      OBVIOUS
    <3> HIDE DEF g
    <3>6. Solves(g, m)
      BY <3>4, <3>5, Zenon
    <3>. QED BY <3>6, <2>4
  <2>. QED BY <2>5, <2>6
<1>2. \E f : Solves(f, Len(batch))
  BY <1>1
<1>3. PutBatch = CHOOSE f : Solves(f, Len(batch))
  BY Zenon DEF PutBatch, PutRecord
<1>4. Solves(PutBatch, Len(batch))
  BY <1>2, <1>3, Zenon
<1> DEFINE B == PutBatch
<1>5. B = [k \in 0..Len(batch) |-> IF k = 0 THEN Tables ELSE PutRecord(B[k - 1], batch[k])]
  BY <1>4
<1> HIDE DEF B
<1>6. 0 \in 0..Len(batch) /\ \A k \in 1..Len(batch) : k \in 0..Len(batch) /\ k # 0
  OBVIOUS
<1>7. /\ B[0] = Tables
      /\ \A k \in 1..Len(batch) : B[k] = PutRecord(B[k - 1], batch[k])
  BY <1>5, <1>6, Zenon
<1>. QED BY <1>7 DEF B

\* None is neither a record nor a session.
LEMMA NoneIsNoRecord == None \notin Records /\ None \notin States /\ None \notin Sessions
<1>1. "session" \notin DOMAIN None
  BY DEF None
<1>2. \A x \in Records \cup States : "session" \in DOMAIN x
  BY DEF Records, States
<1>. QED BY <1>1, <1>2, NoneAssumption

\* Consistent tables whose rows are among the records of K.
TablesOf(K, t) ==
    /\ t = [stored |-> t.stored, indexed |-> t.indexed, summaries |-> t.summaries]
    /\ t.stored \in [Requests -> K \cup {None}]
    /\ t.indexed \in [Requests -> Sessions \cup {None}]
    /\ t.summaries \in [Sessions -> Nat]
    /\ Consistent(t)

\* One record of a batch whose copies all agree keeps the tables consistent,
\* and every row that was there.
LEMMA PutRecordKeeps ==
  ASSUME NEW K, K \subseteq Records, \A x, y \in K : x.id = y.id => x = y,
         NEW t, TablesOf(K, t), NEW rec \in K
  PROVE  /\ TablesOf(K, PutRecord(t, rec))
         /\ \A r \in Requests : t.stored[r] # None => PutRecord(t, rec).stored[r] # None
         /\ PutRecord(t, rec).stored[rec.id] # None
<1>0. /\ t = [stored |-> t.stored, indexed |-> t.indexed, summaries |-> t.summaries]
      /\ t.stored \in [Requests -> K \cup {None}]
      /\ t.indexed \in [Requests -> Sessions \cup {None}]
      /\ t.summaries \in [Sessions -> Nat] /\ Consistent(t)
  BY DEF TablesOf
<1> USE <1>0
<1> DEFINE id == rec.id
           ses == rec.session
           row == t.stored[id]
           up == UpsertRecord(t, rec)
<1>1. id \in Requests /\ ses \in Sessions /\ rec \in Records
  BY DEF Records
<1>2. row \in K \cup {None} /\ rec # None
  BY <1>1, NoneIsNoRecord
<1>3. row # None => row = rec
  BY <1>1, <1>2 DEF Consistent
<1>4. [rec EXCEPT !.response = rec.response, !.truncated = rec.truncated] = rec
  BY <1>1 DEF Records
<1>5. up = [stored |-> [t.stored EXCEPT ![id] = rec], indexed |-> t.indexed,
            summaries |-> t.summaries]
  <2>1. (IF row = None THEN rec
         ELSE [row EXCEPT !.response = rec.response, !.truncated = rec.truncated]) = rec
    BY <1>3, <1>4
  <2>2. up = [t EXCEPT !.stored = [t.stored EXCEPT ![id] = rec]]
    BY <2>1 DEF UpsertRecord
  <2>. QED BY <2>2
<1> HIDE DEF up
<1>6. /\ up.stored = [t.stored EXCEPT ![id] = rec] /\ up.indexed = t.indexed
      /\ up.summaries = t.summaries
  BY <1>5
<1>7. PutRecord(t, rec) = IndexSessionRecord(up, rec)
  BY DEF PutRecord, up
<1>8. CASE row # None
  <2>1. t.indexed[id] # None
    <3>1. t.indexed[id] = row.session /\ row = rec
      BY <1>1, <1>3, <1>8 DEF Consistent
    <3>. QED BY <3>1, <1>1, NoneIsNoRecord
  <2>2. up.stored = t.stored
    BY <1>6, <1>3, <1>8, <1>1
  <2>3. up = t
    BY <1>5, <1>6, <2>2
  <2>4. PutRecord(t, rec) = t
    BY <1>7, <2>1, <2>3 DEF IndexSessionRecord
  <2>. QED BY <2>4, <1>8
<1>9. CASE row = None
  <2>1. t.indexed[id] = None
    BY <1>1, <1>9 DEF Consistent
  <2> DEFINE u == [stored |-> [t.stored EXCEPT ![id] = rec],
                   indexed |-> [t.indexed EXCEPT ![id] = ses],
                   summaries |-> [t.summaries EXCEPT ![ses] = t.summaries[ses] + 1]]
  <2>2. PutRecord(t, rec) = u
    BY <1>6, <1>7, <2>1 DEF IndexSessionRecord
  <2>3. /\ u.stored = [t.stored EXCEPT ![id] = rec]
        /\ u.indexed = [t.indexed EXCEPT ![id] = ses]
        /\ u.summaries = [t.summaries EXCEPT ![ses] = t.summaries[ses] + 1]
    OBVIOUS
  <2>4. u = [stored |-> u.stored, indexed |-> u.indexed, summaries |-> u.summaries]
    BY <2>3
  <2> HIDE DEF u
  <2>5. u.stored \in [Requests -> K \cup {None}] /\ u.indexed \in [Requests -> Sessions \cup {None}]
    BY <1>1, <2>3
  <2>6. u.summaries \in [Sessions -> Nat]
    BY <1>1, <2>3
  <2>7. ASSUME NEW r \in Requests
        PROVE  IF u.stored[r] = None THEN u.indexed[r] = None
               ELSE u.stored[r].id = r /\ u.indexed[r] = u.stored[r].session
    <3>1. CASE r = id
      <4>1. u.stored[r] = rec /\ u.indexed[r] = ses
        BY <3>1, <1>1, <2>3
      <4>. QED BY <4>1, <3>1, <1>2
    <3>2. CASE r # id
      <4>1. u.stored[r] = t.stored[r] /\ u.indexed[r] = t.indexed[r]
        BY <3>2, <1>1, <2>3
      <4>. QED BY <4>1 DEF Consistent
    <3>. QED BY <3>1, <3>2
  <2>8. ASSUME NEW s \in Sessions
        PROVE  u.summaries[s] = Cardinality(RowsOf(u, s))
    <3>1. RowsOf(t, s) \subseteq Requests /\ id \notin RowsOf(t, s)
      BY <1>9 DEF RowsOf
    <3>2. IsFiniteSet(RowsOf(t, s))
      BY <3>1, FS_Subset, PipelineAssumption
    <3>3. t.summaries[s] = Cardinality(RowsOf(t, s))
      BY DEF Consistent
    <3>4. CASE s = ses
      <4>1. RowsOf(u, s) = RowsOf(t, s) \cup {id}
        BY <3>4, <1>1, <1>2, <2>3 DEF RowsOf
      <4>2. Cardinality(RowsOf(u, s)) = Cardinality(RowsOf(t, s)) + 1
        BY <4>1, <3>1, <3>2, FS_AddElement
      <4>. QED BY <4>2, <3>3, <3>4, <1>1, <2>3
    <3>5. CASE s # ses
      <4>1. RowsOf(u, s) = RowsOf(t, s)
        BY <3>5, <1>1, <1>2, <1>9, <2>3 DEF RowsOf
      <4>. QED BY <4>1, <3>3, <3>5, <1>1, <2>3
    <3>. QED BY <3>4, <3>5
  <2>9. Consistent(u)
    BY <2>7, <2>8 DEF Consistent
  <2>10. \A r \in Requests : t.stored[r] # None => u.stored[r] # None
    BY <1>1, <1>2, <2>3
  <2>11. u.stored[rec.id] # None
    BY <1>1, <1>2, <2>3
  <2>12. TablesOf(K, u)
    BY <2>4, <2>5, <2>6, <2>9 DEF TablesOf
  <2>. QED BY <2>2, <2>10, <2>11, <2>12
<1>. QED BY <1>8, <1>9

\* The whole batch: consistent tables, no row lost, and a row for every record.
LEMMA PutBatchKeeps ==
  ASSUME NEW K, K \subseteq Records, \A x, y \in K : x.id = y.id => x = y,
         TablesOf(K, Tables), batch \in Seq(Records), Elements(batch) \subseteq K
  PROVE  /\ TablesOf(K, PutBatch[Len(batch)])
         /\ \A r \in Requests : stored[r] # None => PutBatch[Len(batch)].stored[r] # None
         /\ \A r \in Ids(batch) : PutBatch[Len(batch)].stored[r] # None
<1> DEFINE n == Len(batch)
           Kept(t, k) ==
             /\ TablesOf(K, t)
             /\ \A r \in Requests : stored[r] # None => t.stored[r] # None
             /\ \A j \in 1..k : t.stored[batch[j].id] # None
           Broken == {k \in 0..n : ~ Kept(PutBatch[k], k)}
<1>1. n \in Nat /\ DOMAIN batch = 1..n
  OBVIOUS
<1>2. ASSUME NEW k \in 1..n PROVE batch[k] \in K /\ batch[k].id \in Requests
  <2>1. batch[k] \in K
    BY <1>1 DEF Elements
  <2>. QED BY <2>1 DEF Records
<1>3. /\ PutBatch[0] = Tables
      /\ \A k \in 1..n : PutBatch[k] = PutRecord(PutBatch[k - 1], batch[k])
  BY <1>1, PutBatchUnfolds
<1> HIDE DEF n
<1>4. Kept(PutBatch[0], 0)
  <2>1. Tables.stored = stored
    BY DEF Tables
  <2>2. \A j \in 1..0 : FALSE
    OBVIOUS
  <2>. QED BY <2>1, <2>2, <1>3
<1>5. ASSUME NEW k \in 1..n, Kept(PutBatch[k - 1], k - 1)
      PROVE  Kept(PutBatch[k], k)
  <2> DEFINE t == PutBatch[k - 1]
             u == PutBatch[k]
  <2>1. u = PutRecord(t, batch[k])
    BY <1>3
  <2>2. Kept(t, k - 1)
    BY <1>5
  <2> HIDE DEF t, u
  <2>3. /\ TablesOf(K, u)
        /\ \A r \in Requests : t.stored[r] # None => u.stored[r] # None
        /\ u.stored[batch[k].id] # None
    <3>1. TablesOf(K, t) /\ batch[k] \in K
      BY <2>2, <1>2
    <3>. QED BY <3>1, <2>1, PutRecordKeeps
  <2>4. ASSUME NEW j \in 1..k PROVE u.stored[batch[j].id] # None
    <3>1. CASE j = k
      BY <3>1, <2>3
    <3>2. CASE j # k
      <4>1. j \in 1..(k - 1) /\ j \in 1..n
        BY <3>2, <1>1
      <4>2. t.stored[batch[j].id] # None /\ batch[j].id \in Requests
        BY <4>1, <2>2, <1>2
      <4>. QED BY <4>2, <2>3
    <3>. QED BY <3>1, <3>2
  <2>5. Kept(u, k)
    BY <2>2, <2>3, <2>4
  <2>. QED BY <2>5 DEF u
<1> HIDE DEF Kept
<1>6. Broken = {}
  <2>1. SUFFICES ASSUME Broken # {} PROVE FALSE
    OBVIOUS
  <2>2. Broken \subseteq Nat
    BY <1>1
  <2>3. PICK m \in Broken : \A y \in Broken : m <= y
    BY <2>1, <2>2, LeastOfNats
  <2>4. m \in 0..n /\ ~ Kept(PutBatch[m], m)
    BY <2>3
  <2>5. m # 0
    BY <2>4, <1>4
  <2>6. m \in 1..n /\ m - 1 \in 0..n /\ ~(m <= m - 1)
    BY <2>4, <2>5, <1>1
  <2>7. Kept(PutBatch[m - 1], m - 1)
    BY <2>3, <2>6
  <2>. QED BY <2>4, <2>6, <2>7, <1>5
<1>7. n \in 0..n
  BY <1>1
<1>8. Kept(PutBatch[n], n)
  BY <1>6, <1>7
<1>9. \A r \in Ids(batch) : \E j \in 1..n : r = batch[j].id
  BY <1>1 DEF Ids
<1> DEFINE t == PutBatch[n]
<1>10. Kept(t, n)
  BY <1>8
<1> HIDE DEF t
<1>11. \A r \in Ids(batch) : t.stored[r] # None
  BY <1>9, <1>10 DEF Kept
<1>12. t = PutBatch[Len(batch)]
  BY DEF t, n
<1>. QED BY <1>10, <1>11, <1>12 DEF Kept

-----------------------------------------------------------------------------
(* The first state.                                                         *)

LEMMA InitPipeline == Init => PipelineInv
<1> SUFFICES ASSUME Init PROVE PipelineInv
  OBVIOUS
<1> USE DEF Init
<1>1. <<>> \in Seq(Records) /\ Elements(<<>>) = {} /\ Ids(<<>>) = {} /\ Len(<<>>) = 0
  BY EmptySequence
<1>2. /\ {MaxBody, QueueSize, CollectorQueue, BatchSize} \subseteq Nat \ {0}
      /\ \A r \in Requests : r \in Sessions
  BY PipelineAssumption DEF Sessions
<1>3. TypeOK
  BY <1>1, <1>2 DEF TypeOK
<1>4. sender = [pc |-> "returned"] /\ sender.pc = "returned" /\ "rec" \notin DOMAIN sender
  BY DEF Init
<1>5. Typed
  <2>1. told \in [Requests -> Tellings]
    BY DEF Tellings
  <2>2. sender \in Waiting
    BY <1>4 DEF Waiting
  <2>. QED BY <1>3, <2>1, <2>2 DEF Typed
<1>6. Ordered
  BY <1>1, <1>2, <1>4 DEF Ordered
<1>7. Gathering
  BY DEF Gathering, Sound
<1>8. Known = {}
  <2>1. Rows = {}
    BY DEF Rows
  <2>2. Held = {}
    BY <1>4 DEF Held, HeldBy
  <2>3. \A r \in Requests : Elements(late[r]) = {}
    BY <1>1
  <2>. QED BY <2>1, <2>2, <2>3, <1>1 DEF Known
<1>9. Traced /\ OneCopy /\ AcceptedAreDone
  BY <1>8 DEF Traced, OneCopy, AcceptedAreDone
<1>10. Delivered /\ AcceptedIsKept
  BY <1>3, <1>4 DEF Delivered, AcceptedIsKept
<1>11. Consistent(Tables)
  <2>1. /\ Tables.stored = [r \in Requests |-> None] /\ Tables.indexed = [r \in Requests |-> None]
        /\ Tables.summaries = [s \in Sessions |-> 0]
    BY DEF Tables
  <2>2. \A s \in Sessions : RowsOf(Tables, s) = {}
    BY <2>1 DEF RowsOf
  <2>. QED BY <2>1, <2>2, FS_EmptySet DEF Consistent
<1>. QED BY <1>5, <1>6, <1>7, <1>9, <1>10, <1>11 DEF PipelineInv

-----------------------------------------------------------------------------
(* The hooks.                                                               *)

SameBodies(h, k) == k.original = h.original /\ k.response = h.response

\* A step that moves or forgets copies of records, and leaves alone what is
\* passed of completed requests, keeps what is known of them.
LEMMA CopiesCarry ==
  ASSUME PipelineInv, accepted' = accepted, Known' \subseteq Known,
         \A r \in Requests : Over(r) => Over(r)' /\ SameBodies(told[r], told'[r])
  PROVE  Traced' /\ OneCopy' /\ AcceptedAreDone'
<1>1. accepted \subseteq Requests
  BY DEF PipelineInv, Typed, TypeOK
<1>2. AcceptedAreDone'
  BY <1>1 DEF PipelineInv, AcceptedAreDone
<1>3. \A r \in accepted : SameBodies(told[r], told'[r])
  BY <1>1 DEF PipelineInv, AcceptedAreDone
<1>4. Traced'
  <2> SUFFICES ASSUME NEW x \in Known' PROVE x \in Records /\ x.id \in accepted' /\ Flagged(x)'
    BY DEF Traced
  <2>1. x \in Records /\ x.id \in accepted /\ Flagged(x)
    BY DEF PipelineInv, Traced
  <2>. QED BY <2>1, <1>3 DEF Flagged, SameBodies
<1>5. OneCopy'
  BY DEF PipelineInv, OneCopy
<1>. QED BY <1>2, <1>4, <1>5

\* What a hook must establish about its own request.
LEMMA HookStep ==
  ASSUME PipelineInv, NEW r \in Requests, NEW h \in Tellings, NEW s \in States \cup {None},
         told' = [told EXCEPT ![r] = h], active' = [active EXCEPT ![r] = s],
         Sound(r, h, s), Over(r) => h.stage \in {"done", "again"} /\ SameBodies(told[r], h),
         UNCHANGED <<pluginVars, collectorVars, storeVars, accepted, lost>>, faults' \in Nat
  PROVE  PipelineInv'
<1> USE DEF pluginVars, collectorVars, storeVars
<1>1. /\ told \in [Requests -> Tellings] /\ active \in [Requests -> States \cup {None}]
  BY DEF PipelineInv, Typed, TypeOK
<1>2. /\ told' \in [Requests -> Tellings] /\ active' \in [Requests -> States \cup {None}]
  BY <1>1
<1>3. Typed' /\ Ordered'
  <2>1. TypeOK'
    BY <1>2 DEF PipelineInv, Typed, TypeOK
  <2>2. Typed'
    BY <1>2, <2>1 DEF PipelineInv, Typed
  <2>. QED BY <2>2 DEF PipelineInv, Ordered
<1>4. Gathering'
  <2> SUFFICES ASSUME NEW q \in Requests PROVE Sound(q, told'[q], active'[q])
    BY DEF Gathering
  <2>1. CASE q = r
    BY <2>1, <1>1
  <2>2. CASE q # r
    <3>1. told'[q] = told[q] /\ active'[q] = active[q]
      BY <2>2, <1>1
    <3>. QED BY <3>1 DEF PipelineInv, Gathering
  <2>. QED BY <2>1, <2>2
<1>5. \A q \in Requests : Over(q) => Over(q)' /\ SameBodies(told[q], told'[q])
  BY <1>1 DEF Over, SameBodies
<1>6. Known' = Known
  BY DEF Known, Held, Rows
<1>7. Traced' /\ OneCopy' /\ AcceptedAreDone'
  BY <1>5, <1>6, CopiesCarry
<1>8. Delivered' /\ AcceptedIsKept' /\ Consistent(Tables)'
  <2>1. Delivered'
    BY DEF PipelineInv, Delivered, InCollector
  <2>2. AcceptedIsKept'
    BY <1>3 DEF PipelineInv, AcceptedIsKept, Carried, Typed
  <2>3. Tables' = Tables
    BY DEF Tables
  <2>4. Consistent(Tables')
    BY <2>3 DEF PipelineInv
  <2>. QED BY <2>1, <2>2, <2>4
<1>. QED BY <1>3, <1>4, <1>7, <1>8 DEF PipelineInv

\* What a hook starts from.
LEMMA HookFacts ==
  ASSUME PipelineInv, NEW r \in Requests
  PROVE  /\ told \in [Requests -> Tellings] /\ active \in [Requests -> States \cup {None}]
         /\ told[r] \in Tellings /\ active[r] \in States \cup {None}
         /\ told[r].stage \in {"new", "open", "done", "again"}
         /\ told[r].original \in Nat /\ told[r].response \in Nat
         /\ Sound(r, told[r], active[r])
         /\ MaxBody \in Nat /\ MaxBody > 0 /\ BodySizes \subseteq Nat
         /\ Fresh(r) \in States /\ Fresh(r) # None
         /\ \A n \in Nat : Least(n, MaxBody) \in 0..MaxBody
         /\ r \in Sessions /\ Threads \subseteq Sessions
         /\ faults \in Nat /\ (LateIsFault(r) => faults' \in Nat)
<1>1. MaxBody \in Nat /\ MaxBody > 0 /\ BodySizes \subseteq Nat
  BY PipelineAssumption
<1>2. told \in [Requests -> Tellings] /\ active \in [Requests -> States \cup {None}]
  BY DEF PipelineInv, Typed, TypeOK
<1>3. told[r] \in Tellings /\ active[r] \in States \cup {None}
  BY <1>2
<1>4. /\ told[r].stage \in {"new", "open", "done", "again"}
      /\ told[r].original \in Nat /\ told[r].response \in Nat
  BY <1>3 DEF Tellings
<1>5. r \in Sessions /\ Threads \subseteq Sessions
  BY DEF Sessions
<1>6. Fresh(r) \in States
  BY <1>1 DEF Fresh, States
<1>7. \A n \in Nat : Least(n, MaxBody) \in 0..MaxBody
  BY <1>1 DEF Least
<1>8. faults \in Nat /\ (LateIsFault(r) => faults' \in Nat)
  BY DEF PipelineInv, Typed, LateIsFault, Fault
<1>. QED BY <1>1, <1>2, <1>3, <1>4, <1>5, <1>6, <1>7, <1>8, NoneIsNoRecord
         DEF PipelineInv, Gathering

LEMMA CaptureBeforeKeeps ==
  ASSUME PipelineInv, NEW r \in Requests, CaptureBefore(r)
  PROVE  PipelineInv'
<1>1. PICK n \in BodySizes, thread \in Threads \cup {None}, hint \in Threads \cup {r} :
        /\ told' = [told EXCEPT ![r].stage = Reopened(r), ![r].original = IF Over(r) THEN @ ELSE n]
        /\ active' = [active EXCEPT ![r] = [Fresh(r) EXCEPT
              !.thread = thread, !.session = SessionID(thread, hint),
              !.original = Least(n, MaxBody), !.truncated = n > MaxBody]]
  BY DEF CaptureBefore
<1> DEFINE m == IF Over(r) THEN told[r].original ELSE n
           h == [told[r] EXCEPT !.stage = Reopened(r), !.original = m]
           cut == n > MaxBody
           kept == Least(n, MaxBody)
           ses == SessionID(thread, hint)
           a == Fresh(r)
           s == [a EXCEPT !.thread = thread, !.session = ses, !.original = kept, !.truncated = cut]
<1>2. /\ n \in Nat /\ m \in Nat /\ told[r].stage \in {"new", "done"}
      /\ Over(r) \/ (m = n /\ told[r].response = 0)
      /\ Reopened(r) = IF Over(r) THEN "again" ELSE "open"
  BY HookFacts DEF CaptureBefore, Sound, Over, Reopened
<1>3. told' = [told EXCEPT ![r] = h]
  BY <1>1, HookFacts
<1>4. kept \in 0..MaxBody /\ cut \in BOOLEAN /\ (~ cut => kept = n)
  BY <1>2, HookFacts DEF Least
<1>5. ses \in Sessions
  BY HookFacts DEF SessionID
<1>6. active' = [active EXCEPT ![r] = [Fresh(r) EXCEPT
        !.thread = thread, !.session = ses, !.original = kept, !.truncated = cut]]
  BY <1>1
<1> HIDE DEF cut, kept, ses
<1>7. active' = [active EXCEPT ![r] = s]
  BY <1>6
<1> HIDE DEF m
<1>8. /\ h \in Tellings /\ h.original = m /\ h.response = told[r].response
      /\ h.stage = IF Over(r) THEN "again" ELSE "open"
  BY <1>2, HookFacts DEF Tellings
<1>9. a \in States /\ a.id = r /\ a.response = 0 /\ a.chunks = 0
  BY HookFacts DEF Fresh
<1> HIDE DEF a
<1>10. /\ s \in States /\ s.id = a.id /\ s.response = a.response /\ s.chunks = a.chunks
       /\ s.original = kept /\ s.truncated = cut
  BY <1>4, <1>5, <1>9 DEF States
<1>11. Sound(r, h, s)
  <2>1. s.id = r /\ s.original = kept /\ s.response = 0 /\ s.chunks = 0 /\ s.truncated = cut
    BY <1>9, <1>10
  <2>2. Gathered(s) = 0
    BY <2>1 DEF Gathered
  <2> HIDE DEF s, h
  <2>. QED BY <2>1, <2>2, <1>2, <1>4, <1>8 DEF Sound
<1>12. Over(r) => h.stage \in {"done", "again"} /\ SameBodies(told[r], h)
  BY <1>8 DEF SameBodies, m
<1> HIDE DEF s, h
<1>. QED BY <1>3, <1>7, <1>8, <1>10, <1>11, <1>12, HookFacts, HookStep DEF CaptureBefore

LEMMA CaptureAfterKeeps ==
  ASSUME PipelineInv, NEW r \in Requests, CaptureAfter(r)
  PROVE  PipelineInv'
<1> DEFINE a == IF active[r] = None THEN Fresh(r) ELSE active[r]
<1>1. PICK n \in BodySizes, hint \in Threads \cup {r} :
        /\ told' = [told EXCEPT ![r].stage = Reopened(r)]
        /\ active' = [active EXCEPT ![r] = [a EXCEPT
              !.upstream = IF StoreUpstream /\ n > 0 THEN Least(n, MaxBody) ELSE @,
              !.truncated = @ \/ (StoreUpstream /\ n > 0 /\ n > MaxBody),
              !.session = SessionID(a.thread, hint)]]
  BY DEF CaptureAfter
<1>2. n \in Nat /\ a \in States
  BY HookFacts
<1>3. /\ ~ Over(r) /\ a.original > 0 =>
            a.truncated \/ (a.original = told[r].original /\ Gathered(a) = told[r].response)
      /\ a.id = r
  <2>1. CASE active[r] = None
    <3>1. Fresh(r).original = 0 /\ Fresh(r).id = r
      BY DEF Fresh
    <3>. QED BY <2>1, <3>1
  <2>2. CASE active[r] # None
    BY <2>2, HookFacts DEF Sound, Over
  <2>. QED BY <2>1, <2>2
<1> HIDE DEF a
<1> DEFINE h == [told[r] EXCEPT !.stage = Reopened(r)]
           up == IF StoreUpstream /\ n > 0 THEN Least(n, MaxBody) ELSE a.upstream
           cut == a.truncated \/ (StoreUpstream /\ n > 0 /\ n > MaxBody)
           s == [a EXCEPT !.upstream = up, !.truncated = cut, !.session = SessionID(a.thread, hint)]
<1>4. told' = [told EXCEPT ![r] = h]
  BY <1>1, HookFacts
<1>5. active' = [active EXCEPT ![r] = s]
  BY <1>1
<1>6. /\ h \in Tellings /\ h.original = told[r].original /\ h.response = told[r].response
      /\ h.stage = IF Over(r) THEN "again" ELSE "open"
  BY HookFacts DEF Tellings, Reopened
<1>7. /\ a.id \in Requests /\ a.thread \in Threads \cup {None} /\ a.upstream \in 0..MaxBody
      /\ a.truncated \in BOOLEAN
  BY <1>2 DEF States
<1>8. SessionID(a.thread, hint) \in Sessions
  BY <1>7, HookFacts DEF SessionID
<1>9. up \in 0..MaxBody /\ cut \in BOOLEAN /\ (a.truncated => cut)
  BY <1>2, <1>7, HookFacts
<1> HIDE DEF up, cut
<1>10. /\ s \in States /\ s.id = a.id /\ s.original = a.original /\ s.response = a.response
       /\ s.chunks = a.chunks /\ s.truncated = cut
  BY <1>2, <1>8, <1>9 DEF States
<1>11. Gathered(s) = Gathered(a)
  BY <1>10 DEF Gathered
<1> HIDE DEF s, h
<1>12. Sound(r, h, s)
  BY <1>3, <1>6, <1>9, <1>10, <1>11 DEF Sound
<1>13. Over(r) => h.stage \in {"done", "again"} /\ SameBodies(told[r], h)
  BY <1>6 DEF SameBodies
<1>. QED BY <1>4, <1>5, <1>6, <1>10, <1>12, <1>13, HookFacts, HookStep DEF CaptureAfter

\* What is passed of a response, before and after it is completed.
LEMMA PassedFacts ==
  ASSUME PipelineInv, NEW r \in Requests, NEW n \in BodySizes
  PROVE  \E h \in Tellings :
            /\ Passed(r, n) = [told EXCEPT ![r] = h] /\ h.original = told[r].original
            /\ IF Over(r) THEN h = told[r]
               ELSE h.stage = "open" /\ h.response = told[r].response + n
<1>1. CASE Over(r)
  <2>1. Passed(r, n) = [told EXCEPT ![r] = told[r]]
    BY <1>1, HookFacts DEF Passed
  <2>. QED BY <2>1, <1>1, HookFacts
<1>2. CASE ~ Over(r)
  <2> DEFINE h == [told[r] EXCEPT !.stage = "open", !.response = told[r].response + n]
  <2>1. Passed(r, n) = [told EXCEPT ![r] = h]
    BY <1>2, HookFacts DEF Passed
  <2>2. n \in Nat /\ told[r].response + n \in Nat
    BY HookFacts
  <2>3. /\ h \in Tellings /\ h.original = told[r].original /\ h.stage = "open"
        /\ h.response = told[r].response + n
    BY <2>2, HookFacts DEF Tellings
  <2>. QED BY <2>1, <2>3, <1>2
<1>. QED BY <1>1, <1>2

LEMMA PassedKeeps ==
  ASSUME NEW r \in Requests, NEW h, IF Over(r) THEN h = told[r] ELSE TRUE
  PROVE  Over(r) => h.stage \in {"done", "again"} /\ SameBodies(told[r], h)
BY DEF Over, SameBodies

LEMMA CaptureResponseKeeps ==
  ASSUME PipelineInv, NEW r \in Requests, CaptureResponse(r)
  PROVE  PipelineInv'
<1>1. PICK n \in BodySizes :
        /\ told' = Passed(r, n)
        /\ active' = IF active[r] = None THEN active ELSE [active EXCEPT
              ![r].response = Least(n, MaxBody), ![r].truncated = @ \/ n > MaxBody]
  BY DEF CaptureResponse
<1>2. n \in Nat /\ told[r].response = 0
  BY HookFacts DEF CaptureResponse
<1>3. PICK h \in Tellings :
        /\ Passed(r, n) = [told EXCEPT ![r] = h] /\ h.original = told[r].original
        /\ IF Over(r) THEN h = told[r]
           ELSE h.stage = "open" /\ h.response = told[r].response + n
  BY PassedFacts
<1>4. CASE active[r] = None
  <2>1. active' = [active EXCEPT ![r] = None]
    BY <1>1, <1>4, HookFacts
  <2>2. Sound(r, h, None)
    BY <1>3, HookFacts DEF Sound
  <2>. QED BY <2>1, <2>2, <1>1, <1>3, PassedKeeps, HookFacts, HookStep DEF CaptureResponse, historyVars
<1>5. CASE active[r] # None
  <2> DEFINE a == active[r]
             cut == a.truncated \/ n > MaxBody
             s == [a EXCEPT !.response = Least(n, MaxBody), !.truncated = cut]
  <2>1. a \in States /\ a.response \in Nat /\ a.chunks \in Nat /\ a.truncated \in BOOLEAN
    BY <1>5, HookFacts DEF States
  <2>2. /\ told[r].stage \in {"open", "again"} /\ a.id = r
        /\ ~ Over(r) /\ a.original > 0 =>
              a.truncated \/ (a.original = told[r].original /\ Gathered(a) = 0)
    BY <1>2, <1>5, HookFacts DEF Sound, Over
  <2>3. active' = [active EXCEPT ![r] = s]
    BY <1>1, <1>5, HookFacts
  <2>4. /\ cut \in BOOLEAN /\ Least(n, MaxBody) \in 0..MaxBody
        /\ a.truncated \/ n > MaxBody => cut
    BY <1>2, <2>1, HookFacts
  <2>5. IF Over(r) THEN h.stage = "again" ELSE h.stage = "open" /\ h.response = n
    BY <1>2, <1>3, <2>2 DEF Over
  <2>6. n <= MaxBody => Least(n, MaxBody) = n
    BY <1>2, HookFacts DEF Least
  <2> HIDE DEF cut, a
  <2>7. /\ s \in States /\ s.id = a.id /\ s.original = a.original
        /\ s.response = Least(n, MaxBody) /\ s.chunks = a.chunks /\ s.truncated = cut
    BY <2>1, <2>4 DEF States
  <2> HIDE DEF s
  <2>8. ASSUME ~ Over(r), a.original > 0, ~ s.truncated
        PROVE  s.original = h.original /\ Gathered(s) = h.response
    <3>1. ~ a.truncated /\ n <= MaxBody
      BY <2>4, <2>7, <2>8, <1>2, HookFacts
    <3>2. Gathered(a) = 0 /\ a.original = told[r].original
      BY <3>1, <2>2, <2>8
    <3>3. s.response = n
      BY <3>1, <2>6, <2>7
    <3>4. a.chunks = 0 \/ a.response # 0
      BY <3>2 DEF Gathered
    <3>5. a.chunks = 0
      BY <3>2, <3>4 DEF Gathered
    <3>. QED BY <3>2, <3>3, <3>5, <2>5, <2>7, <2>8, <1>3 DEF Gathered
  <2>9. Sound(r, h, s)
    BY <2>2, <2>5, <2>7, <2>8 DEF Sound
  <2>. QED BY <2>3, <2>7, <2>9, <1>1, <1>3, PassedKeeps, HookFacts, HookStep
           DEF CaptureResponse, historyVars
<1>. QED BY <1>4, <1>5

LEMMA CaptureChunkKeeps ==
  ASSUME PipelineInv, NEW r \in Requests, CaptureChunk(r)
  PROVE  PipelineInv'
<1>1. PICK n \in BodySizes :
        /\ told' = Passed(r, n)
        /\ active' = IF active[r] = None THEN active ELSE [active EXCEPT
              ![r].chunks = @ + Least(n, MaxBody - active[r].chunks),
              ![r].truncated = @ \/ MaxBody - active[r].chunks <= 0 \/ n > MaxBody - active[r].chunks]
  BY DEF CaptureChunk
<1>2. n \in Nat
  BY HookFacts
<1>3. PICK h \in Tellings :
        /\ Passed(r, n) = [told EXCEPT ![r] = h] /\ h.original = told[r].original
        /\ IF Over(r) THEN h = told[r]
           ELSE h.stage = "open" /\ h.response = told[r].response + n
  BY PassedFacts
<1>4. CASE active[r] = None
  <2>1. active' = [active EXCEPT ![r] = None]
    BY <1>1, <1>4, HookFacts
  <2>2. Sound(r, h, None)
    BY <1>3, HookFacts DEF Sound
  <2>. QED BY <2>1, <2>2, <1>1, <1>3, PassedKeeps, HookFacts, HookStep DEF CaptureChunk, historyVars
<1>5. CASE active[r] # None
  <2> DEFINE a == active[r]
             left == MaxBody - a.chunks
             cut == a.truncated \/ left <= 0 \/ n > left
             kept == a.chunks + Least(n, left)
             s == [a EXCEPT !.chunks = kept, !.truncated = cut]
  <2>1. a \in States /\ a.chunks \in 0..MaxBody /\ a.truncated \in BOOLEAN
    BY <1>5, HookFacts DEF States
  <2>2. /\ told[r].stage \in {"open", "again"} /\ a.id = r /\ a.response = 0
        /\ ~ Over(r) /\ a.original > 0 =>
              a.truncated \/ (a.original = told[r].original /\ Gathered(a) = told[r].response)
    BY <1>5, HookFacts DEF Sound, Over, CaptureChunk
  <2>3. active' = [active EXCEPT ![r] = s]
    BY <1>1, <1>5, HookFacts
  <2>4. /\ cut \in BOOLEAN /\ kept \in 0..MaxBody
        /\ a.truncated => cut
        /\ ~ cut => kept = a.chunks + n
    BY <1>2, <2>1, HookFacts DEF Least
  <2>5. IF Over(r) THEN h.stage = "again"
        ELSE h.stage = "open" /\ h.response = told[r].response + n
    BY <1>3, <2>2 DEF Over
  <2> HIDE DEF cut, a, kept
  <2>6. /\ s \in States /\ s.id = a.id /\ s.original = a.original
        /\ s.response = a.response /\ s.chunks = kept /\ s.truncated = cut
    BY <2>1, <2>4 DEF States
  <2> HIDE DEF s
  <2>7. Gathered(a) = a.chunks /\ Gathered(s) = kept
    BY <2>2, <2>6 DEF Gathered
  <2>8. Sound(r, h, s)
    BY <2>2, <2>4, <2>5, <2>6, <2>7, <1>3 DEF Sound
  <2>. QED BY <2>3, <2>6, <2>8, <1>1, <1>3, PassedKeeps, HookFacts, HookStep
           DEF CaptureChunk, historyVars
<1>. QED BY <1>4, <1>5

-----------------------------------------------------------------------------
(* The sender and the collector move copies of records.                     *)

LEMMA IdsOfAppend ==
  ASSUME NEW seq \in Seq(Records), NEW e \in Records
  PROVE  Ids(Append(seq, e)) = Ids(seq) \cup {e.id}
<1>1. Elements(Append(seq, e)) = Elements(seq) \cup {e}
  BY ElementsOfAppend
<1>. QED BY <1>1, IdsAreOfElements

LEMMA IdsOfTail ==
  ASSUME NEW seq \in Seq(Records), seq # <<>>
  PROVE  Ids(seq) = Ids(Tail(seq)) \cup {Head(seq).id}
<1>1. Elements(seq) = Elements(Tail(seq)) \cup {Head(seq)}
  BY ElementsOfTail
<1>. QED BY <1>1, IdsAreOfElements

\* Where the sender may be, and what it then holds.
LEMMA SenderValues ==
  /\ \A p \in {"idle", "returned"} :
        LET snd == [pc |-> p] IN snd \in Waiting /\ HeldBy(snd) = {} /\ snd.pc = p
  /\ \A p \in {"posted", "backoff"}, x \in Records :
        LET snd == [pc |-> p, rec |-> x]
        IN snd \in Carrying /\ HeldBy(snd) = {x} /\ snd.pc = p /\ snd.rec = x
  /\ \A x \in Records, n \in {202, 400, 503} :
        LET snd == [pc |-> "answered", rec |-> x, status |-> n]
        IN /\ snd \in Answering /\ HeldBy(snd) = {x}
           /\ snd.pc = "answered" /\ snd.rec = x /\ snd.status = n
BY DEF Waiting, Carrying, Answering, HeldBy

\* The parts of the invariant that the moves start from.
LEMMA MoveFacts ==
  ASSUME PipelineInv
  PROVE  /\ TypeOK /\ Typed
         /\ queue \in Seq(Records) /\ inbox \in Seq(Records) /\ batch \in Seq(Records)
         /\ late \in [Requests -> Seq(Records)]
         /\ Len(queue) \in Nat /\ Len(inbox) \in Nat /\ Len(batch) \in Nat
         /\ Len(queue) <= QueueSize /\ Len(inbox) <= CollectorQueue /\ Len(batch) <= BatchSize
         /\ accepted \subseteq Requests /\ lost \subseteq accepted
         /\ QueueSize \in Nat /\ CollectorQueue \in Nat /\ BatchSize \in Nat
         /\ QueueSize > 0 /\ CollectorQueue > 0 /\ BatchSize > 0
         /\ faults \in Nat /\ configured \in BOOLEAN /\ stop \in BOOLEAN /\ flushing \in BOOLEAN
         /\ sender \in Waiting \cup Carrying \cup Answering
         /\ \A x \in Known : x.id \in accepted
         /\ Elements(queue) \subseteq Known /\ Elements(inbox) \subseteq Known
         /\ Elements(batch) \subseteq Known /\ Held \subseteq Known
         /\ \A r \in Requests : Elements(late[r]) \subseteq Known
         /\ Carried = {x.id : x \in Held}
         /\ accepted \subseteq Ids(queue) \cup Carried \cup InCollector
<1>1. TypeOK /\ Typed
  BY DEF PipelineInv, Typed
<1>2. /\ queue \in Seq(Records) /\ inbox \in Seq(Records) /\ batch \in Seq(Records)
      /\ late \in [Requests -> Seq(Records)]
      /\ Len(queue) <= QueueSize /\ Len(inbox) <= CollectorQueue /\ Len(batch) <= BatchSize
      /\ accepted \subseteq Requests /\ lost \subseteq accepted
  BY <1>1 DEF TypeOK
<1>3. Len(queue) \in Nat /\ Len(inbox) \in Nat /\ Len(batch) \in Nat
  BY <1>2
<1>4. /\ faults \in Nat /\ configured \in BOOLEAN /\ stop \in BOOLEAN /\ flushing \in BOOLEAN
      /\ sender \in Waiting \cup Carrying \cup Answering
  BY <1>1 DEF Typed
<1>5. \A x \in Known : x.id \in accepted
  BY DEF PipelineInv, Traced
<1>6. /\ Elements(queue) \subseteq Known /\ Elements(inbox) \subseteq Known
      /\ Elements(batch) \subseteq Known /\ Held \subseteq Known
      /\ \A r \in Requests : Elements(late[r]) \subseteq Known
  <2> DEFINE L == UNION {Elements(late[r]) : r \in Requests}
  <2>1. \A r \in Requests : Elements(late[r]) \subseteq L
    BY Zenon
  <2>2. Known = Elements(queue) \cup Held \cup L \cup Elements(inbox) \cup Elements(batch) \cup Rows
    BY Zenon DEF Known
  <2> HIDE DEF L
  <2>. QED BY <2>1, <2>2
<1>7. Carried = {x.id : x \in Held}
  BY DEF Carried, Held, HeldBy
<1>8. accepted \subseteq Ids(queue) \cup Carried \cup InCollector
  BY DEF PipelineInv, AcceptedIsKept, InCollector
<1>9. /\ QueueSize \in Nat /\ CollectorQueue \in Nat /\ BatchSize \in Nat
      /\ QueueSize > 0 /\ CollectorQueue > 0 /\ BatchSize > 0
  BY PipelineAssumption
<1>. QED BY <1>1, <1>2, <1>3, <1>4, <1>5, <1>6, <1>7, <1>8, <1>9

\* What the sender holds at each of its places.
LEMMA SenderHolds ==
  ASSUME PipelineInv
  PROVE  /\ sender.pc \in {"idle", "returned"} => Held = {}
         /\ sender.pc \in {"posted", "backoff", "answered"} =>
               sender.rec \in Records /\ Held = {sender.rec} /\ sender.rec \in Known
         /\ sender.pc \in {"idle", "returned", "posted", "backoff", "answered"}
<1>1. sender \in Waiting \cup Carrying \cup Answering /\ Held \subseteq Known
  BY MoveFacts
<1>2. CASE sender \in Waiting
  BY <1>2 DEF Waiting, Held, HeldBy
<1>3. CASE sender \in Carrying
  <2>1. /\ sender.pc \in {"posted", "backoff"} /\ sender.rec \in Records
        /\ "rec" \in DOMAIN sender
    BY <1>3 DEF Carrying
  <2>. QED BY <2>1, <1>1 DEF Held, HeldBy
<1>4. CASE sender \in Answering
  <2>1. sender.pc = "answered" /\ sender.rec \in Records /\ "rec" \in DOMAIN sender
    BY <1>4 DEF Answering
  <2>. QED BY <2>1, <1>1 DEF Held, HeldBy
<1>. QED BY <1>1, <1>2, <1>3, <1>4

\* What a move of the sender or the collector must establish.
LEMMA MoveStep ==
  ASSUME PipelineInv, UNCHANGED <<hostVars, storeVars, accepted>>,
         /\ queue' \in Seq(Records) /\ inbox' \in Seq(Records) /\ batch' \in Seq(Records)
         /\ late' \in [Requests -> Seq(Records)]
         /\ Len(queue') <= QueueSize /\ Len(inbox') <= CollectorQueue /\ Len(batch') <= BatchSize
         /\ lost' \subseteq accepted
         /\ faults' \in Nat /\ configured' \in BOOLEAN /\ stop' \in BOOLEAN /\ flushing' \in BOOLEAN
         /\ sender' \in Waiting \cup Carrying \cup Answering,
         Ordered', Delivered',
         /\ Elements(queue') \subseteq Known /\ Elements(inbox') \subseteq Known
         /\ Elements(batch') \subseteq Known /\ HeldBy(sender') \subseteq Known
         /\ \A r \in Requests : Elements(late'[r]) \subseteq Known,
         accepted \subseteq Ids(queue') \cup {x.id : x \in HeldBy(sender')} \cup InCollector'
  PROVE  PipelineInv'
<1> USE DEF hostVars, storeVars
<1>1. TypeOK'
  <2>1. sender'.pc \in {"idle", "posted", "answered", "backoff", "returned"}
    <3>1. CASE sender' \in Waiting
      BY <3>1 DEF Waiting
    <3>2. CASE sender' \in Carrying
      BY <3>2 DEF Carrying
    <3>3. CASE sender' \in Answering
      BY <3>3 DEF Answering
    <3>. QED BY <3>1, <3>2, <3>3
  <2>2. /\ active \in [Requests -> States \cup {None}] /\ stored \in [Requests -> Records \cup {None}]
        /\ indexed \in [Requests -> Sessions \cup {None}] /\ summaries \in [Sessions -> Nat]
        /\ accepted \subseteq Requests
    BY MoveFacts DEF TypeOK
  <2>. QED BY <2>1, <2>2 DEF TypeOK
<1>2. Typed'
  <2>1. told \in [Requests -> Tellings]
    BY MoveFacts DEF Typed
  <2>. QED BY <1>1, <2>1 DEF Typed
<1>3. Gathering'
  BY DEF PipelineInv, Gathering
<1>4. Known' \subseteq Known
  <2>1. Rows' = Rows
    BY DEF Rows
  <2> DEFINE L == UNION {Elements(late[r]) : r \in Requests}
             M == UNION {Elements(late'[r]) : r \in Requests}
  <2>2. M \subseteq Known
    BY Zenon
  <2>3. Known = Elements(queue) \cup Held \cup L \cup Elements(inbox) \cup Elements(batch) \cup Rows
    BY Zenon DEF Known
  <2>4. Known' = Elements(queue') \cup HeldBy(sender') \cup M \cup Elements(inbox')
                    \cup Elements(batch') \cup Rows'
    BY Zenon DEF Known, Held
  <2> HIDE DEF L, M
  <2>5. Rows' \subseteq Known
    BY <2>1, <2>3
  <2> HIDE <2>3
  <2>. QED BY <2>2, <2>4, <2>5
<1>5. Traced' /\ OneCopy' /\ AcceptedAreDone'
  BY <1>4, CopiesCarry DEF Over, SameBodies
<1>6. AcceptedIsKept'
  <2>1. Carried' = {x.id : x \in HeldBy(sender')}
    BY DEF Carried, HeldBy
  <2>. QED BY <1>1, <2>1 DEF AcceptedIsKept, InCollector
<1>7. Consistent(Tables)'
  <2>1. Tables' = Tables
    BY DEF Tables
  <2>2. Consistent(Tables')
    BY <2>1 DEF PipelineInv
  <2>. QED BY <2>2
<1>. QED BY <1>2, <1>3, <1>5, <1>6, <1>7 DEF PipelineInv

-----------------------------------------------------------------------------
(* One lemma for each move.                                                 *)

LEMMA ConfigureKeeps == PipelineInv /\ Configure => PipelineInv'
<1> SUFFICES ASSUME PipelineInv, Configure PROVE PipelineInv'
  OBVIOUS
<1> USE DEF hostVars, collectorVars, storeVars, historyVars
<1>1. /\ sender' = Idle /\ configured' = TRUE /\ sender.pc = "returned"
      /\ UNCHANGED <<hostVars, stop, queue, collectorVars, storeVars, historyVars>>
  BY DEF Configure, PipelineInv, Ordered
<1>2. sender' \in Waiting /\ HeldBy(sender') = {} /\ sender'.pc = "idle"
  BY <1>1, SenderValues DEF Idle
<1>3. Held = {}
  BY <1>1, SenderHolds
<1>4. Ordered' /\ Delivered'
  BY <1>1, <1>2 DEF PipelineInv, Ordered, Delivered
<1>5. InCollector' = InCollector
  BY <1>1 DEF InCollector
<1>. QED BY <1>1, <1>2, <1>3, <1>4, <1>5, MoveFacts, MoveStep

LEMMA ShutdownKeeps == PipelineInv /\ Shutdown => PipelineInv'
<1> SUFFICES ASSUME PipelineInv, Shutdown PROVE PipelineInv'
  OBVIOUS
<1> USE DEF hostVars, collectorVars, storeVars, historyVars
<1>1. /\ stop' = TRUE /\ faults' = faults + 1
      /\ UNCHANGED <<hostVars, configured, queue, sender, collectorVars, storeVars, accepted, lost>>
  BY DEF Shutdown, Fault
<1>2. Ordered' /\ Delivered' /\ InCollector' = InCollector
  BY <1>1 DEF PipelineInv, Ordered, Delivered, InCollector
<1>3. HeldBy(sender') = Held /\ faults' \in Nat
  BY <1>1, MoveFacts DEF Held
<1>. QED BY <1>1, <1>2, <1>3, MoveFacts, MoveStep

LEMMA FlushLockedKeeps == PipelineInv /\ FlushLocked => PipelineInv'
<1> SUFFICES ASSUME PipelineInv, FlushLocked PROVE PipelineInv'
  OBVIOUS
<1> USE DEF hostVars, pluginVars, collectorVars, storeVars, historyVars
<1>1. /\ faults' = faults + 1
      /\ UNCHANGED <<hostVars, pluginVars, collectorVars, storeVars, accepted, lost>>
  BY DEF FlushLocked, Fault
<1>2. Ordered' /\ Delivered' /\ InCollector' = InCollector
  BY <1>1 DEF PipelineInv, Ordered, Delivered, InCollector
<1>3. HeldBy(sender') = Held /\ faults' \in Nat
  BY <1>1, MoveFacts DEF Held
<1>. QED BY <1>1, <1>2, <1>3, MoveFacts, MoveStep

LEMMA TakeKeeps == PipelineInv /\ Take => PipelineInv'
<1> SUFFICES ASSUME PipelineInv, Take PROVE PipelineInv'
  OBVIOUS
<1> USE DEF hostVars, collectorVars, storeVars, historyVars
<1>1. /\ sender.pc = "idle" /\ queue # <<>> /\ queue' = Tail(queue)
      /\ sender' = [pc |-> "posted", rec |-> Head(queue)]
      /\ UNCHANGED <<hostVars, configured, stop, collectorVars, storeVars, historyVars>>
  BY DEF Take, At
<1>2. /\ Head(queue) \in Records /\ Tail(queue) \in Seq(Records)
      /\ Len(Tail(queue)) = Len(queue) - 1
      /\ Elements(queue) = Elements(Tail(queue)) \cup {Head(queue)}
      /\ Ids(queue) = Ids(Tail(queue)) \cup {Head(queue).id}
  BY <1>1, MoveFacts, ElementsOfTail, IdsOfTail
<1>3. sender' \in Carrying /\ HeldBy(sender') = {Head(queue)} /\ sender'.pc = "posted"
  <2> DEFINE h == Head(queue)
  <2>1. h \in Records /\ sender' = [pc |-> "posted", rec |-> h]
    BY <1>1, <1>2
  <2> HIDE DEF h
  <2>2. sender' \in Carrying /\ HeldBy(sender') = {h} /\ sender'.pc = "posted"
    BY <2>1, SenderValues
  <2>. QED BY <2>2 DEF h
<1>4. Held = {} /\ {x.id : x \in HeldBy(sender')} = {Head(queue).id}
  BY <1>1, <1>3, SenderHolds
<1>5. Ordered' /\ Delivered' /\ InCollector' = InCollector
  BY <1>1, <1>3 DEF PipelineInv, Ordered, Delivered, InCollector
<1>6. Len(queue') <= QueueSize
  BY <1>1, <1>2, MoveFacts
<1>7. accepted \subseteq Ids(queue') \cup {x.id : x \in HeldBy(sender')} \cup InCollector'
  <2>1. accepted \subseteq Ids(queue) \cup InCollector
    BY <1>4, MoveFacts
  <2>. QED BY <1>1, <1>2, <1>4, <1>5, <2>1
<1>. QED BY <1>1, <1>2, <1>3, <1>5, <1>6, <1>7, MoveFacts, MoveStep

LEMMA SenderStopsKeeps == PipelineInv /\ SenderStops => PipelineInv'
<1> SUFFICES ASSUME PipelineInv, SenderStops PROVE PipelineInv'
  OBVIOUS
<1> USE DEF hostVars, collectorVars, storeVars, historyVars
<1>1. /\ sender.pc \in {"idle", "backoff"} /\ sender' = [pc |-> "returned"]
      /\ lost' = lost \cup Ids(queue) \cup (IF sender.pc = "backoff" THEN {sender.rec.id} ELSE {})
      /\ UNCHANGED <<hostVars, configured, stop, queue, collectorVars, storeVars, accepted, faults>>
  BY DEF SenderStops, At, Ids
<1>2. sender' \in Waiting /\ HeldBy(sender') = {} /\ sender'.pc = "returned"
  BY <1>1, SenderValues
<1>3. Ordered' /\ Delivered'
  BY <1>1, <1>2 DEF PipelineInv, Ordered, Delivered
<1>4. Ids(queue) \subseteq accepted
  BY IdsAreOfElements, MoveFacts
<1>5. sender.pc = "backoff" => Held = {sender.rec} /\ sender.rec.id \in accepted
  BY SenderHolds, MoveFacts
<1>6. lost' \subseteq accepted
  BY <1>1, <1>4, <1>5, MoveFacts
<1>7. InCollector \cup Carried \subseteq InCollector'
  <2>1. lost \subseteq lost' /\ InCollector \subseteq InCollector'
    BY <1>1 DEF InCollector
  <2>2. CASE sender.pc = "backoff"
    <3>1. Carried = {sender.rec.id}
      BY <1>5, <2>2, MoveFacts
    <3>2. sender.rec.id \in lost'
      BY <1>1, <2>2
    <3>. QED BY <2>1, <3>1, <3>2 DEF InCollector
  <2>3. CASE sender.pc = "idle"
    <3>1. Carried = {}
      BY <2>3, SenderHolds, MoveFacts
    <3>. QED BY <2>1, <3>1
  <2>. QED BY <2>2, <2>3, <1>1
<1>8. accepted \subseteq Ids(queue') \cup InCollector'
  BY <1>1, <1>7, MoveFacts
<1>. QED BY <1>1, <1>2, <1>3, <1>6, <1>8, MoveFacts, MoveStep

\* A step that only moves the sender, which keeps its record.
LEMMA SenderKeepsRecord ==
  ASSUME PipelineInv, sender.pc \in {"posted", "answered", "backoff"},
         sender' \in {[pc |-> "posted", rec |-> sender.rec], [pc |-> "backoff", rec |-> sender.rec]},
         faults' \in Nat,
         UNCHANGED <<hostVars, configured, stop, queue, inbox, batch, flushing, storeVars,
                     accepted, lost>>,
         late' \in [Requests -> Seq(Records)],
         \A r \in Requests : Elements(late'[r]) \subseteq Known
  PROVE  PipelineInv'
<1> USE DEF hostVars, storeVars
<1>1. sender.rec \in Records /\ Held = {sender.rec} /\ sender.rec \in Known
  BY SenderHolds
<1>2. /\ sender' \in Carrying /\ HeldBy(sender') = {sender.rec}
      /\ sender'.pc \in {"posted", "backoff"}
  BY <1>1, SenderValues
<1>3. Ordered' /\ Delivered' /\ InCollector' = InCollector
  BY <1>2 DEF PipelineInv, Ordered, Delivered, InCollector
<1>4. accepted \subseteq Ids(queue') \cup {x.id : x \in HeldBy(sender')} \cup InCollector'
  BY <1>1, <1>2, <1>3, MoveFacts
<1>. QED BY <1>1, <1>2, <1>3, <1>4, MoveFacts, MoveStep

LEMMA PostFailsKeeps == PipelineInv /\ PostFails => PipelineInv'
<1> SUFFICES ASSUME PipelineInv, PostFails PROVE PipelineInv'
  OBVIOUS
<1>1. /\ sender.pc \in {"posted", "answered"} /\ sender' = [pc |-> "backoff", rec |-> sender.rec]
      /\ faults' = faults + 1
      /\ UNCHANGED <<hostVars, configured, stop, queue, inbox, batch, flushing, storeVars,
                     accepted, lost>>
  BY DEF PostFails, At, Fault
<1>2. sender.rec \in Records /\ sender.rec \in Known
  BY <1>1, SenderHolds
<1>3. late' \in [Requests -> Seq(Records)] /\ \A r \in Requests : Elements(late'[r]) \subseteq Known
  <2>1. CASE UNCHANGED late
    BY <2>1, MoveFacts
  <2>2. CASE late' = [late EXCEPT ![sender.rec.id] = Append(@, sender.rec)]
    <3> DEFINE q == sender.rec.id
               seq == Append(late[q], sender.rec)
    <3>1. q \in Requests
      BY <1>2 DEF Records
    <3>2. late[q] \in Seq(Records) /\ Elements(late[q]) \subseteq Known
      BY <3>1, MoveFacts
    <3>3. seq \in Seq(Records) /\ Elements(seq) = Elements(late[q]) \cup {sender.rec}
      BY <3>2, <1>2, ElementsOfAppend
    <3>4. late' = [late EXCEPT ![q] = seq]
      BY <2>2
    <3> HIDE DEF seq, q
    <3>5. late' \in [Requests -> Seq(Records)]
      BY <3>1, <3>3, <3>4, MoveFacts
    <3>6. ASSUME NEW r \in Requests PROVE Elements(late'[r]) \subseteq Known
      <4>1. CASE r = q
        BY <4>1, <3>1, <3>2, <3>3, <3>4, <1>2, MoveFacts
      <4>2. CASE r # q
        BY <4>2, <3>4, MoveFacts
      <4>. QED BY <4>1, <4>2
    <3>. QED BY <3>5, <3>6
  <2>. QED BY <2>1, <2>2 DEF PostFails
<1>4. faults' \in Nat
  BY <1>1, MoveFacts
<1>. QED BY <1>1, <1>3, <1>4, SenderKeepsRecord

LEMMA RetryKeeps == PipelineInv /\ Retry => PipelineInv'
<1> SUFFICES ASSUME PipelineInv, Retry PROVE PipelineInv'
  OBVIOUS
<1>1. /\ sender.pc = "backoff" /\ sender' = [pc |-> "posted", rec |-> sender.rec]
      /\ late' = late /\ faults' = faults
      /\ UNCHANGED <<hostVars, configured, stop, queue, inbox, batch, flushing, storeVars,
                     accepted, lost>>
  BY DEF Retry, At, collectorVars, historyVars
<1>. QED BY <1>1, MoveFacts, SenderKeepsRecord

LEMMA AnsweredKeeps == PipelineInv /\ Answered => PipelineInv'
<1> SUFFICES ASSUME PipelineInv, Answered PROVE PipelineInv'
  OBVIOUS
<1>1. /\ sender.pc = "answered" /\ late' = late /\ faults' = faults
      /\ sender' = IF sender.status = 202 THEN Idle ELSE [pc |-> "backoff", rec |-> sender.rec]
      /\ UNCHANGED <<hostVars, configured, stop, queue, inbox, batch, flushing, storeVars,
                     accepted, lost>>
  BY DEF Answered, At, collectorVars, historyVars
<1>2. CASE sender.status # 202
  BY <1>1, <1>2, MoveFacts, SenderKeepsRecord
<1>3. CASE sender.status = 202
  <2> USE DEF hostVars, storeVars
  <2>1. sender' \in Waiting /\ HeldBy(sender') = {} /\ sender'.pc = "idle"
    BY <1>1, <1>3, SenderValues DEF Idle
  <2>2. Ordered' /\ Delivered' /\ InCollector' = InCollector
    BY <1>1, <2>1 DEF PipelineInv, Ordered, Delivered, InCollector
  <2>3. sender.rec.id \in InCollector /\ Held = {sender.rec}
    BY <1>1, <1>3, SenderHolds DEF PipelineInv, Delivered
  <2>4. accepted \subseteq Ids(queue') \cup InCollector'
    BY <1>1, <2>2, <2>3, MoveFacts
  <2>. QED BY <1>1, <2>1, <2>2, <2>4, MoveFacts, MoveStep
<1>. QED BY <1>2, <1>3

\* The handler queues a record or refuses it.
LEMMA IngestedFacts ==
  ASSUME PipelineInv, NEW rec \in Known, Ingested(rec)
  PROVE  /\ inbox' \in Seq(Records) /\ Len(inbox') <= CollectorQueue
         /\ Elements(inbox') \subseteq Known /\ Ids(inbox) \subseteq Ids(inbox')
         /\ IngestStatus(rec) \in {202, 400, 503}
         /\ IngestStatus(rec) = 202 => rec.id \in Ids(inbox')
<1>1. rec \in Records
  BY DEF PipelineInv, Traced
<1>2. IngestStatus(rec) \in {202, 400, 503}
  BY DEF IngestStatus
<1>3. CASE IngestStatus(rec) = 202
  <2>1. Len(inbox) < CollectorQueue
    <3>1. CASE rec.id \in Rejected
      BY <1>3, <3>1 DEF IngestStatus
    <3>2. CASE rec.id \notin Rejected
      BY <1>3, <3>2 DEF IngestStatus
    <3>. QED BY <3>1, <3>2
  <2>2. inbox' = Append(inbox, rec)
    BY <1>3 DEF Ingested
  <2>3. /\ inbox' \in Seq(Records) /\ Len(inbox') = Len(inbox) + 1
        /\ Elements(inbox') = Elements(inbox) \cup {rec} /\ Ids(inbox') = Ids(inbox) \cup {rec.id}
    BY <1>1, <2>2, MoveFacts, ElementsOfAppend, IdsOfAppend
  <2>4. Len(inbox') <= CollectorQueue
    BY <2>1, <2>3, MoveFacts
  <2>. QED BY <1>2, <2>3, <2>4, MoveFacts
<1>4. CASE IngestStatus(rec) # 202
  <2>1. inbox' = inbox
    BY <1>4 DEF Ingested
  <2>. QED BY <1>2, <1>4, <2>1, MoveFacts
<1>. QED BY <1>3, <1>4

LEMMA IngestKeeps == PipelineInv /\ Ingest => PipelineInv'
<1> SUFFICES ASSUME PipelineInv, Ingest PROVE PipelineInv'
  OBVIOUS
<1> USE DEF hostVars, storeVars, historyVars
<1> DEFINE rec == sender.rec
           status == IngestStatus(rec)
<1>1. /\ sender.pc = "posted" /\ Ingested(rec)
      /\ sender' = [pc |-> "answered", rec |-> rec, status |-> status]
      /\ UNCHANGED <<hostVars, configured, stop, queue, late, batch, flushing, storeVars, historyVars>>
  BY DEF Ingest, At
<1>2. rec \in Records /\ rec \in Known /\ Held = {rec}
  BY <1>1, SenderHolds
<1>3. /\ inbox' \in Seq(Records) /\ Len(inbox') <= CollectorQueue
      /\ Elements(inbox') \subseteq Known /\ Ids(inbox) \subseteq Ids(inbox')
      /\ status \in {202, 400, 503} /\ (status = 202 => rec.id \in Ids(inbox'))
  BY <1>1, <1>2, IngestedFacts
<1> HIDE DEF rec, status
<1>4. /\ sender' \in Answering /\ HeldBy(sender') = {rec} /\ sender'.pc = "answered"
      /\ sender'.rec = rec /\ sender'.status = status
  <2>1. sender' = [pc |-> "answered", rec |-> rec, status |-> status]
    BY <1>1
  <2>2. rec \in Records /\ status \in {202, 400, 503}
    BY <1>2, <1>3
  <2>3. sender' \in Answering
    BY <2>1, <2>2 DEF Answering
  <2>4. sender'.pc = "answered" /\ sender'.rec = rec /\ sender'.status = status
    BY <2>1
  <2>5. HeldBy(sender') = {rec}
    BY <2>1 DEF HeldBy
  <2>. QED BY <2>3, <2>4, <2>5
<1>5. Ordered'
  BY <1>1 DEF PipelineInv, Ordered
<1>6. InCollector \subseteq InCollector' /\ Ids(inbox') \subseteq InCollector'
  BY <1>1, <1>3 DEF InCollector
<1>7. Delivered'
  BY <1>3, <1>4, <1>6 DEF Delivered
<1>8. accepted \subseteq Ids(queue') \cup {x.id : x \in HeldBy(sender')} \cup InCollector'
  <2>1. {x.id : x \in HeldBy(sender')} = Carried
    BY <1>2, <1>4, MoveFacts
  <2>. QED BY <1>1, <1>6, <2>1, MoveFacts
<1>9. {rec} \subseteq Known
  BY <1>2
<1>. QED BY <1>1, <1>3, <1>4, <1>5, <1>7, <1>8, <1>9, MoveFacts, MoveStep

\* A step of the collector that leaves the sender where it is.
LEMMA CollectorStep ==
  ASSUME PipelineInv, UNCHANGED <<hostVars, pluginVars, storeVars, accepted>>,
         /\ inbox' \in Seq(Records) /\ batch' \in Seq(Records)
         /\ late' \in [Requests -> Seq(Records)]
         /\ Len(inbox') <= CollectorQueue /\ Len(batch') <= BatchSize
         /\ lost' \subseteq accepted /\ faults' \in Nat /\ flushing' \in BOOLEAN,
         ~flushing' => Len(batch') < BatchSize,
         /\ Elements(inbox') \subseteq Known /\ Elements(batch') \subseteq Known
         /\ \A r \in Requests : Elements(late'[r]) \subseteq Known,
         InCollector \subseteq InCollector'
  PROVE  PipelineInv'
<1> USE DEF hostVars, pluginVars, storeVars
<1>1. Ordered' /\ Delivered'
  BY DEF PipelineInv, Ordered, Delivered
<1>2. HeldBy(sender') = Held
  BY DEF Held
<1>3. accepted \subseteq Ids(queue') \cup {x.id : x \in HeldBy(sender')} \cup InCollector'
  BY <1>2, MoveFacts
<1>. QED BY <1>1, <1>2, <1>3, MoveFacts, MoveStep

LEMMA IngestLateKeeps ==
  ASSUME PipelineInv, NEW r \in Requests, IngestLate(r)
  PROVE  PipelineInv'
<1> USE DEF storeVars, historyVars
<1> DEFINE rec == Head(late[r])
<1>1. /\ late[r] # <<>> /\ Ingested(rec) /\ late' = [late EXCEPT ![r] = Tail(late[r])]
      /\ UNCHANGED <<hostVars, pluginVars, batch, flushing, storeVars, historyVars>>
  BY MoveFacts DEF IngestLate
<1>2. late[r] \in Seq(Records) /\ Elements(late[r]) \subseteq Known
  BY MoveFacts
<1>3. /\ rec \in Records /\ Tail(late[r]) \in Seq(Records)
      /\ Elements(late[r]) = Elements(Tail(late[r])) \cup {rec}
  BY <1>1, <1>2, ElementsOfTail
<1>4. /\ inbox' \in Seq(Records) /\ Len(inbox') <= CollectorQueue
      /\ Elements(inbox') \subseteq Known /\ Ids(inbox) \subseteq Ids(inbox')
  <2>1. rec \in Known
    BY <1>2, <1>3
  <2>. QED BY <2>1, <1>1, IngestedFacts
<1> HIDE DEF rec
<1>5. late' \in [Requests -> Seq(Records)]
  BY <1>1, <1>3, MoveFacts
<1>6. ASSUME NEW q \in Requests PROVE Elements(late'[q]) \subseteq Known
  <2>1. CASE q = r
    <3>1. late'[q] = Tail(late[r])
      BY <2>1, <1>1, MoveFacts
    <3>. QED BY <3>1, <1>2, <1>3
  <2>2. CASE q # r
    BY <2>2, <1>1, MoveFacts
  <2>. QED BY <2>1, <2>2
<1>7. InCollector \subseteq InCollector'
  BY <1>1, <1>4 DEF InCollector
<1>8. ~flushing' => Len(batch') < BatchSize
  BY <1>1 DEF PipelineInv, Ordered
<1>. QED BY <1>1, <1>4, <1>5, <1>6, <1>7, <1>8, MoveFacts, CollectorStep

LEMMA WriterTakesKeeps == PipelineInv /\ WriterTakes => PipelineInv'
<1> SUFFICES ASSUME PipelineInv, WriterTakes PROVE PipelineInv'
  OBVIOUS
<1> USE DEF storeVars, historyVars
<1> DEFINE rec == Head(inbox)
<1>1. /\ ~flushing /\ inbox # <<>> /\ batch' = Append(batch, rec) /\ inbox' = Tail(inbox)
      /\ flushing' = (Len(batch) + 1 >= BatchSize)
      /\ UNCHANGED <<hostVars, pluginVars, late, storeVars, historyVars>>
  BY DEF WriterTakes
<1>2. /\ rec \in Records /\ inbox' \in Seq(Records) /\ Len(inbox') = Len(inbox) - 1
      /\ Elements(inbox) = Elements(inbox') \cup {rec} /\ Ids(inbox) = Ids(inbox') \cup {rec.id}
  BY <1>1, MoveFacts, ElementsOfTail, IdsOfTail
<1> HIDE DEF rec
<1>3. /\ batch' \in Seq(Records) /\ Len(batch') = Len(batch) + 1
      /\ Elements(batch') = Elements(batch) \cup {rec} /\ Ids(batch') = Ids(batch) \cup {rec.id}
  BY <1>1, <1>2, MoveFacts, ElementsOfAppend, IdsOfAppend
<1>4. Len(batch) < BatchSize
  BY <1>1 DEF PipelineInv, Ordered
<1>5. /\ Len(batch') <= BatchSize /\ Len(inbox') <= CollectorQueue
      /\ flushing' \in BOOLEAN /\ (~flushing' => Len(batch') < BatchSize)
  <2>1. Len(batch') <= BatchSize /\ Len(inbox') <= CollectorQueue
    BY <1>2, <1>3, <1>4, MoveFacts
  <2>2. flushing' = (Len(batch') >= BatchSize) /\ Len(batch') \in Nat /\ BatchSize \in Nat
    BY <1>1, <1>3, MoveFacts
  <2>3. flushing' \in BOOLEAN
    BY <2>2
  <2>4. CASE Len(batch') >= BatchSize
    BY <2>1, <2>2, <2>4
  <2>5. CASE ~(Len(batch') >= BatchSize)
    BY <2>1, <2>2, <2>3, <2>5
  <2>. QED BY <2>4, <2>5
<1>6. Elements(inbox') \subseteq Known /\ Elements(batch') \subseteq Known
  BY <1>2, <1>3, MoveFacts
<1>7. InCollector \subseteq InCollector'
  BY <1>1, <1>2, <1>3 DEF InCollector
<1>. QED BY <1>1, <1>2, <1>3, <1>5, <1>6, <1>7, MoveFacts, CollectorStep

LEMMA WriterTicksKeeps == PipelineInv /\ WriterTicks => PipelineInv'
<1> SUFFICES ASSUME PipelineInv, WriterTicks PROVE PipelineInv'
  OBVIOUS
<1> USE DEF storeVars, historyVars
<1>1. /\ flushing' = TRUE
      /\ UNCHANGED <<hostVars, pluginVars, late, inbox, batch, storeVars, historyVars>>
  BY DEF WriterTicks
<1>2. InCollector' = InCollector
  BY <1>1 DEF InCollector
<1>. QED BY <1>1, <1>2, MoveFacts, CollectorStep

LEMMA FlushDropsKeeps == PipelineInv /\ FlushDrops => PipelineInv'
<1> SUFFICES ASSUME PipelineInv, FlushDrops PROVE PipelineInv'
  OBVIOUS
<1> USE DEF storeVars
<1>1. /\ faults' = faults \/ faults' = faults + 1
      /\ lost' = lost \cup Ids(batch) /\ batch' = <<>> /\ flushing' = FALSE
      /\ UNCHANGED <<hostVars, pluginVars, late, inbox, storeVars, accepted>>
  BY DEF FlushDrops, Fault, BatchIds, Ids
<1>2. Ids(batch) \subseteq accepted
  BY IdsAreOfElements, MoveFacts
<1>3. /\ batch' \in Seq(Records) /\ Elements(batch') = {} /\ Len(batch') = 0 /\ faults' \in Nat
  BY <1>1, EmptySequence, MoveFacts
<1>4. lost' \subseteq accepted /\ Len(batch') < BatchSize /\ Len(batch') <= BatchSize
  BY <1>1, <1>2, <1>3, MoveFacts
<1>5. InCollector \subseteq InCollector'
  BY <1>1 DEF InCollector
<1>. QED BY <1>1, <1>3, <1>4, <1>5, MoveFacts, CollectorStep

LEMMA CollectorRestartsKeeps == PipelineInv /\ CollectorRestarts => PipelineInv'
<1> SUFFICES ASSUME PipelineInv, CollectorRestarts PROVE PipelineInv'
  OBVIOUS
<1> USE DEF hostVars, storeVars
<1>1. /\ faults' = faults + 1 /\ inbox' = <<>> /\ batch' = <<>> /\ flushing' = FALSE
      /\ late' = [r \in Requests |-> <<>>]
      /\ sender' = IF sender.pc \in {"posted", "answered"} THEN [pc |-> "backoff", rec |-> sender.rec]
                   ELSE sender
      /\ lost' = lost \cup Ids(batch) \cup Ids(inbox)
      /\ UNCHANGED <<hostVars, configured, stop, queue, storeVars, accepted>>
  BY DEF CollectorRestarts, Fault, At, BatchIds, Ids
<1>2. Ids(batch) \subseteq accepted /\ Ids(inbox) \subseteq accepted
  BY IdsAreOfElements, MoveFacts
<1>3. /\ <<>> \in Seq(Records) /\ Elements(<<>>) = {} /\ Len(<<>>) = 0
      /\ faults' \in Nat /\ lost' \subseteq accepted
  BY <1>1, <1>2, EmptySequence, MoveFacts
<1>4. /\ late' \in [Requests -> Seq(Records)] /\ \A r \in Requests : Elements(late'[r]) = {}
  BY <1>1, <1>3
<1>5. /\ sender' \in Waiting \cup Carrying \cup Answering /\ HeldBy(sender') = Held
      /\ sender'.pc # "answered" /\ (sender.pc = "returned" => sender'.pc = "returned")
  <2>1. CASE sender.pc \in {"posted", "answered"}
    <3>1. sender.rec \in Records /\ Held = {sender.rec}
      BY <2>1, SenderHolds
    <3>. QED BY <2>1, <3>1, <1>1, SenderValues
  <2>2. CASE sender.pc \notin {"posted", "answered"}
    BY <2>2, <1>1, MoveFacts DEF Held
  <2>. QED BY <2>1, <2>2
<1>6. Ordered' /\ Delivered'
  BY <1>1, <1>3, <1>5, MoveFacts DEF PipelineInv, Ordered, Delivered
<1>7. InCollector \subseteq InCollector'
  BY <1>1 DEF InCollector
<1>8. accepted \subseteq Ids(queue') \cup {x.id : x \in HeldBy(sender')} \cup InCollector'
  BY <1>1, <1>5, <1>7, MoveFacts
<1>9. /\ queue' \in Seq(Records) /\ inbox' \in Seq(Records) /\ batch' \in Seq(Records)
      /\ Len(queue') <= QueueSize /\ Len(inbox') <= CollectorQueue /\ Len(batch') <= BatchSize
      /\ configured' \in BOOLEAN /\ stop' \in BOOLEAN /\ flushing' \in BOOLEAN
  <2>1. /\ inbox' = <<>> /\ batch' = <<>> /\ queue' = queue
        /\ flushing' = FALSE /\ configured' = configured /\ stop' = stop
    BY <1>1
  <2>2. 0 <= CollectorQueue /\ 0 <= BatchSize
    BY MoveFacts
  <2>3. configured' \in BOOLEAN /\ stop' \in BOOLEAN /\ flushing' \in BOOLEAN
    BY <2>1, MoveFacts
  <2>4. /\ inbox' \in Seq(Records) /\ Len(inbox') <= CollectorQueue
        /\ batch' \in Seq(Records) /\ Len(batch') <= BatchSize
    BY <1>3, <2>1, <2>2
  <2>5. queue' \in Seq(Records) /\ Len(queue') <= QueueSize
    BY <2>1, MoveFacts
  <2>. QED BY <2>3, <2>4, <2>5
<1>10. /\ Elements(queue') \subseteq Known /\ Elements(inbox') \subseteq Known
       /\ Elements(batch') \subseteq Known /\ HeldBy(sender') \subseteq Known
       /\ \A r \in Requests : Elements(late'[r]) \subseteq Known
  <2>1. Elements(inbox') = {} /\ Elements(batch') = {} /\ Elements(queue') = Elements(queue)
    BY <1>1, <1>3
  <2>2. \A r \in Requests : Elements(late'[r]) \subseteq Known
    BY <1>4
  <2>. QED BY <1>5, <2>1, <2>2, MoveFacts
<1>11. UNCHANGED <<hostVars, storeVars, accepted>>
  BY <1>1
<1>. QED BY <1>3, <1>4, <1>5, <1>6, <1>8, <1>9, <1>10, <1>11, MoveStep

LEMMA FlushCommitsKeeps == PipelineInv /\ FlushCommits => PipelineInv'
<1> SUFFICES ASSUME PipelineInv, FlushCommits PROVE PipelineInv'
  OBVIOUS
<1> USE DEF hostVars, pluginVars, historyVars
<1> DEFINE t == PutBatch[Len(batch)]
<1>1. /\ stored' = t.stored /\ indexed' = t.indexed /\ summaries' = t.summaries
      /\ batch' = <<>> /\ flushing' = FALSE
      /\ UNCHANGED <<hostVars, pluginVars, late, inbox, historyVars>>
  BY DEF FlushCommits
<1>2. Rows \subseteq Known /\ Known \subseteq Records
  BY Zenon DEF Known, PipelineInv, Traced
<1>3. TablesOf(Known, Tables)
  <2>1. /\ stored \in [Requests -> Records \cup {None}]
        /\ indexed \in [Requests -> Sessions \cup {None}] /\ summaries \in [Sessions -> Nat]
    BY MoveFacts DEF TypeOK
  <2>2. \A r \in Requests : stored[r] \in Known \cup {None}
    BY <1>2 DEF Rows
  <2>3. stored \in [Requests -> Known \cup {None}]
    BY <2>1, <2>2
  <2>4. /\ Tables.stored = stored /\ Tables.indexed = indexed /\ Tables.summaries = summaries
        /\ Tables = [stored |-> Tables.stored, indexed |-> Tables.indexed,
                     summaries |-> Tables.summaries]
    BY DEF Tables
  <2>5. Consistent(Tables)
    BY DEF PipelineInv
  <2>. QED BY <2>1, <2>3, <2>4, <2>5 DEF TablesOf
<1>4. /\ TablesOf(Known, t)
      /\ \A r \in Requests : stored[r] # None => t.stored[r] # None
      /\ \A r \in Ids(batch) : t.stored[r] # None
  <2>1. \A x, y \in Known : x.id = y.id => x = y
    BY DEF PipelineInv, OneCopy
  <2>. QED BY <2>1, <1>2, <1>3, MoveFacts, PutBatchKeeps
<1> HIDE DEF t
<1>5. /\ stored' \in [Requests -> Known \cup {None}]
      /\ indexed' \in [Requests -> Sessions \cup {None}] /\ summaries' \in [Sessions -> Nat]
      /\ Tables' = t /\ Consistent(t)
  <2>1. /\ t = [stored |-> t.stored, indexed |-> t.indexed, summaries |-> t.summaries]
        /\ t.stored \in [Requests -> Known \cup {None}]
        /\ t.indexed \in [Requests -> Sessions \cup {None}]
        /\ t.summaries \in [Sessions -> Nat] /\ Consistent(t)
    BY <1>4 DEF TablesOf
  <2>2. Tables' = [stored |-> t.stored, indexed |-> t.indexed, summaries |-> t.summaries]
    BY <1>1 DEF Tables
  <2>. QED BY <1>1, <2>1, <2>2
<1>6. batch' \in Seq(Records) /\ Elements(batch') = {} /\ Ids(batch') = {} /\ Len(batch') = 0
  BY <1>1, EmptySequence
<1>7. TypeOK'
  <2>1. stored' \in [Requests -> Records \cup {None}]
    BY <1>2, <1>5
  <2>2. /\ active \in [Requests -> States \cup {None}]
        /\ sender.pc \in {"idle", "posted", "answered", "backoff", "returned"}
    BY MoveFacts DEF TypeOK
  <2>3. /\ queue' = queue /\ inbox' = inbox /\ late' = late /\ active' = active
        /\ sender' = sender /\ accepted' = accepted /\ lost' = lost
    BY <1>1
  <2>4. Len(batch') <= BatchSize
    BY <1>6, MoveFacts
  <2>. QED BY <1>5, <1>6, <2>1, <2>2, <2>3, <2>4, MoveFacts DEF TypeOK
<1>8. Typed'
  BY <1>1, <1>7 DEF PipelineInv, Typed
<1>9. Ordered' /\ Gathering'
  <2>1. Len(batch') < BatchSize
    BY <1>6, MoveFacts
  <2>. QED BY <1>1, <2>1 DEF PipelineInv, Ordered, Gathering
<1>10. Known' \subseteq Known
  <2> DEFINE L == UNION {Elements(late[r]) : r \in Requests}
  <2>1. Known = Elements(queue) \cup Held \cup L \cup Elements(inbox) \cup Elements(batch) \cup Rows
    BY Zenon DEF Known
  <2>2. /\ queue' = queue /\ inbox' = inbox /\ late' = late /\ sender' = sender
    BY <1>1
  <2>3. Known' = Elements(queue) \cup Held \cup L \cup Elements(inbox) \cup Elements(batch') \cup Rows'
    BY <2>2, Zenon DEF Known, Held
  <2>4. Rows' \subseteq Known
    BY <1>5 DEF Rows
  <2> HIDE DEF L
  <2>. QED BY <1>6, <2>1, <2>3, <2>4
<1>11. Traced' /\ OneCopy' /\ AcceptedAreDone'
  <2>1. told' = told /\ accepted' = accepted
    BY <1>1
  <2>. QED BY <1>10, <2>1, CopiesCarry DEF Over, SameBodies
<1>12. InCollector \subseteq InCollector'
  <2>1. Ids(batch) \subseteq Requests
    BY IdsAreOfElements, MoveFacts
  <2>2. Ids(inbox') = Ids(inbox) /\ lost' = lost
    BY <1>1
  <2>3. \A r \in Requests : stored[r] # None \/ r \in Ids(batch) => stored'[r] # None
    BY <1>1, <1>4
  <2>. QED BY <2>1, <2>2, <2>3 DEF InCollector
<1>13. Delivered'
  BY <1>1, <1>12 DEF PipelineInv, Delivered
<1>14. AcceptedIsKept'
  <2>1. queue' = queue /\ Carried' = Carried /\ accepted' = accepted
    BY <1>1 DEF Carried
  <2>2. accepted' \subseteq Ids(queue') \cup Carried' \cup InCollector'
    BY <2>1, <1>12, MoveFacts
  <2>. QED BY <1>7, <2>2 DEF AcceptedIsKept, InCollector
<1>15. Consistent(Tables)'
  <2>1. Consistent(Tables')
    BY <1>5
  <2>. QED BY <2>1
<1>. QED BY <1>8, <1>9, <1>11, <1>13, <1>14, <1>15 DEF PipelineInv

LEMMA CompleteKeeps ==
  ASSUME PipelineInv, NEW r \in Requests, Complete(r)
  PROVE  PipelineInv'
<1> USE DEF collectorVars, storeVars
<1> DEFINE a == IF active[r] = None THEN Fresh(r) ELSE active[r]
<1>1. PICK hint \in Threads \cup {r} : Offer(Completed(a, hint))
  BY DEF Complete
<1> DEFINE rec == Completed(a, hint)
           h == [told[r] EXCEPT !.stage = "done"]
<1>2. /\ ~ Over(r) /\ told' = [told EXCEPT ![r] = h]
      /\ active' = [active EXCEPT ![r] = None]
      /\ UNCHANGED <<configured, stop, sender, collectorVars, storeVars, lost, faults>>
  BY HookFacts DEF Complete
<1>3. /\ h \in Tellings /\ h.stage = "done" /\ h.original = told[r].original
      /\ h.response = told[r].response
  BY HookFacts DEF Tellings
<1>4. /\ a \in States /\ a.id = r
      /\ a.original > 0 =>
            a.truncated \/ (a.original = told[r].original /\ Gathered(a) = told[r].response)
  <2>1. CASE active[r] = None
    <3>1. Fresh(r).original = 0 /\ Fresh(r).id = r
      BY DEF Fresh
    <3>. QED BY <2>1, <3>1, HookFacts
  <2>2. CASE active[r] # None
    BY <2>2, <1>2, HookFacts DEF Sound, Over
  <2>. QED BY <2>1, <2>2
<1> HIDE DEF a, h
<1>5. /\ rec \in Records /\ rec.id = r /\ rec.original = a.original
      /\ rec.response = Gathered(a) /\ rec.truncated = a.truncated
  <2>1. (IF a.session \in Threads THEN a.session ELSE hint) \in Sessions
    BY HookFacts
  <2>2. Gathered(a) \in 0..MaxBody
    BY <1>4 DEF Gathered, States
  <2>3. /\ rec.id = a.id /\ rec.original = a.original /\ rec.truncated = a.truncated
        /\ rec.response = Gathered(a)
    BY DEF Completed, Gathered
  <2>4. a.original \in 0..MaxBody /\ a.upstream \in 0..MaxBody /\ a.truncated \in BOOLEAN
    BY <1>4 DEF States
  <2>5. rec = [id |-> a.id, session |-> IF a.session \in Threads THEN a.session ELSE hint,
               original |-> a.original, upstream |-> a.upstream,
               response |-> Gathered(a), truncated |-> a.truncated]
    BY DEF Completed, Gathered
  <2>6. rec \in Records
    BY <1>4, <2>1, <2>2, <2>4, <2>5 DEF Records
  <2>. QED BY <1>4, <2>3, <2>6
<1> HIDE DEF rec
<1>6. r \notin accepted /\ \A x \in Known : x.id # r
  BY <1>2, MoveFacts DEF PipelineInv, AcceptedAreDone
<1>7. told' \in [Requests -> Tellings] /\ active' \in [Requests -> States \cup {None}]
  BY <1>2, <1>3, HookFacts
<1>8. told'[r] = h /\ \A q \in Requests : q # r => told'[q] = told[q] /\ active'[q] = active[q]
  BY <1>2, HookFacts
<1>9. Gathering'
  <2> SUFFICES ASSUME NEW q \in Requests PROVE Sound(q, told'[q], active'[q])
    BY DEF Gathering
  <2>1. CASE q = r
    <3>1. active'[q] = None
      BY <2>1, <1>2, HookFacts
    <3>. QED BY <2>1, <3>1, <1>3, <1>8 DEF Sound
  <2>2. CASE q # r
    BY <2>2, <1>8 DEF PipelineInv, Gathering
  <2>. QED BY <2>1, <2>2
<1>10. CASE configured /\ Len(queue) < QueueSize
  <2>1. queue' = Append(queue, rec) /\ accepted' = accepted \cup {r}
    BY <1>1, <1>5, <1>10 DEF Offer, rec
  <2>2. /\ queue' \in Seq(Records) /\ Len(queue') = Len(queue) + 1
        /\ Elements(queue') = Elements(queue) \cup {rec} /\ Ids(queue') = Ids(queue) \cup {r}
    BY <1>5, <2>1, MoveFacts, ElementsOfAppend, IdsOfAppend
  <2>3. Len(queue') <= QueueSize /\ accepted' \subseteq Requests /\ lost' \subseteq accepted'
    BY <1>2, <1>10, <2>1, <2>2, MoveFacts
  <2>4. TypeOK'
    BY <1>2, <1>7, <2>2, <2>3 DEF PipelineInv, Typed, TypeOK
  <2>5. Typed' /\ Ordered'
    BY <1>2, <1>7, <2>4 DEF PipelineInv, Typed, Ordered
  <2>6. Known' = Known \cup {rec}
    <3> DEFINE L == UNION {Elements(late[q]) : q \in Requests}
    <3>1. Known = Elements(queue) \cup Held \cup L \cup Elements(inbox) \cup Elements(batch) \cup Rows
      BY Zenon DEF Known
    <3>2. inbox' = inbox /\ batch' = batch /\ late' = late /\ sender' = sender /\ stored' = stored
      BY <1>2
    <3>3. Known' = Elements(queue') \cup Held \cup L \cup Elements(inbox) \cup Elements(batch) \cup Rows
      BY <3>2, Zenon DEF Known, Held, Rows
    <3> HIDE DEF L
    <3>. QED BY <3>1, <3>3, <2>2
  <2>7. AcceptedAreDone'
    BY <1>3, <1>8, <2>1, MoveFacts DEF PipelineInv, AcceptedAreDone, Over
  <2>8. OneCopy'
    BY <1>5, <1>6, <2>6 DEF PipelineInv, OneCopy
  <2>9. Traced'
    <3> SUFFICES ASSUME NEW x \in Known' PROVE x \in Records /\ x.id \in accepted' /\ Flagged(x)'
      BY DEF Traced
    <3>1. CASE x = rec
      BY <3>1, <1>3, <1>4, <1>5, <1>8, <2>1 DEF Flagged
    <3>2. CASE x # rec
      <4>1. x \in Known
        BY <3>2, <2>6
      <4>2. x \in Records /\ x.id \in accepted /\ Flagged(x)
        BY <4>1 DEF PipelineInv, Traced
      <4>3. told'[x.id] = told[x.id]
        BY <4>1, <4>2, <1>6, <1>8, MoveFacts
      <4>. QED BY <4>2, <4>3, <2>1 DEF Flagged
    <3>. QED BY <3>1, <3>2
  <2>10. InCollector' = InCollector
    BY <1>2 DEF InCollector
  <2>11. Delivered'
    BY <1>2, <2>10 DEF PipelineInv, Delivered
  <2>12. AcceptedIsKept'
    <3>1. Carried' = Carried
      BY <1>2 DEF Carried
    <3>2. accepted' \subseteq Ids(queue') \cup Carried' \cup InCollector'
      BY <2>1, <2>2, <2>10, <3>1, MoveFacts
    <3>. QED BY <2>4, <3>2 DEF AcceptedIsKept, InCollector
  <2>13. Consistent(Tables)'
    <3>1. Tables' = Tables
      BY <1>2 DEF Tables
    <3>2. Consistent(Tables')
      BY <3>1 DEF PipelineInv
    <3>. QED BY <3>2
  <2>. QED BY <1>9, <2>5, <2>7, <2>8, <2>9, <2>11, <2>12, <2>13 DEF PipelineInv
<1>11. CASE ~(configured /\ Len(queue) < QueueSize)
  <2>1. queue' = queue /\ accepted' = accepted
    BY <1>1, <1>11 DEF Offer
  <2>2. TypeOK'
    BY <1>2, <1>7, <2>1 DEF PipelineInv, Typed, TypeOK
  <2>3. Typed' /\ Ordered'
    BY <1>2, <1>7, <2>1, <2>2 DEF PipelineInv, Typed, Ordered
  <2>4. Known' = Known
    BY <1>2, <2>1 DEF Known, Held, Rows
  <2>5. Traced' /\ OneCopy' /\ AcceptedAreDone'
    BY <1>2, <1>8, <2>1, <2>4, CopiesCarry DEF Over, SameBodies
  <2>6. InCollector' = InCollector
    BY <1>2 DEF InCollector
  <2>7. Delivered'
    BY <1>2, <2>6 DEF PipelineInv, Delivered
  <2>8. AcceptedIsKept'
    <3>1. Carried' = Carried
      BY <1>2 DEF Carried
    <3>2. accepted' \subseteq Ids(queue') \cup Carried' \cup InCollector'
      BY <2>1, <2>6, <3>1, MoveFacts
    <3>. QED BY <2>2, <3>2 DEF AcceptedIsKept, InCollector
  <2>9. Consistent(Tables)'
    <3>1. Tables' = Tables
      BY <1>2 DEF Tables
    <3>2. Consistent(Tables')
      BY <3>1 DEF PipelineInv
    <3>. QED BY <3>2
  <2>. QED BY <1>9, <2>3, <2>5, <2>7, <2>8, <2>9 DEF PipelineInv
<1>. QED BY <1>10, <1>11

-----------------------------------------------------------------------------
(* The theorems.                                                            *)

\* Every step keeps the invariant.
LEMMA NextPipeline == PipelineInv /\ [Next]_vars => PipelineInv'
<1> SUFFICES ASSUME PipelineInv, [Next]_vars PROVE PipelineInv'
  OBVIOUS
<1>1. ASSUME NEW r \in Requests, Hooks(r) PROVE PipelineInv'
  BY <1>1, CaptureBeforeKeeps, CaptureAfterKeeps, CaptureResponseKeeps, CaptureChunkKeeps,
     CompleteKeeps DEF Hooks
<1>2. ASSUME NEW r \in Requests, IngestLate(r) PROVE PipelineInv'
  BY <1>2, IngestLateKeeps
<1>3. CASE Configure \/ Shutdown
  BY <1>3, ConfigureKeeps, ShutdownKeeps
<1>4. CASE Sender
  BY <1>4, TakeKeeps, SenderStopsKeeps, AnsweredKeeps, RetryKeeps DEF Sender
<1>5. CASE PostFails \/ Ingest
  BY <1>5, PostFailsKeeps, IngestKeeps
<1>6. CASE Writer
  BY <1>6, WriterTakesKeeps, WriterTicksKeeps, FlushCommitsKeeps, FlushDropsKeeps DEF Writer
<1>7. CASE FlushLocked \/ CollectorRestarts
  BY <1>7, FlushLockedKeeps, CollectorRestartsKeeps
<1>8. CASE UNCHANGED vars
  <2> USE DEF hostVars, pluginVars, collectorVars, storeVars, historyVars
  <2>1. UNCHANGED <<hostVars, pluginVars, collectorVars, storeVars, historyVars>>
    BY <1>8 DEF vars
  <2>2. InCollector' = InCollector
    BY <2>1 DEF InCollector
  <2>3. ~flushing' => Len(batch') < BatchSize
    BY <2>1 DEF PipelineInv, Ordered
  <2>. QED BY <2>1, <2>2, <2>3, MoveFacts, CollectorStep
<1>. QED BY <1>1, <1>2, <1>3, <1>4, <1>5, <1>6, <1>7, <1>8 DEF Next

LEMMA PipelineInvariant == Spec => []PipelineInv
BY InitPipeline, NextPipeline, PTL DEF Spec

\* complete forgets a request and no later hook of its response brings it back:
\* the plugin holds an entry of a completed request only when captureRequest was
\* called for it after its completion.  The hooks come in any order, late ones
\* too; that the host completes a request once is the guard of Complete.
THEOREM ForgottenStayForgotten == Spec => []ActiveIsOpen
<1>1. PipelineInv => ActiveIsOpen
  BY DEF PipelineInv, Gathering, Sound, ActiveIsOpen
<1>. QED BY <1>1, PipelineInvariant, PTL

\* For any bodies and any max_body_bytes, a stored row that is shorter than
\* what the host passed is flagged: the flag and the body it describes travel
\* together from the hooks through every retry, copy and upsert.
THEOREM CutsAreFlagged == Spec => []CutIsFlagged
<1>1. PipelineInv => CutIsFlagged
  <2> SUFFICES ASSUME PipelineInv PROVE CutIsFlagged
    OBVIOUS
  <2>1. TypeOK
    BY MoveFacts
  <2>2. ASSUME NEW r \in Requests, stored[r] # None, stored[r].original > 0
        PROVE  stored[r].truncated \/ (/\ stored[r].original = told[r].original
                                       /\ stored[r].response = told[r].response)
    <3>1. stored[r] \in Rows
      BY <2>2 DEF Rows
    <3>2. stored[r] \in Known
      BY <3>1, Zenon DEF Known
    <3>3. stored[r].id = r
      <4>1. Tables.stored = stored
        BY DEF Tables
      <4>. QED BY <2>2, <4>1 DEF PipelineInv, Consistent
    <3>. QED BY <2>2, <3>2, <3>3 DEF PipelineInv, Traced, Flagged
  <2>. QED BY <2>1, <2>2 DEF CutIsFlagged
<1>. QED BY <1>1, PipelineInvariant, PTL

\* For any capacities and any faults, no queue outgrows its capacity, and an
\* accepted record is on its way, archived, or one of the drops the code admits.
THEOREM AcceptedStaysKept == Spec => []AcceptedIsKept
<1>1. PipelineInv => AcceptedIsKept
  BY DEF PipelineInv
<1>. QED BY <1>1, PipelineInvariant, PTL

\* However often a record is delivered, retried or repeated in a batch, and
\* whichever batches are dropped, a summary counts each stored request once.
THEOREM SummariesAreExact == Spec => []SummariesExact
<1>1. PipelineInv => SummariesExact
  <2>1. Tables.stored = stored /\ Tables.summaries = summaries
    BY DEF Tables
  <2>. QED BY <2>1 DEF PipelineInv, Consistent, RowsOf, SummariesExact
<1>. QED BY <1>1, PipelineInvariant, PTL
=============================================================================
