---------------------- MODULE SessionProjectionsProofs ----------------------
(***************************************************************************)
(* The safety of SessionProjections for every set of requests, sessions,    *)
(* credentials and mappings, and any number of batches, mappings, failing   *)
(* tasks and restarts.                                                      *)
(***************************************************************************)
EXTENDS SessionProjections, FiniteSetTheorems, WellFoundedInduction, TLAPS

-----------------------------------------------------------------------------
(* The inductive invariant.                                                 *)

Batches == [request : Requests, identities : [Credentials -> Owner]]
Copies == [session : Sessions, said : BOOLEAN]
Shaped(s) == s = [task |-> s.task, step |-> s.step, list |-> s.list, copy |-> s.copy,
                  attempt |-> s.attempt]

Typed ==
    /\ TypeOK
    /\ writer \in Batches \cup {NoBatch}
    /\ Shaped(startup) /\ startup.copy \in [Requests -> Copies \cup {NoTurn}]

\* The projections p are those of indexed rows of the table.
Own(p, s) == {r \in Requests : p.indexed[r] = s}
Counts(p, s) ==
    IF Own(p, s) = {} THEN p.summaries[s] = NoSummary
    ELSE /\ p.summaries[s] # NoSummary
         /\ p.summaries[s].requests = Cardinality(Own(p, s))
         /\ p.summaries[s].first = Earliest(Own(p, s))
Quotes(p, table, s) ==
    p.summaries[s] # NoSummary /\ p.summaries[s].summary # 0 =>
        /\ p.summaries[s].summary \in Text
        /\ table[p.summaries[s].summary] # NoRow /\ table[p.summaries[s].summary].session = s
Exact(p, table) ==
    /\ \A r \in Requests : p.indexed[r] # None => table[r] # NoRow /\ table[r].session = p.indexed[r]
    /\ \A s \in Sessions : Counts(p, s) /\ Quotes(p, table, s)

\* A row that is not indexed has the session it was sent with, so that a copy
\* of its request is indexed where its row is.
Unmoved == \A r \in Requests : Stored(r) /\ proj.indexed[r] = None => rows[r].session = SentSession[r]

Repaired == \A r \in Legacy : Stored(r) => rows[r].session = Canonical[r]
Told(r) == rows[r].said = (r \in Text)
TurnAgrees(r) == Stored(r) /\ turns[r].session = rows[r].session /\ turns[r].said = rows[r].said

\* What holds of the tables and of the batch in memory wherever the tasks are:
\* a batch never brings a row of an older version.
Consistent ==
    /\ Exact(proj, rows) /\ Unmoved
    /\ writer # NoBatch => writer.request \notin Legacy \/ Stored(writer.request)
    /\ RecordedIsRepaired
    /\ \A r \in Requests : Stored(r) /\ rows[r].said => r \in Text
    /\ \A r \in previewed : Stored(r) /\ Told(r)
    /\ \A r \in Requests : turns[r] # NoTurn => TurnAgrees(r)

\* What the tasks before a task have achieved, and the writer has kept up.
AfterTurns == {"facets", "ready"}
AfterPreviews == AfterTurns \cup {"turns"}
AfterBackfill == AfterPreviews \cup {"summaries", "previews"}
AfterCanonical == AfterBackfill \cup {"backfill"}

AllIndexed == \A r \in Requests : Stored(r) => proj.indexed[r] # None
AllTold == \A r \in Requests : Stored(r) => Told(r)
AllTurned == \A r \in Requests : Stored(r) => turns[r] # NoTurn
AllFilled == \A r \in Requests : turns[r] # NoTurn => turns[r].filled

Achieved(task) ==
    /\ task \in AfterCanonical => versions.canonical = 1
    /\ task \in AfterBackfill => AllIndexed
    /\ task \in AfterPreviews => AllTold
    /\ task \in AfterTurns => AllTurned
    /\ task = "ready" => AllFilled

\* What a task knows of the list it works on: what is not done is on it.
CanonicalWork ==
    startup.task = "canonical" =>
        /\ \A r \in startup.list : r \in Requests /\ Stored(r)
        /\ startup.step = "write" =>
              \A r \in Legacy : Stored(r) /\ rows[r].session # Canonical[r] => r \in startup.list
        /\ startup.step = "version" => Repaired
BackfillWork ==
    startup.task = "backfill" /\ startup.step = "write" =>
        /\ startup.list # {} /\ \A r \in startup.list : r \in Requests /\ Stored(r)
        /\ \A r \in Requests : Stored(r) /\ proj.indexed[r] = None => r \in startup.list
SummaryWork ==
    startup.task = "summaries" =>
        \A item \in startup.list : /\ item.session \in Sessions /\ item.first \in In(item.session)
                                   /\ proj.summaries[item.session] # NoSummary
PreviewWork ==
    startup.task = "previews" =>
        /\ \A r \in startup.list : r \in Requests /\ Stored(r)
        /\ startup.step = "write" => \A r \in Requests : Stored(r) => Told(r) \/ r \in startup.list
CopyAgrees(r) ==
    /\ Stored(r) /\ startup.copy[r].session = rows[r].session
    /\ startup.copy[r].said = (r \in Text)
TurnWork ==
    startup.task = "turns" =>
        /\ startup.list \subseteq Sessions
        /\ \A r \in Requests : startup.copy[r] # NoTurn => CopyAgrees(r)
        /\ startup.step # "write" => startup.copy = NoCopy
        /\ startup.step # "list" => \A r \in Requests : Stored(r) /\ turns[r] = NoTurn =>
              rows[r].session \in startup.list \/ startup.copy[r] # NoTurn
FacetWork ==
    startup.task = "facets" =>
        /\ \A r \in startup.list : r \in Requests /\ turns[r] # NoTurn
        /\ \A r, q \in startup.list : r = q
        /\ \A r \in Requests : turns[r] # NoTurn /\ ~turns[r].filled =>
              \A cursor \in startup.list : IF startup.step = "write" THEN r <= cursor ELSE r < cursor

Work ==
    /\ Achieved(startup.task)
    /\ CanonicalWork /\ BackfillWork /\ SummaryWork /\ PreviewWork /\ TurnWork /\ FacetWork

ProjectionInv == Typed /\ Consistent /\ Work

\* Each credential has one principal, whoever tells it.
Keeps(Who) ==
    /\ Who \in [Credentials -> Principals]
    /\ \A r \in Requests : Given[r] # None => Given[r] = Who[Cred[r]]
    /\ \A m \in Mappings : m[2] = Who[m[1]]
OnePrincipal == \E Who \in [Credentials -> Principals] : Keeps(Who)

Owned(Who) ==
    /\ \A h \in Credentials : mapping[h] \in {None, Who[h]}
    /\ writer # NoBatch => \A h \in Credentials : writer.identities[h] \in {None, Who[h]}
    /\ \A r \in Requests : Stored(r) => rows[r].principal \in {None, Who[Cred[r]]}
Shown ==
    \A s \in Sessions : proj.summaries[s] # NoSummary /\ proj.summaries[s].principal # None =>
        \E r \in In(s) : rows[r].principal = proj.summaries[s].principal

-----------------------------------------------------------------------------
(* Numbers.                                                                 *)

\* Every set of naturals has a least element.
LEMMA LeastNumber ==
  ASSUME NEW T, T \subseteq Nat, T # {}
  PROVE  \E x \in T : \A y \in T : x <= y
<1> DEFINE R == {p \in Nat \X Nat : p[1] < p[2]}
<1>1. IsWellFoundedOn(R, Nat)
  BY NatLessThanWellFounded DEF OpToRel
<1> HIDE DEF R
<1>2. PICK x \in T : \A y \in T : ~(<<y, x>> \in R)
  BY <1>1, WFMin, Zenon
<1>3. ASSUME NEW y \in T PROVE x <= y
  <2>1. x \in Nat /\ y \in Nat
    OBVIOUS
  <2>2. ~(<<y, x>> \in R)
    BY <1>2
  <2>. QED BY <2>1, <2>2 DEF R
<1>. QED BY <1>3

\* A loop that begins in T and stays in T is in T throughout.
LEMMA Loop ==
  ASSUME NEW N \in Nat, NEW T, 0 \in T, \A n \in 1..N : n - 1 \in T => n \in T
  PROVE  \A n \in 0..N : n \in T
<1> DEFINE Out == {n \in 0..N : n \notin T}
<1>1. SUFFICES ASSUME Out # {} PROVE FALSE
  OBVIOUS
<1>2. Out \subseteq Nat
  OBVIOUS
<1>3. PICK m \in Out : \A y \in Out : m <= y
  BY <1>1, <1>2, LeastNumber
<1>4. m \in 1..N /\ m \notin T
  BY <1>3
<1>5. m - 1 \in 0..N /\ ~(m <= m - 1)
  BY <1>4
<1>. QED BY <1>3, <1>4, <1>5

\* f is the recursive function that starts with v and steps with F.
StepOf(F, N, V) == F \in [1..N -> [V -> V]]
Runs(f, F, N, V, v) ==
    f \in [0..N -> V] /\ f[0] = v /\ \A n \in 1..N : f[n] = F[n][f[n - 1]]

\* A recursive function of a loop counter exists, whatever its step F does.
LEMMA LoopSolved ==
  ASSUME NEW N \in Nat, NEW V, NEW v \in V, NEW F, StepOf(F, N, V)
  PROVE  \E f : Runs(f, F, N, V, v)
<1> USE DEF StepOf, Runs
<1> DEFINE Upto(f, m) == /\ f \in [0..m -> V] /\ f[0] = v
                         /\ \A n \in 1..m : f[n] = F[n][f[n - 1]]
           T == {m \in 0..N : \E f : Upto(f, m)}
<1>1. 0 \in T
  <2> DEFINE f == [k \in 0..0 |-> v]
  <2>1. Upto(f, 0)
    OBVIOUS
  <2>2. 0 \in 0..N
    OBVIOUS
  <2> HIDE DEF f
  <2>. QED BY <2>1, <2>2, Zenon
<1>2. ASSUME NEW m \in 1..N, m - 1 \in T PROVE m \in T
  <2>1. PICK f : Upto(f, m - 1)
    BY <1>2
  <2> DEFINE g == [k \in 0..m |-> IF k = m THEN F[m][f[m - 1]] ELSE f[k]]
  <2>2. m \in Nat /\ m > 0 /\ m - 1 \in 0..(m - 1) /\ 0 # m /\ 0 \in 0..m /\ m - 1 # m
    OBVIOUS
  <2>3. f[m - 1] \in V /\ F[m][f[m - 1]] \in V
    BY <2>1, <2>2
  <2>4. \A k \in 0..m : k # m => k \in 0..(m - 1)
    BY <2>2
  <2>5. g \in [0..m -> V]
    BY <2>1, <2>3, <2>4
  <2>6. g[0] = v
    BY <2>1, <2>2
  <2>7. ASSUME NEW n \in 1..m PROVE g[n] = F[n][g[n - 1]]
    <3>1. n \in 0..m /\ n - 1 \in 0..m /\ n - 1 # m
      BY <2>2
    <3>2. g[n - 1] = f[n - 1]
      BY <3>1
    <3>3. CASE n = m
      BY <3>1, <3>2, <3>3
    <3>4. CASE n # m
      <4>1. n \in 1..(m - 1)
        BY <3>4, <2>2
      <4>2. f[n] = F[n][f[n - 1]] /\ g[n] = f[n]
        BY <4>1, <3>1, <3>4, <2>1
      <4>. QED BY <4>2, <3>2
    <3>. QED BY <3>3, <3>4
  <2> HIDE DEF g
  <2>. QED BY <2>5, <2>6, <2>7
<1> HIDE DEF T
<1>3. \A n \in 0..N : n \in T
  BY <1>1, <1>2, Loop
<1>4. N \in T
  BY <1>3
<1>. QED BY <1>4 DEF T

\* Earliest is the least member of a set of requests, and the only one.
LEMMA EarliestOf ==
  ASSUME NEW S, S \subseteq Nat, S # {}
  PROVE  /\ Earliest(S) \in S
         /\ \A q \in S : Earliest(S) <= q
         /\ \A r \in S : (\A q \in S : r <= q) => r = Earliest(S)
<1>1. \E x \in S : \A q \in S : x <= q
  BY LeastNumber
<1>2. Earliest(S) \in S /\ \A q \in S : Earliest(S) <= q
  BY <1>1, Zenon DEF Earliest
<1> DEFINE e == Earliest(S)
<1> HIDE DEF e
<1>3. e \in Nat /\ e \in S /\ \A q \in S : e <= q
  BY <1>2 DEF e
<1>4. \A r \in S : (\A q \in S : r <= q) => r = e
  BY <1>3
<1>. QED BY <1>2, <1>4 DEF e

\* Latest is the greatest member of a finite set of requests.
LEMMA LatestOf ==
  ASSUME NEW S, S \subseteq Nat, S # {}, IsFiniteSet(S)
  PROVE  Latest(S) \in S /\ \A q \in S : q <= Latest(S)
<1> DEFINE Top(A) == \E x \in A : \A q \in A : q <= x
           T == {n \in Nat : \A A \in SUBSET S : A # {} /\ Cardinality(A) = n => Top(A)}
<1>0. \A A \in SUBSET S : IsFiniteSet(A) /\ Cardinality(A) \in Nat /\ A \subseteq Nat
  BY FS_Subset, FS_CardinalityType
<1>1. 0 \in T
  BY <1>0, FS_EmptySet
<1>2. ASSUME NEW n \in 1..Cardinality(S), n - 1 \in T PROVE n \in T
  <2>1. SUFFICES ASSUME NEW A \in SUBSET S, A # {}, Cardinality(A) = n PROVE Top(A)
    BY <1>0
  <2>2. PICK a \in A : TRUE
    BY <2>1
  <2>3. IsFiniteSet(A) /\ a \in Nat /\ A \subseteq Nat /\ n \in Nat
    BY <1>0
  <2>4. Cardinality(A \ {a}) = n - 1
    BY <2>1, <2>3, FS_RemoveElement
  <2>5. CASE A \ {a} = {}
    BY <2>5, <2>3
  <2>6. CASE A \ {a} # {}
    <3>1. Top(A \ {a})
      BY <2>4, <2>6, <1>2
    <3>2. PICK x \in A \ {a} : \A q \in A \ {a} : q <= x
      BY <3>1
    <3>3. x \in Nat /\ x \in A
      BY <2>3
    <3>4. CASE a <= x
      BY <3>2, <3>3, <3>4
    <3>5. CASE x <= a
      BY <3>2, <3>3, <3>5, <2>3
    <3>. QED BY <3>3, <2>3, <3>4, <3>5
  <2>. QED BY <2>5, <2>6
<1>3. Cardinality(S) \in Nat
  BY FS_CardinalityType
<1> HIDE DEF T
<1>4. \A n \in 0..Cardinality(S) : n \in T
  BY <1>1, <1>2, <1>3, Loop
<1>5. Cardinality(S) \in T
  BY <1>3, <1>4
<1>6. Top(S)
  BY <1>5 DEF T
<1>. QED BY <1>6, Zenon DEF Latest

\* Ascending lists members of the set.
LEMMA AscendingLists ==
  ASSUME NEW S, S \subseteq Nat, IsFiniteSet(S)
  PROVE  \A i \in DOMAIN Ascending(S) : Ascending(S)[i] \in S
<1> DEFINE N == Cardinality(S)
           Sol(f) == f = [n \in 0..N |-> IF n = 0 THEN S ELSE f[n - 1] \ {Earliest(f[n - 1])}]
           left == CHOOSE f : Sol(f)
<1>1. N \in Nat
  BY FS_CardinalityType
<1>2. Ascending(S) = [i \in 1..N |-> Earliest(left[i - 1])]
  BY Zenon DEF Ascending
<1> HIDE DEF N
<1>3. \E f : Sol(f)
  <2> DEFINE F == [n \in 1..N |-> [A \in SUBSET S |-> A \ {Earliest(A)}]]
  <2>1. F \in [1..N -> [SUBSET S -> SUBSET S]] /\ S \in SUBSET S
    OBVIOUS
  <2> HIDE DEF F
  <2>2. PICK f \in [0..N -> SUBSET S] : f[0] = S /\ \A n \in 1..N : f[n] = F[n][f[n - 1]]
    <3>1. StepOf(F, N, SUBSET S)
      BY <2>1 DEF StepOf
    <3>2. \E f : Runs(f, F, N, SUBSET S, S)
      BY <1>1, <2>1, <3>1, LoopSolved
    <3>. QED BY <3>2 DEF Runs
  <2>3. ASSUME NEW n \in 0..N, n # 0 PROVE f[n] = f[n - 1] \ {Earliest(f[n - 1])}
    <3>1. n \in 1..N /\ n - 1 \in 0..N
      BY <2>3, <1>1
    <3>2. f[n - 1] \in SUBSET S /\ f[n] = F[n][f[n - 1]]
      BY <3>1, <2>2
    <3>. QED BY <3>1, <3>2 DEF F
  <2>4. f = [n \in 0..N |-> f[n]]
    OBVIOUS
  <2>5. \A n \in 0..N : f[n] = IF n = 0 THEN S ELSE f[n - 1] \ {Earliest(f[n - 1])}
    BY <2>2, <2>3
  <2>6. Sol(f)
    BY <2>4, <2>5, Zenon
  <2>. QED BY <2>6
<1>4. Sol(left)
  BY <1>3
<1> HIDE DEF left
<1>5. left[0] = S /\ \A n \in 1..N : left[n] = left[n - 1] \ {Earliest(left[n - 1])}
  <2>1. 0 \in 0..N /\ \A n \in 1..N : n \in 0..N /\ n # 0
    BY <1>1
  <2>. QED BY <1>4, <2>1
<1> HIDE DEF Sol
<1> DEFINE T == {n \in 0..N : left[n] \subseteq S /\ Cardinality(left[n]) = N - n}
<1>6. 0 \in T
  BY <1>1, <1>5 DEF N
<1>7. ASSUME NEW n \in 0..N, n \in T, n < N
      PROVE  IsFiniteSet(left[n]) /\ Earliest(left[n]) \in left[n]
  <2>1. IsFiniteSet(left[n]) /\ Cardinality(left[n]) # 0 /\ left[n] \subseteq Nat
    <3>1. left[n] \in SUBSET S /\ Cardinality(left[n]) = N - n
      BY <1>7
    <3>2. N - n # 0
      BY <1>7, <1>1
    <3>. QED BY <3>1, <3>2, FS_Subset
  <2>2. left[n] # {}
    BY <2>1, FS_EmptySet
  <2>. QED BY <2>1, <2>2, EarliestOf
<1>8. ASSUME NEW n \in 1..N, n - 1 \in T PROVE n \in T
  <2>1. n - 1 \in 0..N /\ n - 1 < N /\ n \in 0..N
    BY <1>1
  <2>2. IsFiniteSet(left[n - 1]) /\ Earliest(left[n - 1]) \in left[n - 1]
    BY <2>1, <1>7, <1>8
  <2>3. Cardinality(left[n]) = Cardinality(left[n - 1]) - 1
    <3> DEFINE A == left[n - 1]
               e == Earliest(left[n - 1])
    <3>1. left[n] = A \ {e} /\ IsFiniteSet(A) /\ e \in A
      BY <2>2, <1>5
    <3> HIDE DEF A, e
    <3>2. Cardinality(A \ {e}) = Cardinality(A) - 1
      BY <3>1, FS_RemoveElement
    <3>. QED BY <3>1, <3>2 DEF A
  <2>4. left[n - 1] \subseteq S /\ Cardinality(left[n - 1]) = N - (n - 1)
    BY <1>8
  <2>5. left[n] \subseteq S
    BY <2>4, <1>5
  <2>. QED BY <2>1, <2>3, <2>4, <2>5, <1>1
<1> HIDE DEF T
<1>9. \A n \in 0..N : n \in T
  BY <1>1, <1>6, <1>8, Loop
<1>10. ASSUME NEW i \in 1..N PROVE Earliest(left[i - 1]) \in S
  <2>1. i - 1 \in 0..N /\ i - 1 < N
    BY <1>1
  <2>2. left[i - 1] \subseteq S
    BY <2>1, <1>9 DEF T
  <2>. QED BY <2>1, <2>2, <1>7, <1>9
<1>. QED BY <1>2, <1>10

-----------------------------------------------------------------------------
(* What the model's operators keep.                                         *)

Entries == [request : Requests, session : Sessions, principal : Owner, facet : Owner, said : BOOLEAN]
Tables == [Requests -> Rows \cup {NoRow}]

\* A row is not NoRow, a summary not NoSummary, and so on.
LEMMA Absent ==
  /\ \A row \in Rows : row # NoRow
  /\ \A row \in Turns : row # NoTurn
  /\ \A row \in Copies : row # NoTurn
  /\ \A sum \in Summaries : sum # NoSummary
  /\ \A b \in Batches : b # NoBatch
  /\ Requests \subseteq Nat /\ 0 \notin Requests /\ IsFiniteSet(Requests)
  /\ None \notin Sessions /\ None \notin Principals
<1>1. /\ Requests \subseteq Nat \ {0} /\ IsFiniteSet(Requests) /\ None \notin Sessions \cup Principals
  BY ProjectionAssumption
<1>2. None \notin Sessions /\ 0 \notin Requests
  BY <1>1
<1>3. \A row \in Rows : row # NoRow
  BY <1>2 DEF Rows, NoRow
<1>4. \A row \in Turns : row # NoTurn
  BY <1>2 DEF Turns, NoTurn
<1>5. \A row \in Copies : row # NoTurn
  BY <1>2 DEF Copies, NoTurn
<1>6. \A sum \in Summaries : sum # NoSummary
  BY <1>2 DEF Summaries, NoSummary
<1>7. \A b \in Batches : b # NoBatch
  BY <1>2 DEF Batches, NoBatch
<1>. QED BY <1>1, <1>3, <1>4, <1>5, <1>6, <1>7

\* A summary that counts one more request.
LEMMA CountedFacts ==
  ASSUME NEW old \in Summaries \cup {NoSummary}, NEW entry \in Entries
  PROVE  LET c == Counted(old, entry) IN
         /\ c \in Summaries
         /\ c.requests = IF old = NoSummary THEN 1 ELSE old.requests + 1
         /\ c.first = IF old = NoSummary \/ entry.request < old.first THEN entry.request ELSE old.first
         /\ \/ c.principal = entry.principal
            \/ old # NoSummary /\ c.principal = old.principal
         /\ \/ c.summary = entry.request /\ entry.said
            \/ c.summary = 0
            \/ old # NoSummary /\ c.summary = old.summary
<1>1. /\ entry.request \in Requests /\ entry.principal \in Owner /\ entry.said \in BOOLEAN
  BY DEF Entries
<1>2. CASE old = NoSummary
  <2> DEFINE c == [requests |-> 1, first |-> entry.request, principal |-> entry.principal,
                   summary |-> IF entry.said THEN entry.request ELSE 0, at |-> entry.request]
  <2>1. Counted(old, entry) = c
    BY <1>2 DEF Counted
  <2>2. c \in Summaries
    BY <1>1 DEF Summaries
  <2>3. /\ c.requests = 1 /\ c.first = entry.request /\ c.principal = entry.principal
        /\ (c.summary = entry.request /\ entry.said) \/ c.summary = 0
    BY <1>1
  <2> HIDE DEF c
  <2>. QED BY <2>1, <2>2, <2>3, <1>2
<1>3. CASE old # NoSummary
  <2>1. Counted(old, entry) = Merged(old, entry.request, entry.principal, entry.said)
    BY <1>3 DEF Counted
  <2>2. /\ old \in Summaries /\ old.requests \in Nat \ {0} /\ old.first \in Requests
        /\ old.principal \in Owner /\ old.summary \in Requests \cup {0} /\ old.at \in Requests \cup {0}
    BY <1>3 DEF Summaries
  <2> DEFINE c == Merged(old, entry.request, entry.principal, entry.said)
  <2>3. /\ c.requests = old.requests + 1
        /\ c.first = IF entry.request < old.first THEN entry.request ELSE old.first
        /\ c.principal = IF old.principal = None THEN entry.principal ELSE old.principal
        /\ \/ c.summary = entry.request /\ entry.said /\ c.at = entry.request
           \/ c.summary = old.summary /\ c.at = old.at
        /\ c = [requests |-> c.requests, first |-> c.first, principal |-> c.principal,
                summary |-> c.summary, at |-> c.at]
    BY <1>1 DEF Merged
  <2> HIDE DEF c
  <2>4. c.requests \in Nat \ {0} /\ c.first \in Requests /\ c.principal \in Owner
    BY <1>1, <2>2, <2>3
  <2>5. c.summary \in Requests \cup {0} /\ c.at \in Requests \cup {0}
    BY <1>1, <2>2, <2>3
  <2>6. c \in Summaries
    <3>1. [requests |-> c.requests, first |-> c.first, principal |-> c.principal,
           summary |-> c.summary, at |-> c.at] \in Summaries
      BY <2>4, <2>5 DEF Summaries
    <3>. QED BY <3>1, <2>3
  <2>. QED BY <2>1, <2>3, <2>6, <1>3 DEF c
<1>. QED BY <1>2, <1>3

\* The principal that the entry of a request leaves in a summary is its own, in
\* the session the request is indexed under, or was there.
Inherits(q, p, r, principal) ==
    \A s \in Sessions : q.summaries[s] # NoSummary =>
        \/ q.indexed[r] = s /\ q.summaries[s].principal = principal
        \/ p.summaries[s] # NoSummary /\ q.summaries[s].principal = p.summaries[s].principal

\* An entry that belongs to its row in the table.
Fits(entry, table) ==
    /\ entry \in Entries
    /\ entry.said => entry.request \in Text
    /\ table[entry.request] # NoRow /\ table[entry.request].session = entry.session

\* Entering a request keeps the projections well-formed.
LEMMA EnteredTyped ==
  ASSUME NEW p \in Projections, NEW entry \in Entries
  PROVE  Entered(p, entry) \in Projections
<1> DEFINE q == Entered(p, entry)
           s == entry.session
           c == Counted(p.summaries[s], entry)
<1>1. /\ p.indexed \in [Requests -> Sessions \cup {None}]
      /\ p.summaries \in [Sessions -> Summaries \cup {NoSummary}]
      /\ p.facets \in [Sessions -> SUBSET Principals]
  BY DEF Projections
<1>2. entry.request \in Requests /\ s \in Sessions /\ entry.facet \in Owner
  BY DEF Entries
<1>3. /\ q.indexed = [p.indexed EXCEPT ![entry.request] = s]
      /\ q.summaries = [p.summaries EXCEPT ![s] = c]
      /\ q.facets = [p.facets EXCEPT ![s] = p.facets[s] \cup ({entry.facet} \ {None})]
      /\ q = [indexed |-> q.indexed, summaries |-> q.summaries, facets |-> q.facets]
  BY DEF Entered
<1>4. c \in Summaries
  BY <1>1, <1>2, CountedFacts
<1> HIDE DEF c, q, s
<1>5. q.indexed \in [Requests -> Sessions \cup {None}]
  BY <1>1, <1>2, <1>3
<1>6. q.summaries \in [Sessions -> Summaries \cup {NoSummary}]
  BY <1>1, <1>2, <1>3, <1>4
<1>7. q.facets \in [Sessions -> SUBSET Principals]
  <2>1. p.facets[s] \cup ({entry.facet} \ {None}) \in SUBSET Principals
    BY <1>1, <1>2 DEF Owner
  <2>. QED BY <1>1, <1>2, <1>3, <2>1
<1>8. [indexed |-> q.indexed, summaries |-> q.summaries, facets |-> q.facets] \in Projections
  BY <1>5, <1>6, <1>7 DEF Projections
<1>. QED BY <1>8, <1>3 DEF q

\* A request that enters the projections leaves them exact.
LEMMA EnteredKeeps ==
  ASSUME NEW p \in Projections, NEW table, NEW entry,
         Exact(p, table), Fits(entry, table), p.indexed[entry.request] = None
  PROVE  /\ Entered(p, entry) \in Projections
         /\ Exact(Entered(p, entry), table)
         /\ Entered(p, entry).indexed = [p.indexed EXCEPT ![entry.request] = entry.session]
         /\ Inherits(Entered(p, entry), p, entry.request, entry.principal)
<1> DEFINE q == Entered(p, entry)
           r == entry.request
           s == entry.session
           c == Counted(p.summaries[s], entry)
<1>1. /\ p.indexed \in [Requests -> Sessions \cup {None}]
      /\ p.summaries \in [Sessions -> Summaries \cup {NoSummary}]
      /\ p.facets \in [Sessions -> SUBSET Principals]
  BY DEF Projections
<1>2. /\ r \in Requests /\ s \in Sessions /\ entry.facet \in Owner /\ entry \in Entries
      /\ entry.said => r \in Text
      /\ table[r] # NoRow /\ table[r].session = s
  BY DEF Fits, Entries
<1>3. /\ q.indexed = [p.indexed EXCEPT ![r] = s]
      /\ q.summaries = [p.summaries EXCEPT ![s] = c]
      /\ q.facets = [p.facets EXCEPT ![s] = p.facets[s] \cup ({entry.facet} \ {None})]
      /\ q = [indexed |-> q.indexed, summaries |-> q.summaries, facets |-> q.facets]
  BY DEF Entered
<1>4. /\ c \in Summaries
      /\ c.requests = IF p.summaries[s] = NoSummary THEN 1 ELSE p.summaries[s].requests + 1
      /\ c.first = IF p.summaries[s] = NoSummary \/ r < p.summaries[s].first THEN r ELSE p.summaries[s].first
      /\ \/ c.principal = entry.principal
         \/ p.summaries[s] # NoSummary /\ c.principal = p.summaries[s].principal
      /\ \/ c.summary = r /\ entry.said
         \/ c.summary = 0
         \/ p.summaries[s] # NoSummary /\ c.summary = p.summaries[s].summary
  <2>1. p.summaries[s] \in Summaries \cup {NoSummary} /\ entry \in Entries
    BY <1>1, <1>2
  <2>. QED BY <2>1, CountedFacts
<1> HIDE DEF c, q, r, s
<1>5. q \in Projections
  BY <1>2, EnteredTyped DEF q
<1>6. /\ q.indexed[r] = s /\ \A x \in Requests : x # r => q.indexed[x] = p.indexed[x]
      /\ q.summaries[s] = c /\ \A t \in Sessions : t # s => q.summaries[t] = p.summaries[t]
  BY <1>1, <1>2, <1>3
<1>7. p.indexed[r] = None
  BY DEF r
<1>8. /\ \A x \in Requests : p.indexed[x] # None => table[x] # NoRow /\ table[x].session = p.indexed[x]
      /\ \A t \in Sessions : Counts(p, t) /\ Quotes(p, table, t)
  BY DEF Exact
<1>9. \A x \in Requests : q.indexed[x] # None => table[x] # NoRow /\ table[x].session = q.indexed[x]
  BY <1>2, <1>6, <1>8
<1>10. Own(q, s) = Own(p, s) \cup {r} /\ r \notin Own(p, s)
  BY <1>2, <1>6, <1>7, Absent DEF Own
<1>11. \A t \in Sessions : t # s => Own(q, t) = Own(p, t)
  BY <1>2, <1>6, <1>7, Absent DEF Own
<1>12. IsFiniteSet(Own(p, s)) /\ Own(p, s) \subseteq Nat /\ r \in Nat
  <2>1. Own(p, s) \in SUBSET Requests
    BY DEF Own
  <2>2. IsFiniteSet(Requests) /\ Requests \subseteq Nat
    BY Absent
  <2>. QED BY <1>2, <2>1, <2>2, FS_Subset
<1>13. Counts(q, s)
  <2> DEFINE O == Own(p, s)
  <2>1. q.summaries[s] # NoSummary
    BY <1>6, <1>4, Absent
  <2>2. Own(q, s) = O \cup {r} /\ r \notin O /\ IsFiniteSet(O) /\ O \subseteq Nat /\ r \in Nat
    BY <1>10, <1>12
  <2>3. Counts(p, s)
    BY <1>2, <1>8
  <2>4. /\ O = {} => p.summaries[s] = NoSummary
        /\ O # {} => /\ p.summaries[s] # NoSummary /\ p.summaries[s].requests = Cardinality(O)
                     /\ p.summaries[s].first = Earliest(O)
    BY <2>3 DEF Counts
  <2> HIDE DEF O
  <2>5. Cardinality(O \cup {r}) = Cardinality(O) + 1
    BY <2>2, FS_AddElement
  <2>6. CASE O = {}
    <3>1. c.requests = 1 /\ c.first = r
      BY <1>4, <2>4, <2>6
    <3>2. Cardinality(O) = 0
      BY <2>6, FS_EmptySet
    <3>3. Earliest({r}) = r
      <4>1. {r} \subseteq Nat /\ {r} # {}
        BY <2>2
      <4>. QED BY <4>1, EarliestOf
    <3>4. O \cup {r} = {r}
      BY <2>6
    <3>. QED BY <2>1, <2>2, <2>5, <3>1, <3>2, <3>3, <3>4, <1>6 DEF Counts
  <2>7. CASE O # {}
    <3>1. /\ c.requests = Cardinality(O) + 1
          /\ c.first = IF r < Earliest(O) THEN r ELSE Earliest(O)
      BY <1>4, <2>4, <2>7
    <3>2. Earliest(O) \in O /\ \A x \in O : Earliest(O) <= x
      BY <2>2, <2>7, EarliestOf
    <3> DEFINE e == Earliest(O)
               f == c.first
    <3>3. e \in O /\ (\A x \in O : e <= x) /\ f = IF r < e THEN r ELSE e
      BY <3>1, <3>2
    <3> HIDE DEF e, f
    <3>4. e \in Nat /\ \A x \in O : x \in Nat
      BY <3>3, <2>2
    <3>5. f \in O \cup {r} /\ \A x \in O \cup {r} : f <= x
      BY <3>3, <3>4, <2>2
    <3>6. O \cup {r} \subseteq Nat /\ O \cup {r} # {}
      BY <2>2
    <3>7. f = Earliest(O \cup {r})
      BY <3>5, <3>6, EarliestOf
    <3>. QED BY <2>1, <2>2, <2>5, <3>1, <3>7, <3>6, <1>6 DEF Counts, f
  <2>. QED BY <2>6, <2>7
<1>14. Quotes(q, table, s)
  <2>1. Quotes(p, table, s)
    BY <1>2, <1>8
  <2>2. CASE c.summary = r /\ entry.said
    BY <2>2, <1>2, <1>6 DEF Quotes
  <2>3. CASE c.summary = 0
    BY <2>3, <1>6 DEF Quotes
  <2>4. CASE p.summaries[s] # NoSummary /\ c.summary = p.summaries[s].summary
    BY <2>1, <2>4, <1>6 DEF Quotes
  <2>. QED BY <1>4, <2>2, <2>3, <2>4
<1>15. ASSUME NEW t \in Sessions PROVE Counts(q, t) /\ Quotes(q, table, t)
  <2>1. CASE t = s
    BY <2>1, <1>13, <1>14
  <2>2. CASE t # s
    <3>1. Own(q, t) = Own(p, t) /\ q.summaries[t] = p.summaries[t] /\ Counts(p, t) /\ Quotes(p, table, t)
      BY <2>2, <1>6, <1>8, <1>11
    <3>. QED BY <3>1 DEF Counts, Quotes
  <2>. QED BY <2>1, <2>2
<1>16. Inherits(q, p, entry.request, entry.principal)
  <2>1. Inherits(q, p, r, entry.principal)
    BY <1>4, <1>6 DEF Inherits
  <2>. QED BY <2>1 DEF r
<1>17. Exact(q, table)
  BY <1>9, <1>15 DEF Exact
<1>. QED BY <1>3, <1>5, <1>16, <1>17 DEF q, r, s

\* So does indexSessionRecord, whether the request is new or not.
LEMMA IndexKeeps ==
  ASSUME NEW p \in Projections, NEW table, NEW entry, Exact(p, table), Fits(entry, table)
  PROVE  /\ IndexSessionRecord(p, entry) \in Projections
         /\ Exact(IndexSessionRecord(p, entry), table)
         /\ IndexSessionRecord(p, entry).indexed[entry.request] # None
         /\ \A r \in Requests : r # entry.request =>
               IndexSessionRecord(p, entry).indexed[r] = p.indexed[r]
         /\ Inherits(IndexSessionRecord(p, entry), p, entry.request, entry.principal)
<1>1. CASE p.indexed[entry.request] # None
  <2>1. IndexSessionRecord(p, entry) = p
    BY <1>1 DEF IndexSessionRecord
  <2>. QED BY <1>1, <2>1 DEF Inherits
<1>2. CASE p.indexed[entry.request] = None
  <2>1. IndexSessionRecord(p, entry) = Entered(p, entry)
    BY <1>2 DEF IndexSessionRecord
  <2>2. /\ Entered(p, entry) \in Projections
        /\ Exact(Entered(p, entry), table)
        /\ Entered(p, entry).indexed = [p.indexed EXCEPT ![entry.request] = entry.session]
        /\ Inherits(Entered(p, entry), p, entry.request, entry.principal)
    BY <1>2, EnteredKeeps
  <2>3. entry.request \in Requests /\ entry.session \in Sessions /\ entry.session # None
    BY Absent DEF Fits, Entries
  <2>4. p.indexed \in [Requests -> Sessions \cup {None}]
    BY DEF Projections
  <2>. QED BY <2>1, <2>2, <2>3, <2>4
<1>. QED BY <1>1, <1>2

\* And so does indexSessionRecord.
LEMMA IndexTyped ==
  ASSUME NEW p \in Projections, NEW entry \in Entries
  PROVE  IndexSessionRecord(p, entry) \in Projections
BY EnteredTyped DEF IndexSessionRecord

\* The empty projections are exact.
LEMMA EmptiedExact ==
  ASSUME NEW table
  PROVE  /\ Emptied \in Projections /\ Exact(Emptied, table)
         /\ \A r \in Requests : Emptied.indexed[r] = None
         /\ \A s \in Sessions : Emptied.summaries[s] = NoSummary
<1>1. Emptied \in Projections
  BY DEF Emptied, Projections
<1>2. /\ \A r \in Requests : Emptied.indexed[r] = None
      /\ \A s \in Sessions : Emptied.summaries[s] = NoSummary
  BY DEF Emptied
<1>3. \A s \in Sessions : Own(Emptied, s) = {}
  BY <1>2, Absent DEF Own
<1>. QED BY <1>1, <1>2, <1>3 DEF Exact, Counts, Quotes

\* The rows of S, entered one after the other into the emptied projections.
LEMMA ReindexedExact ==
  ASSUME NEW table \in Tables, NEW S, S \subseteq Requests,
         \A r \in S : table[r] # NoRow /\ (table[r].said => r \in Text)
  PROVE  /\ Reindexed(table, S) \in Projections
         /\ Exact(Reindexed(table, S), table)
         /\ \A r \in Requests : Reindexed(table, S).indexed[r] # None <=> r \in S
         /\ \A s \in Sessions : Reindexed(table, S).summaries[s] # NoSummary =>
               Reindexed(table, S).summaries[s].principal = None
<1> DEFINE N == Latest(S \cup {0})
           Sol(f) == f = [n \in 0..N |->
                            IF n = 0 THEN Emptied
                            ELSE IF n \in S THEN IndexSessionRecord(f[n - 1], Entry(table, n))
                            ELSE f[n - 1]]
           after == CHOOSE f : Sol(f)
<1>1. N \in Nat /\ \A r \in S : r <= N
  <2>1. S \cup {0} \subseteq Nat /\ S \cup {0} # {} /\ IsFiniteSet(S)
    <3>1. S \in SUBSET Requests /\ IsFiniteSet(Requests) /\ Requests \subseteq Nat
      BY Absent
    <3>2. IsFiniteSet(S)
      BY <3>1, FS_Subset
    <3>. QED BY <3>1, <3>2
  <2>2. IsFiniteSet(S \cup {0})
    BY <2>1, FS_AddElement
  <2>3. N \in S \cup {0} /\ \A q \in S \cup {0} : q <= N
    BY <2>1, <2>2, LatestOf
  <2>. QED BY <2>1, <2>3
<1>2. Reindexed(table, S) = after[N]
  BY Zenon DEF Reindexed
<1> HIDE DEF N
<1>3. ASSUME NEW r \in S
      PROVE  /\ Fits(Entry(table, r), table)
             /\ Entry(table, r).request = r /\ Entry(table, r).principal = None
  <2>1. table[r] \in Rows /\ r \in Requests
    BY DEF Tables
  <2>2. table[r].session \in Sessions /\ table[r].facet \in Owner /\ table[r].said \in BOOLEAN
    BY <2>1 DEF Rows
  <2> DEFINE x == table[r]
  <2>3. x.session \in Sessions /\ x.facet \in Owner /\ x.said \in BOOLEAN /\ x # NoRow
        /\ (x.said => r \in Text)
    BY <2>2
  <2>4. Entry(table, r) = [request |-> r, session |-> x.session, principal |-> None,
                           facet |-> x.facet, said |-> x.said]
    BY DEF Entry
  <2>5. None \in Owner
    BY DEF Owner
  <2> DEFINE e == [request |-> r, session |-> x.session, principal |-> None,
                   facet |-> x.facet, said |-> x.said]
  <2>6. /\ e \in Entries /\ e.request = r /\ e.principal = None
        /\ e.session = x.session /\ e.said = x.said
    BY <2>1, <2>3, <2>5 DEF Entries
  <2> HIDE DEF e
  <2>7. Entry(table, r) = e
    BY <2>4 DEF e
  <2>. QED BY <2>3, <2>6, <2>7 DEF Fits
<1>4. \E f : Sol(f)
  <2> DEFINE F == [n \in 1..N |-> [p \in Projections |->
                     IF n \in S THEN IndexSessionRecord(p, Entry(table, n)) ELSE p]]
  <2>1. \A n \in 1..N : \A p \in Projections :
           (IF n \in S THEN IndexSessionRecord(p, Entry(table, n)) ELSE p) \in Projections
    BY <1>3, IndexTyped DEF Fits
  <2>2. StepOf(F, N, Projections)
    BY <2>1 DEF StepOf
  <2>3. \A n \in 1..N : \A p \in Projections :
           F[n][p] = IF n \in S THEN IndexSessionRecord(p, Entry(table, n)) ELSE p
    OBVIOUS
  <2> HIDE DEF F
  <2>4. Emptied \in Projections
    BY EmptiedExact
  <2>5. PICK f : Runs(f, F, N, Projections, Emptied)
    BY <1>1, <2>2, <2>4, LoopSolved
  <2>6. /\ f \in [0..N -> Projections] /\ f[0] = Emptied
        /\ \A n \in 1..N : f[n] = F[n][f[n - 1]]
    BY <2>5 DEF Runs
  <2>7. ASSUME NEW n \in 0..N
        PROVE  f[n] = IF n = 0 THEN Emptied
                      ELSE IF n \in S THEN IndexSessionRecord(f[n - 1], Entry(table, n)) ELSE f[n - 1]
    <3>1. CASE n = 0
      BY <3>1, <2>6
    <3>2. CASE n # 0
      <4>1. n \in 1..N /\ n - 1 \in 0..N
        BY <3>2, <1>1
      <4>2. f[n - 1] \in Projections /\ f[n] = F[n][f[n - 1]]
        BY <4>1, <2>6
      <4>3. f[n] = IF n \in S THEN IndexSessionRecord(f[n - 1], Entry(table, n)) ELSE f[n - 1]
        BY <4>1, <4>2, <2>3
      <4>. QED BY <4>3, <3>2
    <3>. QED BY <3>1, <3>2
  <2>8. f = [n \in 0..N |-> f[n]]
    BY <2>6
  <2>9. Sol(f)
    BY <2>7, <2>8, Zenon
  <2>. QED BY <2>9
<1>5. Sol(after)
  BY <1>4
<1> HIDE DEF after
<1>6. /\ after[0] = Emptied
      /\ \A n \in 1..N : after[n] = IF n \in S THEN IndexSessionRecord(after[n - 1], Entry(table, n))
                                    ELSE after[n - 1]
  <2>1. 0 \in 0..N /\ \A n \in 1..N : n \in 0..N /\ n # 0
    BY <1>1
  <2>. QED BY <1>5, <2>1
<1> HIDE DEF Sol
<1> DEFINE Good(p, n) ==
             /\ p \in Projections /\ Exact(p, table)
             /\ \A r \in Requests : p.indexed[r] # None <=> r \in S /\ r <= n
             /\ \A s \in Sessions : p.summaries[s] # NoSummary => p.summaries[s].principal = None
           T == {n \in 0..N : Good(after[n], n)}
<1>7. 0 \in T
  <2>1. \A r \in Requests : ~(r <= 0)
    BY Absent
  <2>2. Good(Emptied, 0)
    BY <2>1, EmptiedExact
  <2>. QED BY <2>2, <1>1, <1>6
<1>8. ASSUME NEW n \in 1..N, n - 1 \in T PROVE n \in T
  <2> DEFINE p == after[n - 1]
             q == after[n]
  <2>1. Good(p, n - 1) /\ n \in 0..N
    BY <1>8, <1>1
  <2>2. q = IF n \in S THEN IndexSessionRecord(p, Entry(table, n)) ELSE p
    BY <1>6
  <2> HIDE DEF p, q
  <2>3. n \in Nat /\ \A r \in Requests : r \in Nat
    BY <1>1, Absent
  <2>4. CASE n \notin S
    <3>1. \A r \in Requests : r \in S /\ r <= n <=> r \in S /\ r <= n - 1
      BY <2>3, <2>4
    <3>2. q = p
      BY <2>2, <2>4
    <3>3. Good(q, n)
      BY <2>1, <3>1, <3>2
    <3>. QED BY <2>1, <3>3 DEF q
  <2>5. CASE n \in S
    <3> DEFINE e == Entry(table, n)
    <3>1. q = IndexSessionRecord(p, e)
      BY <2>2, <2>5
    <3>2. Fits(e, table) /\ e.request = n /\ e.principal = None
      BY <2>5, <1>3
    <3> HIDE DEF e
    <3>3. /\ q \in Projections /\ Exact(q, table) /\ q.indexed[n] # None
          /\ \A r \in Requests : r # n => q.indexed[r] = p.indexed[r]
          /\ Inherits(q, p, n, None)
      BY <2>1, <3>1, <3>2, IndexKeeps
    <3>4. ASSUME NEW r \in Requests PROVE q.indexed[r] # None <=> r \in S /\ r <= n
      <4>1. CASE r = n
        BY <4>1, <3>3, <2>5, <2>3
      <4>2. CASE r # n
        <5>1. q.indexed[r] = p.indexed[r] /\ (p.indexed[r] # None <=> r \in S /\ r <= n - 1)
          BY <4>2, <3>3, <2>1
        <5>2. r <= n <=> r <= n - 1
          BY <4>2, <2>3
        <5>. QED BY <5>1, <5>2
      <4>. QED BY <4>1, <4>2
    <3>5. \A s \in Sessions : q.summaries[s] # NoSummary => q.summaries[s].principal = None
      BY <3>3, <2>1 DEF Inherits
    <3>6. Good(q, n)
      BY <3>3, <3>4, <3>5
    <3>. QED BY <2>1, <3>6 DEF q
  <2>. QED BY <2>4, <2>5
<1> HIDE DEF T
<1>9. \A n \in 0..N : n \in T
  BY <1>1, <1>7, <1>8, Loop
<1>10. Good(after[N], N)
  BY <1>1, <1>9 DEF T
<1>11. \A r \in Requests : r \in S /\ r <= N <=> r \in S
  BY <1>1
<1>. QED BY <1>2, <1>10, <1>11

-----------------------------------------------------------------------------
(* Steps of the startup goroutine.                                          *)

TaskNames == {"canonical", "backfill", "summaries", "previews", "turns", "facets", "ready", "stopped"}
Fresh(s) ==
    /\ Shaped(s) /\ s.task \in TaskNames /\ s.attempt \in 1..Attempts
    /\ s.step = "list" /\ s.list = {} /\ s.copy = NoCopy

\* The rows of the tables by their columns.
LEMMA TableFacts ==
  ASSUME Typed
  PROVE  /\ \A r \in Requests : Stored(r) =>
               /\ rows[r] \in Rows /\ rows[r].session \in Sessions /\ rows[r].principal \in Owner
               /\ rows[r].facet \in Owner /\ rows[r].said \in BOOLEAN
         /\ \A r \in Requests : turns[r] # NoTurn =>
               /\ turns[r] \in Turns /\ turns[r].session \in Sessions /\ turns[r].principal \in Owner
               /\ turns[r].said \in BOOLEAN /\ turns[r].filled \in BOOLEAN
         /\ \A r \in Requests : startup.copy[r] # NoTurn =>
               /\ startup.copy[r] \in Copies
               /\ startup.copy[r].session \in Sessions /\ startup.copy[r].said \in BOOLEAN
<1>1. /\ rows \in [Requests -> Rows \cup {NoRow}] /\ turns \in [Requests -> Turns \cup {NoTurn}]
      /\ startup.copy \in [Requests -> Copies \cup {NoTurn}]
  BY DEF Typed, TypeOK
<1>2. \A r \in Requests : Stored(r) => rows[r] \in Rows
  BY <1>1 DEF Stored
<1>3. \A r \in Requests : turns[r] # NoTurn => turns[r] \in Turns
  BY <1>1
<1>4. \A r \in Requests : startup.copy[r] # NoTurn => startup.copy[r] \in Copies
  BY <1>1
<1>5. \A x \in Rows : x.session \in Sessions /\ x.principal \in Owner /\ x.facet \in Owner /\ x.said \in BOOLEAN
  BY DEF Rows
<1>6. \A x \in Turns : /\ x.session \in Sessions /\ x.principal \in Owner
                       /\ x.said \in BOOLEAN /\ x.filled \in BOOLEAN
  BY DEF Turns
<1>7. \A x \in Copies : x.session \in Sessions /\ x.said \in BOOLEAN
  BY DEF Copies
<1>. QED BY <1>2, <1>3, <1>4, <1>5, <1>6, <1>7

\* The state of the goroutine after a step within its task.
LEMMA GotoFacts ==
  ASSUME Typed, NEW step, NEW list, Goto(step, list)
  PROVE  /\ Shaped(startup') /\ startup'.task = startup.task /\ startup'.attempt = startup.attempt
         /\ startup'.step = step /\ startup'.list = list /\ startup'.copy = startup.copy
<1>1. startup = [task |-> startup.task, step |-> startup.step, list |-> startup.list,
                 copy |-> startup.copy, attempt |-> startup.attempt]
  BY DEF Typed, Shaped
<1>2. startup' = [startup EXCEPT !.step = step, !.list = list]
  BY DEF Goto
<1>3. startup' = [task |-> startup.task, step |-> step, list |-> list,
                  copy |-> startup.copy, attempt |-> startup.attempt]
  BY <1>1, <1>2
<1>. QED BY <1>3 DEF Shaped

\* A task that Begun describes is fresh.
LEMMA BegunFresh ==
  ASSUME NEW s, NEW task \in TaskNames, s = Begun(task)
  PROVE  Fresh(s) /\ s.task = task
<1>1. 1 \in 1..Attempts
  BY ProjectionAssumption
<1>. QED BY <1>1 DEF Fresh, Shaped, Begun

\* A task that begins, again or for the first time, has nothing on its list,
\* and only what the tasks before it have achieved.
LEMMA FreshKeeps ==
  ASSUME Fresh(startup'), TypeOK', writer' \in Batches \cup {NoBatch}, Consistent',
         Achieved(startup.task)'
  PROVE  ProjectionInv'
<1>1. Typed'
  <2>1. NoCopy \in [Requests -> Copies \cup {NoTurn}]
    BY DEF NoCopy
  <2>. QED BY <2>1 DEF Typed, Fresh
<1>2. /\ startup'.list = {} /\ startup'.step = "list" /\ startup'.copy = NoCopy
  BY DEF Fresh
<1>3. \A r \in Requests : NoCopy[r] = NoTurn
  BY DEF NoCopy
<1>4. Work'
  <2>1. CanonicalWork'
    BY <1>2 DEF CanonicalWork
  <2>2. BackfillWork'
    BY <1>2 DEF BackfillWork
  <2>3. SummaryWork'
    BY <1>2 DEF SummaryWork
  <2>4. PreviewWork'
    BY <1>2 DEF PreviewWork
  <2>5. TurnWork'
    BY <1>2, <1>3 DEF TurnWork
  <2>6. FacetWork'
    BY <1>2 DEF FacetWork
  <2>. QED BY <2>1, <2>2, <2>3, <2>4, <2>5, <2>6 DEF Work
<1>. QED BY <1>1, <1>4 DEF ProjectionInv

\* So when it begins without a change of the tables.
LEMMA BeginsKeeps ==
  ASSUME ProjectionInv, Fresh(startup'), Achieved(startup.task)',
         rows' = rows, turns' = turns, proj' = proj, mapping' = mapping, previewed' = previewed,
         writer' = writer \/ writer' = NoBatch,
         versions' \in [canonical : {0, 1}, summaries : {0, 3}, previews : {0, 4}],
         RecordedIsRepaired'
  PROVE  ProjectionInv'
<1>1. writer' \in Batches \cup {NoBatch}
  BY DEF ProjectionInv, Typed
<1>2. TypeOK'
  BY DEF ProjectionInv, Typed, TypeOK, Fresh, TaskNames
<1>3. Consistent'
  BY DEF ProjectionInv, Consistent, Unmoved, Stored, Told, TurnAgrees
<1>. QED BY <1>1, <1>2, <1>3, FreshKeeps

\* The tasks before a task that begins again have achieved what they had.
LEMMA RetryKeeps ==
  ASSUME ProjectionInv, TaskFails
  PROVE  ProjectionInv'
<1>1. /\ rows' = rows /\ turns' = turns /\ proj' = proj /\ mapping' = mapping /\ previewed' = previewed
      /\ versions' = versions /\ writer' = writer /\ startup' = Retried /\ Working
  BY DEF TaskFails
<1>2. startup.task \in TaskNames /\ startup.attempt \in 1..Attempts /\ Attempts \in Nat
  BY ProjectionAssumption DEF ProjectionInv, Typed, TypeOK, TaskNames
<1>3. Fresh(startup') /\ (startup'.task = startup.task \/ startup'.task = "stopped")
  <2>1. CASE startup.attempt < Attempts
    <3>1. startup' = [task |-> startup.task, step |-> "list", list |-> {}, copy |-> NoCopy,
                      attempt |-> startup.attempt + 1]
      BY <1>1, <2>1 DEF Retried, Begun
    <3>2. startup.attempt + 1 \in 1..Attempts
      BY <1>2, <2>1
    <3>. QED BY <1>2, <3>1, <3>2 DEF Fresh, Shaped
  <2>2. CASE ~(startup.attempt < Attempts)
    <3>1. startup' = [task |-> "stopped", step |-> "list", list |-> {}, copy |-> NoCopy,
                      attempt |-> startup.attempt]
      BY <1>1, <2>2 DEF Retried, Begun
    <3>. QED BY <1>2, <3>1 DEF Fresh, Shaped, TaskNames
  <2>. QED BY <2>1, <2>2
<1>4. Achieved(startup.task)'
  <2>1. Achieved(startup.task)
    BY DEF ProjectionInv, Work
  <2>. QED BY <1>1, <1>3, <2>1 DEF Achieved, AllIndexed, AllTold, AllTurned, AllFilled, Stored, Told,
            AfterCanonical, AfterBackfill, AfterPreviews, AfterTurns
<1>5. RecordedIsRepaired'
  BY <1>1 DEF ProjectionInv, Consistent, RecordedIsRepaired, Stored
<1>6. versions' \in [canonical : {0, 1}, summaries : {0, 3}, previews : {0, 4}]
  BY <1>1 DEF ProjectionInv, Typed, TypeOK
<1>. QED BY <1>1, <1>3, <1>4, <1>5, <1>6, BeginsKeeps

\* After a restart nothing is claimed to be achieved.
LEMMA RestartKeeps ==
  ASSUME ProjectionInv, Restart
  PROVE  ProjectionInv'
<1>1. /\ rows' = rows /\ turns' = turns /\ proj' = proj /\ mapping' = mapping /\ previewed' = previewed
      /\ versions' = versions /\ writer' = NoBatch /\ startup' = Begun("canonical")
  BY DEF Restart
<1>2. Fresh(startup') /\ startup'.task = "canonical"
  BY <1>1, BegunFresh DEF TaskNames
<1>3. Achieved(startup.task)'
  BY <1>2 DEF Achieved, AfterCanonical, AfterBackfill, AfterPreviews, AfterTurns
<1>4. RecordedIsRepaired'
  BY <1>1 DEF ProjectionInv, Consistent, RecordedIsRepaired, Stored
<1>5. versions' \in [canonical : {0, 1}, summaries : {0, 3}, previews : {0, 4}]
  BY <1>1 DEF ProjectionInv, Typed, TypeOK
<1>. QED BY <1>1, <1>2, <1>3, <1>4, <1>5, BeginsKeeps

\* A step of the goroutine that only reads leaves the tables consistent.
LEMMA ReadingKeeps ==
  ASSUME ProjectionInv, Shaped(startup'),
         startup'.task = startup.task, startup'.attempt = startup.attempt,
         startup'.copy \in [Requests -> Copies \cup {NoTurn}],
         rows' = rows, turns' = turns, proj' = proj, mapping' = mapping, previewed' = previewed,
         writer' = writer, versions' = versions
  PROVE  Typed' /\ Consistent' /\ Achieved(startup.task)'
<1>1. Typed'
  BY DEF ProjectionInv, Typed, TypeOK
<1>2. Consistent'
  BY DEF ProjectionInv, Consistent, Unmoved, Stored, Told, TurnAgrees, RecordedIsRepaired
<1>3. Achieved(startup.task)'
  <2>1. Achieved(startup.task)
    BY DEF ProjectionInv, Work
  <2>. QED BY <2>1 DEF Achieved, AllIndexed, AllTold, AllTurned, AllFilled, Stored, Told
<1>. QED BY <1>1, <1>2, <1>3

\* The session that a request is sent with and the one the repair gives it.
LEMMA SessionsTyped ==
  /\ SentSession \in [Requests -> Sessions] /\ Canonical \in [Requests -> Sessions]
  /\ Legacy \subseteq Requests
<1>1. \A r \in Requests : SentSession[r] \in Sessions
  BY ProjectionAssumption DEF SentSession
<1>2. SentSession \in [Requests -> Sessions]
  BY <1>1 DEF SentSession
<1>3. \A r \in Requests : Canonical[r] \in Sessions
  BY <1>1, ProjectionAssumption DEF Canonical
<1>4. Canonical \in [Requests -> Sessions]
  BY <1>3 DEF Canonical
<1>. QED BY <1>2, <1>4, ProjectionAssumption

\* No row and no summary has a principal.
Unowned ==
    /\ \A r \in Requests : Stored(r) => rows[r].principal = None
    /\ \A s \in Sessions : proj.summaries[s] # NoSummary => proj.summaries[s].principal = None

\* A database of an older version satisfies the invariant.
LEMMA InitHolds == Init => ProjectionInv /\ Unowned
<1> SUFFICES ASSUME Init PROVE ProjectionInv /\ Unowned
  OBVIOUS
<1>1. PICK stored, old, said :
        /\ stored \in SUBSET Legacy
        /\ old \in SUBSET stored /\ said \in SUBSET (stored \cap Text)
        /\ rows = [r \in Requests |-> IF r \in stored
                     THEN [session |-> SentSession[r], principal |-> None, facet |-> None,
                           said |-> r \in said] ELSE NoRow]
        /\ proj = Reindexed(rows, old)
  BY DEF Init
<1>2. stored \subseteq Requests /\ SentSession \in [Requests -> Sessions] /\ Attempts \in Nat \ {0}
  BY <1>1, ProjectionAssumption, SessionsTyped
<1>3. None \in Owner
  BY DEF Owner
<1>4. ASSUME NEW r \in stored
      PROVE  /\ rows[r] \in Rows /\ rows[r].session = SentSession[r] /\ rows[r] # NoRow
             /\ rows[r].said = (r \in said) /\ rows[r].principal = None
  <2>1. rows[r] = [session |-> SentSession[r], principal |-> None, facet |-> None, said |-> r \in said]
    BY <1>1, <1>2
  <2>2. rows[r] \in Rows
    BY <2>1, <1>2, <1>3 DEF Rows
  <2>. QED BY <2>1, <2>2, Absent
<1>5. \A r \in Requests : Stored(r) <=> r \in stored
  BY <1>1, <1>4 DEF Stored
<1>6. rows \in Tables
  <2>1. \A r \in Requests : rows[r] \in Rows \cup {NoRow}
    BY <1>1, <1>4
  <2>2. rows = [r \in Requests |-> rows[r]]
    BY <1>1
  <2>. QED BY <2>1, <2>2 DEF Tables
<1>7. old \subseteq Requests /\ \A r \in old : rows[r] # NoRow /\ (rows[r].said => r \in Text)
  BY <1>1, <1>2, <1>4
<1>8. /\ proj \in Projections /\ Exact(proj, rows)
      /\ \A s \in Sessions : proj.summaries[s] # NoSummary => proj.summaries[s].principal = None
  <2>1. proj = Reindexed(rows, old)
    BY <1>1
  <2>. QED BY <2>1, <1>6, <1>7, ReindexedExact
<1>9. /\ turns = [r \in Requests |-> NoTurn] /\ previewed = {} /\ writer = NoBatch
      /\ mapping = [h \in Credentials |-> None] /\ startup = Begun("canonical")
      /\ versions = [canonical |-> 0, summaries |-> 0, previews |-> 0]
  BY DEF Init
<1>10. Fresh(startup) /\ startup.task = "canonical"
  BY <1>9, BegunFresh DEF TaskNames
<1>11. Typed
  <2>1. NoCopy \in [Requests -> Copies \cup {NoTurn}]
    BY DEF NoCopy
  <2>2. turns \in [Requests -> Turns \cup {NoTurn}] /\ mapping \in [Credentials -> Owner]
    BY <1>9, <1>3
  <2>3. versions \in [canonical : {0, 1}, summaries : {0, 3}, previews : {0, 4}] /\ previewed \subseteq Requests
    BY <1>9
  <2>4. rows \in [Requests -> Rows \cup {NoRow}]
    BY <1>6 DEF Tables
  <2>5. TypeOK
    BY <2>2, <2>3, <2>4, <1>8, <1>10 DEF TypeOK, Fresh, TaskNames
  <2>. QED BY <2>1, <2>5, <1>9, <1>10 DEF Typed, Fresh
<1>12. Consistent
  <2>1. Unmoved
    BY <1>4, <1>5 DEF Unmoved
  <2>2. RecordedIsRepaired
    BY <1>9 DEF RecordedIsRepaired
  <2>3. \A r \in Requests : Stored(r) /\ rows[r].said => r \in Text
    BY <1>1, <1>4, <1>5
  <2>. QED BY <2>1, <2>2, <2>3, <1>8, <1>9 DEF Consistent
<1>13. Work
  <2>1. startup.list = {} /\ startup.step = "list"
    BY <1>10 DEF Fresh
  <2>2. Achieved(startup.task)
    BY <1>10 DEF Achieved, AfterCanonical, AfterBackfill, AfterPreviews, AfterTurns
  <2>. QED BY <1>10, <2>1, <2>2 DEF Work, CanonicalWork, BackfillWork, SummaryWork, PreviewWork,
            TurnWork, FacetWork
<1>14. Unowned
  BY <1>4, <1>5, <1>8 DEF Unowned
<1>. QED BY <1>11, <1>12, <1>13, <1>14 DEF ProjectionInv

\* The list of the canonical repair holds every row that has to move.
LEMMA CanonicalListKeeps ==
  ASSUME ProjectionInv, CanonicalList
  PROVE  ProjectionInv'
<1> DEFINE repairs == {r \in Requests : Stored(r) /\ Canonical[r] # rows[r].session}
<1>1. /\ rows' = rows /\ turns' = turns /\ proj' = proj /\ mapping' = mapping /\ previewed' = previewed
      /\ writer' = writer /\ startup.task = "canonical" /\ startup.step = "list"
  BY DEF CanonicalList, At
<1>2. versions \in [canonical : {0, 1}, summaries : {0, 3}, previews : {0, 4}]
  BY DEF ProjectionInv, Typed, TypeOK
<1>3. RecordedIsRepaired
  BY DEF ProjectionInv, Consistent
<1>4. \/ versions.canonical >= 1 /\ Done /\ versions' = versions
      \/ repairs = {} /\ Done /\ versions' = [versions EXCEPT !.canonical = 1]
      \/ Goto("write", repairs) /\ versions' = versions
  BY DEF CanonicalList
<1>5. Done => Fresh(startup') /\ startup'.task = "backfill"
  BY <1>1, BegunFresh DEF Done, NextTask, TaskNames
<1>6. CASE versions.canonical >= 1 /\ Done /\ versions' = versions
  <2>1. versions'.canonical = 1
    BY <1>2, <1>6
  <2>2. Achieved(startup.task)'
    BY <1>5, <1>6, <2>1 DEF Achieved, AfterCanonical, AfterBackfill, AfterPreviews, AfterTurns
  <2>3. RecordedIsRepaired'
    BY <1>1, <1>3, <1>6 DEF RecordedIsRepaired, Stored
  <2>. QED BY <1>1, <1>2, <1>5, <1>6, <2>2, <2>3, BeginsKeeps
<1>7. CASE repairs = {} /\ Done /\ versions' = [versions EXCEPT !.canonical = 1]
  <2>1. versions'.canonical = 1 /\ versions' \in [canonical : {0, 1}, summaries : {0, 3}, previews : {0, 4}]
    BY <1>2, <1>7
  <2>2. Achieved(startup.task)'
    BY <1>5, <1>7, <2>1 DEF Achieved, AfterCanonical, AfterBackfill, AfterPreviews, AfterTurns
  <2>3. RecordedIsRepaired'
    BY <1>1, <1>7, SessionsTyped DEF RecordedIsRepaired, Stored
  <2>. QED BY <1>1, <1>5, <1>7, <2>1, <2>2, <2>3, BeginsKeeps
<1>8. CASE Goto("write", repairs) /\ versions' = versions
  <2>1. /\ Shaped(startup') /\ startup'.task = "canonical" /\ startup'.attempt = startup.attempt
        /\ startup'.step = "write" /\ startup'.list = repairs /\ startup'.copy = startup.copy
        /\ startup'.task = startup.task
    BY <1>1, <1>8, GotoFacts DEF ProjectionInv
  <2>2. startup'.copy \in [Requests -> Copies \cup {NoTurn}]
    BY <2>1 DEF ProjectionInv, Typed
  <2>3. Typed' /\ Consistent' /\ Achieved(startup.task)'
    BY <1>1, <1>8, <2>1, <2>2, ReadingKeeps
  <2>4. CanonicalWork'
    BY <1>1, <2>1, SessionsTyped DEF CanonicalWork, Stored
  <2>5. BackfillWork' /\ SummaryWork' /\ PreviewWork' /\ TurnWork' /\ FacetWork'
    BY <2>1 DEF BackfillWork, SummaryWork, PreviewWork, TurnWork, FacetWork
  <2>. QED BY <2>3, <2>4, <2>5 DEF ProjectionInv, Work
<1>. QED BY <1>4, <1>6, <1>7, <1>8

\* A row or a turn row with another value in one column.
LEMMA RowChanged ==
  ASSUME NEW x \in Rows
  PROVE  /\ \A s \in Sessions : LET y == [x EXCEPT !.session = s] IN
               /\ y \in Rows /\ y.session = s
               /\ y.principal = x.principal /\ y.facet = x.facet /\ y.said = x.said
         /\ \A p \in Owner : LET y == [x EXCEPT !.principal = p] IN
               /\ y \in Rows /\ y.principal = p
               /\ y.session = x.session /\ y.facet = x.facet /\ y.said = x.said
         /\ \A b \in BOOLEAN : LET y == [x EXCEPT !.said = b] IN
               /\ y \in Rows /\ y.said = b
               /\ y.session = x.session /\ y.facet = x.facet /\ y.principal = x.principal
BY DEF Rows

\* After the transaction of the canonical repair every row of an older version
\* is in its canonical session, and all rows are indexed where they are, without
\* a principal.
LEMMA CanonicalWriteFacts ==
  ASSUME ProjectionInv, CanonicalWrite
  PROVE  /\ rows' \in Tables /\ turns' \in [Requests -> Turns \cup {NoTurn}]
         /\ \A r \in Requests : Stored(r)' <=> Stored(r)
         /\ \A r \in Requests : Stored(r) => /\ r \in Legacy => rows'[r].session = Canonical[r]
                                             /\ rows'[r].said = rows[r].said
                                             /\ rows'[r].principal = rows[r].principal
         /\ \A r \in Requests : turns'[r] # NoTurn =>
               /\ Stored(r) /\ turns'[r].session = rows'[r].session /\ turns'[r].said = rows'[r].said
         /\ proj' \in Projections /\ Exact(proj', rows')
         /\ \A r \in Requests : Stored(r) => proj'.indexed[r] # None
         /\ \A s \in Sessions : proj'.summaries[s] # NoSummary => proj'.summaries[s].principal = None
<1>1. /\ rows' = [r \in Requests |-> IF r \in startup.list THEN [rows[r] EXCEPT !.session = Canonical[r]]
                                     ELSE rows[r]]
      /\ turns' = [r \in Requests |-> IF r \in startup.list /\ turns[r] # NoTurn
                                      THEN [turns[r] EXCEPT !.session = Canonical[r]] ELSE turns[r]]
      /\ proj' = Reindexed(rows', {r \in Requests : rows'[r] # NoRow})
  BY DEF CanonicalWrite
<1>2. /\ \A r \in startup.list : r \in Requests /\ Stored(r)
      /\ \A r \in Legacy : Stored(r) /\ rows[r].session # Canonical[r] => r \in startup.list
  BY DEF CanonicalWrite, At, ProjectionInv, Work, CanonicalWork
<1>3. \A r \in Requests : Canonical[r] \in Sessions
  BY SessionsTyped
<1>4. Typed /\ Consistent
  BY DEF ProjectionInv
<1>5. ASSUME NEW r \in Requests, Stored(r)
      PROVE  /\ rows'[r] \in Rows /\ (r \in Legacy => rows'[r].session = Canonical[r])
             /\ rows'[r].session = IF r \in startup.list THEN Canonical[r] ELSE rows[r].session
             /\ rows'[r].said = rows[r].said /\ rows'[r].principal = rows[r].principal
  <2>1. rows[r] \in Rows
    BY <1>4, <1>5, TableFacts
  <2>2. CASE r \in startup.list
    <3>1. rows'[r] = [rows[r] EXCEPT !.session = Canonical[r]]
      BY <1>1, <2>2
    <3>. QED BY <3>1, <2>1, <2>2, <1>3, RowChanged
  <2>3. CASE r \notin startup.list
    BY <1>1, <1>2, <1>5, <2>1, <2>3
  <2>. QED BY <2>2, <2>3
<1>6. ASSUME NEW r \in Requests, ~Stored(r) PROVE rows'[r] = NoRow
  BY <1>1, <1>2, <1>6 DEF Stored
<1>7. \A r \in Requests : rows'[r] # NoRow <=> Stored(r)
  BY <1>5, <1>6, Absent
<1>8. rows' \in Tables
  <2>1. \A r \in Requests : rows'[r] \in Rows \cup {NoRow}
    BY <1>5, <1>6
  <2>2. rows' = [r \in Requests |-> rows'[r]]
    BY <1>1
  <2>. QED BY <2>1, <2>2 DEF Tables
<1>9. ASSUME NEW r \in Requests, turns[r] # NoTurn
      PROVE  /\ turns'[r] \in Turns /\ Stored(r)
             /\ turns'[r].session = rows'[r].session /\ turns'[r].said = rows'[r].said
  <2>1. /\ turns[r] \in Turns /\ Stored(r) /\ turns[r].session = rows[r].session
        /\ turns[r].said = rows[r].said
    BY <1>4, <1>9, TableFacts DEF Consistent, TurnAgrees
  <2>2. /\ rows'[r].said = rows[r].said
        /\ rows'[r].session = IF r \in startup.list THEN Canonical[r] ELSE rows[r].session
    BY <1>5, <2>1
  <2>3. CASE r \in startup.list
    <3>1. turns'[r] = [turns[r] EXCEPT !.session = Canonical[r]]
      BY <1>1, <1>9, <2>3
    <3> DEFINE x == turns[r]
               c == Canonical[r]
    <3>2. turns'[r] = [x EXCEPT !.session = c] /\ x \in Turns /\ c \in Sessions
      BY <3>1, <2>1, <1>3
    <3> HIDE DEF x, c
    <3>3. turns'[r] \in Turns /\ turns'[r].session = c /\ turns'[r].said = x.said
      BY <3>2, SMT DEF Turns
    <3>. QED BY <3>3, <2>1, <2>2, <2>3 DEF x, c
  <2>4. CASE r \notin startup.list
    BY <1>1, <1>2, <2>1, <2>2, <2>4
  <2>. QED BY <2>3, <2>4
<1>10. \A r \in Requests : turns[r] = NoTurn => turns'[r] = NoTurn
  BY <1>1
<1>11. turns' \in [Requests -> Turns \cup {NoTurn}]
  <2>1. \A r \in Requests : turns'[r] \in Turns \cup {NoTurn}
    BY <1>9, <1>10
  <2>2. turns' = [r \in Requests |-> turns'[r]]
    BY <1>1
  <2>. QED BY <2>1, <2>2
<1> DEFINE S == {r \in Requests : rows'[r] # NoRow}
<1>12. S \subseteq Requests /\ \A r \in S : rows'[r] # NoRow /\ (rows'[r].said => r \in Text)
  BY <1>4, <1>5, <1>7 DEF Consistent
<1>13. \A r \in Requests : r \in S <=> Stored(r)
  BY <1>7
<1>14. proj' = Reindexed(rows', S)
  BY <1>1
<1> HIDE DEF S
<1>15. /\ proj' \in Projections /\ Exact(proj', rows')
       /\ \A r \in Requests : proj'.indexed[r] # None <=> r \in S
       /\ \A s \in Sessions : proj'.summaries[s] # NoSummary => proj'.summaries[s].principal = None
  BY <1>8, <1>12, <1>14, ReindexedExact
<1>16. \A r \in Requests : Stored(r)' <=> Stored(r)
  BY <1>7 DEF Stored
<1>. QED BY <1>5, <1>8, <1>9, <1>10, <1>11, <1>13, <1>15, <1>16

\* So the invariant survives it, and the repair is done before it is recorded.
LEMMA CanonicalWriteKeeps ==
  ASSUME ProjectionInv, CanonicalWrite
  PROVE  ProjectionInv'
<1>1. /\ startup.task = "canonical" /\ Goto("version", {}) /\ mapping' = mapping
      /\ previewed' = previewed /\ versions' = versions /\ writer' = writer
  BY DEF CanonicalWrite, At
<1>2. /\ Shaped(startup') /\ startup'.task = "canonical" /\ startup'.attempt = startup.attempt
      /\ startup'.step = "version" /\ startup'.list = {} /\ startup'.copy = startup.copy
  BY <1>1, GotoFacts DEF ProjectionInv
<1>3. Typed'
  <2>1. /\ rows' \in [Requests -> Rows \cup {NoRow}] /\ turns' \in [Requests -> Turns \cup {NoTurn}]
        /\ proj' \in Projections
    BY CanonicalWriteFacts DEF Tables
  <2>. QED BY <1>1, <1>2, <2>1 DEF ProjectionInv, Typed, TypeOK
<1>4. Repaired'
  BY CanonicalWriteFacts, SessionsTyped DEF Repaired
<1>5. Consistent'
  <2>1. Exact(proj, rows)'
    BY CanonicalWriteFacts
  <2>2. Unmoved'
    BY CanonicalWriteFacts DEF Unmoved
  <2>3. (writer # NoBatch => writer.request \notin Legacy \/ Stored(writer.request))'
    <3>1. writer # NoBatch => writer.request \in Requests
      BY DEF ProjectionInv, Typed, Batches
    <3>2. writer # NoBatch => writer.request \notin Legacy \/ Stored(writer.request)
      BY DEF ProjectionInv, Consistent
    <3>3. \A r \in Requests : Stored(r) => rows'[r] # NoRow
      BY CanonicalWriteFacts DEF Stored
    <3>. QED BY <1>1, <3>1, <3>2, <3>3 DEF Stored
  <2>4. RecordedIsRepaired'
    BY <1>4 DEF Repaired, RecordedIsRepaired
  <2>5. (\A r \in Requests : Stored(r) /\ rows[r].said => r \in Text)'
    BY CanonicalWriteFacts DEF ProjectionInv, Consistent
  <2>6. (\A r \in previewed : Stored(r) /\ Told(r))'
    <3>1. previewed \subseteq Requests /\ \A r \in previewed : Stored(r) /\ Told(r)
      BY DEF ProjectionInv, Typed, TypeOK, Consistent
    <3>. QED BY <1>1, <3>1, CanonicalWriteFacts DEF Told
  <2>7. (\A r \in Requests : turns[r] # NoTurn => TurnAgrees(r))'
    BY CanonicalWriteFacts DEF TurnAgrees
  <2>. QED BY <2>1, <2>2, <2>3, <2>4, <2>5, <2>6, <2>7 DEF Consistent
<1>6. Work'
  <2>1. Achieved(startup.task)'
    BY <1>2 DEF Achieved, AfterCanonical, AfterBackfill, AfterPreviews, AfterTurns
  <2>2. CanonicalWork'
    BY <1>2, <1>4 DEF CanonicalWork
  <2>3. BackfillWork' /\ SummaryWork' /\ PreviewWork' /\ TurnWork' /\ FacetWork'
    BY <1>2 DEF BackfillWork, SummaryWork, PreviewWork, TurnWork, FacetWork
  <2>. QED BY <2>1, <2>2, <2>3 DEF Work
<1>. QED BY <1>3, <1>5, <1>6 DEF ProjectionInv

\* Recording the version begins the backfill.
LEMMA CanonicalVersionKeeps ==
  ASSUME ProjectionInv, CanonicalVersion
  PROVE  ProjectionInv'
<1>1. /\ rows' = rows /\ turns' = turns /\ proj' = proj /\ mapping' = mapping /\ previewed' = previewed
      /\ writer' = writer /\ startup.task = "canonical" /\ startup.step = "version"
      /\ versions' = [versions EXCEPT !.canonical = 1] /\ Done
  BY DEF CanonicalVersion, At
<1>2. versions' \in [canonical : {0, 1}, summaries : {0, 3}, previews : {0, 4}] /\ versions'.canonical = 1
  BY <1>1 DEF ProjectionInv, Typed, TypeOK
<1>3. Fresh(startup') /\ startup'.task = "backfill"
  BY <1>1, BegunFresh DEF Done, NextTask, TaskNames
<1>4. Achieved(startup.task)'
  BY <1>2, <1>3 DEF Achieved, AfterCanonical, AfterBackfill, AfterPreviews, AfterTurns
<1>5. RecordedIsRepaired'
  BY <1>1 DEF ProjectionInv, Work, CanonicalWork, Repaired, RecordedIsRepaired, Stored
<1>. QED BY <1>1, <1>2, <1>3, <1>4, <1>5, BeginsKeeps

\* Projections stay exact while rows keep their sessions.
LEMMA ExactCarries ==
  ASSUME NEW p \in Projections, NEW table, NEW next, Exact(p, table),
         \A r \in Requests : table[r] # NoRow => next[r] # NoRow /\ next[r].session = table[r].session
  PROVE  Exact(p, next)
<1>1. ASSUME NEW s \in Sessions PROVE Quotes(p, next, s)
  <2>1. Quotes(p, table, s)
    BY DEF Exact
  <2>2. Text \subseteq Requests
    BY DEF Text
  <2>. QED BY <2>1, <2>2 DEF Quotes
<1>. QED BY <1>1 DEF Exact

\* The list of the backfill holds every row that is not indexed.
LEMMA BackfillListKeeps ==
  ASSUME ProjectionInv, BackfillList
  PROVE  ProjectionInv'
<1> DEFINE ids == {r \in Requests : Stored(r) /\ proj.indexed[r] = None}
<1>1. /\ rows' = rows /\ turns' = turns /\ proj' = proj /\ mapping' = mapping /\ previewed' = previewed
      /\ versions' = versions /\ writer' = writer /\ startup.task = "backfill" /\ startup.step = "list"
      /\ (ids = {} /\ Done) \/ (ids # {} /\ Goto("write", ids))
  BY DEF BackfillList, At
<1>2. CASE ids = {} /\ Done
  <2>1. Fresh(startup') /\ startup'.task = "summaries"
    BY <1>1, <1>2, BegunFresh DEF Done, NextTask, TaskNames
  <2>2. versions.canonical = 1
    BY <1>1 DEF ProjectionInv, Work, Achieved, AfterCanonical
  <2>3. AllIndexed'
    BY <1>1, <1>2 DEF AllIndexed, Stored
  <2>4. Achieved(startup.task)'
    BY <1>1, <2>1, <2>2, <2>3 DEF Achieved, AfterPreviews, AfterTurns
  <2>5. RecordedIsRepaired'
    BY <1>1 DEF ProjectionInv, Consistent, RecordedIsRepaired, Stored
  <2>6. versions' \in [canonical : {0, 1}, summaries : {0, 3}, previews : {0, 4}]
    BY <1>1 DEF ProjectionInv, Typed, TypeOK
  <2>. QED BY <1>1, <2>1, <2>4, <2>5, <2>6, BeginsKeeps
<1>3. CASE ids # {} /\ Goto("write", ids)
  <2>1. /\ Shaped(startup') /\ startup'.task = "backfill" /\ startup'.attempt = startup.attempt
        /\ startup'.step = "write" /\ startup'.list = ids /\ startup'.copy = startup.copy
        /\ startup'.task = startup.task
    BY <1>1, <1>3, GotoFacts DEF ProjectionInv
  <2>2. startup'.copy \in [Requests -> Copies \cup {NoTurn}]
    BY <2>1 DEF ProjectionInv, Typed
  <2>3. Typed' /\ Consistent' /\ Achieved(startup.task)'
    BY <1>1, <2>1, <2>2, ReadingKeeps
  <2>4. BackfillWork'
    BY <1>1, <1>3, <2>1 DEF BackfillWork, Stored
  <2>5. CanonicalWork' /\ SummaryWork' /\ PreviewWork' /\ TurnWork' /\ FacetWork'
    BY <2>1 DEF CanonicalWork, SummaryWork, PreviewWork, TurnWork, FacetWork
  <2>. QED BY <2>3, <2>4, <2>5 DEF ProjectionInv, Work
<1>. QED BY <1>1, <1>2, <1>3

\* A row that is backfilled is indexed under the session its row has.
LEMMA BackfillWriteFacts ==
  ASSUME ProjectionInv, BackfillWrite
  PROVE  /\ proj' \in Projections /\ Exact(proj', rows)
         /\ \E r \in startup.list :
               /\ r \in Requests /\ Stored(r) /\ proj'.indexed[r] # None
               /\ \A q \in Requests : q # r => proj'.indexed[q] = proj.indexed[q]
               /\ Inherits(proj', proj, r, rows[r].principal)
               /\ \/ startup.list = {r} /\ Done
                  \/ startup.list # {r} /\ Goto("write", startup.list \ {r})
<1>1. /\ startup.list # {} /\ \A r \in startup.list : r \in Requests /\ Stored(r)
  BY DEF BackfillWrite, At, ProjectionInv, Work, BackfillWork
<1> DEFINE r == Earliest(startup.list)
           e == [Entry(rows, r) EXCEPT !.principal = rows[r].principal]
<1>2. /\ proj' = IndexSessionRecord(proj, e)
      /\ (startup.list = {r} /\ Done) \/ (startup.list # {r} /\ Goto("write", startup.list \ {r}))
  BY DEF BackfillWrite
<1>3. r \in startup.list
  <2>1. startup.list \subseteq Nat
    BY <1>1, Absent
  <2>. QED BY <1>1, <2>1, EarliestOf
<1> HIDE DEF r
<1>4. r \in Requests /\ Stored(r)
  BY <1>1, <1>3
<1>5. Fits(e, rows) /\ e.request = r /\ e.principal = rows[r].principal
  <2>1. /\ rows[r].session \in Sessions /\ rows[r].principal \in Owner
        /\ rows[r].facet \in Owner /\ rows[r].said \in BOOLEAN
    BY <1>4, TableFacts DEF ProjectionInv
  <2>2. rows[r].said => r \in Text
    BY <1>4 DEF ProjectionInv, Consistent
  <2>3. e = [request |-> r, session |-> rows[r].session, principal |-> rows[r].principal,
             facet |-> rows[r].facet, said |-> rows[r].said]
    BY DEF Entry
  <2> HIDE DEF e
  <2>4. /\ e \in Entries /\ e.request = r /\ e.principal = rows[r].principal
        /\ e.session = rows[r].session /\ e.said = rows[r].said
    BY <1>4, <2>1, <2>3 DEF Entries
  <2>. QED BY <1>4, <2>2, <2>4 DEF Fits, Stored
<1> HIDE DEF e
<1>6. proj \in Projections /\ Exact(proj, rows)
  BY DEF ProjectionInv, Typed, TypeOK, Consistent
<1>7. /\ proj' \in Projections /\ Exact(proj', rows) /\ proj'.indexed[r] # None
      /\ \A q \in Requests : q # r => proj'.indexed[q] = proj.indexed[q]
      /\ Inherits(proj', proj, r, rows[r].principal)
  BY <1>2, <1>5, <1>6, IndexKeeps
<1>. QED BY <1>2, <1>3, <1>4, <1>7

\* The backfill takes a row from its list when it is indexed.
LEMMA BackfillWriteKeeps ==
  ASSUME ProjectionInv, BackfillWrite
  PROVE  ProjectionInv'
<1>1. /\ rows' = rows /\ turns' = turns /\ mapping' = mapping /\ previewed' = previewed
      /\ versions' = versions /\ writer' = writer /\ startup.task = "backfill" /\ startup.step = "write"
  BY DEF BackfillWrite, At
<1>2. /\ startup.list # {} /\ \A r \in startup.list : r \in Requests /\ Stored(r)
      /\ \A r \in Requests : Stored(r) /\ proj.indexed[r] = None => r \in startup.list
      /\ versions.canonical = 1
  BY <1>1 DEF ProjectionInv, Work, BackfillWork, Achieved, AfterCanonical
<1>3. PICK r \in startup.list :
        /\ r \in Requests /\ Stored(r) /\ proj'.indexed[r] # None
        /\ \A q \in Requests : q # r => proj'.indexed[q] = proj.indexed[q]
        /\ \/ startup.list = {r} /\ Done
           \/ startup.list # {r} /\ Goto("write", startup.list \ {r})
  BY BackfillWriteFacts
<1>4. Consistent'
  <2>1. Exact(proj, rows)'
    BY <1>1, BackfillWriteFacts
  <2>2. Unmoved'
    BY <1>1, <1>3 DEF ProjectionInv, Consistent, Unmoved, Stored
  <2>. QED BY <1>1, <2>1, <2>2 DEF ProjectionInv, Consistent, Stored, Told, TurnAgrees, RecordedIsRepaired
<1>5. proj' \in Projections
  BY BackfillWriteFacts
<1>6. CASE startup.list = {r} /\ Done
  <2>1. Fresh(startup') /\ startup'.task = "summaries"
    BY <1>1, <1>6, BegunFresh DEF Done, NextTask, TaskNames
  <2>2. AllIndexed'
    BY <1>1, <1>2, <1>3, <1>6 DEF AllIndexed, Stored
  <2>3. Achieved(startup.task)'
    BY <1>1, <1>2, <2>1, <2>2 DEF Achieved, AfterPreviews, AfterTurns
  <2>4. TypeOK' /\ writer' \in Batches \cup {NoBatch}
    BY <1>1, <1>5, <2>1 DEF ProjectionInv, Typed, TypeOK, Fresh, TaskNames
  <2>. QED BY <1>4, <2>1, <2>3, <2>4, FreshKeeps
<1>7. CASE startup.list # {r} /\ Goto("write", startup.list \ {r})
  <2>1. /\ Shaped(startup') /\ startup'.task = "backfill" /\ startup'.attempt = startup.attempt
        /\ startup'.step = "write" /\ startup'.list = startup.list \ {r} /\ startup'.copy = startup.copy
    BY <1>1, <1>7, GotoFacts DEF ProjectionInv
  <2>2. Typed'
    BY <1>1, <1>5, <2>1 DEF ProjectionInv, Typed, TypeOK
  <2>3. Achieved(startup.task)'
    BY <1>1, <1>2, <2>1 DEF Achieved, AfterBackfill, AfterPreviews, AfterTurns
  <2>4. BackfillWork'
    <3>1. startup'.list # {} /\ \A q \in startup'.list : q \in Requests /\ Stored(q)'
      BY <1>1, <1>2, <1>7, <2>1 DEF Stored
    <3>2. \A q \in Requests : Stored(q)' /\ proj'.indexed[q] = None => q \in startup'.list
      BY <1>1, <1>2, <1>3, <2>1 DEF Stored
    <3>. QED BY <3>1, <3>2 DEF BackfillWork
  <2>5. CanonicalWork' /\ SummaryWork' /\ PreviewWork' /\ TurnWork' /\ FacetWork'
    BY <2>1 DEF CanonicalWork, SummaryWork, PreviewWork, TurnWork, FacetWork
  <2>. QED BY <1>4, <2>2, <2>3, <2>4, <2>5 DEF ProjectionInv, Work
<1>. QED BY <1>3, <1>6, <1>7

\* An item of the summary repair names the first request of its session.
LEMMA SummaryListKeeps ==
  ASSUME ProjectionInv, SummaryList
  PROVE  ProjectionInv'
<1> DEFINE sessions == {s \in Sessions : /\ proj.summaries[s] # NoSummary /\ In(s) # {}
                                         /\ versions.summaries < 3 \/ proj.summaries[s].summary = 0}
           items == {[session |-> s, first |-> Earliest(In(s))] : s \in sessions}
<1>1. /\ rows' = rows /\ turns' = turns /\ proj' = proj /\ mapping' = mapping /\ previewed' = previewed
      /\ versions' = versions /\ writer' = writer /\ startup.task = "summaries"
      /\ Goto("write", items)
  BY DEF SummaryList, At
<1>2. ASSUME NEW item \in items
      PROVE  /\ item.session \in Sessions /\ item.first \in In(item.session)
             /\ proj.summaries[item.session] # NoSummary
  <2>1. PICK s \in sessions : item = [session |-> s, first |-> Earliest(In(s))]
    OBVIOUS
  <2>2. s \in Sessions /\ proj.summaries[s] # NoSummary /\ In(s) # {}
    OBVIOUS
  <2>3. In(s) \subseteq Nat
    BY Absent DEF In
  <2>4. Earliest(In(s)) \in In(s)
    BY <2>2, <2>3, EarliestOf
  <2>. QED BY <2>1, <2>2, <2>4
<1> HIDE DEF items
<1>3. /\ Shaped(startup') /\ startup'.task = "summaries" /\ startup'.attempt = startup.attempt
      /\ startup'.step = "write" /\ startup'.list = items /\ startup'.copy = startup.copy
      /\ startup'.task = startup.task
  BY <1>1, GotoFacts DEF ProjectionInv
<1>4. startup'.copy \in [Requests -> Copies \cup {NoTurn}]
  BY <1>3 DEF ProjectionInv, Typed
<1>5. Typed' /\ Consistent' /\ Achieved(startup.task)'
  BY <1>1, <1>3, <1>4, ReadingKeeps
<1>6. SummaryWork'
  BY <1>1, <1>2, <1>3 DEF SummaryWork, In, Stored
<1>7. CanonicalWork' /\ BackfillWork' /\ PreviewWork' /\ TurnWork' /\ FacetWork'
  BY <1>3 DEF CanonicalWork, BackfillWork, PreviewWork, TurnWork, FacetWork
<1>. QED BY <1>5, <1>6, <1>7 DEF ProjectionInv, Work

\* A repaired summary quotes a request of its session, and changes neither the
\* count nor the principal.
LEMMA SummaryWriteFacts ==
  ASSUME ProjectionInv, SummaryWrite
  PROVE  /\ proj' \in Projections /\ Exact(proj', rows) /\ proj'.indexed = proj.indexed
         /\ \A s \in Sessions : /\ proj'.summaries[s] = NoSummary <=> proj.summaries[s] = NoSummary
                                /\ proj.summaries[s] # NoSummary =>
                                      proj'.summaries[s].principal = proj.summaries[s].principal
         /\ \E item \in startup.list : Goto("write", startup.list \ {item})
<1>1. PICK item \in startup.list :
        /\ proj' = IF item.first \notin Text THEN proj
                   ELSE [proj EXCEPT !.summaries = [proj.summaries EXCEPT ![item.session] =
                           [proj.summaries[item.session] EXCEPT !.summary = item.first,
                                                               !.at = proj.summaries[item.session].first]]]
        /\ Goto("write", startup.list \ {item})
  BY DEF SummaryWrite
<1>2. /\ item.session \in Sessions /\ item.first \in In(item.session)
      /\ proj.summaries[item.session] # NoSummary
  BY DEF SummaryWrite, At, ProjectionInv, Work, SummaryWork
<1>3. proj \in Projections /\ Exact(proj, rows)
  BY DEF ProjectionInv, Typed, TypeOK, Consistent
<1>4. CASE item.first \notin Text
  BY <1>1, <1>3, <1>4
<1>5. CASE item.first \in Text
  <2> DEFINE s == item.session
             f == item.first
             old == proj.summaries[s]
             new == [old EXCEPT !.summary = f, !.at = old.first]
  <2>1. proj' = [proj EXCEPT !.summaries = [proj.summaries EXCEPT ![s] = new]]
    BY <1>1, <1>5
  <2>2. s \in Sessions /\ f \in Requests /\ Stored(f) /\ rows[f].session = s /\ old # NoSummary /\ f \in Text
    BY <1>2, <1>5 DEF In
  <2>3. /\ proj.indexed \in [Requests -> Sessions \cup {None}]
        /\ proj.summaries \in [Sessions -> Summaries \cup {NoSummary}]
        /\ proj.facets \in [Sessions -> SUBSET Principals]
        /\ proj = [indexed |-> proj.indexed, summaries |-> proj.summaries, facets |-> proj.facets]
    BY <1>3 DEF Projections
  <2>4. old \in Summaries
    BY <2>2, <2>3
  <2>5. /\ new \in Summaries /\ new.requests = old.requests /\ new.first = old.first
        /\ new.principal = old.principal /\ new.summary = f
    BY <2>2, <2>4 DEF Summaries
  <2> HIDE DEF s, f, old, new
  <2>6. /\ proj' = [indexed |-> proj.indexed, facets |-> proj.facets,
                    summaries |-> [proj.summaries EXCEPT ![s] = new]]
    BY <2>1, <2>3
  <2>7. /\ proj'.indexed = proj.indexed /\ proj'.facets = proj.facets
        /\ proj'.summaries = [proj.summaries EXCEPT ![s] = new]
    BY <2>6
  <2>8. [proj.summaries EXCEPT ![s] = new] \in [Sessions -> Summaries \cup {NoSummary}]
    BY <2>2, <2>3, <2>5
  <2>9. proj' \in Projections
    BY <2>3, <2>6, <2>8 DEF Projections
  <2>10. /\ proj'.summaries[s] = new /\ new # NoSummary
         /\ \A t \in Sessions : t # s => proj'.summaries[t] = proj.summaries[t]
    BY <2>2, <2>3, <2>5, <2>7, Absent
  <2>11. ASSUME NEW t \in Sessions PROVE Counts(proj', t) /\ Quotes(proj', rows, t)
    <3>1. Own(proj', t) = Own(proj, t)
      BY <2>7 DEF Own
    <3>2. Counts(proj, t) /\ Quotes(proj, rows, t)
      BY <1>3 DEF Exact
    <3>3. CASE t # s
      <4>1. proj'.summaries[t] = proj.summaries[t]
        BY <3>3, <2>10
      <4>. QED BY <3>1, <3>2, <4>1 DEF Counts, Quotes
    <3>4. CASE t = s
      <4>1. /\ proj'.summaries[t] = new /\ new # NoSummary /\ proj.summaries[t] = old /\ old # NoSummary
            /\ new.requests = old.requests /\ new.first = old.first /\ new.summary = f
        BY <3>4, <2>2, <2>5, <2>10 DEF old
      <4>2. Own(proj, t) # {} /\ old.requests = Cardinality(Own(proj, t)) /\ old.first = Earliest(Own(proj, t))
        BY <3>2, <4>1 DEF Counts
      <4>3. Counts(proj', t)
        BY <3>1, <4>1, <4>2 DEF Counts
      <4>4. Quotes(proj', rows, t)
        BY <2>2, <3>4, <4>1 DEF Quotes, Stored
      <4>. QED BY <4>3, <4>4
    <3>. QED BY <3>3, <3>4
  <2>12. Exact(proj', rows)
    BY <1>3, <2>7, <2>11 DEF Exact
  <2>13. \A t \in Sessions : /\ proj'.summaries[t] = NoSummary <=> proj.summaries[t] = NoSummary
                             /\ proj.summaries[t] # NoSummary =>
                                   proj'.summaries[t].principal = proj.summaries[t].principal
    BY <2>2, <2>5, <2>10 DEF old
  <2>. QED BY <1>1, <2>7, <2>9, <2>12, <2>13
<1>. QED BY <1>4, <1>5

\* The summary repair keeps the invariant.
LEMMA SummaryWriteKeeps ==
  ASSUME ProjectionInv, SummaryWrite
  PROVE  ProjectionInv'
<1>1. /\ rows' = rows /\ turns' = turns /\ mapping' = mapping /\ previewed' = previewed
      /\ versions' = versions /\ writer' = writer /\ startup.task = "summaries"
  BY DEF SummaryWrite, At
<1>2. PICK item \in startup.list : Goto("write", startup.list \ {item})
  BY SummaryWriteFacts
<1>3. /\ Shaped(startup') /\ startup'.task = "summaries" /\ startup'.attempt = startup.attempt
      /\ startup'.step = "write" /\ startup'.list = startup.list \ {item} /\ startup'.copy = startup.copy
      /\ startup'.task = startup.task
  BY <1>1, <1>2, GotoFacts DEF ProjectionInv
<1>4. proj' \in Projections /\ proj'.indexed = proj.indexed /\ Exact(proj', rows)
  BY SummaryWriteFacts
<1>5. Typed'
  BY <1>1, <1>3, <1>4 DEF ProjectionInv, Typed, TypeOK
<1>6. Consistent'
  BY <1>1, <1>4 DEF ProjectionInv, Consistent, Unmoved, Stored, Told, TurnAgrees, RecordedIsRepaired
<1>7. Achieved(startup.task)'
  <2>1. Achieved(startup.task)
    BY DEF ProjectionInv, Work
  <2>. QED BY <1>1, <1>3, <1>4, <2>1 DEF Achieved, AllIndexed, AllTold, AllTurned, AllFilled, Stored, Told
<1>8. SummaryWork'
  <2>1. \A i \in startup.list : /\ i.session \in Sessions /\ i.first \in In(i.session)
                                /\ proj.summaries[i.session] # NoSummary
    BY <1>1 DEF ProjectionInv, Work, SummaryWork
  <2>2. \A i \in startup.list : proj'.summaries[i.session] # NoSummary
    BY <2>1, SummaryWriteFacts
  <2>3. \A i \in startup.list : i.first \in In(i.session)'
    BY <1>1, <2>1 DEF In, Stored
  <2>. QED BY <1>3, <2>1, <2>2, <2>3 DEF SummaryWork
<1>9. CanonicalWork' /\ BackfillWork' /\ PreviewWork' /\ TurnWork' /\ FacetWork'
  BY <1>3 DEF CanonicalWork, BackfillWork, PreviewWork, TurnWork, FacetWork
<1>. QED BY <1>5, <1>6, <1>7, <1>8, <1>9 DEF ProjectionInv, Work

\* The end of the summary repair begins the one of the previews.
LEMMA SummaryVersionKeeps ==
  ASSUME ProjectionInv, SummaryVersion
  PROVE  ProjectionInv'
<1>1. /\ rows' = rows /\ turns' = turns /\ proj' = proj /\ mapping' = mapping /\ previewed' = previewed
      /\ writer' = writer /\ startup.task = "summaries"
      /\ versions' = [versions EXCEPT !.summaries = 3] /\ Done
  BY DEF SummaryVersion, At
<1>2. /\ versions' \in [canonical : {0, 1}, summaries : {0, 3}, previews : {0, 4}]
      /\ versions'.canonical = versions.canonical
  BY <1>1 DEF ProjectionInv, Typed, TypeOK
<1>3. Fresh(startup') /\ startup'.task = "previews"
  BY <1>1, BegunFresh DEF Done, NextTask, TaskNames
<1>4. versions.canonical = 1 /\ AllIndexed
  BY <1>1 DEF ProjectionInv, Work, Achieved, AfterCanonical, AfterBackfill
<1>5. AllIndexed'
  BY <1>1, <1>4 DEF AllIndexed, Stored
<1>6. Achieved(startup.task)'
  BY <1>2, <1>3, <1>4, <1>5 DEF Achieved, AfterPreviews, AfterTurns
<1>7. RecordedIsRepaired'
  BY <1>1, <1>2 DEF ProjectionInv, Consistent, RecordedIsRepaired, Stored
<1>. QED BY <1>1, <1>2, <1>3, <1>6, <1>7, BeginsKeeps

\* The list of the preview repair holds every row that may lack its summary.
LEMMA PreviewListKeeps ==
  ASSUME ProjectionInv, PreviewList
  PROVE  ProjectionInv'
<1> DEFINE ids == {r \in Requests : Stored(r) /\ r \notin previewed}
<1>1. /\ rows' = rows /\ turns' = turns /\ proj' = proj /\ mapping' = mapping /\ previewed' = previewed
      /\ versions' = versions /\ writer' = writer /\ startup.task = "previews" /\ Goto("write", ids)
  BY DEF PreviewList, At
<1>2. /\ Shaped(startup') /\ startup'.task = "previews" /\ startup'.attempt = startup.attempt
      /\ startup'.step = "write" /\ startup'.list = ids /\ startup'.copy = startup.copy
      /\ startup'.task = startup.task
  BY <1>1, GotoFacts DEF ProjectionInv
<1>3. startup'.copy \in [Requests -> Copies \cup {NoTurn}]
  BY <1>2 DEF ProjectionInv, Typed
<1>4. Typed' /\ Consistent' /\ Achieved(startup.task)'
  BY <1>1, <1>2, <1>3, ReadingKeeps
<1>5. PreviewWork'
  <2>1. \A r \in previewed : Told(r)
    BY DEF ProjectionInv, Consistent
  <2>. QED BY <1>1, <1>2, <2>1 DEF PreviewWork, Stored, Told
<1>6. CanonicalWork' /\ BackfillWork' /\ SummaryWork' /\ TurnWork' /\ FacetWork'
  BY <1>2 DEF CanonicalWork, BackfillWork, SummaryWork, TurnWork, FacetWork
<1>. QED BY <1>4, <1>5, <1>6 DEF ProjectionInv, Work

\* A row of the preview repair has its summary, and so has its turn row.
LEMMA PreviewWriteFacts ==
  ASSUME ProjectionInv, PreviewWrite
  PROVE  /\ rows' \in Tables /\ turns' \in [Requests -> Turns \cup {NoTurn}]
         /\ \A q \in Requests : Stored(q)' <=> Stored(q)
         /\ \A q \in Requests : Stored(q) => /\ rows'[q].session = rows[q].session
                                             /\ rows'[q].principal = rows[q].principal
         /\ \A q \in Requests : turns'[q] # NoTurn => TurnAgrees(q)'
         /\ \E r \in startup.list :
               /\ r \in Requests /\ Stored(r) /\ rows'[r].said = (r \in Text)
               /\ previewed' = previewed \cup {r} /\ Goto("write", startup.list \ {r})
               /\ \A q \in Requests : q # r => rows'[q] = rows[q]
<1>1. startup.list # {} /\ \A r \in startup.list : r \in Requests /\ Stored(r)
  BY DEF PreviewWrite, At, ProjectionInv, Work, PreviewWork
<1> DEFINE r == Earliest(startup.list)
<1>2. /\ rows' = [rows EXCEPT ![r] = [rows[r] EXCEPT !.said = rows[r].said \/ r \in Text]]
      /\ turns' = IF turns[r] = NoTurn THEN turns
                  ELSE [turns EXCEPT ![r] = [turns[r] EXCEPT !.said = turns[r].said \/ r \in Text]]
      /\ previewed' = previewed \cup {r} /\ Goto("write", startup.list \ {r})
  BY DEF PreviewWrite
<1>3. r \in startup.list
  <2>1. startup.list \subseteq Nat
    BY <1>1, Absent
  <2>. QED BY <1>1, <2>1, EarliestOf
<1> HIDE DEF r
<1>4. r \in Requests /\ Stored(r) /\ rows[r] \in Rows /\ rows[r].said \in BOOLEAN
  BY <1>1, <1>3, TableFacts DEF ProjectionInv
<1>5. rows \in [Requests -> Rows \cup {NoRow}] /\ turns \in [Requests -> Turns \cup {NoTurn}]
  BY DEF ProjectionInv, Typed, TypeOK
<1>6. rows[r].said => r \in Text
  BY <1>4 DEF ProjectionInv, Consistent
<1> DEFINE x == rows[r]
           y == rows'[r]
<1>7. y = [x EXCEPT !.said = x.said \/ r \in Text] /\ x \in Rows
  BY <1>2, <1>4, <1>5
<1>8. \A q \in Requests : q # r => rows'[q] = rows[q]
  BY <1>2, <1>5
<1> HIDE DEF x, y
<1>9. /\ y \in Rows /\ y.session = x.session /\ y.principal = x.principal
      /\ y.said = (x.said \/ r \in Text)
  BY <1>7 DEF Rows
<1>10. y.said = (r \in Text)
  BY <1>6, <1>9 DEF x
<1>11. /\ \A q \in Requests : Stored(q)' <=> Stored(q)
       /\ \A q \in Requests : Stored(q) => /\ rows'[q].session = rows[q].session
                                           /\ rows'[q].principal = rows[q].principal
  BY <1>4, <1>8, <1>9, Absent DEF Stored, x, y
<1>12. rows' \in Tables
  <2>1. \A q \in Requests : rows'[q] \in Rows \cup {NoRow}
    BY <1>5, <1>8, <1>9 DEF y
  <2>2. rows' = [q \in Requests |-> rows'[q]]
    BY <1>2, <1>5
  <2>. QED BY <2>1, <2>2 DEF Tables
<1>13. \A q \in Requests : turns[q] # NoTurn =>
          Stored(q) /\ turns[q].session = rows[q].session /\ turns[q].said = rows[q].said
  BY DEF ProjectionInv, Consistent, TurnAgrees
<1>14. turns' \in [Requests -> Turns \cup {NoTurn}] /\ \A q \in Requests : turns'[q] # NoTurn => TurnAgrees(q)'
  <2>1. CASE turns[r] = NoTurn
    <3>1. turns' = turns
      BY <1>2, <2>1
    <3>2. \A q \in Requests : turns'[q] # NoTurn =>
             rows'[q] # NoRow /\ turns'[q].session = rows'[q].session /\ turns'[q].said = rows'[q].said
      BY <1>8, <1>13, <2>1, <3>1 DEF Stored
    <3>. QED BY <1>5, <3>1, <3>2 DEF TurnAgrees, Stored
  <2>2. CASE turns[r] # NoTurn
    <3> DEFINE t == turns[r]
               u == turns'[r]
    <3>1. t \in Turns /\ u = [t EXCEPT !.said = t.said \/ r \in Text]
      BY <1>2, <1>4, <1>5, <2>2
    <3>2. \A q \in Requests : q # r => turns'[q] = turns[q]
      BY <1>2, <1>5, <2>2
    <3>3. t.session = x.session /\ t.said = x.said
      BY <1>4, <1>13, <2>2 DEF x
    <3> HIDE DEF t, u
    <3>4. u \in Turns /\ u.session = t.session /\ u.said = (t.said \/ r \in Text)
      BY <3>1 DEF Turns
    <3>5. u.session = y.session /\ u.said = y.said
      BY <1>9, <3>3, <3>4
    <3>6. \A q \in Requests : turns'[q] \in Turns \cup {NoTurn}
      BY <1>5, <3>2, <3>4 DEF u
    <3>7. turns' = [q \in Requests |-> turns'[q]]
      BY <1>2, <1>5
    <3>8. turns' \in [Requests -> Turns \cup {NoTurn}]
      BY <3>6, <3>7
    <3>9. ASSUME NEW q \in Requests, turns'[q] # NoTurn
          PROVE  rows'[q] # NoRow /\ turns'[q].session = rows'[q].session /\ turns'[q].said = rows'[q].said
      <4>1. CASE q = r
        BY <4>1, <1>9, <3>5, Absent DEF u, y
      <4>2. CASE q # r
        BY <4>2, <3>9, <3>2, <1>8, <1>13 DEF Stored
      <4>. QED BY <4>1, <4>2
    <3>. QED BY <3>8, <3>9 DEF TurnAgrees, Stored
  <2>. QED BY <2>1, <2>2
<1>. QED BY <1>2, <1>3, <1>4, <1>8, <1>10, <1>11, <1>12, <1>14 DEF y

\* The preview repair takes a row from its list when it has its summary.
LEMMA PreviewWriteKeeps ==
  ASSUME ProjectionInv, PreviewWrite
  PROVE  ProjectionInv'
<1>1. /\ proj' = proj /\ mapping' = mapping /\ versions' = versions /\ writer' = writer
      /\ startup.task = "previews" /\ startup.step = "write"
  BY DEF PreviewWrite, At
<1>2. PICK r \in startup.list :
        /\ r \in Requests /\ Stored(r) /\ rows'[r].said = (r \in Text)
        /\ previewed' = previewed \cup {r} /\ Goto("write", startup.list \ {r})
        /\ \A q \in Requests : q # r => rows'[q] = rows[q]
  BY PreviewWriteFacts
<1>3. /\ Shaped(startup') /\ startup'.task = "previews" /\ startup'.attempt = startup.attempt
      /\ startup'.step = "write" /\ startup'.list = startup.list \ {r} /\ startup'.copy = startup.copy
      /\ startup'.task = startup.task
  BY <1>1, <1>2, GotoFacts DEF ProjectionInv
<1>4. /\ \A q \in Requests : Stored(q)' <=> Stored(q)
      /\ \A q \in Requests : Stored(q) => rows'[q].session = rows[q].session
  BY PreviewWriteFacts
<1>5. /\ \A q \in startup.list : q \in Requests /\ Stored(q)
      /\ \A q \in Requests : Stored(q) => Told(q) \/ q \in startup.list
      /\ versions.canonical = 1 /\ AllIndexed
  BY <1>1 DEF ProjectionInv, Work, PreviewWork, Achieved, AfterCanonical, AfterBackfill
<1>6. Typed'
  <2>1. rows' \in [Requests -> Rows \cup {NoRow}] /\ turns' \in [Requests -> Turns \cup {NoTurn}]
    BY PreviewWriteFacts DEF Tables
  <2>2. previewed' \subseteq Requests
    BY <1>2 DEF ProjectionInv, Typed, TypeOK
  <2>. QED BY <1>1, <1>3, <2>1, <2>2 DEF ProjectionInv, Typed, TypeOK
<1>7. ASSUME NEW q \in Requests, Told(q) PROVE Told(q)'
  BY <1>2, <1>7 DEF Told
<1>8. Consistent'
  <2>0. Typed /\ Consistent
    BY DEF ProjectionInv
  <2>1. Exact(proj, rows)'
    <3>1. \A q \in Requests : rows[q] # NoRow => rows'[q] # NoRow /\ rows'[q].session = rows[q].session
      BY <1>4 DEF Stored
    <3>2. Exact(proj, rows) /\ proj \in Projections
      BY <2>0 DEF Typed, TypeOK, Consistent
    <3>3. Exact(proj, rows')
      BY <3>1, <3>2, ExactCarries
    <3>. QED BY <1>1, <3>3
  <2>2. Unmoved'
    BY <1>1, <1>4, <2>0 DEF Consistent, Unmoved
  <2>3. (writer # NoBatch => writer.request \notin Legacy \/ Stored(writer.request))'
    <3>1. writer # NoBatch => writer.request \in Requests
      BY <2>0 DEF Typed, Batches
    <3>2. writer # NoBatch => writer.request \notin Legacy \/ Stored(writer.request)
      BY <2>0 DEF Consistent
    <3>3. \A q \in Requests : Stored(q) => rows'[q] # NoRow
      BY <1>4 DEF Stored
    <3>. QED BY <1>1, <3>1, <3>2, <3>3 DEF Stored
  <2>4. RecordedIsRepaired'
    BY <1>1, <1>4, <2>0, SessionsTyped DEF Consistent, RecordedIsRepaired
  <2>5. (\A q \in Requests : Stored(q) /\ rows[q].said => q \in Text)'
    <3>1. \A q \in Requests : Stored(q) /\ rows[q].said => q \in Text
      BY <2>0 DEF Consistent
    <3>. QED BY <1>2, <1>4, <3>1
  <2>6. (\A q \in previewed : Stored(q) /\ Told(q))'
    <3>1. previewed \subseteq Requests /\ \A q \in previewed : Stored(q) /\ Told(q)
      BY <2>0 DEF Typed, TypeOK, Consistent
    <3>2. Told(r)'
      BY <1>2 DEF Told
    <3>. QED BY <1>2, <1>4, <1>7, <3>1, <3>2
  <2>7. (\A q \in Requests : turns[q] # NoTurn => TurnAgrees(q))'
    BY PreviewWriteFacts
  <2>. QED BY <2>1, <2>2, <2>3, <2>4, <2>5, <2>6, <2>7 DEF Consistent
<1>9. Achieved(startup.task)'
  <2>1. AllIndexed'
    BY <1>1, <1>4, <1>5 DEF AllIndexed
  <2>. QED BY <1>1, <1>3, <1>5, <2>1 DEF Achieved, AfterPreviews, AfterTurns
<1>10. PreviewWork'
  <2>1. \A q \in startup'.list : q \in Requests /\ Stored(q)'
    BY <1>3, <1>4, <1>5
  <2>2. Told(r)'
    BY <1>2 DEF Told
  <2>3. \A q \in Requests : Stored(q)' => Told(q)' \/ q \in startup'.list
    BY <1>3, <1>4, <1>5, <1>7, <2>2
  <2>. QED BY <2>1, <2>3 DEF PreviewWork
<1>11. CanonicalWork' /\ BackfillWork' /\ SummaryWork' /\ TurnWork' /\ FacetWork'
  BY <1>3 DEF CanonicalWork, BackfillWork, SummaryWork, TurnWork, FacetWork
<1>. QED BY <1>6, <1>8, <1>9, <1>10, <1>11 DEF ProjectionInv, Work

\* The end of the preview repair begins the turn projection.
LEMMA PreviewVersionKeeps ==
  ASSUME ProjectionInv, PreviewVersion
  PROVE  ProjectionInv'
<1>1. /\ rows' = rows /\ turns' = turns /\ proj' = proj /\ mapping' = mapping /\ previewed' = previewed
      /\ writer' = writer /\ startup.task = "previews" /\ startup.step = "write" /\ startup.list = {}
      /\ versions' = [versions EXCEPT !.previews = 4] /\ Done
  BY DEF PreviewVersion, At
<1>2. /\ versions' \in [canonical : {0, 1}, summaries : {0, 3}, previews : {0, 4}]
      /\ versions'.canonical = versions.canonical
  BY <1>1 DEF ProjectionInv, Typed, TypeOK
<1>3. Fresh(startup') /\ startup'.task = "turns"
  BY <1>1, BegunFresh DEF Done, NextTask, TaskNames
<1>4. versions.canonical = 1 /\ AllIndexed /\ AllTold
  BY <1>1 DEF ProjectionInv, Work, Achieved, PreviewWork, AllTold, AfterCanonical, AfterBackfill
<1>5. AllIndexed' /\ AllTold'
  BY <1>1, <1>4 DEF AllIndexed, AllTold, Told, Stored
<1>6. Achieved(startup.task)'
  BY <1>2, <1>3, <1>4, <1>5 DEF Achieved, AfterTurns
<1>7. RecordedIsRepaired'
  BY <1>1, <1>2 DEF ProjectionInv, Consistent, RecordedIsRepaired, Stored
<1>. QED BY <1>1, <1>2, <1>3, <1>6, <1>7, BeginsKeeps

\* The list of the turn projection holds the session of every row.
LEMMA TurnListKeeps ==
  ASSUME ProjectionInv, TurnList
  PROVE  ProjectionInv'
<1> DEFINE sessions == {s \in Sessions : proj.summaries[s] # NoSummary}
<1>1. /\ rows' = rows /\ turns' = turns /\ proj' = proj /\ mapping' = mapping /\ previewed' = previewed
      /\ versions' = versions /\ writer' = writer /\ startup.task = "turns" /\ startup.step = "list"
      /\ Goto("count", sessions)
  BY DEF TurnList, At
<1>2. /\ Shaped(startup') /\ startup'.task = "turns" /\ startup'.attempt = startup.attempt
      /\ startup'.step = "count" /\ startup'.list = sessions /\ startup'.copy = startup.copy
      /\ startup'.task = startup.task
  BY <1>1, GotoFacts DEF ProjectionInv
<1>3. startup'.copy \in [Requests -> Copies \cup {NoTurn}]
  BY <1>2 DEF ProjectionInv, Typed
<1>4. Typed' /\ Consistent' /\ Achieved(startup.task)'
  BY <1>1, <1>2, <1>3, ReadingKeeps
<1>5. startup'.copy = NoCopy
  BY <1>1, <1>2 DEF ProjectionInv, Work, TurnWork
<1>6. ASSUME NEW r \in Requests, Stored(r) PROVE rows[r].session \in sessions
  <2>1. proj.indexed[r] # None
    BY <1>1, <1>6 DEF ProjectionInv, Work, Achieved, AfterBackfill, AfterPreviews, AllIndexed
  <2>2. Exact(proj, rows) /\ rows[r].session \in Sessions
    BY <1>6, TableFacts DEF ProjectionInv, Consistent
  <2>3. r \in Own(proj, rows[r].session)
    BY <2>1, <2>2 DEF Exact, Own
  <2>4. Counts(proj, rows[r].session)
    BY <2>2 DEF Exact
  <2>. QED BY <2>2, <2>3, <2>4 DEF Counts
<1>7. TurnWork'
  <2>1. \A r \in Requests : startup'.copy[r] = NoTurn
    BY <1>5 DEF NoCopy
  <2>. QED BY <1>1, <1>2, <1>5, <1>6, <2>1 DEF TurnWork, Stored
<1>8. CanonicalWork' /\ BackfillWork' /\ SummaryWork' /\ PreviewWork' /\ FacetWork'
  BY <1>2 DEF CanonicalWork, BackfillWork, SummaryWork, PreviewWork, FacetWork
<1>. QED BY <1>4, <1>7, <1>8 DEF ProjectionInv, Work

\* Equal counts mean that every row of the session has its turn row.
LEMMA CountsAgree ==
  ASSUME ProjectionInv, NEW s \in Sessions, Cardinality(Projected(s)) = Cardinality(In(s))
  PROVE  \A r \in Requests : Stored(r) /\ rows[r].session = s => turns[r] # NoTurn
<1>1. Projected(s) \in SUBSET In(s)
  BY DEF ProjectionInv, Consistent, TurnAgrees, Projected, In
<1>2. In(s) \in SUBSET Requests /\ IsFiniteSet(Requests)
  BY Absent DEF In
<1>3. IsFiniteSet(In(s))
  BY <1>2, FS_Subset
<1>4. In(s) = Projected(s)
  BY <1>1, <1>3, FS_Subset
<1>. QED BY <1>4 DEF In, Projected

\* Reading a session takes it from the list, and holds the rows it read.
LEMMA TurnReadKeeps ==
  ASSUME ProjectionInv, TurnRead
  PROVE  ProjectionInv'
<1> DEFINE copied(s) == [r \in Requests |-> IF r \in In(s) THEN [session |-> s, said |-> rows[r].said]
                                            ELSE NoTurn]
<1>1. /\ rows' = rows /\ turns' = turns /\ proj' = proj /\ mapping' = mapping /\ previewed' = previewed
      /\ versions' = versions /\ writer' = writer /\ startup.task = "turns" /\ startup.step = "count"
  BY DEF TurnRead, At
<1>2. PICK s \in startup.list :
        \/ Cardinality(Projected(s)) = Cardinality(In(s)) /\ Goto("count", startup.list \ {s})
        \/ startup' = [startup EXCEPT !.step = "write", !.list = startup.list \ {s}, !.copy = copied(s)]
  BY DEF TurnRead
<1>3. /\ startup.list \subseteq Sessions /\ startup.copy = NoCopy
      /\ \A r \in Requests : Stored(r) /\ turns[r] = NoTurn =>
            rows[r].session \in startup.list \/ startup.copy[r] # NoTurn
      /\ AllTold
  BY <1>1 DEF ProjectionInv, Work, TurnWork, Achieved, AfterPreviews
<1>4. \A r \in Requests : NoCopy[r] = NoTurn
  BY DEF NoCopy
<1>5. s \in Sessions
  BY <1>3
<1>6. CASE Cardinality(Projected(s)) = Cardinality(In(s)) /\ Goto("count", startup.list \ {s})
  <2>1. /\ Shaped(startup') /\ startup'.task = "turns" /\ startup'.attempt = startup.attempt
        /\ startup'.step = "count" /\ startup'.list = startup.list \ {s} /\ startup'.copy = startup.copy
        /\ startup'.task = startup.task
    BY <1>1, <1>6, GotoFacts DEF ProjectionInv
  <2>2. startup'.copy \in [Requests -> Copies \cup {NoTurn}]
    BY <2>1 DEF ProjectionInv, Typed
  <2>3. Typed' /\ Consistent' /\ Achieved(startup.task)'
    BY <1>1, <2>1, <2>2, ReadingKeeps
  <2>4. \A r \in Requests : Stored(r) /\ rows[r].session = s => turns[r] # NoTurn
    BY <1>5, <1>6, CountsAgree
  <2>5. TurnWork'
    BY <1>1, <1>3, <1>4, <2>1, <2>4 DEF TurnWork, Stored
  <2>6. CanonicalWork' /\ BackfillWork' /\ SummaryWork' /\ PreviewWork' /\ FacetWork'
    BY <2>1 DEF CanonicalWork, BackfillWork, SummaryWork, PreviewWork, FacetWork
  <2>. QED BY <2>3, <2>5, <2>6 DEF ProjectionInv, Work
<1>7. CASE startup' = [startup EXCEPT !.step = "write", !.list = startup.list \ {s}, !.copy = copied(s)]
  <2> DEFINE c == copied(s)
  <2>1. startup = [task |-> startup.task, step |-> startup.step, list |-> startup.list,
                   copy |-> startup.copy, attempt |-> startup.attempt]
    BY DEF ProjectionInv, Typed, Shaped
  <2>2. ASSUME NEW r \in Requests
        PROVE  /\ c[r] \in Copies \cup {NoTurn}
               /\ c[r] # NoTurn <=> Stored(r) /\ rows[r].session = s
               /\ c[r] # NoTurn => c[r].session = s /\ c[r].said = (r \in Text)
    <3>1. CASE r \in In(s)
      <4>1. c[r] = [session |-> s, said |-> rows[r].said]
        BY <3>1
      <4>2. Stored(r) /\ rows[r].session = s
        BY <3>1 DEF In
      <4>3. rows[r].said \in BOOLEAN /\ rows[r].said = (r \in Text)
        BY <4>2, <1>3, TableFacts DEF ProjectionInv, AllTold, Told
      <4> HIDE DEF c
      <4>4. c[r] \in Copies /\ c[r].session = s /\ c[r].said = rows[r].said
        BY <4>1, <4>3, <1>5 DEF Copies
      <4>. QED BY <4>2, <4>3, <4>4, Absent
    <3>2. CASE r \notin In(s)
      <4>1. c[r] = NoTurn
        BY <3>2
      <4>. QED BY <3>2, <4>1 DEF In
    <3>. QED BY <3>1, <3>2
  <2>3. c \in [Requests -> Copies \cup {NoTurn}]
    <3>1. c = [r \in Requests |-> c[r]]
      OBVIOUS
    <3> HIDE DEF c
    <3>. QED BY <2>2, <3>1
  <2>4. startup' = [startup EXCEPT !.step = "write", !.list = startup.list \ {s}, !.copy = c]
    BY <1>7
  <2> HIDE DEF c
  <2>5. startup' = [task |-> startup.task, step |-> "write", list |-> startup.list \ {s},
                    copy |-> c, attempt |-> startup.attempt]
    BY <2>1, <2>4
  <2>6. /\ Shaped(startup') /\ startup'.task = "turns" /\ startup'.attempt = startup.attempt
        /\ startup'.step = "write" /\ startup'.list = startup.list \ {s} /\ startup'.copy = c
        /\ startup'.task = startup.task
    BY <1>1, <2>5 DEF Shaped
  <2>7. Typed' /\ Consistent' /\ Achieved(startup.task)'
    BY <1>1, <2>3, <2>6, ReadingKeeps
  <2>8. TurnWork'
    <3>1. startup'.list \subseteq Sessions
      BY <1>3, <2>6
    <3>2. \A r \in Requests : startup'.copy[r] # NoTurn => CopyAgrees(r)'
      BY <1>1, <2>2, <2>6 DEF CopyAgrees, Stored
    <3>3. \A r \in Requests : Stored(r)' /\ turns'[r] = NoTurn =>
             rows'[r].session \in startup'.list \/ startup'.copy[r] # NoTurn
      BY <1>1, <1>3, <1>4, <2>2, <2>6 DEF Stored
    <3>. QED BY <2>6, <3>1, <3>2, <3>3 DEF TurnWork
  <2>9. CanonicalWork' /\ BackfillWork' /\ SummaryWork' /\ PreviewWork' /\ FacetWork'
    BY <2>6 DEF CanonicalWork, BackfillWork, SummaryWork, PreviewWork, FacetWork
  <2>. QED BY <2>7, <2>8, <2>9 DEF ProjectionInv, Work
<1>. QED BY <1>2, <1>6, <1>7

\* Writing a copy gives each of its rows a turn row that agrees with it, even
\* when the writer has written the row in between.
LEMMA TurnWriteKeeps ==
  ASSUME ProjectionInv, TurnWrite
  PROVE  ProjectionInv'
<1>1. /\ rows' = rows /\ proj' = proj /\ mapping' = mapping /\ previewed' = previewed
      /\ versions' = versions /\ writer' = writer /\ startup.task = "turns" /\ startup.step = "write"
      /\ startup' = [startup EXCEPT !.step = "count", !.copy = NoCopy]
  BY DEF TurnWrite, At, CopyWritten
<1>2. turns' = [r \in Requests |->
          IF startup.copy[r] = NoTurn THEN turns[r]
          ELSE IF turns[r] = NoTurn
          THEN [session |-> startup.copy[r].session, principal |-> None,
                said |-> startup.copy[r].said, filled |-> FALSE]
          ELSE [turns[r] EXCEPT !.session = startup.copy[r].session, !.said = startup.copy[r].said]]
  BY DEF TurnWrite
<1>3. /\ startup.list \subseteq Sessions
      /\ \A r \in Requests : startup.copy[r] # NoTurn => CopyAgrees(r)
      /\ \A r \in Requests : Stored(r) /\ turns[r] = NoTurn =>
            rows[r].session \in startup.list \/ startup.copy[r] # NoTurn
      /\ AllTold /\ AllIndexed /\ versions.canonical = 1
  BY <1>1 DEF ProjectionInv, Work, TurnWork, Achieved, AfterPreviews, AfterBackfill, AfterCanonical
<1>4. startup' = [task |-> "turns", step |-> "count", list |-> startup.list,
                  copy |-> NoCopy, attempt |-> startup.attempt]
  BY <1>1 DEF ProjectionInv, Typed, Shaped
<1>5. /\ Shaped(startup') /\ startup'.task = "turns" /\ startup'.attempt = startup.attempt
      /\ startup'.step = "count" /\ startup'.list = startup.list /\ startup'.copy = NoCopy
      /\ startup'.task = startup.task
  BY <1>1, <1>4 DEF Shaped
<1>6. ASSUME NEW r \in Requests, startup.copy[r] # NoTurn
      PROVE  /\ turns'[r] \in Turns /\ rows[r] # NoRow
             /\ turns'[r].session = rows[r].session /\ turns'[r].said = rows[r].said
  <2> DEFINE c == startup.copy[r]
             t == turns[r]
             u == turns'[r]
  <2>1. /\ c.session \in Sessions /\ c.said \in BOOLEAN
        /\ rows[r] # NoRow /\ c.session = rows[r].session /\ c.said = rows[r].said
    BY <1>3, <1>6, TableFacts DEF ProjectionInv, CopyAgrees, AllTold, Told, Stored
  <2>2. None \in Owner
    BY DEF Owner
  <2>3. CASE t = NoTurn
    <3>1. u = [session |-> c.session, principal |-> None, said |-> c.said, filled |-> FALSE]
      BY <1>2, <1>6, <2>3
    <3> HIDE DEF c, u
    <3>2. u \in Turns /\ u.session = c.session /\ u.said = c.said
      BY <2>1, <2>2, <3>1 DEF Turns
    <3>. QED BY <2>1, <3>2 DEF u
  <2>4. CASE t # NoTurn
    <3>1. u = [t EXCEPT !.session = c.session, !.said = c.said]
      BY <1>2, <1>6, <2>4
    <3>2. t \in Turns
      BY <2>4, TableFacts DEF ProjectionInv
    <3> HIDE DEF c, t, u
    <3>3. u \in Turns /\ u.session = c.session /\ u.said = c.said
      BY <2>1, <3>1, <3>2 DEF Turns
    <3>. QED BY <2>1, <3>3 DEF u
  <2>. QED BY <2>3, <2>4
<1>7. \A r \in Requests : startup.copy[r] = NoTurn => turns'[r] = turns[r]
  BY <1>2
<1>8. turns' \in [Requests -> Turns \cup {NoTurn}]
  <2>1. turns \in [Requests -> Turns \cup {NoTurn}]
    BY DEF ProjectionInv, Typed, TypeOK
  <2>2. \A r \in Requests : turns'[r] \in Turns \cup {NoTurn}
    BY <1>6, <1>7, <2>1
  <2>3. turns' = [r \in Requests |-> turns'[r]]
    BY <1>2
  <2>. QED BY <2>2, <2>3
<1>9. Typed'
  <2>1. NoCopy \in [Requests -> Copies \cup {NoTurn}]
    BY DEF NoCopy
  <2>. QED BY <1>1, <1>5, <1>8, <2>1 DEF ProjectionInv, Typed, TypeOK
<1>10. Consistent'
  <2>1. (\A r \in Requests : turns[r] # NoTurn => TurnAgrees(r))'
    <3>1. \A r \in Requests : turns[r] # NoTurn => TurnAgrees(r)
      BY DEF ProjectionInv, Consistent
    <3>. QED BY <1>1, <1>6, <1>7, <3>1 DEF TurnAgrees, Stored
  <2>. QED BY <1>1, <2>1 DEF ProjectionInv, Consistent, Unmoved, Stored, Told, RecordedIsRepaired
<1>11. Achieved(startup.task)'
  <2>1. AllTold' /\ AllIndexed'
    BY <1>1, <1>3 DEF AllTold, AllIndexed, Stored, Told
  <2>. QED BY <1>1, <1>3, <1>5, <2>1 DEF Achieved, AfterTurns
<1>12. TurnWork'
  <2>1. \A r \in Requests : startup'.copy[r] = NoTurn
    BY <1>5 DEF NoCopy
  <2>2. \A r \in Requests : Stored(r)' /\ turns'[r] = NoTurn => rows'[r].session \in startup'.list
    BY <1>1, <1>3, <1>5, <1>6, <1>7, Absent DEF Stored
  <2>. QED BY <1>3, <1>5, <2>1, <2>2 DEF TurnWork
<1>13. CanonicalWork' /\ BackfillWork' /\ SummaryWork' /\ PreviewWork' /\ FacetWork'
  BY <1>5 DEF CanonicalWork, BackfillWork, SummaryWork, PreviewWork, FacetWork
<1>. QED BY <1>9, <1>10, <1>11, <1>12, <1>13 DEF ProjectionInv, Work

\* When no session is left every row has its turn row.
LEMMA TurnsDoneKeeps ==
  ASSUME ProjectionInv, TurnsDone
  PROVE  ProjectionInv'
<1>1. /\ rows' = rows /\ turns' = turns /\ proj' = proj /\ mapping' = mapping /\ previewed' = previewed
      /\ versions' = versions /\ writer' = writer /\ startup.task = "turns" /\ startup.step = "count"
      /\ startup.list = {} /\ Done
  BY DEF TurnsDone, At
<1>2. Fresh(startup') /\ startup'.task = "facets"
  BY <1>1, BegunFresh DEF Done, NextTask, TaskNames
<1>3. /\ startup.copy = NoCopy /\ AllTold /\ AllIndexed /\ versions.canonical = 1
      /\ \A r \in Requests : Stored(r) /\ turns[r] = NoTurn =>
            rows[r].session \in startup.list \/ startup.copy[r] # NoTurn
  BY <1>1 DEF ProjectionInv, Work, TurnWork, Achieved, AfterPreviews, AfterBackfill, AfterCanonical
<1>4. AllTurned
  BY <1>1, <1>3 DEF AllTurned, NoCopy
<1>5. Achieved(startup.task)'
  <2>1. AllTold' /\ AllIndexed' /\ AllTurned'
    BY <1>1, <1>3, <1>4 DEF AllTold, AllIndexed, AllTurned, Stored, Told
  <2>. QED BY <1>1, <1>2, <1>3, <2>1 DEF Achieved
<1>6. RecordedIsRepaired'
  BY <1>1 DEF ProjectionInv, Consistent, RecordedIsRepaired, Stored
<1>7. versions' \in [canonical : {0, 1}, summaries : {0, 3}, previews : {0, 4}]
  BY <1>1 DEF ProjectionInv, Typed, TypeOK
<1>. QED BY <1>1, <1>2, <1>5, <1>6, <1>7, BeginsKeeps

\* The cursor of the facet projection: no turn row without its turn id is
\* passed over, because the writer never adds one.
LEMMA FacetReadKeeps ==
  ASSUME ProjectionInv, FacetRead
  PROVE  ProjectionInv'
<1> DEFINE lacking == {r \in Requests : /\ turns[r] # NoTurn /\ ~turns[r].filled
                                        /\ \A cursor \in startup.list : r < cursor}
<1>1. /\ rows' = rows /\ turns' = turns /\ proj' = proj /\ mapping' = mapping /\ previewed' = previewed
      /\ versions' = versions /\ writer' = writer /\ startup.task = "facets" /\ startup.step = "list"
      /\ (lacking = {} /\ Done) \/ (lacking # {} /\ Goto("write", {Latest(lacking)}))
  BY DEF FacetRead, At
<1>2. /\ \A r \in Requests : turns[r] # NoTurn /\ ~turns[r].filled => \A cursor \in startup.list : r < cursor
      /\ AllTurned /\ AllTold /\ AllIndexed /\ versions.canonical = 1
  BY <1>1 DEF ProjectionInv, Work, FacetWork, Achieved, AfterTurns, AfterPreviews, AfterBackfill, AfterCanonical
<1>3. \A r \in Requests : turns[r] # NoTurn /\ ~turns[r].filled => r \in lacking
  BY <1>2
<1>4. CASE lacking = {} /\ Done
  <2>1. Fresh(startup') /\ startup'.task = "ready"
    BY <1>1, <1>4, BegunFresh DEF Done, NextTask, TaskNames
  <2>2. AllFilled
    BY <1>3, <1>4 DEF AllFilled
  <2>3. AllTold' /\ AllIndexed' /\ AllTurned' /\ AllFilled'
    BY <1>1, <1>2, <2>2 DEF AllTold, AllIndexed, AllTurned, AllFilled, Stored, Told
  <2>4. Achieved(startup.task)'
    BY <1>1, <1>2, <2>1, <2>3 DEF Achieved
  <2>5. RecordedIsRepaired'
    BY <1>1 DEF ProjectionInv, Consistent, RecordedIsRepaired, Stored
  <2>6. versions' \in [canonical : {0, 1}, summaries : {0, 3}, previews : {0, 4}]
    BY <1>1 DEF ProjectionInv, Typed, TypeOK
  <2>. QED BY <1>1, <2>1, <2>4, <2>5, <2>6, BeginsKeeps
<1>5. CASE lacking # {} /\ Goto("write", {Latest(lacking)})
  <2> DEFINE m == Latest(lacking)
  <2>1. m \in lacking /\ \A q \in lacking : q <= m
    <3>1. lacking \in SUBSET Requests
      OBVIOUS
    <3> HIDE DEF lacking
    <3>2. IsFiniteSet(lacking)
      BY <3>1, Absent, FS_Subset
    <3>3. lacking \subseteq Nat
      BY <3>1, Absent
    <3>. QED BY <1>5, <3>2, <3>3, LatestOf
  <2>2. Goto("write", {m})
    BY <1>5
  <2>3. m \in Requests /\ turns[m] # NoTurn
    BY <2>1
  <2> HIDE DEF m
  <2>4. /\ Shaped(startup') /\ startup'.task = "facets" /\ startup'.attempt = startup.attempt
        /\ startup'.step = "write" /\ startup'.list = {m} /\ startup'.copy = startup.copy
        /\ startup'.task = startup.task
    BY <1>1, <2>2, GotoFacts DEF ProjectionInv
  <2>5. startup'.copy \in [Requests -> Copies \cup {NoTurn}]
    BY <2>4 DEF ProjectionInv, Typed
  <2>6. Typed' /\ Consistent' /\ Achieved(startup.task)'
    BY <1>1, <2>4, <2>5, ReadingKeeps
  <2>7. \A r \in Requests : turns[r] # NoTurn /\ ~turns[r].filled => r <= m
    BY <1>3, <2>1
  <2>8. FacetWork'
    BY <1>1, <2>3, <2>4, <2>7 DEF FacetWork
  <2>9. CanonicalWork' /\ BackfillWork' /\ SummaryWork' /\ PreviewWork' /\ TurnWork'
    BY <2>4 DEF CanonicalWork, BackfillWork, SummaryWork, PreviewWork, TurnWork
  <2>. QED BY <2>6, <2>8, <2>9 DEF ProjectionInv, Work
<1>. QED BY <1>1, <1>4, <1>5

\* Filling a turn id changes nothing else of the turn row.
LEMMA FacetWriteKeeps ==
  ASSUME ProjectionInv, FacetWrite
  PROVE  ProjectionInv'
<1>1. /\ rows' = rows /\ proj' = proj /\ mapping' = mapping /\ previewed' = previewed
      /\ versions' = versions /\ writer' = writer /\ startup.task = "facets" /\ startup.step = "write"
      /\ Goto("list", startup.list)
  BY DEF FacetWrite, At
<1>2. PICK r \in startup.list : turns' = [turns EXCEPT ![r] = [turns[r] EXCEPT !.filled = TRUE]]
  BY DEF FacetWrite
<1>3. /\ \A q \in startup.list : q \in Requests /\ turns[q] # NoTurn
      /\ \A q, x \in startup.list : q = x
      /\ \A q \in Requests : turns[q] # NoTurn /\ ~turns[q].filled => \A cursor \in startup.list : q <= cursor
      /\ AllTurned /\ AllTold /\ AllIndexed /\ versions.canonical = 1
  BY <1>1 DEF ProjectionInv, Work, FacetWork, Achieved, AfterTurns, AfterPreviews, AfterBackfill, AfterCanonical
<1>4. /\ Shaped(startup') /\ startup'.task = "facets" /\ startup'.attempt = startup.attempt
      /\ startup'.step = "list" /\ startup'.list = startup.list /\ startup'.copy = startup.copy
      /\ startup'.task = startup.task
  BY <1>1, GotoFacts DEF ProjectionInv
<1>5. turns \in [Requests -> Turns \cup {NoTurn}] /\ r \in Requests /\ turns[r] \in Turns
  BY <1>3 DEF ProjectionInv, Typed, TypeOK
<1> DEFINE t == turns[r]
           u == turns'[r]
<1>6. u = [t EXCEPT !.filled = TRUE] /\ t \in Turns
  BY <1>2, <1>5
<1>7. \A q \in Requests : q # r => turns'[q] = turns[q]
  BY <1>2, <1>5
<1> HIDE DEF t, u
<1>8. u \in Turns /\ u.filled = TRUE /\ u.session = t.session /\ u.said = t.said
  BY <1>6 DEF Turns
<1>9. turns' \in [Requests -> Turns \cup {NoTurn}]
  <2>1. \A q \in Requests : turns'[q] \in Turns \cup {NoTurn}
    BY <1>5, <1>7, <1>8 DEF u
  <2>2. turns' = [q \in Requests |-> turns'[q]]
    BY <1>2, <1>5
  <2>. QED BY <2>1, <2>2
<1>10. \A q \in Requests : turns'[q] # NoTurn <=> turns[q] # NoTurn
  BY <1>3, <1>7, <1>8, Absent DEF u
<1>11. Typed'
  BY <1>1, <1>4, <1>9 DEF ProjectionInv, Typed, TypeOK
<1>12. Consistent'
  <2>1. (\A q \in Requests : turns[q] # NoTurn => TurnAgrees(q))'
    <3>1. \A q \in Requests : turns[q] # NoTurn => TurnAgrees(q)
      BY DEF ProjectionInv, Consistent
    <3>. QED BY <1>1, <1>3, <1>7, <1>8, <1>10, <3>1 DEF TurnAgrees, Stored, t, u
  <2>. QED BY <1>1, <2>1 DEF ProjectionInv, Consistent, Unmoved, Stored, Told, RecordedIsRepaired
<1>13. Achieved(startup.task)'
  <2>1. AllTold' /\ AllIndexed' /\ AllTurned'
    BY <1>1, <1>3, <1>10 DEF AllTold, AllIndexed, AllTurned, Stored, Told
  <2>. QED BY <1>1, <1>3, <1>4, <2>1 DEF Achieved
<1>14. FacetWork'
  <2>1. \A q \in startup'.list : q \in Requests /\ turns'[q] # NoTurn
    BY <1>3, <1>4, <1>10
  <2>2. ASSUME NEW q \in Requests, turns'[q] # NoTurn, ~turns'[q].filled, NEW cursor \in startup.list
        PROVE  q < cursor
    <3>1. q # r
      BY <1>8, <2>2 DEF u
    <3>2. q <= r /\ cursor = r
      BY <1>3, <1>7, <2>2, <3>1
    <3>3. q \in Nat /\ r \in Nat
      BY <1>5, Absent
    <3>. QED BY <3>1, <3>2, <3>3
  <2>. QED BY <1>3, <1>4, <2>1, <2>2 DEF FacetWork
<1>15. CanonicalWork' /\ BackfillWork' /\ SummaryWork' /\ PreviewWork' /\ TurnWork'
  BY <1>4 DEF CanonicalWork, BackfillWork, SummaryWork, PreviewWork, TurnWork
<1>. QED BY <1>11, <1>12, <1>13, <1>14, <1>15 DEF ProjectionInv, Work

-----------------------------------------------------------------------------
(* The writer and the mappings, at any point of the tasks.                  *)

\* What the others may do to the tables while a task works: rows stay where
\* they are, nothing that a task has done is undone, and a new row arrives
\* complete.
Undisturbed ==
    /\ \A r \in Requests : Stored(r) =>
          /\ rows'[r] # NoRow /\ rows'[r].session = rows[r].session
          /\ Told(r) => rows'[r].said = (r \in Text)
    /\ \A r \in Requests : rows'[r] # NoRow /\ ~Stored(r) =>
          /\ r \notin Legacy /\ rows'[r].said = (r \in Text)
          /\ proj'.indexed[r] # None /\ turns'[r] # NoTurn
    /\ \A r \in Requests : proj.indexed[r] # None => proj'.indexed[r] # None
    /\ \A r \in Requests : turns[r] # NoTurn => turns'[r] # NoTurn
    /\ \A r \in Requests : turns'[r] # NoTurn /\ ~turns'[r].filled => turns[r] # NoTurn /\ ~turns[r].filled
    /\ \A s \in Sessions : proj.summaries[s] # NoSummary => proj'.summaries[s] # NoSummary

\* Then what the tasks know of their work stays true.
LEMMA UndisturbedKeeps ==
  ASSUME ProjectionInv, Undisturbed, startup' = startup, versions' = versions
  PROVE  Work' /\ RecordedIsRepaired'
<1> DEFINE Same(r) == /\ Stored(r)' /\ rows'[r].session = rows[r].session /\ (Told(r) => Told(r)')
<1>1. \A r \in Requests : Stored(r) => Same(r)
  BY DEF Undisturbed, Stored, Told
<1>2. \A r \in Requests : Stored(r)' /\ ~Stored(r) =>
        r \notin Legacy /\ Told(r)' /\ proj'.indexed[r] # None /\ turns'[r] # NoTurn
  BY DEF Undisturbed, Stored, Told
<1>3. /\ \A r \in Requests : proj.indexed[r] # None => proj'.indexed[r] # None
      /\ \A r \in Requests : turns[r] # NoTurn => turns'[r] # NoTurn
      /\ \A r \in Requests : turns'[r] # NoTurn /\ ~turns'[r].filled => turns[r] # NoTurn /\ ~turns[r].filled
      /\ \A s \in Sessions : proj.summaries[s] # NoSummary => proj'.summaries[s] # NoSummary
  BY DEF Undisturbed
<1>4. Work /\ RecordedIsRepaired /\ Typed
  BY DEF ProjectionInv, Consistent
<1>5. AllIndexed => AllIndexed'
  BY <1>1, <1>2, <1>3 DEF AllIndexed
<1>6. AllTold => AllTold'
  BY <1>1, <1>2 DEF AllTold
<1>7. AllTurned => AllTurned'
  BY <1>1, <1>2, <1>3 DEF AllTurned
<1>8. AllFilled => AllFilled'
  BY <1>3 DEF AllFilled
<1>9. Repaired => Repaired'
  BY <1>1, <1>2, SessionsTyped DEF Repaired
<1>10. RecordedIsRepaired'
  BY <1>4, <1>9 DEF Repaired, RecordedIsRepaired
<1>11. Achieved(startup.task)'
  BY <1>4, <1>5, <1>6, <1>7, <1>8 DEF Work, Achieved
<1>12. CanonicalWork'
  BY <1>1, <1>2, <1>4, <1>9, SessionsTyped DEF Work, CanonicalWork
<1>13. BackfillWork'
  BY <1>1, <1>2, <1>3, <1>4 DEF Work, BackfillWork
<1>14. SummaryWork'
  <2>1. \A s \in Sessions : \A r \in In(s) : r \in In(s)'
    BY <1>1 DEF In
  <2>. QED BY <1>3, <1>4, <2>1 DEF Work, SummaryWork
<1>15. PreviewWork'
  BY <1>1, <1>2, <1>4 DEF Work, PreviewWork
<1>16. TurnWork'
  <2>1. startup.task = "turns" => \A r \in Requests : startup.copy[r] # NoTurn => CopyAgrees(r)'
    BY <1>1, <1>4 DEF Work, TurnWork, CopyAgrees
  <2>2. startup.task = "turns" /\ startup.step # "list" =>
          \A r \in Requests : Stored(r)' /\ turns'[r] = NoTurn =>
              rows'[r].session \in startup.list \/ startup.copy[r] # NoTurn
    BY <1>1, <1>2, <1>3, <1>4 DEF Work, TurnWork
  <2>. QED BY <1>4, <2>1, <2>2 DEF Work, TurnWork
<1>17. FacetWork'
  BY <1>3, <1>4 DEF Work, FacetWork
<1>. QED BY <1>10, <1>11, <1>12, <1>13, <1>14, <1>15, <1>16, <1>17 DEF Work

\* Reading the mappings before a transaction changes no table.
LEMMA ReadsKeeps ==
  ASSUME ProjectionInv, NEW r \in Requests, PutBatchReads(r)
  PROVE  ProjectionInv'
<1>1. /\ rows' = rows /\ turns' = turns /\ proj' = proj /\ mapping' = mapping /\ previewed' = previewed
      /\ versions' = versions /\ startup' = startup
      /\ writer' = [request |-> r, identities |-> mapping] /\ (r \notin Legacy \/ Stored(r))
  BY DEF PutBatchReads
<1>2. writer' \in Batches /\ writer'.request = r
  BY <1>1 DEF ProjectionInv, Typed, TypeOK, Batches
<1>3. Typed'
  BY <1>1, <1>2 DEF ProjectionInv, Typed, TypeOK
<1>4. Undisturbed
  BY <1>1 DEF Undisturbed, Stored, Told
<1>5. Work' /\ RecordedIsRepaired'
  BY <1>1, <1>4, UndisturbedKeeps
<1>6. Consistent'
  BY <1>1, <1>2, <1>5 DEF ProjectionInv, Consistent, Unmoved, Stored, Told, TurnAgrees
<1>. QED BY <1>3, <1>5, <1>6 DEF ProjectionInv

\* What PutBatch's transaction leaves of the request it writes.
LEMMA CommitFacts ==
  ASSUME ProjectionInv, PutBatchCommits
  PROVE  LET r == writer.request
             principal == Resolved(r, writer.identities)
         IN  /\ r \in Requests /\ principal \in Owner
             /\ rows' \in Tables /\ rows'[r] \in Rows /\ \A q \in Requests : q # r => rows'[q] = rows[q]
             /\ rows'[r].said = (r \in Text)
             /\ rows'[r].session = IF Stored(r) THEN rows[r].session ELSE SentSession[r]
             /\ rows'[r].principal = IF principal # None THEN principal
                                     ELSE IF Stored(r) THEN rows[r].principal ELSE None
             /\ ~Stored(r) => r \notin Legacy
             /\ turns' \in [Requests -> Turns \cup {NoTurn}] /\ turns'[r] \in Turns
             /\ turns'[r].session = rows'[r].session /\ turns'[r].said = rows'[r].said /\ turns'[r].filled
             /\ \A q \in Requests : q # r => turns'[q] = turns[q]
<1> DEFINE r == writer.request
           principal == Resolved(r, writer.identities)
           row == Upserted(r, principal)
           turn == [session |-> row.session, principal |-> row.principal, said |-> row.said, filled |-> TRUE]
<1>1. /\ writer # NoBatch /\ rows' = [rows EXCEPT ![r] = row] /\ turns' = [turns EXCEPT ![r] = turn]
  BY DEF PutBatchCommits
<1>2. writer \in Batches /\ r \in Requests /\ writer.identities \in [Credentials -> Owner]
  BY <1>1 DEF ProjectionInv, Typed, Batches
<1>3. /\ Given \in [Requests -> Owner] /\ Cred \in [Requests -> Credentials]
      /\ SentSession \in [Requests -> Sessions]
  BY ProjectionAssumption, SessionsTyped DEF Owner
<1>4. principal \in Owner
  BY <1>2, <1>3 DEF Resolved
<1>5. ~Stored(r) => r \notin Legacy
  BY <1>1 DEF ProjectionInv, Consistent
<1>6. rows \in [Requests -> Rows \cup {NoRow}] /\ turns \in [Requests -> Turns \cup {NoTurn}]
  BY DEF ProjectionInv, Typed, TypeOK
<1> HIDE DEF principal
<1>7. /\ row \in Rows /\ row.said = (r \in Text)
      /\ row.session = IF Stored(r) THEN rows[r].session ELSE SentSession[r]
      /\ row.principal = IF principal # None THEN principal
                         ELSE IF Stored(r) THEN rows[r].principal ELSE None
  <2>1. CASE Stored(r)
    <3> DEFINE x == rows[r]
               p == IF principal # None THEN principal ELSE x.principal
               said == x.said \/ r \in Text
    <3>1. /\ x \in Rows /\ x.principal \in Owner /\ x.said \in BOOLEAN
      BY <1>2, <2>1, TableFacts DEF ProjectionInv
    <3>2. x.said => r \in Text
      BY <1>2, <2>1 DEF ProjectionInv, Consistent
    <3>3. row = [x EXCEPT !.principal = p, !.said = said]
      BY <2>1 DEF Upserted
    <3>4. p \in Owner /\ said \in BOOLEAN /\ said = (r \in Text)
      BY <1>4, <3>1, <3>2
    <3>5. p = IF principal # None THEN principal ELSE rows[r].principal
      OBVIOUS
    <3> HIDE DEF row, x, p, said
    <3>6. row \in Rows /\ row.said = said /\ row.session = x.session /\ row.principal = p
      BY <3>1, <3>3, <3>4 DEF Rows
    <3>. QED BY <2>1, <3>4, <3>5, <3>6 DEF x
  <2>2. CASE ~Stored(r)
    <3>1. row = [session |-> SentSession[r], principal |-> principal, facet |-> principal,
                 said |-> r \in Text]
      BY <2>2 DEF Upserted
    <3>2. SentSession[r] \in Sessions
      BY <1>2, <1>3
    <3> HIDE DEF row
    <3>3. row \in Rows /\ row.said = (r \in Text) /\ row.session = SentSession[r] /\ row.principal = principal
      BY <1>4, <3>1, <3>2 DEF Rows
    <3>. QED BY <2>2, <3>3
  <2>. QED BY <2>1, <2>2
<1> HIDE DEF row
<1>8. turn \in Turns /\ turn.session = row.session /\ turn.said = row.said /\ turn.filled = TRUE
  <2>1. row.session \in Sessions /\ row.principal \in Owner /\ row.said \in BOOLEAN
    BY <1>7 DEF Rows
  <2>. QED BY <2>1 DEF Turns
<1> HIDE DEF turn, r
<1>9. /\ rows'[r] = row /\ turns'[r] = turn
      /\ \A q \in Requests : q # r => rows'[q] = rows[q] /\ turns'[q] = turns[q]
  BY <1>1, <1>2, <1>6
<1>10. rows' \in Tables /\ turns' \in [Requests -> Turns \cup {NoTurn}]
  BY <1>1, <1>2, <1>6, <1>7, <1>8 DEF Tables
<1>. QED BY <1>2, <1>4, <1>5, <1>7, <1>8, <1>9, <1>10 DEF r, principal

\* The projections after the transaction: a request that is not indexed is
\* entered under the session its row has.
LEMMA CommitIndexes ==
  ASSUME ProjectionInv, PutBatchCommits
  PROVE  /\ proj' \in Projections /\ Exact(proj', rows') /\ proj'.indexed[writer.request] # None
         /\ \A q \in Requests : q # writer.request => proj'.indexed[q] = proj.indexed[q]
         /\ Inherits(proj', proj, writer.request, Resolved(writer.request, writer.identities))
<1> DEFINE r == writer.request
           principal == Resolved(r, writer.identities)
           e == [request |-> r, session |-> SentSession[r], principal |-> principal,
                 facet |-> principal, said |-> r \in Text]
<1>1. proj' = IndexSessionRecord(proj, e)
  BY DEF PutBatchCommits
<1>2. /\ r \in Requests /\ principal \in Owner /\ rows'[r] \in Rows
      /\ \A q \in Requests : q # r => rows'[q] = rows[q]
      /\ rows'[r].session = IF Stored(r) THEN rows[r].session ELSE SentSession[r]
  BY CommitFacts
<1>3. proj \in Projections /\ Exact(proj, rows) /\ Unmoved
  BY DEF ProjectionInv, Typed, TypeOK, Consistent
<1>4. SentSession[r] \in Sessions
  BY <1>2, SessionsTyped
<1> HIDE DEF r, principal
<1>5. e \in Entries /\ e.request = r /\ e.session = SentSession[r] /\ e.principal = principal
      /\ e.said = (r \in Text)
  BY <1>2, <1>4 DEF Entries
<1> HIDE DEF e
<1>6. Exact(proj, rows')
  <2>1. \A q \in Requests : rows[q] # NoRow => rows'[q] # NoRow /\ rows'[q].session = rows[q].session
    BY <1>2, Absent DEF Stored
  <2>. QED BY <1>3, <2>1, ExactCarries
<1>7. CASE proj.indexed[r] # None
  <2>1. proj' = proj
    BY <1>1, <1>5, <1>7 DEF IndexSessionRecord
  <2>. QED BY <1>3, <1>6, <1>7, <2>1 DEF Inherits, r
<1>8. CASE proj.indexed[r] = None
  <2>1. rows'[r].session = SentSession[r]
    BY <1>2, <1>3, <1>8 DEF Unmoved
  <2>2. Fits(e, rows')
    BY <1>2, <1>5, <2>1, Absent DEF Fits
  <2>3. /\ proj' \in Projections /\ Exact(proj', rows') /\ proj'.indexed[r] # None
        /\ \A q \in Requests : q # r => proj'.indexed[q] = proj.indexed[q]
        /\ Inherits(proj', proj, r, principal)
    BY <1>1, <1>3, <1>5, <1>6, <2>2, IndexKeeps
  <2>. QED BY <2>3 DEF r, principal
<1>. QED BY <1>7, <1>8

\* A summary that is there stays there when the projections stay exact and
\* nothing leaves the index.
LEMMA SummariesStay ==
  ASSUME NEW p, NEW q, NEW table, NEW next, Exact(p, table), Exact(q, next),
         \A r \in Requests : p.indexed[r] # None => q.indexed[r] = p.indexed[r]
  PROVE  \A s \in Sessions : p.summaries[s] # NoSummary => q.summaries[s] # NoSummary
<1>1. SUFFICES ASSUME NEW s \in Sessions, p.summaries[s] # NoSummary PROVE q.summaries[s] # NoSummary
  OBVIOUS
<1>2. Counts(p, s) /\ Counts(q, s) /\ s # None
  BY Absent DEF Exact
<1>3. Own(p, s) # {}
  BY <1>1, <1>2 DEF Counts
<1>4. Own(q, s) # {}
  BY <1>2, <1>3 DEF Own
<1>. QED BY <1>2, <1>4 DEF Counts

\* PutBatch's transaction keeps the invariant at any point of the tasks.
LEMMA CommitKeeps ==
  ASSUME ProjectionInv, PutBatchCommits
  PROVE  ProjectionInv'
<1> DEFINE r == writer.request
<1>1. /\ mapping' = mapping /\ previewed' = previewed /\ versions' = versions /\ startup' = startup
      /\ writer' = NoBatch
  BY DEF PutBatchCommits
<1>2. /\ r \in Requests /\ rows' \in Tables /\ rows'[r] \in Rows /\ rows'[r] # NoRow
      /\ \A q \in Requests : q # r => rows'[q] = rows[q] /\ turns'[q] = turns[q]
      /\ rows'[r].said = (r \in Text)
      /\ rows'[r].session = IF Stored(r) THEN rows[r].session ELSE SentSession[r]
      /\ ~Stored(r) => r \notin Legacy
      /\ turns' \in [Requests -> Turns \cup {NoTurn}] /\ turns'[r] \in Turns /\ turns'[r] # NoTurn
      /\ turns'[r].session = rows'[r].session /\ turns'[r].said = rows'[r].said /\ turns'[r].filled
  BY CommitFacts, Absent
<1>3. /\ proj' \in Projections /\ Exact(proj', rows') /\ proj'.indexed[r] # None
      /\ \A q \in Requests : q # r => proj'.indexed[q] = proj.indexed[q]
  BY CommitIndexes
<1> HIDE DEF r
<1>4. Typed /\ Consistent /\ Exact(proj, rows)
  BY DEF ProjectionInv, Consistent
<1>5. \A q \in Requests : proj.indexed[q] # None => proj'.indexed[q] = proj.indexed[q]
  <2>1. CASE proj.indexed[r] # None
    <3>1. Stored(r) /\ rows[r].session = proj.indexed[r]
      BY <1>2, <1>4, <2>1 DEF Exact, Stored
    <3>2. proj'.indexed[r] = rows'[r].session
      BY <1>2, <1>3 DEF Exact
    <3>. QED BY <1>2, <1>3, <3>1, <3>2
  <2>2. CASE proj.indexed[r] = None
    BY <1>3, <2>2
  <2>. QED BY <2>1, <2>2
<1>6. \A s \in Sessions : proj.summaries[s] # NoSummary => proj'.summaries[s] # NoSummary
  BY <1>3, <1>4, <1>5, SummariesStay
<1>7. Undisturbed
  <2>1. \A q \in Requests : Stored(q) =>
          /\ rows'[q] # NoRow /\ rows'[q].session = rows[q].session
          /\ Told(q) => rows'[q].said = (q \in Text)
    BY <1>2 DEF Stored, Told
  <2>2. \A q \in Requests : rows'[q] # NoRow /\ ~Stored(q) =>
          /\ q \notin Legacy /\ rows'[q].said = (q \in Text)
          /\ proj'.indexed[q] # None /\ turns'[q] # NoTurn
    BY <1>2, <1>3 DEF Stored
  <2>3. \A q \in Requests : proj.indexed[q] # None => proj'.indexed[q] # None
    BY <1>3
  <2>4. /\ \A q \in Requests : turns[q] # NoTurn => turns'[q] # NoTurn
        /\ \A q \in Requests : turns'[q] # NoTurn /\ ~turns'[q].filled => turns[q] # NoTurn /\ ~turns[q].filled
    BY <1>2
  <2>. QED BY <1>6, <2>1, <2>2, <2>3, <2>4 DEF Undisturbed
<1>8. Work' /\ RecordedIsRepaired'
  BY <1>1, <1>7, UndisturbedKeeps
<1>9. Typed'
  <2>1. rows' \in [Requests -> Rows \cup {NoRow}]
    BY <1>2 DEF Tables
  <2>. QED BY <1>1, <1>2, <1>3, <1>4, <2>1 DEF Typed, TypeOK
<1>10. Consistent'
  <2>1. Unmoved'
    <3>1. \A q \in Requests : rows[q] # NoRow /\ proj.indexed[q] = None => rows[q].session = SentSession[q]
      BY <1>4 DEF Consistent, Unmoved, Stored
    <3>. QED BY <1>2, <1>3, <3>1 DEF Unmoved, Stored
  <2>2. (\A q \in Requests : Stored(q) /\ rows[q].said => q \in Text)'
    <3>1. \A q \in Requests : rows[q] # NoRow /\ rows[q].said => q \in Text
      BY <1>4 DEF Consistent, Stored
    <3>. QED BY <1>2, <3>1 DEF Stored
  <2>3. (\A q \in previewed : Stored(q) /\ Told(q))'
    <3>1. previewed \subseteq Requests /\ \A q \in previewed : rows[q] # NoRow /\ rows[q].said = (q \in Text)
      BY <1>4 DEF Typed, TypeOK, Consistent, Stored, Told
    <3>. QED BY <1>1, <1>2, <3>1 DEF Stored, Told
  <2>4. (\A q \in Requests : turns[q] # NoTurn => TurnAgrees(q))'
    <3>1. \A q \in Requests : turns[q] # NoTurn =>
            rows[q] # NoRow /\ turns[q].session = rows[q].session /\ turns[q].said = rows[q].said
      BY <1>4 DEF Consistent, TurnAgrees, Stored
    <3>. QED BY <1>2, <3>1 DEF TurnAgrees, Stored
  <2>. QED BY <1>1, <1>3, <1>8, <2>1, <2>2, <2>3, <2>4 DEF Consistent
<1>. QED BY <1>8, <1>9, <1>10 DEF ProjectionInv

\* A mapping changes principals, and nothing else of rows, turn rows and
\* summaries; the principal a summary gets is that of a row of its session.
LEMMA ApplyFacts ==
  ASSUME ProjectionInv, NEW h \in Credentials, NEW p \in Principals, ApplyCredentialPrincipals(h, p)
  PROVE  /\ rows' \in Tables /\ turns' \in [Requests -> Turns \cup {NoTurn}]
         /\ proj' \in Projections /\ proj'.indexed = proj.indexed
         /\ \A r \in Requests : rows'[r] # NoRow <=> Stored(r)
         /\ \A r \in Requests : Stored(r) =>
               /\ rows'[r].session = rows[r].session /\ rows'[r].said = rows[r].said
               /\ rows'[r].principal = IF Cred[r] = h THEN p ELSE rows[r].principal
         /\ \A r \in Requests : turns'[r] # NoTurn <=> turns[r] # NoTurn
         /\ \A r \in Requests : turns[r] # NoTurn =>
               /\ turns'[r].session = turns[r].session /\ turns'[r].said = turns[r].said
               /\ turns'[r].filled = turns[r].filled
         /\ \A s \in Sessions : proj'.summaries[s] = NoSummary <=> proj.summaries[s] = NoSummary
         /\ \A s \in Sessions : proj.summaries[s] # NoSummary =>
               /\ proj'.summaries[s].requests = proj.summaries[s].requests
               /\ proj'.summaries[s].first = proj.summaries[s].first
               /\ proj'.summaries[s].summary = proj.summaries[s].summary
               /\ \/ proj'.summaries[s].principal = None
                  \/ \E r \in In(s) : proj'.summaries[s].principal = rows'[r].principal
                  \/ /\ proj'.summaries[s].principal = proj.summaries[s].principal
                     /\ \A r \in In(s) : rows'[r] = rows[r]
<1> DEFINE named == {r \in Requests : Stored(r) /\ Cred[r] = h}
           affected == {rows[r].session : r \in named}
           new == [r \in Requests |-> IF r \in named THEN [rows[r] EXCEPT !.principal = p] ELSE rows[r]]
           owned(s) == {r \in In(s) : new[r].principal # None}
           shown(s) == IF owned(s) = {} THEN None ELSE new[Earliest(owned(s))].principal
           sums == [s \in Sessions |->
                      IF s \in affected /\ proj.summaries[s] # NoSummary
                      THEN [proj.summaries[s] EXCEPT !.principal = shown(s)]
                      ELSE proj.summaries[s]]
           facets == [s \in Sessions |->
                      IF s \in affected THEN {new[r].principal : r \in owned(s)} ELSE proj.facets[s]]
<1>1. /\ rows' = new
      /\ turns' = [r \in Requests |->
            IF r \in named /\ turns[r] # NoTurn THEN [turns[r] EXCEPT !.principal = p] ELSE turns[r]]
      /\ proj' = [proj EXCEPT !.summaries = sums, !.facets = facets]
  BY DEF ApplyCredentialPrincipals
<1>2. /\ rows \in [Requests -> Rows \cup {NoRow}] /\ turns \in [Requests -> Turns \cup {NoTurn}]
      /\ proj \in Projections /\ Typed
  BY DEF ProjectionInv, Typed, TypeOK
<1>3. p \in Owner /\ None \in Owner
  BY DEF Owner
<1>4. ASSUME NEW r \in Requests, Stored(r)
      PROVE  /\ new[r] \in Rows /\ new[r].session = rows[r].session /\ new[r].said = rows[r].said
             /\ new[r].principal = IF Cred[r] = h THEN p ELSE rows[r].principal
  <2> DEFINE x == rows[r]
             y == new[r]
  <2>1. x \in Rows
    BY <1>2, <1>4, TableFacts
  <2>2. CASE Cred[r] = h
    <3>1. y = [x EXCEPT !.principal = p]
      BY <1>4, <2>2
    <3> HIDE DEF x, y
    <3>2. y \in Rows /\ y.session = x.session /\ y.said = x.said /\ y.principal = p
      BY <1>3, <2>1, <3>1 DEF Rows
    <3>. QED BY <2>2, <3>2 DEF x, y
  <2>3. CASE Cred[r] # h
    BY <2>1, <2>3
  <2>. QED BY <2>2, <2>3
<1>5. \A r \in Requests : ~Stored(r) => new[r] = NoRow
  BY DEF Stored
<1>6. new \in Tables
  <2>1. \A r \in Requests : new[r] \in Rows \cup {NoRow}
    BY <1>4, <1>5
  <2>2. new = [r \in Requests |-> new[r]]
    OBVIOUS
  <2> HIDE DEF new
  <2>. QED BY <2>1, <2>2 DEF Tables
<1>7. ASSUME NEW r \in Requests, turns[r] # NoTurn
      PROVE  /\ turns'[r] \in Turns /\ turns'[r].session = turns[r].session
             /\ turns'[r].said = turns[r].said /\ turns'[r].filled = turns[r].filled
  <2> DEFINE t == turns[r]
             u == turns'[r]
  <2>1. t \in Turns
    BY <1>2, <1>7, TableFacts
  <2>2. u = t \/ u = [t EXCEPT !.principal = p]
    BY <1>1, <1>7
  <2> HIDE DEF t, u
  <2>3. u \in Turns /\ u.session = t.session /\ u.said = t.said /\ u.filled = t.filled
    BY <1>3, <2>1, <2>2 DEF Turns
  <2>. QED BY <2>3 DEF t, u
<1>8. \A r \in Requests : turns[r] = NoTurn => turns'[r] = NoTurn
  BY <1>1
<1>9. turns' \in [Requests -> Turns \cup {NoTurn}]
  <2>1. \A r \in Requests : turns'[r] \in Turns \cup {NoTurn}
    BY <1>7, <1>8
  <2>2. turns' = [r \in Requests |-> turns'[r]]
    BY <1>1
  <2>. QED BY <2>1, <2>2
<1>10. /\ proj.indexed \in [Requests -> Sessions \cup {None}]
       /\ proj.summaries \in [Sessions -> Summaries \cup {NoSummary}]
       /\ proj.facets \in [Sessions -> SUBSET Principals]
       /\ proj = [indexed |-> proj.indexed, summaries |-> proj.summaries, facets |-> proj.facets]
  BY <1>2 DEF Projections
<1>11. \A s \in Sessions : \A r \in In(s) : r \in Requests /\ Stored(r) /\ rows[r].session = s
  BY DEF In
<1>12. ASSUME NEW s \in Sessions
       PROVE  /\ shown(s) \in Owner
              /\ shown(s) = None \/ \E r \in In(s) : shown(s) = new[r].principal
  <2>1. CASE owned(s) = {}
    BY <1>3, <2>1
  <2>2. CASE owned(s) # {}
    <3>1. owned(s) \subseteq Nat
      BY <1>11, Absent
    <3>2. Earliest(owned(s)) \in owned(s)
      BY <2>2, <3>1, EarliestOf
    <3>3. Earliest(owned(s)) \in In(s) /\ shown(s) = new[Earliest(owned(s))].principal
      BY <2>2, <3>2
    <3>4. \A r \in In(s) : new[r] \in Rows
      BY <1>4, <1>11
    <3>5. \A x \in Rows : x.principal \in Owner
      BY DEF Rows
    <3> HIDE DEF new, owned, shown
    <3>. QED BY <3>3, <3>4, <3>5
  <2>. QED BY <2>1, <2>2
<1>13. ASSUME NEW s \in Sessions, s \notin affected, NEW r \in In(s) PROVE new[r] = rows[r]
  BY <1>11, <1>13
<1> HIDE DEF new, shown
<1>14. ASSUME NEW s \in Sessions, proj.summaries[s] # NoSummary
       PROVE  /\ sums[s] \in Summaries
              /\ sums[s].requests = proj.summaries[s].requests
              /\ sums[s].first = proj.summaries[s].first
              /\ sums[s].summary = proj.summaries[s].summary
              /\ \/ sums[s].principal = None
                 \/ \E r \in In(s) : sums[s].principal = new[r].principal
                 \/ /\ sums[s].principal = proj.summaries[s].principal
                    /\ \A r \in In(s) : new[r] = rows[r]
  <2> DEFINE x == proj.summaries[s]
             y == sums[s]
  <2>1. x \in Summaries
    BY <1>10, <1>14
  <2>2. CASE s \in affected
    <3>1. y = [x EXCEPT !.principal = shown(s)]
      BY <1>14, <2>2
    <3>2. shown(s) \in Owner
      BY <1>12
    <3> HIDE DEF x, y
    <3>3. /\ y \in Summaries /\ y.requests = x.requests /\ y.first = x.first /\ y.summary = x.summary
          /\ y.principal = shown(s)
      BY <2>1, <3>1, <3>2 DEF Summaries
    <3>. QED BY <1>12, <3>3 DEF x, y
  <2>3. CASE s \notin affected
    <3>1. y = x
      BY <2>3
    <3>. QED BY <1>13, <2>1, <2>3, <3>1
  <2>. QED BY <2>2, <2>3
<1>15. \A s \in Sessions : proj.summaries[s] = NoSummary => sums[s] = NoSummary
  OBVIOUS
<1>16. sums \in [Sessions -> Summaries \cup {NoSummary}]
  <2>1. \A s \in Sessions : sums[s] \in Summaries \cup {NoSummary}
    BY <1>14, <1>15
  <2>2. sums = [s \in Sessions |-> sums[s]]
    OBVIOUS
  <2> HIDE DEF sums
  <2>. QED BY <2>1, <2>2
<1>17. facets \in [Sessions -> SUBSET Principals]
  <2>1. ASSUME NEW s \in Sessions, NEW r \in owned(s) PROVE new[r].principal \in Principals
    <3>1. new[r] \in Rows /\ new[r].principal # None
      BY <1>4, <1>11
    <3>. QED BY <3>1 DEF Rows, Owner
  <2>2. ASSUME NEW s \in Sessions PROVE facets[s] \in SUBSET Principals
    BY <1>10, <2>1
  <2>3. facets = [s \in Sessions |-> facets[s]]
    OBVIOUS
  <2> HIDE DEF facets
  <2>. QED BY <2>2, <2>3
<1> HIDE DEF sums, facets
<1>18. proj' = [indexed |-> proj.indexed, summaries |-> sums, facets |-> facets]
  BY <1>1, <1>10
<1>19. proj' \in Projections /\ proj'.indexed = proj.indexed /\ proj'.summaries = sums
  BY <1>10, <1>16, <1>17, <1>18 DEF Projections
<1>20. \A s \in Sessions : sums[s] = NoSummary <=> proj.summaries[s] = NoSummary
  BY <1>14, <1>15, Absent
<1>21. \A r \in Requests : new[r] # NoRow <=> Stored(r)
  BY <1>4, <1>5, Absent
<1>22. \A r \in Requests : turns'[r] # NoTurn <=> turns[r] # NoTurn
  BY <1>7, <1>8, Absent
<1>23. rows' = new
  BY <1>1
<1>24. \A s \in Sessions : proj.summaries[s] # NoSummary =>
               /\ proj'.summaries[s].requests = proj.summaries[s].requests
               /\ proj'.summaries[s].first = proj.summaries[s].first
               /\ proj'.summaries[s].summary = proj.summaries[s].summary
               /\ \/ proj'.summaries[s].principal = None
                  \/ \E r \in In(s) : proj'.summaries[s].principal = rows'[r].principal
                  \/ /\ proj'.summaries[s].principal = proj.summaries[s].principal
                     /\ \A r \in In(s) : rows'[r] = rows[r]
  BY <1>14, <1>19, <1>23
<1>25. \A r \in Requests : Stored(r) =>
               /\ rows'[r].session = rows[r].session /\ rows'[r].said = rows[r].said
               /\ rows'[r].principal = IF Cred[r] = h THEN p ELSE rows[r].principal
  BY <1>4, <1>23
<1>. QED BY <1>6, <1>7, <1>9, <1>19, <1>20, <1>21, <1>22, <1>23, <1>24, <1>25

\* A mapping keeps the invariant at any point of the tasks.
LEMMA ApplyKeeps ==
  ASSUME ProjectionInv, NEW h \in Credentials, NEW p \in Principals, ApplyCredentialPrincipals(h, p)
  PROVE  ProjectionInv'
<1>1. /\ previewed' = previewed /\ versions' = versions /\ startup' = startup /\ writer' = writer
      /\ mapping' = [mapping EXCEPT ![h] = p]
  BY DEF ApplyCredentialPrincipals
<1>2. /\ rows' \in Tables /\ turns' \in [Requests -> Turns \cup {NoTurn}]
      /\ proj' \in Projections /\ proj'.indexed = proj.indexed
      /\ \A r \in Requests : rows'[r] # NoRow <=> Stored(r)
      /\ \A r \in Requests : Stored(r) => rows'[r].session = rows[r].session /\ rows'[r].said = rows[r].said
      /\ \A r \in Requests : turns'[r] # NoTurn <=> turns[r] # NoTurn
      /\ \A r \in Requests : turns[r] # NoTurn =>
            /\ turns'[r].session = turns[r].session /\ turns'[r].said = turns[r].said
            /\ turns'[r].filled = turns[r].filled
      /\ \A s \in Sessions : proj'.summaries[s] = NoSummary <=> proj.summaries[s] = NoSummary
  BY ApplyFacts
<1>3. \A s \in Sessions : proj.summaries[s] # NoSummary =>
        /\ proj'.summaries[s].requests = proj.summaries[s].requests
        /\ proj'.summaries[s].first = proj.summaries[s].first
        /\ proj'.summaries[s].summary = proj.summaries[s].summary
  BY ApplyFacts
<1>4. Typed /\ Consistent /\ Exact(proj, rows) /\ Unmoved
  BY DEF ProjectionInv, Consistent
<1>5. Undisturbed
  BY <1>2 DEF Undisturbed, Stored, Told
<1>6. Work' /\ RecordedIsRepaired'
  BY <1>1, <1>5, UndisturbedKeeps
<1>7. Typed'
  <2>1. rows' \in [Requests -> Rows \cup {NoRow}]
    BY <1>2 DEF Tables
  <2>2. mapping' \in [Credentials -> Owner]
    <3>1. mapping \in [Credentials -> Owner] /\ p \in Owner
      BY <1>4 DEF Typed, TypeOK, Owner
    <3>. QED BY <1>1, <3>1
  <2>. QED BY <1>1, <1>2, <1>4, <2>1, <2>2 DEF Typed, TypeOK
<1>8. Exact(proj', rows')
  <2>1. ASSUME NEW s \in Sessions PROVE Counts(proj', s) /\ Quotes(proj', rows, s)
    <3>1. Own(proj', s) = Own(proj, s)
      BY <1>2 DEF Own
    <3>2. Counts(proj, s) /\ Quotes(proj, rows, s)
      BY <1>4 DEF Exact
    <3>3. proj'.summaries[s] = NoSummary <=> proj.summaries[s] = NoSummary
      BY <1>2
    <3>4. Counts(proj', s)
      BY <1>3, <3>1, <3>2, <3>3 DEF Counts
    <3>5. Quotes(proj', rows, s)
      BY <1>3, <3>2, <3>3 DEF Quotes
    <3>. QED BY <3>4, <3>5
  <2>2. Exact(proj', rows)
    BY <1>2, <1>4, <2>1 DEF Exact
  <2>3. \A r \in Requests : rows[r] # NoRow => rows'[r] # NoRow /\ rows'[r].session = rows[r].session
    BY <1>2 DEF Stored
  <2>. QED BY <1>2, <2>2, <2>3, ExactCarries
<1>9. Consistent'
  <2>1. \A r \in Requests : Stored(r)' <=> Stored(r)
    BY <1>2 DEF Stored
  <2>2. Unmoved'
    BY <1>2, <1>4, <2>1 DEF Unmoved
  <2>3. (writer # NoBatch => writer.request \notin Legacy \/ Stored(writer.request))'
    <3>1. writer # NoBatch => writer.request \in Requests
      BY <1>4 DEF Typed, Batches
    <3>2. writer # NoBatch => writer.request \notin Legacy \/ Stored(writer.request)
      BY <1>4 DEF Consistent
    <3>. QED BY <1>1, <1>2, <3>1, <3>2 DEF Stored
  <2>4. (\A r \in Requests : Stored(r) /\ rows[r].said => r \in Text)'
    BY <1>2, <1>4, <2>1 DEF Consistent
  <2>5. (\A r \in previewed : Stored(r) /\ Told(r))'
    <3>1. previewed \subseteq Requests /\ \A r \in previewed : Stored(r) /\ Told(r)
      BY <1>4 DEF Typed, TypeOK, Consistent
    <3>. QED BY <1>1, <1>2, <2>1, <3>1 DEF Told
  <2>6. (\A r \in Requests : turns[r] # NoTurn => TurnAgrees(r))'
    <3>1. \A r \in Requests : turns[r] # NoTurn => TurnAgrees(r)
      BY <1>4 DEF Consistent
    <3>. QED BY <1>2, <2>1, <3>1 DEF TurnAgrees
  <2>. QED BY <1>6, <1>8, <2>2, <2>3, <2>4, <2>5, <2>6 DEF Consistent
<1>. QED BY <1>6, <1>7, <1>9 DEF ProjectionInv

\* Every step keeps the invariant.
LEMMA StepKeeps == ProjectionInv /\ [Next]_vars => ProjectionInv'
<1> SUFFICES ASSUME ProjectionInv, [Next]_vars PROVE ProjectionInv'
  OBVIOUS
<1>1. CASE \E r \in Requests : PutBatchReads(r)
  BY <1>1, ReadsKeeps
<1>2. CASE PutBatchCommits
  BY <1>2, CommitKeeps
<1>3. CASE \E m \in Mappings : ApplyCredentialPrincipals(m[1], m[2])
  <2>1. PICK m \in Mappings : ApplyCredentialPrincipals(m[1], m[2])
    BY <1>3
  <2>2. m[1] \in Credentials /\ m[2] \in Principals
    BY ProjectionAssumption
  <2>. QED BY <2>1, <2>2, ApplyKeeps
<1>4. CASE CanonicalList
  BY <1>4, CanonicalListKeeps
<1>5. CASE CanonicalWrite
  BY <1>5, CanonicalWriteKeeps
<1>6. CASE CanonicalVersion
  BY <1>6, CanonicalVersionKeeps
<1>7. CASE BackfillList
  BY <1>7, BackfillListKeeps
<1>8. CASE BackfillWrite
  BY <1>8, BackfillWriteKeeps
<1>9. CASE SummaryList
  BY <1>9, SummaryListKeeps
<1>10. CASE SummaryWrite
  BY <1>10, SummaryWriteKeeps
<1>11. CASE SummaryVersion
  BY <1>11, SummaryVersionKeeps
<1>12. CASE PreviewList
  BY <1>12, PreviewListKeeps
<1>13. CASE PreviewWrite
  BY <1>13, PreviewWriteKeeps
<1>14. CASE PreviewVersion
  BY <1>14, PreviewVersionKeeps
<1>15. CASE TurnList
  BY <1>15, TurnListKeeps
<1>16. CASE TurnRead
  BY <1>16, TurnReadKeeps
<1>17. CASE TurnWrite
  BY <1>17, TurnWriteKeeps
<1>18. CASE TurnsDone
  BY <1>18, TurnsDoneKeeps
<1>19. CASE FacetRead
  BY <1>19, FacetReadKeeps
<1>20. CASE FacetWrite
  BY <1>20, FacetWriteKeeps
<1>21. CASE TaskFails
  BY <1>21, RetryKeeps
<1>22. CASE Restart
  BY <1>22, RestartKeeps
<1>23. CASE UNCHANGED vars
  <2>1. /\ rows' = rows /\ turns' = turns /\ proj' = proj /\ mapping' = mapping
        /\ previewed' = previewed /\ versions' = versions /\ writer' = writer /\ startup' = startup
    BY <1>23 DEF vars
  <2>2. Undisturbed
    BY <2>1 DEF Undisturbed, Stored, Told
  <2>3. Work'
    BY <2>1, <2>2, UndisturbedKeeps
  <2>4. Shaped(startup') /\ startup'.copy \in [Requests -> Copies \cup {NoTurn}]
    BY <2>1 DEF ProjectionInv, Typed
  <2>5. Typed' /\ Consistent'
    BY <2>1, <2>4, ReadingKeeps
  <2>. QED BY <2>3, <2>5 DEF ProjectionInv
<1>. QED BY <1>1, <1>2, <1>3, <1>4, <1>5, <1>6, <1>7, <1>8, <1>9, <1>10, <1>11, <1>12, <1>13, <1>14,
            <1>15, <1>16, <1>17, <1>18, <1>19, <1>20, <1>21, <1>22, <1>23 DEF Next, Tasks

\* The invariant holds in every reachable state.
LEMMA Invariance == Spec => []ProjectionInv
<1>1. Init => ProjectionInv
  BY InitHolds
<1>2. ProjectionInv /\ [Next]_vars => ProjectionInv'
  BY StepKeeps
<1>. QED BY <1>1, <1>2, PTL DEF Spec

-----------------------------------------------------------------------------
(* What the projections promise.                                            *)

\* Whatever is sent twice, backfilled, moved by RepairCanonicalSessions or
\* repeated after a failure or a restart, indexSessionRecord's projections index
\* a request under the session of its row, count it once and know the first.
THEOREM IndexIsExact == Spec => []IndexExact
<1>1. ASSUME ProjectionInv PROVE IndexExact
  <2>1. TypeOK /\ Exact(proj, rows)
    BY <1>1 DEF ProjectionInv, Typed, Consistent
  <2>2. \A r \in Requests : proj.indexed[r] # None => Stored(r) /\ rows[r].session = proj.indexed[r]
    BY <2>1 DEF Exact, Stored
  <2>3. ASSUME NEW s \in Sessions
        PROVE  /\ proj.summaries[s].requests = Cardinality(Own(proj, s))
               /\ Own(proj, s) # {} => proj.summaries[s].first = Earliest(Own(proj, s))
    <3>1. Counts(proj, s)
      BY <2>1 DEF Exact
    <3>2. CASE Own(proj, s) = {}
      <4>1. proj.summaries[s].requests = 0
        BY <3>1, <3>2 DEF Counts, NoSummary
      <4>. QED BY <4>1, <3>2, FS_EmptySet
    <3>3. CASE Own(proj, s) # {}
      BY <3>1, <3>3 DEF Counts
    <3>. QED BY <3>2, <3>3
  <2>. QED BY <2>1, <2>2, <2>3 DEF IndexExact, Own
<1>. QED BY <1>1, Invariance, PTL

\* When startStartupTasks reports ready, every row is indexed and has its turn
\* row in its own session, the rows that PutBatch wrote meanwhile included, and
\* every row of an older version is in its durable session.
THEOREM ReadyMeansComplete == Spec => []ReadyIsComplete
<1>1. ASSUME ProjectionInv PROVE ReadyIsComplete
  <2>1. SUFFICES ASSUME startup.task = "ready", NEW r \in Requests, Stored(r)
                 PROVE  /\ proj.indexed[r] # None
                        /\ turns[r] # NoTurn /\ turns[r].session = rows[r].session
                        /\ r \in Legacy => rows[r].session = Canonical[r]
    BY DEF ReadyIsComplete
  <2>2. versions.canonical = 1 /\ AllIndexed /\ AllTurned
    BY <1>1, <2>1 DEF ProjectionInv, Work, Achieved, AfterCanonical, AfterBackfill, AfterPreviews, AfterTurns
  <2>3. proj.indexed[r] # None /\ turns[r] # NoTurn
    BY <2>1, <2>2 DEF AllIndexed, AllTurned
  <2>4. turns[r].session = rows[r].session /\ (r \in Legacy => rows[r].session = Canonical[r])
    BY <1>1, <2>1, <2>2, <2>3 DEF ProjectionInv, Consistent, TurnAgrees, RecordedIsRepaired
  <2>. QED BY <2>3, <2>4
<1>. QED BY <1>1, Invariance, PTL

\* The version of RepairCanonicalSessions is recorded only when no row of an
\* older version is left in a transient session, whatever new rows arrive between
\* its list and its transaction, and no copy of such a row moves it back.
THEOREM RecordedMeansRepaired == Spec => []RecordedIsRepaired
<1>1. ProjectionInv => RecordedIsRepaired
  BY DEF ProjectionInv, Consistent
<1>. QED BY <1>1, Invariance, PTL

\* When startStartupTasks reports ready, sessionTurnGroups shows for a session the
\* turns that its requests make with their own turn ids and commands.
THEOREM TurnsAgreeWhenReady == Spec => []TurnViewsAgree
<1>1. ASSUME ProjectionInv PROVE TurnViewsAgree
  <2>1. SUFFICES ASSUME startup.task = "ready", NEW s \in Sessions
                 PROVE  SessionTurnGroups(s) = Groups([i \in DOMAIN Ascending(In(s)) |->
                                                  TurnRow(Ascending(In(s))[i], TRUE, TRUE)])
    BY DEF TurnViewsAgree
  <2>2. AllTold /\ AllTurned /\ AllFilled
    BY <1>1, <2>1 DEF ProjectionInv, Work, Achieved, AfterPreviews, AfterTurns
  <2>3. Projected(s) = In(s)
    <3>1. \A r \in Requests : turns[r] # NoTurn => TurnAgrees(r)
      BY <1>1 DEF ProjectionInv, Consistent
    <3>. QED BY <3>1, <2>2 DEF Projected, In, AllTurned, TurnAgrees
  <2>4. In(s) \subseteq Nat /\ IsFiniteSet(In(s))
    <3>1. In(s) \in SUBSET Requests
      BY DEF In
    <3>. QED BY <3>1, Absent, FS_Subset
  <2>5. \A i \in DOMAIN Ascending(In(s)) : Ascending(In(s))[i] \in In(s)
    BY <2>4, AscendingLists
  <2>6. ASSUME NEW r \in In(s)
        PROVE  /\ TurnRow(r, turns[r].filled, turns[r].said) = TurnRow(r, TRUE, TRUE)
               /\ TurnRow(r, TRUE, rows[r].said) = TurnRow(r, TRUE, TRUE)
    <3>1. r \in Requests /\ Stored(r) /\ turns[r] # NoTurn
      BY <2>2 DEF In, AllTurned
    <3>2. turns[r].filled /\ rows[r].said = (r \in Text)
      BY <3>1, <2>2 DEF AllFilled, AllTold, Told
    <3>3. turns[r].said = rows[r].said
      BY <1>1, <3>1 DEF ProjectionInv, Consistent, TurnAgrees
    <3>4. CASE r \in Text
      BY <3>2, <3>3, <3>4 DEF TurnRow
    <3>5. CASE r \notin Text
      <4>1. Command[r] = None
        BY <3>1, <3>5 DEF Text
      <4>. QED BY <4>1, <3>2, <3>3, <3>5 DEF TurnRow
    <3>. QED BY <3>4, <3>5
  <2> DEFINE want == [i \in DOMAIN Ascending(In(s)) |-> TurnRow(Ascending(In(s))[i], TRUE, TRUE)]
             kept == [i \in DOMAIN Ascending(In(s)) |->
                         TurnRow(Ascending(In(s))[i], turns[Ascending(In(s))[i]].filled,
                                 turns[Ascending(In(s))[i]].said)]
             read == [i \in DOMAIN Ascending(In(s)) |->
                         TurnRow(Ascending(In(s))[i], TRUE, rows[Ascending(In(s))[i]].said)]
  <2>7. kept = want /\ read = want
    BY <2>5, <2>6, Zenon
  <2>8. SessionTurnGroups(s) = Groups(IF In(s) # {} THEN kept ELSE read)
    BY <2>3, Zenon DEF SessionTurnGroups
  <2>. QED BY <2>7, <2>8
<1>. QED BY <1>1, Invariance, PTL

-----------------------------------------------------------------------------
(* Principals.                                                              *)

\* Nothing that carries a principal changes, or the batch is lost.
Quiet ==
    rows' = rows /\ proj' = proj /\ mapping' = mapping /\ (writer' = writer \/ writer' = NoBatch)

\* The steps that can touch the principal of a row, a summary, a mapping or the
\* batch; the other tasks, a failure and a restart leave them alone.
LEMMA PrincipalSteps ==
  ASSUME [Next]_vars
  PROVE  \/ Quiet \/ (\E r \in Requests : PutBatchReads(r)) \/ PutBatchCommits
         \/ \E h \in Credentials, p \in Principals : <<h, p>> \in Mappings /\ ApplyCredentialPrincipals(h, p)
         \/ CanonicalWrite \/ BackfillWrite \/ SummaryWrite \/ PreviewWrite
<1>1. CASE \E m \in Mappings : ApplyCredentialPrincipals(m[1], m[2])
  <2>1. PICK m \in Mappings : ApplyCredentialPrincipals(m[1], m[2])
    BY <1>1
  <2>2. m[1] \in Credentials /\ m[2] \in Principals /\ m = <<m[1], m[2]>>
    BY ProjectionAssumption
  <2>. QED BY <2>1, <2>2
<1>2. CASE CanonicalList \/ CanonicalVersion \/ BackfillList \/ SummaryList \/ SummaryVersion
  BY <1>2 DEF Quiet, CanonicalList, CanonicalVersion, BackfillList, SummaryList, SummaryVersion
<1>3. CASE PreviewList \/ PreviewVersion \/ TurnList \/ TurnRead \/ TurnWrite \/ TurnsDone
  BY <1>3 DEF Quiet, PreviewList, PreviewVersion, TurnList, TurnRead, TurnWrite, TurnsDone
<1>4. CASE FacetRead \/ FacetWrite \/ TaskFails \/ Restart \/ UNCHANGED vars
  BY <1>4 DEF Quiet, FacetRead, FacetWrite, TaskFails, Restart, vars
<1>. QED BY <1>1, <1>2, <1>3, <1>4 DEF Next, Tasks

\* A stored row stays stored and never loses its principal.
LEMMA PrincipalStays ==
  ASSUME ProjectionInv, [Next]_vars, NEW r \in Requests, Stored(r), rows[r].principal # None
  PROVE  rows'[r].principal # None
<1>1. CASE Quiet \/ (\E q \in Requests : PutBatchReads(q)) \/ BackfillWrite \/ SummaryWrite
  <2>1. rows' = rows
    BY <1>1 DEF Quiet, PutBatchReads, BackfillWrite, SummaryWrite
  <2>. QED BY <2>1
<1>2. CASE PutBatchCommits
  BY <1>2, CommitFacts
<1>3. CASE CanonicalWrite
  BY <1>3, CanonicalWriteFacts
<1>4. CASE PreviewWrite
  BY <1>4, PreviewWriteFacts
<1>5. ASSUME NEW h \in Credentials, NEW p \in Principals, ApplyCredentialPrincipals(h, p)
      PROVE  rows'[r].principal # None
  BY <1>5, ApplyFacts, Absent
<1>. QED BY <1>1, <1>2, <1>3, <1>4, <1>5, PrincipalSteps

\* No copy of a request that PutBatch upserts, and no repair, takes away the
\* principal that a mapping or an earlier copy gave to its row.
THEOREM PrincipalsAreKept == Spec => PrincipalIsKept
<1>1. ProjectionInv /\ [Next]_vars =>
        [\A r \in Requests : Stored(r) /\ rows[r].principal # None => rows'[r].principal # None]_vars
  BY PrincipalStays
<1>. QED BY <1>1, Invariance, PTL DEF Spec, PrincipalIsKept

\* While credentials keep their principals, rows, mappings and the batch do too.
LEMMA OwnedKeeps ==
  ASSUME ProjectionInv, [Next]_vars, NEW Who, Keeps(Who), Owned(Who)
  PROVE  Owned(Who)'
<1> DEFINE Fit(r) == rows'[r] # NoRow => rows'[r].principal \in {None, Who[Cred[r]]}
<1>0. /\ \A h \in Credentials : mapping[h] \in {None, Who[h]}
      /\ writer # NoBatch => \A h \in Credentials : writer.identities[h] \in {None, Who[h]}
      /\ \A r \in Requests : rows[r] # NoRow => rows[r].principal \in {None, Who[Cred[r]]}
  BY DEF Owned, Stored
<1>1. CASE Quiet
  BY <1>0, <1>1 DEF Owned, Stored, Quiet
<1>2. ASSUME NEW r \in Requests, PutBatchReads(r) PROVE Owned(Who)'
  <2>1. rows' = rows /\ mapping' = mapping /\ writer' = [request |-> r, identities |-> mapping]
    BY <1>2 DEF PutBatchReads
  <2>2. writer'.identities = mapping
    BY <2>1
  <2>. QED BY <1>0, <2>1, <2>2 DEF Owned, Stored
<1>3. CASE PutBatchCommits
  <2> DEFINE r == writer.request
             principal == Resolved(r, writer.identities)
  <2>1. writer # NoBatch /\ writer' = NoBatch /\ mapping' = mapping
    BY <1>3 DEF PutBatchCommits
  <2>2. /\ r \in Requests /\ \A q \in Requests : q # r => rows'[q] = rows[q]
        /\ rows'[r].principal = IF principal # None THEN principal
                                ELSE IF Stored(r) THEN rows[r].principal ELSE None
    BY <1>3, CommitFacts
  <2>3. principal \in {None, Who[Cred[r]]}
    <3>1. Cred[r] \in Credentials
      BY <2>2, ProjectionAssumption
    <3>2. Given[r] # None => Given[r] = Who[Cred[r]]
      BY <2>2 DEF Keeps
    <3>. QED BY <3>1, <3>2, <2>1, <1>0 DEF Resolved
  <2> HIDE DEF r, principal
  <2>4. \A q \in Requests : Fit(q)
    BY <2>2, <2>3, <1>0 DEF Stored
  <2>. QED BY <1>0, <2>1, <2>4 DEF Owned, Stored
<1>4. ASSUME NEW h \in Credentials, NEW p \in Principals, <<h, p>> \in Mappings,
             ApplyCredentialPrincipals(h, p)
      PROVE  Owned(Who)'
  <2>1. p = Who[h]
    BY <1>4 DEF Keeps
  <2>2. mapping' = [mapping EXCEPT ![h] = p] /\ writer' = writer /\ mapping \in [Credentials -> Owner]
    BY <1>4 DEF ApplyCredentialPrincipals, ProjectionInv, Typed, TypeOK
  <2>3. \A g \in Credentials : mapping'[g] \in {None, Who[g]}
    BY <1>0, <2>1, <2>2
  <2>4. \A r \in Requests : Fit(r)
    BY <1>0, <1>4, <2>1, ApplyFacts DEF Stored
  <2>. QED BY <1>0, <2>2, <2>3, <2>4 DEF Owned, Stored
<1>5. CASE CanonicalWrite
  <2>1. writer' = writer /\ mapping' = mapping
    BY <1>5 DEF CanonicalWrite
  <2>2. \A r \in Requests : Fit(r)
    BY <1>0, <1>5, CanonicalWriteFacts DEF Stored
  <2>. QED BY <1>0, <2>1, <2>2 DEF Owned, Stored
<1>6. CASE BackfillWrite \/ SummaryWrite
  <2>1. rows' = rows /\ writer' = writer /\ mapping' = mapping
    BY <1>6 DEF BackfillWrite, SummaryWrite
  <2>. QED BY <1>0, <2>1 DEF Owned, Stored
<1>7. CASE PreviewWrite
  <2>1. writer' = writer /\ mapping' = mapping
    BY <1>7 DEF PreviewWrite
  <2>2. \A r \in Requests : Fit(r)
    BY <1>0, <1>7, PreviewWriteFacts DEF Stored
  <2>. QED BY <1>0, <2>1, <2>2 DEF Owned, Stored
<1>. QED BY <1>1, <1>2, <1>3, <1>4, <1>5, <1>6, <1>7, PrincipalSteps

\* A row keeps its session and, while credentials keep their principals, a
\* principal it has: what a summary shows of it stays true of it.
ShowsStill == \A s \in Sessions : \A r \in In(s) :
    rows[r].principal # None => r \in In(s)' /\ rows'[r].principal = rows[r].principal

\* A summary that shows an owned row keeps doing so when its principal stays.
LEMMA ShownCarries ==
  ASSUME Shown, ShowsStill, NEW s \in Sessions, proj'.summaries[s] # NoSummary,
         proj'.summaries[s].principal # None,
         proj.summaries[s] # NoSummary, proj'.summaries[s].principal = proj.summaries[s].principal
  PROVE  \E r \in In(s)' : rows'[r].principal = proj'.summaries[s].principal
<1>1. PICK r \in In(s) : rows[r].principal = proj.summaries[s].principal
  BY DEF Shown
<1>2. r \in In(s)' /\ rows'[r].principal = rows[r].principal
  BY <1>1 DEF ShowsStill
<1>. QED BY <1>1, <1>2

\* The principal that a session shows is that of one of its rows, after any step.
LEMMA ShownKeeps ==
  ASSUME ProjectionInv, [Next]_vars, NEW Who, Keeps(Who), Owned(Who), Shown
  PROVE  Shown'
<1> DEFINE Shows(s) == \E r \in In(s)' : rows'[r].principal = proj'.summaries[s].principal
<1> SUFFICES ASSUME NEW s \in Sessions, proj'.summaries[s] # NoSummary, proj'.summaries[s].principal # None
             PROVE  Shows(s)
  BY DEF Shown
<1>1. CASE Quiet \/ (\E r \in Requests : PutBatchReads(r))
  <2>1. rows' = rows /\ proj' = proj
    BY <1>1 DEF Quiet, PutBatchReads
  <2>. QED BY <2>1 DEF Shown, In, Stored
<1>2. CASE PutBatchCommits
  <2> DEFINE r == writer.request
             principal == Resolved(r, writer.identities)
  <2>1. /\ r \in Requests /\ rows'[r] \in Rows /\ \A q \in Requests : q # r => rows'[q] = rows[q]
        /\ rows'[r].session = IF Stored(r) THEN rows[r].session ELSE SentSession[r]
        /\ rows'[r].principal = IF principal # None THEN principal
                                ELSE IF Stored(r) THEN rows[r].principal ELSE None
    BY <1>2, CommitFacts
  <2>2. /\ Exact(proj', rows') /\ proj'.indexed[r] # None /\ Inherits(proj', proj, r, principal)
    BY <1>2, CommitIndexes
  <2>3. Owned(Who)'
    BY OwnedKeeps
  <2> HIDE DEF r, principal
  <2>4. rows'[r] # NoRow
    BY <2>1, Absent
  <2>5. CASE proj'.indexed[r] = s /\ proj'.summaries[s].principal = principal
    <3>1. rows'[r].session = s
      BY <2>1, <2>2, <2>5 DEF Exact
    <3>2. r \in In(s)'
      BY <2>1, <2>4, <3>1 DEF In, Stored
    <3>. QED BY <2>1, <2>5, <3>2
  <2>6. CASE proj.summaries[s] # NoSummary /\ proj'.summaries[s].principal = proj.summaries[s].principal
    <3>1. ASSUME NEW t \in Sessions, NEW q \in In(t), rows[q].principal # None
          PROVE  q \in In(t)' /\ rows'[q].principal = rows[q].principal
      <4>1. q \in Requests /\ Stored(q) /\ rows[q].session = t
        BY DEF In
      <4>2. CASE q # r
        <5>1. rows'[q] = rows[q]
          BY <2>1, <4>1, <4>2
        <5>. QED BY <4>1, <5>1 DEF In, Stored
      <4>3. CASE q = r
        <5>1. rows[q].principal = Who[Cred[q]]
          BY <3>1, <4>1 DEF Owned
        <5>2. rows'[q].principal \in {None, Who[Cred[q]]}
          BY <2>3, <2>4, <4>1, <4>3 DEF Owned, Stored
        <5>3. rows'[q].principal # None /\ rows'[q].session = t
          BY <2>1, <3>1, <4>1, <4>3
        <5>. QED BY <2>4, <4>1, <4>3, <5>1, <5>2, <5>3 DEF In, Stored
      <4>. QED BY <4>2, <4>3
    <3>2. ShowsStill
      BY <3>1 DEF ShowsStill
    <3>. QED BY <2>6, <3>2, ShownCarries
  <2>. QED BY <2>2, <2>5, <2>6 DEF Inherits
<1>3. ASSUME NEW h \in Credentials, NEW p \in Principals, ApplyCredentialPrincipals(h, p)
      PROVE  Shows(s)
  <2>1. /\ \A r \in Requests : rows'[r] # NoRow <=> Stored(r)
        /\ \A r \in Requests : Stored(r) => rows'[r].session = rows[r].session
        /\ proj.summaries[s] # NoSummary
    BY <1>3, ApplyFacts
  <2>2. \/ \E r \in In(s) : proj'.summaries[s].principal = rows'[r].principal
        \/ /\ proj'.summaries[s].principal = proj.summaries[s].principal
           /\ \A r \in In(s) : rows'[r] = rows[r]
    BY <1>3, <2>1, ApplyFacts
  <2>3. In(s)' = In(s)
    BY <2>1 DEF In, Stored
  <2>4. CASE \E r \in In(s) : proj'.summaries[s].principal = rows'[r].principal
    BY <2>3, <2>4
  <2>5. CASE /\ proj'.summaries[s].principal = proj.summaries[s].principal
             /\ \A r \in In(s) : rows'[r] = rows[r]
    BY <2>1, <2>3, <2>5 DEF Shown
  <2>. QED BY <2>2, <2>4, <2>5
<1>4. CASE CanonicalWrite
  BY <1>4, CanonicalWriteFacts
<1>5. CASE BackfillWrite
  <2>1. rows' = rows
    BY <1>5 DEF BackfillWrite
  <2>2. PICK r \in startup.list : /\ r \in Requests /\ Stored(r) /\ proj'.indexed[r] # None
                                  /\ Inherits(proj', proj, r, rows[r].principal)
    BY <1>5, BackfillWriteFacts
  <2>3. Exact(proj', rows)
    BY <1>5, BackfillWriteFacts
  <2>4. In(s)' = In(s)
    BY <2>1 DEF In, Stored
  <2>5. CASE proj'.indexed[r] = s /\ proj'.summaries[s].principal = rows[r].principal
    <3>1. r \in In(s)
      BY <2>2, <2>3, <2>5 DEF Exact, In
    <3>. QED BY <2>1, <2>4, <2>5, <3>1
  <2>6. CASE proj.summaries[s] # NoSummary /\ proj'.summaries[s].principal = proj.summaries[s].principal
    BY <2>1, <2>4, <2>6 DEF Shown
  <2>. QED BY <2>2, <2>5, <2>6 DEF Inherits
<1>6. CASE SummaryWrite
  <2>1. rows' = rows
    BY <1>6 DEF SummaryWrite
  <2>2. proj.summaries[s] # NoSummary /\ proj'.summaries[s].principal = proj.summaries[s].principal
    BY <1>6, SummaryWriteFacts
  <2>. QED BY <2>1, <2>2 DEF Shown, In, Stored
<1>7. CASE PreviewWrite
  <2>1. proj' = proj
    BY <1>7 DEF PreviewWrite
  <2>2. \A q \in Requests : (Stored(q)' <=> Stored(q))
          /\ (Stored(q) => rows'[q].session = rows[q].session /\ rows'[q].principal = rows[q].principal)
    BY <1>7, PreviewWriteFacts
  <2>3. ShowsStill
    BY <2>2 DEF ShowsStill, In
  <2>. QED BY <2>1, <2>3, ShownCarries
<1>. QED BY <1>1, <1>2, <1>3, <1>4, <1>5, <1>6, <1>7, PrincipalSteps

\* The principals of the rows and summaries are those of one assignment.
OwnedInv == ProjectionInv /\ Shown /\ \E Who : Keeps(Who) /\ Owned(Who)

\* While each credential keeps one principal, the principal that a session shows
\* is that of one of its rows; and the message that session_summaries quotes is
\* always of a request of the session, before and after the repairs move rows.
THEOREM SummariesAreOwn == OnePrincipal /\ Spec => []SummaryFromOwnRows
<1>1. OnePrincipal /\ Init => OwnedInv
  <2> SUFFICES ASSUME OnePrincipal, Init PROVE OwnedInv
    OBVIOUS
  <2>1. ProjectionInv /\ Unowned
    BY InitHolds
  <2>2. PICK Who \in [Credentials -> Principals] : Keeps(Who)
    BY DEF OnePrincipal
  <2>3. Owned(Who)
    BY <2>1 DEF Owned, Init, Unowned
  <2>4. Shown
    BY <2>1 DEF Shown, Unowned
  <2>. QED BY <2>1, <2>2, <2>3, <2>4 DEF OwnedInv
<1>2. OwnedInv /\ [Next]_vars => OwnedInv'
  <2> SUFFICES ASSUME OwnedInv, [Next]_vars PROVE OwnedInv'
    OBVIOUS
  <2>1. ProjectionInv /\ Shown
    BY DEF OwnedInv
  <2>2. ProjectionInv'
    BY <2>1, StepKeeps
  <2>3. PICK Who : Keeps(Who) /\ Owned(Who)
    BY DEF OwnedInv
  <2>4. Owned(Who)' /\ Shown'
    BY <2>1, <2>3, OwnedKeeps, ShownKeeps
  <2>5. Keeps(Who)'
    BY <2>3 DEF Keeps
  <2>. QED BY <2>2, <2>4, <2>5 DEF OwnedInv
<1>3. OwnedInv => SummaryFromOwnRows
  <2> SUFFICES ASSUME OwnedInv PROVE SummaryFromOwnRows
    OBVIOUS
  <2>1. Shown /\ Exact(proj, rows) /\ proj \in Projections
    BY DEF OwnedInv, ProjectionInv, Consistent, Typed, TypeOK
  <2>2. ASSUME NEW s \in Sessions, proj.summaries[s] # NoSummary, proj.summaries[s].summary # 0
        PROVE  proj.summaries[s].summary \in In(s) \cap Text
    <3>1. Quotes(proj, rows, s)
      BY <2>1 DEF Exact
    <3>. QED BY <2>2, <3>1 DEF Quotes, In, Stored, Text
  <2>. QED BY <2>1, <2>2 DEF SummaryFromOwnRows, Shown
<1>. QED BY <1>1, <1>2, <1>3, PTL DEF Spec
=============================================================================
