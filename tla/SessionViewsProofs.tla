------------------------- MODULE SessionViewsProofs -------------------------
(***************************************************************************)
(* Proofs about the views of a session, for every set of commands, readers  *)
(* and bounds, every conversation that began before the archive and every   *)
(* order of arrival: TurnTexts and the modules it is made of.               *)
(***************************************************************************)
EXTENDS TurnTexts, FiniteSetTheorems, SequenceTheorems, WellFoundedInduction, TLAPS

-----------------------------------------------------------------------------
(* Numbers and loops.                                                       *)

\* Every set of naturals has a least element.
LEMMA LeastNumber ==
  ASSUME NEW T, T \subseteq Nat, T # {}
  PROVE  \E x \in T : \A y \in T : x <= y
<1> DEFINE R == {p \in Nat \X Nat : p[1] < p[2]}
<1>1. IsWellFoundedOn(R, Nat)
  BY NatLessThanWellFounded DEF OpToRel
<1> HIDE DEF R
<1>2. PICK x \in T : \A y \in T : ~(<<y, x>> \in R)
  BY <1>1, WFMin, Zenon
<1>3. ASSUME NEW y \in T PROVE x <= y
  <2>1. x \in Nat /\ y \in Nat
    OBVIOUS
  <2>2. ~(<<y, x>> \in R)
    BY <1>2
  <2>. QED BY <2>1, <2>2 DEF R
<1>. QED BY <1>3

\* The least and the greatest member of a set of positions are found.
LEMMA MinOfPositions ==
  ASSUME NEW T, T \subseteq Nat, T # {}
  PROVE  Min(T) \in T /\ \A y \in T : Min(T) <= y
<1>1. \E x \in T : \A y \in T : x <= y
  BY LeastNumber
<1>. QED BY <1>1, Zenon DEF Min

\* A loop that begins in T and stays in T is in T throughout.
LEMMA Loop ==
  ASSUME NEW N \in Nat, NEW T, 0 \in T, \A n \in 1..N : n - 1 \in T => n \in T
  PROVE  \A n \in 0..N : n \in T
<1> DEFINE Out == {n \in 0..N : n \notin T}
<1>1. SUFFICES ASSUME Out # {} PROVE FALSE
  OBVIOUS
<1>2. Out \subseteq Nat
  OBVIOUS
<1>3. PICK m \in Out : \A y \in Out : m <= y
  BY <1>1, <1>2, LeastNumber
<1>4. m \in 1..N /\ m \notin T
  BY <1>3
<1>5. m - 1 \in 0..N /\ ~(m <= m - 1)
  BY <1>4
<1>. QED BY <1>3, <1>4, <1>5

\* The same from the other end, which finds the greatest.
LEMMA MaxOfPositions ==
  ASSUME NEW N \in Nat, NEW T, T \subseteq 0..N, T # {}
  PROVE  Max(T) \in T /\ \A y \in T : y <= Max(T)
<1> DEFINE U == {N - t : t \in T}
<1>1. U \subseteq Nat /\ U # {}
  <2>1. \A t \in T : t \in 0..N
    OBVIOUS
  <2>2. \A t \in T : N - t \in Nat
    BY <2>1
  <2>. QED BY <2>2, Zenon
<1> HIDE DEF U
<1>2. PICK u \in U : \A v \in U : u <= v
  BY <1>1, LeastNumber
<1>3. PICK x \in T : u = N - x
  BY <1>2 DEF U
<1>4. ASSUME NEW y \in T PROVE x >= y
  <2>1. N - y \in U
    BY Zenon DEF U
  <2>2. N - x <= N - y
    BY <2>1, <1>2, <1>3
  <2>3. x \in 0..N /\ y \in 0..N
    OBVIOUS
  <2>. QED BY <2>2, <2>3
<1>5. \E z \in T : \A y \in T : z >= y
  BY <1>4
<1>6. Max(T) \in T /\ \A y \in T : Max(T) >= y
  BY <1>5, Zenon DEF Max
<1>7. Max(T) \in 0..N /\ \A y \in T : y \in 0..N
  BY <1>6
<1>. QED BY <1>6, <1>7

\* f is the recursive function that starts with v and steps with F.
StepOf(F, N, V) == F \in [1..N -> [V -> V]]
Runs(f, F, N, V, v) ==
    f \in [0..N -> V] /\ f[0] = v /\ \A n \in 1..N : f[n] = F[n][f[n - 1]]

\* A recursive function of a loop counter exists, whatever its step F does.
LEMMA LoopSolved ==
  ASSUME NEW N \in Nat, NEW V, NEW v \in V, NEW F, StepOf(F, N, V)
  PROVE  \E f : Runs(f, F, N, V, v)
<1> USE DEF StepOf, Runs
<1> DEFINE Upto(f, m) == /\ f \in [0..m -> V] /\ f[0] = v
                         /\ \A n \in 1..m : f[n] = F[n][f[n - 1]]
           T == {m \in 0..N : \E f : Upto(f, m)}
<1>1. 0 \in T
  <2> DEFINE f == [k \in 0..0 |-> v]
  <2>1. Upto(f, 0)
    OBVIOUS
  <2>2. 0 \in 0..N
    OBVIOUS
  <2> HIDE DEF f
  <2>. QED BY <2>1, <2>2, Zenon
<1>2. ASSUME NEW m \in 1..N, m - 1 \in T PROVE m \in T
  <2>1. PICK f : Upto(f, m - 1)
    BY <1>2
  <2> DEFINE g == [k \in 0..m |-> IF k = m THEN F[m][f[m - 1]] ELSE f[k]]
  <2>2. m \in Nat /\ m > 0 /\ m - 1 \in 0..(m - 1) /\ 0 # m /\ 0 \in 0..m /\ m - 1 # m
    OBVIOUS
  <2>3. f[m - 1] \in V /\ F[m][f[m - 1]] \in V
    BY <2>1, <2>2
  <2>4. \A k \in 0..m : k # m => k \in 0..(m - 1)
    BY <2>2
  <2>5. g \in [0..m -> V]
    BY <2>1, <2>3, <2>4
  <2>6. g[0] = v
    BY <2>1, <2>2
  <2>7. ASSUME NEW n \in 1..m PROVE g[n] = F[n][g[n - 1]]
    <3>1. n \in 0..m /\ n - 1 \in 0..m /\ n - 1 # m
      BY <2>2
    <3>2. g[n - 1] = f[n - 1]
      BY <3>1
    <3>3. CASE n = m
      BY <3>1, <3>2, <3>3
    <3>4. CASE n # m
      <4>1. n \in 1..(m - 1)
        BY <3>4, <2>2
      <4>2. f[n] = F[n][f[n - 1]] /\ g[n] = f[n]
        BY <4>1, <3>1, <3>4, <2>1
      <4>. QED BY <4>2, <3>2
    <3>. QED BY <3>3, <3>4
  <2> HIDE DEF g
  <2>. QED BY <2>5, <2>6, <2>7
<1> HIDE DEF T
<1>3. \A n \in 0..N : n \in T
  BY <1>1, <1>2, Loop
<1>4. N \in T
  BY <1>3
<1>. QED BY <1>4 DEF T

-----------------------------------------------------------------------------
(* Sequences.                                                               *)

\* A function on the first n numbers is a sequence.
LEMMA FunctionIsSeq ==
  ASSUME NEW n \in Nat, NEW V, NEW f \in [1..n -> V]
  PROVE  f \in Seq(V) /\ Len(f) = n
OBVIOUS

\* The members of a sequence with one more element, and of two in a row.
LEMMA MembersOfAppend ==
  ASSUME NEW V, NEW s \in Seq(V), NEW x \in V
  PROVE  /\ Append(s, x) \in Seq(V) /\ Len(Append(s, x)) = Len(s) + 1
         /\ ToSet(Append(s, x)) = ToSet(s) \cup {x}
         /\ \A i \in 1..Len(s) : Append(s, x)[i] = s[i]
         /\ Append(s, x)[Len(s) + 1] = x
<1>1. /\ Append(s, x) \in Seq(V) /\ Len(Append(s, x)) = Len(s) + 1
      /\ \A i \in 1..Len(s) : Append(s, x)[i] = s[i]
      /\ Append(s, x)[Len(s) + 1] = x
  BY AppendProperties
<1>2. DOMAIN s = 1..Len(s) /\ DOMAIN Append(s, x) = 1..(Len(s) + 1) /\ Len(s) \in Nat
  BY <1>1
<1>3. ASSUME NEW y \in ToSet(Append(s, x)) PROVE y \in ToSet(s) \cup {x}
  <2>1. PICK i \in 1..(Len(s) + 1) : y = Append(s, x)[i]
    BY <1>2 DEF ToSet
  <2>2. CASE i = Len(s) + 1
    BY <1>1, <2>1, <2>2
  <2>3. CASE i \in 1..Len(s)
    BY <1>1, <1>2, <2>1, <2>3 DEF ToSet
  <2>. QED BY <1>2, <2>2, <2>3
<1>4. ASSUME NEW y \in ToSet(s) PROVE y \in ToSet(Append(s, x))
  <2>1. PICK i \in 1..Len(s) : y = s[i]
    BY <1>2 DEF ToSet
  <2>2. i \in 1..(Len(s) + 1) /\ Append(s, x)[i] = y
    BY <1>1, <1>2, <2>1
  <2>. QED BY <1>2, <2>2 DEF ToSet
<1>5. x \in ToSet(Append(s, x))
  <2>1. Len(s) + 1 \in 1..(Len(s) + 1)
    BY <1>2
  <2>. QED BY <1>1, <1>2, <2>1 DEF ToSet
<1>6. ToSet(Append(s, x)) = ToSet(s) \cup {x}
  BY <1>3, <1>4, <1>5
<1>. QED BY <1>1, <1>6

\* Two sequences of the same elements.
Two(s, t, V) == s \in Seq(V) /\ t \in Seq(V)

\* Concatenation, element by element.
LEMMA Joins ==
  ASSUME NEW V, NEW s, NEW t, Two(s, t, V)
  PROVE  /\ s \o t \in Seq(V) /\ Len(s \o t) = Len(s) + Len(t)
         /\ Len(s) \in Nat /\ Len(t) \in Nat
         /\ DOMAIN s = 1..Len(s) /\ DOMAIN t = 1..Len(t)
         /\ DOMAIN (s \o t) = 1..(Len(s) + Len(t))
         /\ \A i \in 1..Len(s) : (s \o t)[i] = s[i]
         /\ \A i \in 1..Len(t) : (s \o t)[Len(s) + i] = t[i]
         /\ \A i \in 1..(Len(s) + Len(t)) :
               i \in 1..Len(s) \/ (i - Len(s) \in 1..Len(t) /\ (s \o t)[i] = t[i - Len(s)])
<1> USE DEF Two
<1>1. Len(s) \in Nat /\ Len(t) \in Nat /\ DOMAIN s = 1..Len(s) /\ DOMAIN t = 1..Len(t)
  OBVIOUS
<1>2. /\ s \o t \in Seq(V) /\ Len(s \o t) = Len(s) + Len(t)
      /\ \A i \in 1..(Len(s) + Len(t)) : (s \o t)[i] = IF i <= Len(s) THEN s[i] ELSE t[i - Len(s)]
  BY ConcatProperties
<1>3. \A i \in 1..Len(s) : (s \o t)[i] = s[i]
  <2>1. \A i \in 1..Len(s) : i \in 1..(Len(s) + Len(t)) /\ i <= Len(s)
    BY <1>1
  <2>. QED BY <1>2, <2>1
<1>4. ASSUME NEW i \in 1..(Len(s) + Len(t)), i \notin 1..Len(s)
      PROVE  i - Len(s) \in 1..Len(t) /\ (s \o t)[i] = t[i - Len(s)]
  <2>1. i - Len(s) \in 1..Len(t) /\ ~(i <= Len(s))
    BY <1>1, <1>4
  <2>. QED BY <1>2, <2>1
<1>5. ASSUME NEW i \in 1..Len(t) PROVE (s \o t)[Len(s) + i] = t[i]
  <2>1. Len(s) + i \in 1..(Len(s) + Len(t)) /\ Len(s) + i \notin 1..Len(s) /\ (Len(s) + i) - Len(s) = i
    BY <1>1
  <2>. QED BY <1>4, <2>1
<1>6. DOMAIN (s \o t) = 1..(Len(s) + Len(t))
  BY <1>2
<1>. QED BY <1>1, <1>2, <1>3, <1>4, <1>5, <1>6

\* The members of two sequences in a row.
LEMMA MembersOfConcat ==
  ASSUME NEW V, NEW s \in Seq(V), NEW t \in Seq(V)
  PROVE  ToSet(s \o t) = ToSet(s) \cup ToSet(t)
<1>0. /\ Len(s) \in Nat /\ Len(t) \in Nat
      /\ DOMAIN s = 1..Len(s) /\ DOMAIN t = 1..Len(t)
      /\ DOMAIN (s \o t) = 1..(Len(s) + Len(t))
      /\ \A i \in 1..Len(s) : (s \o t)[i] = s[i]
      /\ \A i \in 1..Len(t) : (s \o t)[Len(s) + i] = t[i]
      /\ \A i \in 1..(Len(s) + Len(t)) :
            i \in 1..Len(s) \/ (i - Len(s) \in 1..Len(t) /\ (s \o t)[i] = t[i - Len(s)])
  BY Joins DEF Two
<1>1. ASSUME NEW y \in ToSet(s \o t) PROVE y \in ToSet(s) \cup ToSet(t)
  <2>1. PICK i \in 1..(Len(s) + Len(t)) : y = (s \o t)[i]
    BY <1>0 DEF ToSet
  <2>2. CASE i \in 1..Len(s)
    BY <1>0, <2>1, <2>2 DEF ToSet
  <2>3. CASE i \notin 1..Len(s)
    BY <1>0, <2>1, <2>3 DEF ToSet
  <2>. QED BY <2>2, <2>3
<1>2. ASSUME NEW y \in ToSet(s) PROVE y \in ToSet(s \o t)
  <2>1. PICK i \in 1..Len(s) : y = s[i]
    BY <1>0 DEF ToSet
  <2>2. i \in 1..(Len(s) + Len(t)) /\ (s \o t)[i] = y
    BY <1>0, <2>1
  <2>. QED BY <1>0, <2>2 DEF ToSet
<1>3. ASSUME NEW y \in ToSet(t) PROVE y \in ToSet(s \o t)
  <2>1. PICK i \in 1..Len(t) : y = t[i]
    BY <1>0 DEF ToSet
  <2>2. Len(s) + i \in 1..(Len(s) + Len(t)) /\ (s \o t)[Len(s) + i] = y
    BY <1>0, <2>1
  <2>. QED BY <1>0, <2>2 DEF ToSet
<1>. QED BY <1>1, <1>2, <1>3

\* A part of a sequence, element by element.
LEMMA Part ==
  ASSUME NEW V, NEW s \in Seq(V), NEW m \in 1..(Len(s) + 1), NEW n \in (m - 1)..Len(s)
  PROVE  /\ SubSeq(s, m, n) \in Seq(V) /\ Len(SubSeq(s, m, n)) = n - m + 1
         /\ DOMAIN SubSeq(s, m, n) = 1..(n - m + 1)
         /\ \A i \in 1..(n - m + 1) : SubSeq(s, m, n)[i] = s[m + i - 1]
<1>0. Len(s) \in Nat /\ m \in Nat /\ n \in Nat /\ m \in Int /\ n \in Int
  OBVIOUS
<1>1. \A i \in m..n : s[i] \in V
  <2>1. \A i \in m..n : i \in 1..Len(s)
    BY <1>0
  <2>. QED BY <2>1, ElementOfSeq
<1>2. /\ SubSeq(s, m, n) \in Seq(V)
      /\ Len(SubSeq(s, m, n)) = IF m <= n THEN n - m + 1 ELSE 0
      /\ \A i \in 1..(n - m + 1) : SubSeq(s, m, n)[i] = s[m + i - 1]
  BY <1>0, <1>1, SubSeqProperties
<1>3. Len(SubSeq(s, m, n)) = n - m + 1
  BY <1>0, <1>2
<1>. QED BY <1>2, <1>3

\* Concatenation under a name that the provers leave alone.
Then(s, t) == s \o t
Fit(s, t, x, V) == s \in Seq(V) /\ t \in Seq(V) /\ x \in V

\* An element is appended to the second of two sequences.
LEMMA ThenAppend ==
  ASSUME NEW V, NEW s, NEW t, NEW x, Fit(s, t, x, V)
  PROVE  Append(Then(s, t), x) = Then(s, Append(t, x))
<1> DEFINE u == <<x>>
<1>0. s \in Seq(V) /\ t \in Seq(V) /\ x \in V
  BY DEF Fit
<1>1. u \in Seq(V) /\ s \o t \in Seq(V)
  BY <1>0, ConcatProperties
<1>2. Append(s \o t, x) = (s \o t) \o u /\ Append(t, x) = t \o u
  BY <1>0, <1>1, AppendIsConcat
<1> HIDE DEF u
<1>3. (s \o t) \o u = s \o (t \o u)
  BY <1>0, <1>1, ConcatAssociative
<1>. QED BY <1>2, <1>3 DEF Then

\* A sequence cut in two has the members of its parts.
LEMMA CutInTwo ==
  ASSUME NEW V, NEW s \in Seq(V), NEW c \in 0..Len(s)
  PROVE  /\ SubSeq(s, 1, c) \in Seq(V) /\ Len(SubSeq(s, 1, c)) = c
         /\ SubSeq(s, c + 1, Len(s)) \in Seq(V) /\ Len(SubSeq(s, c + 1, Len(s))) = Len(s) - c
         /\ \A i \in 1..c : SubSeq(s, 1, c)[i] = s[i]
         /\ \A i \in 1..(Len(s) - c) : SubSeq(s, c + 1, Len(s))[i] = s[c + i]
         /\ ToSet(s) = ToSet(SubSeq(s, 1, c)) \cup ToSet(SubSeq(s, c + 1, Len(s)))
<1> DEFINE a == SubSeq(s, 1, c)
           b == SubSeq(s, c + 1, Len(s))
           L == Len(s)
<1>1. L \in Nat /\ c \in Nat /\ c <= L /\ DOMAIN s = 1..L
  OBVIOUS
<1>2. a \in Seq(V) /\ Len(a) = c /\ DOMAIN a = 1..c /\ \A i \in 1..c : a[i] = s[i]
  <2>1. 1 \in 1..(L + 1) /\ c \in (1 - 1)..L /\ c - 1 + 1 = c /\ \A i \in 1..c : 1 + i - 1 = i
    BY <1>1
  <2>2. a \in Seq(V) /\ Len(a) = c - 1 + 1 /\ DOMAIN a = 1..(c - 1 + 1)
        /\ \A i \in 1..(c - 1 + 1) : a[i] = s[1 + i - 1]
    BY <2>1, Part
  <2> HIDE DEF a
  <2>. QED BY <2>1, <2>2
<1>3. b \in Seq(V) /\ Len(b) = L - c /\ DOMAIN b = 1..(L - c) /\ \A i \in 1..(L - c) : b[i] = s[c + i]
  <2> DEFINE m == c + 1
  <2>1. m \in 1..(L + 1) /\ L \in (m - 1)..L /\ L - m + 1 = L - c
        /\ \A i \in 1..(L - c) : m + i - 1 = c + i
    BY <1>1
  <2>2. b = SubSeq(s, m, L)
    OBVIOUS
  <2> HIDE DEF b, m
  <2>3. b \in Seq(V) /\ Len(b) = L - m + 1 /\ DOMAIN b = 1..(L - m + 1)
        /\ \A i \in 1..(L - m + 1) : b[i] = s[m + i - 1]
    BY <2>1, <2>2, Part
  <2>. QED BY <2>1, <2>3
<1> HIDE DEF a, b, L
<1>4. \A i \in 1..L : i \in 1..c \/ (i - c \in 1..(L - c) /\ c + (i - c) = i)
  BY <1>1
<1>5. (\A i \in 1..c : i \in 1..L) /\ \A i \in 1..(L - c) : c + i \in 1..L
  BY <1>1
<1>6. ToSet(s) = ToSet(a) \cup ToSet(b)
  <2>1. ASSUME NEW y \in ToSet(s) PROVE y \in ToSet(a) \cup ToSet(b)
    <3>1. PICK i \in 1..L : y = s[i]
      BY <1>1 DEF ToSet
    <3>2. CASE i \in 1..c
      BY <1>2, <3>1, <3>2 DEF ToSet
    <3>3. CASE i - c \in 1..(L - c) /\ c + (i - c) = i
      <4>1. b[i - c] = y
        BY <1>3, <3>1, <3>3
      <4>. QED BY <1>3, <3>3, <4>1 DEF ToSet
    <3>. QED BY <1>4, <3>2, <3>3
  <2>2. ASSUME NEW y \in ToSet(a) \cup ToSet(b) PROVE y \in ToSet(s)
    <3>1. CASE y \in ToSet(a)
      BY <1>1, <1>2, <1>5, <3>1 DEF ToSet
    <3>2. CASE y \in ToSet(b)
      BY <1>1, <1>3, <1>5, <3>2 DEF ToSet
    <3>. QED BY <3>1, <3>2
  <2>. QED BY <2>1, <2>2
<1>. QED BY <1>2, <1>3, <1>6 DEF a, b, L

-----------------------------------------------------------------------------
(* What Picked returns.                                                     *)

\* f holds what Picked has after each position.
Picks(f, seq, S, V) ==
    /\ f \in [0..Len(seq) -> Seq(V)] /\ f[0] = <<>>
    /\ \A n \in 1..Len(seq) : f[n] = IF n \in S THEN Append(f[n - 1], seq[n]) ELSE f[n - 1]

\* Picked is such a loop.
LEMMA PickedLoop ==
  ASSUME NEW V, NEW seq \in Seq(V), NEW S
  PROVE  \E f : Picks(f, seq, S, V) /\ Picked(seq, S) = f[Len(seq)]
<1> DEFINE N == Len(seq)
           Sol(f) == f = [n \in 0..N |-> IF n = 0 THEN <<>>
                             ELSE IF n \in S THEN Append(f[n - 1], seq[n]) ELSE f[n - 1]]
           out == CHOOSE f : Sol(f)
<1>1. N \in Nat /\ \A n \in 1..N : seq[n] \in V
  OBVIOUS
<1>2. Picked(seq, S) = out[N]
  BY Zenon DEF Picked
<1> HIDE DEF N
<1>3. PICK f : Picks(f, seq, S, V)
  <2> DEFINE F == [n \in 1..N |-> [s \in Seq(V) |-> IF n \in S THEN Append(s, seq[n]) ELSE s]]
  <2>1. \A n \in 1..N : \A s \in Seq(V) : (IF n \in S THEN Append(s, seq[n]) ELSE s) \in Seq(V)
    BY <1>1
  <2>2. StepOf(F, N, Seq(V))
    BY <2>1 DEF StepOf
  <2>3. \A n \in 1..N : \A s \in Seq(V) : F[n][s] = IF n \in S THEN Append(s, seq[n]) ELSE s
    OBVIOUS
  <2> HIDE DEF F
  <2>4. <<>> \in Seq(V)
    OBVIOUS
  <2>5. PICK f : Runs(f, F, N, Seq(V), <<>>)
    BY <1>1, <2>2, <2>4, LoopSolved
  <2>6. /\ f \in [0..N -> Seq(V)] /\ f[0] = <<>>
        /\ \A n \in 1..N : f[n] = F[n][f[n - 1]]
    BY <2>5 DEF Runs
  <2>7. \A n \in 1..N : f[n - 1] \in Seq(V)
    <3>1. \A n \in 1..N : n - 1 \in 0..N
      BY <1>1
    <3>. QED BY <2>6, <3>1
  <2>8. \A n \in 1..N : f[n] = IF n \in S THEN Append(f[n - 1], seq[n]) ELSE f[n - 1]
    BY <2>3, <2>6, <2>7
  <2>. QED BY <2>6, <2>8 DEF Picks, N
<1>4. f \in [0..N -> Seq(V)] /\ f[0] = <<>>
      /\ \A n \in 1..N : f[n] = IF n \in S THEN Append(f[n - 1], seq[n]) ELSE f[n - 1]
  BY <1>3 DEF Picks, N
<1>5. Sol(f)
  <2>1. f = [n \in 0..N |-> f[n]]
    BY <1>4
  <2>2. ASSUME NEW n \in 0..N
        PROVE  f[n] = IF n = 0 THEN <<>> ELSE IF n \in S THEN Append(f[n - 1], seq[n]) ELSE f[n - 1]
    <3>1. n = 0 \/ n \in 1..N
      BY <1>1
    <3>. QED BY <3>1, <1>4
  <2>. QED BY <2>1, <2>2, Zenon
<1>6. Sol(out)
  BY <1>5
<1> HIDE DEF out
<1>7. out[0] = <<>> /\ \A n \in 1..N : out[n] = IF n \in S THEN Append(out[n - 1], seq[n]) ELSE out[n - 1]
  <2>1. 0 \in 0..N /\ \A n \in 1..N : n \in 0..N /\ n # 0
    BY <1>1
  <2>. QED BY <1>6, <2>1
<1> DEFINE T == {n \in 0..N : out[n] = f[n]}
<1>8. 0 \in T
  BY <1>1, <1>4, <1>7
<1>9. ASSUME NEW n \in 1..N, n - 1 \in T PROVE n \in T
  <2>1. n \in 0..N
    BY <1>1
  <2>. QED BY <1>4, <1>7, <1>9, <2>1
<1> HIDE DEF T
<1>10. \A n \in 0..N : n \in T
  BY <1>1, <1>8, <1>9, Loop
<1>11. out[N] = f[N]
  BY <1>1, <1>10 DEF T
<1>. QED BY <1>2, <1>3, <1>11 DEF N

\* s consists of the elements of seq at the positions of S up to n, in order.
Located(s, at, seq, S, n) ==
    /\ at \in [1..Len(s) -> S \cap (1..n)]
    /\ \A k \in 1..Len(s) : s[k] = seq[at[k]]
    /\ \A j, k \in 1..Len(s) : j < k => at[j] < at[k]
    /\ \A i \in S \cap (1..n) : \E k \in 1..Len(s) : at[k] = i

\* The positions at which Picked found its elements: all of S, in order.
LEMMA PickedFrom ==
  ASSUME NEW V, NEW seq \in Seq(V), NEW S
  PROVE  /\ Picked(seq, S) \in Seq(V)
         /\ \E at : Located(Picked(seq, S), at, seq, S, Len(seq))
<1> DEFINE N == Len(seq)
<1>1. N \in Nat /\ \A n \in 1..N : seq[n] \in V
  OBVIOUS
<1>2. PICK f : Picks(f, seq, S, V) /\ Picked(seq, S) = f[N]
  BY PickedLoop
<1> HIDE DEF N
<1>3. f \in [0..N -> Seq(V)] /\ f[0] = <<>>
      /\ \A n \in 1..N : f[n] = IF n \in S THEN Append(f[n - 1], seq[n]) ELSE f[n - 1]
  BY <1>2 DEF Picks, N
<1> DEFINE T == {n \in 0..N : \E at : Located(f[n], at, seq, S, n)}
<1>4. 0 \in T
  <2> DEFINE at == [k \in 1..0 |-> 0]
  <2>1. Located(<<>>, at, seq, S, 0)
    BY DEF Located
  <2> HIDE DEF at
  <2>2. 0 \in 0..N
    BY <1>1
  <2>. QED BY <1>3, <2>1, <2>2
<1>5. ASSUME NEW n \in 1..N, n - 1 \in T PROVE n \in T
  <2>1. n - 1 \in 0..N /\ n \in 0..N /\ n \in Nat
    BY <1>1
  <2> DEFINE s == f[n - 1]
             L == Len(s)
  <2>2. s \in Seq(V)
    BY <1>3, <2>1
  <2>3. L \in Nat
    BY <2>2
  <2>4. PICK at : Located(s, at, seq, S, n - 1)
    BY <1>5
  <2>a. f[n] = IF n \in S THEN Append(s, seq[n]) ELSE s
    BY <1>3
  <2> HIDE DEF s, L
  <2>5. CASE n \notin S
    <3>1. f[n] = s
      BY <2>a, <2>5
    <3>2. S \cap (1..n) = S \cap (1..(n - 1))
      BY <2>1, <2>5
    <3>3. Located(f[n], at, seq, S, n)
      BY <2>4, <3>1, <3>2 DEF Located
    <3>. QED BY <2>1, <3>3
  <2>6. CASE n \in S
    <3> DEFINE u == Append(s, seq[n])
               bt == [k \in 1..(L + 1) |-> IF k = L + 1 THEN n ELSE at[k]]
    <3>1. f[n] = u
      BY <2>a, <2>6
    <3>2. Len(u) = L + 1 /\ (\A i \in 1..L : u[i] = s[i]) /\ u[L + 1] = seq[n]
      BY <1>1, <2>2, MembersOfAppend DEF L
    <3>3. at \in [1..L -> S \cap (1..(n - 1))]
          /\ (\A k \in 1..L : s[k] = seq[at[k]])
          /\ (\A j, k \in 1..L : j < k => at[j] < at[k])
          /\ (\A i \in S \cap (1..(n - 1)) : \E k \in 1..L : at[k] = i)
      BY <2>4 DEF Located, L
    <3>4. \A k \in 1..(L + 1) : (k = L + 1 /\ bt[k] = n) \/ (k \in 1..L /\ k # L + 1 /\ bt[k] = at[k])
      BY <2>3
    <3>5. \A k \in 1..L : k \in 1..(L + 1) /\ bt[k] = at[k] /\ at[k] \in S \cap (1..(n - 1))
      <4>1. \A k \in 1..L : k \in 1..(L + 1) /\ k # L + 1
        BY <2>3
      <4>. QED BY <3>3, <4>1
    <3>6. L + 1 \in 1..(L + 1) /\ bt[L + 1] = n
      BY <2>3
    <3>7. n \in S \cap (1..n) /\ \A i \in S \cap (1..(n - 1)) : i \in S \cap (1..n) /\ i < n
      BY <2>1, <2>6
    <3>8. bt \in [1..(L + 1) -> S \cap (1..n)]
      <4>1. \A k \in 1..(L + 1) : bt[k] \in S \cap (1..n)
        BY <3>4, <3>5, <3>7
      <4>. QED BY <4>1
    <3> HIDE DEF bt
    <3>9. \A k \in 1..(L + 1) : u[k] = seq[bt[k]]
      BY <3>2, <3>3, <3>4
    <3>10. ASSUME NEW j \in 1..(L + 1), NEW k \in 1..(L + 1), j < k PROVE bt[j] < bt[k]
      <4>1. j \in 1..L
        BY <2>3, <3>10
      <4>2. CASE k = L + 1
        BY <3>5, <3>6, <3>7, <4>1, <4>2
      <4>3. CASE k \in 1..L
        BY <3>3, <3>5, <3>10, <4>1, <4>3
      <4>. QED BY <3>4, <4>2, <4>3
    <3>11. ASSUME NEW i \in S \cap (1..n) PROVE \E k \in 1..(L + 1) : bt[k] = i
      <4>1. i = n \/ i \in S \cap (1..(n - 1))
        BY <2>1
      <4>. QED BY <3>3, <3>5, <3>6, <4>1
    <3>12. Located(u, bt, seq, S, n)
      BY <3>2, <3>8, <3>9, <3>10, <3>11 DEF Located
    <3>. QED BY <2>1, <3>1, <3>12
  <2>. QED BY <2>5, <2>6
<1> HIDE DEF T
<1>6. \A n \in 0..N : n \in T
  BY <1>1, <1>4, <1>5, Loop
<1>7. \E at : Located(f[N], at, seq, S, N)
  BY <1>1, <1>6 DEF T
<1>8. f[N] \in Seq(V)
  BY <1>1, <1>3
<1>. QED BY <1>2, <1>7, <1>8 DEF N

\* The members of what was picked.
LEMMA PickedMembers ==
  ASSUME NEW V, NEW seq \in Seq(V), NEW S
  PROVE  ToSet(Picked(seq, S)) = {seq[i] : i \in S \cap (1..Len(seq))}
<1> DEFINE p == Picked(seq, S)
<1>1. p \in Seq(V)
  BY PickedFrom
<1>2. PICK at : Located(p, at, seq, S, Len(seq))
  BY PickedFrom
<1> HIDE DEF p
<1>3. DOMAIN p = 1..Len(p)
  BY <1>1
<1>4. ToSet(p) = {seq[i] : i \in S \cap (1..Len(seq))}
  BY <1>2, <1>3 DEF ToSet, Located
<1>. QED BY <1>4 DEF p

\* Of m and n positions in a row, S are the A of the first and the B of the second.
Splits(S, A, B, m, n) ==
    (\A i \in 1..m : i \in S <=> i \in A) /\ \A i \in 1..n : m + i \in S <=> i \in B

\* Picking from two sequences in a row.
LEMMA PickedConcat ==
  ASSUME NEW V, NEW s \in Seq(V), NEW t \in Seq(V), NEW S, NEW A, NEW B,
         Splits(S, A, B, Len(s), Len(t))
  PROVE  Picked(s \o t, S) = Picked(s, A) \o Picked(t, B)
<1> DEFINE M == Len(s)
           N == Len(t)
<1>0. /\ s \o t \in Seq(V) /\ Len(s \o t) = M + N /\ M \in Nat /\ N \in Nat
      /\ \A i \in 1..M : (s \o t)[i] = s[i] /\ s[i] \in V
      /\ \A i \in 1..N : (s \o t)[M + i] = t[i] /\ t[i] \in V
  <2>1. Two(s, t, V)
    BY DEF Two
  <2>. QED BY <2>1, Joins, ElementOfSeq
<1>1. PICK f : Picks(f, s \o t, S, V) /\ Picked(s \o t, S) = f[M + N]
  <2>1. PICK f : Picks(f, s \o t, S, V) /\ Picked(s \o t, S) = f[Len(s \o t)]
    BY <1>0, PickedLoop
  <2>. QED BY <1>0, <2>1
<1>2. PICK g : Picks(g, s, A, V) /\ Picked(s, A) = g[M]
  BY PickedLoop
<1>3. PICK h : Picks(h, t, B, V) /\ Picked(t, B) = h[N]
  BY PickedLoop
<1>4. f \in [0..(M + N) -> Seq(V)] /\ f[0] = <<>>
      /\ \A n \in 1..(M + N) : f[n] = IF n \in S THEN Append(f[n - 1], (s \o t)[n]) ELSE f[n - 1]
  BY <1>0, <1>1 DEF Picks
<1>5. g \in [0..M -> Seq(V)] /\ g[0] = <<>>
      /\ \A n \in 1..M : g[n] = IF n \in A THEN Append(g[n - 1], s[n]) ELSE g[n - 1]
  BY <1>2 DEF Picks
<1>6. h \in [0..N -> Seq(V)] /\ h[0] = <<>>
      /\ \A n \in 1..N : h[n] = IF n \in B THEN Append(h[n - 1], t[n]) ELSE h[n - 1]
  BY <1>3 DEF Picks
<1>a. \A i \in 1..M : i \in S <=> i \in A
  BY DEF Splits
<1>b. \A i \in 1..N : M + i \in S <=> i \in B
  BY DEF Splits
<1> HIDE DEF M, N
<1> DEFINE T == {n \in 0..M : f[n] = g[n]}
<1>7. 0 \in T
  BY <1>0, <1>4, <1>5
<1>8. ASSUME NEW n \in 1..M, n - 1 \in T PROVE n \in T
  <2>1. n \in 0..M /\ n \in 1..(M + N) /\ f[n - 1] = g[n - 1]
    BY <1>0, <1>8
  <2>2. (s \o t)[n] = s[n] /\ (n \in S <=> n \in A)
    BY <1>0, <1>a
  <2>3. f[n] = IF n \in S THEN Append(f[n - 1], (s \o t)[n]) ELSE f[n - 1]
    BY <1>4, <2>1
  <2>4. g[n] = IF n \in A THEN Append(g[n - 1], s[n]) ELSE g[n - 1]
    BY <1>5
  <2>5. f[n] = g[n]
    BY <2>1, <2>2, <2>3, <2>4
  <2>. QED BY <2>1, <2>5
<1> HIDE DEF T
<1>9. \A n \in 0..M : n \in T
  BY <1>0, <1>7, <1>8, Loop
<1>10. f[M] = g[M] /\ g[M] \in Seq(V)
  BY <1>0, <1>5, <1>9 DEF T
<1> DEFINE U == {n \in 0..N : f[M + n] = Then(g[M], h[n])}
<1>11. 0 \in U
  <2>1. g[M] \o <<>> = g[M]
    BY <1>10, ConcatEmptySeq
  <2>2. M + 0 = M /\ 0 \in 0..N
    BY <1>0
  <2>3. f[M + 0] = Then(g[M], h[0])
    BY <1>6, <1>10, <2>1, <2>2 DEF Then
  <2>. QED BY <2>2, <2>3
<1>12. ASSUME NEW n \in 1..N, n - 1 \in U PROVE n \in U
  <2>1. n \in 0..N /\ n - 1 \in 0..N /\ M + n \in 1..(M + N) /\ (M + n) - 1 = M + (n - 1)
    BY <1>0
  <2> DEFINE a == g[M]
             b == h[n - 1]
  <2>2. a \in Seq(V) /\ b \in Seq(V) /\ t[n] \in V
    BY <1>0, <1>6, <1>10, <2>1
  <2>3. f[M + (n - 1)] = Then(a, b)
    BY <1>12
  <2>4. (s \o t)[M + n] = t[n] /\ (M + n \in S <=> n \in B)
    BY <1>0, <1>b
  <2>5. f[M + n] = IF M + n \in S THEN Append(f[M + (n - 1)], (s \o t)[M + n]) ELSE f[M + (n - 1)]
    BY <1>4, <2>1
  <2>6. h[n] = IF n \in B THEN Append(b, t[n]) ELSE b
    BY <1>6
  <2> HIDE DEF a, b
  <2>7. Append(Then(a, b), t[n]) = Then(a, Append(b, t[n]))
    <3>1. Fit(a, b, t[n], V)
      BY <2>2 DEF Fit
    <3>. QED BY <3>1, ThenAppend
  <2>8. f[M + n] = Then(g[M], h[n])
    BY <2>3, <2>4, <2>5, <2>6, <2>7 DEF a
  <2>. QED BY <2>1, <2>8
<1> HIDE DEF U
<1>13. \A n \in 0..N : n \in U
  BY <1>0, <1>11, <1>12, Loop
<1>14. f[M + N] = Then(g[M], h[N])
  <2>1. N \in U
    BY <1>0, <1>13
  <2>. QED BY <2>1 DEF U
<1>. QED BY <1>1, <1>2, <1>3, <1>14 DEF Then

\* All positions give the sequence, and none gives nothing.
LEMMA PickedAll ==
  ASSUME NEW V, NEW seq \in Seq(V), NEW S, 1..Len(seq) \subseteq S
  PROVE  Picked(seq, S) = seq
<1> DEFINE N == Len(seq)
<1>0. N \in Nat /\ (\A n \in 1..N : seq[n] \in V) /\ \A n \in 1..N : n \in S
  OBVIOUS
<1>1. PICK f : Picks(f, seq, S, V) /\ Picked(seq, S) = f[N]
  BY PickedLoop
<1>2. f \in [0..N -> Seq(V)] /\ f[0] = <<>>
      /\ \A n \in 1..N : f[n] = Append(f[n - 1], seq[n])
  BY <1>0, <1>1 DEF Picks
<1> HIDE DEF N
<1> DEFINE T == {n \in 0..N : Len(f[n]) = n /\ \A i \in 1..n : f[n][i] = seq[i]}
<1>3. 0 \in T
  BY <1>0, <1>2
<1>4. ASSUME NEW n \in 1..N, n - 1 \in T PROVE n \in T
  <2>1. n \in 0..N /\ n - 1 \in 0..N /\ (n - 1) + 1 = n
    BY <1>0
  <2> DEFINE s == f[n - 1]
             u == Append(s, seq[n])
  <2>2. s \in Seq(V) /\ Len(s) = n - 1 /\ \A i \in 1..(n - 1) : s[i] = seq[i]
    BY <1>2, <1>4, <2>1
  <2>3. Len(u) = n /\ (\A i \in 1..(n - 1) : u[i] = s[i]) /\ u[n] = seq[n]
    BY <1>0, <2>1, <2>2, MembersOfAppend
  <2>4. \A i \in 1..n : i \in 1..(n - 1) \/ i = n
    BY <1>0
  <2>5. f[n] = u
    BY <1>2
  <2> HIDE DEF u, s
  <2>6. \A i \in 1..n : u[i] = seq[i]
    BY <2>2, <2>3, <2>4
  <2>. QED BY <2>1, <2>3, <2>5, <2>6
<1> HIDE DEF T
<1>5. \A n \in 0..N : n \in T
  BY <1>0, <1>3, <1>4, Loop
<1>6. Len(f[N]) = N /\ f[N] \in Seq(V) /\ \A i \in 1..N : f[N][i] = seq[i]
  BY <1>0, <1>2, <1>5 DEF T
<1> DEFINE r == f[N]
<1>7. r \in Seq(V) /\ Len(r) = Len(seq) /\ \A i \in 1..Len(seq) : r[i] = seq[i]
  BY <1>6 DEF N
<1> HIDE DEF r
<1>8. r = seq
  BY <1>7, SeqEqual
<1>. QED BY <1>1, <1>8 DEF r

\* No position gives nothing.
LEMMA PickedNone ==
  ASSUME NEW V, NEW seq \in Seq(V), NEW S, \A i \in 1..Len(seq) : i \notin S
  PROVE  Picked(seq, S) = <<>>
<1> DEFINE p == Picked(seq, S)
<1>1. p \in Seq(V)
  BY PickedFrom
<1>2. PICK at : Located(p, at, seq, S, Len(seq))
  BY PickedFrom
<1> HIDE DEF p
<1>3. Len(p) \in Nat
  BY <1>1
<1>4. ASSUME Len(p) > 0 PROVE FALSE
  <2>1. 1 \in 1..Len(p)
    BY <1>3, <1>4
  <2>2. at[1] \in S \cap (1..Len(seq))
    BY <1>2, <2>1 DEF Located
  <2>. QED BY <2>2
<1>5. p = <<>>
  BY <1>1, <1>3, <1>4, EmptySeq
<1>. QED BY <1>5 DEF p

-----------------------------------------------------------------------------
(* What a timeline is made of.                                              *)

\* The items of a session's payloads, and their entries and messages.
Items ==
    PriorItems \cup {Message("user", c) : c \in Commands} \cup {Message("assistant", "reply")}
    \cup {ItemOf(type, call) : type \in {"reasoning", "function_call", "function_call_output",
                                         "compaction", "compaction_trigger"}, call \in Nat}
Entry(item, role) == [role |-> role, text |-> item.text, call |-> item.call]
Entries == {Entry(item, EntryRole(item)) : item \in Items} \cup {Entry(item, TrainingRole(item)) : item \in Items}

\* Collect gives entries, and they are those of the items that have a role.
LEMMA Collected ==
  ASSUME NEW items \in Seq(Items), NEW roles, \A i \in 1..Len(items) : Entry(items[i], roles[i]) \in Entries
  PROVE  /\ Collect(items, roles) \in Seq(Entries)
         /\ ToSet(Collect(items, roles)) =
               {Entry(items[i], roles[i]) : i \in {j \in 1..Len(items) : roles[j] # NoText}}
<1> DEFINE all == [i \in DOMAIN items |-> [role |-> roles[i], text |-> items[i].text, call |-> items[i].call]]
           S == {i \in DOMAIN items : roles[i] # NoText}
<1>1. Len(items) \in Nat /\ DOMAIN items = 1..Len(items) /\ \A i \in 1..Len(items) : items[i] \in Items
  BY ElementOfSeq
<1>2. \A i \in 1..Len(items) : all[i] = Entry(items[i], roles[i]) /\ all[i] \in Entries
  BY <1>1 DEF Entry
<1>3. all \in Seq(Entries) /\ Len(all) = Len(items)
  <2>1. all \in [1..Len(items) -> Entries]
    BY <1>1, <1>2
  <2> HIDE DEF all
  <2>. QED BY <1>1, <2>1, FunctionIsSeq
<1>4. Collect(items, roles) = Picked(all, S)
  BY DEF Collect
<1>5. S \cap (1..Len(all)) = {j \in 1..Len(items) : roles[j] # NoText}
  BY <1>1, <1>3
<1> HIDE DEF all, S
<1>6. Picked(all, S) \in Seq(Entries)
  BY <1>3, PickedFrom
<1>7. ToSet(Picked(all, S)) = {all[i] : i \in S \cap (1..Len(all))}
  BY <1>3, PickedMembers
<1>8. ToSet(Picked(all, S)) = {Entry(items[i], roles[i]) : i \in {j \in 1..Len(items) : roles[j] # NoText}}
  BY <1>2, <1>5, <1>7
<1>. QED BY <1>4, <1>6, <1>8

\* r gives s \o t the roles that p gives s and q gives t.
SplitRoles(r, p, q, s, t) ==
    /\ \A i \in 1..Len(s) : Entry(s[i], p[i]) \in Entries /\ r[i] = p[i]
    /\ \A i \in 1..Len(t) : Entry(t[i], q[i]) \in Entries /\ r[Len(s) + i] = q[i]

\* Collecting from two sequences in a row.
LEMMA CollectConcat ==
  ASSUME NEW s \in Seq(Items), NEW t \in Seq(Items), NEW r, NEW p, NEW q, SplitRoles(r, p, q, s, t)
  PROVE  Collect(s \o t, r) = Collect(s, p) \o Collect(t, q)
<1> DEFINE M == Len(s)
           N == Len(t)
           e == [i \in DOMAIN s |-> [role |-> p[i], text |-> s[i].text, call |-> s[i].call]]
           f == [i \in DOMAIN t |-> [role |-> q[i], text |-> t[i].text, call |-> t[i].call]]
           g == [i \in DOMAIN (s \o t) |-> [role |-> r[i], text |-> (s \o t)[i].text, call |-> (s \o t)[i].call]]
           A == {i \in DOMAIN s : p[i] # NoText}
           B == {i \in DOMAIN t : q[i] # NoText}
           S == {i \in DOMAIN (s \o t) : r[i] # NoText}
<1>0. /\ \A i \in 1..M : Entry(s[i], p[i]) \in Entries /\ r[i] = p[i]
      /\ \A i \in 1..N : Entry(t[i], q[i]) \in Entries /\ r[M + i] = q[i]
  BY DEF SplitRoles
<1>1. /\ M \in Nat /\ N \in Nat /\ DOMAIN s = 1..M /\ DOMAIN t = 1..N /\ DOMAIN (s \o t) = 1..(M + N)
      /\ \A i \in 1..M : (s \o t)[i] = s[i]
      /\ \A i \in 1..N : (s \o t)[M + i] = t[i]
      /\ \A i \in 1..(M + N) : i \in 1..M \/ i - M \in 1..N
  <2>1. Two(s, t, Items)
    BY DEF Two
  <2>. QED BY <2>1, Joins
<1>2. (\A i \in 1..M : s[i] \in Items) /\ \A i \in 1..N : t[i] \in Items
  BY ElementOfSeq
<1>3. \A i \in 1..M : e[i] \in Entries /\ g[i] = e[i] /\ (i \in S <=> i \in A)
  <2>1. \A i \in 1..M : i \in 1..(M + N)
    BY <1>1
  <2>2. \A i \in 1..M : g[i] = e[i]
    BY <1>0, <1>1, <2>1
  <2>3. \A i \in 1..M : e[i] \in Entries
    BY <1>0, <1>1 DEF Entry
  <2>. QED BY <1>0, <1>1, <2>1, <2>2, <2>3
<1>4. \A i \in 1..N : f[i] \in Entries /\ g[M + i] = f[i] /\ (M + i \in S <=> i \in B)
  <2>1. \A i \in 1..N : M + i \in 1..(M + N)
    BY <1>1
  <2>2. \A i \in 1..N : g[M + i] = f[i]
    BY <1>0, <1>1, <2>1
  <2>3. \A i \in 1..N : f[i] \in Entries
    BY <1>0, <1>1 DEF Entry
  <2>. QED BY <1>0, <1>1, <2>1, <2>2, <2>3
<1>5. e \in [1..M -> Entries] /\ f \in [1..N -> Entries] /\ g = [i \in 1..(M + N) |-> g[i]]
  BY <1>1, <1>3, <1>4
<1>6. Collect(s, p) = Picked(e, A) /\ Collect(t, q) = Picked(f, B) /\ Collect(s \o t, r) = Picked(g, S)
  BY DEF Collect
<1> HIDE DEF M, N, e, f, g, A, B, S
<1>7. e \in Seq(Entries) /\ Len(e) = M /\ f \in Seq(Entries) /\ Len(f) = N
  <2>1. e \in Seq(Entries) /\ Len(e) = M
    BY <1>1, <1>5, FunctionIsSeq
  <2>2. f \in Seq(Entries) /\ Len(f) = N
    BY <1>1, <1>5, FunctionIsSeq
  <2>. QED BY <2>1, <2>2
<1>8. \A i \in 1..(M + N) : g[i] \in Entries
  <2> SUFFICES ASSUME NEW i \in 1..(M + N) PROVE g[i] \in Entries
    OBVIOUS
  <2>1. CASE i \in 1..M
    BY <1>3, <2>1
  <2>2. CASE i - M \in 1..N
    <3>1. M + (i - M) = i
      BY <1>1
    <3>. QED BY <1>4, <2>2, <3>1
  <2>. QED BY <1>1, <2>1, <2>2
<1>9. g \in Seq(Entries) /\ Len(g) = M + N
  <2>1. M + N \in Nat
    BY <1>1
  <2>2. g \in [1..(M + N) -> Entries]
    BY <1>5, <1>8
  <2>. QED BY <2>1, <2>2, FunctionIsSeq
<1>10. g = e \o f
  <2> DEFINE h == e \o f
  <2>1. /\ h \in Seq(Entries) /\ Len(h) = M + N
        /\ \A i \in 1..M : h[i] = e[i]
        /\ \A i \in 1..N : h[M + i] = f[i]
    <3>1. /\ h \in Seq(Entries) /\ Len(h) = Len(e) + Len(f)
          /\ \A i \in 1..Len(e) : h[i] = e[i]
          /\ \A i \in 1..Len(f) : h[Len(e) + i] = f[i]
      <4>1. Two(e, f, Entries)
        BY <1>7 DEF Two
      <4>. QED BY <4>1, Joins
    <3>. QED BY <1>7, <3>1
  <2> HIDE DEF h
  <2>2. \A i \in 1..(M + N) : h[i] = g[i]
    <3> SUFFICES ASSUME NEW i \in 1..(M + N) PROVE h[i] = g[i]
      OBVIOUS
    <3>1. CASE i \in 1..M
      BY <1>3, <2>1, <3>1
    <3>2. CASE i - M \in 1..N
      <4>1. M + (i - M) = i
        BY <1>1
      <4>. QED BY <1>4, <2>1, <3>2, <4>1
    <3>. QED BY <1>1, <3>1, <3>2
  <2>3. g = h
    BY <1>9, <2>1, <2>2, SeqEqual
  <2>. QED BY <2>3 DEF h
<1>11. Splits(S, A, B, Len(e), Len(f))
  BY <1>3, <1>4, <1>7 DEF Splits
<1>12. Picked(e \o f, S) = Picked(e, A) \o Picked(f, B)
  BY <1>7, <1>11, PickedConcat
<1>. QED BY <1>6, <1>10, <1>12

\* The entries and the messages of a payload.
LEMMA EntriesOf ==
  ASSUME NEW items \in Seq(Items)
  PROVE  /\ CollectEntries(items) \in Seq(Entries) /\ AppendTrainingItems(items) \in Seq(Entries)
         /\ ToSet(CollectEntries(items)) =
               {Entry(items[i], EntryRole(items[i])) : i \in {j \in 1..Len(items) : EntryRole(items[j]) # NoText}}
<1>1. DOMAIN items = 1..Len(items) /\ \A i \in 1..Len(items) : items[i] \in Items
  BY ElementOfSeq
<1> DEFINE p == [i \in DOMAIN items |-> EntryRole(items[i])]
           q == [i \in DOMAIN items |-> TrainingRole(items[i])]
<1>2. \A i \in 1..Len(items) : /\ p[i] = EntryRole(items[i])
                               /\ Entry(items[i], p[i]) \in Entries /\ Entry(items[i], q[i]) \in Entries
  BY <1>1 DEF Entries
<1>3. CollectEntries(items) = Collect(items, p) /\ AppendTrainingItems(items) = Collect(items, q)
  BY DEF CollectEntries, AppendTrainingItems
<1> HIDE DEF p, q
<1>4. Collect(items, p) \in Seq(Entries) /\ Collect(items, q) \in Seq(Entries)
      /\ ToSet(Collect(items, p)) = {Entry(items[i], p[i]) : i \in {j \in 1..Len(items) : p[j] # NoText}}
  BY <1>2, Collected
<1>. QED BY <1>2, <1>3, <1>4

\* The entries of two sequences in a row, and the messages.
LEMMA EntriesConcat ==
  ASSUME NEW s \in Seq(Items), NEW t \in Seq(Items)
  PROVE  /\ CollectEntries(s \o t) = CollectEntries(s) \o CollectEntries(t)
         /\ AppendTrainingItems(s \o t) = AppendTrainingItems(s) \o AppendTrainingItems(t)
<1> DEFINE M == Len(s)
           N == Len(t)
<1>1. /\ M \in Nat /\ N \in Nat /\ DOMAIN s = 1..M /\ DOMAIN t = 1..N /\ DOMAIN (s \o t) = 1..(M + N)
      /\ \A i \in 1..M : (s \o t)[i] = s[i]
      /\ \A i \in 1..N : (s \o t)[M + i] = t[i]
  <2>1. Two(s, t, Items)
    BY DEF Two
  <2>. QED BY <2>1, Joins
<1>2. (\A i \in 1..M : s[i] \in Items) /\ \A i \in 1..N : t[i] \in Items
  BY ElementOfSeq
<1>3. (\A i \in 1..M : i \in 1..(M + N)) /\ \A i \in 1..N : M + i \in 1..(M + N)
  BY <1>1
<1>4. CollectEntries(s \o t) = CollectEntries(s) \o CollectEntries(t)
  <2> DEFINE r == [i \in DOMAIN (s \o t) |-> EntryRole((s \o t)[i])]
             p == [i \in DOMAIN s |-> EntryRole(s[i])]
             q == [i \in DOMAIN t |-> EntryRole(t[i])]
  <2>1. \A i \in 1..M : Entry(s[i], p[i]) \in Entries /\ r[i] = p[i]
    BY <1>1, <1>2, <1>3 DEF Entries
  <2>2. \A i \in 1..N : Entry(t[i], q[i]) \in Entries /\ r[M + i] = q[i]
    BY <1>1, <1>2, <1>3 DEF Entries
  <2>3. CollectEntries(s \o t) = Collect(s \o t, r) /\ CollectEntries(s) = Collect(s, p)
        /\ CollectEntries(t) = Collect(t, q)
    BY DEF CollectEntries
  <2> HIDE DEF p, q, r
  <2>4. SplitRoles(r, p, q, s, t)
    BY <2>1, <2>2 DEF SplitRoles
  <2>5. Collect(s \o t, r) = Collect(s, p) \o Collect(t, q)
    BY <2>4, CollectConcat
  <2>. QED BY <2>3, <2>5
<1>5. AppendTrainingItems(s \o t) = AppendTrainingItems(s) \o AppendTrainingItems(t)
  <2> DEFINE r == [i \in DOMAIN (s \o t) |-> TrainingRole((s \o t)[i])]
             p == [i \in DOMAIN s |-> TrainingRole(s[i])]
             q == [i \in DOMAIN t |-> TrainingRole(t[i])]
  <2>1. \A i \in 1..M : Entry(s[i], p[i]) \in Entries /\ r[i] = p[i]
    BY <1>1, <1>2, <1>3 DEF Entries
  <2>2. \A i \in 1..N : Entry(t[i], q[i]) \in Entries /\ r[M + i] = q[i]
    BY <1>1, <1>2, <1>3 DEF Entries
  <2>3. AppendTrainingItems(s \o t) = Collect(s \o t, r) /\ AppendTrainingItems(s) = Collect(s, p)
        /\ AppendTrainingItems(t) = Collect(t, q)
    BY DEF AppendTrainingItems
  <2> HIDE DEF p, q, r
  <2>4. SplitRoles(r, p, q, s, t)
    BY <2>1, <2>2 DEF SplitRoles
  <2>5. Collect(s \o t, r) = Collect(s, p) \o Collect(t, q)
    BY <2>4, CollectConcat
  <2>. QED BY <2>3, <2>5
<1>. QED BY <1>4, <1>5

\* Three sequences of the same elements.
Three(a, b, d, V) == a \in Seq(V) /\ b \in Seq(V) /\ d \in Seq(V)

\* In a row they are one.
LEMMA Regroup ==
  ASSUME NEW V, NEW a, NEW b, NEW d, Three(a, b, d, V)
  PROVE  (a \o b) \o d = a \o (b \o d)
BY ConcatAssociative DEF Three

\* Where an entry occurs.
At(x, s) == {i \in DOMAIN s : s[i] = x}

\* Occurrences counts, and is zero for an entry that does not occur.
LEMMA OccurrencesCount ==
  ASSUME NEW V, NEW s \in Seq(V), NEW x
  PROVE  /\ IsFiniteSet(At(x, s)) /\ Occurrences(x, s) = Cardinality(At(x, s))
         /\ Occurrences(x, s) \in Nat
         /\ Occurrences(x, s) = 0 <=> \A i \in 1..Len(s) : s[i] # x
<1> DEFINE A == At(x, s)
<1>1. DOMAIN s = 1..Len(s) /\ Len(s) \in Nat
  OBVIOUS
<1>2. IsFiniteSet(1..Len(s))
  BY <1>1, FS_Interval
<1>3. IsFiniteSet(A)
  <2>1. A \subseteq 1..Len(s)
    BY <1>1 DEF At
  <2>. QED BY <1>2, <2>1, FS_Subset
<1>4. Cardinality(A) \in Nat /\ (Cardinality(A) = 0 <=> A = {})
  BY <1>3, FS_CardinalityType, FS_EmptySet
<1>5. A = {} <=> \A i \in 1..Len(s) : s[i] # x
  BY <1>1 DEF At
<1>6. Occurrences(x, s) = Cardinality(A)
  BY DEF Occurrences, At
<1>. QED BY <1>3, <1>4, <1>5, <1>6

\* SubtractEntries takes away only what the replay holds.
LEMMA SubtractCovers ==
  ASSUME NEW entries \in Seq(Entries), NEW replay \in Seq(Entries)
  PROVE  /\ SubtractEntries(entries, replay) \in Seq(Entries)
         /\ ToSet(entries) \subseteq ToSet(SubtractEntries(entries, replay)) \cup ToSet(replay)
<1> DEFINE S == {i \in DOMAIN entries :
                     Occurrences(entries[i], SubSeq(entries, 1, i)) > Occurrences(entries[i], replay)}
           d == SubtractEntries(entries, replay)
<1>1. DOMAIN entries = 1..Len(entries) /\ Len(entries) \in Nat
      /\ DOMAIN replay = 1..Len(replay)
  OBVIOUS
<1>2. d = Picked(entries, S)
  BY DEF SubtractEntries
<1>3. d \in Seq(Entries) /\ ToSet(d) = {entries[i] : i \in S \cap (1..Len(entries))}
  BY <1>2, PickedFrom, PickedMembers
<1>4. ASSUME NEW y \in ToSet(entries), y \notin ToSet(replay) PROVE y \in ToSet(d)
  <2>1. PICK i \in 1..Len(entries) : y = entries[i]
    BY <1>1 DEF ToSet
  <2>2. Occurrences(y, replay) = 0
    <3>1. \A j \in 1..Len(replay) : replay[j] # y
      BY <1>1, <1>4 DEF ToSet
    <3>. QED BY <3>1, OccurrencesCount
  <2> DEFINE p == SubSeq(entries, 1, i)
  <2>3. p \in Seq(Entries) /\ Len(p) = i /\ p[i] = entries[i]
    <3>1. 1 \in 1..(Len(entries) + 1) /\ i \in (1 - 1)..Len(entries) /\ i - 1 + 1 = i /\ 1 + i - 1 = i /\ i \in 1..i
      BY <1>1
    <3>2. /\ SubSeq(entries, 1, i) \in Seq(Entries) /\ Len(SubSeq(entries, 1, i)) = i - 1 + 1
          /\ \A j \in 1..(i - 1 + 1) : SubSeq(entries, 1, i)[j] = entries[1 + j - 1]
      BY <3>1, Part
    <3>. QED BY <3>1, <3>2
  <2> HIDE DEF p
  <2>4. Occurrences(y, p) \in Nat /\ Occurrences(y, p) # 0
    <3>1. i \in 1..Len(p) /\ p[i] = y
      BY <1>1, <2>1, <2>3
    <3>2. Occurrences(y, p) \in Nat /\ (Occurrences(y, p) = 0 <=> \A j \in 1..Len(p) : p[j] # y)
      BY <2>3, OccurrencesCount
    <3>. QED BY <3>1, <3>2
  <2>5. Occurrences(y, p) > Occurrences(y, replay)
    BY <2>2, <2>4
  <2>6. i \in S
    BY <1>1, <2>1, <2>5 DEF p
  <2>. QED BY <1>3, <2>1, <2>6
<1>. QED BY <1>3, <1>4

\* The common prefix: the two are equal as far as it goes, and differ or end there.
LEMMA CommonPrefix ==
  ASSUME NEW V, NEW s \in Seq(V), NEW t \in Seq(V)
  PROVE  /\ CommonEntryPrefix(s, t) \in Nat
         /\ CommonEntryPrefix(s, t) <= Len(s) /\ CommonEntryPrefix(s, t) <= Len(t)
         /\ \A i \in 1..CommonEntryPrefix(s, t) : s[i] = t[i]
         /\ \/ CommonEntryPrefix(s, t) = Len(s) \/ CommonEntryPrefix(s, t) = Len(t)
            \/ s[CommonEntryPrefix(s, t) + 1] # t[CommonEntryPrefix(s, t) + 1]
<1> DEFINE L == Min({Len(s), Len(t)})
           T == {n \in 0..L : \A i \in 1..n : s[i] = t[i]}
           n == CommonEntryPrefix(s, t)
<1>1. Len(s) \in Nat /\ Len(t) \in Nat
  OBVIOUS
<1>2. L \in {Len(s), Len(t)} /\ L <= Len(s) /\ L <= Len(t)
  <2>1. {Len(s), Len(t)} \subseteq Nat /\ {Len(s), Len(t)} # {}
    BY <1>1
  <2>. QED BY <2>1, MinOfPositions
<1>3. n = Max(T)
  BY DEF CommonEntryPrefix
<1> HIDE DEF L
<1>4. L \in Nat /\ T \subseteq 0..L /\ T # {}
  <2>1. L \in Nat /\ 0 \in T
    BY <1>1, <1>2
  <2>. QED BY <2>1
<1>5. n \in T /\ \A y \in T : y <= n
  BY <1>3, <1>4, MaxOfPositions
<1> HIDE DEF n
<1>6. n \in Nat /\ n <= L /\ \A i \in 1..n : s[i] = t[i]
  BY <1>4, <1>5
<1>7. ASSUME n # Len(s), n # Len(t), s[n + 1] = t[n + 1] PROVE FALSE
  <2>1. n + 1 \in 0..L
    BY <1>1, <1>2, <1>4, <1>6, <1>7
  <2>2. \A i \in 1..(n + 1) : i \in 1..n \/ i = n + 1
    BY <1>6
  <2>3. n + 1 \in T
    BY <1>6, <1>7, <2>1, <2>2
  <2>4. ~(n + 1 <= n)
    BY <1>6
  <2>. QED BY <1>5, <2>3, <2>4
<1>8. n <= Len(s) /\ n <= Len(t)
  BY <1>1, <1>2, <1>6
<1>. QED BY <1>6, <1>7, <1>8 DEF n

\* The parts of a timeline: what is new of the input, cut or shown, and the
\* response.
Parts(records, k, common, delta, kind, cut) ==
    LET first    == k = 1
        input    == CollectEntries(records[k].input)
    IN  /\ common = IF first THEN 0
                    ELSE CommonEntryPrefix(CollectEntries(records[k - 1].input), input)
        /\ delta = SubtractEntries(SubSeq(input, common + 1, Len(input)),
                                   IF first THEN <<>> ELSE CollectEntries(records[k - 1].output))
        /\ kind = TimelineKind(RequestKind(records[k].kind), first, common, input, delta)
        /\ cut = IF kind \in {"history_snapshot", "context_rebuild"} /\ Len(delta) > HistoryLimit
                 THEN Len(delta) - HistoryLimit ELSE 0
        /\ RequestTimeline(records, k) =
              [kind |-> kind, history |-> common + cut, cut |-> SubSeq(delta, 1, cut),
               entries |-> SubSeq(delta, cut + 1, Len(delta)) \o CollectEntries(records[k].output)]

\* Every timeline has such parts.
LEMMA TimelineParts ==
  ASSUME NEW records, NEW k
  PROVE  \E common, delta, kind, cut : Parts(records, k, common, delta, kind, cut)
<1> DEFINE first    == k = 1
           input    == CollectEntries(records[k].input)
           common   == IF first THEN 0
                       ELSE CommonEntryPrefix(CollectEntries(records[k - 1].input), input)
           delta    == SubtractEntries(SubSeq(input, common + 1, Len(input)),
                                       IF first THEN <<>> ELSE CollectEntries(records[k - 1].output))
           kind     == TimelineKind(RequestKind(records[k].kind), first, common, input, delta)
           cut      == IF kind \in {"history_snapshot", "context_rebuild"} /\ Len(delta) > HistoryLimit
                       THEN Len(delta) - HistoryLimit ELSE 0
<1>1. Parts(records, k, common, delta, kind, cut)
  BY Zenon DEF Parts, RequestTimeline
<1>. QED BY <1>1

\* What the parts are, in types and bounds.
LEMMA PartTypes ==
  ASSUME NEW records, NEW k \in Nat \ {0},
         records[k].input \in Seq(Items), records[k].output \in Seq(Items),
         k > 1 => records[k - 1].input \in Seq(Items) /\ records[k - 1].output \in Seq(Items),
         NEW common, NEW delta, NEW kind, NEW cut, Parts(records, k, common, delta, kind, cut)
  PROVE  /\ common \in 0..Len(CollectEntries(records[k].input))
         /\ SubSeq(CollectEntries(records[k].input), common + 1, Len(CollectEntries(records[k].input))) \in Seq(Entries)
         /\ delta \in Seq(Entries)
         /\ cut \in 0..Len(delta)
<1> DEFINE input == CollectEntries(records[k].input)
           rest  == SubSeq(input, common + 1, Len(input))
<1>1. input \in Seq(Entries) /\ Len(input) \in Nat
  BY EntriesOf
<1>2. common \in 0..Len(input)
  <2>0. common = IF k = 1 THEN 0 ELSE CommonEntryPrefix(CollectEntries(records[k - 1].input), input)
    BY Zenon DEF Parts
  <2>1. CASE k = 1
    BY <1>1, <2>0, <2>1
  <2>2. CASE k > 1
    <3> DEFINE before == CollectEntries(records[k - 1].input)
    <3>1. before \in Seq(Entries)
      BY <2>2, EntriesOf
    <3>2. common = CommonEntryPrefix(before, input)
      BY <2>0, <2>2
    <3> HIDE DEF before, input
    <3>3. CommonEntryPrefix(before, input) \in Nat /\ CommonEntryPrefix(before, input) <= Len(input)
      BY <1>1, <3>1, CommonPrefix
    <3>. QED BY <1>1, <3>2, <3>3
  <2>. QED BY <2>1, <2>2
<1> HIDE DEF input
<1>3. rest \in Seq(Entries)
  <2>1. common + 1 \in 1..(Len(input) + 1) /\ Len(input) \in ((common + 1) - 1)..Len(input)
    BY <1>1, <1>2
  <2>. QED BY <1>1, <2>1, Part
<1> DEFINE replay == IF k = 1 THEN <<>> ELSE CollectEntries(records[k - 1].output)
<1>4. replay \in Seq(Entries)
  <2>1. CASE k = 1
    BY <2>1
  <2>2. CASE k > 1
    BY <2>2, EntriesOf
  <2>. QED BY <2>1, <2>2
<1>5. delta = SubtractEntries(rest, replay)
  BY DEF Parts, input
<1> HIDE DEF rest, replay
<1>6. delta \in Seq(Entries)
  BY <1>3, <1>4, <1>5, SubtractCovers
<1>7. Len(delta) \in Nat /\ HistoryLimit \in Nat
  BY <1>6, HistoryAssumption
<1>8. cut = 0 \/ (Len(delta) > HistoryLimit /\ cut = Len(delta) - HistoryLimit)
  BY DEF Parts
<1>9. cut \in 0..Len(delta)
  BY <1>7, <1>8
<1>. QED BY <1>2, <1>3, <1>6, <1>9 DEF input, rest

\* What a timeline shows or cuts.
ShownBy(records, k) ==
    ToSet(RequestTimeline(records, k).entries) \cup ToSet(RequestTimeline(records, k).cut)

\* What a timeline leaves out, its predecessor sent or was answered.
LEMMA TimelineCovers ==
  ASSUME NEW records, NEW k \in Nat \ {0},
         records[k].input \in Seq(Items), records[k].output \in Seq(Items),
         k > 1 => records[k - 1].input \in Seq(Items) /\ records[k - 1].output \in Seq(Items)
  PROVE  /\ ToSet(CollectEntries(records[k].output)) \subseteq ShownBy(records, k)
         /\ \A y \in ToSet(CollectEntries(records[k].input)) :
               \/ y \in ShownBy(records, k)
               \/ /\ k > 1
                  /\ \/ y \in ToSet(CollectEntries(records[k - 1].input))
                     \/ y \in ToSet(CollectEntries(records[k - 1].output))
<1>1. PICK common, delta, kind, cut : Parts(records, k, common, delta, kind, cut)
  BY TimelineParts
<1> DEFINE input  == CollectEntries(records[k].input)
           output == CollectEntries(records[k].output)
           rest   == SubSeq(input, common + 1, Len(input))
           start  == SubSeq(delta, 1, cut)
           end    == SubSeq(delta, cut + 1, Len(delta))
           replay == IF k = 1 THEN <<>> ELSE CollectEntries(records[k - 1].output)
<1>2. input \in Seq(Entries) /\ output \in Seq(Entries)
  BY EntriesOf
<1>3. common \in 0..Len(input) /\ rest \in Seq(Entries) /\ delta \in Seq(Entries) /\ cut \in 0..Len(delta)
  BY <1>1, PartTypes
<1>4. start \in Seq(Entries) /\ end \in Seq(Entries) /\ ToSet(delta) = ToSet(start) \cup ToSet(end)
  BY <1>3, CutInTwo
<1>5. RequestTimeline(records, k).entries = end \o output /\ RequestTimeline(records, k).cut = start
  <2> DEFINE shown == end \o output
             r     == RequestTimeline(records, k)
  <2>1. r = [kind |-> kind, history |-> common + cut, cut |-> start, entries |-> shown]
    BY <1>1, Zenon DEF Parts
  <2> HIDE DEF shown, start, r
  <2>2. r.entries = shown /\ r.cut = start
    BY <2>1
  <2>. QED BY <2>2 DEF shown, r
<1>6. common = IF k = 1 THEN 0 ELSE CommonEntryPrefix(CollectEntries(records[k - 1].input), input)
  BY <1>1, Zenon DEF Parts
<1>7. delta = SubtractEntries(rest, replay)
  BY <1>1, Zenon DEF Parts
<1>8. replay \in Seq(Entries)
  <2>1. CASE k = 1
    BY <2>1
  <2>2. CASE k > 1
    BY <2>2, EntriesOf
  <2>. QED BY <2>1, <2>2
<1>9. ToSet(replay) = IF k = 1 THEN {} ELSE ToSet(CollectEntries(records[k - 1].output))
  BY DEF ToSet
<1>10. ToSet(input) = ToSet(SubSeq(input, 1, common)) \cup ToSet(rest)
  BY <1>2, <1>3, CutInTwo
<1>11. DOMAIN SubSeq(input, 1, common) = 1..common
       /\ \A i \in 1..common : SubSeq(input, 1, common)[i] = input[i]
  <2>1. SubSeq(input, 1, common) \in Seq(Entries) /\ Len(SubSeq(input, 1, common)) = common
        /\ \A i \in 1..common : SubSeq(input, 1, common)[i] = input[i]
    BY <1>2, <1>3, CutInTwo
  <2>. QED BY <2>1
<1> HIDE DEF input, output, rest, start, end, replay
<1>12. ToSet(end \o output) = ToSet(end) \cup ToSet(output)
  BY <1>2, <1>4, MembersOfConcat
<1>13. ShownBy(records, k) = ToSet(delta) \cup ToSet(output)
  BY <1>4, <1>5, <1>12 DEF ShownBy
<1>14. ToSet(rest) \subseteq ToSet(delta) \cup ToSet(replay)
  BY <1>3, <1>7, <1>8, SubtractCovers
<1>15. ASSUME NEW y \in ToSet(SubSeq(input, 1, common))
       PROVE  k > 1 /\ y \in ToSet(CollectEntries(records[k - 1].input))
  <2>1. PICK i \in 1..common : y = input[i]
    BY <1>11 DEF ToSet
  <2>2. k > 1
    BY <1>6, <2>1
  <2> DEFINE before == CollectEntries(records[k - 1].input)
  <2>3. before \in Seq(Entries) /\ DOMAIN before = 1..Len(before)
    BY <2>2, EntriesOf
  <2>4. common = CommonEntryPrefix(before, input)
    BY <1>6, <2>2
  <2> HIDE DEF before
  <2>5. common \in Nat /\ common <= Len(before) /\ \A j \in 1..common : before[j] = input[j]
    <3>1. /\ CommonEntryPrefix(before, input) \in Nat /\ CommonEntryPrefix(before, input) <= Len(before)
          /\ \A j \in 1..CommonEntryPrefix(before, input) : before[j] = input[j]
      BY <1>2, <2>3, CommonPrefix
    <3>. QED BY <2>4, <3>1
  <2>6. Len(before) \in Nat
    BY <2>3
  <2>7. i \in 1..Len(before) /\ before[i] = y
    BY <2>1, <2>5, <2>6
  <2>. QED BY <2>2, <2>3, <2>7 DEF ToSet, before
<1>16. ASSUME NEW y \in ToSet(input)
       PROVE  \/ y \in ShownBy(records, k)
              \/ /\ k > 1
                 /\ \/ y \in ToSet(CollectEntries(records[k - 1].input))
                    \/ y \in ToSet(CollectEntries(records[k - 1].output))
  <2>1. CASE y \in ToSet(SubSeq(input, 1, common))
    BY <1>15, <2>1
  <2>2. CASE y \in ToSet(rest)
    <3>1. y \in ToSet(delta) \/ y \in ToSet(replay)
      BY <1>14, <2>2
    <3>2. CASE y \in ToSet(replay)
      BY <1>9, <3>2
    <3>. QED BY <1>13, <3>1, <3>2
  <2>. QED BY <1>10, <2>1, <2>2
<1>. QED BY <1>13, <1>16 DEF input, output

\* Hence every input is shown by its own timeline and those before.
LEMMA AllShown ==
  ASSUME NEW N \in Nat, NEW records,
         \A k \in 1..N : records[k].input \in Seq(Items) /\ records[k].output \in Seq(Items)
  PROVE  \A k \in 1..N : ToSet(CollectEntries(records[k].input)) \subseteq UNION {ShownBy(records, j) : j \in 1..N}
<1> DEFINE U == UNION {ShownBy(records, j) : j \in 1..N}
           T == {k \in 0..N : k > 0 => ToSet(CollectEntries(records[k].input)) \subseteq U}
<1>1. 0 \in T
  OBVIOUS
<1>2. ASSUME NEW k \in 1..N, k - 1 \in T PROVE k \in T
  <2>1. k \in 0..N /\ k > 0 /\ k \in Nat \ {0} /\ (k > 1 => k - 1 \in 1..N /\ k - 1 > 0)
    OBVIOUS
  <2>2. k > 1 => records[k - 1].input \in Seq(Items) /\ records[k - 1].output \in Seq(Items)
    BY <2>1
  <2>3. \A y \in ToSet(CollectEntries(records[k].input)) :
               \/ y \in ShownBy(records, k)
               \/ /\ k > 1
                  /\ \/ y \in ToSet(CollectEntries(records[k - 1].input))
                     \/ y \in ToSet(CollectEntries(records[k - 1].output))
    BY <2>1, <2>2, TimelineCovers
  <2>4. ShownBy(records, k) \subseteq U
    BY Zenon
  <2>5. ASSUME k > 1
        PROVE  /\ ToSet(CollectEntries(records[k - 1].input)) \subseteq U
               /\ ToSet(CollectEntries(records[k - 1].output)) \subseteq U
    <3> DEFINE m == k - 1
    <3>1. m \in 1..N /\ m \in Nat \ {0} /\ m > 0 /\ m \in T
      BY <1>2, <2>1, <2>5
    <3> HIDE DEF m
    <3>2. m > 1 => m - 1 \in 1..N
      BY <3>1
    <3>3. records[m].input \in Seq(Items) /\ records[m].output \in Seq(Items)
          /\ (m > 1 => records[m - 1].input \in Seq(Items) /\ records[m - 1].output \in Seq(Items))
      BY <3>1, <3>2
    <3>4. ToSet(CollectEntries(records[m].output)) \subseteq ShownBy(records, m)
      BY <3>1, <3>3, TimelineCovers
    <3>5. ShownBy(records, m) \subseteq U
      BY <3>1, Zenon
    <3>6. ToSet(CollectEntries(records[m].input)) \subseteq U
      BY <3>1
    <3>. QED BY <3>4, <3>5, <3>6 DEF m
  <2> HIDE DEF U
  <2>. QED BY <2>1, <2>3, <2>4, <2>5
<1> HIDE DEF T
<1>3. \A k \in 0..N : k \in T
  BY <1>1, <1>2, Loop
<1>4. ASSUME NEW k \in 1..N PROVE ToSet(CollectEntries(records[k].input)) \subseteq U
  <2>1. k \in T /\ k > 0
    BY <1>3
  <2> HIDE DEF U
  <2>. QED BY <2>1 DEF T
<1>. QED BY <1>4

-----------------------------------------------------------------------------
(* What the client and the archive hold: types.                             *)

Requests ==
    [turn : Nat, asks : {"command", "continue", "retry", "resume", "compact"}, kind : {NoText, "compact"},
     input : Seq(Items), added : Seq(Items), output : Seq(Items),
     command : {Missing} \cup {item.text : item \in Items}, succeeded : BOOLEAN, started : Nat]
Clients ==
    [named : BOOLEAN, turn : Nat, history : Seq(Items),
     mode : {"idle", "failed", "called", "compacted"}]

\* The client holds a conversation, every request is complete, the records are
\* of requests; a client that must answer a call holds the call.
Typed ==
    /\ client \in Clients
    /\ made \in Seq(Requests)
    /\ arrived \in Seq(DOMAIN made)
    /\ client.mode = "called" =>
          client.history # <<>> /\ \E n \in Nat : Last(client.history) = ItemOf("function_call", n)

Trigger == ItemOf("compaction_trigger", 0)
ToolResult(n) == ItemOf("function_call_output", n)

\* What the client may send and be sent.
LEMMA KnownItems ==
  /\ \A c \in Commands : Message("user", c) \in Items
  /\ Message("assistant", "reply") \in Items
  /\ Trigger \in Items /\ ItemOf("compaction", 0) \in Items /\ ItemOf("reasoning", 0) \in Items
  /\ \A n \in Nat : ToolResult(n) \in Items /\ ItemOf("function_call", n) \in Items
<1> DEFINE types == {"reasoning", "function_call", "function_call_output", "compaction", "compaction_trigger"}
<1>1. \A type \in types : \A n \in Nat : ItemOf(type, n) \in Items
  BY DEF Items
<1>2. \A c \in Commands : Message("user", c) \in Items
  BY DEF Items
<1>3. Message("assistant", "reply") \in Items
  BY DEF Items
<1>. QED BY <1>1, <1>2, <1>3 DEF Trigger, ToolResult

\* The answers of the model, and the mode they leave the client in.
LEMMA AnswerFacts ==
  ASSUME NEW n \in Nat, NEW output \in Answers(n)
  PROVE  /\ output \in Seq(Items)
         /\ output = Failed <=> ModeAfter(output) = "failed"
         /\ output = CallOf(n) <=> ModeAfter(output) = "called"
         /\ output = Reply <=> ModeAfter(output) = "idle"
         /\ ModeAfter(output) \in {"idle", "failed", "called"}
<1>1. CASE output = Failed
  <2>1. ModeAfter(output) = "failed" /\ output \in Seq(Items)
    BY <1>1 DEF ModeAfter, Failed
  <2>2. output # CallOf(n) /\ output # Reply
    BY <1>1 DEF Failed, CallOf, Reply
  <2>. QED BY <1>1, <2>1, <2>2
<1>2. CASE output = Reply
  <2>1. output = <<ItemOf("reasoning", 0), Message("assistant", "reply")>>
    BY <1>2 DEF Reply
  <2>2. output \in Seq(Items)
    BY <2>1, KnownItems
  <2>3. Len(output) = 2 /\ output[2].type = "message" /\ output[1].type = "reasoning"
    BY <2>1 DEF Message, ItemOf
  <2>4. output # Failed /\ Last(output).type = "message"
    BY <2>1, <2>3 DEF Failed, Last
  <2>5. output # CallOf(n)
    BY <2>3 DEF CallOf, Message, ItemOf
  <2>6. ModeAfter(output) = "idle"
    BY <2>4, Zenon DEF ModeAfter
  <2>. QED BY <1>2, <2>2, <2>4, <2>5, <2>6
<1>3. CASE output = CallOf(n)
  <2>1. output = <<Message("assistant", "reply"), ItemOf("function_call", n)>>
    BY <1>3 DEF CallOf
  <2>2. output \in Seq(Items)
    BY <2>1, KnownItems
  <2>3. Len(output) = 2 /\ output[2].type = "function_call" /\ output[1].type = "message"
    BY <2>1 DEF Message, ItemOf
  <2>4. output # Failed /\ Last(output).type = "function_call"
    BY <2>1, <2>3 DEF Failed, Last
  <2>5. output # Reply
    BY <2>3 DEF Reply, Message, ItemOf
  <2>6. ModeAfter(output) = "called"
    BY <2>4, Zenon DEF ModeAfter
  <2>. QED BY <1>3, <2>2, <2>4, <2>5, <2>6
<1>. QED BY <1>1, <1>2, <1>3 DEF Answers

\* What a step of the client sends, by what it asks.
Adds(asks, added) ==
    \/ asks = "command" /\ \E c \in Commands : added = <<Message("user", c)>>
    \/ asks = "continue" /\ \E n \in Nat : added = <<ToolResult(n)>>
    \/ asks \in {"retry", "resume"} /\ added = <<>>
    \/ asks = "compact" /\ added = <<Trigger>>

\* When it may.
May(asks) ==
    \/ asks = "command" /\ client.mode # "called"
    \/ asks = "continue" /\ client.mode = "called"
    \/ asks = "retry" /\ client.mode = "failed"
    \/ asks = "resume" /\ client.mode = "compacted"
    \/ asks = "compact" /\ client.mode \in {"idle", "failed"} /\ client.turn > 0

TurnOf(asks) == IF asks = "command" THEN client.turn + 1 ELSE client.turn

\* A step of the client: the request it makes, and what it holds then.
Step(asks, added, output) ==
    /\ May(asks) /\ Adds(asks, added) /\ added \in Seq(Items) /\ output \in Seq(Items)
    /\ Len(made) < MaxRequests
    /\ made' = Append(made, Request(TurnOf(asks), asks, added, output)) /\ arrived' = arrived
    /\ client' \in Clients /\ client'.named = client.named /\ client'.turn = TurnOf(asks)
    /\ \/ /\ asks # "compact" /\ output \in Answers(Len(made) + 1)
          /\ client'.history = (client.history \o added) \o output /\ client'.mode = ModeAfter(output)
       \/ /\ asks = "compact" /\ output = Failed /\ client' = client
       \/ /\ asks = "compact" /\ output = Compacted
          /\ client'.history = Compacted /\ client'.mode = "compacted"

\* A request for an answer is such a step.
LEMMA AskIsStep ==
  ASSUME Typed, NEW asks, NEW added, Adds(asks, added), May(asks), asks # "compact",
         Ask(TurnOf(asks), asks, added), added \in Seq(Items)
  PROVE  \E output : Step(asks, added, output)
<1>0. client \in Clients /\ made \in Seq(Requests) /\ Len(made) \in Nat /\ client.turn \in Nat
      /\ client.history \in Seq(Items)
  BY DEF Typed, Clients
<1>1. PICK output \in Answers(Len(made) + 1) :
        /\ Send(TurnOf(asks), asks, added, output)
        /\ client' = [client EXCEPT !.turn = TurnOf(asks), !.history = @ \o added \o output, !.mode = ModeAfter(output)]
  BY Zenon DEF Ask
<1>2. output \in Seq(Items) /\ ModeAfter(output) \in {"idle", "failed", "called"}
  BY <1>0, AnswerFacts
<1> DEFINE h == (client.history \o added) \o output
<1>3. h \in Seq(Items)
  <2>1. client.history \o added \in Seq(Items)
    BY <1>0, ConcatProperties
  <2>. QED BY <1>2, <2>1, ConcatProperties
<1>4. TurnOf(asks) \in Nat
  BY <1>0 DEF TurnOf
<1>5. client' = [client EXCEPT !.turn = TurnOf(asks), !.history = h, !.mode = ModeAfter(output)]
  BY <1>1
<1> HIDE DEF h
<1>6. /\ client' \in Clients /\ client'.named = client.named /\ client'.turn = TurnOf(asks)
      /\ client'.history = h /\ client'.mode = ModeAfter(output)
  BY <1>0, <1>2, <1>3, <1>4, <1>5 DEF Clients
<1>7. Step(asks, added, output)
  BY <1>1, <1>2, <1>6, Zenon DEF Step, h, Send
<1>. QED BY <1>7

\* Every action of the client is such a step.
LEMMA ClientStep ==
  ASSUME Typed, Client
  PROVE  \E asks, added, output : Step(asks, added, output)
<1>0. client \in Clients /\ made \in Seq(Requests) /\ client.turn \in Nat /\ client.history \in Seq(Items)
  BY DEF Typed, Clients
<1>1. CASE \E c \in Commands : Command(c)
  <2>1. PICK c \in Commands : Command(c)
    BY <1>1
  <2> DEFINE added == <<Message("user", c)>>
  <2>2. Ask(TurnOf("command"), "command", added) /\ May("command") /\ Adds("command", added)
    BY <2>1, Zenon DEF Command, TurnOf, May, Adds
  <2>3. added \in Seq(Items)
    BY KnownItems
  <2>4. \E output : Step("command", added, output)
    BY <2>2, <2>3, AskIsStep
  <2>. QED BY <2>4
<1>2. CASE Continue
  <2>1. PICK n \in Nat : Last(client.history) = ItemOf("function_call", n)
    BY <1>2 DEF Typed, Continue
  <2>2. Last(client.history).call = n
    BY <2>1 DEF ItemOf
  <2> DEFINE added == <<ToolResult(n)>>
  <2>3. added \in Seq(Items)
    BY KnownItems
  <2>4. TurnOf("continue") = client.turn
    BY DEF TurnOf
  <2>5. Ask(TurnOf("continue"), "continue", added) /\ May("continue") /\ Adds("continue", added)
    BY <1>2, <2>2, <2>4, Zenon DEF Continue, May, Adds, ToolResult
  <2>6. \E output : Step("continue", added, output)
    BY <2>3, <2>5, AskIsStep
  <2>. QED BY <2>6
<1>3. CASE Retry
  <2>1. TurnOf("retry") = client.turn
    BY DEF TurnOf
  <2>2. Ask(TurnOf("retry"), "retry", <<>>) /\ May("retry") /\ Adds("retry", <<>>)
    BY <1>3, <2>1 DEF Retry, May, Adds
  <2>3. \E output : Step("retry", <<>>, output)
    BY <2>2, AskIsStep, EmptySeq
  <2>. QED BY <2>3
<1>4. CASE Resume
  <2>1. TurnOf("resume") = client.turn
    BY DEF TurnOf
  <2>2. Ask(TurnOf("resume"), "resume", <<>>) /\ May("resume") /\ Adds("resume", <<>>)
    BY <1>4, <2>1 DEF Resume, May, Adds
  <2>3. \E output : Step("resume", <<>>, output)
    BY <2>2, AskIsStep, EmptySeq
  <2>. QED BY <2>3
<1>5. CASE Compact
  <2> DEFINE added == <<Trigger>>
  <2>1. PICK output \in {Failed, Compacted} :
          /\ Send(client.turn, "compact", added, output)
          /\ client' = IF output = Failed THEN client
                       ELSE [client EXCEPT !.history = Compacted, !.mode = "compacted"]
    BY <1>5 DEF Compact, Trigger
  <2>2. TurnOf("compact") = client.turn
    BY DEF TurnOf
  <2>3. May("compact") /\ Adds("compact", added)
    BY <1>5 DEF Compact, May, Adds
  <2>4. added \in Seq(Items) /\ Compacted \in Seq(Items) /\ Failed \in Seq(Items)
    BY KnownItems DEF Compacted, Failed
  <2>5. output \in Seq(Items)
    BY <2>1, <2>4
  <2>6. /\ client' \in Clients /\ client'.named = client.named /\ client'.turn = client.turn
        /\ \/ output = Failed /\ client' = client
           \/ output = Compacted /\ client'.history = Compacted /\ client'.mode = "compacted"
    <3> HIDE DEF added
    <3>1. CASE output = Failed
      BY <1>0, <2>1, <3>1
    <3>2. CASE output # Failed
      <4>1. output = Compacted
        BY <2>1, <3>2
      <4>2. client' = [client EXCEPT !.history = Compacted, !.mode = "compacted"]
        BY <2>1, <3>2
      <4>. QED BY <1>0, <2>4, <4>1, <4>2 DEF Clients
    <3>. QED BY <3>1, <3>2
  <2> HIDE DEF added
  <2>7. Step("compact", added, output)
    BY <2>1, <2>2, <2>3, <2>4, <2>5, <2>6, Zenon DEF Step, Send
  <2>. QED BY <2>7
<1>. QED BY <1>1, <1>2, <1>3, <1>4, <1>5 DEF Client

-----------------------------------------------------------------------------
(* The last user message.                                                   *)

LastUser(items, p) ==
    /\ p \in 1..Len(items) /\ IsUserText(items[p])
    /\ \A j \in 1..Len(items) : j > p => ~IsUserText(items[j])

\* UserText is the text of the last user message.
LEMMA UserTextAt ==
  ASSUME NEW items \in Seq(Items), NEW p, LastUser(items, p)
  PROVE  UserText(items) = items[p].text
<1> DEFINE P(i) == i \in DOMAIN items /\ IsUserText(items[i])
                   /\ \A j \in DOMAIN items : j > i => ~IsUserText(items[j])
           q == CHOOSE i \in DOMAIN items :
                   IsUserText(items[i]) /\ \A j \in DOMAIN items : j > i => ~IsUserText(items[j])
<1>1. DOMAIN items = 1..Len(items) /\ Len(items) \in Nat
  OBVIOUS
<1>2. P(p)
  BY <1>1 DEF LastUser
<1>3. P(q)
  BY <1>2, Zenon
<1>4. UserText(items) = items[q].text
  BY <1>2, Zenon DEF UserText
<1> HIDE DEF q
<1>5. p \in Nat /\ q \in Nat /\ ~(p > q) /\ ~(q > p)
  BY <1>1, <1>2, <1>3
<1>6. p = q
  BY <1>5
<1>. QED BY <1>4, <1>6

\* It is Missing where there is none.
LEMMA UserTextCases ==
  ASSUME NEW items \in Seq(Items)
  PROVE  \/ (\A i \in 1..Len(items) : ~IsUserText(items[i])) /\ UserText(items) = Missing
         \/ \E p : LastUser(items, p) /\ UserText(items) = items[p].text
<1> DEFINE T == {i \in 1..Len(items) : IsUserText(items[i])}
<1>1. DOMAIN items = 1..Len(items) /\ Len(items) \in Nat
  OBVIOUS
<1>2. CASE T = {}
  <2>1. \A i \in 1..Len(items) : ~IsUserText(items[i])
    BY <1>2
  <2>. QED BY <1>1, <2>1, Zenon DEF UserText
<1>3. CASE T # {}
  <2>1. T \subseteq 0..Len(items)
    BY <1>1
  <2>2. Max(T) \in T /\ \A y \in T : y <= Max(T)
    BY <1>1, <1>3, <2>1, MaxOfPositions
  <2> DEFINE p == Max(T)
  <2>3. p \in 1..Len(items) /\ IsUserText(items[p])
    BY <2>2
  <2>4. ASSUME NEW j \in 1..Len(items), j > p, IsUserText(items[j]) PROVE FALSE
    <3>1. j \in T
      BY <2>4
    <3> HIDE DEF T
    <3>2. j <= p
      BY <2>2, <3>1
    <3> HIDE DEF p
    <3>. QED BY <1>1, <2>3, <2>4, <3>2
  <2>5. LastUser(items, p)
    BY <2>3, <2>4, Zenon DEF LastUser
  <2>. QED BY <2>5, UserTextAt
<1>. QED BY <1>2, <1>3

\* Items without user text after a conversation do not change it.
LEMMA UserTextKept ==
  ASSUME NEW s \in Seq(Items), NEW t \in Seq(Items), \A i \in 1..Len(t) : ~IsUserText(t[i])
  PROVE  UserText(s \o t) = UserText(s)
<1> DEFINE u == s \o t
<1>1. /\ u \in Seq(Items) /\ Len(u) = Len(s) + Len(t) /\ Len(s) \in Nat /\ Len(t) \in Nat
      /\ \A i \in 1..Len(s) : u[i] = s[i]
      /\ \A i \in 1..(Len(s) + Len(t)) : i \in 1..Len(s) \/ (i - Len(s) \in 1..Len(t) /\ u[i] = t[i - Len(s)])
  BY Joins DEF Two
<1> HIDE DEF u
<1>2. \A i \in 1..Len(u) : i \in 1..Len(s) \/ ~IsUserText(u[i])
  BY <1>1
<1>3. CASE \A i \in 1..Len(s) : ~IsUserText(s[i])
  <2>1. \A i \in 1..Len(u) : ~IsUserText(u[i])
    BY <1>1, <1>2, <1>3
  <2>2. UserText(u) = Missing
    BY <1>1, <2>1, UserTextCases DEF LastUser
  <2>3. UserText(s) = Missing
    BY <1>3, UserTextCases DEF LastUser
  <2>. QED BY <2>2, <2>3 DEF u
<1>4. CASE \E p : LastUser(s, p)
  <2>1. PICK p : LastUser(s, p)
    BY <1>4
  <2>2. p \in 1..Len(s) /\ IsUserText(s[p]) /\ \A j \in 1..Len(s) : j > p => ~IsUserText(s[j])
    BY <2>1 DEF LastUser
  <2>3. p \in 1..Len(u) /\ u[p] = s[p]
    BY <1>1, <2>2
  <2>4. \A j \in 1..Len(u) : j > p => ~IsUserText(u[j])
    BY <1>1, <1>2, <2>2
  <2>5. LastUser(u, p)
    BY <2>2, <2>3, <2>4 DEF LastUser
  <2>6. UserText(u) = u[p].text /\ UserText(s) = s[p].text
    BY <1>1, <2>1, <2>5, UserTextAt
  <2>. QED BY <2>3, <2>6 DEF u
<1>. QED BY <1>3, <1>4, UserTextCases

\* A user message at the end is the last.
LEMMA UserTextSaid ==
  ASSUME NEW s \in Seq(Items), NEW c \in Commands
  PROVE  UserText(s \o <<Message("user", c)>>) = c
<1> DEFINE t == <<Message("user", c)>>
           u == s \o t
           p == Len(s) + 1
<1>1. t \in Seq(Items) /\ Len(t) = 1 /\ t[1] = Message("user", c)
  BY KnownItems
<1>2. c # NoText
  BY ViewsAssumption
<1>3. IsUserText(t[1]) /\ t[1].text = c
  BY <1>1, <1>2 DEF IsUserText, Message
<1> HIDE DEF t
<1>4. /\ u \in Seq(Items) /\ Len(u) = Len(s) + Len(t) /\ Len(s) \in Nat
      /\ \A i \in 1..Len(t) : u[Len(s) + i] = t[i]
  BY <1>1, Joins DEF Two
<1> HIDE DEF u
<1>5. Len(u) = p /\ u[p] = t[1] /\ p \in 1..Len(u) /\ \A j \in 1..Len(u) : ~(j > p)
  BY <1>1, <1>4
<1>6. LastUser(u, p)
  BY <1>3, <1>5 DEF LastUser
<1>7. UserText(u) = u[p].text
  BY <1>4, <1>6, UserTextAt
<1>8. UserText(u) = c
  BY <1>3, <1>5, <1>7
<1>. QED BY <1>8 DEF u, t

\* No answer, tool result or compaction is a user's.
LEMMA NotUsers ==
  /\ \A n \in Nat : \A output \in Answers(n) : \A i \in 1..Len(output) : ~IsUserText(output[i])
  /\ \A i \in 1..Len(Compacted) : ~IsUserText(Compacted[i])
  /\ \A i \in 1..Len(<<>>) : ~IsUserText(<<>>[i])
  /\ \A i \in 1..Len(<<Trigger>>) : ~IsUserText(<<Trigger>>[i])
  /\ \A n \in Nat : \A i \in 1..Len(<<ToolResult(n)>>) : ~IsUserText(<<ToolResult(n)>>[i])
<1>1. \A type, n : ~IsUserText(ItemOf(type, n))
  BY DEF IsUserText, ItemOf, NoText
<1>2. ~IsUserText(Message("assistant", "reply"))
  BY DEF IsUserText, Message
<1>3. ASSUME NEW n \in Nat, NEW output \in Answers(n), NEW i \in 1..Len(output) PROVE ~IsUserText(output[i])
  <2>1. output # <<>>
    BY <1>3
  <2>2. CASE output = Reply
    <3>1. i \in 1..2 /\ output = <<ItemOf("reasoning", 0), Message("assistant", "reply")>>
      BY <1>3, <2>2 DEF Reply
    <3>. QED BY <1>1, <1>2, <3>1
  <2>3. CASE output = CallOf(n)
    <3>1. i \in 1..2 /\ output = <<Message("assistant", "reply"), ItemOf("function_call", n)>>
      BY <1>3, <2>3 DEF CallOf
    <3>. QED BY <1>1, <1>2, <3>1
  <2>. QED BY <2>1, <2>2, <2>3 DEF Answers, Failed
<1>4. \A i \in 1..Len(Compacted) : ~IsUserText(Compacted[i])
  BY <1>1 DEF Compacted
<1>5. \A i \in 1..Len(<<>>) : ~IsUserText(<<>>[i])
  OBVIOUS
<1>6. \A i \in 1..Len(<<Trigger>>) : ~IsUserText(<<Trigger>>[i])
  BY <1>1 DEF Trigger
<1>7. \A n \in Nat : \A i \in 1..Len(<<ToolResult(n)>>) : ~IsUserText(<<ToolResult(n)>>[i])
  BY <1>1 DEF ToolResult
<1>. QED BY <1>3, <1>4, <1>5, <1>6, <1>7

-----------------------------------------------------------------------------
(* One step: the request it adds.                                           *)

\* The requests after a step, and the new one.
LEMMA NewRequest ==
  ASSUME Typed, NEW asks, NEW added, NEW output, Step(asks, added, output)
  PROVE  LET n == Len(made) + 1
             h == client.history
         IN  /\ made' \in Seq(Requests) /\ Len(made') = n /\ DOMAIN made' = 1..n
             /\ Len(made) \in Nat /\ DOMAIN made = 1..Len(made) /\ n \in 1..n /\ n \in Nat
             /\ \A i \in 1..n : i # n => i \in 1..Len(made) /\ made'[i] = made[i]
             /\ \A i \in 1..Len(made) : i \in 1..n /\ i # n /\ i < n /\ made'[i] = made[i]
             /\ made'[n].turn = TurnOf(asks) /\ made'[n].asks = asks
             /\ made'[n].kind = (IF asks = "compact" /\ client.named THEN "compact" ELSE NoText)
             /\ made'[n].input = h \o added /\ made'[n].added = added /\ made'[n].output = output
             /\ made'[n].command = UserText(h \o added)
             /\ made'[n].succeeded = (output # Failed) /\ made'[n].started = n
<1> DEFINE n == Len(made) + 1
           h == client.history
           r == Request(TurnOf(asks), asks, added, output)
<1>1. made \in Seq(Requests) /\ Len(made) \in Nat /\ h \in Seq(Items) /\ client.turn \in Nat
  BY DEF Typed, Clients
<1>2. added \in Seq(Items) /\ output \in Seq(Items) /\ made' = Append(made, r)
  BY DEF Step
<1>3. asks \in {"command", "continue", "retry", "resume", "compact"}
  BY DEF Step, May
<1>4. h \o added \in Seq(Items)
  BY <1>1, <1>2, ConcatProperties
<1>5. UserText(h \o added) \in {Missing} \cup {item.text : item \in Items}
  <2> DEFINE s == h \o added
  <2>1. s \in Seq(Items)
    BY <1>4
  <2> HIDE DEF s
  <2>2. \/ UserText(s) = Missing
        \/ \E p : LastUser(s, p) /\ UserText(s) = s[p].text
    BY <2>1, UserTextCases
  <2>3. ASSUME NEW p, LastUser(s, p), UserText(s) = s[p].text
        PROVE  UserText(s) \in {item.text : item \in Items}
    <3>1. s[p] \in Items
      BY <2>1, <2>3, ElementOfSeq DEF LastUser
    <3>. QED BY <2>3, <3>1
  <2>. QED BY <2>2, <2>3 DEF s
<1>6. TurnOf(asks) \in Nat
  BY <1>1 DEF TurnOf
<1> DEFINE kind == IF asks = "compact" /\ client.named THEN "compact" ELSE NoText
           input == h \o added
           command == UserText(h \o added)
           succeeded == output # Failed
<1>7. kind \in {NoText, "compact"} /\ succeeded \in BOOLEAN /\ n \in Nat
  BY <1>1
<1>8. r = [turn |-> TurnOf(asks), asks |-> asks, kind |-> kind, input |-> input, added |-> added,
           output |-> output, command |-> command, succeeded |-> succeeded, started |-> n]
  BY Zenon DEF Request
<1> HIDE DEF kind, input, command, succeeded, n, r
<1>9. r \in Requests
  BY <1>2, <1>3, <1>4, <1>5, <1>6, <1>7, <1>8 DEF Requests, input, command
<1>10. /\ r.turn = TurnOf(asks) /\ r.asks = asks /\ r.kind = kind /\ r.input = input /\ r.added = added
       /\ r.output = output /\ r.command = command /\ r.succeeded = succeeded /\ r.started = n
  BY <1>8
<1>11. /\ made' \in Seq(Requests) /\ Len(made') = Len(made) + 1
       /\ \A i \in 1..Len(made) : made'[i] = made[i]
       /\ made'[Len(made) + 1] = r
  BY <1>1, <1>2, <1>9, AppendProperties
<1>12. DOMAIN made' = 1..n /\ DOMAIN made = 1..Len(made) /\ n \in 1..n /\ n \in Nat
       /\ (\A i \in 1..n : i # n => i \in 1..Len(made)) /\ \A i \in 1..Len(made) : i \in 1..n /\ i # n /\ i < n
  BY <1>1, <1>11 DEF n
<1>13. made'[n] = r
  BY <1>11 DEF n
<1>. QED BY <1>1, <1>10, <1>11, <1>12, <1>13 DEF n, kind, input, command, succeeded

\* A step of the client keeps the types.
LEMMA TypedStep ==
  ASSUME Typed, NEW asks, NEW added, NEW output, Step(asks, added, output)
  PROVE  Typed'
<1>1. client' \in Clients /\ arrived' = arrived /\ client \in Clients /\ client.history \in Seq(Items)
  BY DEF Step, Typed, Clients
<1>2. made' \in Seq(Requests) /\ DOMAIN made = 1..Len(made) /\ Len(made) \in Nat
      /\ DOMAIN made' = 1..(Len(made) + 1)
  BY NewRequest
<1>3. arrived' \in Seq(DOMAIN made')
  <2>1. DOMAIN made \subseteq DOMAIN made'
    BY <1>2
  <2>2. arrived \in Seq(DOMAIN made)
    BY DEF Typed
  <2>. QED BY <1>1, <2>1, <2>2, SeqMonotonic
<1>4. ASSUME client'.mode = "called"
      PROVE  client'.history # <<>> /\ \E n \in Nat : Last(client'.history) = ItemOf("function_call", n)
  <2> DEFINE N == Len(made) + 1
             s == client.history \o added
  <2>1. N \in Nat
    BY <1>2
  <2>2. CASE asks # "compact"
    <3>1. output \in Answers(N) /\ client'.history = s \o output /\ client'.mode = ModeAfter(output)
          /\ added \in Seq(Items)
      BY <2>2 DEF Step
    <3>2. output = CallOf(N)
      BY <1>4, <2>1, <3>1, AnswerFacts
    <3>3. output \in Seq(Items) /\ Len(output) = 2 /\ output[2] = ItemOf("function_call", N)
      <4>1. output \in Seq(Items)
        BY <2>1, <3>1, AnswerFacts
      <4> HIDE DEF N
      <4>. QED BY <3>2, <4>1 DEF CallOf
    <3>4. s \in Seq(Items)
      BY <1>1, <3>1, ConcatProperties
    <3> HIDE DEF s
    <3>5. /\ Len(s) \in Nat /\ Len(s \o output) = Len(s) + Len(output)
          /\ \A i \in 1..Len(output) : (s \o output)[Len(s) + i] = output[i]
      <4>1. Two(s, output, Items)
        BY <3>3, <3>4 DEF Two
      <4>. QED BY <4>1, Joins
    <3> DEFINE u == s \o output
    <3> HIDE DEF u
    <3>8. Len(u) = Len(s) + 2 /\ u[Len(s) + 2] = output[2]
      BY <3>3, <3>5 DEF u
    <3>6. client'.history # <<>>
      <4>1. client'.history = u
        BY <3>1 DEF u
      <4>. QED BY <3>5, <3>8, <4>1
    <3>7. Last(client'.history) = ItemOf("function_call", N)
      BY <3>1, <3>3, <3>8 DEF Last, u
    <3>. QED BY <2>1, <3>6, <3>7
  <2>3. CASE asks = "compact"
    <3>1. \/ client' = client
          \/ client'.mode = "compacted"
      BY <2>3 DEF Step
    <3>2. client' = client
      BY <1>4, <3>1
    <3>. QED BY <1>4, <3>2 DEF Typed
  <2>. QED BY <2>2, <2>3
<1>. QED BY <1>1, <1>2, <1>3, <1>4 DEF Typed

\* What a step may do to the views.
LEMMA ViewsSteps ==
  ASSUME Typed, [Next]_allVars
  PROVE  \/ UNCHANGED readings /\ \E asks, added, output : Step(asks, added, output)
         \/ UNCHANGED readings /\ \E i \in 1..MaxRequests : Arrive(i)
         \/ UNCHANGED views
<1>1. CASE UNCHANGED allVars
  BY <1>1 DEF allVars
<1>2. CASE Client /\ UNCHANGED readings
  BY <1>2, ClientStep
<1>. QED BY <1>1, <1>2, Zenon DEF Next

\* The types hold initially.
LEMMA TypedInit ==
  Init => Typed
<1> SUFFICES ASSUME Init PROVE Typed
  OBVIOUS
<1>1. client \in [named : BOOLEAN, turn : {0}, history : Priors, mode : {"idle"}] /\ made = <<>> /\ arrived = <<>>
  BY DEF Init, ViewsInit
<1>2. Priors \subseteq Seq(Items)
  <2>1. PriorItems \subseteq Items
    BY DEF Items
  <2>. QED BY <2>1, PriorsAssumption, SeqMonotonic
<1>3. client \in Clients /\ client.mode = "idle"
  BY <1>1, <1>2 DEF Clients
<1>. QED BY <1>1, <1>3 DEF Typed

\* And every step keeps them.
LEMMA TypedNext ==
  Typed /\ [Next]_allVars => Typed'
<1> SUFFICES ASSUME Typed, [Next]_allVars PROVE Typed'
  OBVIOUS
<1>1. CASE \E asks, added, output : Step(asks, added, output)
  BY <1>1, TypedStep
<1>2. CASE \E i \in 1..MaxRequests : Arrive(i)
  <2>1. PICK i : Arrive(i)
    BY <1>2
  <2>2. i \in DOMAIN made /\ arrived' = Append(arrived, i) /\ client' = client /\ made' = made
    BY <2>1 DEF Arrive
  <2>3. arrived \in Seq(DOMAIN made)
    BY DEF Typed
  <2>4. arrived' \in Seq(DOMAIN made)
    BY <2>2, <2>3, AppendProperties
  <2>. QED BY <2>2, <2>4 DEF Typed
<1>3. CASE UNCHANGED views
  BY <1>3 DEF Typed, views
<1>. QED BY <1>1, <1>2, <1>3, ViewsSteps

\* Typed always holds.
THEOREM ViewsTyped ==
  Spec => []Typed
BY TypedInit, TypedNext, PTL DEF Spec

\* The timelines of a session hide nothing, in whatever order its requests
\* are archived: what a timeline leaves out as history, the request archived
\* before it sent or was answered, and so on down to the first
\* (timeline.go:131-171).
THEOREM NothingIsHidden ==
  Spec => []NothingHidden
<1>1. ASSUME Typed PROVE NothingHidden
  <2>1. SUFFICES ASSUME arrived # <<>>
                 PROVE  ToSet(CollectEntries(made[Last(arrived)].input)) \subseteq UNION {Shown(j) : j \in DOMAIN arrived}
    BY DEF NothingHidden
  <2> DEFINE N == Len(arrived)
  <2>2. N \in Nat /\ N > 0 /\ DOMAIN arrived = 1..N /\ \A k \in 1..N : arrived[k] \in DOMAIN made
    <3>1. arrived \in Seq(DOMAIN made)
      BY <1>1 DEF Typed
    <3>. QED BY <2>1, <3>1, ElementOfSeq
  <2>3. made \in Seq(Requests) /\ DOMAIN made = 1..Len(made)
    BY <1>1 DEF Typed
  <2>4. \A k \in 1..N : Records[k] = made[arrived[k]]
    BY <2>2 DEF Records
  <2>5. ASSUME NEW k \in 1..N PROVE Records[k].input \in Seq(Items) /\ Records[k].output \in Seq(Items)
    <3>1. made[arrived[k]] \in Requests
      BY <2>2, <2>3, ElementOfSeq
    <3>. QED BY <2>4, <3>1 DEF Requests
  <2>6. ToSet(CollectEntries(Records[N].input)) \subseteq UNION {ShownBy(Records, j) : j \in 1..N}
    <3>1. \A k \in 1..N : ToSet(CollectEntries(Records[k].input)) \subseteq UNION {ShownBy(Records, j) : j \in 1..N}
      BY <2>2, <2>5, AllShown
    <3>2. N \in 1..N
      BY <2>2
    <3>. QED BY <3>1, <3>2, Zenon
  <2>7. \A j : Shown(j) = ShownBy(Records, j)
    BY Zenon DEF Shown, ShownBy
  <2>8. Records[N] = made[Last(arrived)]
    BY <2>2, <2>4 DEF Last
  <2> HIDE DEF N
  <2>9. UNION {ShownBy(Records, j) : j \in 1..N} \subseteq UNION {Shown(j) : j \in DOMAIN arrived}
    BY <2>2, <2>7
  <2>. QED BY <2>6, <2>8, <2>9
<1>. QED BY <1>1, ViewsTyped, PTL

-----------------------------------------------------------------------------
(* The loop of sessionTurnGroups.                                           *)

Told == {Missing} \cup {item.text : item \in Items}
Names == {Missing} \cup ToSet(TurnNames)
TurnIds == [explicit : ToSet(TurnNames)] \cup [derived : Nat]
Rows == [request : Nat, explicit : Names, command : Told, compaction : BOOLEAN]
Cards == [turn : TurnIds, explicit : Names, command : Told, requests : Seq(Nat), compaction : BOOLEAN]

\* A row makes a card, or makes a card longer.
LEMMA CardTypes ==
  ASSUME NEW row \in Rows
  PROVE  /\ NewGroup(row) \in Cards
         /\ \A card \in Cards : Joined(card, row) \in Cards
<1>1. /\ row.request \in Nat /\ row.explicit \in Names /\ row.command \in Told /\ row.compaction \in BOOLEAN
      /\ TurnID(row.explicit, row.request) \in TurnIds
  BY DEF Rows, TurnID, TurnIds, Names
<1>2. NewGroup(row) \in Cards
  <2>1. <<row.request>> \in Seq(Nat)
    BY <1>1
  <2>. QED BY <1>1, <2>1 DEF NewGroup, Cards
<1>3. ASSUME NEW card \in Cards PROVE Joined(card, row) \in Cards
  <2>1. /\ card.turn \in TurnIds /\ card.explicit \in Names /\ card.command \in Told
        /\ card.requests \in Seq(Nat) /\ card.compaction \in BOOLEAN
    BY DEF Cards
  <2>2. Append(card.requests, row.request) \in Seq(Nat)
    BY <1>1, <2>1, AppendProperties
  <2> DEFINE adopts == card.explicit = Missing /\ row.explicit # Missing
             turn == IF adopts THEN TurnID(row.explicit, row.request) ELSE card.turn
             explicit == IF adopts THEN row.explicit ELSE card.explicit
             command == IF card.command = Missing THEN row.command ELSE card.command
             compaction == card.compaction \/ row.compaction
             requests == Append(card.requests, row.request)
  <2>3. turn \in TurnIds /\ explicit \in Names /\ command \in Told /\ compaction \in BOOLEAN
        /\ requests \in Seq(Nat)
    BY <1>1, <2>1, <2>2
  <2>4. Joined(card, row) = [turn |-> turn, explicit |-> explicit, command |-> command,
                             requests |-> requests, compaction |-> compaction]
    BY Zenon DEF Joined
  <2> HIDE DEF turn, explicit, command, compaction, requests
  <2>. QED BY <2>3, <2>4 DEF Cards
<1>. QED BY <1>2, <1>3

\* One row: the cards before the last stay, and the last is joined or followed
\* by a new one.
LEMMA GroupedCards ==
  ASSUME NEW groups \in Seq(Cards), NEW row \in Rows
  PROVE  /\ Grouped(groups, row) \in Seq(Cards)
         /\ \/ /\ groups = <<>> \/ StartsNew(Last(groups), row)
               /\ Len(Grouped(groups, row)) = Len(groups) + 1
               /\ Grouped(groups, row)[Len(groups) + 1] = NewGroup(row)
               /\ \A g \in 1..Len(groups) : Grouped(groups, row)[g] = groups[g]
            \/ /\ groups # <<>> /\ ~StartsNew(Last(groups), row)
               /\ Len(groups) \in 1..Len(groups) /\ Len(Grouped(groups, row)) = Len(groups)
               /\ \A g \in 1..Len(groups) :
                     Grouped(groups, row)[g] = IF g = Len(groups) THEN Joined(groups[g], row) ELSE groups[g]
<1> DEFINE N == Len(groups)
           out == Grouped(groups, row)
           fresh == groups = <<>> \/ StartsNew(Last(groups), row)
<1>1. N \in Nat /\ DOMAIN groups = 1..N /\ (groups # <<>> => N \in 1..N) /\ \A g \in 1..N : groups[g] \in Cards
  BY ElementOfSeq
<1>2. NewGroup(row) \in Cards /\ \A card \in Cards : Joined(card, row) \in Cards
  BY CardTypes
<1>3. CASE fresh
  <2>1. out = Append(groups, NewGroup(row))
    BY <1>3, Zenon DEF Grouped
  <2> DEFINE card == NewGroup(row)
  <2> HIDE DEF card, out, fresh
  <2>2. /\ Append(groups, card) \in Seq(Cards) /\ Len(Append(groups, card)) = Len(groups) + 1
        /\ \A i \in 1..Len(groups) : Append(groups, card)[i] = groups[i]
        /\ Append(groups, card)[Len(groups) + 1] = card
    BY <1>2, AppendProperties DEF card
  <2>. QED BY <1>3, <2>1, <2>2 DEF card, out, fresh
<1>4. CASE ~fresh
  <2> DEFINE card == Joined(groups[N], row)
  <2>1. out = [groups EXCEPT ![N] = card]
    BY <1>4, Zenon DEF Grouped
  <2>2. N \in 1..N /\ card \in Cards
    BY <1>1, <1>2, <1>4
  <2> HIDE DEF card, out, fresh
  <2>3. /\ out \in Seq(Cards) /\ Len(out) = N
        /\ \A j \in 1..N : out[j] = IF j = N THEN card ELSE groups[j]
    BY <2>1, <2>2, ExceptSeq
  <2>4. groups # <<>> /\ ~StartsNew(Last(groups), row)
    BY <1>4 DEF fresh
  <2>5. \A g \in 1..N : out[g] = IF g = N THEN Joined(groups[g], row) ELSE groups[g]
    BY <2>3 DEF card
  <2>. QED BY <2>2, <2>3, <2>4, <2>5 DEF out
<1>. QED BY <1>3, <1>4

\* f holds the cards after each row.
Deals(f, rows) ==
    /\ f \in [0..Len(rows) -> Seq(Cards)] /\ f[0] = <<>>
    /\ \A n \in 1..Len(rows) : f[n] = Grouped(f[n - 1], rows[n])

\* Groups is such a loop.
LEMMA GroupsLoop ==
  ASSUME NEW rows \in Seq(Rows)
  PROVE  \E f : Deals(f, rows) /\ Groups(rows) = f[Len(rows)]
<1> DEFINE N == Len(rows)
           One(before, n) == CHOOSE groups \in {Grouped(b, rows[n]) : b \in {before}} : TRUE
           Sol(f) == f = [n \in 0..N |-> IF n = 0 THEN <<>> ELSE One(f[n - 1], n)]
           out == CHOOSE f : Sol(f)
<1>1. N \in Nat /\ \A n \in 1..N : rows[n] \in Rows
  BY ElementOfSeq
<1>2. Groups(rows) = out[N]
  BY Zenon DEF Groups
<1>3. ASSUME NEW before, NEW n PROVE One(before, n) = Grouped(before, rows[n])
  <2>1. {Grouped(b, rows[n]) : b \in {before}} = {Grouped(before, rows[n])}
    BY Zenon
  <2>. QED BY <2>1, Zenon
<1> HIDE DEF N, One
<1>4. PICK f : Deals(f, rows)
  <2> DEFINE F == [n \in 1..N |-> [s \in Seq(Cards) |-> Grouped(s, rows[n])]]
  <2>1. \A n \in 1..N : \A s \in Seq(Cards) : Grouped(s, rows[n]) \in Seq(Cards)
    BY <1>1, GroupedCards
  <2>2. StepOf(F, N, Seq(Cards))
    BY <2>1 DEF StepOf
  <2>3. \A n \in 1..N : \A s \in Seq(Cards) : F[n][s] = Grouped(s, rows[n])
    OBVIOUS
  <2> HIDE DEF F
  <2>4. <<>> \in Seq(Cards)
    OBVIOUS
  <2>5. PICK f : Runs(f, F, N, Seq(Cards), <<>>)
    BY <1>1, <2>2, <2>4, LoopSolved
  <2>6. /\ f \in [0..N -> Seq(Cards)] /\ f[0] = <<>>
        /\ \A n \in 1..N : f[n] = F[n][f[n - 1]]
    BY <2>5 DEF Runs
  <2>7. \A n \in 1..N : f[n - 1] \in Seq(Cards)
    <3>1. \A n \in 1..N : n - 1 \in 0..N
      BY <1>1
    <3>. QED BY <2>6, <3>1
  <2>8. \A n \in 1..N : f[n] = Grouped(f[n - 1], rows[n])
    BY <2>3, <2>6, <2>7
  <2>. QED BY <2>6, <2>8 DEF Deals, N
<1>5. f \in [0..N -> Seq(Cards)] /\ f[0] = <<>> /\ \A n \in 1..N : f[n] = Grouped(f[n - 1], rows[n])
  BY <1>4 DEF Deals, N
<1>6. Sol(f)
  <2>1. f = [n \in 0..N |-> f[n]]
    BY <1>5
  <2>2. ASSUME NEW n \in 0..N PROVE f[n] = IF n = 0 THEN <<>> ELSE One(f[n - 1], n)
    <3>1. n = 0 \/ n \in 1..N
      BY <1>1
    <3>2. CASE n = 0
      BY <3>2, <1>5
    <3>3. CASE n \in 1..N
      <4>1. n # 0 /\ f[n] = Grouped(f[n - 1], rows[n])
        BY <3>3, <1>1, <1>5
      <4>. QED BY <1>3, <4>1, Zenon
    <3>. QED BY <3>1, <3>2, <3>3
  <2>. QED BY <2>1, <2>2, Zenon
<1>7. Sol(out)
  BY <1>6, Zenon
<1> HIDE DEF out
<1>8. out[0] = <<>> /\ \A n \in 1..N : out[n] = Grouped(out[n - 1], rows[n])
  <2>1. 0 \in 0..N /\ \A n \in 1..N : n \in 0..N /\ n # 0
    BY <1>1
  <2>2. \A n \in 0..N : out[n] = IF n = 0 THEN <<>> ELSE One(out[n - 1], n)
    BY <1>7, Zenon
  <2>. QED BY <1>3, <2>1, <2>2, Zenon
<1> DEFINE T == {n \in 0..N : out[n] = f[n]}
<1>9. 0 \in T
  BY <1>1, <1>5, <1>8
<1>10. ASSUME NEW n \in 1..N, n - 1 \in T PROVE n \in T
  <2>1. n \in 0..N
    BY <1>1
  <2>2. out[n] = f[n]
    BY <1>5, <1>8, <1>10, Zenon
  <2>. QED BY <2>1, <2>2
<1> HIDE DEF T
<1>11. \A n \in 0..N : n \in T
  BY <1>1, <1>9, <1>10, Loop
<1>12. out[N] = f[N]
  <2>1. N \in T
    BY <1>1, <1>11
  <2>. QED BY <2>1 DEF T
<1>. QED BY <1>2, <1>4, <1>12, Zenon DEF N

-----------------------------------------------------------------------------
(* Turns and commands.                                                      *)

\* Request m is the command of turn t.
Opens(m, t) == made[m].asks = "command" /\ made[m].turn = t

\* The turns follow each other, and each begins with its one command.
TurnsTold ==
    /\ client.turn \in 0..Len(made) /\ Len(made) <= MaxRequests
    /\ client.turn = 0 => made = <<>> /\ client.mode = "idle"
    /\ \A i \in DOMAIN made : made[i].turn \in 1..client.turn
    /\ \A i, j \in DOMAIN made : i < j => made[i].turn <= made[j].turn
    /\ \A i \in DOMAIN made : \E m \in 1..i : Opens(m, made[i].turn)
    /\ client.turn > 0 => \E m \in DOMAIN made : Opens(m, client.turn)
    /\ \A i, j \in DOMAIN made : \A t : Opens(i, t) /\ Opens(j, t) => i = j

\* Initially there are none.
LEMMA TurnsToldInit ==
  Init => TurnsTold
<1> SUFFICES ASSUME Init PROVE TurnsTold
  OBVIOUS
<1>1. client \in [named : BOOLEAN, turn : {0}, history : Priors, mode : {"idle"}] /\ made = <<>> /\ arrived = <<>>
  BY DEF Init, ViewsInit
<1>2. client.turn = 0 /\ client.mode = "idle"
  BY <1>1
<1>3. Len(made) = 0 /\ DOMAIN made = {} /\ MaxRequests \in Nat
  BY <1>1, ViewsAssumption
<1>. QED BY <1>1, <1>2, <1>3 DEF TurnsTold

\* A step of the client begins a turn with a command, or stays in its turn.
LEMMA TurnsToldStep ==
  ASSUME Typed, TurnsTold, NEW asks, NEW added, NEW output, Step(asks, added, output)
  PROVE  TurnsTold'
<1>0. PICK L, n, t : L = Len(made) /\ n = Len(made) + 1 /\ t = TurnOf(asks)
  OBVIOUS
<1>1. /\ made' \in Seq(Requests) /\ Len(made') = n /\ DOMAIN made' = 1..n
      /\ L \in Nat /\ DOMAIN made = 1..L /\ n \in 1..n
      /\ \A i \in 1..n : i # n => i \in 1..L /\ made'[i] = made[i]
      /\ \A i \in 1..L : i \in 1..n /\ i # n /\ i < n /\ made'[i] = made[i]
      /\ made'[n].turn = t /\ made'[n].asks = asks
  BY <1>0, NewRequest
<1>2. /\ client'.turn = t /\ L < MaxRequests /\ client' \in Clients
      /\ May(asks)
  BY <1>0 DEF Step
<1>3. client.turn \in Nat /\ client.turn \in 0..L /\ (client.turn = 0 => made = <<>> /\ client.mode = "idle")
  BY <1>0 DEF Typed, Clients, TurnsTold
<1>4. asks = "command" \/ client.turn > 0
  <2>1. CASE client.turn = 0
    <3>1. client.mode = "idle"
      BY <1>3, <2>1
    <3>. QED BY <1>2, <2>1, <3>1 DEF May
  <2>. QED BY <1>3, <2>1
<1>5. /\ asks = "command" => t = client.turn + 1
      /\ asks # "command" => t = client.turn
  BY <1>0 DEF TurnOf
<1>6. t \in Nat /\ t > 0 /\ t >= client.turn
  BY <1>3, <1>4, <1>5
<1>7. n \in Nat /\ n = L + 1
  BY <1>0, <1>1
<1>8. client'.turn \in 0..Len(made') /\ Len(made') <= MaxRequests
  <2>1. MaxRequests \in Nat
    BY ViewsAssumption
  <2>. QED BY <1>1, <1>2, <1>3, <1>5, <1>6, <1>7, <2>1
<1>9. client'.turn # 0
  BY <1>2, <1>6
<1>10. ASSUME NEW i \in 1..L PROVE made[i].turn \in 1..client.turn /\ made[i].turn \in 1..t
  <2>1. made[i].turn \in 1..client.turn
    BY <1>1 DEF TurnsTold
  <2>. QED BY <1>3, <1>6, <2>1
<1>11. ASSUME NEW i \in DOMAIN made' PROVE made'[i].turn \in 1..client'.turn
  <2>1. CASE i = n
    BY <1>1, <1>2, <1>6, <2>1
  <2>2. CASE i # n
    BY <1>1, <1>2, <1>10, <1>11, <2>2
  <2>. QED BY <2>1, <2>2
<1>12. ASSUME NEW i \in DOMAIN made', NEW j \in DOMAIN made', i < j PROVE made'[i].turn <= made'[j].turn
  <2>1. i \in 1..n /\ j \in 1..n /\ i # n
    BY <1>1, <1>7, <1>12
  <2>2. i \in 1..L /\ made'[i] = made[i]
    BY <1>1, <2>1
  <2>3. CASE j = n
    BY <1>1, <1>6, <1>10, <2>2, <2>3
  <2>4. CASE j # n
    <3>1. j \in 1..L /\ made'[j] = made[j]
      BY <1>1, <2>1, <2>4
    <3>. QED BY <1>1, <1>12, <2>2, <3>1 DEF TurnsTold
  <2>. QED BY <2>3, <2>4
<1>13. \A m \in 1..L : \A u : Opens(m, u)' <=> Opens(m, u)
  BY <1>1 DEF Opens
<1>14. \E m \in 1..n : Opens(m, t)'
  <2>1. CASE asks = "command"
    BY <1>1, <2>1 DEF Opens
  <2>2. CASE asks # "command"
    <3>1. t = client.turn /\ client.turn > 0
      BY <1>4, <1>5, <2>2
    <3>2. PICK m \in DOMAIN made : Opens(m, client.turn)
      BY <3>1 DEF TurnsTold
    <3>. QED BY <1>1, <1>13, <3>1, <3>2
  <2>. QED BY <2>1, <2>2
<1>15. ASSUME NEW i \in DOMAIN made' PROVE \E m \in 1..i : Opens(m, made[i].turn)'
  <2>1. CASE i = n
    BY <1>1, <1>14, <2>1
  <2>2. CASE i # n
    <3>1. i \in 1..L /\ made'[i] = made[i]
      BY <1>1, <1>15, <2>2
    <3>2. PICK m \in 1..i : Opens(m, made[i].turn)
      BY <1>1, <3>1 DEF TurnsTold
    <3>3. m \in 1..L
      BY <1>1, <3>1
    <3>. QED BY <1>13, <3>1, <3>2, <3>3
  <2>. QED BY <2>1, <2>2
<1>16. \E m \in DOMAIN made' : Opens(m, client.turn)'
  BY <1>1, <1>2, <1>14
<1>17. ASSUME NEW u, Opens(n, u)' PROVE \A i \in 1..L : ~Opens(i, u)
  <2>1. asks = "command" /\ u = client.turn + 1
    BY <1>1, <1>5, <1>17 DEF Opens
  <2>2. \A i \in 1..L : made[i].turn # client.turn + 1
    BY <1>3, <1>10
  <2>. QED BY <2>1, <2>2 DEF Opens
<1>18. ASSUME NEW i \in DOMAIN made', NEW j \in DOMAIN made', NEW u, Opens(i, u)', Opens(j, u)' PROVE i = j
  <2>1. i \in 1..n /\ j \in 1..n
    BY <1>1
  <2>2. CASE i # n /\ j # n
    <3>1. i \in 1..L /\ j \in 1..L
      BY <1>1, <2>1, <2>2
    <3>2. Opens(i, u) /\ Opens(j, u)
      BY <1>13, <1>18, <3>1
    <3>. QED BY <1>1, <3>1, <3>2 DEF TurnsTold
  <2>3. CASE i = n /\ j # n
    <3>1. j \in 1..L
      BY <1>1, <2>1, <2>3
    <3>. QED BY <1>13, <1>17, <1>18, <2>3, <3>1
  <2>4. CASE i # n /\ j = n
    <3>1. i \in 1..L
      BY <1>1, <2>1, <2>4
    <3>. QED BY <1>13, <1>17, <1>18, <2>4, <3>1
  <2>. QED BY <2>2, <2>3, <2>4
<1>. QED BY <1>8, <1>9, <1>11, <1>12, <1>15, <1>16, <1>18 DEF TurnsTold

\* No other step touches them.
LEMMA TurnsToldNext ==
  Typed /\ TurnsTold /\ [Next]_allVars => TurnsTold'
<1> SUFFICES ASSUME Typed, TurnsTold, [Next]_allVars PROVE TurnsTold'
  OBVIOUS
<1>1. CASE \E asks, added, output : Step(asks, added, output)
  BY <1>1, TurnsToldStep
<1>2. CASE client' = client /\ made' = made
  BY <1>2 DEF TurnsTold, Opens
<1>. QED BY <1>1, <1>2, ViewsSteps DEF Arrive, views

\* Request m is the command of turn t, and asks for text.
Tells(m, t, text) == Opens(m, t) /\ made[m].added[1].text = text

\* Every request asks what its turn's command asked, or does not tell, after a
\* compaction, and so does the conversation the client holds.
CommandsTold ==
    /\ \A i \in DOMAIN made :
          /\ made[i].command = UserText(made[i].input)
          /\ made[i].asks = "command" => made[i].command \in Commands /\ made[i].added[1].text = made[i].command
          /\ made[i].command # Missing => \E m \in 1..i : Tells(m, made[i].turn, made[i].command)
          /\ made[i].command = Missing => \E j \in 1..(i - 1) : made[j].succeeded
    /\ client.turn > 0 =>
          /\ UserText(client.history) # Missing => \E m \in DOMAIN made : Tells(m, client.turn, UserText(client.history))
          /\ UserText(client.history) = Missing => \E j \in DOMAIN made : made[j].succeeded

\* What a step does to the last user message.
LEMMA UserTextStep ==
  ASSUME Typed, NEW asks, NEW added, NEW output, Step(asks, added, output)
  PROVE  \/ /\ asks = "command"
            /\ \E c \in Commands : /\ added = <<Message("user", c)>> /\ UserText(client.history \o added) = c
                                   /\ UserText(client'.history) = c
         \/ /\ asks # "command" /\ UserText(client.history \o added) = UserText(client.history)
            /\ \/ UserText(client'.history) = UserText(client.history)
               \/ UserText(client'.history) = Missing /\ output # Failed
<1> DEFINE h == client.history
           s == h \o added
<1>1. h \in Seq(Items) /\ Len(made) + 1 \in Nat
  BY DEF Typed, Clients
<1>2. added \in Seq(Items) /\ output \in Seq(Items) /\ Adds(asks, added)
  BY DEF Step
<1>3. s \in Seq(Items)
  BY <1>1, <1>2, ConcatProperties
<1>4. ASSUME asks # "compact" PROVE UserText(client'.history) = UserText(s)
  <2>1. output \in Answers(Len(made) + 1) /\ client'.history = s \o output
    BY <1>4 DEF Step
  <2>2. \A i \in 1..Len(output) : ~IsUserText(output[i])
    BY <1>1, <2>1, NotUsers
  <2> HIDE DEF s
  <2>. QED BY <1>2, <1>3, <2>1, <2>2, UserTextKept
<1>5. CASE asks = "command"
  <2>1. PICK c \in Commands : added = <<Message("user", c)>>
    BY <1>2, <1>5 DEF Adds
  <2>2. UserText(s) = c
    BY <1>1, <2>1, UserTextSaid
  <2>3. UserText(client'.history) = c
    BY <1>4, <1>5, <2>2
  <2>. QED BY <1>5, <2>1, <2>2, <2>3, Zenon
<1>6. CASE asks # "command"
  <2>1. \A i \in 1..Len(added) : ~IsUserText(added[i])
    <3>1. \/ added = <<>> \/ added = <<Trigger>>
          \/ \E n \in Nat : added = <<ToolResult(n)>>
      BY <1>2, <1>6 DEF Adds
    <3>. QED BY <3>1, NotUsers
  <2>2. UserText(s) = UserText(h)
    BY <1>1, <1>2, <2>1, UserTextKept
  <2>3. CASE asks # "compact"
    BY <1>4, <1>6, <2>2, <2>3
  <2>4. CASE asks = "compact"
    <3>1. CASE output = Failed /\ client' = client
      BY <1>6, <2>2, <3>1
    <3>2. CASE output = Compacted /\ client'.history = Compacted
      <4>1. Compacted \in Seq(Items) /\ output # Failed
        BY <1>2, <3>2 DEF Compacted, Failed
      <4>2. UserText(Compacted) = Missing
        BY <4>1, NotUsers, UserTextCases DEF LastUser
      <4>. QED BY <1>6, <2>2, <3>2, <4>1, <4>2
    <3>. QED BY <2>4, <3>1, <3>2 DEF Step
  <2>. QED BY <2>3, <2>4
<1>. QED BY <1>5, <1>6

\* Initially nothing was asked.
LEMMA CommandsToldInit ==
  Init => CommandsTold
<1> SUFFICES ASSUME Init PROVE CommandsTold
  OBVIOUS
<1>1. client \in [named : BOOLEAN, turn : {0}, history : Priors, mode : {"idle"}] /\ made = <<>> /\ arrived = <<>>
  BY DEF Init, ViewsInit
<1>2. client.turn = 0 /\ DOMAIN made = {}
  BY <1>1
<1>. QED BY <1>2 DEF CommandsTold

\* A step of the client keeps to its turn's command.
LEMMA CommandsToldStep ==
  ASSUME Typed, TurnsTold, CommandsTold, NEW asks, NEW added, NEW output, Step(asks, added, output)
  PROVE  CommandsTold'
<1>0. PICK L, n, t, w, h :
         L = Len(made) /\ n = Len(made) + 1 /\ t = TurnOf(asks) /\ w = UserText(client.history \o added)
         /\ h = UserText(client.history)
  OBVIOUS
<1>1. /\ Len(made') = n /\ DOMAIN made' = 1..n /\ n \in Nat
      /\ L \in Nat /\ DOMAIN made = 1..L /\ n \in 1..n
      /\ \A i \in 1..n : i # n => i \in 1..L /\ made'[i] = made[i]
      /\ \A i \in 1..L : i \in 1..n /\ i # n /\ i < n /\ made'[i] = made[i]
      /\ made'[n].turn = t /\ made'[n].asks = asks /\ made'[n].command = w
      /\ made'[n].input = client.history \o added /\ made'[n].added = added
      /\ made'[n].succeeded = (output # Failed)
  BY <1>0, NewRequest
<1>2. client'.turn = t /\ May(asks)
  BY <1>0 DEF Step
<1>3. client.turn \in Nat /\ (client.turn = 0 => client.mode = "idle")
  BY DEF Typed, Clients, TurnsTold
<1>4. asks # "command" => client.turn > 0 /\ t = client.turn
  <2>1. CASE client.turn = 0
    <3>1. client.mode = "idle"
      BY <1>3, <2>1
    <3>. QED BY <1>2, <2>1, <3>1 DEF May
  <2>. QED BY <1>0, <1>3, <2>1 DEF TurnOf
<1>5. \A m \in 1..L : \A u, text : Tells(m, u, text) => Tells(m, u, text)'
  BY <1>1 DEF Tells, Opens
<1>6. \A j \in 1..L : made'[j].succeeded = made[j].succeeded
  BY <1>1
<1>7. n - 1 = L
  BY <1>0, <1>1
<1>8. CASE asks = "command"
  <2>1. PICK c \in Commands : added = <<Message("user", c)>> /\ w = c /\ UserText(client'.history) = c
    BY <1>0, <1>8, UserTextStep
  <2>2. added[1].text = c /\ c # Missing
    BY <2>1, ViewsAssumption DEF Message
  <2>3. Tells(n, t, c)'
    BY <1>1, <1>8, <2>2 DEF Tells, Opens
  <2>4. \E m \in 1..n : Tells(m, t, c)'
    BY <1>1, <2>3
  <2>5. ASSUME NEW i \in DOMAIN made'
        PROVE  /\ made'[i].command = UserText(made'[i].input)
               /\ made'[i].asks = "command" => made'[i].command \in Commands /\ made'[i].added[1].text = made'[i].command
               /\ made'[i].command # Missing => \E m \in 1..i : Tells(m, made[i].turn, made[i].command)'
               /\ made'[i].command = Missing => \E j \in 1..(i - 1) : made'[j].succeeded
    <3>1. CASE i = n
      BY <1>0, <1>1, <2>1, <2>2, <2>4, <3>1
    <3>2. CASE i # n
      <4>1. i \in 1..L /\ made'[i] = made[i]
        BY <1>1, <2>5, <3>2
      <4>2. /\ made[i].command = UserText(made[i].input)
            /\ made[i].asks = "command" => made[i].command \in Commands /\ made[i].added[1].text = made[i].command
            /\ made[i].command # Missing => \E m \in 1..i : Tells(m, made[i].turn, made[i].command)
            /\ made[i].command = Missing => \E j \in 1..(i - 1) : made[j].succeeded
        BY <1>1, <4>1 DEF CommandsTold
      <4>3. (\A m \in 1..i : m \in 1..L) /\ \A j \in 1..(i - 1) : j \in 1..L
        BY <1>1, <4>1
      <4>. QED BY <1>5, <1>6, <4>1, <4>2, <4>3
    <3>. QED BY <3>1, <3>2
  <2>. QED BY <1>1, <1>2, <2>1, <2>2, <2>4, <2>5 DEF CommandsTold
<1>9. CASE asks # "command"
  <2>1. /\ w = h
        /\ \/ UserText(client'.history) = h
           \/ UserText(client'.history) = Missing /\ output # Failed
    BY <1>0, <1>9, UserTextStep
  <2>2. /\ h # Missing => \E m \in 1..L : Tells(m, t, h)
        /\ h = Missing => \E j \in 1..L : made[j].succeeded
    BY <1>0, <1>1, <1>4, <1>9 DEF CommandsTold
  <2>3. /\ h # Missing => \E m \in 1..L : Tells(m, t, h)'
        /\ h = Missing => \E j \in 1..L : made'[j].succeeded
    BY <1>5, <1>6, <2>2
  <2>5. ASSUME NEW i \in DOMAIN made'
        PROVE  /\ made'[i].command = UserText(made'[i].input)
               /\ made'[i].asks = "command" => made'[i].command \in Commands /\ made'[i].added[1].text = made'[i].command
               /\ made'[i].command # Missing => \E m \in 1..i : Tells(m, made[i].turn, made[i].command)'
               /\ made'[i].command = Missing => \E j \in 1..(i - 1) : made'[j].succeeded
    <3>1. CASE i = n
      BY <1>0, <1>1, <1>7, <1>9, <2>1, <2>3, <3>1
    <3>2. CASE i # n
      <4>1. i \in 1..L /\ made'[i] = made[i]
        BY <1>1, <2>5, <3>2
      <4>2. /\ made[i].command = UserText(made[i].input)
            /\ made[i].asks = "command" => made[i].command \in Commands /\ made[i].added[1].text = made[i].command
            /\ made[i].command # Missing => \E m \in 1..i : Tells(m, made[i].turn, made[i].command)
            /\ made[i].command = Missing => \E j \in 1..(i - 1) : made[j].succeeded
        BY <1>1, <4>1 DEF CommandsTold
      <4>3. (\A m \in 1..i : m \in 1..L) /\ \A j \in 1..(i - 1) : j \in 1..L
        BY <1>1, <4>1
      <4>. QED BY <1>5, <1>6, <4>1, <4>2, <4>3
    <3>. QED BY <3>1, <3>2
  <2>6. /\ UserText(client'.history) # Missing => \E m \in DOMAIN made' : Tells(m, client.turn, UserText(client.history))'
        /\ UserText(client'.history) = Missing => \E j \in DOMAIN made' : made'[j].succeeded
    <3>1. CASE UserText(client'.history) = h
      BY <1>1, <1>2, <2>3, <3>1
    <3>2. CASE UserText(client'.history) = Missing /\ output # Failed
      <4>1. made'[n].succeeded
        BY <1>1, <3>2
      <4>. QED BY <1>1, <3>2, <4>1
    <3>. QED BY <2>1, <3>1, <3>2
  <2>. QED BY <2>5, <2>6 DEF CommandsTold
<1>. QED BY <1>8, <1>9

\* No other step touches them.
LEMMA CommandsToldNext ==
  Typed /\ TurnsTold /\ CommandsTold /\ [Next]_allVars => CommandsTold'
<1> SUFFICES ASSUME Typed, TurnsTold, CommandsTold, [Next]_allVars PROVE CommandsTold'
  OBVIOUS
<1>1. CASE \E asks, added, output : Step(asks, added, output)
  BY <1>1, CommandsToldStep
<1>2. CASE client' = client /\ made' = made
  BY <1>2 DEF CommandsTold, Tells, Opens
<1>. QED BY <1>1, <1>2, ViewsSteps DEF Arrive, views

\* A record arrives once, and after those of the requests that succeeded
\* before it.
ArrivedOnce ==
    /\ IsFiniteSet(ToSet(arrived)) /\ Cardinality(ToSet(arrived)) = Len(arrived)
    /\ \A i \in ToSet(arrived) : \A j \in 1..(i - 1) : made[j].succeeded => j \in ToSet(arrived)

\* What has arrived are requests.
LEMMA ArrivedMade ==
  ASSUME Typed
  PROVE  /\ ToSet(arrived) \subseteq 1..Len(made) /\ Len(made) \in Nat /\ DOMAIN made = 1..Len(made)
         /\ Len(arrived) \in Nat /\ DOMAIN arrived = 1..Len(arrived) /\ arrived \in Seq(1..Len(made))
<1>1. made \in Seq(Requests) /\ arrived \in Seq(DOMAIN made)
  BY DEF Typed
<1>2. DOMAIN made = 1..Len(made) /\ Len(made) \in Nat /\ Len(arrived) \in Nat /\ DOMAIN arrived = 1..Len(arrived)
  BY <1>1
<1>3. \A k \in 1..Len(arrived) : arrived[k] \in 1..Len(made)
  BY <1>1, <1>2, ElementOfSeq
<1>. QED BY <1>1, <1>2, <1>3 DEF ToSet

\* Initially nothing has.
LEMMA ArrivedOnceInit ==
  Init => ArrivedOnce
<1> SUFFICES ASSUME Init PROVE ArrivedOnce
  OBVIOUS
<1>1. arrived = <<>>
  BY DEF Init, ViewsInit
<1>2. ToSet(arrived) = {} /\ Len(arrived) = 0
  BY <1>1 DEF ToSet
<1>. QED BY <1>2, FS_EmptySet DEF ArrivedOnce

\* Requests that are made later have not arrived, and a record arrives once.
LEMMA ArrivedOnceNext ==
  Typed /\ ArrivedOnce /\ [Next]_allVars => ArrivedOnce'
<1> SUFFICES ASSUME Typed, ArrivedOnce, [Next]_allVars PROVE ArrivedOnce'
  OBVIOUS
<1>0. ToSet(arrived) \subseteq 1..Len(made) /\ Len(made) \in Nat /\ arrived \in Seq(1..Len(made))
      /\ DOMAIN made = 1..Len(made)
  BY ArrivedMade
<1>1. CASE \E asks, added, output : Step(asks, added, output)
  <2>1. PICK asks, added, output : Step(asks, added, output)
    BY <1>1
  <2>2. \A i \in 1..Len(made) : made'[i] = made[i]
    BY <2>1, NewRequest
  <2>3. arrived' = arrived
    BY <2>1 DEF Step
  <2>4. ASSUME NEW i \in ToSet(arrived), NEW j \in 1..(i - 1) PROVE j \in 1..Len(made)
    BY <1>0
  <2>. QED BY <2>2, <2>3, <2>4 DEF ArrivedOnce
<1>2. CASE \E i \in 1..MaxRequests : Arrive(i)
  <2>1. PICK i : Arrive(i)
    BY <1>2
  <2>2. /\ i \in 1..Len(made) /\ i \notin ToSet(arrived) /\ arrived' = Append(arrived, i) /\ made' = made
        /\ \A j \in 1..(i - 1) : made[j].succeeded => j \in ToSet(arrived)
    BY <1>0, <2>1 DEF Arrive
  <2>3. ToSet(arrived') = ToSet(arrived) \cup {i} /\ Len(arrived') = Len(arrived) + 1
    BY <1>0, <2>2, MembersOfAppend
  <2>4. IsFiniteSet(ToSet(arrived')) /\ Cardinality(ToSet(arrived')) = Cardinality(ToSet(arrived)) + 1
    <3>1. IsFiniteSet(ToSet(arrived))
      BY DEF ArrivedOnce
    <3>. QED BY <2>2, <2>3, <3>1, FS_AddElement
  <2>5. Cardinality(ToSet(arrived')) = Len(arrived')
    BY <2>3, <2>4 DEF ArrivedOnce
  <2>6. \A k \in ToSet(arrived') : \A j \in 1..(k - 1) : made'[j].succeeded => j \in ToSet(arrived')
    BY <2>2, <2>3 DEF ArrivedOnce
  <2>. QED BY <2>4, <2>5, <2>6 DEF ArrivedOnce
<1>3. CASE UNCHANGED views
  BY <1>3 DEF ArrivedOnce, views
<1>. QED BY <1>1, <1>2, <1>3, ViewsSteps

\* The inductive invariant of the client and the archive.
ViewsInvariant == Typed /\ TurnsTold /\ CommandsTold /\ ArrivedOnce

\* It always holds.
THEOREM ViewsInvariantHolds ==
  Spec => []ViewsInvariant
<1>1. Init => ViewsInvariant
  BY TypedInit, TurnsToldInit, CommandsToldInit, ArrivedOnceInit DEF ViewsInvariant
<1>2. ViewsInvariant /\ [Next]_allVars => ViewsInvariant'
  BY TypedNext, TurnsToldNext, CommandsToldNext, ArrivedOnceNext DEF ViewsInvariant
<1>. QED BY <1>1, <1>2, PTL DEF Spec

-----------------------------------------------------------------------------
(* The cards of a session.                                                  *)

SessionRows == Picked([i \in DOMAIN made |-> TurnRow(i)], ToSet(arrived))

\* The rows are those of the requests that have arrived, in their order.
RowsAt(at) ==
    /\ SessionRows \in Seq(Rows)
    /\ at \in [1..Len(SessionRows) -> ToSet(arrived)]
    /\ \A n \in 1..Len(SessionRows) : at[n] \in 1..Len(made) /\ SessionRows[n] = TurnRow(at[n])
    /\ \A m, n \in 1..Len(SessionRows) : m < n => at[m] < at[n]
    /\ \A i \in ToSet(arrived) : \E n \in 1..Len(SessionRows) : at[n] = i

\* A row of a request; the name of its turn is one of the client's.
LEMMA RowTypes ==
  ASSUME ViewsInvariant, NEW i \in 1..Len(made)
  PROVE  /\ TurnRow(i) \in Rows
         /\ made[i] \in Requests /\ made[i].turn \in DOMAIN TurnNames /\ TurnNames[made[i].turn] # Missing
<1>1. /\ Len(made) \in Nat /\ made \in Seq(Requests) /\ DOMAIN made = 1..Len(made)
      /\ client.turn \in 0..Len(made) /\ Len(made) <= MaxRequests
      /\ made[i].turn \in 1..client.turn
  BY DEF ViewsInvariant, Typed, TurnsTold
<1>2. TurnNames \in Seq(ToSet(TurnNames)) /\ Len(TurnNames) >= MaxRequests /\ MaxRequests \in Nat
      /\ Missing \notin ToSet(TurnNames)
  BY ViewsAssumption
<1>3. made[i].turn \in 1..Len(TurnNames) /\ DOMAIN TurnNames = 1..Len(TurnNames)
  <2>1. DOMAIN TurnNames = 1..Len(TurnNames) /\ Len(TurnNames) \in Nat
    BY <1>2
  <2>. QED BY <1>1, <1>2, <2>1
<1>4. TurnNames[made[i].turn] \in ToSet(TurnNames)
  BY <1>2, <1>3, ElementOfSeq
<1>5. made[i] \in Requests
  BY <1>1, ElementOfSeq
<1>6. made[i].command \in Told /\ (made[i].kind = "compact") \in BOOLEAN /\ i \in Nat
  BY <1>1, <1>5 DEF Requests, Told
<1> DEFINE explicit == IF client.named THEN TurnNames[made[i].turn] ELSE Missing
           compaction == made[i].kind = "compact"
<1>7. explicit \in Names
  BY <1>4 DEF Names
<1>8. TurnRow(i) = [request |-> i, explicit |-> explicit, command |-> made[i].command, compaction |-> compaction]
  BY Zenon DEF TurnRow
<1>9. compaction \in BOOLEAN
  BY <1>6
<1> HIDE DEF explicit, compaction
<1>10. TurnRow(i) \in Rows
  BY <1>6, <1>7, <1>8, <1>9 DEF Rows
<1>. QED BY <1>2, <1>3, <1>4, <1>5, <1>10

\* There are such rows.
LEMMA RowsFound ==
  ASSUME ViewsInvariant
  PROVE  \E at : RowsAt(at)
<1> DEFINE all == [i \in DOMAIN made |-> TurnRow(i)]
           N == Len(made)
           A == ToSet(arrived)
<1>1. N \in Nat /\ DOMAIN made = 1..N /\ A \subseteq 1..N
  BY ArrivedMade DEF ViewsInvariant
<1>2. \A i \in 1..N : TurnRow(i) \in Rows
  BY RowTypes
<1>3. all \in [1..N -> Rows]
  BY <1>1, <1>2
<1>4. all \in Seq(Rows) /\ Len(all) = N
  BY <1>1, <1>3, FunctionIsSeq
<1>5. \A i \in 1..N : all[i] = TurnRow(i)
  BY <1>1
<1>6. SessionRows = Picked(all, A)
  BY DEF SessionRows
<1> HIDE DEF all, A
<1>7. SessionRows \in Seq(Rows)
  BY <1>4, <1>6, PickedFrom
<1>8. PICK at : Located(SessionRows, at, all, A, N)
  BY <1>4, <1>6, PickedFrom
<1>9. /\ at \in [1..Len(SessionRows) -> A \cap (1..N)]
      /\ \A k \in 1..Len(SessionRows) : SessionRows[k] = all[at[k]]
      /\ \A j, k \in 1..Len(SessionRows) : j < k => at[j] < at[k]
      /\ \A i \in A \cap (1..N) : \E k \in 1..Len(SessionRows) : at[k] = i
  BY <1>8 DEF Located
<1>10. A \cap (1..N) = A
  BY <1>1
<1>11. \A k \in 1..Len(SessionRows) : at[k] \in 1..N
  BY <1>9
<1>12. \A k \in 1..Len(SessionRows) : SessionRows[k] = TurnRow(at[k])
  BY <1>5, <1>9, <1>11
<1>13. RowsAt(at)
  BY <1>7, <1>9, <1>10, <1>11, <1>12 DEF RowsAt, A
<1>. QED BY <1>13

\* What holds of every card: the client's name of the turn of all its requests,
\* or the first of them, whose command all of them ask that tell one.
Sound(card) ==
    /\ card.requests # <<>> /\ ToSet(card.requests) \subseteq 1..Len(made)
    /\ card.command # Missing => \E r \in ToSet(card.requests) : made[r].command = card.command
    /\ client.named =>
          /\ card.explicit # Missing /\ card.turn = [explicit |-> card.explicit]
          /\ \A r \in ToSet(card.requests) : card.explicit = TurnNames[made[r].turn]
    /\ ~client.named =>
          /\ card.explicit = Missing /\ card.turn = [derived |-> card.requests[1]]
          /\ card.command # Missing /\ card.command = made[card.requests[1]].command
          /\ \A r \in ToSet(card.requests) : made[r].command \in {Missing, card.command}

\* The fields of a row.
LEMMA RowFields ==
  ASSUME NEW i
  PROVE  /\ TurnRow(i).request = i /\ TurnRow(i).command = made[i].command
         /\ client.named => TurnRow(i).explicit = TurnNames[made[i].turn]
         /\ ~client.named => TurnRow(i).explicit = Missing
<1> DEFINE explicit == IF client.named THEN TurnNames[made[i].turn] ELSE Missing
           compaction == made[i].kind = "compact"
<1>1. TurnRow(i) = [request |-> i, explicit |-> explicit, command |-> made[i].command, compaction |-> compaction]
  BY Zenon DEF TurnRow
<1>2. (client.named => explicit = TurnNames[made[i].turn]) /\ (~client.named => explicit = Missing)
  OBVIOUS
<1> HIDE DEF explicit, compaction
<1>. QED BY <1>1, <1>2

\* A new card is sound.
LEMMA NewSound ==
  ASSUME ViewsInvariant, NEW i \in 1..Len(made), client.named \/ made[i].command # Missing
  PROVE  Sound(NewGroup(TurnRow(i))) /\ ToSet(NewGroup(TurnRow(i)).requests) = {i}
<1> DEFINE row == TurnRow(i)
           card == NewGroup(row)
<1>1. /\ row.request = i /\ row.command = made[i].command
      /\ client.named => row.explicit = TurnNames[made[i].turn]
      /\ ~client.named => row.explicit = Missing
  BY RowFields
<1>2. TurnNames[made[i].turn] # Missing /\ client.named \in BOOLEAN
  BY RowTypes DEF ViewsInvariant, Typed, Clients
<1> HIDE DEF row
<1>3. /\ card.turn = TurnID(row.explicit, row.request) /\ card.explicit = row.explicit
      /\ card.command = row.command /\ card.requests = <<i>>
  BY <1>1 DEF NewGroup
<1> HIDE DEF card
<1>4. card.requests # <<>> /\ card.requests[1] = i /\ ToSet(card.requests) = {i}
  BY <1>3 DEF ToSet
<1>5. CASE client.named
  <2>1. card.explicit # Missing /\ card.turn = [explicit |-> card.explicit]
    BY <1>1, <1>2, <1>3, <1>5 DEF TurnID
  <2>. QED BY <1>1, <1>3, <1>4, <1>5, <2>1 DEF Sound, card, row
<1>6. CASE ~client.named
  <2>1. card.explicit = Missing /\ card.turn = [derived |-> i]
    BY <1>1, <1>3, <1>6 DEF TurnID
  <2>. QED BY <1>1, <1>3, <1>4, <1>6, <2>1 DEF Sound, card, row
<1>. QED BY <1>5, <1>6

\* A card that a row joins stays sound.
LEMMA JoinSound ==
  ASSUME ViewsInvariant, NEW i \in 1..Len(made), NEW card \in Cards, Sound(card), ~StartsNew(card, TurnRow(i))
  PROVE  Sound(Joined(card, TurnRow(i))) /\ ToSet(Joined(card, TurnRow(i)).requests) = ToSet(card.requests) \cup {i}
<1> DEFINE row == TurnRow(i)
           new == Joined(card, row)
           requests == Append(card.requests, row.request)
           adopts == card.explicit = Missing /\ row.explicit # Missing
           turn == IF adopts THEN TurnID(row.explicit, row.request) ELSE card.turn
           explicit == IF adopts THEN row.explicit ELSE card.explicit
           command == IF card.command = Missing THEN row.command ELSE card.command
           compaction == card.compaction \/ row.compaction
<1>1. /\ row.request = i /\ row.command = made[i].command
      /\ client.named => row.explicit = TurnNames[made[i].turn]
      /\ ~client.named => row.explicit = Missing
  BY RowFields
<1>2. TurnNames[made[i].turn] # Missing /\ client.named \in BOOLEAN /\ i \in Nat
  BY RowTypes, ArrivedMade DEF ViewsInvariant, Typed, Clients
<1>3. card.requests \in Seq(Nat) /\ card.requests # <<>> /\ Len(card.requests) \in Nat /\ 1 \in 1..Len(card.requests)
  BY DEF Cards, Sound
<1>4. new = [turn |-> turn, explicit |-> explicit, command |-> command, requests |-> requests,
             compaction |-> compaction]
  BY Zenon DEF Joined
<1>5. /\ requests \in Seq(Nat) /\ ToSet(requests) = ToSet(card.requests) \cup {i}
      /\ requests[1] = card.requests[1] /\ requests # <<>>
  <2>1. requests = Append(card.requests, i)
    BY <1>1
  <2>2. /\ requests \in Seq(Nat) /\ Len(requests) = Len(card.requests) + 1
        /\ ToSet(requests) = ToSet(card.requests) \cup {i}
        /\ \A j \in 1..Len(card.requests) : requests[j] = card.requests[j]
    BY <1>2, <1>3, <2>1, MembersOfAppend, SMTT(30)
  <2> HIDE DEF requests
  <2>. QED BY <1>3, <2>2
<1>6. ~client.named => ~adopts
  BY <1>1
<1>7. client.named => ~adopts
  BY <1>1 DEF Sound
<1>8. turn = card.turn /\ explicit = card.explicit
  BY <1>2, <1>6, <1>7
<1>9. StartsNew(card, row) <=>
         IF row.explicit # Missing /\ card.explicit # Missing THEN row.explicit # card.explicit
         ELSE row.command # Missing /\ card.command # Missing /\ row.command # card.command
  BY Zenon DEF StartsNew
<1> HIDE DEF row, requests, adopts, turn, explicit, command, compaction
<1>10. new.turn = turn /\ new.explicit = explicit /\ new.command = command /\ new.requests = requests
  BY <1>4
<1> HIDE DEF new
<1>11. ~StartsNew(card, row)
  BY DEF row
<1>12. command = IF card.command = Missing THEN made[i].command ELSE card.command
  BY <1>1 DEF command
<1>13. /\ new.requests # <<>> /\ ToSet(new.requests) = ToSet(card.requests) \cup {i}
       /\ new.requests[1] = card.requests[1]
  BY <1>5, <1>10
<1>14. new.command # Missing => \E r \in ToSet(new.requests) : made[r].command = new.command
  BY <1>10, <1>12, <1>13 DEF Sound
<1>15. ToSet(new.requests) \subseteq 1..Len(made)
  BY <1>13 DEF Sound
<1>16. CASE client.named
  <2>1. /\ card.explicit # Missing /\ card.turn = [explicit |-> card.explicit]
        /\ \A r \in ToSet(card.requests) : card.explicit = TurnNames[made[r].turn]
    BY <1>16 DEF Sound
  <2>2. card.explicit = TurnNames[made[i].turn]
    BY <1>1, <1>2, <1>9, <1>11, <1>16, <2>1
  <2>3. /\ new.explicit # Missing /\ new.turn = [explicit |-> new.explicit]
        /\ \A r \in ToSet(new.requests) : new.explicit = TurnNames[made[r].turn]
    BY <1>8, <1>10, <1>13, <2>1, <2>2
  <2>4. Sound(new)
    BY <1>13, <1>14, <1>15, <1>16, <2>3, Zenon DEF Sound
  <2>. QED BY <1>13, <2>4 DEF new, row
<1>17. CASE ~client.named
  <2>1. /\ card.explicit = Missing /\ card.turn = [derived |-> card.requests[1]]
        /\ card.command # Missing /\ card.command = made[card.requests[1]].command
        /\ \A r \in ToSet(card.requests) : made[r].command \in {Missing, card.command}
    BY <1>17 DEF Sound
  <2>2. made[i].command \in {Missing, card.command}
    BY <1>1, <1>9, <1>11, <1>17, <2>1
  <2>3. new.command = card.command
    BY <1>10, <1>12, <2>1
  <2>4. /\ new.explicit = Missing /\ new.turn = [derived |-> new.requests[1]]
        /\ new.command # Missing /\ new.command = made[new.requests[1]].command
    BY <1>8, <1>10, <1>13, <2>1, <2>3
  <2>5. \A r \in ToSet(new.requests) : made[r].command \in {Missing, new.command}
    BY <1>13, <2>1, <2>2, <2>3
  <2>6. Sound(new)
    BY <1>13, <1>14, <1>15, <1>17, <2>4, <2>5, Zenon DEF Sound
  <2>. QED BY <1>13, <2>6 DEF new, row
<1>. QED BY <1>2, <1>16, <1>17

\* The requests of a card.
Of(card) == ToSet(card.requests)

\* After n rows: the cards are sound, hold the requests of these rows, the
\* earlier ones in earlier cards, and the last row's in the last.
Dealt(groups, at, n) ==
    /\ n > 0 => groups # <<>> /\ at[n] \in Of(groups[Len(groups)])
    /\ \A g \in 1..Len(groups) : Sound(groups[g]) /\ Of(groups[g]) \subseteq {at[m] : m \in 1..n}
    /\ \A g, h \in 1..Len(groups) : g < h => \A i \in Of(groups[g]) : \A j \in Of(groups[h]) : i < j
    /\ \A m \in 1..n : \E g \in 1..Len(groups) : at[m] \in Of(groups[g])

\* The first row that has arrived tells its command.
LEMMA FirstTells ==
  ASSUME ViewsInvariant, NEW at, RowsAt(at), 1 \in 1..Len(SessionRows)
  PROVE  made[at[1]].command # Missing
<1>1. SUFFICES ASSUME made[at[1]].command = Missing PROVE FALSE
  OBVIOUS
<1>2. at[1] \in ToSet(arrived) /\ at[1] \in 1..Len(made) /\ Len(SessionRows) \in Nat
  BY DEF RowsAt
<1>3. PICK j \in 1..(at[1] - 1) : made[j].succeeded
  <2>1. DOMAIN made = 1..Len(made) /\ Len(made) \in Nat
    BY ArrivedMade DEF ViewsInvariant
  <2>. QED BY <1>1, <1>2, <2>1 DEF ViewsInvariant, CommandsTold
<1>4. j \in ToSet(arrived)
  BY <1>2, <1>3 DEF ViewsInvariant, ArrivedOnce
<1>5. PICK n \in 1..Len(SessionRows) : at[n] = j
  BY <1>4 DEF RowsAt
<1>6. j \in Nat /\ at[1] \in Nat /\ j < at[1]
  BY <1>2, <1>3, ArrivedMade DEF ViewsInvariant
<1>7. n = 1 \/ 1 < n
  BY <1>2
<1>8. at[1] <= at[n]
  BY <1>6, <1>7 DEF RowsAt
<1>. QED BY <1>5, <1>6, <1>8

\* One more row.
LEMMA DealtStep ==
  ASSUME ViewsInvariant, NEW at, RowsAt(at), NEW n \in 1..Len(SessionRows),
         NEW groups \in Seq(Cards), Dealt(groups, at, n - 1)
  PROVE  Dealt(Grouped(groups, SessionRows[n]), at, n)
<1> DEFINE row == SessionRows[n]
           out == Grouped(groups, row)
           L == Len(groups)
           i == at[n]
<1>1. /\ i \in 1..Len(made) /\ row = TurnRow(i) /\ n \in Nat /\ n - 1 \in Nat /\ n > 0 /\ Len(made) \in Nat
      /\ \A m \in 1..(n - 1) : at[m] \in Nat /\ at[m] < i
      /\ (\A m \in 1..n : m \in 1..(n - 1) \/ m = n) /\ \A m \in 1..(n - 1) : m \in 1..n
  <2>1. SessionRows \in Seq(Rows) /\ Len(SessionRows) \in Nat
    BY DEF RowsAt
  <2>2. n \in Nat /\ n > 0 /\ \A m \in 1..(n - 1) : m \in 1..Len(SessionRows) /\ m < n /\ m \in 1..n
    BY <2>1
  <2>3. \A m \in 1..n : m \in 1..(n - 1) \/ m = n
    BY <2>2
  <2>4. Len(made) \in Nat
    BY ArrivedMade DEF ViewsInvariant
  <2>5. \A m \in 1..Len(SessionRows) : at[m] \in 1..Len(made) /\ SessionRows[m] = TurnRow(at[m])
    BY DEF RowsAt
  <2>6. \A m \in 1..(n - 1) : at[m] < at[n]
    BY <2>2 DEF RowsAt
  <2>. QED BY <2>2, <2>3, <2>4, <2>5, <2>6
<1>2. row \in Rows
  BY <1>1, RowTypes
<1>3. L \in Nat /\ \A g \in 1..L : groups[g] \in Cards
  BY ElementOfSeq
<1>4. /\ n - 1 > 0 => groups # <<>> /\ at[n - 1] \in Of(groups[L])
      /\ \A g \in 1..L : Sound(groups[g]) /\ Of(groups[g]) \subseteq {at[m] : m \in 1..(n - 1)}
      /\ \A g, h \in 1..L : g < h => \A a \in Of(groups[g]) : \A b \in Of(groups[h]) : a < b
      /\ \A m \in 1..(n - 1) : \E g \in 1..L : at[m] \in Of(groups[g])
  BY DEF Dealt
<1>5. ASSUME NEW g \in 1..L, NEW a \in Of(groups[g]) PROVE a < i /\ a \in Nat
  <2>1. a \in {at[m] : m \in 1..(n - 1)}
    BY <1>4
  <2>2. PICK m \in 1..(n - 1) : a = at[m]
    BY <2>1
  <2>. QED BY <1>1, <2>2
<1>6. {at[m] : m \in 1..n} = {at[m] : m \in 1..(n - 1)} \cup {i}
  <2>1. \A m : m \in 1..n <=> m \in 1..(n - 1) \/ m = n
    BY <1>1
  <2>2. i = at[n]
    OBVIOUS
  <2> HIDE DEF i
  <2>. QED BY <2>1, <2>2, Zenon
<1>7. CASE groups = <<>> \/ StartsNew(Last(groups), row)
  <2>1. /\ Len(out) = L + 1 /\ out[L + 1] = NewGroup(row) /\ \A g \in 1..L : out[g] = groups[g]
    BY <1>2, <1>7, GroupedCards
  <2>2. client.named \/ made[i].command # Missing
    <3>1. CASE groups = <<>>
      <4>1. n = 1
        BY <1>1, <1>4, <3>1
      <4>2. made[at[1]].command # Missing
        BY <4>1, FirstTells
      <4>. QED BY <4>1, <4>2
    <3>2. CASE groups # <<>> /\ ~client.named
      <4>1. row.explicit = Missing /\ row.command = made[i].command
        BY <1>1, <3>2, RowFields
      <4>2. row.command # Missing
        BY <1>7, <3>2, <4>1, Zenon DEF StartsNew
      <4>. QED BY <4>1, <4>2
    <3>. QED BY <3>1, <3>2
  <2>3. Sound(NewGroup(row)) /\ ToSet(NewGroup(row).requests) = {i}
    BY <1>1, <2>2, NewSound
  <2> HIDE DEF out, row, i, L
  <2>4. Sound(out[L + 1]) /\ Of(out[L + 1]) = {i}
    BY <2>1, <2>3 DEF Of
  <2>5. \A g \in 1..(L + 1) : g \in 1..L \/ g = L + 1
    BY <1>3
  <2>6. \A g \in 1..L : g \in 1..(L + 1) /\ Sound(out[g]) /\ Of(out[g]) = Of(groups[g])
    BY <1>3, <1>4, <2>1
  <2>7. L + 1 \in 1..(L + 1) /\ out # <<>>
    BY <1>3, <2>1
  <2>8. n > 0 => out # <<>> /\ i \in Of(out[Len(out)])
    BY <2>1, <2>4, <2>7
  <2>9. \A g \in 1..Len(out) : Sound(out[g]) /\ Of(out[g]) \subseteq {at[m] : m \in 1..n}
    BY <1>4, <1>6, <2>1, <2>4, <2>5, <2>6
  <2>10. ASSUME NEW g \in 1..Len(out), NEW h \in 1..Len(out), g < h, NEW a \in Of(out[g]), NEW b \in Of(out[h])
         PROVE  a < b
    <3>1. g \in 1..L
      BY <1>3, <2>1, <2>5, <2>10
    <3>2. CASE h = L + 1
      BY <1>5, <2>4, <2>6, <2>10, <3>1, <3>2
    <3>3. CASE h \in 1..L
      BY <1>4, <2>6, <2>10, <3>1, <3>3
    <3>. QED BY <2>1, <2>5, <3>2, <3>3
  <2>11. ASSUME NEW m \in 1..n PROVE \E g \in 1..Len(out) : at[m] \in Of(out[g])
    <3>1. CASE m = n
      BY <2>1, <2>4, <2>7, <3>1 DEF i
    <3>2. CASE m \in 1..(n - 1)
      BY <1>4, <2>1, <2>6, <3>2
    <3>. QED BY <1>1, <3>1, <3>2
  <2>12. Dealt(out, at, n)
    BY <2>8, <2>9, <2>10, <2>11 DEF Dealt, i
  <2>. QED BY <2>12 DEF out, row
<1>8. CASE ~(groups = <<>> \/ StartsNew(Last(groups), row))
  <2>1. /\ groups # <<>> /\ ~StartsNew(Last(groups), row) /\ L \in 1..L /\ Len(out) = L
        /\ \A g \in 1..L : out[g] = IF g = L THEN Joined(groups[g], row) ELSE groups[g]
    BY <1>2, <1>8, GroupedCards
  <2> DEFINE card == groups[L]
  <2>2. card \in Cards /\ Sound(card) /\ ~StartsNew(card, row)
    BY <1>3, <1>4, <2>1 DEF Last
  <2>3. Sound(Joined(card, row)) /\ ToSet(Joined(card, row).requests) = ToSet(card.requests) \cup {i}
    BY <1>1, <2>2, JoinSound
  <2> HIDE DEF out, row, i
  <2>4. Sound(out[L]) /\ Of(out[L]) = Of(groups[L]) \cup {i}
    BY <2>1, <2>3 DEF Of
  <2> HIDE DEF card, L
  <2>5. \A g \in 1..L : g # L => Sound(out[g]) /\ Of(out[g]) = Of(groups[g])
    BY <1>4, <2>1
  <2>6. out # <<>>
    BY <1>3, <2>1
  <2>7. n > 0 => out # <<>> /\ i \in Of(out[Len(out)])
    BY <2>1, <2>4, <2>6
  <2>8. \A g \in 1..Len(out) : Sound(out[g]) /\ Of(out[g]) \subseteq {at[m] : m \in 1..n}
    BY <1>4, <1>6, <2>1, <2>4, <2>5
  <2>9. ASSUME NEW g \in 1..Len(out), NEW h \in 1..Len(out), g < h, NEW a \in Of(out[g]), NEW b \in Of(out[h])
        PROVE  a < b
    <3>1. g # L /\ g \in 1..L /\ h \in 1..L /\ a \in Of(groups[g])
      BY <1>3, <2>1, <2>5, <2>9
    <3>2. CASE h = L /\ b = i
      BY <1>5, <3>1, <3>2
    <3>3. CASE b \in Of(groups[h])
      BY <1>4, <2>9, <3>1, <3>3
    <3>. QED BY <2>4, <2>5, <2>9, <3>1, <3>2, <3>3
  <2>10. ASSUME NEW m \in 1..n PROVE \E g \in 1..Len(out) : at[m] \in Of(out[g])
    <3>1. CASE m = n
      BY <2>1, <2>4, <3>1 DEF i
    <3>2. CASE m \in 1..(n - 1)
      BY <1>4, <2>1, <2>4, <2>5, <3>2
    <3>. QED BY <1>1, <3>1, <3>2
  <2>11. Dealt(out, at, n)
    BY <2>7, <2>8, <2>9, <2>10 DEF Dealt, i
  <2>. QED BY <2>11 DEF out, row
<1>. QED BY <1>7, <1>8

\* The cards of a session.
LEMMA SessionDealt ==
  ASSUME ViewsInvariant, NEW at, RowsAt(at)
  PROVE  SessionTurns \in Seq(Cards) /\ Dealt(SessionTurns, at, Len(SessionRows))
<1> DEFINE N == Len(SessionRows)
<1>1. SessionRows \in Seq(Rows) /\ N \in Nat
  BY DEF RowsAt
<1>2. PICK f : Deals(f, SessionRows) /\ Groups(SessionRows) = f[N]
  BY <1>1, GroupsLoop
<1>3. /\ f \in [0..N -> Seq(Cards)] /\ f[0] = <<>>
      /\ \A n \in 1..N : f[n] = Grouped(f[n - 1], SessionRows[n])
  BY <1>2 DEF Deals
<1>4. SessionTurns = f[N]
  BY <1>2, Zenon DEF SessionTurns, SessionRows
<1> DEFINE T == {n \in 0..N : Dealt(f[n], at, n)}
<1>5. 0 \in T
  <2>1. f[0] = <<>> /\ 1..Len(f[0]) = {} /\ 1..0 = {} /\ ~(0 > 0) /\ 0 \in 0..N
    BY <1>1, <1>3
  <2>2. Dealt(f[0], at, 0)
    BY <2>1 DEF Dealt
  <2>. QED BY <2>1, <2>2
<1>6. ASSUME NEW n \in 1..N, n - 1 \in T PROVE n \in T
  <2>1. n - 1 \in 0..N /\ n \in 0..N
    BY <1>1
  <2>2. f[n - 1] \in Seq(Cards) /\ Dealt(f[n - 1], at, n - 1)
    BY <1>3, <1>6, <2>1
  <2>3. Dealt(Grouped(f[n - 1], SessionRows[n]), at, n)
    BY <2>2, DealtStep
  <2>. QED BY <1>3, <2>1, <2>3
<1> HIDE DEF T
<1>7. \A n \in 0..N : n \in T
  BY <1>1, <1>5, <1>6, Loop
<1>8. N \in 0..N
  BY <1>1
<1>9. Dealt(f[N], at, N)
  BY <1>7, <1>8 DEF T
<1>. QED BY <1>3, <1>4, <1>8, <1>9

\* Every card is sound.
LEMMA CardsSound ==
  ASSUME ViewsInvariant
  PROVE  /\ SessionTurns \in Seq(Cards)
         /\ \A g \in 1..Len(SessionTurns) : Sound(SessionTurns[g])
<1>1. PICK at : RowsAt(at)
  BY RowsFound
<1>2. SessionTurns \in Seq(Cards) /\ Dealt(SessionTurns, at, Len(SessionRows))
  BY <1>1, SessionDealt
<1>. QED BY <1>2 DEF Dealt

\* When all have arrived, the rows are those of all requests.
LEMMA RowsOfAll ==
  ASSUME ViewsInvariant, Len(arrived) = Len(made)
  PROVE  ToSet(arrived) = 1..Len(made) /\ Len(SessionRows) = Len(made) /\ RowsAt([n \in 1..Len(made) |-> n])
<1> DEFINE all == [i \in DOMAIN made |-> TurnRow(i)]
           N == Len(made)
           id == [n \in 1..N |-> n]
<1>1. N \in Nat /\ DOMAIN made = 1..N /\ ToSet(arrived) \subseteq 1..N
  BY ArrivedMade DEF ViewsInvariant
<1>2. ToSet(arrived) = 1..N
  <2>1. IsFiniteSet(ToSet(arrived)) /\ Cardinality(ToSet(arrived)) = N
    BY DEF ViewsInvariant, ArrivedOnce
  <2>2. IsFiniteSet(1..N) /\ Cardinality(1..N) = N
    <3> HIDE DEF N
    <3>1. IsFiniteSet(1..N) /\ Cardinality(1..N) = IF 1 > N THEN 0 ELSE N - 1 + 1
      BY <1>1, FS_Interval
    <3>. QED BY <1>1, <3>1
  <2>. QED BY <1>1, <2>1, <2>2, FS_Subset
<1>3. all \in [1..N -> Rows]
  <2>1. \A i \in 1..N : TurnRow(i) \in Rows
    BY RowTypes
  <2>. QED BY <1>1, <2>1
<1>4. all \in Seq(Rows) /\ Len(all) = N
  BY <1>1, <1>3, FunctionIsSeq
<1>5. \A i \in 1..N : all[i] = TurnRow(i)
  BY <1>1
<1>6. SessionRows = Picked(all, ToSet(arrived))
  BY DEF SessionRows
<1> HIDE DEF all
<1>7. SessionRows = all
  BY <1>2, <1>4, <1>6, PickedAll
<1>8. /\ id \in [1..N -> 1..N] /\ \A n \in 1..N : id[n] = n
  OBVIOUS
<1> HIDE DEF id
<1>9. /\ SessionRows \in Seq(Rows) /\ Len(SessionRows) = N
      /\ \A n \in 1..N : id[n] \in 1..N /\ SessionRows[n] = TurnRow(id[n])
  BY <1>4, <1>5, <1>7, <1>8
<1>10. /\ \A m, n \in 1..N : m < n => id[m] < id[n]
       /\ \A i \in 1..N : \E n \in 1..N : id[n] = i
  BY <1>8
<1>11. RowsAt(id)
  BY <1>2, <1>8, <1>9, <1>10 DEF RowsAt
<1>. QED BY <1>2, <1>9, <1>11 DEF id

\* Requests of one turn are on one card.
Together(groups, n) ==
    \A i, j \in 1..n : made[i].turn = made[j].turn =>
        \A g \in 1..Len(groups) : i \in Of(groups[g]) => j \in Of(groups[g])

\* The commands of one turn are the same, and the first row of it tells it.
LEMMA OneCommand ==
  ASSUME ViewsInvariant, NEW i \in 1..Len(made), made[i].command # Missing
  PROVE  \A j \in 1..Len(made) : made[j].turn = made[i].turn => made[j].command \in {Missing, made[i].command}
<1>1. DOMAIN made = 1..Len(made) /\ Len(made) \in Nat
  BY ArrivedMade DEF ViewsInvariant
<1>2. SUFFICES ASSUME NEW j \in 1..Len(made), made[j].turn = made[i].turn, made[j].command # Missing
               PROVE  made[j].command = made[i].command
  OBVIOUS
<1>3. PICK m \in 1..i : Tells(m, made[i].turn, made[i].command)
  BY <1>1 DEF ViewsInvariant, CommandsTold
<1>4. PICK k \in 1..j : Tells(k, made[j].turn, made[j].command)
  BY <1>1, <1>2 DEF ViewsInvariant, CommandsTold
<1>5. m \in DOMAIN made /\ k \in DOMAIN made
  BY <1>1
<1>6. m = k
  BY <1>2, <1>3, <1>4, <1>5 DEF ViewsInvariant, TurnsTold, Tells
<1>. QED BY <1>3, <1>4, <1>6 DEF Tells

\* Two neighbours of one turn: the second joins the card of the first.
LEMMA NeighbourJoins ==
  ASSUME ViewsInvariant, NEW n \in 2..Len(made), made[n - 1].turn = made[n].turn,
         NEW card \in Cards, Sound(card), n - 1 \in Of(card),
         \A j \in 1..(n - 1) : made[j].turn = made[n].turn => j \in Of(card)
  PROVE  ~StartsNew(card, TurnRow(n))
<1> DEFINE row == TurnRow(n)
<1>1. DOMAIN made = 1..Len(made) /\ Len(made) \in Nat /\ n \in 1..Len(made) /\ n - 1 \in 1..Len(made) /\ n \in Nat
  BY ArrivedMade DEF ViewsInvariant
<1>2. /\ row.request = n /\ row.command = made[n].command
      /\ client.named => row.explicit = TurnNames[made[n].turn]
      /\ ~client.named => row.explicit = Missing
  BY RowFields
<1>3. TurnNames[made[n].turn] # Missing /\ client.named \in BOOLEAN
  BY <1>1, RowTypes DEF ViewsInvariant, Typed, Clients
<1>4. StartsNew(card, row) <=>
         IF row.explicit # Missing /\ card.explicit # Missing THEN row.explicit # card.explicit
         ELSE row.command # Missing /\ card.command # Missing /\ row.command # card.command
  BY Zenon DEF StartsNew
<1> HIDE DEF row
<1>5. CASE client.named
  <2>1. card.explicit # Missing /\ card.explicit = TurnNames[made[n - 1].turn]
    BY <1>5 DEF Sound, Of
  <2>2. ~StartsNew(card, row)
    BY <1>2, <1>3, <1>4, <1>5, <2>1
  <2>. QED BY <2>2 DEF row
<1>6. CASE ~client.named
  <2>1. PICK m \in 1..n : Opens(m, made[n].turn)
    BY <1>1 DEF ViewsInvariant, TurnsTold
  <2>2. PICK k \in 1..(n - 1) : Opens(k, made[n - 1].turn)
    BY <1>1 DEF ViewsInvariant, TurnsTold
  <2>3. k \in 1..Len(made) /\ k \in Of(card) /\ made[k].asks = "command" /\ made[k].turn = made[n].turn
    BY <1>1, <2>2 DEF Opens
  <2>4. made[k].command # Missing
    BY <1>1, <2>3, ViewsAssumption DEF ViewsInvariant, CommandsTold
  <2>5. made[k].command = card.command
    <3>1. made[k].command \in {Missing, card.command}
      BY <1>6, <2>3 DEF Sound, Of
    <3>. QED BY <2>4, <3>1
  <2>6. made[n].command \in {Missing, made[k].command}
    BY <1>1, <2>3, <2>4, OneCommand
  <2>7. ~StartsNew(card, row)
    BY <1>2, <1>4, <1>6, <2>5, <2>6
  <2>. QED BY <2>7 DEF row
<1>. QED BY <1>3, <1>5, <1>6

\* The requests of the cards after one more row.
LEMMA OfGrouped ==
  ASSUME NEW groups \in Seq(Cards), NEW i \in Nat, TurnRow(i) \in Rows
  PROVE  \/ /\ groups = <<>> \/ StartsNew(groups[Len(groups)], TurnRow(i))
            /\ Len(Grouped(groups, TurnRow(i))) = Len(groups) + 1
            /\ Of(Grouped(groups, TurnRow(i))[Len(groups) + 1]) = {i}
            /\ \A g \in 1..Len(groups) : Of(Grouped(groups, TurnRow(i))[g]) = Of(groups[g])
         \/ /\ groups # <<>> /\ Len(groups) \in 1..Len(groups)
            /\ Len(Grouped(groups, TurnRow(i))) = Len(groups)
            /\ \A g \in 1..Len(groups) :
                  Of(Grouped(groups, TurnRow(i))[g]) = IF g = Len(groups) THEN Of(groups[g]) \cup {i} ELSE Of(groups[g])
<1> DEFINE row == TurnRow(i)
           out == Grouped(groups, row)
           L == Len(groups)
<1>1. row.request = i
  BY RowFields
<1>2. row \in Rows
  OBVIOUS
<1> HIDE DEF row
<1>3. Of(NewGroup(row)) = {i}
  <2>1. NewGroup(row).requests = <<i>>
    BY <1>1 DEF NewGroup
  <2>. QED BY <2>1 DEF Of, ToSet
<1>4. ASSUME NEW card \in Cards PROVE Of(Joined(card, row)) = Of(card) \cup {i}
  <2>1. Joined(card, row).requests = Append(card.requests, row.request)
    BY DEF Joined
  <2>2. card.requests \in Seq(Nat)
    BY DEF Cards
  <2>3. ToSet(Append(card.requests, i)) = ToSet(card.requests) \cup {i}
    BY <2>2, MembersOfAppend
  <2>. QED BY <1>1, <2>1, <2>3 DEF Of
<1>5. L \in Nat /\ \A g \in 1..L : groups[g] \in Cards
  BY ElementOfSeq
<1>6. \/ /\ groups = <<>> \/ StartsNew(Last(groups), row)
         /\ Len(out) = L + 1 /\ out[L + 1] = NewGroup(row) /\ \A g \in 1..L : out[g] = groups[g]
      \/ /\ groups # <<>> /\ L \in 1..L /\ Len(out) = L
         /\ \A g \in 1..L : out[g] = IF g = L THEN Joined(groups[g], row) ELSE groups[g]
  BY <1>2, GroupedCards
<1> HIDE DEF out
<1>7. \/ /\ groups = <<>> \/ StartsNew(groups[L], row)
         /\ Len(out) = L + 1 /\ Of(out[L + 1]) = {i} /\ \A g \in 1..L : Of(out[g]) = Of(groups[g])
      \/ /\ groups # <<>> /\ L \in 1..L /\ Len(out) = L
         /\ \A g \in 1..L : Of(out[g]) = IF g = L THEN Of(groups[g]) \cup {i} ELSE Of(groups[g])
  <2>1. CASE /\ groups = <<>> \/ StartsNew(Last(groups), row)
             /\ Len(out) = L + 1 /\ out[L + 1] = NewGroup(row) /\ \A g \in 1..L : out[g] = groups[g]
    BY <1>3, <2>1 DEF Last
  <2>2. CASE /\ groups # <<>> /\ L \in 1..L /\ Len(out) = L
             /\ \A g \in 1..L : out[g] = IF g = L THEN Joined(groups[g], row) ELSE groups[g]
    <3>1. \A g \in 1..L : Of(out[g]) = IF g = L THEN Of(groups[g]) \cup {i} ELSE Of(groups[g])
      BY <1>4, <1>5, <2>2
    <3>. QED BY <2>2, <3>1
  <2>. QED BY <1>6, <2>1, <2>2
<1>. QED BY <1>7 DEF out, row

\* One more row keeps the turns together.
LEMMA TogetherStep ==
  ASSUME ViewsInvariant, NEW n \in 1..Len(made), NEW groups \in Seq(Cards), NEW at,
         \A m \in 1..Len(made) : at[m] = m,
         Dealt(groups, at, n - 1), Together(groups, n - 1)
  PROVE  Together(Grouped(groups, TurnRow(n)), n)
<1> DEFINE out == Grouped(groups, TurnRow(n))
           L == Len(groups)
<1>1. /\ Len(made) \in Nat /\ DOMAIN made = 1..Len(made) /\ n \in Nat /\ TurnRow(n) \in Rows /\ L \in Nat
      /\ \A g \in 1..L : groups[g] \in Cards
  BY ArrivedMade, RowTypes, ElementOfSeq DEF ViewsInvariant
<1>2. \A m \in 1..n : m = n \/ (m \in 1..(n - 1) /\ m # n /\ m \in 1..Len(made) /\ n - 1 \in 1..(n - 1) /\ n \in 2..Len(made))
  BY <1>1
<1>3. \A g \in 1..L : Sound(groups[g]) /\ n \notin Of(groups[g])
  <2>1. \A g \in 1..L : Sound(groups[g]) /\ Of(groups[g]) \subseteq {at[m] : m \in 1..(n - 1)}
    BY DEF Dealt
  <2>2. n \notin {at[m] : m \in 1..(n - 1)}
    <3>1. \A m \in 1..(n - 1) : m \in 1..Len(made) /\ m # n
      BY <1>1
    <3>. QED BY <3>1
  <2>. QED BY <2>1, <2>2
<1>4. \/ /\ groups = <<>> \/ StartsNew(groups[L], TurnRow(n))
         /\ Len(out) = L + 1 /\ Of(out[L + 1]) = {n} /\ \A g \in 1..L : Of(out[g]) = Of(groups[g])
      \/ /\ groups # <<>> /\ L \in 1..L /\ Len(out) = L
         /\ \A g \in 1..L : Of(out[g]) = IF g = L THEN Of(groups[g]) \cup {n} ELSE Of(groups[g])
  BY <1>1, OfGrouped
<1> HIDE DEF out
<1>5. ASSUME NEW g \in 1..Len(out), NEW i \in Of(out[g]), i # n
      PROVE  g \in 1..L /\ i \in Of(groups[g]) /\ Of(groups[g]) \subseteq Of(out[g])
  <2>1. CASE /\ Len(out) = L + 1 /\ Of(out[L + 1]) = {n} /\ \A h \in 1..L : Of(out[h]) = Of(groups[h])
    <3>1. g \in 1..L \/ g = L + 1
      BY <1>1, <2>1
    <3>. QED BY <1>5, <2>1, <3>1
  <2>2. CASE /\ Len(out) = L
             /\ \A h \in 1..L : Of(out[h]) = IF h = L THEN Of(groups[h]) \cup {n} ELSE Of(groups[h])
    <3>1. g \in 1..L /\ Of(out[g]) \subseteq Of(groups[g]) \cup {n} /\ Of(groups[g]) \subseteq Of(out[g])
      BY <2>2
    <3>. QED BY <1>5, <3>1
  <2>. QED BY <1>4, <2>1, <2>2
<1>6. ASSUME NEW k \in 1..(n - 1), made[k].turn = made[n].turn
      PROVE  /\ L \in 1..L /\ Len(out) = L /\ n - 1 \in 1..(n - 1) /\ made[n - 1].turn = made[n].turn
             /\ n - 1 \in Of(groups[L]) /\ Of(out[L]) = Of(groups[L]) \cup {n}
             /\ \A g \in 1..L : n \in Of(out[g]) => g = L
             /\ \A j \in 1..(n - 1) : made[j].turn = made[n].turn => j \in Of(groups[L])
  <2>1. n - 1 \in 1..(n - 1) /\ n \in 2..Len(made) /\ n - 1 > 0 /\ n - 1 \in 1..Len(made) /\ n - 1 < n
    BY <1>1
  <2>2. groups # <<>> /\ at[n - 1] \in Of(groups[Len(groups)])
    BY <2>1 DEF Dealt
  <2>3. L \in 1..L /\ n - 1 \in Of(groups[L])
    BY <1>1, <2>1, <2>2
  <2>4. made[n - 1].turn = made[n].turn
    <3>1. \A i, j \in 1..Len(made) : i < j => made[i].turn <= made[j].turn
      BY <1>1 DEF ViewsInvariant, TurnsTold
    <3>2. \A i \in 1..Len(made) : made[i].turn \in Nat
      <4>1. \A i \in 1..Len(made) : made[i].turn \in 1..client.turn
        BY <1>1 DEF ViewsInvariant, TurnsTold
      <4>. QED BY <4>1
    <3>3. k \in 1..Len(made) /\ (k = n - 1 \/ k < n - 1)
      BY <1>1
    <3>4. CASE k = n - 1
      BY <1>6, <3>4
    <3>5. CASE k < n - 1
      <4>1. made[k].turn <= made[n - 1].turn /\ made[n - 1].turn <= made[n].turn
        BY <2>1, <3>1, <3>3, <3>5
      <4>2. made[n - 1].turn \in Nat /\ made[n].turn \in Nat
        BY <2>1, <3>2
      <4>. QED BY <1>6, <4>1, <4>2
    <3>. QED BY <3>3, <3>4, <3>5
  <2>5. \A j \in 1..(n - 1) : made[j].turn = made[n].turn => j \in Of(groups[L])
    BY <2>1, <2>3, <2>4 DEF Together
  <2>6. ~StartsNew(groups[L], TurnRow(n))
    BY <1>1, <1>3, <2>1, <2>3, <2>4, <2>5, NeighbourJoins
  <2>7. /\ Len(out) = L
        /\ \A g \in 1..L : Of(out[g]) = IF g = L THEN Of(groups[g]) \cup {n} ELSE Of(groups[g])
    BY <1>4, <2>2, <2>6
  <2>. QED BY <1>3, <2>1, <2>3, <2>4, <2>5, <2>7
<1>7. ASSUME NEW i \in 1..n, NEW j \in 1..n, made[i].turn = made[j].turn,
             NEW g \in 1..Len(out), i \in Of(out[g])
      PROVE  j \in Of(out[g])
  <2>1. CASE i = n /\ j = n
    BY <1>7, <2>1
  <2>2. CASE i # n /\ j # n
    <3>1. i \in 1..(n - 1) /\ j \in 1..(n - 1)
      BY <1>2, <2>2
    <3>2. g \in 1..L /\ i \in Of(groups[g]) /\ Of(groups[g]) \subseteq Of(out[g])
      BY <1>5, <1>7, <2>2
    <3>. QED BY <1>7, <3>1, <3>2 DEF Together
  <2>3. CASE i = n /\ j # n
    <3>1. j \in 1..(n - 1) /\ made[j].turn = made[n].turn
      BY <1>2, <1>7, <2>3
    <3>2. /\ Len(out) = L /\ Of(out[L]) = Of(groups[L]) \cup {n}
          /\ (\A h \in 1..L : n \in Of(out[h]) => h = L) /\ j \in Of(groups[L])
      BY <1>6, <3>1
    <3>. QED BY <1>7, <2>3, <3>2
  <2>4. CASE i # n /\ j = n
    <3>1. i \in 1..(n - 1) /\ made[i].turn = made[n].turn
      BY <1>2, <1>7, <2>4
    <3>2. /\ Len(out) = L /\ Of(out[L]) = Of(groups[L]) \cup {n} /\ n - 1 \in Of(groups[L]) /\ L \in 1..L
          /\ n - 1 \in 1..(n - 1) /\ made[n - 1].turn = made[n].turn
      BY <1>6, <3>1
    <3>3. g \in 1..L /\ i \in Of(groups[g])
      BY <1>5, <1>7, <2>4
    <3>4. n - 1 \in Of(groups[g])
      BY <3>1, <3>2, <3>3 DEF Together
    <3>5. g = L
      <4>1. ~(n - 1 < n - 1)
        BY <1>1
      <4>2. ~(g < L)
        BY <3>2, <3>3, <3>4, <4>1 DEF Dealt
      <4>. QED BY <1>1, <3>3, <4>2
    <3>. QED BY <2>4, <3>2, <3>5
  <2>. QED BY <2>1, <2>2, <2>3, <2>4
<1>8. Together(out, n)
  BY <1>7 DEF Together
<1>. QED BY <1>8 DEF out

\* Once all have arrived, every turn is on one card.
LEMMA SessionTogether ==
  ASSUME ViewsInvariant, Len(arrived) = Len(made)
  PROVE  /\ SessionTurns \in Seq(Cards)
         /\ Together(SessionTurns, Len(made))
         /\ Dealt(SessionTurns, [n \in 1..Len(made) |-> n], Len(made))
<1> DEFINE N == Len(made)
           at == [n \in 1..N |-> n]
<1>1. N \in Nat /\ DOMAIN made = 1..N
  BY ArrivedMade DEF ViewsInvariant
<1>2. Len(SessionRows) = N /\ RowsAt(at)
  BY RowsOfAll
<1>3. \A m \in 1..N : at[m] = m
  OBVIOUS
<1> HIDE DEF at
<1>4. SessionRows \in Seq(Rows) /\ \A n \in 1..N : SessionRows[n] = TurnRow(n)
  BY <1>2, <1>3 DEF RowsAt
<1>5. SessionTurns \in Seq(Cards) /\ Dealt(SessionTurns, at, N)
  BY <1>2, SessionDealt
<1>6. PICK f : Deals(f, SessionRows) /\ Groups(SessionRows) = f[Len(SessionRows)]
  BY <1>4, GroupsLoop
<1>7. /\ f \in [0..N -> Seq(Cards)] /\ f[0] = <<>>
      /\ \A n \in 1..N : f[n] = Grouped(f[n - 1], SessionRows[n])
  BY <1>2, <1>6 DEF Deals
<1>8. SessionTurns = f[N]
  <2>1. Groups(SessionRows) = f[N]
    BY <1>2, <1>6
  <2>. QED BY <2>1, Zenon DEF SessionTurns, SessionRows
<1> HIDE DEF N
<1> DEFINE T == {n \in 0..N : Dealt(f[n], at, n) /\ Together(f[n], n)}
<1>9. 0 \in T
  <2>1. f[0] = <<>> /\ 1..Len(f[0]) = {} /\ 1..0 = {} /\ ~(0 > 0) /\ 0 \in 0..N
    BY <1>1, <1>7
  <2>2. Dealt(f[0], at, 0)
    BY <2>1 DEF Dealt
  <2>3. Together(f[0], 0)
    BY <2>1 DEF Together
  <2>. QED BY <2>1, <2>2, <2>3
<1>10. ASSUME NEW n \in 1..N, n - 1 \in T PROVE n \in T
  <2>1. n - 1 \in 0..N /\ n \in 0..N /\ n \in 1..Len(SessionRows) /\ n \in 1..Len(made)
    BY <1>1, <1>2 DEF N
  <2>2. f[n - 1] \in Seq(Cards) /\ Dealt(f[n - 1], at, n - 1) /\ Together(f[n - 1], n - 1)
    BY <1>7, <1>10, <2>1
  <2>3. Dealt(Grouped(f[n - 1], SessionRows[n]), at, n)
    BY <1>2, <2>1, <2>2, DealtStep
  <2>4. Together(Grouped(f[n - 1], TurnRow(n)), n)
    BY <1>3, <2>1, <2>2, TogetherStep DEF N
  <2>. QED BY <1>4, <1>7, <2>1, <2>3, <2>4
<1> HIDE DEF T
<1>11. \A n \in 0..N : n \in T
  BY <1>1, <1>9, <1>10, Loop
<1>12. N \in T
  BY <1>1, <1>11
<1>13. Together(SessionTurns, N)
  BY <1>8, <1>12 DEF T
<1>. QED BY <1>5, <1>13 DEF N, at

\* The cards of a complete session are the client's turns.
LEMMA CardsMatch ==
  ASSUME ViewsInvariant
  PROVE  TurnsMatch
<1> DEFINE cards == SessionTurns
           N == Len(made)
           L == Len(cards)
           oneCard(i, j) == \E g \in DOMAIN cards : {i, j} \subseteq ToSet(cards[g].requests)
<1>1. SUFFICES ASSUME Len(arrived) = Len(made)
               PROVE  /\ \A i, j \in DOMAIN made :
                            i < j => IF made[i].turn = made[j].turn THEN oneCard(i, j)
                                     ELSE oneCard(i, j) => ~client.named /\ Cardinality(Asked(i, j)) = 1
                      /\ \A g, h \in DOMAIN cards : cards[g].turn = cards[h].turn => g = h
  BY Zenon DEF TurnsMatch
<1>2. N \in Nat /\ DOMAIN made = 1..N
  BY ArrivedMade DEF ViewsInvariant
<1>3. PICK at : at = [n \in 1..N |-> n]
  OBVIOUS
<1>4. cards \in Seq(Cards) /\ Together(cards, N) /\ Dealt(cards, at, N)
  BY <1>1, <1>3, SessionTogether
<1>5. \A m \in 1..N : at[m] = m
  BY <1>3
<1> HIDE DEF cards
<1>6. /\ DOMAIN cards = 1..L /\ L \in Nat
      /\ \A g \in 1..L : cards[g] \in Cards /\ Sound(cards[g]) /\ cards[g].requests \in Seq(Nat)
      /\ \A g \in 1..L : Of(cards[g]) # {} /\ cards[g].requests[1] \in Of(cards[g]) /\ Of(cards[g]) \subseteq 1..N
  <2>1. \A g \in 1..L : cards[g] \in Cards /\ Sound(cards[g])
    BY <1>4, ElementOfSeq DEF Dealt
  <2>2. ASSUME NEW g \in 1..L
        PROVE  /\ cards[g].requests \in Seq(Nat) /\ cards[g].requests[1] \in Of(cards[g])
               /\ Of(cards[g]) \subseteq 1..N
    <3>1. cards[g].requests \in Seq(Nat) /\ cards[g].requests # <<>> /\ Of(cards[g]) \subseteq 1..N
      BY <2>1 DEF Cards, Sound, Of
    <3>. QED BY <3>1 DEF Of, ToSet
  <2>. QED BY <1>4, <2>1, <2>2
<1>7. \A g, h \in 1..L : g < h => \A i \in Of(cards[g]) : \A j \in Of(cards[h]) : i < j
  BY <1>4 DEF Dealt
<1>8. ASSUME NEW g \in 1..L, NEW h \in 1..L, NEW i \in Of(cards[g]), i \in Of(cards[h]) PROVE g = h
  <2>1. i \in Nat /\ ~(i < i)
    BY <1>2, <1>6
  <2>2. ~(g < h) /\ ~(h < g)
    BY <1>7, <1>8, <2>1
  <2>. QED BY <1>6, <2>2
<1>9. ASSUME NEW i \in 1..N PROVE \E g \in 1..L : i \in Of(cards[g])
  BY <1>4, <1>5 DEF Dealt
<1>10. ASSUME NEW i \in 1..N, NEW j \in 1..N, i < j, made[i].turn = made[j].turn PROVE oneCard(i, j)
  <2>1. PICK g \in 1..L : i \in Of(cards[g])
    BY <1>9
  <2>2. j \in Of(cards[g])
    BY <1>4, <1>10, <2>1 DEF Together
  <2>. QED BY <1>6, <2>1, <2>2 DEF Of
<1>11. ASSUME NEW i \in 1..N, NEW j \in 1..N, i < j, made[i].turn # made[j].turn, oneCard(i, j)
       PROVE  ~client.named /\ Cardinality(Asked(i, j)) = 1
  <2>1. PICK g \in 1..L : i \in Of(cards[g]) /\ j \in Of(cards[g])
    BY <1>6, <1>11 DEF Of
  <2>2. ~client.named
    <3>1. SUFFICES ASSUME client.named PROVE FALSE
      OBVIOUS
    <3>2. TurnNames[made[i].turn] = TurnNames[made[j].turn]
      <4>1. \A r \in Of(cards[g]) : cards[g].explicit = TurnNames[made[r].turn]
        BY <1>6, <3>1 DEF Sound, Of
      <4>. QED BY <2>1, <4>1
    <3>3. made[i].turn \in DOMAIN TurnNames /\ made[j].turn \in DOMAIN TurnNames
      BY RowTypes
    <3>. QED BY <1>11, <3>2, <3>3, ViewsAssumption
  <2>3. ASSUME NEW k \in i..j PROVE k \in Of(cards[g])
    <3>1. k \in 1..N /\ i \in Nat /\ j \in Nat /\ k \in Nat /\ i <= k /\ k <= j
      BY <1>2
    <3>2. PICK h \in 1..L : k \in Of(cards[h])
      BY <1>9, <3>1
    <3>3. ~(h < g)
      BY <1>7, <2>1, <3>1, <3>2
    <3>4. ~(g < h)
      BY <1>7, <2>1, <3>1, <3>2
    <3>5. h = g
      BY <1>6, <3>3, <3>4
    <3>. QED BY <3>2, <3>5
  <2>4. Asked(i, j) \subseteq {cards[g].command}
    <3>1. \A k \in i..j : made[k].command \in {Missing, cards[g].command}
      BY <1>6, <2>2, <2>3 DEF Sound, Of
    <3>. QED BY <3>1 DEF Asked
  <2>5. Asked(i, j) # {}
    <3>1. PICK m \in 1..j : Opens(m, made[j].turn)
      BY <1>2 DEF ViewsInvariant, TurnsTold
    <3>2. m \in 1..N /\ made[m].asks = "command" /\ made[m].turn = made[j].turn
      BY <1>2, <3>1 DEF Opens
    <3>3. made[m].command # Missing
      BY <1>2, <3>2, ViewsAssumption DEF ViewsInvariant, CommandsTold
    <3>4. m > i
      <4>1. SUFFICES ASSUME m <= i PROVE FALSE
        BY <1>2, <3>2
      <4>2. \A a, b \in 1..N : a < b => made[a].turn <= made[b].turn
        BY <1>2 DEF ViewsInvariant, TurnsTold
      <4>3. made[i].turn \in Nat /\ made[j].turn \in Nat /\ made[m].turn \in Nat
        <5>1. \A a \in 1..N : made[a].turn \in 1..client.turn
          BY <1>2 DEF ViewsInvariant, TurnsTold
        <5>. QED BY <3>2, <5>1
      <4>4. made[m].turn <= made[i].turn /\ made[i].turn <= made[j].turn
        <5>1. CASE m = i
          BY <1>11, <4>2, <4>3, <5>1
        <5>2. CASE m < i
          BY <1>11, <3>2, <4>2, <5>2
        <5>. QED BY <1>2, <3>2, <4>1, <5>1, <5>2
      <4>. QED BY <1>11, <3>2, <4>3, <4>4
    <3>5. m \in i..j
      BY <1>2, <3>1, <3>2, <3>4
    <3>. QED BY <3>3, <3>5 DEF Asked
  <2>6. Asked(i, j) = {cards[g].command}
    BY <2>4, <2>5
  <2>. QED BY <2>2, <2>6, FS_Singleton
<1>12. ASSUME NEW g \in 1..L, NEW h \in 1..L, cards[g].turn = cards[h].turn PROVE g = h
  <2> DEFINE i == cards[g].requests[1]
             j == cards[h].requests[1]
  <2>1. i \in Of(cards[g]) /\ j \in Of(cards[h]) /\ i \in 1..N /\ j \in 1..N
    BY <1>6
  <2>2. Sound(cards[g]) /\ Sound(cards[h])
    BY <1>6
  <2>3. client.named \in BOOLEAN
    BY DEF ViewsInvariant, Typed, Clients
  <2>4. CASE client.named
    <3>1. cards[g].turn = [explicit |-> cards[g].explicit] /\ cards[h].turn = [explicit |-> cards[h].explicit]
          /\ cards[g].explicit = TurnNames[made[i].turn] /\ cards[h].explicit = TurnNames[made[j].turn]
      BY <2>1, <2>2, <2>4 DEF Sound, Of
    <3>2. cards[g].explicit = cards[h].explicit
      <4> DEFINE a == cards[g].explicit
                 b == cards[h].explicit
      <4> HIDE DEF a, b
      <4>1. [explicit |-> a] = [explicit |-> b]
        BY <1>12, <3>1 DEF a, b
      <4>2. a = b
        BY <4>1
      <4>. QED BY <4>2 DEF a, b
    <3>3. made[i].turn \in DOMAIN TurnNames /\ made[j].turn \in DOMAIN TurnNames
      BY <2>1, RowTypes
    <3>4. made[i].turn = made[j].turn
      BY <3>1, <3>2, <3>3, ViewsAssumption
    <3> HIDE DEF i, j
    <3>5. j \in Of(cards[g])
      BY <1>4, <2>1, <3>4 DEF Together
    <3>. QED BY <1>8, <2>1, <3>5
  <2>5. CASE ~client.named
    <3>1. cards[g].turn = [derived |-> i] /\ cards[h].turn = [derived |-> j]
      BY <2>2, <2>5 DEF Sound
    <3> HIDE DEF i, j
    <3>2. i = j
      <4>1. [derived |-> i] = [derived |-> j]
        BY <1>12, <3>1
      <4>. QED BY <4>1
    <3>. QED BY <1>8, <2>1, <3>2
  <2>. QED BY <2>3, <2>4, <2>5
<1>13. \A i, j \in DOMAIN made :
            i < j => IF made[i].turn = made[j].turn THEN oneCard(i, j)
                     ELSE oneCard(i, j) => ~client.named /\ Cardinality(Asked(i, j)) = 1
  BY <1>2, <1>10, <1>11
<1>. QED BY <1>6, <1>12, <1>13

\* Once a session is complete its cards are its client's turns, whatever was
\* retried, compacted or archived late, and no two cards share their id
\* (turns.go:205-260).
THEOREM TurnsAlwaysMatch ==
  Spec => []TurnsMatch
BY CardsMatch, ViewsInvariantHolds, PTL

-----------------------------------------------------------------------------
(* The readers and the jobs.                                                *)

Texts == [full : Told] \cup [compact : Told]
Jobs == [turn : TurnIds, step : {"build", "save", "end"}, text : Texts]
OpenPages == [step : {"polls", "missed", "answered"}, turn : TurnIds]

ReadingsTyped ==
    /\ jobs \in Seq(Jobs)
    /\ pages \in [Readers -> {Closed} \cup OpenPages]
    /\ faults \in Nat

\* The text of a turn is of these texts.
LEMMA BuiltType ==
  ASSUME ViewsInvariant, NEW group \in Cards, Sound(group), NEW lost
  PROVE  LET candidates == Candidates(group.requests, lost)
             text == BuiltText(group.command, candidates)
         IN  /\ text \in Texts
             /\ \/ \E r \in Of(group) : made[r].command # Missing /\ text = [full |-> made[r].command]
                \/ /\ text = [compact |-> group.command]
                   /\ \A r \in Of(group) : made[r].command = Missing \/ r \in lost
<1> DEFINE q == group.requests
           N == Len(q)
           cs == Candidates(q, lost)
           full == FullText(group.command, cs)
           text == BuiltText(group.command, cs)
           texted   == {i \in DOMAIN cs : cs[i] # Missing}
           matching == {i \in texted : group.command \in {Missing, cs[i]}}
<1>1. q \in Seq(Nat) /\ group.command \in Told /\ N \in Nat /\ DOMAIN q = 1..N
      /\ Of(group) = {q[i] : i \in 1..N} /\ Of(group) \subseteq 1..Len(made)
  BY DEF Cards, Sound, Of, ToSet
<1>2. \A i \in 1..N : q[i] \in Of(group) /\ q[i] \in 1..Len(made)
  BY <1>1
<1>3. \A r \in 1..Len(made) : made[r].command = UserText(made[r].input) /\ made[r].command \in Told
  <2>1. DOMAIN made = 1..Len(made) /\ made \in Seq(Requests)
    BY DEF ViewsInvariant, Typed
  <2>2. \A r \in 1..Len(made) : made[r] \in Requests
    BY <2>1, ElementOfSeq
  <2>. QED BY <2>1, <2>2 DEF ViewsInvariant, CommandsTold, Requests, Told
<1>4. DOMAIN cs = 1..N /\ \A i \in 1..N : cs[i] = IF q[i] \in lost THEN Missing ELSE made[q[i]].command
  <2>1. cs = [i \in DOMAIN q |-> IF q[i] \in lost THEN Missing ELSE UserText(made[q[i]].input)]
    BY Zenon DEF Candidates
  <2> HIDE DEF cs
  <2>. QED BY <1>1, <1>2, <1>3, <2>1
<1>5. full = IF matching # {} THEN cs[Min(matching)]
             ELSE IF texted # {} THEN cs[Min(texted)] ELSE Missing
  BY Zenon DEF FullText
<1>6. text = IF full # Missing THEN [full |-> full] ELSE [compact |-> group.command]
  BY Zenon DEF BuiltText
<1> HIDE DEF cs, full, text, q, N
<1>7. texted \subseteq 1..N /\ matching \subseteq texted /\ texted \subseteq Nat /\ matching \subseteq Nat
  BY <1>1, <1>4
<1>8. CASE texted # {}
  <2>1. PICK i \in texted : full = cs[i]
    <3>1. CASE matching # {}
      BY <1>5, <1>7, <3>1, MinOfPositions
    <3>2. CASE matching = {}
      BY <1>5, <1>7, <1>8, <3>2, MinOfPositions
    <3>. QED BY <3>1, <3>2
  <2>2. full # Missing /\ i \in 1..N
    BY <1>7, <2>1
  <2>3. full = made[q[i]].command /\ q[i] \in Of(group) /\ full \in Told
    BY <1>2, <1>3, <1>4, <2>1, <2>2
  <2>4. text = [full |-> full]
    BY <1>6, <2>2
  <2>5. text \in Texts
    BY <2>3, <2>4 DEF Texts
  <2>6. \E r \in Of(group) : made[r].command # Missing /\ text = [full |-> made[r].command]
    BY <2>2, <2>3, <2>4
  <2>. QED BY <2>5, <2>6 DEF text, cs, q
<1>9. CASE texted = {}
  <2>1. full = Missing
    BY <1>5, <1>7, <1>9
  <2>2. text = [compact |-> group.command] /\ text \in Texts
    BY <1>1, <1>6, <2>1 DEF Texts
  <2>3. \A i \in 1..N : cs[i] = Missing
    BY <1>4, <1>9
  <2>4. \A r \in Of(group) : made[r].command = Missing \/ r \in lost
    BY <1>1, <1>4, <2>3
  <2>. QED BY <2>2, <2>4 DEF text, cs, q
<1>. QED BY <1>8, <1>9

\* Initially no page is open.
LEMMA ReadingsTypedInit ==
  Init => ReadingsTyped
BY DEF Init, ReadingsTyped

\* The turn a reader opens, and the turn a job finds.
LEMMA FoundCard ==
  ASSUME ViewsInvariant
  PROVE  /\ \A card \in ToSet(SessionTurns) : card \in Cards /\ Sound(card)
         /\ \A turn : HasTurn(SessionTurns, turn) =>
               /\ FindTurn(SessionTurns, turn) \in Cards /\ Sound(FindTurn(SessionTurns, turn))
               /\ FindTurn(SessionTurns, turn).turn = turn
<1> DEFINE cards == SessionTurns
<1>1. cards \in Seq(Cards) /\ \A g \in 1..Len(cards) : Sound(cards[g])
  BY CardsSound
<1>2. DOMAIN cards = 1..Len(cards) /\ \A g \in 1..Len(cards) : cards[g] \in Cards
  BY <1>1, ElementOfSeq
<1> HIDE DEF cards
<1>3. \A card \in ToSet(cards) : card \in Cards /\ Sound(card)
  BY <1>1, <1>2 DEF ToSet
<1>4. ASSUME NEW turn, HasTurn(cards, turn)
      PROVE  FindTurn(cards, turn) \in Cards /\ Sound(FindTurn(cards, turn)) /\ FindTurn(cards, turn).turn = turn
  <2> DEFINE S == {i \in DOMAIN cards : cards[i].turn = turn}
  <2>1. S \subseteq Nat /\ S # {}
    BY <1>2, <1>4 DEF HasTurn
  <2>2. Min(S) \in S
    BY <2>1, MinOfPositions
  <2>3. FindTurn(cards, turn) = cards[Min(S)]
    BY Zenon DEF FindTurn
  <2>. QED BY <1>1, <1>2, <2>2, <2>3
<1>. QED BY <1>3, <1>4 DEF cards

\* A sequence without its n-th element.
LEMMA Removed ==
  ASSUME NEW V, NEW s \in Seq(V), NEW n \in 1..Len(s)
  PROVE  /\ RemoveAt(s, n) \in Seq(V) /\ Len(RemoveAt(s, n)) = Len(s) - 1 /\ Len(s) \in Nat
         /\ \A i \in 1..(Len(s) - 1) : RemoveAt(s, n)[i] = IF i < n THEN s[i] ELSE s[i + 1]
<1> DEFINE a == SubSeq(s, 1, n - 1)
           b == SubSeq(s, n + 1, Len(s))
           L == Len(s)
<1>1. L \in Nat /\ n \in Nat /\ n > 0 /\ n <= L
  OBVIOUS
<1>2. /\ a \in Seq(V) /\ Len(a) = n - 1 /\ \A i \in 1..(n - 1) : a[i] = s[i]
  <2>1. 1 \in 1..(L + 1) /\ n - 1 \in (1 - 1)..L /\ n - 1 - 1 + 1 = n - 1 /\ \A i \in 1..(n - 1) : 1 + i - 1 = i
    BY <1>1
  <2>2. /\ a \in Seq(V) /\ Len(a) = n - 1 - 1 + 1 /\ \A i \in 1..(n - 1 - 1 + 1) : a[i] = s[1 + i - 1]
    BY <2>1, Part
  <2> HIDE DEF a
  <2>. QED BY <2>1, <2>2
<1>3. /\ b \in Seq(V) /\ Len(b) = L - n /\ \A i \in 1..(L - n) : b[i] = s[n + i]
  <2>1. n + 1 \in 1..(L + 1) /\ L \in (n + 1 - 1)..L /\ L - (n + 1) + 1 = L - n
        /\ \A i \in 1..(L - n) : n + 1 + i - 1 = n + i
    BY <1>1
  <2>2. /\ b \in Seq(V) /\ Len(b) = L - (n + 1) + 1 /\ \A i \in 1..(L - (n + 1) + 1) : b[i] = s[n + 1 + i - 1]
    <3>1. PICK m : m = n + 1
      OBVIOUS
    <3>2. m \in 1..(L + 1) /\ L \in (m - 1)..L
      BY <2>1, <3>1
    <3>3. /\ SubSeq(s, m, L) \in Seq(V) /\ Len(SubSeq(s, m, L)) = L - m + 1
          /\ \A i \in 1..(L - m + 1) : SubSeq(s, m, L)[i] = s[m + i - 1]
      BY <3>2, Part
    <3>. QED BY <3>1, <3>3
  <2> HIDE DEF b
  <2>. QED BY <2>1, <2>2
<1>4. RemoveAt(s, n) = a \o b
  BY DEF RemoveAt
<1> HIDE DEF a, b
<1>5. Two(a, b, V)
  BY <1>2, <1>3 DEF Two
<1> DEFINE r == a \o b
<1>6. /\ r \in Seq(V) /\ Len(r) = Len(a) + Len(b)
      /\ \A i \in 1..Len(a) : r[i] = a[i]
      /\ \A i \in 1..(Len(a) + Len(b)) : i \in 1..Len(a) \/ (i - Len(a) \in 1..Len(b) /\ r[i] = b[i - Len(a)])
  BY <1>5, Joins
<1> HIDE DEF r, L
<1>7. r \in Seq(V) /\ Len(r) = L - 1
  BY <1>1, <1>2, <1>3, <1>6
<1>8. ASSUME NEW i \in 1..(L - 1) PROVE r[i] = IF i < n THEN s[i] ELSE s[i + 1]
  <2>1. CASE i < n
    <3>1. i \in 1..(n - 1) /\ i \in 1..Len(a)
      BY <1>1, <1>2, <2>1
    <3>. QED BY <1>2, <1>6, <2>1, <3>1
  <2>2. CASE ~(i < n)
    <3>1. i \in 1..(Len(a) + Len(b)) /\ i \notin 1..Len(a) /\ i - Len(a) = i - n + 1 /\ n + (i - n + 1) = i + 1
          /\ i - n + 1 \in 1..(L - n)
      BY <1>1, <1>2, <1>3, <2>2
    <3>2. r[i] = b[i - n + 1]
      BY <1>6, <3>1
    <3>. QED BY <1>3, <2>2, <3>1, <3>2
  <2>. QED BY <2>1, <2>2
<1>. QED BY <1>1, <1>4, <1>7, <1>8 DEF r, L

\* What a step may do to the readings.
LEMMA ReadSteps ==
  ASSUME [Next]_allVars
  PROVE  \/ UNCHANGED readings
         \/ /\ UNCHANGED views
            /\ \/ \E u \in Readers : Open(u) \/ Lookup(u) \/ Claim(u)
               \/ \E n : Build(n) \/ Save(n) \/ End(n)
               \/ Restart
<1>1. CASE UNCHANGED allVars
  BY <1>1 DEF allVars
<1>2. CASE Next
  BY <1>2, Zenon DEF Next, Poll, Work
<1>. QED BY <1>1, <1>2

\* One job more, for a turn that has none.
JobAdded(id) ==
    id \notin running /\ running' = running \cup {id}
    /\ jobs' = Append(jobs, [turn |-> id, step |-> "build", text |-> Unbuilt])
JobEdited(n, step, text) ==
    /\ n \in DOMAIN jobs /\ step \in {"save", "end"} /\ text \in Texts /\ running' = running
    /\ jobs' = [jobs EXCEPT ![n] = [turn |-> jobs[n].turn, step |-> step, text |-> text]]
JobRemoved(n) ==
    n \in DOMAIN jobs /\ jobs' = RemoveAt(jobs, n) /\ running' = running \ {jobs[n].turn}

\* The jobs stay jobs, one for a turn, and running is their turns.
LEMMA JobsKept ==
  ASSUME jobs \in Seq(Jobs), OneJobPerTurn,
         \/ \E id \in TurnIds : JobAdded(id)
         \/ \E n, step, text : JobEdited(n, step, text)
         \/ \E n : JobRemoved(n)
         \/ jobs' = <<>> /\ running' = {}
         \/ jobs' = jobs /\ running' = running
  PROVE  /\ jobs' \in Seq(Jobs) /\ OneJobPerTurn'
<1>1. DOMAIN jobs = 1..Len(jobs) /\ Len(jobs) \in Nat /\ \A n \in 1..Len(jobs) : jobs[n] \in Jobs
  BY ElementOfSeq
<1>2. /\ running = {jobs[n].turn : n \in 1..Len(jobs)}
      /\ \A m, n \in 1..Len(jobs) : jobs[m].turn = jobs[n].turn => m = n
  BY <1>1 DEF OneJobPerTurn
<1>3. CASE jobs' = <<>> /\ running' = {}
  <2>1. DOMAIN jobs' = {}
    BY <1>3
  <2>. QED BY <1>3, <2>1 DEF OneJobPerTurn
<1>4. CASE jobs' = jobs /\ running' = running
  BY <1>4 DEF OneJobPerTurn
<1>5. ASSUME NEW id \in TurnIds, JobAdded(id) PROVE jobs' \in Seq(Jobs) /\ OneJobPerTurn'
  <2> DEFINE job == [turn |-> id, step |-> "build", text |-> Unbuilt]
             L == Len(jobs)
  <2>1. job \in Jobs /\ job.turn = id
    <3>1. Unbuilt \in Texts
      BY DEF Unbuilt, Texts, Told
    <3>. QED BY <3>1 DEF Jobs
  <2>2. id \notin running /\ running' = running \cup {id} /\ jobs' = Append(jobs, job)
    BY <1>5 DEF JobAdded
  <2> HIDE DEF job
  <2>3. /\ jobs' \in Seq(Jobs) /\ Len(jobs') = L + 1 /\ (\A i \in 1..L : jobs'[i] = jobs[i]) /\ jobs'[L + 1] = job
    BY <2>1, <2>2, AppendProperties
  <2>4. DOMAIN jobs' = 1..(L + 1) /\ (\A i \in 1..(L + 1) : i \in 1..L \/ i = L + 1)
        /\ (\A i \in 1..L : i \in 1..(L + 1)) /\ L + 1 \in 1..(L + 1)
    BY <1>1, <2>3
  <2> HIDE DEF L
  <2>5. \A i \in 1..L : jobs'[i].turn = jobs[i].turn /\ jobs[i].turn # id
    BY <1>2, <2>2, <2>3 DEF L
  <2>6. jobs'[L + 1].turn = id
    BY <2>1, <2>3
  <2>7. running' = {jobs'[n].turn : n \in DOMAIN jobs'}
    <3>1. running' \subseteq {jobs'[n].turn : n \in DOMAIN jobs'}
      BY <1>2, <2>2, <2>4, <2>5, <2>6 DEF L
    <3>2. \A n \in DOMAIN jobs' : jobs'[n].turn \in running'
      BY <1>2, <2>2, <2>4, <2>5, <2>6 DEF L
    <3>. QED BY <3>1, <3>2
  <2>8. ASSUME NEW m \in DOMAIN jobs', NEW n \in DOMAIN jobs', jobs'[m].turn = jobs'[n].turn PROVE m = n
    <3>1. (m \in 1..L \/ m = L + 1) /\ (n \in 1..L \/ n = L + 1)
      BY <2>4
    <3>2. CASE m \in 1..L /\ n \in 1..L
      BY <1>2, <2>5, <2>8, <3>2 DEF L
    <3>. QED BY <2>5, <2>6, <2>8, <3>1, <3>2
  <2>. QED BY <2>3, <2>7, <2>8 DEF OneJobPerTurn
<1>6. ASSUME NEW n, NEW step, NEW text, JobEdited(n, step, text) PROVE jobs' \in Seq(Jobs) /\ OneJobPerTurn'
  <2> DEFINE job == [turn |-> jobs[n].turn, step |-> step, text |-> text]
  <2>1. /\ n \in 1..Len(jobs) /\ step \in {"save", "end"} /\ text \in Texts /\ running' = running
        /\ jobs' = [jobs EXCEPT ![n] = job]
    BY <1>1, <1>6 DEF JobEdited
  <2>2. job \in Jobs /\ job.turn = jobs[n].turn
    <3>1. jobs[n].turn \in TurnIds
      BY <1>1, <2>1 DEF Jobs
    <3>. QED BY <2>1, <3>1 DEF Jobs
  <2> HIDE DEF job
  <2>3. /\ jobs' \in Seq(Jobs) /\ Len(jobs') = Len(jobs)
        /\ \A j \in 1..Len(jobs) : jobs'[j] = IF j = n THEN job ELSE jobs[j]
    BY <2>1, <2>2, ExceptSeq
  <2>4. DOMAIN jobs' = 1..Len(jobs) /\ \A j \in 1..Len(jobs) : jobs'[j].turn = jobs[j].turn
    BY <2>2, <2>3
  <2>5. {jobs'[j].turn : j \in DOMAIN jobs'} = {jobs[j].turn : j \in 1..Len(jobs)}
    BY <2>4
  <2>. QED BY <1>2, <2>1, <2>3, <2>4, <2>5 DEF OneJobPerTurn
<1>7. ASSUME NEW n, JobRemoved(n) PROVE jobs' \in Seq(Jobs) /\ OneJobPerTurn'
  <2> DEFINE L == Len(jobs)
  <2>1. n \in 1..L /\ jobs' = RemoveAt(jobs, n) /\ running' = running \ {jobs[n].turn}
    BY <1>1, <1>7 DEF JobRemoved
  <2>2. /\ jobs' \in Seq(Jobs) /\ Len(jobs') = L - 1
        /\ \A i \in 1..(L - 1) : jobs'[i] = IF i < n THEN jobs[i] ELSE jobs[i + 1]
    BY <2>1, Removed
  <2>3. DOMAIN jobs' = 1..(L - 1)
    BY <2>2
  <2> DEFINE old == [i \in 1..(L - 1) |-> IF i < n THEN i ELSE i + 1]
  <2>4. /\ \A i \in 1..(L - 1) : old[i] \in 1..L /\ old[i] # n /\ jobs'[i] = jobs[old[i]]
        /\ \A i, j \in 1..(L - 1) : old[i] = old[j] => i = j
        /\ \A k \in 1..L : k # n => \E i \in 1..(L - 1) : old[i] = k
    <3>1. L \in Nat /\ n \in Nat
      BY <1>1, <2>1
    <3> HIDE DEF L
    <3>2. \A i \in 1..(L - 1) : old[i] \in 1..L /\ old[i] # n
      BY <2>1, <3>1
    <3>3. \A i \in 1..(L - 1) : jobs'[i] = jobs[old[i]]
      BY <2>2
    <3>4. \A i, j \in 1..(L - 1) : old[i] = old[j] => i = j
      BY <3>1
    <3>5. ASSUME NEW k \in 1..L, k # n PROVE \E i \in 1..(L - 1) : old[i] = k
      <4>1. CASE k < n
        <5>1. k \in 1..(L - 1) /\ old[k] = k
          BY <2>1, <3>1, <4>1
        <5>. QED BY <5>1
      <4>2. CASE k > n
        <5>1. k - 1 \in 1..(L - 1) /\ ~(k - 1 < n) /\ (k - 1) + 1 = k
          BY <2>1, <3>1, <4>2
        <5>2. old[k - 1] = k
          BY <5>1
        <5> HIDE DEF old
        <5>. QED BY <5>1, <5>2
      <4>. QED BY <2>1, <3>1, <3>5, <4>1, <4>2
    <3>. QED BY <3>2, <3>3, <3>4, <3>5
  <2> HIDE DEF old, L
  <2>5. running' = {jobs'[i].turn : i \in DOMAIN jobs'}
    <3>1. ASSUME NEW x \in running' PROVE x \in {jobs'[i].turn : i \in DOMAIN jobs'}
      <4>1. PICK k \in 1..L : x = jobs[k].turn
        BY <1>2, <2>1 DEF L
      <4>2. k # n
        BY <2>1, <4>1
      <4>3. PICK i \in 1..(L - 1) : old[i] = k
        BY <2>4, <4>2
      <4>. QED BY <2>3, <2>4, <4>1, <4>3
    <3>2. ASSUME NEW i \in DOMAIN jobs' PROVE jobs'[i].turn \in running'
      <4>1. old[i] \in 1..L /\ old[i] # n /\ jobs'[i].turn = jobs[old[i]].turn
        BY <2>3, <2>4
      <4>2. jobs[old[i]].turn # jobs[n].turn
        BY <1>2, <2>1, <4>1 DEF L
      <4>. QED BY <1>2, <2>1, <4>1, <4>2 DEF L
    <3>. QED BY <3>1, <3>2
  <2>6. ASSUME NEW i \in DOMAIN jobs', NEW j \in DOMAIN jobs', jobs'[i].turn = jobs'[j].turn PROVE i = j
    <3>1. i \in 1..(L - 1) /\ j \in 1..(L - 1) /\ jobs[old[i]].turn = jobs[old[j]].turn
      BY <2>3, <2>4, <2>6
    <3>2. old[i] = old[j]
      BY <1>2, <2>4, <3>1 DEF L
    <3>. QED BY <2>4, <3>1, <3>2
  <2>. QED BY <2>2, <2>5, <2>6 DEF OneJobPerTurn
<1>. QED BY <1>3, <1>4, <1>5, <1>6, <1>7

\* Whose text it is: the id is known, and the text is the command of its turn,
\* or a summary of it when something failed, or tells none.
Own(id, text) ==
    /\ "explicit" \in DOMAIN id \/ id.derived \in DOMAIN made
    /\ \/ text = [compact |-> Missing]
       \/ \E c \in CommandsOf(id) : text = [full |-> c] \/ (faults > 0 /\ text = [compact |-> c])

\* The texts that are cached, and those that are about to be.
TextsOwned ==
    /\ \A id \in DOMAIN texts : Own(id, texts[id])
    /\ \A n \in DOMAIN jobs : jobs[n].step = "save" => Own(jobs[n].turn, jobs[n].text)

\* The command of the turn of a request on a card is a command of the card's id.
LEMMA CardsCommands ==
  ASSUME ViewsInvariant, NEW card \in Cards, Sound(card), NEW r \in Of(card), made[r].command # Missing
  PROVE  /\ made[r].command \in CommandsOf(card.turn)
         /\ "explicit" \in DOMAIN card.turn \/ card.turn.derived \in DOMAIN made
<1> DEFINE turn == IF "explicit" \in DOMAIN card.turn
                   THEN CHOOSE t \in DOMAIN TurnNames : TurnNames[t] = card.turn.explicit
                   ELSE made[card.turn.derived].turn
<1>1. DOMAIN made = 1..Len(made) /\ Len(made) \in Nat /\ client.named \in BOOLEAN
  BY ArrivedMade DEF ViewsInvariant, Typed, Clients
<1>2. r \in 1..Len(made) /\ Of(card) \subseteq 1..Len(made) /\ card.requests[1] \in Of(card)
  BY DEF Sound, Of, Cards, ToSet
<1>3. CommandsOf(card.turn) = {made[i].added[1].text :
         i \in {j \in DOMAIN made : made[j].asks = "command" /\ made[j].turn = turn}}
  BY Zenon DEF CommandsOf
<1>4. ASSUME NEW i \in 1..Len(made), made[i].command # Missing, made[i].turn = turn
      PROVE  made[i].command \in CommandsOf(card.turn)
  <2>1. PICK m \in 1..i : Tells(m, made[i].turn, made[i].command)
    BY <1>1, <1>4 DEF ViewsInvariant, CommandsTold
  <2>2. m \in DOMAIN made
    BY <1>1
  <2> HIDE DEF turn
  <2>. QED BY <1>3, <1>4, <2>1, <2>2 DEF Tells, Opens
<1>5. CASE client.named
  <2>1. /\ card.turn = [explicit |-> card.explicit] /\ card.explicit = TurnNames[made[r].turn]
    BY <1>5 DEF Sound, Of
  <2>2. "explicit" \in DOMAIN card.turn /\ card.turn.explicit = TurnNames[made[r].turn]
    <3> DEFINE e == card.explicit
    <3> HIDE DEF e
    <3>1. card.turn = [explicit |-> e] /\ e = TurnNames[made[r].turn]
      BY <2>1 DEF e
    <3>. QED BY <3>1
  <2>3. made[r].turn \in DOMAIN TurnNames
    BY <1>2, RowTypes
  <2>4. turn = made[r].turn
    <3>1. turn = CHOOSE t \in DOMAIN TurnNames : TurnNames[t] = card.turn.explicit
      BY <2>2
    <3>2. \E t \in DOMAIN TurnNames : TurnNames[t] = card.turn.explicit
      BY <2>2, <2>3
    <3> HIDE DEF turn
    <3>3. turn \in DOMAIN TurnNames /\ TurnNames[turn] = card.turn.explicit
      BY <3>1, <3>2
    <3>. QED BY <2>2, <2>3, <3>3, ViewsAssumption
  <2>. QED BY <1>2, <1>4, <2>2, <2>4
<1>6. CASE ~client.named
  <2> DEFINE first == card.requests[1]
  <2>1. /\ card.turn = [derived |-> first]
        /\ card.command # Missing /\ card.command = made[first].command
        /\ made[r].command \in {Missing, card.command}
    BY <1>6 DEF Sound, Of
  <2>2. first \in 1..Len(made)
    BY <1>2
  <2> HIDE DEF first
  <2>3. "explicit" \notin DOMAIN card.turn /\ card.turn.derived = first
    BY <2>1
  <2>4. turn = made[first].turn
    BY <2>3
  <2>5. made[first].command \in CommandsOf(card.turn)
    BY <1>4, <2>1, <2>2, <2>4
  <2>6. made[r].command = made[first].command
    BY <2>1
  <2>. QED BY <1>1, <2>2, <2>3, <2>5, <2>6
<1>. QED BY <1>1, <1>5, <1>6

\* The id of a card is known.
LEMMA CardsKnown ==
  ASSUME ViewsInvariant, NEW card \in Cards, Sound(card)
  PROVE  "explicit" \in DOMAIN card.turn \/ card.turn.derived \in DOMAIN made
<1>1. DOMAIN made = 1..Len(made) /\ client.named \in BOOLEAN
  BY DEF ViewsInvariant, Typed, Clients
<1>2. card.requests[1] \in 1..Len(made)
  BY DEF Sound, Cards, ToSet
<1>3. CASE client.named
  <2> DEFINE e == card.explicit
  <2>1. card.turn = [explicit |-> e]
    BY <1>3 DEF Sound
  <2> HIDE DEF e
  <2>. QED BY <2>1
<1>4. CASE ~client.named
  <2> DEFINE first == card.requests[1]
  <2>1. card.turn = [derived |-> first]
    BY <1>4 DEF Sound
  <2> HIDE DEF first
  <2>2. card.turn.derived = first
    BY <2>1
  <2>. QED BY <1>1, <1>2, <2>2 DEF first
<1>. QED BY <1>1, <1>3, <1>4

\* A job with another step.
WithStep(J, n, step) == [J EXCEPT ![n].step = step]

\* It keeps its turn and its text.
LEMMA JobFields ==
  ASSUME NEW J, NEW n \in DOMAIN J, J[n] \in Jobs, NEW step
  PROVE  WithStep(J, n, step) = [J EXCEPT ![n] = [turn |-> J[n].turn, step |-> step, text |-> J[n].text]]
<1>1. [J[n] EXCEPT !.step = step] = [turn |-> J[n].turn, step |-> step, text |-> J[n].text]
  BY DEF Jobs
<1>2. [J EXCEPT ![n].step = step] = [J EXCEPT ![n] = [J[n] EXCEPT !.step = step]]
  OBVIOUS
<1>. QED BY <1>1, <1>2, Zenon DEF WithStep

\* What a request told is told for ever.
LEMMA OwnKept ==
  ASSUME Typed, [Next]_allVars, faults \in Nat, faults' \in Nat, faults' >= faults,
         NEW id, NEW text, Own(id, text)
  PROVE  Own(id, text)'
<1>1. DOMAIN made \subseteq DOMAIN made' /\ \A i \in DOMAIN made : made'[i] = made[i]
  <2>1. CASE \E asks, added, output : Step(asks, added, output)
    <3>1. PICK asks, added, output : Step(asks, added, output)
      BY <2>1
    <3>2. PICK L, n : L = Len(made) /\ n = Len(made) + 1
      OBVIOUS
    <3>3. DOMAIN made' = 1..n /\ DOMAIN made = 1..L /\ \A i \in 1..L : i \in 1..n /\ made'[i] = made[i]
      BY <3>1, <3>2, NewRequest
    <3>. QED BY <3>3
  <2>2. CASE \E i \in 1..MaxRequests : Arrive(i)
    BY <2>2 DEF Arrive
  <2>3. CASE UNCHANGED views
    BY <2>3 DEF views
  <2>. QED BY <2>1, <2>2, <2>3, ViewsSteps
<1>2. "explicit" \in DOMAIN id \/ id.derived \in DOMAIN made
  BY DEF Own
<1> DEFINE named == CHOOSE t \in DOMAIN TurnNames : TurnNames[t] = id.explicit
           turn == IF "explicit" \in DOMAIN id THEN named ELSE made[id.derived].turn
           told(m, t) == {m[i].added[1].text : i \in {j \in DOMAIN m : m[j].asks = "command" /\ m[j].turn = t}}
<1>3. CommandsOf(id) = told(made, turn)
  BY Zenon DEF CommandsOf
<1>4. CommandsOf(id)' = told(made', turn')
  BY Zenon DEF CommandsOf
<1>5. turn' = turn
  <2> HIDE DEF named
  <2>1. named' = named
    BY DEF named
  <2>. QED BY <1>1, <1>2, <2>1
<1>6. PICK t : t = turn
  OBVIOUS
<1>7. CommandsOf(id) \subseteq CommandsOf(id)'
  <2>1. CommandsOf(id) = told(made, t) /\ CommandsOf(id)' = told(made', t)
    BY <1>3, <1>4, <1>5, <1>6
  <2>2. ASSUME NEW x \in told(made, t) PROVE x \in told(made', t)
    <3>1. PICK i \in DOMAIN made : made[i].asks = "command" /\ made[i].turn = t /\ x = made[i].added[1].text
      OBVIOUS
    <3>2. i \in DOMAIN made' /\ made'[i] = made[i]
      BY <1>1
    <3>. QED BY <3>1, <3>2
  <2>. QED BY <2>1, <2>2
<1>8. "explicit" \in DOMAIN id \/ id.derived \in DOMAIN made'
  BY <1>1, <1>2
<1>9. \/ text = [compact |-> Missing]
      \/ \E c \in CommandsOf(id)' : text = [full |-> c] \/ (faults' > 0 /\ text = [compact |-> c])
  <2>1. CASE text = [compact |-> Missing]
    BY <2>1
  <2>2. ASSUME NEW c \in CommandsOf(id), text = [full |-> c] \/ (faults > 0 /\ text = [compact |-> c])
        PROVE  \E d \in CommandsOf(id)' : text = [full |-> d] \/ (faults' > 0 /\ text = [compact |-> d])
    <3>1. c \in CommandsOf(id)'
      BY <1>7
    <3>2. faults > 0 => faults' > 0
      OBVIOUS
    <3>. QED BY <2>2, <3>1, <3>2
  <2>. QED BY <2>1, <2>2 DEF Own
<1>. QED BY <1>8, <1>9 DEF Own

\* What a build does: it gives up, or its text is its turn's own.
LEMMA BuildStep ==
  ASSUME ViewsInvariant, ReadingsTyped, NEW n, Build(n), UNCHANGED views
  PROVE  \/ \E text : JobEdited(n, "end", text) /\ faults' = faults
         \/ \E text, id : /\ JobEdited(n, "save", text) /\ faults' \in Nat /\ faults' >= faults
                          /\ id = jobs[n].turn /\ Own(id, text)'
<1>1. n \in DOMAIN jobs /\ running' = running /\ jobs \in Seq(Jobs) /\ faults \in Nat
  BY DEF Build, ReadingsTyped
<1>2. jobs[n] \in Jobs /\ jobs[n].text \in Texts
  <2>1. jobs[n] \in Jobs
    BY <1>1, ElementOfSeq
  <2>. QED BY <2>1 DEF Jobs
<1>3. CASE ~HasTurn(SessionTurns, jobs[n].turn) /\ jobs' = [jobs EXCEPT ![n].step = "end"] /\ faults' = faults
  <2>1. jobs' = [jobs EXCEPT ![n] = [turn |-> jobs[n].turn, step |-> "end", text |-> jobs[n].text]]
    <3>1. jobs' = WithStep(jobs, n, "end")
      BY <1>3, Zenon DEF WithStep
    <3>2. WithStep(jobs, n, "end") = [jobs EXCEPT ![n] = [turn |-> jobs[n].turn, step |-> "end", text |-> jobs[n].text]]
      BY <1>1, <1>2, JobFields
    <3>. QED BY <3>1, <3>2, Zenon
  <2>2. JobEdited(n, "end", jobs[n].text)
    BY <1>1, <1>2, <2>1 DEF JobEdited
  <2>. QED BY <1>3, <2>2
<1>4. ASSUME HasTurn(SessionTurns, jobs[n].turn), NEW group, group = FindTurn(SessionTurns, jobs[n].turn),
             NEW lost \in SUBSET ToSet(group.requests),
             faults' = faults + (IF lost = {} THEN 0 ELSE 1), NEW text,
             text = BuiltText(group.command, Candidates(group.requests, lost)),
             jobs' = [jobs EXCEPT ![n].step = "save", ![n].text = text]
      PROVE  \E id : /\ JobEdited(n, "save", text) /\ faults' \in Nat /\ faults' >= faults
                     /\ id = jobs[n].turn /\ Own(id, text)'
  <2>1. group \in Cards /\ Sound(group) /\ group.turn = jobs[n].turn
    BY <1>4, FoundCard
  <2>2. /\ text \in Texts
        /\ \/ \E r \in Of(group) : made[r].command # Missing /\ text = [full |-> made[r].command]
           \/ /\ text = [compact |-> group.command]
              /\ \A r \in Of(group) : made[r].command = Missing \/ r \in lost
    BY <1>4, <2>1, BuiltType
  <2>3. jobs' = [jobs EXCEPT ![n] = [turn |-> jobs[n].turn, step |-> "save", text |-> text]]
    <3>1. [jobs EXCEPT ![n].step = "save", ![n].text = text]
            = [jobs EXCEPT ![n] = [turn |-> jobs[n].turn, step |-> "save", text |-> text]]
      <4>1. PICK r : r = [turn |-> jobs[n].turn, step |-> "save", text |-> jobs[n].text]
        OBVIOUS
      <4>2. [jobs EXCEPT ![n].step = "save"] = [jobs EXCEPT ![n] = r]
        <5>1. WithStep(jobs, n, "save") = [jobs EXCEPT ![n] = [turn |-> jobs[n].turn, step |-> "save", text |-> jobs[n].text]]
          BY <1>1, <1>2, JobFields
        <5>. QED BY <4>1, <5>1, Zenon DEF WithStep
      <4>3. r \in Jobs /\ r.turn = jobs[n].turn
        BY <1>2, <4>1 DEF Jobs
      <4>4. [r EXCEPT !.text = text] = [turn |-> jobs[n].turn, step |-> "save", text |-> text]
        BY <4>1, <4>3 DEF Jobs
      <4>5. [[jobs EXCEPT ![n] = r] EXCEPT ![n].text = text] = [jobs EXCEPT ![n] = [r EXCEPT !.text = text]]
        BY <1>1
      <4>. QED BY <4>2, <4>4, <4>5
    <3>. QED BY <1>4, <3>1, Zenon
  <2>4. JobEdited(n, "save", text)
    BY <1>1, <2>2, <2>3 DEF JobEdited
  <2>5. faults' \in Nat /\ faults' >= faults /\ (lost # {} => faults' > 0)
    BY <1>1, <1>4
  <2>6. PICK id : id = group.turn
    OBVIOUS
  <2>7. "explicit" \in DOMAIN id \/ id.derived \in DOMAIN made
    BY <2>1, <2>6, CardsKnown
  <2>8. /\ "explicit" \in DOMAIN id \/ id.derived \in DOMAIN made'
        /\ \/ text = [compact |-> Missing]
           \/ \E c \in CommandsOf(id) : text = [full |-> c] \/ (faults' > 0 /\ text = [compact |-> c])
    <3>1. made' = made
      BY DEF views
    <3>2. CASE \E r \in Of(group) : made[r].command # Missing /\ text = [full |-> made[r].command]
      <4>1. PICK r \in Of(group) : made[r].command # Missing /\ text = [full |-> made[r].command]
        BY <3>2
      <4>2. made[r].command \in CommandsOf(id)
        BY <2>1, <2>6, <4>1, CardsCommands
      <4>. QED BY <2>7, <3>1, <4>1, <4>2
    <3>3. CASE text = [compact |-> group.command] /\ \A r \in Of(group) : made[r].command = Missing \/ r \in lost
      <4>1. CASE group.command = Missing
        BY <2>7, <3>1, <3>3, <4>1
      <4>2. CASE group.command # Missing
        <5>1. PICK r \in Of(group) : made[r].command = group.command
          BY <2>1, <4>2 DEF Sound, Of
        <5>2. group.command \in CommandsOf(id)
          BY <2>1, <2>6, <4>2, <5>1, CardsCommands
        <5>3. r \in lost
          BY <3>3, <4>2, <5>1
        <5>. QED BY <2>5, <2>7, <3>1, <3>3, <5>2, <5>3
      <4>. QED BY <4>1, <4>2
    <3>. QED BY <2>2, <3>2, <3>3
  <2>9. CommandsOf(id)' = CommandsOf(id)
    BY DEF CommandsOf, views
  <2>10. Own(id, text)'
    BY <2>8, <2>9 DEF Own
  <2>. QED BY <2>1, <2>4, <2>5, <2>6, <2>10
<1>5. CASE \E group \in {FindTurn(SessionTurns, jobs[n].turn)} : \E lost \in SUBSET ToSet(group.requests) :
              /\ HasTurn(SessionTurns, jobs[n].turn)
              /\ faults' = faults + (IF lost = {} THEN 0 ELSE 1)
              /\ jobs' = [jobs EXCEPT ![n].step = "save",
                                      ![n].text = BuiltText(group.command, Candidates(group.requests, lost))]
  <2>1. PICK group : group = FindTurn(SessionTurns, jobs[n].turn)
    OBVIOUS
  <2>2. PICK lost \in SUBSET ToSet(group.requests) :
              /\ HasTurn(SessionTurns, jobs[n].turn)
              /\ faults' = faults + (IF lost = {} THEN 0 ELSE 1)
              /\ jobs' = [jobs EXCEPT ![n].step = "save",
                                      ![n].text = BuiltText(group.command, Candidates(group.requests, lost))]
    BY <1>5, <2>1, Zenon
  <2>3. PICK text : text = BuiltText(group.command, Candidates(group.requests, lost))
    OBVIOUS
  <2>. QED BY <1>4, <2>1, <2>2, <2>3
<1>6. \/ ~HasTurn(SessionTurns, jobs[n].turn) /\ jobs' = [jobs EXCEPT ![n].step = "end"] /\ faults' = faults
      \/ \E group \in {FindTurn(SessionTurns, jobs[n].turn)} : \E lost \in SUBSET ToSet(group.requests) :
              /\ HasTurn(SessionTurns, jobs[n].turn)
              /\ faults' = faults + (IF lost = {} THEN 0 ELSE 1)
              /\ jobs' = [jobs EXCEPT ![n].step = "save",
                                      ![n].text = BuiltText(group.command, Candidates(group.requests, lost))]
  BY Zenon DEF Build
<1>. QED BY <1>3, <1>5, <1>6

\* A save writes its job's text, or fails.
LEMMA SaveStep ==
  ASSUME ReadingsTyped, NEW n, Save(n)
  PROVE  /\ \E text : JobEdited(n, "end", text)
         /\ jobs[n].step = "save" /\ faults' \in Nat /\ faults' >= faults
         /\ \/ texts' = texts
            \/ /\ DOMAIN texts' = DOMAIN texts \cup {jobs[n].turn} /\ texts'[jobs[n].turn] = jobs[n].text
               /\ \A id \in DOMAIN texts : id # jobs[n].turn => texts'[id] = texts[id]
<1>1. n \in DOMAIN jobs /\ running' = running /\ jobs \in Seq(Jobs) /\ faults \in Nat /\ jobs[n].step = "save"
      /\ jobs' = [jobs EXCEPT ![n].step = "end"]
  BY DEF Save, ReadingsTyped
<1>2. jobs[n] \in Jobs /\ jobs[n].text \in Texts
  <2>1. jobs[n] \in Jobs
    BY <1>1, ElementOfSeq
  <2>. QED BY <2>1 DEF Jobs
<1>3. jobs' = [jobs EXCEPT ![n] = [turn |-> jobs[n].turn, step |-> "end", text |-> jobs[n].text]]
  <2>1. jobs' = WithStep(jobs, n, "end")
    BY <1>1, Zenon DEF WithStep
  <2>2. WithStep(jobs, n, "end") = [jobs EXCEPT ![n] = [turn |-> jobs[n].turn, step |-> "end", text |-> jobs[n].text]]
    BY <1>1, <1>2, JobFields
  <2>. QED BY <2>1, <2>2, Zenon
<1>4. JobEdited(n, "end", jobs[n].text)
  BY <1>1, <1>2, <1>3 DEF JobEdited
<1>5. \/ texts' = [id \in DOMAIN texts \cup {jobs[n].turn} |->
                        IF id = jobs[n].turn THEN jobs[n].text ELSE texts[id]] /\ faults' = faults
      \/ faults' = faults + 1 /\ texts' = texts
  BY DEF Save
<1>6. CASE texts' = [id \in DOMAIN texts \cup {jobs[n].turn} |->
                        IF id = jobs[n].turn THEN jobs[n].text ELSE texts[id]] /\ faults' = faults
  BY <1>1, <1>4, <1>6
<1>. QED BY <1>1, <1>4, <1>5, <1>6

\* The readers' steps keep the types and one job a turn.
LEMMA JobsStep ==
  ASSUME ViewsInvariant, ReadingsTyped, OneJobPerTurn, [Next]_allVars
  PROVE  ReadingsTyped' /\ OneJobPerTurn' /\ faults' >= faults
<1>0. jobs \in Seq(Jobs) /\ pages \in [Readers -> {Closed} \cup OpenPages] /\ faults \in Nat
  BY DEF ReadingsTyped
<1>1. CASE UNCHANGED readings
  <2>1. jobs' \in Seq(Jobs) /\ OneJobPerTurn'
    BY <1>0, <1>1, JobsKept DEF readings
  <2>. QED BY <1>0, <1>1, <2>1 DEF readings, ReadingsTyped
<1>2. ASSUME NEW u \in Readers, pages[u] # Closed, NEW step \in {"polls", "missed", "answered"}
      PROVE  [pages EXCEPT ![u].step = step] \in [Readers -> {Closed} \cup OpenPages]
  <2>1. pages[u] \in OpenPages
    BY <1>0, <1>2
  <2>2. [pages[u] EXCEPT !.step = step] \in OpenPages
    BY <2>1 DEF OpenPages
  <2>. QED BY <1>0, <2>2
<1>3. ASSUME NEW u \in Readers, Open(u) PROVE ReadingsTyped' /\ OneJobPerTurn' /\ faults' >= faults
  <2>1. PICK card \in ToSet(SessionTurns) : pages' = [pages EXCEPT ![u] = [step |-> "polls", turn |-> card.turn]]
    BY <1>3, Zenon DEF Open
  <2>2. UNCHANGED <<running, jobs, faults>>
    BY <1>3 DEF Open
  <2>3. card \in Cards
    BY <2>1, FoundCard
  <2>4. [step |-> "polls", turn |-> card.turn] \in OpenPages
    BY <2>3 DEF Cards, OpenPages
  <2>5. jobs' \in Seq(Jobs) /\ OneJobPerTurn'
    BY <1>0, <2>2, JobsKept
  <2>. QED BY <1>0, <2>1, <2>2, <2>4, <2>5 DEF ReadingsTyped
<1>4. ASSUME NEW u \in Readers, Lookup(u) PROVE ReadingsTyped' /\ OneJobPerTurn' /\ faults' >= faults
  <2>1. PICK step \in {"polls", "missed", "answered"} : pages' = [pages EXCEPT ![u].step = step]
    BY <1>4 DEF Lookup
  <2>2. UNCHANGED <<running, jobs, faults>> /\ pages[u].step = "polls"
    BY <1>4 DEF Lookup
  <2>3. pages[u] # Closed
    BY <2>2 DEF Closed
  <2>4. jobs' \in Seq(Jobs) /\ OneJobPerTurn'
    BY <1>0, <2>2, JobsKept
  <2>5. pages' \in [Readers -> {Closed} \cup OpenPages]
    BY <1>2, <2>1, <2>3
  <2>. QED BY <1>0, <2>2, <2>4, <2>5 DEF ReadingsTyped
<1>5. ASSUME NEW u \in Readers, Claim(u) PROVE ReadingsTyped' /\ OneJobPerTurn' /\ faults' >= faults
  <2>1. PICK id : id = pages[u].turn
    OBVIOUS
  <2>2. /\ pages[u].step = "missed" /\ running' = running \cup {id} /\ faults' = faults
        /\ pages' = [pages EXCEPT ![u].step = "polls"]
        /\ jobs' = IF id \in running THEN jobs ELSE Append(jobs, [turn |-> id, step |-> "build", text |-> Unbuilt])
    BY <1>5, <2>1 DEF Claim
  <2>3. pages[u] # Closed
    BY <2>2 DEF Closed
  <2>4. pages[u] \in OpenPages
    BY <1>0, <2>3
  <2>5. id \in TurnIds
    BY <2>1, <2>4 DEF OpenPages
  <2>6. pages' \in [Readers -> {Closed} \cup OpenPages]
    BY <1>2, <2>2, <2>3
  <2>7. jobs' \in Seq(Jobs) /\ OneJobPerTurn'
    <3>1. CASE id \in running
      <4>1. jobs' = jobs /\ running' = running
        BY <2>2, <3>1
      <4>. QED BY <1>0, <4>1, JobsKept
    <3>2. CASE id \notin running
      <4>1. JobAdded(id)
        BY <2>2, <3>2 DEF JobAdded
      <4>. QED BY <1>0, <2>5, <4>1, JobsKept
    <3>. QED BY <3>1, <3>2
  <2>. QED BY <1>0, <2>2, <2>6, <2>7 DEF ReadingsTyped
<1>6. ASSUME NEW n, Build(n), UNCHANGED views PROVE ReadingsTyped' /\ OneJobPerTurn' /\ faults' >= faults
  <2>1. pages' = pages
    BY <1>6 DEF Build
  <2>2. PICK step, text : JobEdited(n, step, text) /\ faults' \in Nat /\ faults' >= faults
    BY <1>0, <1>6, BuildStep
  <2>3. jobs' \in Seq(Jobs) /\ OneJobPerTurn'
    BY <1>0, <2>2, JobsKept
  <2>. QED BY <1>0, <2>1, <2>2, <2>3 DEF ReadingsTyped
<1>7. ASSUME NEW n, Save(n) PROVE ReadingsTyped' /\ OneJobPerTurn' /\ faults' >= faults
  <2>1. pages' = pages
    BY <1>7 DEF Save
  <2>2. PICK text : JobEdited(n, "end", text) /\ faults' \in Nat /\ faults' >= faults
    BY <1>7, SaveStep
  <2>3. jobs' \in Seq(Jobs) /\ OneJobPerTurn'
    BY <1>0, <2>2, JobsKept
  <2>. QED BY <1>0, <2>1, <2>2, <2>3 DEF ReadingsTyped
<1>8. ASSUME NEW n, End(n) PROVE ReadingsTyped' /\ OneJobPerTurn' /\ faults' >= faults
  <2>1. JobRemoved(n) /\ pages' = pages /\ faults' = faults
    BY <1>8 DEF End, JobRemoved
  <2>2. jobs' \in Seq(Jobs) /\ OneJobPerTurn'
    BY <1>0, <2>1, JobsKept
  <2>. QED BY <1>0, <2>1, <2>2 DEF ReadingsTyped
<1>9. CASE Restart
  <2>1. /\ running' = {} /\ jobs' = <<>> /\ faults' = faults + 1
        /\ pages' = [u \in Readers |-> IF Waiting(u) THEN [pages[u] EXCEPT !.step = "polls"] ELSE pages[u]]
    BY <1>9 DEF Restart
  <2>2. ASSUME NEW u \in Readers PROVE pages'[u] \in {Closed} \cup OpenPages
    <3>1. CASE Waiting(u)
      <4>1. pages[u] # Closed
        BY <3>1 DEF Waiting, Closed
      <4>2. pages[u] \in OpenPages
        BY <1>0, <4>1
      <4>3. [pages[u] EXCEPT !.step = "polls"] \in OpenPages
        BY <4>2 DEF OpenPages
      <4>. QED BY <2>1, <3>1, <4>3
    <3>2. CASE ~Waiting(u)
      BY <1>0, <2>1, <3>2
    <3>. QED BY <3>1, <3>2
  <2>3. pages' \in [Readers -> {Closed} \cup OpenPages]
    BY <2>1, <2>2
  <2>4. jobs' \in Seq(Jobs) /\ OneJobPerTurn'
    BY <1>0, <2>1, JobsKept
  <2>. QED BY <1>0, <2>1, <2>3, <2>4 DEF ReadingsTyped
<1>. QED BY <1>1, <1>3, <1>4, <1>5, <1>6, <1>7, <1>8, <1>9, ReadSteps

\* Initially there is no job.
LEMMA OneJobInit ==
  Init => OneJobPerTurn
<1> SUFFICES ASSUME Init PROVE OneJobPerTurn
  OBVIOUS
<1>1. running = {} /\ jobs = <<>>
  BY DEF Init
<1>2. DOMAIN jobs = {}
  BY <1>1
<1>. QED BY <1>1, <1>2 DEF OneJobPerTurn

\* One job per turn: no two goroutines ever build one turn's text, and the map
\* holds the turns that are being built (main.go:522-535).
THEOREM OneJobAlways ==
  Spec => []OneJobPerTurn
<1>1. Init => ReadingsTyped /\ OneJobPerTurn
  BY ReadingsTypedInit, OneJobInit
<1>2. ViewsInvariant /\ ReadingsTyped /\ OneJobPerTurn /\ [Next]_allVars => ReadingsTyped' /\ OneJobPerTurn'
  BY JobsStep
<1>. QED BY <1>1, <1>2, ViewsInvariantHolds, PTL DEF Spec

\* Initially no text is cached.
LEMMA TextsOwnedInit ==
  Init => TextsOwned
<1> SUFFICES ASSUME Init PROVE TextsOwned
  OBVIOUS
<1>1. texts = <<>> /\ jobs = <<>>
  BY DEF Init
<1>2. DOMAIN texts = {} /\ DOMAIN jobs = {}
  BY <1>1
<1>. QED BY <1>2 DEF TextsOwned

\* The texts stay their turns' own: a build makes its turn's own text, a save
\* caches the text of its job.
LEMMA TextsOwnedStep ==
  ASSUME ViewsInvariant, ReadingsTyped, OneJobPerTurn, TextsOwned, [Next]_allVars
  PROVE  TextsOwned'
<1>0. jobs \in Seq(Jobs) /\ faults \in Nat /\ faults' \in Nat /\ faults' >= faults
      /\ Typed /\ DOMAIN jobs = 1..Len(jobs) /\ Len(jobs) \in Nat
  <2>1. ReadingsTyped' /\ faults' >= faults
    BY JobsStep
  <2>. QED BY <2>1 DEF ReadingsTyped, ViewsInvariant
<1>1. \A id, text : Own(id, text) => Own(id, text)'
  BY <1>0, OwnKept
<1>2. (\A id \in DOMAIN texts : Own(id, texts[id])) /\ \A n \in DOMAIN jobs : jobs[n].step = "save" => Own(jobs[n].turn, jobs[n].text)
  BY DEF TextsOwned
<1> DEFINE Cached(T) == \A id \in DOMAIN T : \E text : text = T[id] /\ Own(id, text)'
           Built(J) == \A n \in DOMAIN J : J[n].step = "save" =>
                          \E id, text : id = J[n].turn /\ text = J[n].text /\ Own(id, text)'
<1>3. Cached(texts) /\ Built(jobs)
  BY <1>1, <1>2
<1>4. ASSUME Cached(texts'), Built(jobs') PROVE TextsOwned'
  <2>1. ASSUME NEW id \in DOMAIN texts' PROVE Own(id, texts[id])'
    <3>1. PICK text : text = texts'[id] /\ Own(id, text)'
      BY <1>4
    <3>. QED BY <3>1 DEF Own
  <2>2. ASSUME NEW n \in DOMAIN jobs', jobs'[n].step = "save" PROVE Own(jobs[n].turn, jobs[n].text)'
    <3>1. PICK id, text : id = jobs'[n].turn /\ text = jobs'[n].text /\ Own(id, text)'
      BY <1>4, <2>2
    <3>2. CommandsOf(jobs[n].turn)' = CommandsOf(id)'
      BY <3>1 DEF CommandsOf
    <3>. QED BY <3>1, <3>2 DEF Own
  <2>. QED BY <2>1, <2>2 DEF TextsOwned
<1>5. ASSUME NEW n, NEW step, NEW text, JobEdited(n, step, text),
             step = "save" => \E id : id = jobs[n].turn /\ Own(id, text)'
      PROVE  Built(jobs')
  <2> DEFINE job == [turn |-> jobs[n].turn, step |-> step, text |-> text]
  <2>1. n \in DOMAIN jobs /\ jobs' = [jobs EXCEPT ![n] = job]
    BY <1>5 DEF JobEdited
  <2>2. job.turn = jobs[n].turn /\ job.step = step /\ job.text = text
    OBVIOUS
  <2> HIDE DEF job
  <2>3. DOMAIN jobs' = DOMAIN jobs /\ \A m \in DOMAIN jobs : jobs'[m] = IF m = n THEN job ELSE jobs[m]
    BY <2>1
  <2>4. ASSUME NEW m \in DOMAIN jobs, jobs'[m].step = "save"
        PROVE  \E id, t : id = jobs'[m].turn /\ t = jobs'[m].text /\ Own(id, t)'
    <3>1. CASE m = n
      BY <1>5, <2>2, <2>3, <2>4, <3>1
    <3>2. CASE m # n
      BY <1>3, <2>3, <2>4, <3>2
    <3>. QED BY <3>1, <3>2
  <2>. QED BY <2>3, <2>4
<1>6. CASE UNCHANGED readings
  BY <1>3, <1>4, <1>6 DEF readings
<1>7. ASSUME NEW u \in Readers, Open(u) \/ Lookup(u) PROVE TextsOwned'
  <2>1. texts' = texts /\ jobs' = jobs
    BY <1>7 DEF Open, Lookup
  <2>. QED BY <1>3, <1>4, <2>1
<1>8. ASSUME NEW u \in Readers, Claim(u) PROVE TextsOwned'
  <2> DEFINE job == [turn |-> pages[u].turn, step |-> "build", text |-> Unbuilt]
  <2>1. texts' = texts /\ jobs' = IF pages[u].turn \in running THEN jobs ELSE Append(jobs, job)
    BY <1>8 DEF Claim
  <2>2. job.step = "build"
    OBVIOUS
  <2> HIDE DEF job
  <2>3. CASE jobs' = Append(jobs, job)
    <3>1. DOMAIN jobs' = 1..(Len(jobs) + 1) /\ jobs'[Len(jobs) + 1] = job /\ \A n \in 1..Len(jobs) : jobs'[n] = jobs[n]
      BY <1>0, <2>3
    <3>2. \A n \in DOMAIN jobs' : jobs'[n].step = "save" => n \in DOMAIN jobs /\ jobs'[n] = jobs[n]
      BY <1>0, <2>2, <3>1
    <3>3. Built(jobs')
      BY <1>3, <3>2
    <3>. QED BY <1>3, <1>4, <2>1, <3>3
  <2>. QED BY <1>3, <1>4, <2>1, <2>3
<1>9. ASSUME NEW n, Build(n), UNCHANGED views PROVE TextsOwned'
  <2>1. texts' = texts
    BY <1>9 DEF Build
  <2>2. Built(jobs')
    <3>1. CASE \E text : JobEdited(n, "end", text)
      <4>1. PICK text : JobEdited(n, "end", text)
        BY <3>1
      <4> HIDE DEF Built
      <4>. QED BY <1>5, <4>1
    <3>2. CASE \E text, id : JobEdited(n, "save", text) /\ id = jobs[n].turn /\ Own(id, text)'
      <4>1. PICK text, id : JobEdited(n, "save", text) /\ id = jobs[n].turn /\ Own(id, text)'
        BY <3>2
      <4> HIDE DEF Built
      <4>. QED BY <1>5, <4>1
    <3>. QED BY <1>9, <3>1, <3>2, BuildStep
  <2>. QED BY <1>3, <1>4, <2>1, <2>2
<1>10. ASSUME NEW n, Save(n) PROVE TextsOwned'
  <2>1. PICK text : JobEdited(n, "end", text)
    BY <1>10, SaveStep
  <2>2. Built(jobs')
    <3> HIDE DEF Built
    <3>. QED BY <1>5, <2>1
  <2>3. n \in DOMAIN jobs /\ jobs[n].step = "save"
    BY <1>10 DEF Save
  <2>4. CASE texts' = texts
    BY <1>3, <1>4, <2>2, <2>4
  <2>5. CASE /\ DOMAIN texts' = DOMAIN texts \cup {jobs[n].turn} /\ texts'[jobs[n].turn] = jobs[n].text
             /\ \A id \in DOMAIN texts : id # jobs[n].turn => texts'[id] = texts[id]
    <3>1. ASSUME NEW id \in DOMAIN texts' PROVE \E t : t = texts'[id] /\ Own(id, t)'
      <4>1. CASE id = jobs[n].turn
        BY <1>3, <2>3, <2>5, <4>1
      <4>2. CASE id # jobs[n].turn
        BY <1>3, <2>5, <4>2
      <4>. QED BY <4>1, <4>2
    <3>2. Cached(texts')
      BY <3>1
    <3>. QED BY <1>4, <2>2, <3>2
  <2>. QED BY <1>10, <2>4, <2>5, SaveStep
<1>11. ASSUME NEW n, End(n) PROVE TextsOwned'
  <2>1. n \in 1..Len(jobs) /\ jobs' = RemoveAt(jobs, n) /\ texts' = texts
    BY <1>0, <1>11 DEF End
  <2>2. /\ jobs' \in Seq(Jobs) /\ Len(jobs') = Len(jobs) - 1
        /\ \A i \in 1..(Len(jobs) - 1) : jobs'[i] = IF i < n THEN jobs[i] ELSE jobs[i + 1]
    BY <1>0, <2>1, Removed
  <2>3. DOMAIN jobs' = 1..(Len(jobs) - 1)
    BY <2>2
  <2>4. \A i \in DOMAIN jobs' : \E m \in DOMAIN jobs : jobs'[i] = jobs[m]
    <3>1. \A i \in 1..(Len(jobs) - 1) : i \in 1..Len(jobs) /\ i + 1 \in 1..Len(jobs)
      BY <1>0
    <3>. QED BY <1>0, <2>2, <2>3, <3>1
  <2>5. Built(jobs')
    BY <1>3, <2>4
  <2>. QED BY <1>3, <1>4, <2>1, <2>5
<1>12. CASE Restart
  <2>1. texts' = texts /\ jobs' = <<>>
    BY <1>12 DEF Restart
  <2>2. DOMAIN jobs' = {}
    BY <2>1
  <2>. QED BY <1>3, <1>4, <2>1, <2>2
<1>. QED BY <1>6, <1>7, <1>8, <1>9, <1>10, <1>11, <1>12, ReadSteps

\* A text in the cache is the command of the turn it is cached for, a summary
\* of it only when a payload did not load, or empty where nothing told one
\* (turns.go:124-176).
THEOREM TextsAreOwn ==
  Spec => []TextIsOwn
<1> DEFINE Inv == ReadingsTyped /\ OneJobPerTurn /\ TextsOwned
<1>1. Init => Inv
  BY ReadingsTypedInit, OneJobInit, TextsOwnedInit
<1>2. ViewsInvariant /\ Inv /\ [Next]_allVars => Inv'
  BY JobsStep, TextsOwnedStep
<1>3. Inv => TextIsOwn
  BY DEF TextsOwned, Own, TextIsOwn
<1>. QED BY <1>1, <1>2, <1>3, ViewsInvariantHolds, PTL DEF Spec

-----------------------------------------------------------------------------
(* The training sample.                                                     *)

\* f holds what DedupeTrainingMessages has after each message.
Dedupes(f, messages, V) ==
    /\ f \in [0..Len(messages) -> Seq(V)] /\ f[0] = <<>>
    /\ \A n \in 1..Len(messages) : f[n] = Deduped(f[n - 1], messages[n])

\* The messages stay messages.
LEMMA DedupedType ==
  ASSUME NEW V, NEW s \in Seq(V), NEW x \in V
  PROVE  Deduped(s, x) \in Seq(V)
BY DEF Deduped

\* DedupeTrainingMessages is such a loop.
LEMMA DedupeLoop ==
  ASSUME NEW V, NEW messages \in Seq(V)
  PROVE  \E f : Dedupes(f, messages, V) /\ DedupeTrainingMessages(messages) = f[Len(messages)]
<1> DEFINE N == Len(messages)
           Sol(f) == f = [n \in 0..N |-> IF n = 0 THEN <<>> ELSE Deduped(f[n - 1], messages[n])]
           out == CHOOSE f : Sol(f)
<1>1. N \in Nat /\ \A n \in 1..N : messages[n] \in V
  OBVIOUS
<1>2. DedupeTrainingMessages(messages) = out[N]
  BY Zenon DEF DedupeTrainingMessages
<1> HIDE DEF N
<1>3. PICK f : Dedupes(f, messages, V)
  <2> DEFINE F == [n \in 1..N |-> [s \in Seq(V) |-> Deduped(s, messages[n])]]
  <2>1. \A n \in 1..N : \A s \in Seq(V) : Deduped(s, messages[n]) \in Seq(V)
    BY <1>1, DedupedType
  <2>2. StepOf(F, N, Seq(V))
    BY <2>1 DEF StepOf
  <2>3. \A n \in 1..N : \A s \in Seq(V) : F[n][s] = Deduped(s, messages[n])
    OBVIOUS
  <2> HIDE DEF F
  <2>4. <<>> \in Seq(V)
    OBVIOUS
  <2>5. PICK f : Runs(f, F, N, Seq(V), <<>>)
    BY <1>1, <2>2, <2>4, LoopSolved
  <2>6. /\ f \in [0..N -> Seq(V)] /\ f[0] = <<>>
        /\ \A n \in 1..N : f[n] = F[n][f[n - 1]]
    BY <2>5 DEF Runs
  <2>7. \A n \in 1..N : f[n - 1] \in Seq(V)
    <3>1. \A n \in 1..N : n - 1 \in 0..N
      BY <1>1
    <3>. QED BY <2>6, <3>1
  <2>8. \A n \in 1..N : f[n] = Deduped(f[n - 1], messages[n])
    BY <2>3, <2>6, <2>7
  <2>. QED BY <2>6, <2>8 DEF Dedupes, N
<1>4. f \in [0..N -> Seq(V)] /\ f[0] = <<>> /\ \A n \in 1..N : f[n] = Deduped(f[n - 1], messages[n])
  BY <1>3 DEF Dedupes, N
<1>5. Sol(f)
  <2>1. f = [n \in 0..N |-> f[n]]
    BY <1>4
  <2>2. ASSUME NEW n \in 0..N PROVE f[n] = IF n = 0 THEN <<>> ELSE Deduped(f[n - 1], messages[n])
    <3>1. n = 0 \/ n \in 1..N
      BY <1>1
    <3>. QED BY <3>1, <1>1, <1>4
  <2>. QED BY <2>1, <2>2, Zenon
<1>6. Sol(out)
  BY <1>5
<1> HIDE DEF out
<1>7. out[0] = <<>> /\ \A n \in 1..N : out[n] = Deduped(out[n - 1], messages[n])
  <2>1. 0 \in 0..N /\ \A n \in 1..N : n \in 0..N /\ n # 0
    BY <1>1
  <2>. QED BY <1>6, <2>1
<1> DEFINE T == {n \in 0..N : out[n] = f[n]}
<1>8. 0 \in T
  BY <1>1, <1>4, <1>7
<1>9. ASSUME NEW n \in 1..N, n - 1 \in T PROVE n \in T
  <2>1. n \in 0..N
    BY <1>1
  <2>. QED BY <1>4, <1>7, <1>9, <2>1
<1> HIDE DEF T
<1>10. \A n \in 0..N : n \in T
  BY <1>1, <1>8, <1>9, Loop
<1>11. out[N] = f[N]
  BY <1>1, <1>10 DEF T
<1>. QED BY <1>2, <1>3, <1>11 DEF N

\* The changes up to a position, and how many they are.
Upto(said, p) == {q \in Changes(said) : q <= p}

\* The changes up to the next message.
LEMMA ChangesStep ==
  ASSUME NEW V, NEW said \in Seq(V), NEW n \in 1..Len(said), IsFiniteSet(Upto(said, n - 1))
  PROVE  /\ IsFiniteSet(Upto(said, n)) /\ Cardinality(Upto(said, n - 1)) \in Nat
         /\ n \in Changes(said) => Cardinality(Upto(said, n)) = Cardinality(Upto(said, n - 1)) + 1
         /\ n \notin Changes(said) => Upto(said, n) = Upto(said, n - 1)
<1>1. Changes(said) \subseteq Nat /\ n \in Nat
  BY DEF Changes
<1>2. Upto(said, n) \subseteq Upto(said, n - 1) \cup {n} /\ Upto(said, n - 1) \subseteq Upto(said, n)
      /\ n \notin Upto(said, n - 1) /\ (n \in Changes(said) <=> n \in Upto(said, n))
  BY <1>1 DEF Upto
<1>3. Cardinality(Upto(said, n - 1)) \in Nat
  BY FS_CardinalityType
<1>4. CASE n \in Changes(said)
  <2>1. Upto(said, n) = Upto(said, n - 1) \cup {n}
    BY <1>2, <1>4
  <2>. QED BY <1>2, <1>3, <1>4, <2>1, FS_AddElement
<1>5. CASE n \notin Changes(said)
  <2>1. Upto(said, n) = Upto(said, n - 1)
    BY <1>2, <1>5
  <2>. QED BY <1>3, <1>5, <2>1
<1>. QED BY <1>4, <1>5

\* What the loop has after n messages: one for each change, the n-th at last.
Has(out, said, n) ==
    /\ IsFiniteSet(Upto(said, n)) /\ Len(out) = Cardinality(Upto(said, n))
    /\ n > 0 => out # <<>> /\ Last(out) = said[n]
    /\ \A p \in Upto(said, n) :
          Cardinality(Upto(said, p)) \in 1..Len(out) /\ out[Cardinality(Upto(said, p))] = said[p]

\* One message more.
LEMMA HasNext ==
  ASSUME NEW V, NEW said \in Seq(V), NEW n \in 1..Len(said), NEW out \in Seq(V), Has(out, said, n - 1)
  PROVE  Has(Deduped(out, said[n]), said, n)
<1>1. /\ IsFiniteSet(Upto(said, n - 1)) /\ Len(out) = Cardinality(Upto(said, n - 1)) /\ Len(out) \in Nat
      /\ n - 1 > 0 => out # <<>> /\ Last(out) = said[n - 1]
      /\ \A p \in Upto(said, n - 1) :
            Cardinality(Upto(said, p)) \in 1..Len(out) /\ out[Cardinality(Upto(said, p))] = said[p]
  BY DEF Has
<1>2. n \in Nat /\ n > 0 /\ said[n] \in V /\ Changes(said) \subseteq Nat /\ DOMAIN said = 1..Len(said)
  BY DEF Changes
<1>3. n \in Changes(said) <=> (n = 1 \/ said[n] # said[n - 1])
  BY <1>2 DEF Changes
<1>4. /\ IsFiniteSet(Upto(said, n))
      /\ n \in Changes(said) => Cardinality(Upto(said, n)) = Len(out) + 1
      /\ n \notin Changes(said) => Upto(said, n) = Upto(said, n - 1)
  BY <1>1, ChangesStep
<1>5. n = 1 => out = <<>>
  <2>1. n = 1 => Upto(said, n - 1) = {}
    BY <1>2 DEF Upto, Changes
  <2>2. n = 1 => Len(out) = 0
    BY <1>1, <2>1, FS_EmptySet
  <2>. QED BY <2>2, EmptySeq
<1>6. CASE n \in Changes(said)
  <2>1. Deduped(out, said[n]) = Append(out, said[n])
    <3>1. CASE n = 1
      BY <1>5, <3>1 DEF Deduped
    <3>2. CASE n # 1
      <4>1. Last(out) = said[n - 1] /\ said[n] # said[n - 1]
        BY <1>1, <1>2, <1>3, <1>6, <3>2
      <4>. QED BY <4>1, Zenon DEF Deduped
    <3>. QED BY <3>1, <3>2
  <2> DEFINE new == Append(out, said[n])
  <2>2. /\ new \in Seq(V) /\ Len(new) = Len(out) + 1 /\ new[Len(out) + 1] = said[n]
        /\ \A i \in 1..Len(out) : new[i] = out[i]
    BY <1>2, AppendProperties
  <2> HIDE DEF new
  <2>3. new # <<>> /\ Last(new) = said[n]
    BY <1>1, <2>2 DEF Last
  <2>4. ASSUME NEW p \in Upto(said, n)
        PROVE  Cardinality(Upto(said, p)) \in 1..Len(new) /\ new[Cardinality(Upto(said, p))] = said[p]
    <3>1. CASE p = n
      BY <1>1, <1>4, <1>6, <2>2, <3>1
    <3>2. CASE p # n
      <4>1. p \in Upto(said, n - 1)
        BY <1>2, <3>2 DEF Upto
      <4>2. Cardinality(Upto(said, p)) \in 1..Len(out) /\ out[Cardinality(Upto(said, p))] = said[p]
        BY <1>1, <4>1
      <4>3. \A i \in 1..Len(out) : i \in 1..Len(new)
        BY <1>1, <2>2
      <4>. QED BY <2>2, <4>2, <4>3
    <3>. QED BY <3>1, <3>2
  <2>5. Has(new, said, n)
    BY <1>4, <1>6, <2>2, <2>3, <2>4 DEF Has
  <2>. QED BY <2>1, <2>5 DEF new
<1>7. CASE n \notin Changes(said)
  <2>1. n # 1 /\ said[n] = said[n - 1] /\ out # <<>> /\ Last(out) = said[n]
    BY <1>1, <1>2, <1>3, <1>7
  <2>2. Deduped(out, said[n]) = out
    BY <2>1, Zenon DEF Deduped
  <2>3. Has(out, said, n)
    BY <1>1, <1>4, <1>7, <2>1 DEF Has
  <2>. QED BY <2>2, <2>3
<1>. QED BY <1>6, <1>7

\* After the loop there is one message for each change.
LEMMA DedupeHas ==
  ASSUME NEW V, NEW said \in Seq(V)
  PROVE  DedupeTrainingMessages(said) \in Seq(V) /\ Has(DedupeTrainingMessages(said), said, Len(said))
<1>1. PICK f : Dedupes(f, said, V) /\ DedupeTrainingMessages(said) = f[Len(said)]
  BY DedupeLoop
<1>2. PICK N : N = Len(said) /\ N \in Nat
  OBVIOUS
<1>3. f \in [0..N -> Seq(V)] /\ f[0] = <<>> /\ \A n \in 1..N : f[n] = Deduped(f[n - 1], said[n])
  BY <1>1, <1>2 DEF Dedupes
<1> DEFINE T == {n \in 0..N : Has(f[n], said, n)}
<1>4. 0 \in T
  <2>1. Upto(said, 0) = {}
    BY DEF Upto, Changes
  <2>2. IsFiniteSet(Upto(said, 0)) /\ Cardinality(Upto(said, 0)) = 0 /\ Len(f[0]) = 0
    BY <1>3, <2>1, FS_EmptySet
  <2>3. Has(f[0], said, 0)
    BY <2>1, <2>2 DEF Has
  <2>. QED BY <1>2, <2>3
<1>5. ASSUME NEW n \in 1..N, n - 1 \in T PROVE n \in T
  <2>1. n \in 0..N /\ n - 1 \in 0..N /\ n \in 1..Len(said)
    BY <1>2
  <2>2. f[n - 1] \in Seq(V) /\ Has(f[n - 1], said, n - 1)
    BY <1>3, <1>5, <2>1
  <2>3. Has(Deduped(f[n - 1], said[n]), said, n)
    BY <2>1, <2>2, HasNext
  <2>. QED BY <1>3, <2>1, <2>3
<1> HIDE DEF T
<1>6. \A n \in 0..N : n \in T
  BY <1>2, <1>4, <1>5, Loop
<1>7. N \in T /\ N \in 0..N
  BY <1>2, <1>6
<1>. QED BY <1>1, <1>2, <1>3, <1>7 DEF T

\* A transcript begins with what any beginning of its messages says.
LEMMA DedupePrefix ==
  ASSUME NEW said \in Seq(Entries), NEW more \in Seq(Entries), NEW p \in Changes(said)
  PROVE  LET line == DedupeTrainingMessages(said \o more)
             n    == Cardinality({q \in Changes(said) : q <= p})
         IN  n \in DOMAIN line /\ line[n] = said[p]
<1> DEFINE full == said \o more
           line == DedupeTrainingMessages(full)
           n == Cardinality({q \in Changes(said) : q <= p})
<1>1. /\ full \in Seq(Entries) /\ Len(full) = Len(said) + Len(more) /\ Len(said) \in Nat /\ Len(more) \in Nat
      /\ DOMAIN said = 1..Len(said) /\ DOMAIN full = 1..(Len(said) + Len(more))
      /\ \A i \in 1..Len(said) : full[i] = said[i]
  BY Joins DEF Two
<1> HIDE DEF full
<1>2. line \in Seq(Entries) /\ Has(line, full, Len(full))
  BY <1>1, DedupeHas
<1> HIDE DEF line
<1>3. p \in 1..Len(said) /\ p \in Nat
  BY <1>1 DEF Changes
<1>4. ASSUME NEW q \in 1..p PROVE q \in Changes(said) <=> q \in Changes(full)
  <2>1. q \in 1..Len(said) /\ q \in DOMAIN said /\ q \in DOMAIN full /\ q \in Nat
        /\ (q # 1 => q - 1 \in 1..Len(said))
    BY <1>1, <1>3
  <2>2. full[q] = said[q] /\ (q # 1 => full[q - 1] = said[q - 1])
    BY <1>1, <2>1
  <2>. QED BY <2>1, <2>2 DEF Changes
<1>5. (\A q \in Changes(said) : q \in 1..Len(said)) /\ \A q \in Changes(full) : q \in 1..Len(full)
  BY <1>1 DEF Changes
<1>6. {q \in Changes(said) : q <= p} = Upto(full, p)
  <2>1. \A q \in Changes(said) : q <= p => q \in 1..p
    BY <1>1, <1>3, <1>5
  <2>2. \A q \in Changes(full) : q <= p => q \in 1..p
    BY <1>1, <1>3, <1>5
  <2>. QED BY <1>4, <2>1, <2>2 DEF Upto
<1>7. p \in Upto(full, Len(full))
  <2>1. p \in 1..p /\ p <= Len(full)
    BY <1>1, <1>3
  <2>. QED BY <1>4, <2>1 DEF Upto
<1>8. n \in 1..Len(line) /\ line[n] = full[p]
  BY <1>2, <1>6, <1>7 DEF Has
<1>9. n \in DOMAIN line /\ line[n] = said[p]
  BY <1>1, <1>2, <1>3, <1>8
<1>. QED BY <1>9 DEF line, full

\* The conversation of request i, and one that begins with it.
Exchange(i) == made[i].input \o made[i].output
GoesOn(items, i) == \E x \in Seq(Items) : items = Exchange(i) \o x

\* A request that is not followed by a compaction is the beginning of every
\* later one, and of what the client holds.
Kept ==
    \A i \in DOMAIN made :
        /\ made[i].started = i
        /\ made[i].succeeded /\ (\A n \in i..Len(made) : made[n].output # Compacted) =>
              /\ GoesOn(client.history, i)
              /\ \A j \in (i + 1)..Len(made) : GoesOn(made[j].input, i)

\* A conversation that begins with another.
BeginsWith(items, base) == \E z \in Seq(Items) : items = base \o z

\* A longer one does too.
LEMMA BeginsStill ==
  ASSUME NEW base, NEW x, NEW y, Three(base, x, y, Items)
  PROVE  BeginsWith((base \o x) \o y, base)
<1>1. x \o y \in Seq(Items)
  BY ConcatProperties DEF Three
<1>2. (base \o x) \o y = base \o (x \o y)
  BY Regroup, SMTT(30)
<1>. QED BY <1>1, <1>2 DEF BeginsWith

\* Initially there is no request.
LEMMA KeptInit ==
  Init => Kept
<1> SUFFICES ASSUME Init PROVE Kept
  OBVIOUS
<1>1. made = <<>>
  BY DEF Init, ViewsInit
<1>2. DOMAIN made = {}
  BY <1>1
<1>. QED BY <1>2 DEF Kept

\* A request is sent what the client holds, which goes on with its answer.
LEMMA KeptStep ==
  ASSUME Typed, Kept, NEW asks, NEW added, NEW output, Step(asks, added, output)
  PROVE  Kept'
<1>0. PICK L, n, h : L = Len(made) /\ n = Len(made) + 1 /\ h = client.history
  OBVIOUS
<1>1. /\ made' \in Seq(Requests) /\ Len(made') = n /\ DOMAIN made' = 1..n
      /\ L \in Nat /\ DOMAIN made = 1..L /\ n \in 1..n /\ n \in Nat
      /\ \A i \in 1..n : i # n => i \in 1..L /\ made'[i] = made[i]
      /\ \A i \in 1..L : i \in 1..n /\ i # n /\ i < n /\ made'[i] = made[i]
      /\ made'[n].input = h \o added /\ made'[n].output = output
      /\ made'[n].succeeded = (output # Failed) /\ made'[n].started = n
  BY <1>0, NewRequest
<1>2. h \in Seq(Items) /\ added \in Seq(Items) /\ output \in Seq(Items) /\ made \in Seq(Requests)
  BY <1>0 DEF Step, Typed, Clients
<1>3. \/ asks # "compact" /\ client'.history = (h \o added) \o output
      \/ asks = "compact" /\ output = Failed /\ client'.history = h
      \/ output = Compacted
  BY <1>0 DEF Step
<1>4. h \o added \in Seq(Items) /\ (h \o added) \o output \in Seq(Items)
  <2>1. h \o added \in Seq(Items)
    BY <1>2, ConcatProperties
  <2>. QED BY <1>2, <2>1, ConcatProperties
<1>5. ASSUME NEW i \in 1..L, made[i].succeeded, \A k \in i..n : made'[k].output # Compacted
      PROVE  /\ \E x \in Seq(Items) : client'.history = Exchange(i) \o x
             /\ \A j \in (i + 1)..n : \E x \in Seq(Items) : made'[j].input = Exchange(i) \o x
  <2>1. \A k \in i..L : made[k].output # Compacted
    <3>1. \A k \in i..L : k \in i..n /\ k \in 1..L
      BY <1>0, <1>1
    <3>. QED BY <1>1, <1>5, <3>1
  <2>2. n \in i..n
    BY <1>0, <1>1
  <2>3. output # Compacted
    BY <1>1, <1>5, <2>2
  <2>4. (\E x \in Seq(Items) : h = Exchange(i) \o x) /\ \A j \in (i + 1)..L : \E x \in Seq(Items) : made[j].input = Exchange(i) \o x
    BY <1>0, <1>1, <1>5, <2>1 DEF Kept, GoesOn
  <2>5. PICK base : base = Exchange(i) /\ base \in Seq(Items)
    <3>1. made[i] \in Requests
      BY <1>1, <1>2, <1>0, ElementOfSeq
    <3>2. made[i].input \in Seq(Items) /\ made[i].output \in Seq(Items)
      BY <3>1 DEF Requests
    <3>3. Exchange(i) \in Seq(Items)
      BY <3>2, ConcatProperties DEF Exchange
    <3>. QED BY <3>3
  <2>6. PICK x \in Seq(Items) : h = base \o x
    BY <2>4, <2>5
  <2>7. PICK y \in Seq(Items) : h \o added = base \o y
    <3>1. Three(base, x, added, Items)
      BY <1>2, <2>5 DEF Three
    <3>2. BeginsWith((base \o x) \o added, base)
      BY <3>1, BeginsStill
    <3>3. BeginsWith(h \o added, base)
      BY <2>6, <3>2, Zenon
    <3>. QED BY <3>3 DEF BeginsWith
  <2>8. PICK z \in Seq(Items) : (h \o added) \o output = base \o z
    <3>1. Three(base, y, output, Items)
      BY <1>2, <2>5 DEF Three
    <3>2. BeginsWith((base \o y) \o output, base)
      BY <3>1, BeginsStill
    <3>3. BeginsWith((h \o added) \o output, base)
      BY <2>7, <3>2, Zenon
    <3>. QED BY <3>3 DEF BeginsWith
  <2>9. \E w \in Seq(Items) : client'.history = base \o w
    BY <1>3, <2>3, <2>6, <2>8, Zenon
  <2>10. ASSUME NEW j \in (i + 1)..n PROVE \E w \in Seq(Items) : made'[j].input = base \o w
    <3>1. CASE j = n
      BY <1>1, <2>7, <3>1, Zenon
    <3>2. CASE j # n
      <4>1. j \in (i + 1)..L /\ j \in 1..n
        BY <1>0, <1>1, <3>2
      <4>2. made'[j] = made[j]
        BY <1>1, <3>2, <4>1
      <4>. QED BY <2>4, <2>5, <4>1, <4>2, Zenon
    <3>. QED BY <3>1, <3>2
  <2>. QED BY <2>5, <2>9, <2>10, Zenon
<1>6. ASSUME output # Failed, output # Compacted
      PROVE  \E x \in Seq(Items) : client'.history = ((h \o added) \o output) \o x
  <2>1. client'.history = (h \o added) \o output
    BY <1>3, <1>6
  <2>2. ((h \o added) \o output) \o <<>> = (h \o added) \o output
    BY <1>4, ConcatEmptySeq
  <2>3. <<>> \in Seq(Items)
    OBVIOUS
  <2>. QED BY <2>1, <2>2, <2>3, Zenon
<1>7. ASSUME NEW i \in 1..n
      PROVE  /\ made'[i].started = i
             /\ made'[i].succeeded /\ (\A k \in i..n : made'[k].output # Compacted) =>
                   /\ \E x \in Seq(Items) : client'.history = (made'[i].input \o made'[i].output) \o x
                   /\ \A j \in (i + 1)..n : \E x \in Seq(Items) : made'[j].input = (made'[i].input \o made'[i].output) \o x
  <2>1. CASE i = n
    <3>1. i \in i..n /\ \A j : j \notin (i + 1)..n
      BY <1>1, <2>1
    <3>2. /\ made'[i].succeeded = (output # Failed) /\ made'[i].started = i
          /\ made'[i].input \o made'[i].output = (h \o added) \o output /\ made'[i].output = output
      BY <1>1, <2>1
    <3>. QED BY <1>6, <3>1, <3>2, Zenon
  <2>2. CASE i # n
    <3>1. i \in 1..L /\ made'[i] = made[i]
      BY <1>1, <2>2
    <3>2. made[i].started = i
      BY <1>1, <3>1 DEF Kept
    <3>3. made'[i].input \o made'[i].output = Exchange(i)
      BY <3>1 DEF Exchange
    <3>. QED BY <1>5, <3>1, <3>2, <3>3, Zenon
  <2>. QED BY <2>1, <2>2
<1>8. Len(made') = n /\ DOMAIN made' = 1..n
  BY <1>1
<1>. QED BY <1>7, <1>8, Zenon DEF Kept, GoesOn, Exchange

\* It is an invariant.
LEMMA KeptNext ==
  Typed /\ Kept /\ [Next]_allVars => Kept'
<1> SUFFICES ASSUME Typed, Kept, [Next]_allVars PROVE Kept'
  OBVIOUS
<1> DEFINE On(items, m, i) == \E x \in Seq(Items) : items = (m[i].input \o m[i].output) \o x
           All(m, h) == \A i \in DOMAIN m :
               /\ m[i].started = i
               /\ m[i].succeeded /\ (\A n \in i..Len(m) : m[n].output # Compacted) =>
                     On(h, m, i) /\ \A j \in (i + 1)..Len(m) : On(m[j].input, m, i)
<1>0. (Kept <=> All(made, client.history)) /\ (Kept' <=> All(made', client'.history))
  BY Zenon DEF Kept, GoesOn, Exchange
<1> HIDE DEF All
<1>1. CASE \E asks, added, output : Step(asks, added, output)
  BY <1>1, KeptStep
<1>2. CASE \E i \in 1..MaxRequests : Arrive(i)
  <2>1. client' = client /\ made' = made
    BY <1>2 DEF Arrive
  <2>. QED BY <1>0, <2>1
<1>3. CASE UNCHANGED views
  <2>1. client' = client /\ made' = made
    BY <1>3 DEF views
  <2>. QED BY <1>0, <2>1
<1>. QED BY <1>1, <1>2, <1>3, ViewsSteps

\* The newest sample is whole.
LEMMA WholeSample ==
  ASSUME Typed, Kept
  PROVE  SampleIsWhole
<1> DEFINE records == Records
           lines == TrainingLines(records)
<1>1. /\ made \in Seq(Requests) /\ DOMAIN made = 1..Len(made) /\ Len(made) \in Nat
      /\ \A i \in DOMAIN made : made[i] \in Requests
      /\ \A k \in DOMAIN arrived : arrived[k] \in DOMAIN made
      /\ \A i \in ToSet(arrived) : i \in DOMAIN made /\ \E k \in DOMAIN arrived : arrived[k] = i
  <2>1. arrived \in Seq(DOMAIN made) /\ made \in Seq(Requests)
    BY DEF Typed
  <2>2. \A k \in DOMAIN arrived : arrived[k] \in DOMAIN made
    BY <2>1, ElementOfSeq
  <2>3. \A i \in DOMAIN made : made[i] \in Requests
    BY <2>1, ElementOfSeq
  <2>4. DOMAIN made = 1..Len(made) /\ Len(made) \in Nat
    BY <2>1
  <2>. QED BY <2>1, <2>2, <2>3, <2>4 DEF ToSet
<1>2. DOMAIN records = DOMAIN arrived /\ \A k \in DOMAIN arrived : records[k] = made[arrived[k]]
  BY DEF Records
<1>3. \A i \in DOMAIN made : made[i].started = i /\ made[i].input \in Seq(Items) /\ made[i].output \in Seq(Items)
                             /\ made[i].succeeded \in BOOLEAN /\ i \in Nat
  BY <1>1 DEF Kept, Requests
<1> HIDE DEF records
<1>4. \A line \in lines : \E k \in Selected(records) : line = Transcript(records[k])
  BY DEF TrainingLines
<1> HIDE DEF lines
<1>5. ASSUME NEW k \in Selected(records)
      PROVE  /\ k \in DOMAIN arrived /\ arrived[k] \in DOMAIN made /\ records[k] = made[arrived[k]]
             /\ made[arrived[k]].succeeded
             /\ \A i \in ToSet(arrived) : made[i].succeeded => i <= arrived[k]
  <2>1. /\ k \in DOMAIN arrived /\ records[k].succeeded
        /\ \A j \in DOMAIN arrived : records[j].succeeded => records[j].started <= records[k].started
    BY <1>2 DEF Selected
  <2>2. arrived[k] \in DOMAIN made /\ records[k] = made[arrived[k]] /\ records[k].started = arrived[k]
    BY <1>1, <1>2, <1>3, <2>1
  <2>3. ASSUME NEW i \in ToSet(arrived), made[i].succeeded PROVE i <= arrived[k]
    <3>1. PICK j \in DOMAIN arrived : arrived[j] = i
      BY <1>1
    <3>2. i \in DOMAIN made /\ records[j] = made[i] /\ records[j].started = i
      BY <1>1, <1>2, <1>3, <3>1
    <3>. QED BY <2>1, <2>2, <2>3, <3>1, <3>2
  <2>. QED BY <2>1, <2>2, <2>3
<1>6. ASSUME NEW line \in lines, NEW other \in lines PROVE line = other
  <2>1. PICK k \in Selected(records) : line = Transcript(records[k])
    BY <1>4
  <2>2. PICK m \in Selected(records) : other = Transcript(records[m])
    BY <1>4
  <2>3. /\ k \in DOMAIN arrived /\ arrived[k] \in DOMAIN made /\ records[k] = made[arrived[k]] /\ made[arrived[k]].succeeded
        /\ \A i \in ToSet(arrived) : made[i].succeeded => i <= arrived[k]
    BY <1>5
  <2>4. /\ m \in DOMAIN arrived /\ arrived[m] \in DOMAIN made /\ records[m] = made[arrived[m]] /\ made[arrived[m]].succeeded
        /\ \A i \in ToSet(arrived) : made[i].succeeded => i <= arrived[m]
    BY <1>5
  <2>5. arrived[k] \in ToSet(arrived) /\ arrived[m] \in ToSet(arrived)
    BY <2>3, <2>4 DEF ToSet
  <2>6. arrived[k] <= arrived[m] /\ arrived[m] <= arrived[k] /\ arrived[k] \in Nat /\ arrived[m] \in Nat
    BY <1>3, <2>3, <2>4, <2>5
  <2>7. arrived[k] = arrived[m]
    BY <2>6
  <2>. QED BY <2>1, <2>2, <2>3, <2>4, <2>7
<1>7. ASSUME NEW line \in lines, NEW i \in ToSet(arrived), made[i].succeeded,
             \A n \in i..Len(made) : made[n].output # Compacted, NEW p \in Changes(Conversation(i))
      PROVE  LET n == Cardinality({q \in Changes(Conversation(i)) : q <= p})
             IN  n \in DOMAIN line /\ line[n] = Conversation(i)[p]
  <2>1. PICK k \in Selected(records) : line = Transcript(records[k])
    BY <1>4
  <2>2. PICK j : j = arrived[k]
    OBVIOUS
  <2>3. j \in DOMAIN made /\ line = Transcript(made[j]) /\ i <= j /\ i \in DOMAIN made
    BY <1>1, <1>5, <1>7, <2>1, <2>2
  <2> DEFINE in == made[j].input
             out == made[j].output
             base == Exchange(i)
  <2>4. in \in Seq(Items) /\ out \in Seq(Items) /\ base \in Seq(Items)
    <3>1. made[i].input \in Seq(Items) /\ made[i].output \in Seq(Items)
      BY <1>3, <2>3
    <3>2. base \in Seq(Items)
      BY <3>1, ConcatProperties DEF Exchange
    <3>. QED BY <1>3, <2>3, <3>2
  <2>5. Conversation(i) = AppendTrainingItems(base)
    BY Zenon DEF Conversation, Exchange
  <2>6. line = DedupeTrainingMessages(AppendTrainingItems(in) \o AppendTrainingItems(out))
    BY <2>3, Zenon DEF Transcript
  <2>7. PICK more \in Seq(Entries) : AppendTrainingItems(in) \o AppendTrainingItems(out) = AppendTrainingItems(base) \o more
    <3>1. CASE i = j
      <4>1. AppendTrainingItems(in) \o AppendTrainingItems(out) = AppendTrainingItems(in \o out)
        <5> HIDE DEF in, out
        <5>. QED BY <2>4, EntriesConcat
      <4>2. base = in \o out
        BY <3>1 DEF Exchange
      <4>3. AppendTrainingItems(base) \in Seq(Entries)
        <5> HIDE DEF base
        <5>. QED BY <2>4, EntriesOf
      <4>4. AppendTrainingItems(base) \o <<>> = AppendTrainingItems(base) /\ <<>> \in Seq(Entries)
        <5> DEFINE a == AppendTrainingItems(base)
        <5> HIDE DEF a
        <5>1. a \in Seq(Entries)
          BY <4>3 DEF a
        <5>2. a \o <<>> = a /\ <<>> \in Seq(Entries)
          BY <5>1, ConcatEmptySeq
        <5>. QED BY <5>2 DEF a
      <4>. QED BY <4>1, <4>2, <4>4, Zenon
    <3>2. CASE i # j
      <4>1. j \in (i + 1)..Len(made)
        BY <1>1, <2>3, <3>2
      <4>2. PICK x \in Seq(Items) : in = base \o x
        BY <1>7, <2>3, <4>1 DEF Kept, GoesOn
      <4> HIDE DEF in, out, base
      <4> DEFINE a == AppendTrainingItems(base)
                 b == AppendTrainingItems(x)
                 c == AppendTrainingItems(out)
      <4>3. AppendTrainingItems(in) = a \o b
        BY <2>4, <4>2, EntriesConcat
      <4>4. a \in Seq(Entries) /\ b \in Seq(Entries) /\ c \in Seq(Entries)
        BY <2>4, <4>2, EntriesOf
      <4> HIDE DEF a, b, c
      <4>5. (a \o b) \o c = a \o (b \o c)
        <5>1. Three(a, b, c, Entries)
          BY <4>4 DEF Three
        <5>. QED BY <5>1, Regroup, SMTT(30)
      <4>6. b \o c \in Seq(Entries)
        BY <4>4, ConcatProperties
      <4>7. AppendTrainingItems(in) \o c = a \o (b \o c)
        BY <4>3, <4>5
      <4>. QED BY <4>6, <4>7, Zenon DEF a, c
    <3>. QED BY <3>1, <3>2
  <2> DEFINE said == AppendTrainingItems(base)
  <2>8. said \in Seq(Entries)
    <3> HIDE DEF base
    <3>. QED BY <2>4, EntriesOf
  <2>9. line = DedupeTrainingMessages(said \o more)
    BY <2>6, <2>7
  <2>10. Conversation(i) = said
    BY <2>5
  <2> HIDE DEF said
  <2>11. p \in Changes(said)
    BY <2>10
  <2>12. LET n == Cardinality({q \in Changes(said) : q <= p}) IN n \in DOMAIN line /\ line[n] = said[p]
    BY <2>8, <2>9, <2>11, DedupePrefix
  <2>. QED BY <2>10, <2>12
<1>8. \A line \in lines : lines = {line}
  BY <1>6
<1>. QED BY <1>7, <1>8, Zenon DEF SampleIsWhole, lines, records

\* The training sample of a session is at most one, and begins with all that
\* was said in the requests archived since the last compaction, without the
\* repetitions of neighbours (training_export.go:75-117, 286-299).
THEOREM SampleIsAlwaysWhole ==
  Spec => []SampleIsWhole
<1>1. Init => Kept
  BY KeptInit
<1>2. Typed /\ Kept /\ [Next]_allVars => Kept'
  BY KeptNext
<1>3. Typed /\ Kept => SampleIsWhole
  BY WholeSample
<1>. QED BY <1>1, <1>2, <1>3, ViewsTyped, PTL DEF Spec

-----------------------------------------------------------------------------
(* The entries of what the client sends and is sent.                        *)

\* The role of an entry, by the type of its item.
LEMMA RoleOf ==
  ASSUME NEW item
  PROVE  /\ item.type = "function_call_output" => EntryRole(item) = "tool_result"
         /\ item.type = "function_call" => EntryRole(item) = "tool_call"
         /\ item.type \in {"compaction", "compaction_trigger"} => EntryRole(item) = "compaction"
         /\ item.type = "reasoning" => EntryRole(item) = NoText
         /\ item.type \notin {"function_call_output", "function_call", "compaction", "compaction_trigger", "reasoning"} =>
               EntryRole(item) = IF item.text = NoText THEN NoText ELSE MessageRole(item.role)
<1>1. CASE item.type = "function_call_output"
  BY <1>1, Zenon DEF EntryRole
<1>2. CASE item.type = "function_call"
  BY <1>2, Zenon DEF EntryRole
<1>3. CASE item.type \in {"compaction", "compaction_trigger"}
  BY <1>3, Zenon DEF EntryRole
<1>4. CASE item.type = "reasoning"
  BY <1>4, Zenon DEF EntryRole
<1>5. CASE item.type \notin {"function_call_output", "function_call", "compaction", "compaction_trigger", "reasoning"}
  BY <1>5, Zenon DEF EntryRole
<1>. QED BY <1>1, <1>2, <1>3, <1>4, <1>5, Zenon

\* The role of a message.
LEMMA RoleOfMessage ==
  ASSUME NEW role
  PROVE  /\ role = "assistant" => MessageRole(role) = "assistant"
         /\ role = "user" => MessageRole(role) = "user"
         /\ MessageRole(role) \in {"assistant", "tool_result", "system", "user"}
<1>1. role = "assistant" => MessageRole(role) = "assistant"
  BY Zenon DEF MessageRole
<1>2. role = "user" => MessageRole(role) = "user"
  BY Zenon DEF MessageRole
<1>3. MessageRole(role) \in {"assistant", "tool_result", "system", "user"}
  BY Zenon DEF MessageRole
<1>. QED BY <1>1, <1>2, <1>3

\* The entries of one item.
LEMMA EntryOfOne ==
  ASSUME NEW item \in Items
  PROVE  /\ EntryRole(item) = NoText => CollectEntries(<<item>>) = <<>>
         /\ EntryRole(item) # NoText => CollectEntries(<<item>>) = <<Entry(item, EntryRole(item))>>
<1> DEFINE s == <<item>>
           e == Entry(item, EntryRole(item))
           roles == [i \in DOMAIN s |-> EntryRole(s[i])]
           es == [i \in DOMAIN s |-> [role |-> roles[i], text |-> s[i].text, call |-> s[i].call]]
           S == {i \in DOMAIN s : roles[i] # NoText}
<1>1. DOMAIN s = {1} /\ s[1] = item /\ e \in Entries
  BY DEF Entries
<1>2. CollectEntries(s) = Picked(es, S)
  BY Zenon DEF CollectEntries, Collect
<1> HIDE DEF s
<1>3. roles[1] = EntryRole(item) /\ es[1] = e /\ DOMAIN es = {1} /\ es = [i \in {1} |-> es[i]]
  BY <1>1 DEF Entry
<1>4. es = <<e>> /\ es \in Seq(Entries) /\ Len(es) = 1
  <2>1. {1} = 1..1
    OBVIOUS
  <2> HIDE DEF es, e
  <2>2. es \in [1..1 -> Entries]
    BY <1>1, <1>3, <2>1
  <2>3. es \in Seq(Entries) /\ Len(es) = 1
    BY <2>2, FunctionIsSeq
  <2>4. <<e>> \in Seq(Entries) /\ Len(<<e>>) = 1 /\ <<e>>[1] = e
    BY <1>1
  <2>5. \A i \in 1..1 : es[i] = <<e>>[i]
    BY <1>3, <2>1, <2>4
  <2>6. es = <<e>>
    BY <2>3, <2>4, <2>5, SeqEqual
  <2>. QED BY <2>3, <2>6
<1>5. 1 \in S <=> EntryRole(item) # NoText
  BY <1>1, <1>3
<1> HIDE DEF es, S, e
<1>6. CASE EntryRole(item) = NoText
  <2>1. Picked(es, S) = <<>>
    <3>1. \A i \in 1..Len(es) : i \notin S
      BY <1>4, <1>5, <1>6
    <3>. QED BY <1>4, <3>1, PickedNone
  <2>. QED BY <1>2, <1>6, <2>1 DEF s
<1>7. CASE EntryRole(item) # NoText
  <2>1. Picked(es, S) = es
    <3>1. 1..Len(es) \subseteq S
      BY <1>4, <1>5, <1>7
    <3>. QED BY <1>4, <3>1, PickedAll
  <2>. QED BY <1>2, <1>4, <1>7, <2>1 DEF s, e
<1>. QED BY <1>6, <1>7

UserEntry(c) == [role |-> "user", text |-> c, call |-> 0]
ResultEntry(n) == [role |-> "tool_result", text |-> NoText, call |-> n]
ReplyEntry == [role |-> "assistant", text |-> "reply", call |-> 0]
CompactionEntry == [role |-> "compaction", text |-> NoText, call |-> 0]

\* Nothing has no entries.
LEMMA EntriesOfNothing ==
  CollectEntries(<<>>) = <<>>
<1> DEFINE s == <<>>
           roles == [i \in DOMAIN s |-> EntryRole(s[i])]
           es == [i \in DOMAIN s |-> [role |-> roles[i], text |-> s[i].text, call |-> s[i].call]]
           S == {i \in DOMAIN s : roles[i] # NoText}
<1>1. CollectEntries(s) = Picked(es, S)
  BY Zenon DEF CollectEntries, Collect
<1>2. DOMAIN s = {} /\ 1..0 = {}
  OBVIOUS
<1>3. es \in [1..0 -> Entries]
  BY <1>2
<1> HIDE DEF es, S
<1>4. es \in Seq(Entries) /\ Len(es) = 0
  BY <1>3, FunctionIsSeq
<1>5. Picked(es, S) = <<>>
  <2>1. \A i \in 1..Len(es) : i \notin S
    BY <1>4
  <2>. QED BY <1>4, <2>1, PickedNone
<1>. QED BY <1>1, <1>5

\* The entries of what may be sent.
LEMMA EntriesKnown ==
  /\ \A c \in Commands : CollectEntries(<<Message("user", c)>>) = <<UserEntry(c)>>
  /\ \A n \in Nat : CollectEntries(<<ToolResult(n)>>) = <<ResultEntry(n)>>
  /\ CollectEntries(<<Trigger>>) = <<CompactionEntry>>
  /\ CollectEntries(Compacted) = <<CompactionEntry>>
  /\ CollectEntries(<<Message("assistant", "reply")>>) = <<ReplyEntry>>
  /\ CollectEntries(<<ItemOf("reasoning", 0)>>) = <<>>
<1>1. ASSUME NEW c \in Commands PROVE CollectEntries(<<Message("user", c)>>) = <<UserEntry(c)>>
  <2>1. PICK item : item = Message("user", c)
    OBVIOUS
  <2>2. item \in Items /\ item.type = "message" /\ item.role = "user" /\ item.text = c /\ item.call = 0
    BY <2>1, KnownItems DEF Message
  <2>3. c # NoText
    BY ViewsAssumption
  <2>4. EntryRole(item) = "user"
    <3>1. item.type \notin {"function_call_output", "function_call", "compaction", "compaction_trigger", "reasoning"}
      BY <2>2
    <3>2. EntryRole(item) = MessageRole(item.role)
      BY <2>2, <2>3, <3>1, RoleOf
    <3>. QED BY <2>2, <3>2, RoleOfMessage
  <2>5. Entry(item, EntryRole(item)) = UserEntry(c)
    BY <2>2, <2>4 DEF Entry, UserEntry
  <2>6. EntryRole(item) # NoText
    BY <2>4 DEF NoText
  <2>7. CollectEntries(<<item>>) = <<Entry(item, EntryRole(item))>>
    BY <2>2, <2>6, EntryOfOne
  <2>. QED BY <2>1, <2>5, <2>7
<1>2. ASSUME NEW n \in Nat PROVE CollectEntries(<<ToolResult(n)>>) = <<ResultEntry(n)>>
  <2>1. PICK item : item = ToolResult(n)
    OBVIOUS
  <2>2. item \in Items /\ item.type = "function_call_output" /\ item.text = NoText /\ item.call = n
    BY <2>1, KnownItems DEF ToolResult, ItemOf
  <2>3. EntryRole(item) = "tool_result"
    BY <2>2, RoleOf
  <2>4. Entry(item, EntryRole(item)) = ResultEntry(n)
    BY <2>2, <2>3 DEF Entry, ResultEntry
  <2>5. EntryRole(item) # NoText
    BY <2>3 DEF NoText
  <2>6. CollectEntries(<<item>>) = <<Entry(item, EntryRole(item))>>
    BY <2>2, <2>5, EntryOfOne
  <2>. QED BY <2>1, <2>4, <2>6
<1>3. ASSUME NEW item \in {Trigger, ItemOf("compaction", 0)} PROVE CollectEntries(<<item>>) = <<CompactionEntry>>
  <2>1. item \in Items /\ item.type \in {"compaction", "compaction_trigger"} /\ item.text = NoText /\ item.call = 0
    BY KnownItems DEF Trigger, ItemOf
  <2>2. EntryRole(item) = "compaction"
    BY <2>1, RoleOf
  <2>3. Entry(item, EntryRole(item)) = CompactionEntry
    BY <2>1, <2>2 DEF Entry, CompactionEntry
  <2>4. EntryRole(item) # NoText
    BY <2>2 DEF NoText
  <2>5. CollectEntries(<<item>>) = <<Entry(item, EntryRole(item))>>
    BY <2>1, <2>4, EntryOfOne
  <2>. QED BY <2>3, <2>5
<1>4. CollectEntries(<<Message("assistant", "reply")>>) = <<ReplyEntry>>
  <2>1. PICK item : item = Message("assistant", "reply")
    OBVIOUS
  <2>2. item \in Items /\ item.type = "message" /\ item.role = "assistant" /\ item.text = "reply" /\ item.call = 0
    BY <2>1, KnownItems DEF Message
  <2>3. EntryRole(item) = "assistant"
    <3>1. item.type \notin {"function_call_output", "function_call", "compaction", "compaction_trigger", "reasoning"}
      BY <2>2
    <3>2. item.text # NoText
      BY <2>2 DEF NoText
    <3>3. EntryRole(item) = MessageRole(item.role)
      BY <3>1, <3>2, RoleOf
    <3>. QED BY <2>2, <3>3, RoleOfMessage
  <2>4. Entry(item, EntryRole(item)) = ReplyEntry
    BY <2>2, <2>3 DEF Entry, ReplyEntry
  <2>5. EntryRole(item) # NoText
    BY <2>3 DEF NoText
  <2>6. CollectEntries(<<item>>) = <<Entry(item, EntryRole(item))>>
    BY <2>2, <2>5, EntryOfOne
  <2>. QED BY <2>1, <2>4, <2>6
<1>5. CollectEntries(<<ItemOf("reasoning", 0)>>) = <<>>
  <2>1. PICK item : item = ItemOf("reasoning", 0)
    OBVIOUS
  <2>2. item \in Items /\ item.type = "reasoning"
    BY <2>1, KnownItems DEF ItemOf
  <2>3. EntryRole(item) = NoText
    BY <2>2, RoleOf
  <2>. QED BY <2>1, <2>2, <2>3, EntryOfOne
<1>. QED BY <1>1, <1>2, <1>3, <1>4, <1>5 DEF Compacted

\* Items that are no compactions.
Plain(items) == \A i \in DOMAIN items : items[i].type \notin {"compaction", "compaction_trigger"}

\* Their entries are none either.
LEMMA PlainEntries ==
  ASSUME NEW items \in Seq(Items), Plain(items)
  PROVE  \A e \in ToSet(CollectEntries(items)) : e.role # "compaction"
<1>1. ASSUME NEW e \in ToSet(CollectEntries(items)) PROVE e.role # "compaction"
  <2>1. PICK i \in 1..Len(items) : EntryRole(items[i]) # NoText /\ e = Entry(items[i], EntryRole(items[i]))
    BY EntriesOf
  <2>2. PICK item : item = items[i]
    OBVIOUS
  <2>3. item.type \notin {"compaction", "compaction_trigger"}
    BY <2>2 DEF Plain
  <2>4. EntryRole(item) \in {"tool_result", "tool_call", NoText, "assistant", "system", "user"}
    <3>1. CASE item.type \in {"function_call_output", "function_call", "reasoning"}
      BY <3>1, RoleOf
    <3>2. CASE item.type \notin {"function_call_output", "function_call", "reasoning"}
      <4>1. item.type \notin {"function_call_output", "function_call", "compaction", "compaction_trigger", "reasoning"}
        BY <2>3, <3>2
      <4>2. EntryRole(item) = IF item.text = NoText THEN NoText ELSE MessageRole(item.role)
        BY <4>1, RoleOf
      <4>3. MessageRole(item.role) \in {"assistant", "tool_result", "system", "user"}
        BY RoleOfMessage
      <4>. QED BY <4>2, <4>3
    <3>. QED BY <3>1, <3>2
  <2>5. e.role = EntryRole(item)
    BY <2>1, <2>2 DEF Entry
  <2>. QED BY <2>4, <2>5 DEF NoText
<1>. QED BY <1>1

-----------------------------------------------------------------------------
(* Replays and common beginnings.                                           *)

\* A replay at the front is taken away whole, and nothing else.
LEMMA SubtractFront ==
  ASSUME NEW replay \in Seq(Entries), NEW rest \in Seq(Entries)
  PROVE  SubtractEntries(replay \o rest, replay) = rest
<1> DEFINE all == replay \o rest
           M == Len(replay)
           N == Len(rest)
           S == {i \in DOMAIN all : Occurrences(all[i], SubSeq(all, 1, i)) > Occurrences(all[i], replay)}
<1>1. /\ all \in Seq(Entries) /\ Len(all) = M + N /\ M \in Nat /\ N \in Nat
      /\ DOMAIN replay = 1..M /\ DOMAIN rest = 1..N /\ DOMAIN all = 1..(M + N)
      /\ \A i \in 1..M : all[i] = replay[i]
      /\ \A i \in 1..N : all[M + i] = rest[i]
  BY Joins DEF Two
<1>2. SubtractEntries(all, replay) = Picked(all, S)
  BY DEF SubtractEntries
<1> HIDE DEF all
<1>3. ASSUME NEW i \in 1..(M + N)
      PROVE  /\ SubSeq(all, 1, i) \in Seq(Entries) /\ DOMAIN SubSeq(all, 1, i) = 1..i
             /\ \A j \in 1..i : SubSeq(all, 1, i)[j] = all[j]
  <2>1. 1 \in 1..(Len(all) + 1) /\ i \in (1 - 1)..Len(all) /\ i - 1 + 1 = i /\ \A j \in 1..i : 1 + j - 1 = j
    BY <1>1
  <2>2. /\ SubSeq(all, 1, i) \in Seq(Entries) /\ DOMAIN SubSeq(all, 1, i) = 1..(i - 1 + 1)
        /\ \A j \in 1..(i - 1 + 1) : SubSeq(all, 1, i)[j] = all[1 + j - 1]
    BY <1>1, <2>1, Part
  <2>. QED BY <2>1, <2>2
<1>4. ASSUME NEW i \in 1..M PROVE i \notin S
  <2>1. i \in 1..(M + N) /\ \A j \in 1..i : j \in 1..M
    BY <1>1
  <2>2. PICK p, x : p = SubSeq(all, 1, i) /\ x = all[i]
    OBVIOUS
  <2>3. p \in Seq(Entries) /\ DOMAIN p = 1..i /\ \A j \in 1..i : p[j] = replay[j]
    BY <1>1, <1>3, <2>1, <2>2
  <2> DEFINE A == At(x, p)
             B == At(x, replay)
  <2>4. A \subseteq B
    BY <1>1, <2>1, <2>3 DEF At
  <2>5. /\ IsFiniteSet(A) /\ Occurrences(x, p) = Cardinality(A)
        /\ IsFiniteSet(B) /\ Occurrences(x, replay) = Cardinality(B)
    BY <2>3, OccurrencesCount
  <2> HIDE DEF A, B
  <2>6. Cardinality(A) <= Cardinality(B) /\ Cardinality(A) \in Nat /\ Cardinality(B) \in Nat
    BY <2>4, <2>5, FS_Subset, FS_CardinalityType
  <2>. QED BY <2>2, <2>5, <2>6
<1>5. ASSUME NEW i \in 1..N PROVE M + i \in S
  <2>1. M + i \in 1..(M + N) /\ M + i \in 1..(M + i) /\ M + i \notin 1..M /\ \A j \in 1..M : j \in 1..(M + i)
    BY <1>1
  <2>2. PICK p, x, m : p = SubSeq(all, 1, M + i) /\ x = all[M + i] /\ m = M + i
    OBVIOUS
  <2>3. p \in Seq(Entries) /\ DOMAIN p = 1..m /\ \A j \in 1..m : p[j] = all[j]
    BY <1>3, <2>1, <2>2
  <2> DEFINE A == At(x, replay)
             B == At(x, p)
  <2>4. A \subseteq B /\ m \in B /\ m \notin A
    BY <1>1, <2>1, <2>2, <2>3 DEF At
  <2>5. /\ IsFiniteSet(A) /\ Occurrences(x, replay) = Cardinality(A)
        /\ IsFiniteSet(B) /\ Occurrences(x, p) = Cardinality(B)
    BY <2>3, OccurrencesCount
  <2> HIDE DEF A, B
  <2>6. Cardinality(A) < Cardinality(B) /\ Cardinality(A) \in Nat /\ Cardinality(B) \in Nat
    <3>1. Cardinality(A) \in Nat /\ Cardinality(B) \in Nat
      BY <2>5, FS_CardinalityType
    <3>2. IsFiniteSet(A \cup {m}) /\ Cardinality(A \cup {m}) = Cardinality(A) + 1
      BY <2>4, <2>5, FS_AddElement
    <3>3. A \cup {m} \subseteq B
      BY <2>4
    <3>4. Cardinality(A \cup {m}) <= Cardinality(B)
      BY <2>5, <3>3, FS_Subset
    <3>. QED BY <3>1, <3>2, <3>4
  <2>8. Occurrences(x, p) > Occurrences(x, replay)
    BY <2>5, <2>6
  <2>. QED BY <1>1, <2>1, <2>2, <2>8
<1> HIDE DEF S
<1>6. Splits(S, {}, 1..N, M, N)
  BY <1>4, <1>5 DEF Splits
<1>7. Picked(all, S) = Picked(replay, {}) \o Picked(rest, 1..N)
  BY <1>6, PickedConcat DEF all, M, N
<1>8. Picked(replay, {}) = <<>>
  BY PickedNone
<1>9. Picked(rest, 1..N) = rest
  BY PickedAll
<1>10. <<>> \o rest = rest
  BY ConcatEmptySeq
<1>. QED BY <1>2, <1>7, <1>8, <1>9, <1>10 DEF all

\* A replay of which nothing occurs takes nothing away.
LEMMA SubtractOther ==
  ASSUME NEW entries \in Seq(Entries), NEW replay \in Seq(Entries),
         \A i \in 1..Len(entries) : \A j \in 1..Len(replay) : replay[j] # entries[i]
  PROVE  SubtractEntries(entries, replay) = entries
<1> DEFINE S == {i \in DOMAIN entries :
                     Occurrences(entries[i], SubSeq(entries, 1, i)) > Occurrences(entries[i], replay)}
<1>1. DOMAIN entries = 1..Len(entries) /\ Len(entries) \in Nat
  OBVIOUS
<1>2. SubtractEntries(entries, replay) = Picked(entries, S)
  BY DEF SubtractEntries
<1>3. ASSUME NEW i \in 1..Len(entries) PROVE i \in S
  <2>1. 1 \in 1..(Len(entries) + 1) /\ i \in (1 - 1)..Len(entries) /\ i - 1 + 1 = i /\ 1 + i - 1 = i /\ i \in 1..i
    BY <1>1
  <2>2. PICK p, x : p = SubSeq(entries, 1, i) /\ x = entries[i]
    OBVIOUS
  <2>3. p \in Seq(Entries) /\ Len(p) = i /\ p[i] = x
    <3>1. /\ SubSeq(entries, 1, i) \in Seq(Entries) /\ Len(SubSeq(entries, 1, i)) = i - 1 + 1
          /\ \A j \in 1..(i - 1 + 1) : SubSeq(entries, 1, i)[j] = entries[1 + j - 1]
      BY <2>1, Part
    <3>. QED BY <2>1, <2>2, <3>1
  <2>4. Occurrences(x, p) \in Nat /\ Occurrences(x, p) # 0
    <3>1. i \in 1..Len(p)
      BY <2>1, <2>3
    <3>. QED BY <2>3, <3>1, OccurrencesCount
  <2>5. Occurrences(x, replay) = 0
    BY <2>2, OccurrencesCount
  <2>. QED BY <1>1, <2>2, <2>4, <2>5
<1> HIDE DEF S
<1>. QED BY <1>2, <1>3, PickedAll

\* Where two sequences part.
PartAt(s, t, c) ==
    /\ c \in 0..Len(s) /\ c \in 0..Len(t) /\ \A i \in 1..c : s[i] = t[i]
    /\ c = Len(s) \/ c = Len(t) \/ s[c + 1] # t[c + 1]

\* The common prefix ends there.
LEMMA CommonIs ==
  ASSUME NEW V, NEW s \in Seq(V), NEW t \in Seq(V), NEW c, PartAt(s, t, c)
  PROVE  CommonEntryPrefix(s, t) = c
<1>1. PICK n : n = CommonEntryPrefix(s, t)
  OBVIOUS
<1>2. PartAt(s, t, n) /\ n \in Nat
  <2>1. /\ n \in Nat /\ n <= Len(s) /\ n <= Len(t) /\ \A i \in 1..n : s[i] = t[i]
        /\ n = Len(s) \/ n = Len(t) \/ s[n + 1] # t[n + 1]
    BY <1>1, CommonPrefix
  <2>2. n \in 0..Len(s) /\ n \in 0..Len(t)
    BY <2>1
  <2>. QED BY <2>1, <2>2 DEF PartAt
<1>3. Len(s) \in Nat /\ Len(t) \in Nat /\ c \in Nat
  BY DEF PartAt
<1>4. ~(n < c)
  <2>1. SUFFICES ASSUME n < c PROVE FALSE
    OBVIOUS
  <2>2. n + 1 \in 1..c /\ n # Len(s) /\ n # Len(t)
    BY <1>2, <1>3, <2>1 DEF PartAt
  <2>. QED BY <1>2, <2>2 DEF PartAt
<1>5. ~(c < n)
  <2>1. SUFFICES ASSUME c < n PROVE FALSE
    OBVIOUS
  <2>2. c + 1 \in 1..n /\ c # Len(s) /\ c # Len(t)
    BY <1>2, <1>3, <2>1 DEF PartAt
  <2>. QED BY <1>2, <2>2 DEF PartAt
<1>. QED BY <1>1, <1>2, <1>3, <1>4, <1>5

\* Two sequences that begin alike and then differ, or one of which ends.
LEMMA CommonFront ==
  ASSUME NEW V, NEW s \in Seq(V), NEW x \in Seq(V), NEW y \in Seq(V),
         x = <<>> \/ y = <<>> \/ x[1] # y[1]
  PROVE  /\ CommonEntryPrefix(s \o x, s \o y) = Len(s)
         /\ SubSeq(s \o y, Len(s) + 1, Len(s \o y)) = y
         /\ Len(s \o y) = Len(s) + Len(y) /\ Len(y) \in Nat /\ Len(s) \in Nat
<1> DEFINE a == s \o x
           b == s \o y
<1>1. /\ a \in Seq(V) /\ Len(a) = Len(s) + Len(x) /\ Len(s) \in Nat /\ Len(x) \in Nat
      /\ \A i \in 1..Len(s) : a[i] = s[i]
      /\ \A i \in 1..Len(x) : a[Len(s) + i] = x[i]
  BY Joins DEF Two
<1>2. /\ b \in Seq(V) /\ Len(b) = Len(s) + Len(y) /\ Len(y) \in Nat
      /\ \A i \in 1..Len(s) : b[i] = s[i]
      /\ \A i \in 1..Len(y) : b[Len(s) + i] = y[i]
  BY Joins DEF Two
<1> HIDE DEF a, b
<1>3. PartAt(a, b, Len(s))
  <2>1. Len(s) \in 0..Len(a) /\ Len(s) \in 0..Len(b) /\ \A i \in 1..Len(s) : a[i] = b[i]
    BY <1>1, <1>2
  <2>2. x = <<>> => Len(s) = Len(a)
    BY <1>1
  <2>3. y = <<>> => Len(s) = Len(b)
    BY <1>1, <1>2
  <2>4. x # <<>> /\ y # <<>> => a[Len(s) + 1] = x[1] /\ b[Len(s) + 1] = y[1]
    <3>1. x # <<>> /\ y # <<>> => 1 \in 1..Len(x) /\ 1 \in 1..Len(y)
      BY <1>1, <1>2, EmptySeq
    <3>. QED BY <1>1, <1>2, <3>1
  <2>. QED BY <2>1, <2>2, <2>3, <2>4 DEF PartAt
<1>4. CommonEntryPrefix(a, b) = Len(s)
  BY <1>1, <1>2, <1>3, CommonIs
<1>5. SubSeq(b, Len(s) + 1, Len(b)) = y
  <2>1. PICK m : m = Len(s) + 1
    OBVIOUS
  <2>2. m \in 1..(Len(b) + 1) /\ Len(b) \in (m - 1)..Len(b) /\ Len(b) - m + 1 = Len(y)
        /\ \A i \in 1..Len(y) : m + i - 1 = Len(s) + i
    BY <1>1, <1>2, <2>1
  <2>3. /\ SubSeq(b, m, Len(b)) \in Seq(V) /\ Len(SubSeq(b, m, Len(b))) = Len(b) - m + 1
        /\ \A i \in 1..(Len(b) - m + 1) : SubSeq(b, m, Len(b))[i] = b[m + i - 1]
    BY <1>2, <2>2, Part
  <2> DEFINE c == SubSeq(b, m, Len(b))
  <2> HIDE DEF c
  <2>4. c \in Seq(V) /\ Len(c) = Len(y) /\ \A i \in 1..Len(y) : c[i] = y[i]
    BY <1>2, <2>2, <2>3 DEF c
  <2>5. c = y
    BY <2>4, SeqEqual
  <2>. QED BY <2>1, <2>5 DEF c
<1>. QED BY <1>1, <1>2, <1>4, <1>5 DEF a, b

\* A whole sequence is its part from the first to the last.
LEMMA Whole ==
  ASSUME NEW V, NEW s \in Seq(V)
  PROVE  SubSeq(s, 1, Len(s)) = s
<1> DEFINE p == SubSeq(s, 1, Len(s))
<1>1. 1 \in 1..(Len(s) + 1) /\ Len(s) \in (1 - 1)..Len(s) /\ Len(s) - 1 + 1 = Len(s) /\ \A i \in 1..Len(s) : 1 + i - 1 = i
  OBVIOUS
<1>2. /\ p \in Seq(V) /\ Len(p) = Len(s) - 1 + 1
      /\ \A i \in 1..(Len(s) - 1 + 1) : p[i] = s[1 + i - 1]
  BY <1>1, Part
<1> HIDE DEF p
<1>3. p \in Seq(V) /\ Len(p) = Len(s) /\ \A i \in 1..Len(p) : p[i] = s[i]
  BY <1>1, <1>2
<1>4. p = s
  BY <1>3, SeqEqual
<1>. QED BY <1>4 DEF p

\* A prefix is what a sequence begins with.
LEMMA PrefixSplits ==
  ASSUME NEW V, NEW s \in Seq(V), NEW t \in Seq(V), IsPrefix(s, t)
  PROVE  \E u \in Seq(V) : t = s \o u
<1> DEFINE n == Len(s)
           u == SubSeq(t, n + 1, Len(t))
<1>1. n \in Nat /\ Len(t) \in Nat /\ n <= Len(t) /\ SubSeq(s, 1, n) = SubSeq(t, 1, n)
  BY DEF IsPrefix
<1>2. SubSeq(s, 1, n) = s /\ SubSeq(t, 1, Len(t)) = t
  BY Whole
<1>3. 1 \in 1..(Len(t) + 1) /\ n \in (1 - 1)..Len(t) /\ Len(t) \in n..Len(t) /\ n \in 0..Len(t)
  BY <1>1
<1>4. SubSeq(t, 1, n) \o SubSeq(t, n + 1, Len(t)) = SubSeq(t, 1, Len(t))
  BY <1>3, ConcatAdjacentSubSeq
<1>5. u \in Seq(V)
  BY <1>3, CutInTwo
<1> HIDE DEF n
<1>. QED BY <1>1, <1>2, <1>4, <1>5

\* And what a sequence begins with is a prefix.
LEMMA PrefixOfConcat ==
  ASSUME NEW V, NEW s \in Seq(V), NEW u \in Seq(V)
  PROVE  IsPrefix(s, s \o u)
<1> DEFINE t == s \o u
           n == Len(s)
<1>1. /\ t \in Seq(V) /\ Len(t) = n + Len(u) /\ n \in Nat /\ Len(u) \in Nat
      /\ \A i \in 1..n : t[i] = s[i]
  BY Joins DEF Two
<1> HIDE DEF t
<1>2. 1 \in 1..(Len(t) + 1) /\ n \in 0..Len(t) /\ n <= Len(t)
  BY <1>1
<1> DEFINE p == SubSeq(t, 1, n)
<1>3. p \in Seq(V) /\ Len(p) = n /\ \A i \in 1..n : p[i] = t[i]
  BY <1>1, <1>2, CutInTwo
<1>4. SubSeq(s, 1, n) = s
  BY Whole
<1> HIDE DEF p
<1>5. p = s
  BY <1>1, <1>3, SeqEqual
<1>. QED BY <1>2, <1>4, <1>5 DEF IsPrefix, t, p

\* Only what is needed of a request and the one archived before it.
Exact(p, r) ==
    LET input  == CollectEntries(r.input)
        common == CommonEntryPrefix(CollectEntries(p.input), input)
        delta  == SubtractEntries(SubSeq(input, common + 1, Len(input)), CollectEntries(p.output))
    IN  /\ input # <<>> /\ common \in Nat
        /\ common = Len(input) <=> IsPrefix(r.input, p.input)
        /\ delta = IF IsPrefix(r.input, p.input) THEN <<>> ELSE CollectEntries(r.added)
        /\ common = 0 => Len(input) <= HistoryLimit
Payloads(r) == r.input \in Seq(Items) /\ r.output \in Seq(Items) /\ r.added \in Seq(Items)

\* The entries of a repeated request are all common.
LEMMA RepeatCommon ==
  ASSUME NEW p, NEW r, Payloads(p), Payloads(r), IsPrefix(r.input, p.input)
  PROVE  LET input == CollectEntries(r.input)
         IN  /\ CommonEntryPrefix(CollectEntries(p.input), input) = Len(input)
             /\ SubSeq(input, Len(input) + 1, Len(input)) = <<>>
<1> DEFINE B == CollectEntries(r.input)
<1>1. p.input \in Seq(Items) /\ r.input \in Seq(Items)
  BY DEF Payloads
<1>2. PICK u \in Seq(Items) : p.input = r.input \o u
  BY <1>1, PrefixSplits
<1>3. CollectEntries(p.input) = B \o CollectEntries(u)
  BY <1>1, <1>2, EntriesConcat
<1>4. B \in Seq(Entries) /\ CollectEntries(u) \in Seq(Entries)
  BY <1>1, EntriesOf
<1> DEFINE X == CollectEntries(u)
<1> HIDE DEF B, X
<1>5. PICK e : e = <<>> /\ e \in Seq(Entries) /\ B \o e = B
  <2>1. <<>> \in Seq(Entries) /\ B \o <<>> = B
    BY <1>4, ConcatEmptySeq
  <2>. QED BY <2>1
<1>6. /\ CommonEntryPrefix(B \o X, B \o e) = Len(B)
      /\ SubSeq(B \o e, Len(B) + 1, Len(B \o e)) = e
  <2>1. e = <<>> \/ X = <<>> \/ X[1] # e[1]
    BY <1>5
  <2>2. X \in Seq(Entries) /\ e \in Seq(Entries)
    BY <1>4, <1>5 DEF X
  <2>. QED BY <1>4, <2>1, <2>2, CommonFront
<1>7. CommonEntryPrefix(CollectEntries(p.input), B) = Len(B) /\ SubSeq(B, Len(B) + 1, Len(B)) = <<>>
  BY <1>3, <1>5, <1>6, Zenon DEF X
<1>. QED BY <1>7 DEF B

\* A repeated request is told exactly.
LEMMA RepeatExact ==
  ASSUME NEW p, NEW r, Payloads(p), Payloads(r), IsPrefix(r.input, p.input), CollectEntries(r.input) # <<>>
  PROVE  Exact(p, r)
<1> DEFINE B == CollectEntries(r.input)
           R == CollectEntries(p.output)
           common == CommonEntryPrefix(CollectEntries(p.input), B)
<1>1. common = Len(B) /\ SubSeq(B, Len(B) + 1, Len(B)) = <<>>
  BY RepeatCommon
<1>2. B \in Seq(Entries) /\ R \in Seq(Entries) /\ B # <<>>
  BY EntriesOf DEF Payloads
<1> HIDE DEF B, R, common
<1>3. Len(B) \in Nat /\ Len(B) # 0
  BY <1>2, EmptySeq
<1>4. SubtractEntries(<<>>, R) = <<>>
  <2>1. PICK e : e = <<>>
    OBVIOUS
  <2>2. e \in Seq(Entries) /\ \A i \in 1..Len(e) : FALSE
    BY <2>1
  <2>3. SubtractEntries(e, R) = e
    BY <1>2, <2>2, SubtractOther
  <2>. QED BY <2>1, <2>3
<1>5. SubtractEntries(SubSeq(B, common + 1, Len(B)), R) = <<>>
  BY <1>1, <1>4
<1>6. common \in Nat /\ common # 0 /\ common = Len(B)
  BY <1>1, <1>3
<1>. QED BY <1>2, <1>5, <1>6, Zenon DEF Exact, B, R, common

\* A request with a new entry is told exactly when what is left is what it added.
LEMMA NewExact ==
  ASSUME NEW p, NEW r, Payloads(p), Payloads(r), NEW common, NEW B,
         B = CollectEntries(r.input), common = CommonEntryPrefix(CollectEntries(p.input), B),
         B # <<>>, common # Len(B), common \in Nat, common = 0 => Len(B) <= HistoryLimit,
         SubtractEntries(SubSeq(B, common + 1, Len(B)), CollectEntries(p.output)) = CollectEntries(r.added)
  PROVE  Exact(p, r)
<1>1. ~IsPrefix(r.input, p.input)
  BY RepeatCommon
<1>. QED BY <1>1, Zenon DEF Exact

-----------------------------------------------------------------------------
(* A request after the one before it.                                       *)

\* The entries of what a request adds, by what it asks.
Gives(asks, D) ==
    \/ asks = "command" /\ \E c \in Commands : D = <<UserEntry(c)>>
    \/ asks = "continue" /\ \E n \in Nat : D = <<ResultEntry(n)>>
    \/ asks \in {"retry", "resume"} /\ D = <<>>
    \/ asks = "compact" /\ D = <<CompactionEntry>>

\* They are these.
LEMMA AddedEntries ==
  ASSUME NEW asks, NEW added, Adds(asks, added)
  PROVE  Gives(asks, CollectEntries(added))
<1>1. CASE asks = "command" /\ \E c \in Commands : added = <<Message("user", c)>>
  BY <1>1, EntriesKnown DEF Gives
<1>2. CASE asks = "continue" /\ \E n \in Nat : added = <<ToolResult(n)>>
  BY <1>2, EntriesKnown DEF Gives
<1>3. CASE asks \in {"retry", "resume"} /\ added = <<>>
  BY <1>3, EntriesOfNothing DEF Gives
<1>4. CASE asks = "compact" /\ added = <<Trigger>>
  BY <1>4, EntriesKnown DEF Gives
<1>. QED BY <1>1, <1>2, <1>3, <1>4 DEF Adds

\* At most one entry, none for a retry or a resumption.
LEMMA GivesLen ==
  ASSUME NEW asks, NEW D, Gives(asks, D)
  PROVE  /\ asks \notin {"retry", "resume"} => D # <<>> /\ Len(D) = 1
         /\ asks \in {"retry", "resume"} => D = <<>>
<1>1. \A x : <<x>> # <<>> /\ Len(<<x>>) = 1
  OBVIOUS
<1>. QED BY <1>1 DEF Gives

\* The request after an answer sends the conversation, the answer and more.
LEMMA AfterAnswer ==
  ASSUME NEW p, NEW r, Payloads(p), Payloads(r), CollectEntries(p.input) # <<>>, CollectEntries(r.input) # <<>>,
         Adds(r.asks, r.added), r.input = (p.input \o p.output) \o r.added,
         r.asks # "resume", r.asks = "retry" => p.output = Failed
  PROVE  Exact(p, r)
<1> DEFINE A == CollectEntries(p.input)
           R == CollectEntries(p.output)
           D == CollectEntries(r.added)
           B == CollectEntries(r.input)
           common == CommonEntryPrefix(A, B)
<1>1. p.input \in Seq(Items) /\ p.output \in Seq(Items) /\ r.input \in Seq(Items) /\ r.added \in Seq(Items)
  BY DEF Payloads
<1>2. A \in Seq(Entries) /\ R \in Seq(Entries) /\ D \in Seq(Entries) /\ B \in Seq(Entries)
  BY <1>1, EntriesOf
<1>3. Gives(r.asks, D)
  BY AddedEntries
<1>4. CASE r.asks = "retry"
  <2>1. p.output = <<>> /\ r.added = <<>>
    BY <1>4 DEF Adds, Failed
  <2>2. PICK s : s = p.input /\ s \in Seq(Items)
    BY <1>1
  <2>3. s \o <<>> = s
    BY <2>2, ConcatEmptySeq
  <2>4. r.input = p.input \o <<>>
    BY <2>1, <2>2, <2>3
  <2>5. IsPrefix(r.input, p.input)
    <3>1. IsPrefix(s, s \o <<>>)
      <4>1. <<>> \in Seq(Items)
        OBVIOUS
      <4>. QED BY <2>2, <4>1, PrefixOfConcat
    <3>. QED BY <2>2, <2>3, <2>4, <3>1
  <2>. QED BY <2>5, RepeatExact
<1>5. CASE r.asks # "retry"
  <2>1. D # <<>> /\ Len(D) = 1
    BY <1>3, <1>5, GivesLen
  <2>2. B = (A \o R) \o D
    <3>1. p.input \o p.output \in Seq(Items)
      BY <1>1, ConcatProperties
    <3>2. CollectEntries(p.input \o p.output) = A \o R
      BY <1>1, EntriesConcat
    <3>3. CollectEntries((p.input \o p.output) \o r.added) = CollectEntries(p.input \o p.output) \o D
      BY <1>1, <3>1, EntriesConcat
    <3>. QED BY <3>2, <3>3
  <2>3. A # <<>> /\ B # <<>>
    OBVIOUS
  <2>4. common = CommonEntryPrefix(CollectEntries(p.input), B) /\ B = CollectEntries(r.input)
    OBVIOUS
  <2>5. Len(D) \in Nat
    BY <2>1
  <2> HIDE DEF A, R, D, B
  <2> DEFINE new == R \o D
  <2>6. new \in Seq(Entries) /\ Len(new) = Len(R) + Len(D) /\ Len(R) \in Nat
    BY <1>2, ConcatProperties
  <2>7. B = A \o new
    BY <1>2, <2>2, ConcatAssociative
  <2> HIDE DEF new
  <2>8. /\ CommonEntryPrefix(A \o <<>>, A \o new) = Len(A)
        /\ SubSeq(A \o new, Len(A) + 1, Len(A \o new)) = new
        /\ Len(A \o new) = Len(A) + Len(new) /\ Len(A) \in Nat
    <3>1. <<>> \in Seq(Entries)
      OBVIOUS
    <3>2. PICK e : e = <<>> /\ e \in Seq(Entries)
      BY <3>1
    <3>3. e = <<>> \/ new = <<>> \/ e[1] # new[1]
      BY <3>2
    <3> DEFINE P(x) == /\ CommonEntryPrefix(A \o x, A \o new) = Len(A)
                       /\ SubSeq(A \o new, Len(A) + 1, Len(A \o new)) = new
                       /\ Len(A \o new) = Len(A) + Len(new) /\ Len(A) \in Nat
    <3>4. e \in Seq(Entries) /\ new \in Seq(Entries) /\ A \in Seq(Entries)
      BY <1>2, <2>6, <3>2
    <3>5. P(e)
      <4> HIDE DEF common
      <4>. QED BY <3>3, <3>4, CommonFront
    <3> HIDE DEF P
    <3>6. P(<<>>)
      BY <3>2, <3>5
    <3>. QED BY <3>6 DEF P
  <2>9. A \o <<>> = A
    BY <1>2, ConcatEmptySeq
  <2>10. common = Len(A) /\ SubSeq(B, common + 1, Len(B)) = new /\ Len(B) = Len(A) + Len(new)
    BY <2>7, <2>8, <2>9
  <2>11. SubtractEntries(new, R) = D
    BY <1>2, SubtractFront DEF new
  <2>12. common \in Nat /\ common # 0 /\ common # Len(B)
    <3>1. Len(A) # 0
      BY <1>2, <2>3, EmptySeq
    <3>. QED BY <2>1, <2>5, <2>6, <2>8, <2>10, <3>1
  <2>13. SubtractEntries(SubSeq(B, common + 1, Len(B)), CollectEntries(p.output)) = CollectEntries(r.added)
    BY <2>10, <2>11 DEF R, D
  <2> HIDE DEF common
  <2>. QED BY <2>3, <2>4, <2>12, <2>13, NewExact
<1>. QED BY <1>4, <1>5

\* The request after a compaction that failed sends the conversation again.
LEMMA AfterFailedCompaction ==
  ASSUME NEW p, NEW r, Payloads(p), Payloads(r), CollectEntries(r.input) # <<>>, Adds(r.asks, r.added),
         NEW h \in Seq(Items), CollectEntries(h) # <<>>, p.input = h \o <<Trigger>>, p.output = Failed,
         r.input = h \o r.added, r.asks \in {"command", "retry", "compact"}
  PROVE  Exact(p, r)
<1> DEFINE H == CollectEntries(h)
           D == CollectEntries(r.added)
           B == CollectEntries(r.input)
           common == CommonEntryPrefix(CollectEntries(p.input), B)
<1>1. r.added \in Seq(Items) /\ <<Trigger>> \in Seq(Items)
  BY KnownItems DEF Payloads
<1>2. H \in Seq(Entries) /\ D \in Seq(Entries) /\ B = H \o D /\ B \in Seq(Entries)
  <2>1. CollectEntries(h \o r.added) = H \o D
    BY <1>1, EntriesConcat
  <2>. QED BY <1>1, <2>1, EntriesOf DEF Payloads
<1>3. CollectEntries(p.input) = H \o <<CompactionEntry>> /\ <<CompactionEntry>> \in Seq(Entries)
  <2>1. CollectEntries(h \o <<Trigger>>) = H \o CollectEntries(<<Trigger>>)
    BY <1>1, EntriesConcat
  <2>2. CollectEntries(<<Trigger>>) \in Seq(Entries)
    BY <1>1, EntriesOf
  <2>. QED BY <2>1, <2>2, EntriesKnown
<1>4. Gives(r.asks, D)
  BY AddedEntries
<1>5. CASE r.asks = "retry"
  <2>1. r.added = <<>>
    BY <1>5 DEF Adds
  <2>2. r.input = h
    BY <2>1, ConcatEmptySeq
  <2>3. IsPrefix(r.input, p.input)
    BY <1>1, <2>2, PrefixOfConcat
  <2>. QED BY <2>3, RepeatExact
<1>6. CASE r.asks = "compact"
  <2>1. r.input = p.input
    BY <1>6 DEF Adds
  <2>2. PICK s : s = p.input /\ s \in Seq(Items)
    BY DEF Payloads
  <2>3. s \o <<>> = s /\ <<>> \in Seq(Items)
    BY <2>2, ConcatEmptySeq
  <2>4. IsPrefix(s, s \o <<>>)
    BY <2>2, <2>3, PrefixOfConcat
  <2>5. IsPrefix(r.input, p.input)
    BY <2>1, <2>2, <2>3, <2>4
  <2>. QED BY <2>5, RepeatExact
<1>7. CASE r.asks = "command"
  <2>1. PICK c \in Commands : D = <<UserEntry(c)>>
    BY <1>4, <1>7 DEF Gives
  <2>2. D # <<>> /\ Len(D) = 1 /\ D[1] # CompactionEntry
    BY <2>1 DEF UserEntry, CompactionEntry
  <2>3. H # <<>> /\ B # <<>> /\ B = CollectEntries(r.input) /\ common = CommonEntryPrefix(CollectEntries(p.input), B)
    OBVIOUS
  <2> HIDE DEF H, D, B
  <2> DEFINE ce == <<CompactionEntry>>
  <2>4. ce \in Seq(Entries) /\ ce[1] # D[1]
    BY <1>3, <2>2
  <2> HIDE DEF ce
  <2>5. /\ CommonEntryPrefix(H \o ce, H \o D) = Len(H)
        /\ SubSeq(H \o D, Len(H) + 1, Len(H \o D)) = D
        /\ Len(H \o D) = Len(H) + Len(D) /\ Len(H) \in Nat
    BY <1>2, <2>4, CommonFront
  <2>6. common = Len(H) /\ SubSeq(B, common + 1, Len(B)) = D /\ Len(B) = Len(H) + 1
    BY <1>2, <1>3, <2>2, <2>5 DEF ce
  <2>7. SubtractEntries(D, CollectEntries(p.output)) = D
    <3>1. CollectEntries(p.output) = <<>>
      BY EntriesOfNothing DEF Failed
    <3>0. <<>> \in Seq(Entries)
      OBVIOUS
    <3>2. PICK e : e = <<>> /\ e \in Seq(Entries)
      BY <3>0
    <3>3. \A j \in 1..Len(e) : FALSE
      BY <3>2
    <3>4. SubtractEntries(D, e) = D
      BY <1>2, <3>2, <3>3, SubtractOther
    <3>. QED BY <3>1, <3>2, <3>4
  <2>8. common \in Nat /\ common # 0 /\ common # Len(B)
    <3>1. Len(H) # 0
      BY <1>2, <2>3, EmptySeq
    <3>. QED BY <2>5, <2>6, <3>1
  <2>9. SubtractEntries(SubSeq(B, common + 1, Len(B)), CollectEntries(p.output)) = CollectEntries(r.added)
    BY <2>6, <2>7 DEF D
  <2> HIDE DEF common
  <2>. QED BY <2>3, <2>8, <2>9, NewExact
<1>. QED BY <1>5, <1>6, <1>7

\* What follows a compaction: nothing, a command or the model's words.
Begins(g) ==
    \/ g = <<>>
    \/ \E c \in Commands : \E x \in Seq(Items) : g = <<Message("user", c)>> \o x
    \/ CollectEntries(g) # <<>> /\ CollectEntries(g)[1].role = "assistant"

\* A conversation after its first request: not compacted, or begun anew.
Shape(h) ==
    /\ h \in Seq(Items) /\ CollectEntries(h) # <<>>
    /\ \/ Plain(h)
       \/ \E g \in Seq(Items) : h = Compacted \o g /\ Plain(g) /\ Begins(g)

\* The first of a sequence is the first of any that begins with it.
LEMMA FirstOf ==
  ASSUME NEW V, NEW s \in Seq(V), NEW t \in Seq(V), s # <<>>
  PROVE  s \o t # <<>> /\ (s \o t)[1] = s[1] /\ s[1] \in ToSet(s)
<1>1. /\ (s \o t) \in Seq(V) /\ Len(s \o t) = Len(s) + Len(t) /\ Len(s) \in Nat /\ Len(t) \in Nat /\ DOMAIN s = 1..Len(s)
      /\ \A i \in 1..Len(s) : (s \o t)[i] = s[i]
  BY Joins DEF Two
<1>2. 1 \in 1..Len(s) /\ Len(s) > 0
  BY <1>1, EmptySeq
<1>3. Len(s \o t) > 0
  BY <1>1, <1>2
<1>. QED BY <1>1, <1>2, <1>3 DEF ToSet

\* After a compaction of a conversation that was not compacted before, all that
\* is common is gone.
LEMMA AfterFirstCompaction ==
  ASSUME NEW p, NEW r, Payloads(p), Payloads(r), CollectEntries(r.input) # <<>>, Adds(r.asks, r.added),
         NEW h \in Seq(Items), CollectEntries(h) # <<>>, Plain(h),
         p.input = h \o <<Trigger>>, p.output = Compacted,
         r.input = Compacted \o r.added, r.asks \in {"command", "resume"}
  PROVE  Exact(p, r)
<1> DEFINE H == CollectEntries(h)
           D == CollectEntries(r.added)
           B == CollectEntries(r.input)
           ce == <<CompactionEntry>>
           common == CommonEntryPrefix(CollectEntries(p.input), B)
<1>1. r.added \in Seq(Items) /\ <<Trigger>> \in Seq(Items) /\ Compacted \in Seq(Items)
  BY KnownItems DEF Payloads, Compacted
<1>2. H \in Seq(Entries) /\ D \in Seq(Entries) /\ ce \in Seq(Entries) /\ B \in Seq(Entries)
  <2>1. CollectEntries(Compacted) \in Seq(Entries)
    BY <1>1, EntriesOf
  <2>2. CollectEntries(Compacted) = ce
    BY EntriesKnown
  <2>. QED BY <1>1, <2>1, <2>2, EntriesOf DEF Payloads
<1>3. CollectEntries(p.input) = H \o ce /\ B = ce \o D
  <2>1. CollectEntries(h \o <<Trigger>>) = H \o CollectEntries(<<Trigger>>)
    BY <1>1, EntriesConcat
  <2>2. CollectEntries(Compacted \o r.added) = CollectEntries(Compacted) \o D
    BY <1>1, EntriesConcat
  <2>. QED BY <2>1, <2>2, EntriesKnown
<1>4. Len(D) <= 1 /\ Len(D) \in Nat
  <2>1. Gives(r.asks, D)
    BY AddedEntries
  <2>2. PICK d : d = D
    OBVIOUS
  <2>3. d = <<>> \/ Len(d) = 1
    BY <2>1, <2>2, GivesLen
  <2>4. Len(d) <= 1 /\ Len(d) \in Nat
    <3>1. Len(<<>>) = 0
      OBVIOUS
    <3>2. PICK n : n = Len(d)
      OBVIOUS
    <3>3. n = 0 \/ n = 1
      BY <2>3, <3>1, <3>2
    <3>4. n <= 1 /\ n \in Nat
      BY <3>3
    <3>. QED BY <3>2, <3>4
  <2>. QED BY <2>2, <2>4
<1>5. H # <<>> /\ B # <<>> /\ B = CollectEntries(r.input) /\ common = CommonEntryPrefix(CollectEntries(p.input), B)
      /\ CollectEntries(p.output) = ce /\ ce # <<>> /\ Len(ce) = 1 /\ ce[1] = CompactionEntry
  BY EntriesKnown
<1>6. \A e \in ToSet(H) : e.role # "compaction"
  BY PlainEntries
<1>7. CompactionEntry.role = "compaction"
  BY DEF CompactionEntry
<1> HIDE DEF H, D, B, ce
<1>8. (H \o ce)[1] # CompactionEntry
  <2>1. (H \o ce)[1] \in ToSet(H)
    BY <1>2, <1>5, FirstOf
  <2>. QED BY <1>6, <1>7, <2>1
<1>9. (ce \o D)[1] = CompactionEntry
  BY <1>2, <1>5, FirstOf
<1>10. Len(B) = 1 + Len(D) /\ H \o ce \in Seq(Entries)
  <2>1. Len(ce \o D) = Len(ce) + Len(D) /\ H \o ce \in Seq(Entries)
    BY <1>2, ConcatProperties
  <2>. QED BY <1>3, <1>5, <2>1
<1>11. common = 0
  <2>1. PICK a : a = H \o ce
    OBVIOUS
  <2>2. PartAt(a, B, 0)
    <3>1. 0 \in 0..Len(a) /\ 0 \in 0..Len(B) /\ \A i \in 1..0 : a[i] = B[i]
      BY <1>2, <1>10, <2>1
    <3>2. a[1] # B[1]
      BY <1>3, <1>8, <1>9, <2>1, Zenon
    <3>. QED BY <3>1, <3>2 DEF PartAt
  <2>. QED BY <1>2, <1>3, <1>10, <2>1, <2>2, CommonIs
<1> HIDE DEF common
<1>12. SubSeq(B, common + 1, Len(B)) = B
  <2>1. SubSeq(B, 1, Len(B)) = B
    BY <1>2, Whole
  <2>. QED BY <1>11, <2>1
<1>13. SubtractEntries(B, ce) = D
  BY <1>2, <1>3, SubtractFront
<1>14. SubtractEntries(SubSeq(B, common + 1, Len(B)), CollectEntries(p.output)) = CollectEntries(r.added)
  BY <1>5, <1>12, <1>13 DEF D
<1>15. common # Len(B) /\ common \in Nat /\ (common = 0 => Len(B) <= HistoryLimit)
  BY <1>4, <1>10, <1>11, HistoryAssumption
<1>. QED BY <1>5, <1>14, <1>15, NewExact

\* After a compaction of one that was: the same command as then is a repetition.
LEMMA AfterNextCompaction ==
  ASSUME NEW p, NEW r, Payloads(p), Payloads(r), CollectEntries(r.input) # <<>>, Adds(r.asks, r.added),
         NEW g \in Seq(Items), Plain(g), Begins(g),
         p.input = (Compacted \o g) \o <<Trigger>>, p.output = Compacted,
         r.input = Compacted \o r.added, r.asks \in {"command", "resume"}
  PROVE  Exact(p, r)
<1> DEFINE t == <<Trigger>>
           comp == Compacted
<1>1. r.added \in Seq(Items) /\ t \in Seq(Items) /\ comp \in Seq(Items)
  BY KnownItems DEF Payloads, Compacted
<1>2. p.input = (comp \o g) \o t /\ r.input = comp \o r.added
  OBVIOUS
<1> HIDE DEF t, comp
<1>3. p.input = comp \o (g \o t) /\ g \o t \in Seq(Items)
  <2>1. g \o t \in Seq(Items)
    BY <1>1, ConcatProperties
  <2>2. (comp \o g) \o t = comp \o (g \o t)
    <3>1. Three(comp, g, t, Items)
      BY <1>1 DEF Three
    <3>. QED BY <3>1, Regroup, SMTT(30)
  <2>. QED BY <1>2, <2>1, <2>2
<1>4. CASE r.asks = "resume"
  <2>1. r.added = <<>>
    BY <1>4 DEF Adds
  <2>2. r.input = comp
    BY <1>1, <1>2, <2>1, ConcatEmptySeq
  <2>3. IsPrefix(r.input, p.input)
    BY <1>1, <1>3, <2>2, PrefixOfConcat
  <2>. QED BY <2>3, RepeatExact
<1>5. ASSUME NEW c \in Commands, r.added = <<Message("user", c)>>, NEW x \in Seq(Items), g = <<Message("user", c)>> \o x
      PROVE  Exact(p, r)
  <2> DEFINE m == <<Message("user", c)>>
  <2>1. m \in Seq(Items) /\ r.added = m /\ g = m \o x
    BY <1>5, KnownItems
  <2> HIDE DEF m
  <2>2. x \o t \in Seq(Items) /\ g \o t = m \o (x \o t)
    <3>1. Three(m, x, t, Items)
      BY <1>1, <2>1 DEF Three
    <3>2. (m \o x) \o t = m \o (x \o t)
      BY <3>1, Regroup, SMTT(30)
    <3>3. x \o t \in Seq(Items)
      BY <1>1, ConcatProperties
    <3>. QED BY <2>1, <3>2, <3>3
  <2> DEFINE y == x \o t
  <2>3. y \in Seq(Items) /\ p.input = comp \o (m \o y)
    BY <1>3, <2>2
  <2> HIDE DEF y
  <2>4. comp \o (m \o y) = (comp \o m) \o y /\ comp \o m \in Seq(Items)
    <3>1. comp \o m \in Seq(Items)
      BY <1>1, <2>1, ConcatProperties
    <3>2. (comp \o m) \o y = comp \o (m \o y)
      <4>1. comp \in Seq(Items) /\ m \in Seq(Items) /\ y \in Seq(Items)
        BY <1>1, <2>1, <2>3
      <4>2. Three(comp, m, y, Items)
        BY <4>1 DEF Three
      <4>. QED BY <4>2, Regroup, SMTT(30)
    <3>. QED BY <3>1, <3>2
  <2>5. IsPrefix(comp \o m, (comp \o m) \o y)
    BY <2>3, <2>4, PrefixOfConcat
  <2>6. IsPrefix(r.input, p.input)
    BY <1>2, <2>1, <2>3, <2>4, <2>5
  <2>. QED BY <2>6, RepeatExact
<1>6. ASSUME NEW c \in Commands, r.added = <<Message("user", c)>>,
             \A x \in Seq(Items) : g # <<Message("user", c)>> \o x
      PROVE  Exact(p, r)
  <2> DEFINE G == CollectEntries(g)
             D == CollectEntries(r.added)
             B == CollectEntries(r.input)
             ce == <<CompactionEntry>>
             common == CommonEntryPrefix(CollectEntries(p.input), B)
  <2>1. CollectEntries(comp) = ce /\ CollectEntries(t) = ce /\ D = <<UserEntry(c)>>
    BY <1>6, EntriesKnown DEF comp, t
  <2>2. G \in Seq(Entries) /\ D \in Seq(Entries) /\ ce \in Seq(Entries) /\ B \in Seq(Entries)
    <3>1. CollectEntries(comp) \in Seq(Entries) /\ B \in Seq(Entries)
      BY <1>1, EntriesOf DEF Payloads
    <3>. QED BY <1>1, <2>1, <3>1, EntriesOf
  <2>3. CollectEntries(p.input) = ce \o (G \o ce) /\ B = ce \o D
    <3>1. CollectEntries(comp \o (g \o t)) = CollectEntries(comp) \o CollectEntries(g \o t)
      BY <1>1, <1>3, EntriesConcat
    <3>2. CollectEntries(g \o t) = G \o CollectEntries(t)
      BY <1>1, EntriesConcat
    <3>3. CollectEntries(comp \o r.added) = CollectEntries(comp) \o D
      BY <1>1, EntriesConcat
    <3>. QED BY <1>2, <1>3, <2>1, <3>1, <3>2, <3>3
  <2>4. UserEntry(c) # CompactionEntry /\ UserEntry(c).role = "user"
        /\ \A d \in Commands : UserEntry(d) = UserEntry(c) => d = c
    BY DEF UserEntry, CompactionEntry
  <2>5. D # <<>> /\ Len(D) = 1 /\ D[1] = UserEntry(c)
        /\ ce # <<>> /\ Len(ce) = 1 /\ ce[1] = CompactionEntry
    BY <2>1
  <2>6. B # <<>> /\ B = CollectEntries(r.input) /\ common = CommonEntryPrefix(CollectEntries(p.input), B)
        /\ CollectEntries(p.output) = ce
    BY EntriesKnown
  <2>7. G = <<>> \/ G[1] # UserEntry(c)
    <3>1. CASE g = <<>>
      BY <3>1, EntriesOfNothing
    <3>2. CASE \E d \in Commands : \E x \in Seq(Items) : g = <<Message("user", d)>> \o x
      <4>1. PICK d \in Commands, x \in Seq(Items) : g = <<Message("user", d)>> \o x
        BY <3>2
      <4>2. d # c
        BY <1>6, <4>1
      <4> DEFINE m == <<Message("user", d)>>
                 X == CollectEntries(x)
                 ue == <<UserEntry(d)>>
      <4>3. m \in Seq(Items) /\ g = m \o x /\ CollectEntries(m) = ue
        BY <4>1, KnownItems, EntriesKnown
      <4> HIDE DEF m
      <4>4. G = ue \o X /\ ue \in Seq(Entries) /\ X \in Seq(Entries)
        <5>1. CollectEntries(m \o x) = CollectEntries(m) \o X
          BY <4>3, EntriesConcat
        <5>2. CollectEntries(m) \in Seq(Entries) /\ X \in Seq(Entries)
          BY <4>3, EntriesOf
        <5>. QED BY <4>3, <5>1, <5>2
      <4>5. ue # <<>> /\ ue[1] = UserEntry(d)
        OBVIOUS
      <4> HIDE DEF ue, X, G
      <4>6. G[1] = UserEntry(d)
        BY <4>4, <4>5, FirstOf
      <4>. QED BY <2>4, <4>2, <4>6
    <3>3. CASE G # <<>> /\ G[1].role = "assistant"
      BY <2>4, <3>3
    <3>. QED BY <3>1, <3>2, <3>3 DEF Begins
  <2> HIDE DEF G, D, B, ce
  <2> DEFINE z == G \o ce
  <2>8. z \in Seq(Entries) /\ z[1] # D[1]
    <3>1. z \in Seq(Entries)
      BY <2>2, ConcatProperties
    <3>2. CASE G = <<>>
      <4>1. z = ce
        BY <2>2, <3>2, ConcatEmptySeq
      <4>. QED BY <2>4, <2>5, <3>1, <4>1
    <3>3. CASE G # <<>> /\ G[1] # UserEntry(c)
      <4>1. z[1] = G[1]
        BY <2>2, <3>3, FirstOf
      <4>. QED BY <2>5, <3>1, <3>3, <4>1
    <3>. QED BY <2>7, <3>2, <3>3
  <2>9. CollectEntries(p.input) = ce \o z
    BY <2>3
  <2> HIDE DEF z
  <2>10. /\ CommonEntryPrefix(ce \o z, ce \o D) = Len(ce)
         /\ SubSeq(ce \o D, Len(ce) + 1, Len(ce \o D)) = D
         /\ Len(ce \o D) = Len(ce) + Len(D)
    <3> HIDE DEF common
    <3>1. z \in Seq(Entries) /\ D \in Seq(Entries) /\ ce \in Seq(Entries) /\ (z = <<>> \/ D = <<>> \/ z[1] # D[1])
      BY <2>2, <2>8
    <3>. QED BY <3>1, CommonFront
  <2>11. common = Len(ce) /\ SubSeq(B, common + 1, Len(B)) = D /\ Len(B) = 2 /\ common = 1
    <3>1. common = CommonEntryPrefix(ce \o z, ce \o D) /\ B = ce \o D
      BY <2>3, <2>9
    <3> HIDE DEF common
    <3>2. common = 1 /\ Len(B) = 2 /\ common = Len(ce)
      BY <2>5, <2>10, <3>1
    <3>. QED BY <2>10, <3>1, <3>2
  <2>12. SubtractEntries(D, ce) = D
    <3>1. \A i \in 1..Len(D) : \A j \in 1..Len(ce) : ce[j] # D[i]
      BY <2>4, <2>5
    <3>. QED BY <2>2, <3>1, SubtractOther
  <2> HIDE DEF common
  <2>13. SubtractEntries(SubSeq(B, common + 1, Len(B)), CollectEntries(p.output)) = CollectEntries(r.added)
    BY <2>6, <2>11, <2>12 DEF D
  <2>14. common # Len(B) /\ common \in Nat /\ (common = 0 => Len(B) <= HistoryLimit)
    BY <2>11
  <2>. QED BY <2>6, <2>13, <2>14, NewExact
<1>7. r.asks = "command" => \E c \in Commands : r.added = <<Message("user", c)>>
  BY DEF Adds
<1>. QED BY <1>4, <1>5, <1>6, <1>7

\* The kind a request states.
LEMMA StatedKind ==
  RequestKind(NoText) = "turn" /\ RequestKind("compact") = "compaction"
<1>1. RequestKind(NoText) = "turn"
  <2>1. NoText # "compact"
    BY DEF NoText
  <2>. QED BY <2>1, Zenon DEF RequestKind
<1>2. RequestKind("compact") = "compaction"
  <2>1. "compact" # NoText
    BY DEF NoText
  <2>. QED BY <2>1, Zenon DEF RequestKind
<1>. QED BY <1>1, <1>2

\* The roles of what a request adds.
LEMMA GivesRoles ==
  ASSUME NEW asks, NEW D, Gives(asks, D)
  PROVE  /\ ContainsRole(D, "compaction") <=> asks = "compact"
         /\ ContainsRole(D, "user") <=> asks = "command"
         /\ ContainsRole(D, "tool_result") <=> asks = "continue"
         /\ \A role : ~ContainsRole(<<>>, role)
<1>1. \A role : ~ContainsRole(<<>>, role)
  BY DEF ContainsRole
<1>2. ASSUME NEW e, NEW role PROVE ContainsRole(<<e>>, role) <=> e.role = role
  <2>1. DOMAIN <<e>> = {1} /\ <<e>>[1] = e
    OBVIOUS
  <2>. QED BY <2>1 DEF ContainsRole
<1>3. /\ \A c : UserEntry(c).role = "user" 
      /\ \A n : ResultEntry(n).role = "tool_result"
      /\ CompactionEntry.role = "compaction"
  BY DEF UserEntry, ResultEntry, CompactionEntry
<1>. QED BY <1>1, <1>2, <1>3 DEF Gives

\* What every request is.
Form(r) ==
    /\ CollectEntries(r.input) # <<>> /\ Adds(r.asks, r.added)
    /\ r.kind \in {NoText, "compact"} /\ (r.kind = "compact" => r.asks = "compact")

\* A request that is told exactly shows what it added, under its true kind.
LEMMA LaterTimeline ==
  ASSUME NEW records, NEW k \in Nat, k > 1, records[k] = made[k], records[k - 1] = made[k - 1],
         Payloads(made[k]), Payloads(made[k - 1]), Form(made[k]), Exact(made[k - 1], made[k])
  PROVE  /\ RequestTimeline(records, k).entries = TrueDelta(k) \o CollectEntries(made[k].output)
         /\ RequestTimeline(records, k).kind = TrueKind(k)
<1>1. PICK common, delta, kind, cut : Parts(records, k, common, delta, kind, cut)
  BY TimelineParts
<1> DEFINE B == CollectEntries(made[k].input)
           D == CollectEntries(made[k].added)
           E == CollectEntries(made[k].output)
           stated == RequestKind(made[k].kind)
           rep == IsPrefix(made[k].input, made[k - 1].input)
<1>2. k # 1 /\ k \in Nat \ {0}
  OBVIOUS
<1>3. /\ common = CommonEntryPrefix(CollectEntries(made[k - 1].input), B)
      /\ delta = SubtractEntries(SubSeq(B, common + 1, Len(B)), CollectEntries(made[k - 1].output))
      /\ kind = TimelineKind(stated, FALSE, common, B, delta)
      /\ cut = IF kind \in {"history_snapshot", "context_rebuild"} /\ Len(delta) > HistoryLimit
               THEN Len(delta) - HistoryLimit ELSE 0
      /\ RequestTimeline(records, k) =
              [kind |-> kind, history |-> common + cut, cut |-> SubSeq(delta, 1, cut),
               entries |-> SubSeq(delta, cut + 1, Len(delta)) \o E]
  <2>1. (k = 1) = FALSE
    BY <1>2
  <2>. QED BY <1>1, <2>1, ZenonT(40) DEF Parts
<1>4. /\ B # <<>> /\ common \in Nat
      /\ common = Len(B) <=> rep
      /\ delta = IF rep THEN <<>> ELSE D
      /\ common = 0 => Len(B) <= HistoryLimit
  BY <1>3, Zenon DEF Exact
<1>5. Gives(made[k].asks, D)
  BY AddedEntries DEF Form
<1>6. /\ made[k].kind = "compact" => stated = "compaction" /\ made[k].asks = "compact"
      /\ made[k].kind # "compact" => stated = "turn"
  BY StatedKind DEF Form
<1>7. Repeats(k) <=> rep
  BY DEF Repeats
<1>8. D \in Seq(Entries) /\ E \in Seq(Entries) /\ B \in Seq(Entries)
  BY EntriesOf DEF Payloads
<1>9. TrueKind(k) = IF made[k].kind = "compact" THEN "compaction"
                    ELSE IF rep THEN "retry"
                    ELSE IF made[k].asks = "compact" THEN "compaction"
                    ELSE IF made[k].asks = "continue" THEN "tool_continuation" ELSE "turn"
  BY <1>2, <1>7, Zenon DEF TrueKind
<1>10. TrueKind(k) # "history_snapshot"
  BY <1>9
<1>11. TrueDelta(k) = IF rep THEN <<>> ELSE D
  BY <1>2, <1>7, <1>10, Zenon DEF TrueDelta
<1> HIDE DEF B, D, E, stated, rep
<1>12. kind = IF stated = "compaction" \/ ContainsRole(delta, "compaction") THEN "compaction"
              ELSE IF B # <<>> /\ common = Len(B) THEN "retry"
              ELSE IF common = 0 /\ Len(B) > HistoryLimit THEN "context_rebuild"
              ELSE IF ~ContainsRole(delta, "user") /\ ContainsRole(delta, "tool_result") THEN "tool_continuation"
              ELSE stated
  BY <1>3, Zenon DEF TimelineKind
<1>13. ~(common = 0 /\ Len(B) > HistoryLimit)
  <2>1. Len(B) \in Nat /\ HistoryLimit \in Nat
    BY <1>8, HistoryAssumption
  <2>. QED BY <1>4, <2>1
<1>14. /\ ContainsRole(D, "compaction") <=> made[k].asks = "compact"
       /\ ContainsRole(D, "user") <=> made[k].asks = "command"
       /\ ContainsRole(D, "tool_result") <=> made[k].asks = "continue"
       /\ \A role : ~ContainsRole(<<>>, role)
  BY <1>5, GivesRoles
<1>15. kind = TrueKind(k)
  <2>1. CASE rep
    <3>1. delta = <<>>
      BY <1>4, <2>1
    <3>. QED BY <1>4, <1>6, <1>9, <1>12, <1>14, <2>1, <3>1, Zenon
  <2>2. CASE ~rep
    <3>1. delta = D
      BY <1>4, <2>2
    <3>2. CASE made[k].kind = "compact"
      BY <1>6, <1>9, <1>12, <3>2, Zenon
    <3>3. CASE made[k].kind # "compact"
      <4>1. stated = "turn" /\ stated # "compaction"
        BY <1>6, <3>3
      <4>2. ~(B # <<>> /\ common = Len(B))
        BY <1>4, <2>2
      <4>3. kind = IF made[k].asks = "compact" THEN "compaction"
                   ELSE IF ~(made[k].asks = "command") /\ made[k].asks = "continue" THEN "tool_continuation"
                   ELSE "turn"
        BY <1>12, <1>13, <1>14, <3>1, <4>1, <4>2, Zenon
      <4>. QED BY <1>9, <2>2, <3>3, <4>3
    <3>. QED BY <3>2, <3>3
  <2>. QED BY <2>1, <2>2
<1>16. cut = 0
  <2>1. kind \notin {"history_snapshot", "context_rebuild"}
    BY <1>9, <1>15
  <2>. QED BY <1>3, <2>1
<1>17. delta = TrueDelta(k) /\ delta \in Seq(Entries)
  <2>1. <<>> \in Seq(Entries)
    OBVIOUS
  <2>. QED BY <1>4, <1>8, <1>11, <2>1
<1>18. SubSeq(delta, cut + 1, Len(delta)) = delta
  <2>1. SubSeq(delta, 1, Len(delta)) = delta
    BY <1>17, Whole
  <2>. QED BY <1>16, <2>1
<1>19. RequestTimeline(records, k).entries = delta \o E /\ RequestTimeline(records, k).kind = kind
  <2>1. PICK a, b, c : a = common + cut /\ b = SubSeq(delta, 1, cut) /\ c = SubSeq(delta, cut + 1, Len(delta)) \o E
    OBVIOUS
  <2>2. RequestTimeline(records, k) = [kind |-> kind, history |-> a, cut |-> b, entries |-> c]
    BY <1>3, <2>1
  <2>3. RequestTimeline(records, k).entries = c /\ RequestTimeline(records, k).kind = kind
    BY <2>2
  <2>. QED BY <1>18, <2>1, <2>3
<1>. QED BY <1>15, <1>17, <1>19 DEF E

\* The first request shows its history, the end of it when it is long.
LEMMA FirstTimeline ==
  ASSUME NEW records, records[1] = made[1], Payloads(made[1]), Form(made[1]), made[1].asks = "command",
         NEW h \in Seq(Items), Plain(h), made[1].input = h \o made[1].added
  PROVE  /\ RequestTimeline(records, 1).entries = TrueDelta(1) \o CollectEntries(made[1].output)
         /\ RequestTimeline(records, 1).kind = TrueKind(1)
<1>1. PICK common, delta, kind, cut : Parts(records, 1, common, delta, kind, cut)
  BY TimelineParts
<1> DEFINE H == CollectEntries(h)
           B == CollectEntries(made[1].input)
           D == CollectEntries(made[1].added)
           E == CollectEntries(made[1].output)
           stated == RequestKind(made[1].kind)
<1>2. /\ delta = SubtractEntries(SubSeq(B, common + 1, Len(B)), <<>>)
      /\ common = 0
      /\ kind = TimelineKind(stated, TRUE, common, B, delta)
      /\ cut = IF kind \in {"history_snapshot", "context_rebuild"} /\ Len(delta) > HistoryLimit
               THEN Len(delta) - HistoryLimit ELSE 0
      /\ RequestTimeline(records, 1) =
              [kind |-> kind, history |-> common + cut, cut |-> SubSeq(delta, 1, cut),
               entries |-> SubSeq(delta, cut + 1, Len(delta)) \o E]
  BY <1>1 DEF Parts
<1>3. made[1].kind # "compact" /\ stated = "turn"
  BY StatedKind DEF Form
<1>4. H \in Seq(Entries) /\ D \in Seq(Entries) /\ E \in Seq(Entries) /\ B \in Seq(Entries) /\ B = H \o D
  <2>1. made[1].added \in Seq(Items)
    BY DEF Payloads
  <2>2. CollectEntries(h \o made[1].added) = H \o D
    BY <2>1, EntriesConcat
  <2>. QED BY <2>1, <2>2, EntriesOf DEF Payloads
<1>5. Gives("command", D)
  BY AddedEntries DEF Form
<1>6. PICK c \in Commands : D = <<UserEntry(c)>>
  BY <1>5 DEF Gives
<1>7. \A e \in ToSet(H) : e.role # "compaction"
  BY PlainEntries
<1>8. ~Repeats(1)
  BY DEF Repeats
<1>9. TrueKind(1) = IF Len(B) > HistoryLimit THEN "history_snapshot" ELSE "turn"
  BY <1>3, <1>8, Zenon DEF TrueKind
<1>10. TrueDelta(1) = IF TrueKind(1) = "history_snapshot" THEN SubSeq(B, Len(B) - HistoryLimit + 1, Len(B)) ELSE B
  BY <1>8, Zenon DEF TrueDelta
<1> HIDE DEF H, B, D, E, stated
<1>11. delta = B
  <2>1. SubSeq(B, 1, Len(B)) = B
    BY <1>4, Whole
  <2>2. SubtractEntries(B, <<>>) = B
    <3>1. <<>> \in Seq(Entries)
      OBVIOUS
    <3>2. PICK e : e = <<>> /\ e \in Seq(Entries)
      BY <3>1
    <3>3. \A j \in 1..Len(e) : FALSE
      BY <3>2
    <3>4. SubtractEntries(B, e) = B
      BY <1>4, <3>2, <3>3, SubtractOther
    <3>. QED BY <3>2, <3>4
  <2>3. common + 1 = 1
    BY <1>2
  <2>4. delta = SubtractEntries(SubSeq(B, common + 1, Len(B)), <<>>)
    BY <1>2
  <2>5. delta = SubtractEntries(SubSeq(B, 1, Len(B)), <<>>)
    BY <2>3, <2>4, Zenon
  <2>. QED BY <2>1, <2>2, <2>5, Zenon
<1>12. ToSet(B) = ToSet(H) \cup ToSet(D) /\ DOMAIN B = 1..Len(B) /\ Len(B) \in Nat
  BY <1>4, MembersOfConcat
<1>13. ToSet(D) = {UserEntry(c)} /\ UserEntry(c).role = "user"
  BY <1>6 DEF ToSet, UserEntry
<1>14. ContainsRole(B, "user") /\ ~ContainsRole(B, "compaction")
  <2>1. UserEntry(c) \in ToSet(B)
    BY <1>12, <1>13
  <2>2. \A e \in ToSet(B) : e.role # "compaction"
    BY <1>7, <1>12, <1>13
  <2>. QED BY <1>13, <2>1, <2>2 DEF ContainsRole, ToSet
<1>15. kind = IF Len(B) > HistoryLimit THEN "history_snapshot" ELSE "turn"
  BY <1>2, <1>3, <1>11, <1>14 DEF TimelineKind
<1>16. SubSeq(delta, cut + 1, Len(delta)) = TrueDelta(1)
  <2>1. CASE Len(B) > HistoryLimit
    <3>1. cut = Len(B) - HistoryLimit /\ kind = "history_snapshot"
      BY <1>2, <1>11, <1>15, <2>1
    <3>. QED BY <1>9, <1>10, <1>11, <2>1, <3>1
  <2>2. CASE ~(Len(B) > HistoryLimit)
    <3>1. cut = 0 /\ kind = "turn"
      BY <1>2, <1>15, <2>2
    <3>2. SubSeq(B, 1, Len(B)) = B
      BY <1>4, Whole
    <3>. QED BY <1>9, <1>10, <1>11, <2>2, <3>1, <3>2
  <2>. QED BY <2>1, <2>2
<1>17. RequestTimeline(records, 1).entries = SubSeq(delta, cut + 1, Len(delta)) \o E /\ RequestTimeline(records, 1).kind = kind
  <2>1. PICK a, b, d : a = common + cut /\ b = SubSeq(delta, 1, cut) /\ d = SubSeq(delta, cut + 1, Len(delta)) \o E
    OBVIOUS
  <2>2. RequestTimeline(records, 1) = [kind |-> kind, history |-> a, cut |-> b, entries |-> d]
    BY <1>2, <2>1
  <2>3. RequestTimeline(records, 1).entries = d /\ RequestTimeline(records, 1).kind = kind
    BY <2>2
  <2>. QED BY <2>1, <2>3
<1>. QED BY <1>9, <1>15, <1>16, <1>17 DEF E

-----------------------------------------------------------------------------
(* The conversation of a client.                                            *)

\* What may be sent is no compaction, except where one is asked for.
LEMMA PlainAdds ==
  ASSUME NEW asks, NEW added, Adds(asks, added), asks # "compact"
  PROVE  Plain(added)
<1>1. \A x : DOMAIN <<x>> = {1} /\ <<x>>[1] = x
  OBVIOUS
<1>2. DOMAIN <<>> = {}
  OBVIOUS
<1>3. \A c : Message("user", c).type = "message"
  BY DEF Message
<1>4. \A n : ToolResult(n).type = "function_call_output"
  BY DEF ToolResult, ItemOf
<1>. QED BY <1>1, <1>2, <1>3, <1>4 DEF Adds, Plain

\* Nor is what the model answers.
LEMMA PlainAnswer ==
  ASSUME NEW n, NEW output \in Answers(n)
  PROVE  Plain(output)
<1>1. \A x, y : /\ DOMAIN <<x, y>> = {1, 2} /\ <<x, y>>[1] = x /\ <<x, y>>[2] = y
  OBVIOUS
<1>2. DOMAIN <<>> = {}
  OBVIOUS
<1>3. \A role, text : Message(role, text).type = "message"
  BY DEF Message
<1>4. \A type, call : ItemOf(type, call).type = type
  BY DEF ItemOf
<1>. QED BY <1>1, <1>2, <1>3, <1>4 DEF Answers, Failed, Reply, CallOf, Plain

\* Two conversations without compactions in a row.
LEMMA PlainConcat ==
  ASSUME NEW s \in Seq(Items), NEW t \in Seq(Items), Plain(s), Plain(t)
  PROVE  Plain(s \o t) /\ s \o t \in Seq(Items)
<1>1. Two(s, t, Items)
  BY DEF Two
<1>2. /\ s \o t \in Seq(Items) /\ DOMAIN s = 1..Len(s) /\ DOMAIN t = 1..Len(t)
      /\ DOMAIN (s \o t) = 1..(Len(s) + Len(t)) /\ Len(s) \in Nat /\ Len(t) \in Nat
      /\ \A i \in 1..Len(s) : (s \o t)[i] = s[i]
      /\ \A i \in 1..(Len(s) + Len(t)) :
            i \in 1..Len(s) \/ (i - Len(s) \in 1..Len(t) /\ (s \o t)[i] = t[i - Len(s)])
  BY <1>1, Joins
<1> DEFINE u == s \o t
<1> HIDE DEF u
<1>3. ASSUME NEW i \in DOMAIN u PROVE u[i].type \notin {"compaction", "compaction_trigger"}
  <2>1. \/ i \in DOMAIN s /\ u[i] = s[i]
        \/ i - Len(s) \in DOMAIN t /\ u[i] = t[i - Len(s)]
    BY <1>2, <1>3 DEF u
  <2>. QED BY <2>1 DEF Plain
<1>. QED BY <1>2, <1>3 DEF Plain, u

\* The model's words, or a command, or nothing follow a compaction.
LEMMA BeginsAnswer ==
  ASSUME NEW asks, NEW added, Adds(asks, added), asks \in {"command", "retry", "resume"},
         NEW n \in Nat, NEW output \in Answers(n)
  PROVE  Begins(added \o output)
<1>1. output \in Seq(Items)
  BY AnswerFacts
<1>2. CASE asks = "command"
  BY <1>1, <1>2 DEF Adds, Begins
<1>3. CASE asks # "command"
  <2>1. added = <<>>
    BY <1>3 DEF Adds
  <2>2. added \o output = output
    BY <1>1, <2>1, ConcatEmptySeq
  <2>3. ReplyEntry.role = "assistant" /\ <<ReplyEntry>> # <<>> /\ <<ReplyEntry>>[1] = ReplyEntry
    BY DEF ReplyEntry
  <2>4. CASE output = Failed
    BY <2>2, <2>4 DEF Begins, Failed
  <2>5. CASE output = Reply
    <3>1. Reply = <<ItemOf("reasoning", 0)>> \o <<Message("assistant", "reply")>>
      BY DEF Reply
    <3>2. <<ItemOf("reasoning", 0)>> \in Seq(Items) /\ <<Message("assistant", "reply")>> \in Seq(Items)
      BY KnownItems
    <3>3. CollectEntries(Reply) = CollectEntries(<<ItemOf("reasoning", 0)>>) \o CollectEntries(<<Message("assistant", "reply")>>)
      BY <3>1, <3>2, EntriesConcat
    <3>4. CollectEntries(Reply) = <<>> \o <<ReplyEntry>>
      BY <3>3, EntriesKnown
    <3>5. \A x : <<>> \o <<x>> = <<x>>
      OBVIOUS
    <3>6. CollectEntries(Reply) = <<ReplyEntry>>
      BY <3>4, <3>5
    <3>. QED BY <2>2, <2>3, <2>5, <3>6 DEF Begins
  <2>6. CASE output = CallOf(n)
    <3>1. CallOf(n) = <<Message("assistant", "reply")>> \o <<ItemOf("function_call", n)>>
      BY DEF CallOf
    <3>2. <<ItemOf("function_call", n)>> \in Seq(Items) /\ <<Message("assistant", "reply")>> \in Seq(Items)
      BY KnownItems
    <3>3. CollectEntries(CallOf(n)) = CollectEntries(<<Message("assistant", "reply")>>) \o CollectEntries(<<ItemOf("function_call", n)>>)
      BY <3>1, <3>2, EntriesConcat
    <3>4. PICK x \in Seq(Entries) : CollectEntries(CallOf(n)) = <<ReplyEntry>> \o x
      BY <3>2, <3>3, EntriesKnown, EntriesOf
    <3>5. <<ReplyEntry>> \in Seq(Entries)
      BY <3>2, EntriesKnown, EntriesOf
    <3>6. <<ReplyEntry>> \o x # <<>> /\ (<<ReplyEntry>> \o x)[1] = <<ReplyEntry>>[1]
      <4>1. PICK s : s = <<ReplyEntry>> /\ s \in Seq(Entries) /\ s # <<>>
        BY <2>3, <3>5
      <4>2. s \o x # <<>> /\ (s \o x)[1] = s[1]
        BY <4>1, FirstOf
      <4>. QED BY <4>1, <4>2
    <3>. QED BY <2>2, <2>3, <2>6, <3>4, <3>6 DEF Begins
  <2>. QED BY <2>4, <2>5, <2>6 DEF Answers
<1>. QED BY <1>2, <1>3

\* A conversation that goes on keeps its shape.
LEMMA ShapeGrows ==
  ASSUME NEW h, Shape(h), NEW x \in Seq(Items), Plain(x), h = Compacted => Begins(x)
  PROVE  Shape(h \o x)
<1>1. h \in Seq(Items) /\ CollectEntries(h) # <<>>
  BY DEF Shape
<1>2. h \o x \in Seq(Items)
  BY <1>1, ConcatProperties
<1>3. CollectEntries(h \o x) # <<>>
  <2>1. PICK a, b : a = CollectEntries(h) /\ b = CollectEntries(x) /\ CollectEntries(h \o x) = a \o b
    BY <1>1, EntriesConcat
  <2>2. a \in Seq(Entries) /\ b \in Seq(Entries) /\ a # <<>>
    BY <1>1, <2>1, EntriesOf
  <2>3. a \o b # <<>>
    BY <2>2, FirstOf
  <2>. QED BY <2>1, <2>3
<1>4. CASE Plain(h)
  <2>1. Plain(h \o x)
    BY <1>1, <1>4, PlainConcat
  <2>. QED BY <1>2, <1>3, <2>1 DEF Shape
<1>5. CASE ~Plain(h)
  <2>1. PICK g \in Seq(Items) : h = Compacted \o g /\ Plain(g) /\ Begins(g)
    BY <1>5 DEF Shape
  <2>2. Plain(g \o x) /\ g \o x \in Seq(Items)
    BY <2>1, PlainConcat
  <2>3. Compacted \in Seq(Items)
    BY KnownItems DEF Compacted
  <2>4. h \o x = Compacted \o (g \o x)
    <3>1. Three(Compacted, g, x, Items)
      BY <2>1, <2>3 DEF Three
    <3>2. (Compacted \o g) \o x = Compacted \o (g \o x)
      BY <3>1, Regroup, SMTT(30)
    <3>. QED BY <2>1, <3>2
  <2>5. Begins(g \o x)
    <3>1. CASE g = <<>>
      <4>1. Compacted \o <<>> = Compacted /\ <<>> \o x = x
        BY <2>3, ConcatEmptySeq
      <4>2. h = Compacted
        BY <2>1, <3>1, <4>1
      <4>. QED BY <3>1, <4>1, <4>2
    <3>2. ASSUME NEW c \in Commands, NEW y \in Seq(Items), g = <<Message("user", c)>> \o y
          PROVE  Begins(g \o x)
      <4>1. Three(<<Message("user", c)>>, y, x, Items)
        BY KnownItems DEF Three
      <4>2. g \o x = <<Message("user", c)>> \o (y \o x)
        BY <3>2, <4>1, Regroup, SMTT(30)
      <4>3. y \o x \in Seq(Items)
        BY ConcatProperties
      <4>. QED BY <4>2, <4>3 DEF Begins
    <3>3. CASE CollectEntries(g) # <<>> /\ CollectEntries(g)[1].role = "assistant"
      <4>1. PICK a, b : a = CollectEntries(g) /\ b = CollectEntries(x) /\ CollectEntries(g \o x) = a \o b
        BY <2>1, EntriesConcat
      <4>2. a \in Seq(Entries) /\ b \in Seq(Entries) /\ a # <<>>
        BY <2>1, <3>3, <4>1, EntriesOf
      <4>3. a \o b # <<>> /\ (a \o b)[1] = a[1]
        BY <4>2, FirstOf
      <4>. QED BY <3>3, <4>1, <4>3 DEF Begins
    <3>. QED BY <2>1, <3>1, <3>2, <3>3 DEF Begins
  <2>. QED BY <1>2, <1>3, <2>1, <2>2, <2>4, <2>5 DEF Shape
<1>. QED BY <1>4, <1>5

\* The first conversation has one.
LEMMA ShapeBegins ==
  ASSUME NEW h \in Seq(Items), NEW x \in Seq(Items), Plain(h), Plain(x), CollectEntries(x) # <<>>
  PROVE  Shape(h \o x)
<1>1. Plain(h \o x) /\ h \o x \in Seq(Items)
  BY PlainConcat
<1>2. CollectEntries(h \o x) # <<>>
  <2>1. PICK a, b : a = CollectEntries(h) /\ b = CollectEntries(x) /\ CollectEntries(h \o x) = a \o b
    BY EntriesConcat
  <2>2. a \in Seq(Entries) /\ b \in Seq(Entries) /\ b # <<>>
    BY <2>1, EntriesOf
  <2>3. Two(a, b, Entries)
    BY <2>2 DEF Two
  <2>4. Len(a \o b) = Len(a) + Len(b) /\ Len(a) \in Nat /\ Len(b) \in Nat
    BY <2>3, Joins
  <2>5. Len(b) # 0
    BY <2>2
  <2>6. Len(a \o b) # 0
    BY <2>4, <2>5
  <2>7. a \o b # <<>>
    BY <2>6
  <2>. QED BY <2>1, <2>7
<1>. QED BY <1>1, <1>2 DEF Shape

\* What the client holds after request p.
After(p, c) ==
    \/ /\ p.asks # "compact" /\ c.mode # "compacted" /\ (c.mode = "failed" => p.output = Failed)
       /\ c.history = p.input \o p.output
    \/ /\ p.asks = "compact" /\ p.output = Failed /\ c.mode \in {"idle", "failed"}
       /\ p.input = c.history \o <<Trigger>>
    \/ /\ p.asks = "compact" /\ p.output = Compacted /\ c.mode = "compacted" /\ c.history = Compacted
       /\ \E h \in Seq(Items) : p.input = h \o <<Trigger>> /\ Shape(h)

\* The first request is a command after an old conversation, each is told
\* exactly by what it shares with the one before it, and the client holds what
\* the last one leaves.
Converses(m, c) ==
    /\ m = <<>> => Plain(c.history)
    /\ m # <<>> =>
          /\ Shape(c.history) /\ After(m[Len(m)], c) /\ m[1].asks = "command"
          /\ \E h \in Seq(Items) : Plain(h) /\ m[1].input = h \o m[1].added
    /\ \A i \in DOMAIN m : Form(m[i]) /\ (i > 1 => Exact(m[i - 1], m[i]))
Conversing == Converses(made, client)

\* A request that follows another is told exactly.
LEMMA FollowsExactly ==
  ASSUME NEW p, NEW r, Payloads(p), Payloads(r), CollectEntries(p.input) # <<>>, Form(r),
         Shape(client.history), After(p, client), May(r.asks), r.input = client.history \o r.added
  PROVE  Exact(p, r)
<1>1. CollectEntries(r.input) # <<>> /\ Adds(r.asks, r.added)
  BY DEF Form
<1>2. PICK h : h = client.history /\ h \in Seq(Items) /\ CollectEntries(h) # <<>>
  BY DEF Shape
<1>3. CASE p.asks # "compact"
  <2>1. client.mode # "compacted" /\ (client.mode = "failed" => p.output = Failed) /\ h = p.input \o p.output
    BY <1>2, <1>3 DEF After
  <2>2. r.asks # "resume" /\ (r.asks = "retry" => p.output = Failed)
    BY <2>1 DEF May
  <2>3. r.input = (p.input \o p.output) \o r.added
    BY <1>2, <2>1
  <2>. QED BY <1>1, <2>2, <2>3, AfterAnswer
<1>4. CASE p.asks = "compact" /\ p.output = Failed
  <2>1. client.mode \in {"idle", "failed"} /\ p.input = h \o <<Trigger>>
    BY <1>2, <1>4 DEF After, Failed, Compacted
  <2>2. r.asks \in {"command", "retry", "compact"}
    BY <2>1 DEF May
  <2>3. r.input = h \o r.added
    BY <1>2
  <2>. QED BY <1>1, <1>2, <1>4, <2>1, <2>2, <2>3, AfterFailedCompaction
<1>5. CASE p.asks = "compact" /\ p.output # Failed
  <2>1. p.output = Compacted /\ client.mode = "compacted" /\ h = Compacted
    BY <1>2, <1>5 DEF After
  <2>2. PICK old \in Seq(Items) : p.input = old \o <<Trigger>> /\ Shape(old)
    BY <1>5 DEF After
  <2>3. r.asks \in {"command", "resume"}
    BY <2>1 DEF May
  <2>4. r.input = Compacted \o r.added
    BY <1>2, <2>1
  <2>5. CollectEntries(old) # <<>>
    BY <2>2 DEF Shape
  <2>6. CASE Plain(old)
    BY <1>1, <2>1, <2>2, <2>3, <2>4, <2>5, <2>6, AfterFirstCompaction
  <2>7. CASE ~Plain(old)
    <3>1. PICK g \in Seq(Items) : old = Compacted \o g /\ Plain(g) /\ Begins(g)
      BY <2>2, <2>7 DEF Shape
    <3>2. p.input = (Compacted \o g) \o <<Trigger>>
      BY <2>2, <3>1
    <3>. QED BY <1>1, <2>1, <2>3, <2>4, <3>1, <3>2, AfterNextCompaction
  <2>. QED BY <2>6, <2>7
<1>. QED BY <1>3, <1>4, <1>5

\* Initially the client holds a conversation that began before the archive.
LEMMA ConversingInit ==
  Init => Conversing
<1> SUFFICES ASSUME Init PROVE Conversing
  OBVIOUS
<1>1. made = <<>> /\ client.history \in Priors
  BY DEF Init, ViewsInit
<1>2. client.history \in Seq(PriorItems) /\ ToSet(client.history) \subseteq PriorItems
  <2>1. client.history \in Seq(PriorItems)
    BY <1>1, PriorsAssumption
  <2>. QED BY <2>1 DEF ToSet
<1>3. \A i \in DOMAIN client.history : client.history[i] \in PriorItems
  BY <1>2
<1>4. Plain(client.history)
  BY <1>3, PriorsAssumption DEF Plain
<1>5. DOMAIN made = {}
  BY <1>1
<1>. QED BY <1>1, <1>4, <1>5 DEF Conversing, Converses

\* Any item of a request's answer.
LEMMA CompactedItems ==
  /\ Compacted \in Seq(Items) /\ CollectEntries(Compacted) # <<>>
  /\ Last(Compacted).type = "compaction" /\ Compacted # <<>>
  /\ Shape(Compacted)
<1>1. Compacted \in Seq(Items)
  BY KnownItems DEF Compacted
<1>2. CollectEntries(Compacted) # <<>>
  BY EntriesKnown
<1>3. Last(Compacted).type = "compaction" /\ Compacted # <<>>
  BY DEF Compacted, Last, ItemOf
<1>4. Shape(Compacted)
  <2>1. Compacted \o <<>> = Compacted /\ <<>> \in Seq(Items)
    BY <1>1, ConcatEmptySeq
  <2>2. Plain(<<>>) /\ Begins(<<>>)
    BY DEF Plain, Begins
  <2>. QED BY <1>1, <1>2, <2>1, <2>2 DEF Shape
<1>. QED BY <1>1, <1>2, <1>3, <1>4

\* What the client holds after its first request, or after another.
LEMMA ShapeStep ==
  ASSUME Typed, NEW asks, NEW added, NEW output, Step(asks, added, output), asks # "compact",
         \/ Plain(client.history) /\ asks = "command"
         \/ Shape(client.history)
  PROVE  Shape(client'.history)
<1>1. PICK h : h = client.history /\ h \in Seq(Items)
  BY DEF Typed, Clients
<1>2. PICK n \in Nat : output \in Answers(n)
  BY DEF Step, Typed
<1>3. added \in Seq(Items) /\ output \in Seq(Items) /\ Adds(asks, added) /\ May(asks)
  BY DEF Step
<1>4. PICK x : x = added \o output /\ x \in Seq(Items) /\ Plain(x)
  <2>1. Plain(added) /\ Plain(output)
    BY <1>2, <1>3, PlainAdds, PlainAnswer
  <2>. QED BY <1>3, <2>1, PlainConcat
<1>5. client'.history = h \o x
  <2>1. Three(h, added, output, Items)
    BY <1>1, <1>3 DEF Three
  <2>2. client'.history = (client.history \o added) \o output
    BY DEF Step
  <2>3. (h \o added) \o output = h \o (added \o output)
    BY <2>1, Regroup, SMTT(30)
  <2>. QED BY <1>1, <1>4, <2>2, <2>3, Zenon
<1>6. CASE Plain(h) /\ asks = "command"
  <2>1. PICK c \in Commands : added = <<Message("user", c)>>
    BY <1>3, <1>6 DEF Adds
  <2>2. CollectEntries(added) = <<UserEntry(c)>>
    BY <2>1, EntriesKnown
  <2>3. CollectEntries(x) # <<>>
    <3>1. PICK a, b : a = CollectEntries(added) /\ b = CollectEntries(output) /\ CollectEntries(x) = a \o b
      BY <1>3, <1>4, EntriesConcat
    <3>2. a \in Seq(Entries) /\ b \in Seq(Entries)
      BY <1>3, <3>1, EntriesOf
    <3>3. a # <<>>
      BY <2>2, <3>1
    <3>. QED BY <3>1, <3>2, <3>3, FirstOf
  <2>. QED BY <1>1, <1>4, <1>5, <1>6, <2>3, ShapeBegins
<1>7. CASE Shape(h)
  <2>1. ASSUME h = Compacted PROVE Begins(x)
    <3>1. asks # "continue"
      <4>1. SUFFICES ASSUME asks = "continue" PROVE FALSE
        OBVIOUS
      <4>2. client.mode = "called"
        BY <1>3, <4>1 DEF May
      <4>3. PICK k \in Nat : Last(h) = ItemOf("function_call", k)
        BY <1>1, <4>2 DEF Typed
      <4>4. Last(h).type = "function_call"
        BY <4>3 DEF ItemOf
      <4>. QED BY <2>1, <4>4, CompactedItems
    <3>2. asks \in {"command", "retry", "resume"}
      BY <1>3, <3>1 DEF Adds
    <3>. QED BY <1>2, <1>3, <1>4, <3>2, BeginsAnswer
  <2>. QED BY <1>4, <1>5, <1>7, <2>1, ShapeGrows
<1>. QED BY <1>1, <1>6, <1>7

\* A request is sent what the client holds.
LEMMA ConversingStep ==
  ASSUME Typed, TurnsTold, Conversing, NEW asks, NEW added, NEW output, Step(asks, added, output)
  PROVE  Conversing'
<1>0. PICK L, n, h, r : L = Len(made) /\ n = Len(made) + 1 /\ h = client.history /\ r = made'[n]
  OBVIOUS
<1>1. /\ made' \in Seq(Requests) /\ Len(made') = n /\ DOMAIN made' = 1..n
      /\ L \in Nat /\ DOMAIN made = 1..L /\ n \in 1..n /\ n \in Nat
      /\ \A i \in 1..n : i # n => i \in 1..L /\ made'[i] = made[i]
      /\ \A i \in 1..L : i \in 1..n /\ i # n /\ i < n /\ made'[i] = made[i]
      /\ r.asks = asks /\ r.kind = (IF asks = "compact" /\ client.named THEN "compact" ELSE NoText)
      /\ r.input = h \o added /\ r.added = added /\ r.output = output
  BY <1>0, NewRequest
<1>2. /\ h \in Seq(Items) /\ added \in Seq(Items) /\ output \in Seq(Items) /\ made \in Seq(Requests)
      /\ Adds(asks, added) /\ May(asks)
  BY <1>0 DEF Step, Typed, Clients
<1>3. ASSUME made = <<>> PROVE Plain(h) /\ asks = "command" /\ n = 1
  <2>1. Plain(h)
    BY <1>0, <1>3 DEF Conversing, Converses
  <2>2. Len(made) = 0
    BY <1>3
  <2>3. client.turn = 0
    BY <2>2 DEF TurnsTold
  <2>4. client.mode = "idle"
    BY <2>3 DEF TurnsTold
  <2>. QED BY <1>0, <1>2, <2>1, <2>2, <2>3, <2>4 DEF May
<1>4. ASSUME made # <<>>
      PROVE  /\ Shape(h) /\ After(made[L], client) /\ made[1].asks = "command" /\ L \in 1..L /\ 1 \in 1..L /\ L > 0
             /\ \E old \in Seq(Items) : Plain(old) /\ made[1].input = old \o made[1].added
  <2>1. L # 0
    BY <1>0, <1>2, <1>4
  <2>2. L \in 1..L /\ 1 \in 1..L /\ L > 0
    BY <1>1, <2>1
  <2>3. /\ Shape(client.history) /\ After(made[Len(made)], client) /\ made[1].asks = "command"
        /\ \E old \in Seq(Items) : Plain(old) /\ made[1].input = old \o made[1].added
    BY <1>4, Zenon DEF Conversing, Converses
  <2>. QED BY <1>0, <2>2, <2>3
<1>5. \A i \in 1..L : Form(made[i]) /\ (i > 1 => Exact(made[i - 1], made[i]))
  BY <1>1 DEF Conversing, Converses
<1>6. Form(r)
  <2>1. CollectEntries(h \o added) # <<>>
    <3>1. PICK a, b : a = CollectEntries(h) /\ b = CollectEntries(added) /\ CollectEntries(h \o added) = a \o b
      BY <1>2, EntriesConcat
    <3>2. a \in Seq(Entries) /\ b \in Seq(Entries)
      BY <1>2, <3>1, EntriesOf
    <3>3. CASE made = <<>>
      <4>1. PICK c \in Commands : added = <<Message("user", c)>>
        BY <1>2, <1>3, <3>3 DEF Adds
      <4>2. b = <<UserEntry(c)>>
        BY <3>1, <4>1, EntriesKnown
      <4>3. Two(a, b, Entries)
        BY <3>2 DEF Two
      <4>4. Len(a \o b) = Len(a) + Len(b) /\ Len(a) \in Nat
        BY <4>3, Joins
      <4>5. Len(b) = 1
        BY <4>2
      <4>7. Len(a \o b) # 0
        BY <4>4, <4>5
      <4>6. a \o b # <<>>
        BY <4>7
      <4>. QED BY <3>1, <4>6
    <3>4. CASE made # <<>>
      <4>1. a # <<>>
        BY <1>4, <3>1, <3>4 DEF Shape
      <4>. QED BY <3>1, <3>2, <4>1, FirstOf
    <3>. QED BY <3>3, <3>4
  <2>2. r.kind \in {NoText, "compact"} /\ (r.kind = "compact" => r.asks = "compact")
    BY <1>1 DEF NoText
  <2>. QED BY <1>1, <1>2, <2>1, <2>2 DEF Form
<1>7. \A i \in 1..n : i > 1 => Exact(made'[i - 1], made'[i])
  <2>1. SUFFICES ASSUME NEW i \in 1..n, i > 1 PROVE Exact(made'[i - 1], made'[i])
    OBVIOUS
  <2>2. CASE i # n
    <3>1. i \in 1..L /\ i - 1 \in 1..L /\ made'[i] = made[i]
      BY <1>1, <2>1, <2>2
    <3>2. made'[i - 1] = made[i - 1]
      BY <1>1, <3>1
    <3>3. Exact(made[i - 1], made[i])
      BY <1>5, <2>1, <3>1
    <3>. QED BY <3>1, <3>2, <3>3
  <2>3. CASE i = n
    <3>1. i - 1 = L /\ L \in 1..L
      BY <1>0, <1>1, <2>1, <2>3
    <3>2. made # <<>>
      BY <1>0, <3>1
    <3>3. PICK p : p = made[L] /\ p \in Requests
      <4>1. made[L] \in Requests
        BY <1>0, <1>2, <3>1, ElementOfSeq
      <4>. QED BY <4>1
    <3>4. made'[i - 1] = p /\ made'[i] = r
      BY <1>0, <1>1, <2>3, <3>1, <3>3
    <3>5. Payloads(p) /\ CollectEntries(p.input) # <<>>
      <4>1. Form(p)
        BY <1>5, <3>1, <3>3
      <4>. QED BY <3>3, <4>1 DEF Requests, Payloads, Form
    <3>6. Payloads(r)
      <4>1. h \o added \in Seq(Items)
        BY <1>2, ConcatProperties
      <4>. QED BY <1>1, <1>2, <4>1 DEF Payloads
    <3>7. Shape(client.history) /\ After(p, client)
      BY <1>0, <1>4, <3>2, <3>3
    <3>8. May(r.asks) /\ r.input = client.history \o r.added
      BY <1>0, <1>1, <1>2
    <3>9. Exact(p, r)
      BY <1>6, <3>5, <3>6, <3>7, <3>8, FollowsExactly
    <3>. QED BY <3>4, <3>9
  <2>. QED BY <2>2, <2>3
<1>8. \A i \in 1..n : Form(made'[i])
  <2>1. SUFFICES ASSUME NEW i \in 1..n PROVE Form(made'[i])
    OBVIOUS
  <2>2. CASE i = n
    BY <1>0, <1>6, <2>2
  <2>3. CASE i # n
    <3>1. i \in 1..L /\ made'[i] = made[i]
      BY <1>1, <2>3
    <3>. QED BY <1>5, <3>1
  <2>. QED BY <2>2, <2>3
<1>9. Shape(client'.history) /\ After(r, client')
  <2>1. CASE asks # "compact"
    <3>1. \/ Plain(client.history) /\ asks = "command"
          \/ Shape(client.history)
      BY <1>0, <1>3, <1>4
    <3>2. Shape(client'.history)
      BY <2>1, <3>1, ShapeStep
    <3>3. output \in Answers(n) /\ client'.mode = ModeAfter(output) /\ client'.history = (h \o added) \o output
      BY <1>0, <2>1 DEF Step
    <3>4. client'.mode # "compacted" /\ (client'.mode = "failed" => output = Failed)
      BY <1>1, <3>3, AnswerFacts
    <3>. QED BY <1>1, <2>1, <3>2, <3>3, <3>4 DEF After
  <2>2. CASE asks = "compact"
    <3>1. client.mode \in {"idle", "failed"} /\ client.turn > 0 /\ added = <<Trigger>>
      BY <1>2, <2>2 DEF May, Adds
    <3>2. made # <<>>
      <4>1. client.turn \in 0..Len(made)
        BY DEF TurnsTold
      <4>2. Len(made) # 0
        BY <3>1, <4>1, <1>0, <1>1
      <4>. QED BY <4>2
    <3>3. Shape(h)
      BY <1>4, <3>2
    <3>4. \/ output = Failed /\ client' = client
          \/ output = Compacted /\ client'.history = Compacted /\ client'.mode = "compacted"
      BY <2>2 DEF Step
    <3>5. CASE output = Failed /\ client' = client
      BY <1>0, <1>1, <2>2, <3>1, <3>3, <3>5 DEF After
    <3>6. CASE output = Compacted /\ client'.history = Compacted /\ client'.mode = "compacted"
      <4>1. Shape(Compacted)
        BY CompactedItems
      <4>2. r.input = h \o <<Trigger>>
        BY <1>1, <3>1
      <4>. QED BY <1>1, <1>2, <2>2, <3>3, <3>6, <4>1, <4>2 DEF After
    <3>. QED BY <3>4, <3>5, <3>6
  <2>. QED BY <2>1, <2>2
<1>10. made'[1].asks = "command" /\ \E old \in Seq(Items) : Plain(old) /\ made'[1].input = old \o made'[1].added
  <2>1. CASE made = <<>>
    <3>1. r = made'[1]
      BY <1>0, <1>3, <2>1
    <3>. QED BY <1>1, <1>2, <1>3, <2>1, <3>1
  <2>2. CASE made # <<>>
    <3>1. made'[1] = made[1]
      BY <1>1, <1>4, <2>2
    <3>. QED BY <1>4, <2>2, <3>1
  <2>. QED BY <2>1, <2>2
<1>11. made' # <<>> /\ made'[Len(made')] = r /\ DOMAIN made' = 1..n
  <2>1. Len(made') # 0
    BY <1>0, <1>1
  <2>. QED BY <1>0, <1>1, <2>1
<1>12. Converses(made', client')
  BY <1>7, <1>8, <1>9, <1>10, <1>11, Zenon DEF Converses
<1>. QED BY <1>12, Zenon DEF Conversing

\* No other step touches it.
LEMMA ConversingNext ==
  Typed /\ TurnsTold /\ Conversing /\ [Next]_allVars => Conversing'
<1> SUFFICES ASSUME Typed, TurnsTold, Conversing, [Next]_allVars PROVE Conversing'
  OBVIOUS
<1>0. (Conversing <=> Converses(made, client)) /\ (Conversing' <=> Converses(made', client'))
  BY Zenon DEF Conversing
<1>1. CASE \E asks, added, output : Step(asks, added, output)
  BY <1>1, ConversingStep
<1>2. CASE \E i \in 1..MaxRequests : Arrive(i)
  <2>1. client' = client /\ made' = made
    BY <1>2 DEF Arrive
  <2>. QED BY <1>0, <2>1
<1>3. CASE UNCHANGED views
  <2>1. client' = client /\ made' = made
    BY <1>3 DEF views
  <2>. QED BY <1>0, <2>1
<1>. QED BY <1>1, <1>2, <1>3, ViewsSteps

\* The newest timeline is exact when the records arrived as they were made.
LEMMA ExactTimeline ==
  ASSUME Typed, Conversing
  PROVE  TimelineExact
<1> DEFINE records == Records
           k == Len(arrived)
<1> SUFFICES ASSUME ArrivedInOrder, arrived # <<>>
             PROVE  /\ RequestTimeline(records, k).entries = TrueDelta(k) \o CollectEntries(made[k].output)
                    /\ RequestTimeline(records, k).kind = TrueKind(k)
  BY Zenon DEF TimelineExact
<1>1. /\ ToSet(arrived) \subseteq 1..Len(made) /\ Len(made) \in Nat /\ DOMAIN made = 1..Len(made)
      /\ k \in Nat /\ DOMAIN arrived = 1..k /\ arrived \in Seq(1..Len(made))
  BY ArrivedMade
<1>2. \A i \in 1..k : arrived[i] = i /\ i \in DOMAIN made /\ records[i] = made[i]
  <2>1. \A i \in 1..k : arrived[i] = i
    BY <1>1 DEF ArrivedInOrder
  <2>2. \A i \in 1..k : arrived[i] \in ToSet(arrived)
    BY <1>1 DEF ToSet
  <2>3. \A i \in 1..k : records[i] = made[arrived[i]]
    BY <1>1 DEF Records
  <2>. QED BY <1>1, <2>1, <2>2, <2>3
<1>3. k # 0
  BY <1>1
<1> HIDE DEF records
<1>4. \A i \in DOMAIN made : Payloads(made[i])
  <2>1. \A i \in DOMAIN made : made[i] \in Requests
    BY <1>1, ElementOfSeq DEF Typed
  <2>. QED BY <2>1 DEF Requests, Payloads
<1>5. /\ \A i \in DOMAIN made : Form(made[i]) /\ (i > 1 => Exact(made[i - 1], made[i]))
      /\ made # <<>> => made[1].asks = "command" /\ \E h \in Seq(Items) : Plain(h) /\ made[1].input = h \o made[1].added
  BY Zenon DEF Conversing, Converses
<1>6. k \in 1..k /\ k \in DOMAIN made
  BY <1>1, <1>2, <1>3
<1> HIDE DEF k
<1>7. CASE k = 1
  <2>1. made # <<>>
    BY <1>6
  <2>2. PICK h \in Seq(Items) : Plain(h) /\ made[1].input = h \o made[1].added
    BY <1>5, <2>1
  <2>3. records[1] = made[1] /\ Payloads(made[1]) /\ Form(made[1]) /\ made[1].asks = "command"
    BY <1>2, <1>4, <1>5, <1>6, <1>7, <2>1
  <2>4. /\ RequestTimeline(records, 1).entries = TrueDelta(1) \o CollectEntries(made[1].output)
        /\ RequestTimeline(records, 1).kind = TrueKind(1)
    BY <2>2, <2>3, FirstTimeline
  <2>. QED BY <1>7, <2>4
<1>8. CASE k # 1
  <2>1. k \in Nat /\ k > 1 /\ k - 1 \in 1..k
    BY <1>1, <1>3, <1>8 DEF k
  <2>2. records[k] = made[k] /\ records[k - 1] = made[k - 1] /\ k - 1 \in DOMAIN made
    BY <1>2, <1>6, <2>1
  <2>3. Payloads(made[k]) /\ Payloads(made[k - 1]) /\ Form(made[k]) /\ Exact(made[k - 1], made[k])
    BY <1>4, <1>5, <1>6, <2>1, <2>2
  <2>. QED BY <2>1, <2>2, <2>3, LaterTimeline
<1>. QED BY <1>7, <1>8

\* While the requests arrive as they were made, the timeline of each shows
\* exactly what it added and what it was answered, under its true kind:
\* nothing is repeated, lost or taken for something else across retries,
\* answered calls and compactions (timeline.go:131-172; README.md:154).
THEOREM TimelineIsExact ==
  Spec => []TimelineExact
<1>1. Init => Conversing
  BY ConversingInit
<1>2. Typed /\ TurnsTold /\ Conversing /\ [Next]_allVars => Conversing'
  BY ConversingNext
<1>3. Typed /\ Conversing => TimelineExact
  BY ExactTimeline
<1>4. ViewsInvariant => Typed /\ TurnsTold
  BY DEF ViewsInvariant
<1>. QED BY <1>1, <1>2, <1>3, <1>4, ViewsInvariantHolds, PTL DEF Spec
=============================================================================
