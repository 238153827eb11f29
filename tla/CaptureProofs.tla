--------------------------- MODULE CaptureProofs ---------------------------
(***************************************************************************)
(* Frames as bytes: what the readers make of a stream that was cut in any  *)
(* way, what a capture file reads back as, what the buffers keep, and what *)
(* the analyser reports of any capture, for all sequences of items, all    *)
(* payloads up to any limit and any number of flows.                       *)
(*                                                                         *)
(* Facts about recursive functions are proved by induction over a set of   *)
(* numbers: the theorems of the library take the induction hypothesis as an*)
(* operator, which the provers cannot instantiate, but that there is no    *)
(* infinite descent (WFMin) is a statement about sets.                     *)
(***************************************************************************)
EXTENDS Capture, SequenceTheorems, TLAPS
LOCAL INSTANCE SequencesExt
WF == INSTANCE WellFoundedInduction

-----------------------------------------------------------------------------
(* Induction.                                                              *)

Less == {ss \in Nat \X Nat : ss[1] < ss[2]}

LEMMA LessWellFounded == WF!IsWellFoundedOn(Less, Nat)
BY WF!NatLessThanWellFounded DEF WF!OpToRel, Less

LEMMA Induction ==
  ASSUME NEW T \in SUBSET Nat, 0 \in T, \A n \in T : n + 1 \in T
  PROVE  T = Nat
<1>. SUFFICES ASSUME T # Nat PROVE FALSE
  OBVIOUS
<1>. DEFINE U == Nat \ T
<1>1. U \subseteq Nat
  OBVIOUS
<1>0. U # {}
  <2>1. \E x \in Nat : x \notin T
    BY Zenon
  <2>. QED
    BY <2>1
<1>2. PICK x \in U : \A y \in U : <<y, x>> \notin Less
  <2>. HIDE DEF U
  <2>. QED
    BY <1>0, <1>1, LessWellFounded, WF!WFMin
<1>3. x # 0 /\ x \in Nat /\ x \notin T
  OBVIOUS
<1>4. x - 1 \in Nat /\ <<x - 1, x>> \in Less
  BY <1>3 DEF Less
<1>5. x - 1 \in T
  BY <1>2, <1>4
<1>6. (x - 1) + 1 = x
  BY <1>3
<1>. QED
  BY <1>3, <1>5, <1>6

\* Of a set of sequences that is closed under appending.
LEMMA SequenceInduction ==
  ASSUME NEW S, NEW T \in SUBSET Seq(S), << >> \in T,
         \A s \in T : \A e \in S : Append(s, e) \in T
  PROVE  T = Seq(S)
<1>. DEFINE N == {n \in Nat : \A s \in Seq(S) : Len(s) = n => s \in T}
<1>1. 0 \in N
  <2>. SUFFICES ASSUME NEW s \in Seq(S), Len(s) = 0 PROVE s \in T
    OBVIOUS
  <2>1. s = << >>
    BY EmptySeq
  <2>. QED
    BY <2>1
<1>2. ASSUME NEW n \in N PROVE n + 1 \in N
  <2>. SUFFICES ASSUME NEW s \in Seq(S), Len(s) = n + 1 PROVE s \in T
    OBVIOUS
  <2>1. s # << >>
    BY EmptySeq
  <2>2. PICK front \in Seq(S), e \in S : s = Append(front, e)
    BY <2>1, SequenceEmptyOrAppend
  <2>3. Len(front) = n
    BY <2>2, AppendProperties, LenProperties
  <2>. QED
    BY <2>2, <2>3
<1>3. N = Nat
  <2>1. N \in SUBSET Nat
    OBVIOUS
  <2>. HIDE DEF N
  <2>. QED
    BY <1>1, <1>2, <2>1, Induction
<1>4. ASSUME NEW s \in Seq(S) PROVE s \in T
  BY <1>3, LenProperties
<1>. QED
  BY <1>4

\* A function that is defined by itself at a place of smaller rank exists: its
\* value is base[d] where it stops, and step[d] of its value at next[d] elsewhere.
Descends(D, V, m, rank, Stop, base, next, step) ==
  /\ m \in Nat /\ rank \in [D -> 0..m]
  /\ base \in [D -> V] /\ next \in [D -> D] /\ step \in [D -> [V -> V]]
  /\ \A d \in D \ Stop : rank[next[d]] < rank[d]

Unfolds(g, D, Stop, base, next, step) ==
  \A d \in D : g[d] = IF d \in Stop THEN base[d] ELSE step[d][g[next[d]]]

LEMMA Recursion ==
  ASSUME NEW D, NEW V, NEW m, NEW rank, NEW Stop, NEW base, NEW next, NEW step,
         Descends(D, V, m, rank, Stop, base, next, step)
  PROVE  \E g \in [D -> V] : Unfolds(g, D, Stop, base, next, step)
<1>. USE DEF Descends
<1>. DEFINE Below(n) == {d \in D : rank[d] < n}
            Solves(g, n) == \A d \in Below(n) :
                              g[d] = IF d \in Stop THEN base[d] ELSE step[d][g[next[d]]]
            P(n) == \E g \in [D -> V] : Solves(g, n)
            T == {n \in Nat : P(n)}
<1>1. P(0)
  <2>1. Solves(base, 0)
    OBVIOUS
  <2>. QED
    BY <2>1
<1>2. ASSUME NEW n \in Nat, P(n) PROVE P(n + 1)
  <2>1. PICK g \in [D -> V] : Solves(g, n)
    BY <1>2
  <2>. DEFINE New(d) == IF d \in Stop THEN base[d] ELSE step[d][g[next[d]]]
              h == [d \in D |-> New(d)]
  <2>2. h \in [D -> V]
    OBVIOUS
  <2>3. ASSUME NEW d \in Below(n) PROVE h[d] = g[d]
    BY <2>1
  <2>4. ASSUME NEW d \in Below(n + 1)
        PROVE  h[d] = IF d \in Stop THEN base[d] ELSE step[d][h[next[d]]]
    <3>1. CASE d \in Stop
      BY <3>1
    <3>2. CASE d \notin Stop
      <4>1. next[d] \in Below(n)
        BY <3>2
      <4>2. h[next[d]] = g[next[d]]
        BY <2>3, <4>1
      <4>. QED
        BY <3>2, <4>2
    <3>. QED
      BY <3>1, <3>2
  <2>. HIDE DEF h, Below
  <2>5. Solves(h, n + 1)
    BY <2>4
  <2>. HIDE DEF Solves
  <2>. QED
    BY <2>2, <2>5
<1>. HIDE DEF P
<1>3. T = Nat
  <2>1. T \in SUBSET Nat /\ 0 \in T /\ \A n \in T : n + 1 \in T
    BY <1>1, <1>2
  <2>. HIDE DEF T
  <2>. QED
    BY <2>1, Induction
<1>4. P(m + 1)
  BY <1>3
<1>5. PICK g \in [D -> V] : Solves(g, m + 1)
  BY <1>4 DEF P
<1>6. Below(m + 1) = D
  OBVIOUS
<1>. QED
  BY <1>5, <1>6 DEF Unfolds

-----------------------------------------------------------------------------
(* Concatenations.                                                         *)

\* g[i] is the concatenation of the first i parts of q.
Sums(g, q, n) ==
  \A i \in 1..n : g[i] = IF i = 1 THEN q[i] ELSE g[i - 1] \o q[i]

LEMMA SumsUnique ==
  ASSUME NEW n \in Nat \ {0}, NEW q, NEW g, NEW h, Sums(g, q, n), Sums(h, q, n)
  PROVE  g[n] = h[n]
<1>. DEFINE P(m) == \A i \in 1..n : i <= m => g[i] = h[i]
            T == {m \in Nat : P(m)}
<1>1. P(0)
  OBVIOUS
<1>2. ASSUME NEW m \in Nat, P(m) PROVE P(m + 1)
  <2>. SUFFICES ASSUME NEW i \in 1..n, i <= m + 1 PROVE g[i] = h[i]
    OBVIOUS
  <2>1. CASE i = 1
    BY <2>1 DEF Sums
  <2>2. CASE i # 1
    <3>1. i - 1 \in 1..n /\ i - 1 <= m
      BY <2>2
    <3>2. g[i - 1] = h[i - 1]
      BY <1>2, <3>1
    <3>3. g[i] = g[i - 1] \o q[i] /\ h[i] = h[i - 1] \o q[i]
      BY <2>2 DEF Sums
    <3>. QED
      BY <3>2, <3>3
  <2>. QED
    BY <2>1, <2>2
<1>. HIDE DEF P
<1>3. T = Nat
  <2>1. T \in SUBSET Nat /\ 0 \in T /\ \A m \in T : m + 1 \in T
    BY <1>1, <1>2
  <2>. HIDE DEF T
  <2>. QED
    BY <2>1, Induction
<1>4. P(n)
  BY <1>3
<1>. QED
  BY <1>4 DEF P

LEMMA FlattenSums ==
  ASSUME NEW S, NEW n \in Nat \ {0}, NEW q \in [1..n -> Seq(S)]
  PROVE  \E g \in [1..n -> Seq(S)] : Sums(g, q, n) /\ FlattenSeq(q) = g[n]
<1>. DEFINE Rec(f) == f = [i \in 1..n |-> IF i = 1 THEN q[i] ELSE f[i - 1] \o q[i]]
            F == CHOOSE f : Rec(f)
<1>1. PICK g \in [1..n -> Seq(S)] : Sums(g, q, n)
  <2>. DEFINE rank == [i \in 1..n |-> i]
              next == [i \in 1..n |-> IF i = 1 THEN 1 ELSE i - 1]
              step == [i \in 1..n |-> [v \in Seq(S) |-> v \o q[i]]]
  <2>1. rank \in [1..n -> 0..n] /\ next \in [1..n -> 1..n] /\ n \in Nat
    OBVIOUS
  <2>2. step \in [1..n -> [Seq(S) -> Seq(S)]]
    <3>1. ASSUME NEW i \in 1..n, NEW v \in Seq(S) PROVE v \o q[i] \in Seq(S)
      BY ConcatProperties
    <3>. QED
      BY <3>1
  <2>3. \A i \in (1..n) \ {1} : rank[next[i]] < rank[i]
    OBVIOUS
  <2>4. \E g \in [1..n -> Seq(S)] : \A i \in 1..n :
          g[i] = IF i \in {1} THEN q[i] ELSE step[i][g[next[i]]]
    <3>. DEFINE D == 1..n
                V == Seq(S)
                Stop == {1}
    <3>. HIDE DEF rank, next, step
    <3>1. Descends(D, V, n, rank, Stop, q, next, step)
      BY <2>1, <2>2, <2>3 DEF Descends
    <3>. HIDE DEF D, V, Stop
    <3>2. \E g \in [D -> V] : Unfolds(g, D, Stop, q, next, step)
      BY <3>1, Recursion
    <3>. QED
      BY <3>2 DEF D, V, Stop, Unfolds
  <2>5. PICK g \in [1..n -> Seq(S)] : \A i \in 1..n :
          g[i] = IF i \in {1} THEN q[i] ELSE step[i][g[next[i]]]
    BY <2>4
  <2>6. ASSUME NEW i \in 1..n, i # 1 PROVE g[i] = g[i - 1] \o q[i]
    <3>1. next[i] = i - 1 /\ i - 1 \in 1..n
      BY <2>6
    <3>2. g[i] = step[i][g[i - 1]]
      BY <2>5, <2>6, <3>1
    <3>. QED
      BY <3>1, <3>2
  <2>7. Sums(g, q, n)
    BY <2>5, <2>6 DEF Sums
  <2>. QED
    BY <2>7
<1>2. Rec(F)
  <2>1. Rec(g)
    BY <1>1 DEF Sums
  <2>. HIDE DEF Rec
  <2>. QED
    BY <2>1
<1>3. FlattenSeq(q) = F[n]
  <2>1. Len(q) = n
    OBVIOUS
  <2>. QED
    BY <2>1 DEF FlattenSeq
<1>4. Sums(F, q, n)
  <2>. HIDE DEF F
  <2>. QED
    BY <1>2 DEF Sums
<1>5. F[n] = g[n]
  <2>. HIDE DEF F
  <2>. QED
    BY <1>1, <1>4, SumsUnique
<1>. QED
  BY <1>1, <1>3, <1>5

LEMMA FlattenEmpty == FlattenSeq(<< >>) = << >>
BY DEF FlattenSeq

LEMMA FlattenType ==
  ASSUME NEW S, NEW q \in Seq(Seq(S))
  PROVE  FlattenSeq(q) \in Seq(S)
<1>1. CASE q = << >>
  <2>1. << >> \in Seq(S)
    OBVIOUS
  <2>. QED
    BY <1>1, <2>1, FlattenEmpty
<1>2. CASE q # << >>
  <2>1. Len(q) \in Nat \ {0} /\ q \in [1..Len(q) -> Seq(S)]
    BY <1>2, EmptySeq, LenProperties
  <2>2. PICK g \in [1..Len(q) -> Seq(S)] : FlattenSeq(q) = g[Len(q)]
    BY <2>1, FlattenSums
  <2>. QED
    BY <2>1, <2>2
<1>. QED
  BY <1>1, <1>2

LEMMA FlattenLonger ==
  ASSUME NEW S, NEW n \in Nat, NEW q \in [1..n -> Seq(S)],
         NEW r \in [1..(n + 1) -> Seq(S)], \A i \in 1..n : r[i] = q[i]
  PROVE  FlattenSeq(r) = FlattenSeq(q) \o r[n + 1]
<1>1. PICK h \in [1..(n + 1) -> Seq(S)] : Sums(h, r, n + 1) /\ FlattenSeq(r) = h[n + 1]
  <2>1. n + 1 \in Nat \ {0}
    OBVIOUS
  <2>. QED
    BY <2>1, FlattenSums
<1>2. CASE n = 0
  <2>1. q = << >>
    BY <1>2
  <2>2. FlattenSeq(r) = r[n + 1] /\ r[n + 1] \in Seq(S)
    BY <1>1, <1>2 DEF Sums
  <2>. QED
    BY <2>1, <2>2, FlattenEmpty, ConcatEmptySeq
<1>3. CASE n # 0
  <2>1. PICK g \in [1..n -> Seq(S)] : Sums(g, q, n) /\ FlattenSeq(q) = g[n]
    BY <1>3, FlattenSums
  <2>2. Sums(h, q, n)
    <3>1. ASSUME NEW i \in 1..n
          PROVE  h[i] = IF i = 1 THEN q[i] ELSE h[i - 1] \o q[i]
      <4>1. i \in 1..(n + 1) /\ r[i] = q[i]
        OBVIOUS
      <4>. QED
        BY <1>1, <4>1 DEF Sums
    <3>. QED
      BY <3>1 DEF Sums
  <2>3. h[n] = g[n]
    <3>1. n \in Nat \ {0}
      BY <1>3
    <3>2. Sums(g, q, n)
      BY <2>1
    <3>. QED
      BY <2>2, <3>1, <3>2, SumsUnique, Zenon
  <2>4. h[n + 1] = h[n] \o r[n + 1]
    <3>1. n + 1 \in 1..(n + 1) /\ n + 1 # 1 /\ (n + 1) - 1 = n
      BY <1>3
    <3>. QED
      BY <1>1, <3>1 DEF Sums
  <2>. QED
    BY <1>1, <2>1, <2>3, <2>4
<1>. QED
  BY <1>2, <1>3

LEMMA FlattenAppend ==
  ASSUME NEW S, NEW q \in Seq(Seq(S)), NEW x \in Seq(S)
  PROVE  FlattenSeq(Append(q, x)) = FlattenSeq(q) \o x
<1>1. PICK n \in Nat : n = Len(q)
  BY LenProperties
<1>2. PICK r \in Seq(Seq(S)) : r = Append(q, x)
  BY AppendProperties
<1>3. Len(r) = n + 1 /\ r[n + 1] = x /\ \A i \in 1..n : r[i] = q[i]
  BY <1>1, <1>2, AppendProperties
<1>4. q \in [1..n -> Seq(S)] /\ r \in [1..(n + 1) -> Seq(S)]
  BY <1>1, <1>3, LenProperties
<1>. QED
  BY <1>2, <1>3, <1>4, FlattenLonger

LEMMA FlattenConcat ==
  ASSUME NEW S, NEW q \in Seq(Seq(S)), NEW r \in Seq(Seq(S))
  PROVE  FlattenSeq(q \o r) = FlattenSeq(q) \o FlattenSeq(r)
<1>. DEFINE T == {s \in Seq(Seq(S)) : FlattenSeq(q \o s) = FlattenSeq(q) \o FlattenSeq(s)}
<1>1. << >> \in T
  BY FlattenEmpty, FlattenType, ConcatEmptySeq
<1>2. ASSUME NEW s \in T, NEW x \in Seq(S) PROVE Append(s, x) \in T
  <2>1. Append(s, x) \in Seq(Seq(S)) /\ q \o s \in Seq(Seq(S))
    BY AppendProperties, ConcatProperties
  <2>2. q \o Append(s, x) = Append(q \o s, x)
    <3>1. Append(s, x) = s \o << x >> /\ Append(q \o s, x) = (q \o s) \o << x >>
      BY <2>1, AppendIsConcat
    <3>2. << x >> \in Seq(Seq(S))
      OBVIOUS
    <3>. QED
      BY <3>1, <3>2, ConcatAssociative
  <2>3. FlattenSeq(q \o Append(s, x)) = (FlattenSeq(q) \o FlattenSeq(s)) \o x
    BY <2>1, <2>2, FlattenAppend
  <2>4. FlattenSeq(Append(s, x)) = FlattenSeq(s) \o x
    BY FlattenAppend
  <2>. QED
    <3>1. FlattenSeq(q) \in Seq(S) /\ FlattenSeq(s) \in Seq(S)
      BY FlattenType
    <3>2. (FlattenSeq(q) \o FlattenSeq(s)) \o x = FlattenSeq(q) \o (FlattenSeq(s) \o x)
      BY <3>1, ConcatAssociative
    <3>. QED
      BY <2>1, <2>3, <2>4, <3>2
<1>3. T = Seq(Seq(S))
  <2>1. T \in SUBSET Seq(Seq(S))
    OBVIOUS
  <2>. HIDE DEF T
  <2>. QED
    BY <1>1, <1>2, <2>1, SequenceInduction
<1>. QED
  BY <1>3

LEMMA FlattenOne ==
  ASSUME NEW S, NEW x \in Seq(S)
  PROVE  FlattenSeq(<< x >>) = x
<1>1. << x >> = Append(<< >>, x) /\ << >> \in Seq(Seq(S))
  OBVIOUS
<1>. QED
  <2>1. FlattenSeq(<< x >>) = FlattenSeq(<< >>) \o x
    BY <1>1, FlattenAppend
  <2>. QED
    BY <2>1, FlattenEmpty, ConcatEmptySeq

\* The concatenation of the first n parts of q.
First(q, n) == FlattenSeq([i \in 1..n |-> q[i]])

LEMMA FirstIs ==
  ASSUME NEW S, NEW q \in Seq(Seq(S))
  PROVE  /\ First(q, 0) = << >> /\ First(q, Len(q)) = FlattenSeq(q)
         /\ \A n \in 0..Len(q) : First(q, n) \in Seq(S)
         /\ \A n \in 0..Len(q) - 1 : First(q, n + 1) = First(q, n) \o q[n + 1]
<1>0. Len(q) \in Nat /\ q \in [1..Len(q) -> Seq(S)]
  BY LenProperties
<1>1. First(q, 0) = << >>
  <2>1. [i \in 1..0 |-> q[i]] = << >>
    OBVIOUS
  <2>. QED
    BY <2>1, FlattenEmpty DEF First
<1>2. First(q, Len(q)) = FlattenSeq(q)
  <2>1. [i \in 1..Len(q) |-> q[i]] = q
    BY <1>0
  <2>. QED
    BY <2>1, Zenon DEF First
<1>3. ASSUME NEW n \in 0..Len(q) PROVE First(q, n) \in Seq(S)
  <2>1. PICK r : r = [i \in 1..n |-> q[i]]
    OBVIOUS
  <2>2. r \in [1..n -> Seq(S)] /\ n \in Nat
    BY <1>0, <2>1
  <2>3. r \in Seq(Seq(S))
    BY <2>2
  <2>4. FlattenSeq(r) \in Seq(S)
    BY <2>3, FlattenType
  <2>. QED
    BY <2>1, <2>4 DEF First
<1>4. ASSUME NEW n \in 0..Len(q) - 1 PROVE First(q, n + 1) = First(q, n) \o q[n + 1]
  <2>1. PICK r, s : r = [i \in 1..n |-> q[i]] /\ s = [i \in 1..(n + 1) |-> q[i]]
    OBVIOUS
  <2>2. n \in Nat /\ \A i \in 1..n + 1 : i \in 1..Len(q)
    BY <1>0
  <2>3. /\ r \in [1..n -> Seq(S)] /\ s \in [1..(n + 1) -> Seq(S)]
        /\ \A i \in 1..n : s[i] = r[i]
        /\ s[n + 1] = q[n + 1]
    BY <1>0, <2>1, <2>2
  <2>4. FlattenSeq(s) = FlattenSeq(r) \o s[n + 1]
    BY <2>2, <2>3, FlattenLonger
  <2>. QED
    BY <2>1, <2>3, <2>4 DEF First
<1>. QED
  BY <1>1, <1>2, <1>3, <1>4

LEMMA FirstPrefix ==
  ASSUME NEW S, NEW q \in Seq(Seq(S)), NEW n \in 0..Len(q), NEW m \in n..Len(q)
  PROVE  /\ Len(First(q, n)) <= Len(First(q, m))
         /\ \A k \in 1..Len(First(q, n)) : First(q, m)[k] = First(q, n)[k]
<1>0. Len(q) \in Nat /\ n \in Nat
  BY LenProperties
<1>. DEFINE P(d) == n + d <= Len(q) =>
                      /\ Len(First(q, n)) <= Len(First(q, n + d))
                      /\ \A k \in 1..Len(First(q, n)) : First(q, n + d)[k] = First(q, n)[k]
            T == {d \in Nat : P(d)}
<1>1. P(0)
  <2>1. Len(First(q, n)) \in Nat
    BY FirstIs, LenProperties
  <2>2. n + 0 = n
    BY <1>0
  <2>. QED
    BY <2>1, <2>2
<1>2. ASSUME NEW d \in Nat, P(d) PROVE P(d + 1)
  <2>. SUFFICES ASSUME n + (d + 1) <= Len(q)
                PROVE  /\ Len(First(q, n)) <= Len(First(q, n + (d + 1)))
                       /\ \A k \in 1..Len(First(q, n)) : First(q, n + (d + 1))[k] = First(q, n)[k]
    OBVIOUS
  <2>. DEFINE a == First(q, n)
              b == First(q, n + d)
              c == First(q, n + (d + 1))
              e == q[(n + d) + 1]
  <2>1. n + d \in 0..Len(q) - 1 /\ n + (d + 1) = (n + d) + 1 /\ n + d \in 0..Len(q)
    BY <1>0
  <2>2. Len(a) <= Len(b) /\ \A k \in 1..Len(a) : b[k] = a[k]
    BY <1>0, <1>2
  <2>3. a \in Seq(S) /\ b \in Seq(S) /\ c = b \o e
    BY <1>0, <2>1, FirstIs
  <2>4. e \in Seq(S)
    BY <1>0, <2>1, ElementOfSeq
  <2>. HIDE DEF a, b, c, e
  <2>5. Len(a) \in Nat /\ Len(b) \in Nat /\ Len(e) \in Nat
    BY <2>3, <2>4, LenProperties
  <2>6. Len(c) = Len(b) + Len(e) /\ \A k \in 1..Len(b) : c[k] = b[k]
    BY <2>3, <2>4, <2>5, ConcatProperties
  <2>7. Len(a) <= Len(c) /\ \A k \in 1..Len(a) : c[k] = a[k]
    <3>1. Len(a) <= Len(c) /\ \A k \in 1..Len(a) : k \in 1..Len(b)
      BY <2>2, <2>5, <2>6
    <3>. QED
      BY <2>2, <2>6, <3>1, Zenon
  <2>. QED
    BY <2>7 DEF a, c
<1>. HIDE DEF P
<1>3. T = Nat
  <2>1. T \in SUBSET Nat /\ 0 \in T /\ \A d \in T : d + 1 \in T
    BY <1>1, <1>2
  <2>. HIDE DEF T
  <2>. QED
    BY <2>1, Induction
<1>4. m - n \in Nat /\ n + (m - n) = m
  BY <1>0
<1>5. P(m - n)
  BY <1>3, <1>4
<1>. QED
  BY <1>0, <1>4, <1>5 DEF P

\* The chunk lies behind the first t elements.
HasChunk(s, t, chunk) ==
  /\ t + Len(chunk) <= Len(s)
  /\ \A k \in 1..Len(chunk) : s[t + k] = chunk[k]

\* Part n + 1 is where the first n end.
LEMMA FlattenAt ==
  ASSUME NEW S, NEW q \in Seq(Seq(S)), NEW n \in 0..Len(q) - 1
  PROVE  /\ Len(First(q, n)) \in Nat /\ q[n + 1] \in Seq(S) /\ FlattenSeq(q) \in Seq(S)
         /\ Len(First(q, n + 1)) = Len(First(q, n)) + Len(q[n + 1])
         /\ HasChunk(FlattenSeq(q), Len(First(q, n)), q[n + 1])
<1>p. PICK part : part = q[n + 1]
  OBVIOUS
<1>t. PICK t : t = Len(First(q, n))
  OBVIOUS
<1>s. PICK s : s = FlattenSeq(q)
  OBVIOUS
<1>0. Len(q) \in Nat /\ n \in 0..Len(q) /\ n + 1 \in 0..Len(q) /\ n + 1 \in 1..Len(q)
  BY LenProperties
<1>1. PICK a, b : a = First(q, n) /\ b = First(q, n + 1)
  OBVIOUS
<1>2. a \in Seq(S) /\ b = a \o part /\ s \in Seq(S) /\ s = First(q, Len(q))
  BY <1>0, <1>1, <1>p, <1>s, FirstIs, FlattenType
<1>3. part \in Seq(S)
  BY <1>0, <1>p, ElementOfSeq
<1>4. Len(b) <= Len(s) /\ \A k \in 1..Len(b) : s[k] = b[k]
  <2>1. Len(q) \in (n + 1)..Len(q)
    BY <1>0
  <2>. QED
    BY <1>0, <1>1, <1>2, <2>1, FirstPrefix
<1>5. t = Len(a) /\ t \in Nat /\ Len(part) \in Nat
  BY <1>1, <1>2, <1>3, <1>t, LenProperties
<1>6. /\ Len(b) = t + Len(part)
      /\ \A k \in 1..Len(a) + Len(part) : b[k] = IF k <= Len(a) THEN a[k] ELSE part[k - Len(a)]
  BY <1>2, <1>3, <1>5, ConcatProperties
<1>7. ASSUME NEW k \in 1..Len(part) PROVE s[t + k] = part[k]
  <2>1. t + k \in 1..Len(b) /\ ~(t + k <= Len(a)) /\ (t + k) - Len(a) = k
    BY <1>5, <1>6
  <2>2. b[t + k] = part[k]
    BY <1>5, <1>6, <2>1
  <2>. QED
    BY <1>4, <2>1, <2>2
<1>8. t + Len(part) <= Len(s) /\ Len(b) = t + Len(part)
  BY <1>4, <1>6
<1>9. HasChunk(s, t, part)
  BY <1>7, <1>8 DEF HasChunk
<1>. QED
  BY <1>1, <1>2, <1>3, <1>5, <1>8, <1>9, <1>p, <1>t, <1>s, Zenon

-----------------------------------------------------------------------------
(* The decoder's checks.                                                   *)

Byte == [of : Items, at : Nat]

\* The errors, in the order in which the decoder looks for them.
Order == <<"ERR_MAGIC", "ERR_VERSION", "ERR_LENGTH", "ERR_FLAGS", "ERR_TYPE", "ERR_CRC", "ERR_AUTH">>

FirstFault(faults, code) ==
  \E k \in 1..7 : code = Order[k] /\ Order[k] \in faults /\ \A j \in 1..k - 1 : Order[j] \notin faults

LEMMA FirstFailingIs ==
  ASSUME NEW n \in Nat, NEW checks, DOMAIN checks = 1..n
  PROVE  \/ FirstFailing(checks) = "OK" /\ \A i \in 1..n : ~checks[i].fails
         \/ \E k \in 1..n : /\ checks[k].fails /\ FirstFailing(checks) = checks[k].code
                            /\ \A j \in 1..k - 1 : ~checks[j].fails
<1>. DEFINE U == {i \in 1..n : checks[i].fails}
            IsFirst(i) == checks[i].fails /\ \A j \in 1..i - 1 : ~checks[j].fails
<1>1. CASE U = {}
  BY <1>1 DEF FirstFailing
<1>2. CASE U # {}
  <2>1. U \subseteq Nat
    OBVIOUS
  <2>2. PICK k \in U : \A y \in U : <<y, k>> \notin Less
    <3>. HIDE DEF U
    <3>. QED
      BY <1>2, <2>1, LessWellFounded, WF!WFMin
  <2>3. k \in 1..n /\ IsFirst(k)
    <3>1. ASSUME NEW j \in 1..k - 1, checks[j].fails PROVE FALSE
      <4>1. j \in U /\ <<j, k>> \in Less
        BY <3>1 DEF Less
      <4>. QED
        BY <2>2, <4>1
    <3>. QED
      BY <3>1
  <2>4. ~ \A i \in DOMAIN checks : ~checks[i].fails
    BY <2>3
  <2>. DEFINE first == CHOOSE i \in DOMAIN checks : IsFirst(i)
  <2>5. first \in 1..n /\ IsFirst(first)
    <3>. HIDE DEF IsFirst
    <3>. QED
      BY <2>3
  <2>6. FirstFailing(checks) = checks[first].code
    BY <2>4 DEF FirstFailing
  <2>. HIDE DEF first
  <2>. QED
    BY <2>5, <2>6
<1>. QED
  BY <1>1, <1>2

LEMMA EncodeIs ==
  ASSUME NEW it \in Items
  PROVE  /\ it.length \in 0..MaxPayload
         /\ Encode(it) \in Seq(Byte)
         /\ Len(Encode(it)) = HeaderSize + it.length + MacSize
         /\ \A k \in 1..HeaderSize + it.length + MacSize : Encode(it)[k] = [of |-> it, at |-> k]
         /\ Body(it) \in Seq(Byte)
         /\ Len(Body(it)) = it.length
         /\ \A k \in 1..it.length : Body(it)[k] = [of |-> it, at |-> HeaderSize + k]
<1>1. it.length \in 0..MaxPayload
  BY DEF Items
<1>. DEFINE N == HeaderSize + it.length + MacSize
            e == Encode(it)
<1>2. N \in Nat /\ HeaderSize = 2 /\ MacSize = 1 /\ it.length \in Nat
  BY <1>1, MaxPayloadAssumption DEF HeaderSize, MacSize
<1>3. e \in [1..N -> Byte] /\ \A k \in 1..N : e[k] = [of |-> it, at |-> k]
  BY <1>2 DEF Encode, Byte
<1>4. e \in Seq(Byte) /\ Len(e) = N
  <2>. HIDE DEF N, e
  <2>. QED
    BY <1>2, <1>3
<1>. HIDE DEF e
<1>5. /\ Body(it) \in Seq(Byte) /\ Len(Body(it)) = it.length
      /\ \A k \in 1..it.length : Body(it)[k] = [of |-> it, at |-> HeaderSize + k]
  <2>1. Body(it) = SubSeq(e, 3, 2 + it.length)
    BY <1>2 DEF Body, e
  <2>2. \A k \in 3..2 + it.length : e[k] \in Byte
    BY <1>2, <1>3
  <2>3. SubSeq(e, 3, 2 + it.length) \in Seq(Byte)
    BY <1>2, <2>2, SubSeqProperties
  <2>4. Len(SubSeq(e, 3, 2 + it.length)) = it.length
    BY <1>2, <1>4
  <2>5. ASSUME NEW k \in 1..it.length
        PROVE  SubSeq(e, 3, 2 + it.length)[k] = [of |-> it, at |-> 2 + k]
    <3>1. SubSeq(e, 3, 2 + it.length)[k] = e[2 + k]
      BY <1>2, <1>4
    <3>. QED
      BY <1>2, <1>3, <3>1
  <2>. QED
    BY <1>2, <2>1, <2>3, <2>4, <2>5
<1>. QED
  BY <1>1, <1>3, <1>4, <1>5 DEF e

HeaderOf(item) == <<[of |-> item, at |-> 1], [of |-> item, at |-> 2]>>

LEMMA DecodeHeaderIs ==
  ASSUME NEW header, Len(header) = HeaderSize
  PROVE  LET faults == header[1].of.faults
             Fails  == <<header[1].at # 1 \/ "ERR_MAGIC" \in faults, "ERR_VERSION" \in faults,
                         TooLong(header), "ERR_FLAGS" \in faults, "ERR_TYPE" \in faults>>
         IN  \/ DecodeHeader(header) = "OK" /\ \A i \in 1..5 : ~Fails[i]
             \/ \E k \in 1..5 : /\ Fails[k] /\ DecodeHeader(header) = Order[k]
                                /\ \A j \in 1..k - 1 : ~Fails[j]
<1>. DEFINE faults == header[1].of.faults
            Fails  == <<header[1].at # 1 \/ "ERR_MAGIC" \in faults, "ERR_VERSION" \in faults,
                         TooLong(header), "ERR_FLAGS" \in faults, "ERR_TYPE" \in faults>>
            checks == <<Check(header[1].at # 1 \/ "ERR_MAGIC" \in faults, "ERR_MAGIC"),
                        Check("ERR_VERSION" \in faults, "ERR_VERSION"),
                        Check(TooLong(header), "ERR_LENGTH"),
                        Check("ERR_FLAGS" \in faults, "ERR_FLAGS"),
                        Check("ERR_TYPE" \in faults, "ERR_TYPE")>>
<1>1. DecodeHeader(header) = FirstFailing(checks)
  BY DEF DecodeHeader
<1>2. DOMAIN checks = 1..5
  OBVIOUS
<1>3. \A i \in 1..5 : (checks[i].fails <=> Fails[i]) /\ checks[i].code = Order[i]
  <2>1. \A i \in 1..5 : i = 1 \/ i = 2 \/ i = 3 \/ i = 4 \/ i = 5
    OBVIOUS
  <2>2. /\ checks[1] = Check(Fails[1], Order[1])
        /\ checks[2] = Check(Fails[2], Order[2])
        /\ checks[3] = Check(Fails[3], Order[3])
        /\ checks[4] = Check(Fails[4], Order[4])
        /\ checks[5] = Check(Fails[5], Order[5])
    BY DEF Order
  <2>. HIDE DEF checks, Fails
  <2>. QED
    BY <2>1, <2>2 DEF Check
<1>. HIDE DEF checks, Fails
<1>4. \/ FirstFailing(checks) = "OK" /\ \A i \in 1..5 : ~checks[i].fails
      \/ \E k \in 1..5 : /\ checks[k].fails /\ FirstFailing(checks) = checks[k].code
                         /\ \A j \in 1..k - 1 : ~checks[j].fails
  BY <1>2, FirstFailingIs
<1>5. \/ DecodeHeader(header) = "OK" /\ \A i \in 1..5 : ~Fails[i]
      \/ \E k \in 1..5 : /\ Fails[k] /\ DecodeHeader(header) = Order[k]
                         /\ \A j \in 1..k - 1 : ~Fails[j]
  BY <1>1, <1>3, <1>4
<1>. QED
  BY <1>5 DEF Fails

\* Of the header of an item, the decoder finds the first fault if it has one.
LEMMA HeaderVerdict ==
  ASSUME NEW it \in Items
  PROVE  /\ \/ DecodeHeader(HeaderOf(it)) = "OK" /\ \A k \in 1..5 : Order[k] \notin it.faults
            \/ DecodeHeader(HeaderOf(it)) # "OK" /\ FirstFault(it.faults, DecodeHeader(HeaderOf(it)))
         /\ DecodeHeader(HeaderOf(it)) = "OK" => DeclaredLength(HeaderOf(it)) = it.length
<1>. DEFINE header == HeaderOf(it)
            faults == it.faults
            Fails  == <<header[1].at # 1 \/ "ERR_MAGIC" \in header[1].of.faults,
                         "ERR_VERSION" \in header[1].of.faults,
                         TooLong(header), "ERR_FLAGS" \in header[1].of.faults,
                         "ERR_TYPE" \in header[1].of.faults>>
<1>1. /\ Len(header) = 2 /\ header[1] = [of |-> it, at |-> 1] /\ header[2] = [of |-> it, at |-> 2]
      /\ header[1].of = it /\ header[1].at = 1 /\ header[2].of = it /\ header[2].at = 2
  BY DEF HeaderOf
<1>2. \/ DecodeHeader(header) = "OK" /\ \A i \in 1..5 : ~Fails[i]
      \/ \E k \in 1..5 : /\ Fails[k] /\ DecodeHeader(header) = Order[k]
                         /\ \A j \in 1..k - 1 : ~Fails[j]
  <2>. HIDE DEF header
  <2>. QED
    BY <1>1, DecodeHeaderIs DEF HeaderSize
<1>3. TooLong(header) <=> "ERR_LENGTH" \in faults
  <2>1. it.length \in 0..MaxPayload
    BY EncodeIs
  <2>. HIDE DEF header
  <2>. QED
    BY <1>1, <2>1, MaxPayloadAssumption DEF TooLong, DeclaredLength
<1>4. \A k \in 1..5 : Fails[k] <=> Order[k] \in faults
  <2>1. \A i \in 1..5 : i = 1 \/ i = 2 \/ i = 3 \/ i = 4 \/ i = 5
    OBVIOUS
  <2>2. /\ Fails[1] <=> "ERR_MAGIC" \in faults
        /\ Fails[2] <=> "ERR_VERSION" \in faults
        /\ Fails[3] <=> "ERR_LENGTH" \in faults
        /\ Fails[4] <=> "ERR_FLAGS" \in faults
        /\ Fails[5] <=> "ERR_TYPE" \in faults
    <3>. HIDE DEF header
    <3>. QED
      BY <1>1, <1>3
  <2>3. /\ Order[1] = "ERR_MAGIC" /\ Order[2] = "ERR_VERSION" /\ Order[3] = "ERR_LENGTH"
        /\ Order[4] = "ERR_FLAGS" /\ Order[5] = "ERR_TYPE"
    BY DEF Order
  <2>. HIDE DEF Fails, faults
  <2>. QED
    BY <2>1, <2>2, <2>3
<1>5. \A k \in 1..7 : Order[k] # "OK"
  BY DEF Order
<1>. HIDE DEF Fails, header
<1>6. ASSUME DecodeHeader(header) # "OK" PROVE FirstFault(faults, DecodeHeader(header))
  <2>1. PICK k \in 1..5 : /\ Fails[k] /\ DecodeHeader(header) = Order[k]
                          /\ \A j \in 1..k - 1 : ~Fails[j]
    BY <1>2, <1>6
  <2>2. \A j \in 1..k - 1 : j \in 1..5
    OBVIOUS
  <2>. QED
    BY <1>4, <2>1, <2>2 DEF FirstFault
<1>7. ASSUME DecodeHeader(header) = "OK" PROVE \A k \in 1..5 : Order[k] \notin faults
  <2>1. \A k \in 1..5 : k \in 1..7
    OBVIOUS
  <2>. QED
    BY <1>2, <1>4, <1>5, <1>7, <2>1
<1>8. ASSUME DecodeHeader(header) = "OK" PROVE DeclaredLength(header) = it.length
  <2>1. Order[3] = "ERR_LENGTH"
    BY DEF Order
  <2>2. "ERR_LENGTH" \notin faults
    BY <1>7, <1>8, <2>1
  <2>. QED
    BY <1>1, <2>2 DEF DeclaredLength
<1>. QED
  BY <1>6, <1>7, <1>8 DEF header

LEMMA DecodeFrameIs ==
  ASSUME NEW header, NEW payload, NEW mac, NEW keyed \in BOOLEAN, DecodeHeader(header) = "OK"
  PROVE  DecodeFrame(header, payload, mac, keyed) =
           IF Len(payload) # DeclaredLength(header) THEN "ERR_LENGTH"
           ELSE IF Len(mac) # MacSize THEN "ERR_AUTH"
           ELSE IF ~CrcFits(header, payload) THEN "ERR_CRC"
           ELSE IF keyed /\ ~MacFits(header, payload, mac) THEN "ERR_AUTH"
           ELSE "OK"
<1>. DEFINE f1 == DecodeHeader(header) # "OK"
            f2 == Len(payload) # DeclaredLength(header)
            f3 == Len(mac) # MacSize
            f4 == ~CrcFits(header, payload)
            f5 == keyed /\ ~MacFits(header, payload, mac)
            checks == <<Check(f1, DecodeHeader(header)), Check(f2, "ERR_LENGTH"),
                        Check(f3, "ERR_AUTH"), Check(f4, "ERR_CRC"), Check(f5, "ERR_AUTH")>>
<1>1. DecodeFrame(header, payload, mac, keyed) = FirstFailing(checks)
  BY DEF DecodeFrame
<1>2. ~f1
  OBVIOUS
<1>. HIDE DEF f1, f2, f3, f4, f5
<1>3. DOMAIN checks = 1..5
  OBVIOUS
<1>4. /\ checks[1].fails <=> f1
      /\ (checks[2].fails <=> f2) /\ checks[2].code = "ERR_LENGTH"
      /\ (checks[3].fails <=> f3) /\ checks[3].code = "ERR_AUTH"
      /\ (checks[4].fails <=> f4) /\ checks[4].code = "ERR_CRC"
      /\ (checks[5].fails <=> f5) /\ checks[5].code = "ERR_AUTH"
  BY DEF Check
<1>. HIDE DEF checks
<1>5. \/ FirstFailing(checks) = "OK" /\ \A i \in 1..5 : ~checks[i].fails
      \/ \E k \in 1..5 : /\ checks[k].fails /\ FirstFailing(checks) = checks[k].code
                         /\ \A j \in 1..k - 1 : ~checks[j].fails
  BY <1>3, 5 \in Nat, FirstFailingIs, ZenonT(60)
<1>6. FirstFailing(checks) = IF f2 THEN "ERR_LENGTH" ELSE IF f3 THEN "ERR_AUTH"
                             ELSE IF f4 THEN "ERR_CRC" ELSE IF f5 THEN "ERR_AUTH" ELSE "OK"
  <2>1. CASE FirstFailing(checks) = "OK" /\ \A i \in 1..5 : ~checks[i].fails
    BY <1>4, <2>1
  <2>2. ASSUME NEW k \in 1..5, checks[k].fails, FirstFailing(checks) = checks[k].code,
               \A j \in 1..k - 1 : ~checks[j].fails
        PROVE  FirstFailing(checks) = IF f2 THEN "ERR_LENGTH" ELSE IF f3 THEN "ERR_AUTH"
                                      ELSE IF f4 THEN "ERR_CRC" ELSE IF f5 THEN "ERR_AUTH" ELSE "OK"
    <3>1. k = 1 \/ k = 2 \/ k = 3 \/ k = 4 \/ k = 5
      OBVIOUS
    <3>. QED
      BY <1>2, <1>4, <2>2, <3>1
  <2>. QED
    BY <1>5, <2>1, <2>2
<1>. QED
  BY <1>1, <1>6 DEF f2, f3, f4, f5

\* Of the parts of an item whose header passed, the decoder finds the first
\* fault of the two that are left.
LEMMA FrameVerdict ==
  ASSUME NEW it \in Items, DecodeHeader(HeaderOf(it)) = "OK",
         NEW code, code = DecodeFrame(HeaderOf(it), Body(it), Mac(it), TRUE)
  PROVE  \/ code = "OK" /\ it.faults = {}
         \/ code # "OK" /\ FirstFault(it.faults, code)
<1>. DEFINE header == HeaderOf(it)
<1>1. header[1].of = it /\ header[2].of = it
  BY DEF HeaderOf
<1>2. Len(Body(it)) = DeclaredLength(header) /\ Len(Mac(it)) = MacSize
  BY HeaderVerdict, EncodeIs DEF Mac, MacSize
<1>3. CrcFits(header, Body(it)) <=> "ERR_CRC" \notin it.faults
  <2>. HIDE DEF header
  <2>. QED
    BY <1>1 DEF CrcFits
<1>4. MacFits(header, Body(it), Mac(it)) <=> "ERR_AUTH" \notin it.faults
  <2>. HIDE DEF header
  <2>. QED
    BY <1>1 DEF MacFits
<1>5. code = IF "ERR_CRC" \in it.faults THEN "ERR_CRC"
             ELSE IF "ERR_AUTH" \in it.faults THEN "ERR_AUTH" ELSE "OK"
  <2>. HIDE DEF header
  <2>1. DecodeHeader(header) = "OK"
    BY DEF header
  <2>2. code = DecodeFrame(header, Body(it), Mac(it), TRUE)
    BY DEF header
  <2>. QED
    BY <1>2, <1>3, <1>4, <2>1, <2>2, DecodeFrameIs
<1>6. \A k \in 1..5 : Order[k] \notin it.faults
  BY HeaderVerdict
<1>7. /\ Order[1] = "ERR_MAGIC" /\ Order[2] = "ERR_VERSION" /\ Order[3] = "ERR_LENGTH"
      /\ Order[4] = "ERR_FLAGS" /\ Order[5] = "ERR_TYPE" /\ Order[6] = "ERR_CRC" /\ Order[7] = "ERR_AUTH"
  BY DEF Order
<1>8. CASE "ERR_CRC" \in it.faults
  <2>1. \A j \in 1..6 - 1 : Order[j] \notin it.faults
    BY <1>6
  <2>2. FirstFault(it.faults, Order[6])
    BY <1>7, <1>8, <2>1 DEF FirstFault
  <2>. QED
    BY <1>5, <1>7, <1>8, <2>2
<1>9. CASE "ERR_CRC" \notin it.faults /\ "ERR_AUTH" \in it.faults
  <2>1. \A j \in 1..7 - 1 : j \in 1..5 \/ j = 6
    OBVIOUS
  <2>2. \A j \in 1..7 - 1 : Order[j] \notin it.faults
    BY <1>6, <1>7, <1>9, <2>1
  <2>3. FirstFault(it.faults, Order[7])
    BY <1>7, <1>9, <2>2 DEF FirstFault
  <2>. QED
    BY <1>5, <1>7, <1>9, <2>3
<1>10. CASE "ERR_CRC" \notin it.faults /\ "ERR_AUTH" \notin it.faults
  <2>1. it.faults \subseteq Fault
    BY DEF Items
  <2>3. /\ "ERR_MAGIC" \notin it.faults /\ "ERR_VERSION" \notin it.faults
        /\ "ERR_LENGTH" \notin it.faults /\ "ERR_FLAGS" \notin it.faults
        /\ "ERR_TYPE" \notin it.faults
    BY <1>6, <1>7
  <2>4. it.faults = {}
    BY <1>10, <2>1, <2>3 DEF Fault
  <2>. QED
    BY <1>5, <1>10, <2>4
<1>. QED
  BY <1>8, <1>9, <1>10

-----------------------------------------------------------------------------
(* The bytes of a stream.                                                  *)

\* The bytes of the first n items.
Before(w, n) == FlattenSeq([i \in 1..n |-> Encode(w[i])])

\* Before is First of the encoded items.
LEMMA BeforeFirst ==
  ASSUME NEW w \in Seq(Items), NEW q, q = [i \in 1..Len(w) |-> Encode(w[i])]
  PROVE  /\ q \in Seq(Seq(Byte)) /\ Len(q) = Len(w)
         /\ \A n \in 0..Len(w) : Before(w, n) = First(q, n)
<1>0. Len(w) \in Nat /\ \A i \in 1..Len(w) : w[i] \in Items
  BY LenProperties
<1>1. ASSUME NEW i \in 1..Len(w) PROVE Encode(w[i]) \in Seq(Byte)
  BY <1>0, EncodeIs
<1>2. q \in [1..Len(w) -> Seq(Byte)]
  BY <1>1
<1>3. q \in Seq(Seq(Byte)) /\ Len(q) = Len(w)
  BY <1>0, <1>2
<1>4. ASSUME NEW n \in 0..Len(w) PROVE Before(w, n) = First(q, n)
  <2>1. \A i \in 1..n : i \in 1..Len(w)
    BY <1>0
  <2>2. [i \in 1..n |-> Encode(w[i])] = [i \in 1..n |-> q[i]]
    BY <2>1
  <2>. QED
    BY <2>2, Zenon DEF Before, First
<1>. QED
  BY <1>3, <1>4

Size(item) == HeaderSize + item.length + MacSize

\* Item n + 1 is where the first n end.
LEMMA BytesAt ==
  ASSUME NEW w \in Seq(Items), NEW n \in 0..Len(w) - 1,
         NEW o, o = Len(Before(w, n)), NEW it, it = w[n + 1],
         NEW bytes, bytes = Before(w, Len(w))
  PROVE  /\ it \in Items /\ o \in Nat /\ bytes \in Seq(Byte)
         /\ Len(Before(w, n + 1)) = o + Size(it)
         /\ HasChunk(bytes, o, Encode(it))
<1>0. Len(w) \in Nat /\ n \in 0..Len(w) /\ n + 1 \in 0..Len(w) /\ n + 1 \in 1..Len(w) /\ Len(w) \in 0..Len(w)
  BY LenProperties
<1>1. it \in Items /\ Len(Encode(it)) = Size(it)
  BY <1>0, EncodeIs, ElementOfSeq DEF Size
<1>2. PICK q : q = [i \in 1..Len(w) |-> Encode(w[i])]
  OBVIOUS
<1>3. /\ q \in Seq(Seq(Byte)) /\ Len(q) = Len(w)
      /\ \A i \in 0..Len(w) : Before(w, i) = First(q, i)
  BY <1>2, BeforeFirst
<1>4. q[n + 1] = Encode(it)
  BY <1>0, <1>2
<1>5. n \in 0..Len(q) - 1 /\ o = Len(First(q, n)) /\ bytes = FlattenSeq(q)
  BY <1>0, <1>3, FirstIs
<1>6. /\ o \in Nat /\ bytes \in Seq(Byte)
      /\ Len(First(q, n + 1)) = o + Len(Encode(it))
      /\ HasChunk(bytes, o, Encode(it))
  BY <1>3, <1>4, <1>5, FlattenAt
<1>. QED
  BY <1>0, <1>1, <1>3, <1>6

LEMMA ChunkIs ==
  ASSUME NEW S, NEW bytes \in Seq(S), NEW chunk \in Seq(S), NEW t \in Nat, NEW last,
         last = t + Len(chunk), last <= Len(bytes),
         \A k \in 1..Len(chunk) : bytes[t + k] = chunk[k]
  PROVE  SubSeq(bytes, t + 1, last) = chunk
<1>1. Len(chunk) \in Nat /\ last \in Nat /\ Len(bytes) \in Nat
  BY LenProperties
<1>2. \A k \in t + 1..last : bytes[k] \in S
  <2>1. \A k \in t + 1..last : k \in 1..Len(bytes)
    BY <1>1
  <2>. QED
    BY <2>1, ElementOfSeq
<1>. DEFINE sub == SubSeq(bytes, t + 1, last)
<1>3. sub \in Seq(S)
  BY <1>1, <1>2, SubSeqProperties
<1>4. Len(sub) = Len(chunk)
  BY <1>1
<1>5. ASSUME NEW i \in 1..Len(chunk) PROVE sub[i] = chunk[i]
  <2>1. sub[i] = bytes[(t + 1) + i - 1]
    BY <1>1
  <2>2. (t + 1) + i - 1 = t + i
    BY <1>1
  <2>. QED
    BY <2>1, <2>2
<1>. HIDE DEF sub
<1>6. sub = chunk
  BY <1>3, <1>4, <1>5, SeqEqual
<1>. QED
  BY <1>6 DEF sub

-----------------------------------------------------------------------------
(* A reader in its stream.                                                 *)

Frame == [kind : Items, number : Items, payload : Seq(Byte)]

\* Of the items w a reader has returned rec and read t bytes: it is at the start
\* of an item or inside it and holds the parts g, or it has failed at one.
Reading(w, g, t, r, rec) ==
  LET n  == Len(rec)
      o  == Len(Before(w, n))
      it == w[n + 1]
  IN  /\ rec \in Seq(Frame) /\ n <= Len(w)
      /\ \A i \in 1..n : rec[i] = Written(w[i]) /\ w[i].faults = {}
      /\ g \in Seq(Seq(Byte)) /\ Len(g) <= 2 /\ t \in Nat /\ o <= t
      /\ r = "reading" =>
           \/ g = << >> /\ t = o
           \/ /\ n < Len(w) /\ DecodeHeader(HeaderOf(it)) = "OK"
              /\ \/ g = <<HeaderOf(it)>> /\ t = o + HeaderSize
                 \/ g = <<HeaderOf(it), Body(it)>> /\ t = o + HeaderSize + it.length
      /\ r # "reading" => r \in Fault /\ n < Len(w) /\ FirstFault(it.faults, r)

\* What read_frame makes of its parts.
CodeOf(parts) ==
  CASE Len(parts) = 1 -> DecodeHeader(parts[1])
    [] Len(parts) = 2 -> "OK"
    [] Len(parts) = 3 -> DecodeFrame(parts[1], parts[2], parts[3], TRUE)

Returned(parts, code, rec) ==
  IF Len(parts) = 3 /\ code = "OK" THEN Append(rec, FrameOf(parts[1], parts[2])) ELSE rec

LEMMA FirstFaultIsFault ==
  ASSUME NEW faults, NEW code, FirstFault(faults, code)
  PROVE  code \in Fault /\ code # "reading" /\ code # "OK"
<1>1. PICK k \in 1..7 : code = Order[k]
  BY DEF FirstFault
<1>2. k = 1 \/ k = 2 \/ k = 3 \/ k = 4 \/ k = 5 \/ k = 6 \/ k = 7
  OBVIOUS
<1>. QED
  BY <1>1, <1>2 DEF Order, Fault

LEMMA HeaderOfIs ==
  ASSUME NEW it \in Items
  PROVE  HeaderOf(it) \in Seq(Byte) /\ Len(HeaderOf(it)) = 2
BY DEF HeaderOf, Byte

LEMMA AppendParts ==
  ASSUME NEW S, NEW a \in S, NEW b \in S, NEW c \in S
  PROVE  Append(<<a>>, b) = <<a, b>> /\ Append(<<a, b>>, c) = <<a, b, c>>
<1>1. PICK p, q, r : p = <<a>> /\ q = <<a, b>> /\ r = <<a, b, c>>
  OBVIOUS
<1>2. /\ p \in Seq(S) /\ Len(p) = 1 /\ p[1] = a
      /\ q \in Seq(S) /\ Len(q) = 2 /\ q[1] = a /\ q[2] = b
      /\ r \in Seq(S) /\ Len(r) = 3 /\ r[1] = a /\ r[2] = b /\ r[3] = c
  BY <1>1
<1>3. PICK s, t : s = Append(p, b) /\ t = Append(q, c)
  OBVIOUS
<1>4. /\ s \in Seq(S) /\ Len(s) = 2 /\ s[1] = a /\ s[2] = b
      /\ t \in Seq(S) /\ Len(t) = 3 /\ t[1] = a /\ t[2] = b /\ t[3] = c
  <2>1. /\ \A i \in 1..Len(p) : s[i] = p[i]
        /\ s \in Seq(S) /\ Len(s) = Len(p) + 1 /\ s[Len(p) + 1] = b
    <3>1. p \in Seq(S)
      BY <1>2
    <3>. QED
      BY <1>3, <3>1, AppendProperties, SMTT(20)
  <2>2. /\ \A i \in 1..Len(q) : t[i] = q[i]
        /\ t \in Seq(S) /\ Len(t) = Len(q) + 1 /\ t[Len(q) + 1] = c
    <3>1. q \in Seq(S)
      BY <1>2
    <3>. QED
      BY <1>3, <3>1, AppendProperties, SMTT(20)
  <2>. QED
    BY <1>2, <2>1, <2>2
<1>5. s = q /\ t = r
  <2>1. Len(s) = Len(q) /\ \A i \in 1..Len(s) : s[i] = q[i]
    BY <1>2, <1>4
  <2>2. Len(t) = Len(r) /\ \A i \in 1..Len(t) : t[i] = r[i]
    BY <1>2, <1>4
  <2>. QED
    BY <1>2, <1>4, <2>1, <2>2, SeqEqual
<1>. QED
  BY <1>1, <1>3, <1>5, Zenon

LEMMA ItemChunks ==
  ASSUME NEW it \in Items, NEW bytes \in Seq(Byte), NEW o \in Nat, HasChunk(bytes, o, Encode(it))
  PROVE  /\ SubSeq(bytes, o + 1, o + 2) = HeaderOf(it)
         /\ SubSeq(bytes, (o + 2) + 1, (o + 2) + it.length) = Body(it)
         /\ SubSeq(bytes, (o + 2 + it.length) + 1, o + 2 + it.length + 1) = Mac(it)
<1>1. /\ HeaderSize = 2 /\ MacSize = 1 /\ it.length \in Nat /\ Len(bytes) \in Nat
      /\ o + (HeaderSize + it.length + MacSize) <= Len(bytes)
  BY EncodeIs, LenProperties, MaxPayloadAssumption DEF HeaderSize, MacSize, HasChunk
<1>0. \A k \in 1..HeaderSize + it.length + MacSize : bytes[o + k] = [of |-> it, at |-> k]
  BY EncodeIs DEF HasChunk
<1>2. SubSeq(bytes, o + 1, o + 2) = HeaderOf(it)
  <2>1. bytes[o + 1] = HeaderOf(it)[1] /\ bytes[o + 2] = HeaderOf(it)[2]
    BY <1>0, <1>1 DEF HeaderOf
  <2>2. HeaderOf(it) \in Seq(Byte) /\ Len(HeaderOf(it)) = 2
    BY HeaderOfIs
  <2>3. o + 2 <= Len(bytes) /\ \A k \in 1..2 : bytes[o + k] = HeaderOf(it)[k]
    BY <1>1, <2>1
  <2>. QED
    BY <2>2, <2>3, ChunkIs
<1>3. SubSeq(bytes, (o + 2) + 1, (o + 2) + it.length) = Body(it)
  <2>1. ASSUME NEW k \in 1..it.length PROVE bytes[(o + 2) + k] = Body(it)[k]
    <3>1. 2 + k \in 1..HeaderSize + it.length + MacSize /\ (o + 2) + k = o + (2 + k)
      BY <1>1
    <3>2. Body(it)[k] = [of |-> it, at |-> 2 + k]
      BY <1>1, EncodeIs
    <3>. QED
      BY <1>0, <3>1, <3>2
  <2>2. Body(it) \in Seq(Byte) /\ Len(Body(it)) = it.length
    BY EncodeIs
  <2>3. o + 2 \in Nat /\ (o + 2) + it.length <= Len(bytes)
    BY <1>1
  <2>. QED
    BY <2>1, <2>2, <2>3, ChunkIs
<1>4. SubSeq(bytes, (o + 2 + it.length) + 1, o + 2 + it.length + 1) = Mac(it)
  <2>1. Mac(it) \in Seq(Byte) /\ Len(Mac(it)) = 1 /\ Mac(it)[1] = [of |-> it, at |-> 3 + it.length]
    BY <1>1 DEF Mac, Byte
  <2>2. bytes[(o + 2 + it.length) + 1] = [of |-> it, at |-> 3 + it.length]
    <3>1. 3 + it.length \in 1..HeaderSize + it.length + MacSize
      BY <1>1
    <3>2. (o + 2 + it.length) + 1 = o + (3 + it.length)
      BY <1>1
    <3>. QED
      BY <1>0, <3>1, <3>2
  <2>3. o + 2 + it.length \in Nat /\ o + 2 + it.length + 1 <= Len(bytes)
    BY <1>1
  <2>4. \A k \in 1..Len(Mac(it)) : bytes[(o + 2 + it.length) + k] = Mac(it)[k]
    BY <2>1, <2>2
  <2>. QED
    BY <2>1, <2>3, <2>4, ChunkIs
<1>. QED
  BY <1>2, <1>3, <1>4

\* A header that passed declares no more than MAX_PAYLOAD.
LEMMA WantedIs ==
  ASSUME NEW w \in Seq(Items), NEW g, NEW t, NEW rec, Reading(w, g, t, "reading", rec)
  PROVE  /\ Wanted(g) \in Nat
         /\ Len(g) = 1 => Wanted(g) <= MaxPayload
<1>1. PICK n : n = Len(rec)
  OBVIOUS
<1>2. PICK it : it = w[n + 1]
  OBVIOUS
<1>3. /\ rec \in Seq(Frame) /\ n <= Len(w)
      /\ \/ g = << >>
         \/ /\ n < Len(w) /\ DecodeHeader(HeaderOf(it)) = "OK"
            /\ g = <<HeaderOf(it)>> \/ g = <<HeaderOf(it), Body(it)>>
  BY <1>1, <1>2 DEF Reading
<1>4. CASE g = << >>
  BY <1>4 DEF Wanted, HeaderSize
<1>5. CASE g = <<HeaderOf(it), Body(it)>>
  BY <1>5 DEF Wanted, MacSize
<1>6. CASE n < Len(w) /\ DecodeHeader(HeaderOf(it)) = "OK" /\ g = <<HeaderOf(it)>>
  <2>1. n \in Nat /\ Len(w) \in Nat
    BY <1>1, <1>3, LenProperties
  <2>2. it \in Items
    <3>1. n + 1 \in 1..Len(w)
      BY <1>6, <2>1
    <3>. QED
      BY <1>2, <3>1, ElementOfSeq
  <2>3. Wanted(g) = it.length
    <3>1. Wanted(g) = DeclaredLength(HeaderOf(it))
      BY <1>6 DEF Wanted
    <3>. QED
      BY <1>6, <2>2, <3>1, HeaderVerdict
  <2>4. it.length \in 0..MaxPayload
    BY <2>2, EncodeIs
  <2>. QED
    BY <2>3, <2>4, MaxPayloadAssumption
<1>. QED
  BY <1>3, <1>4, <1>5, <1>6

\* The three reads of read_frame.
LEMMA ReadStep ==
  \A w \in Seq(Items) : \A g, t, rec, bytes, last, parts, code :
    /\ Reading(w, g, t, "reading", rec)
    /\ bytes = Before(w, Len(w)) /\ last = t + Wanted(g) /\ last <= Len(bytes)
    /\ parts = Append(g, SubSeq(bytes, t + 1, last)) /\ code = CodeOf(parts)
    => /\ Reading(w, NextParts(parts), last, IF code = "OK" THEN "reading" ELSE code,
                  Returned(parts, code, rec))
       /\ Wanted(g) \in Nat
<1>. TAKE w \in Seq(Items)
<1>. TAKE g, t, rec, bytes, last, parts, code
<1>a. HAVE /\ Reading(w, g, t, "reading", rec)
           /\ bytes = Before(w, Len(w)) /\ last = t + Wanted(g) /\ last <= Len(bytes)
           /\ parts = Append(g, SubSeq(bytes, t + 1, last)) /\ code = CodeOf(parts)
<1>b. bytes = Before(w, Len(w))
  BY <1>a
<1>l. last = t + Wanted(g) /\ last <= Len(bytes)
  BY <1>a
<1>p. parts = Append(g, SubSeq(bytes, t + 1, last))
  BY <1>a
<1>c. code = CodeOf(parts)
  BY <1>a
<1>n. PICK n : n = Len(rec)
  OBVIOUS
<1>o. PICK o : o = Len(Before(w, n))
  OBVIOUS
<1>i. PICK it : it = w[n + 1]
  OBVIOUS
<1>r. /\ rec \in Seq(Frame) /\ n <= Len(w) /\ t \in Nat
      /\ \A i \in 1..n : rec[i] = Written(w[i]) /\ w[i].faults = {}
      /\ \/ g = << >> /\ t = o
         \/ /\ n < Len(w) /\ DecodeHeader(HeaderOf(it)) = "OK"
            /\ \/ g = <<HeaderOf(it)>> /\ t = o + HeaderSize
               \/ g = <<HeaderOf(it), Body(it)>> /\ t = o + HeaderSize + it.length
  BY <1>a, <1>n, <1>o, <1>i, Zenon DEF Reading
<1>0. rec \in Seq(Frame) /\ n <= Len(w) /\ t \in Nat
  BY <1>r
<1>1. n \in Nat /\ Len(w) \in Nat /\ HeaderSize = 2 /\ MacSize = 1
  BY <1>n, <1>0, LenProperties DEF HeaderSize, MacSize
<1>2. n < Len(w)
  <2>1. CASE g = << >> /\ t = o
    <3>1. Wanted(g) = 2
      BY <1>1, <2>1 DEF Wanted
    <3>2. ASSUME n = Len(w) PROVE FALSE
      <4>1. o = Len(bytes)
        BY <1>b, <1>o, <3>2
      <4>2. last = o + 2 /\ o \in Nat
        BY <1>0, <1>l, <2>1, <3>1
      <4>. QED
        BY <1>l, <4>1, <4>2
    <3>. QED
      BY <1>0, <1>1, <3>2
  <2>. QED
    BY <1>r, <2>1, Zenon
<1>3. /\ it \in Items /\ o \in Nat /\ bytes \in Seq(Byte)
      /\ Len(Before(w, n + 1)) = o + Size(it)
      /\ HasChunk(bytes, o, Encode(it))
  <2>1. n \in 0..Len(w) - 1
    BY <1>1, <1>2
  <2>. QED
    BY <1>b, <1>o, <1>i, <2>1, BytesAt
<1>4. it \in Items /\ o \in Nat /\ it.length \in Nat
  BY <1>3, EncodeIs, MaxPayloadAssumption
<1>5. /\ HeaderOf(it) \in Seq(Byte) /\ Body(it) \in Seq(Byte)
      /\ Mac(it) \in Seq(Byte) /\ Len(Body(it)) = it.length
  <2>1. Mac(it) \in Seq(Byte)
    BY <1>1, <1>4 DEF Mac, Byte
  <2>. QED
    BY <1>4, <2>1, EncodeIs, HeaderOfIs
<1>6. /\ SubSeq(bytes, o + 1, o + 2) = HeaderOf(it)
      /\ SubSeq(bytes, (o + 2) + 1, (o + 2) + it.length) = Body(it)
      /\ SubSeq(bytes, (o + 2 + it.length) + 1, o + 2 + it.length + 1) = Mac(it)
  BY <1>3, ItemChunks, Zenon
<1>7. CASE g = << >> /\ t = o
  <2>1. Wanted(g) = 2 /\ last = o + 2
    BY <1>1, <1>7, <1>l DEF Wanted
  <2>2. SubSeq(bytes, t + 1, last) = HeaderOf(it)
    BY <1>6, <1>7, <2>1, Zenon
  <2>3. parts = <<HeaderOf(it)>>
    BY <1>7, <1>p, <2>2
  <2>4. NextParts(parts) = parts /\ Returned(parts, code, rec) = rec /\ code = DecodeHeader(HeaderOf(it))
    BY <1>c, <2>3 DEF NextParts, Returned, CodeOf
  <2>5. parts \in Seq(Seq(Byte)) /\ Len(parts) = 1
    BY <1>5, <2>3
  <2>6. code # "OK" => FirstFault(it.faults, code) /\ code \in Fault /\ code # "reading"
    BY <1>4, <2>4, HeaderVerdict, FirstFaultIsFault
  <2>7. last \in Nat /\ last = o + HeaderSize /\ o <= last
    BY <1>1, <1>4, <2>1
  <2>8. Reading(w, parts, last, IF code = "OK" THEN "reading" ELSE code, rec)
    BY <1>n, <1>i, <1>o, <1>r, <1>2, <2>3, <2>4, <2>5, <2>6, <2>7 DEF Reading
  <2>. QED
    BY <2>1, <2>4, <2>8
<1>8. CASE DecodeHeader(HeaderOf(it)) = "OK" /\ g = <<HeaderOf(it)>> /\ t = o + HeaderSize
  <2>1. Wanted(g) = it.length
    <3>1. Wanted(g) = DeclaredLength(HeaderOf(it))
      BY <1>8 DEF Wanted
    <3>. QED
      BY <1>4, <1>8, <3>1, HeaderVerdict
  <2>2. t = o + 2 /\ last = (o + 2) + it.length
    BY <1>1, <1>8, <1>l, <2>1
  <2>3. SubSeq(bytes, t + 1, last) = Body(it)
    BY <1>6, <2>2, Zenon
  <2>4. parts = <<HeaderOf(it), Body(it)>>
    BY <1>5, <1>8, <1>p, <2>3, AppendParts, Zenon
  <2>5. NextParts(parts) = parts /\ Returned(parts, code, rec) = rec /\ code = "OK"
    BY <1>c, <2>4 DEF NextParts, Returned, CodeOf
  <2>6. parts \in Seq(Seq(Byte)) /\ Len(parts) = 2
    BY <1>5, <2>4
  <2>7. last \in Nat /\ last = o + HeaderSize + it.length /\ o <= last
    BY <1>1, <1>4, <2>2
  <2>8. Reading(w, parts, last, "reading", rec)
    BY <1>n, <1>i, <1>o, <1>r, <1>2, <1>8, <2>4, <2>6, <2>7 DEF Reading
  <2>. QED
    BY <1>4, <2>1, <2>5, <2>8
<1>9. CASE /\ DecodeHeader(HeaderOf(it)) = "OK" /\ g = <<HeaderOf(it), Body(it)>>
           /\ t = o + HeaderSize + it.length
  <2>1. Wanted(g) = 1 /\ Wanted(g) \in Nat
    BY <1>1, <1>9 DEF Wanted
  <2>2. t = o + 2 + it.length /\ last = o + 2 + it.length + 1
    BY <1>1, <1>9, <1>l, <2>1
  <2>3. SubSeq(bytes, t + 1, last) = Mac(it)
    BY <1>6, <2>2, Zenon
  <2>4. parts = <<HeaderOf(it), Body(it), Mac(it)>>
    BY <1>5, <1>9, <1>p, <2>3, AppendParts, Zenon
  <2>5. FrameOf(HeaderOf(it), Body(it)) = Written(it) /\ Written(it) \in Frame
    <3>1. Encode(it)[1] = [of |-> it, at |-> 1] /\ Encode(it)[2] = [of |-> it, at |-> 2]
      <4>1. \A k \in 1..HeaderSize + it.length + MacSize : Encode(it)[k] = [of |-> it, at |-> k]
        BY <1>4, EncodeIs
      <4>. QED
        BY <1>1, <1>4, <4>1
    <3>. QED
      BY <1>4, <1>5, <3>1 DEF Written, FrameOf, HeaderOf, Frame
  <2>6. /\ NextParts(parts) = << >> /\ code = DecodeFrame(HeaderOf(it), Body(it), Mac(it), TRUE)
        /\ Returned(parts, code, rec) = IF code = "OK" THEN Append(rec, Written(it)) ELSE rec
    BY <1>c, <2>4, <2>5 DEF NextParts, Returned, CodeOf
  <2>7. \/ code = "OK" /\ it.faults = {}
        \/ code # "OK" /\ FirstFault(it.faults, code) /\ code \in Fault /\ code # "reading"
    BY <1>4, <1>9, <2>6, FrameVerdict, FirstFaultIsFault
  <2>8. << >> \in Seq(Seq(Byte)) /\ Len(<< >>) = 0 /\ last \in Nat /\ o <= last
    BY <1>4, <2>2
  <2>9. CASE code # "OK"
    <3>1. Reading(w, << >>, last, code, rec)
      BY <1>n, <1>i, <1>o, <1>r, <1>2, <2>7, <2>8, <2>9 DEF Reading
    <3>2. Returned(parts, code, rec) = rec /\ (IF code = "OK" THEN "reading" ELSE code) = code
      BY <2>6, <2>9
    <3>3. NextParts(parts) = << >>
      BY <2>6
    <3>. QED
      BY <2>1, <3>1, <3>2, <3>3, Zenon
  <2>10. CASE code = "OK"
    <3>0. PICK rec2 : rec2 = Append(rec, Written(it))
      OBVIOUS
    <3>1. /\ rec2 \in Seq(Frame) /\ Len(rec2) = n + 1 /\ rec2[n + 1] = Written(it)
          /\ \A i \in 1..n : rec2[i] = rec[i]
      BY <1>n, <1>0, <2>5, <3>0, AppendProperties
    <3>2. \A i \in 1..n + 1 : rec2[i] = Written(w[i]) /\ w[i].faults = {}
      <4>. SUFFICES ASSUME NEW i \in 1..n + 1 PROVE rec2[i] = Written(w[i]) /\ w[i].faults = {}
        OBVIOUS
      <4>1. CASE i = n + 1
        BY <1>i, <2>7, <2>10, <3>1, <4>1
      <4>2. CASE i # n + 1
        <5>1. i \in 1..n
          BY <1>1, <4>2
        <5>. QED
          BY <1>r, <3>1, <5>1, Zenon
      <4>. QED
        BY <4>1, <4>2
    <3>3. last = Len(Before(w, n + 1))
      BY <1>1, <1>3, <1>4, <2>2 DEF Size
    <3>4. n + 1 <= Len(w)
      BY <1>1, <1>2
    <3>5. Reading(w, << >>, last, "reading", rec2)
      BY <2>8, <3>1, <3>2, <3>3, <3>4 DEF Reading
    <3>6. Returned(parts, code, rec) = rec2 /\ (IF code = "OK" THEN "reading" ELSE code) = "reading"
      BY <2>6, <2>10, <3>0
    <3>7. NextParts(parts) = << >>
      BY <2>6
    <3>. QED
      BY <2>1, <3>5, <3>6, <3>7, Zenon
  <2>. QED
    BY <2>9, <2>10
<1>. QED
  BY <1>r, <1>7, <1>8, <1>9

-----------------------------------------------------------------------------
(* The invariant.                                                          *)

Segment == [flow : Flow, first : Nat, last : Nat]

\* The segments of a flow cut its first bytes, of size in all, without a gap.
Cut(f, segs, size) ==
  /\ segs \in Seq(Segment)
  /\ \A i \in 1..Len(segs) :
       /\ segs[i].flow = f
       /\ segs[i].first = IF i = 1 THEN 1 ELSE segs[i - 1].last + 1
       /\ segs[i].first <= segs[i].last /\ segs[i].last <= size

\* Sent, of any segments.
Cuts(segs) == IF segs = << >> THEN 0 ELSE Last(segs).last

Captured(s) == \E f \in Flow : s \in ToSet(segments[f]) \cup {Empty(f)}

CaptureInv ==
  /\ wire \in [Flow -> Seq(Items)]
  /\ segments \in [Flow -> Seq(Segment)]
  /\ small \in SmallShapes
  /\ got \in [Flow -> Seq(Seq(Byte))] /\ taken \in [Flow -> Nat]
  /\ reader \in [Flow -> {"reading"} \cup Fault] /\ received \in [Flow -> Seq(Frame)]
  /\ \A f \in Flow :
       /\ Cut(f, segments[f], Len(Bytes(f)))
       /\ Reading(wire[f], got[f], taken[f], reader[f], received[f])
       /\ taken[f] <= Sent(f)
  /\ seen \in Seq(Segment) /\ Len(seen) <= MaxPackets
  /\ \A i \in 1..Len(seen) : Captured(seen[i])

LEMMA BeforeEnds ==
  ASSUME NEW w \in Seq(Items)
  PROVE  Before(w, 0) = << >> /\ Before(w, Len(w)) \in Seq(Byte)
<1>1. PICK q : q = [i \in 1..Len(w) |-> Encode(w[i])]
  OBVIOUS
<1>2. /\ q \in Seq(Seq(Byte)) /\ Len(q) = Len(w)
      /\ \A i \in 0..Len(w) : Before(w, i) = First(q, i)
  BY <1>1, BeforeFirst
<1>3. Len(w) \in 0..Len(w) /\ 0 \in 0..Len(w)
  BY LenProperties
<1>. QED
  BY <1>2, <1>3, FirstIs

LEMMA BytesIs ==
  ASSUME NEW f \in Flow, wire[f] \in Seq(Items)
  PROVE  /\ Bytes(f) = Before(wire[f], Len(wire[f]))
         /\ Bytes(f) \in Seq(Byte) /\ Len(Bytes(f)) \in Nat
<1>1. DOMAIN wire[f] = 1..Len(wire[f]) /\ Len(wire[f]) \in 0..Len(wire[f])
  BY LenProperties
<1>2. Bytes(f) = Before(wire[f], Len(wire[f]))
  BY <1>1, Zenon DEF Bytes, Before
<1>3. Before(wire[f], Len(wire[f])) \in Seq(Byte)
  BY BeforeEnds
<1>. QED
  BY <1>2, <1>3, LenProperties

LEMMA CutsIs ==
  ASSUME NEW f, NEW size \in Nat, NEW segs, Cut(f, segs, size)
  PROVE  Cuts(segs) \in 0..size
<1>1. CASE segs = << >>
  BY <1>1 DEF Cuts
<1>2. CASE segs # << >>
  <2>1. Len(segs) \in 1..Len(segs) /\ segs \in Seq(Segment)
    <3>1. segs \in Seq(Segment)
      BY DEF Cut
    <3>2. Len(segs) \in Nat \ {0}
      BY <1>2, <3>1, EmptySeq
    <3>. QED
      BY <3>1, <3>2
  <2>2. segs[Len(segs)].last <= size /\ segs[Len(segs)].last \in Nat
    <3>1. segs[Len(segs)] \in Segment
      BY <2>1
    <3>. QED
      BY <2>1, <3>1 DEF Cut, Segment
  <2>3. Cuts(segs) = segs[Len(segs)].last
    BY <1>2 DEF Cuts, Last
  <2>. QED
    BY <2>2, <2>3
<1>. QED
  BY <1>1, <1>2

LEMMA CutAppend ==
  ASSUME NEW f \in Flow, NEW size \in Nat, NEW segs, Cut(f, segs, size),
         NEW last \in Cuts(segs) + 1..size, NEW s, s = [flow |-> f, first |-> Cuts(segs) + 1, last |-> last]
  PROVE  Cut(f, Append(segs, s), size) /\ Cuts(Append(segs, s)) = last
<1>1. segs \in Seq(Segment) /\ Len(segs) \in Nat
  BY LenProperties DEF Cut
<1>2. Cuts(segs) \in Nat /\ last \in Nat /\ last <= size /\ Cuts(segs) + 1 <= last
  BY CutsIs
<1>3. s \in Segment /\ s.flow = f /\ s.first = Cuts(segs) + 1 /\ s.last = last
  BY <1>2 DEF Segment
<1>4. PICK n : n = Len(segs)
  OBVIOUS
<1>5. PICK r : r = Append(segs, s)
  OBVIOUS
<1>6. /\ r \in Seq(Segment) /\ r # << >> /\ Len(r) = n + 1 /\ r[n + 1] = s
      /\ \A i \in 1..n : r[i] = segs[i]
  BY <1>1, <1>3, <1>4, <1>5, AppendProperties
<1>7. Cuts(r) = last
  BY <1>3, <1>6 DEF Cuts, Last
<1>8. Cuts(segs) = IF n = 0 THEN 0 ELSE r[n].last
  <2>1. CASE n = 0
    <3>1. segs = << >>
      BY <1>1, <1>4, <2>1, EmptySeq
    <3>. QED
      BY <2>1, <3>1 DEF Cuts
  <2>2. CASE n # 0
    <3>1. segs # << >>
      BY <1>4, <2>2, EmptySeq
    <3>2. n \in 1..n
      BY <1>1, <1>4, <2>2
    <3>3. Cuts(segs) = segs[n].last
      BY <1>4, <3>1 DEF Cuts, Last
    <3>. QED
      BY <1>6, <2>2, <3>2, <3>3
  <2>. QED
    BY <2>1, <2>2
<1>9. ASSUME NEW i \in 1..Len(r)
      PROVE  /\ r[i].flow = f
             /\ r[i].first = IF i = 1 THEN 1 ELSE r[i - 1].last + 1
             /\ r[i].first <= r[i].last /\ r[i].last <= size
  <2>1. CASE i = n + 1
    <3>1. r[i] = s
      BY <1>6, <2>1
    <3>2. s.first = IF i = 1 THEN 1 ELSE r[i - 1].last + 1
      <4>1. CASE n = 0
        BY <1>3, <1>8, <2>1, <4>1
      <4>2. CASE n # 0
        <5>1. i # 1 /\ i - 1 = n
          BY <1>1, <1>4, <2>1, <4>2
        <5>. QED
          BY <1>3, <1>8, <4>2, <5>1
      <4>. QED
        BY <4>1, <4>2
    <3>. QED
      BY <1>2, <1>3, <3>1, <3>2
  <2>2. CASE i # n + 1
    <3>1. i \in 1..n /\ (i # 1 => i - 1 \in 1..n)
      BY <1>1, <1>4, <1>6, <2>2
    <3>2. r[i] = segs[i] /\ (i # 1 => r[i - 1] = segs[i - 1])
      BY <1>6, <3>1
    <3>3. /\ segs[i].flow = f
          /\ segs[i].first = IF i = 1 THEN 1 ELSE segs[i - 1].last + 1
          /\ segs[i].first <= segs[i].last /\ segs[i].last <= size
      BY <1>4, <3>1 DEF Cut
    <3>. QED
      BY <3>2, <3>3
  <2>. QED
    BY <2>1, <2>2
<1>. QED
  BY <1>5, <1>6, <1>7, <1>9 DEF Cut

LEMMA CaptureInit == Init => CaptureInv
<1>. SUFFICES ASSUME Init PROVE CaptureInv
  OBVIOUS
<1>. USE DEF Init
<1>1. wire \in [Flow -> Seq(Items)] /\ small \in SmallShapes
  BY CaptureAssumption
<1>2. << >> \in Seq(Segment) /\ << >> \in Seq(Seq(Byte)) /\ << >> \in Seq(Frame) /\ Len(<< >>) = 0
  OBVIOUS
<1>3. /\ segments \in [Flow -> Seq(Segment)] /\ got \in [Flow -> Seq(Seq(Byte))]
      /\ taken \in [Flow -> Nat] /\ reader \in [Flow -> {"reading"} \cup Fault]
      /\ received \in [Flow -> Seq(Frame)] /\ seen \in Seq(Segment) /\ Len(seen) <= MaxPackets
  BY <1>2, CaptureAssumption
<1>4. ASSUME NEW f \in Flow
      PROVE  /\ Cut(f, segments[f], Len(Bytes(f)))
             /\ Reading(wire[f], got[f], taken[f], reader[f], received[f])
             /\ taken[f] <= Sent(f)
  <2>1. /\ segments[f] = << >> /\ got[f] = << >> /\ taken[f] = 0 /\ reader[f] = "reading"
        /\ received[f] = << >> /\ wire[f] \in Seq(Items)
    BY <1>1
  <2>2. Cut(f, << >>, Len(Bytes(f)))
    BY <1>2 DEF Cut
  <2>3. Reading(wire[f], << >>, 0, "reading", << >>)
    <3>1. Before(wire[f], 0) = << >> /\ Len(wire[f]) \in Nat
      BY <2>1, BeforeEnds, LenProperties
    <3>. QED
      BY <1>2, <3>1 DEF Reading
  <2>4. Sent(f) = 0
    BY <2>1 DEF Sent
  <2>. QED
    BY <2>1, <2>2, <2>3, <2>4
<1>5. \A i \in 1..Len(seen) : Captured(seen[i])
  BY <1>2
<1>. QED
  BY <1>1, <1>3, <1>4, <1>5 DEF CaptureInv

LEMMA CaptureSend ==
  ASSUME CaptureInv, NEW f \in Flow, Send(f)
  PROVE  CaptureInv'
<1>. PICK last \in (Sent(f) + 1)..Len(Bytes(f)) :
       segments' = [segments EXCEPT ![f] = Append(@, [flow |-> f, first |-> Sent(f) + 1, last |-> last])]
  BY DEF Send
<1>u. UNCHANGED <<wire, got, taken, reader, received, small, seen>>
  BY DEF Send
<1>1. /\ wire \in [Flow -> Seq(Items)] /\ segments \in [Flow -> Seq(Segment)]
      /\ small \in SmallShapes
      /\ got \in [Flow -> Seq(Seq(Byte))] /\ taken \in [Flow -> Nat]
      /\ reader \in [Flow -> {"reading"} \cup Fault] /\ received \in [Flow -> Seq(Frame)]
      /\ seen \in Seq(Segment) /\ Len(seen) <= MaxPackets
  BY DEF CaptureInv
<1>2. \A g \in Flow : /\ Cut(g, segments[g], Len(Bytes(g)))
                      /\ Reading(wire[g], got[g], taken[g], reader[g], received[g])
                      /\ taken[g] <= Sent(g)
  BY DEF CaptureInv
<1>3. \A g : Bytes(g)' = Bytes(g)
  BY <1>u DEF Bytes
<1>4. \A g \in Flow : Sent(g) = Cuts(segments[g]) /\ Sent(g)' = Cuts(segments'[g])
  BY DEF Sent, Cuts
<1>5. PICK s : s = [flow |-> f, first |-> Sent(f) + 1, last |-> last]
  OBVIOUS
<1>6. /\ segments'[f] = Append(segments[f], s)
      /\ \A g \in Flow \ {f} : segments'[g] = segments[g]
  BY <1>1, <1>5
<1>7. /\ Len(Bytes(f)) \in Nat /\ Cuts(segments[f]) \in Nat
  BY <1>1, <1>2, BytesIs, CutsIs
<1>8. Cut(f, segments'[f], Len(Bytes(f))) /\ Cuts(segments'[f]) = last
  BY <1>2, <1>4, <1>5, <1>6, <1>7, CutAppend
<1>9. segments' \in [Flow -> Seq(Segment)]
  <2>1. segments'[f] \in Seq(Segment)
    BY <1>8 DEF Cut
  <2>. QED
    BY <1>1, <2>1
<1>10. ASSUME NEW g \in Flow
       PROVE  /\ Cut(g, segments'[g], Len(Bytes(g)'))
              /\ Reading(wire'[g], got'[g], taken'[g], reader'[g], received'[g])
              /\ taken'[g] <= Sent(g)'
  <2>1. Reading(wire'[g], got'[g], taken'[g], reader'[g], received'[g])
    BY <1>2, <1>u
  <2>2. CASE g # f
    BY <1>2, <1>3, <1>4, <1>6, <1>u, <2>1, <2>2
  <2>3. CASE g = f
    <3>1. taken[f] \in Nat /\ taken[f] <= Cuts(segments[f]) /\ Cuts(segments[f]) <= last
      BY <1>1, <1>2, <1>4, <1>7
    <3>2. taken'[f] <= Sent(f)'
      BY <1>4, <1>7, <1>8, <1>u, <3>1
    <3>. QED
      BY <1>3, <1>8, <2>1, <2>3, <3>2
  <2>. QED
    BY <2>2, <2>3
<1>11. ASSUME NEW i \in 1..Len(seen) PROVE Captured(seen[i])'
  <2>1. PICK g \in Flow : seen[i] \in ToSet(segments[g]) \cup {Empty(g)}
    BY DEF CaptureInv, Captured
  <2>2. ToSet(segments[g]) \subseteq ToSet(segments'[g])
    <3>1. CASE g = f
      <4>1. segments[f] \in Seq(Segment) /\ s \in Segment
        <5>1. segments[f] \in Seq(Segment)
          BY <1>1
        <5>2. Sent(f) + 1 \in Nat /\ last \in Nat
          BY <1>4, <1>7
        <5>. QED
          BY <1>5, <5>1, <5>2 DEF Segment
      <4>2. /\ DOMAIN segments[f] = 1..Len(segments[f]) /\ DOMAIN segments'[f] = 1..Len(segments'[f])
            /\ Len(segments'[f]) = Len(segments[f]) + 1 /\ Len(segments[f]) \in Nat
            /\ \A j \in 1..Len(segments[f]) : segments'[f][j] = segments[f][j]
        BY <1>6, <1>9, <4>1, AppendProperties, LenProperties
      <4>. QED
        BY <3>1, <4>2 DEF ToSet
    <3>2. CASE g # f
      BY <1>6, <3>2
    <3>. QED
      BY <3>1, <3>2
  <2>3. seen'[i] = seen[i] /\ Empty(g)' = Empty(g)
    BY <1>u DEF Empty
  <2>. QED
    BY <2>1, <2>2, <2>3 DEF Captured
<1>. QED
  BY <1>1, <1>9, <1>10, <1>11, <1>u DEF CaptureInv

LEMMA CaptureSee ==
  ASSUME CaptureInv, NEW f \in Flow, See(f)
  PROVE  CaptureInv'
<1>1. PICK s \in ToSet(segments[f]) \cup {Empty(f)} : Len(seen) < MaxPackets /\ seen' = Append(seen, s)
  BY DEF See
<1>u. UNCHANGED <<wire, segments, got, taken, reader, received, small>>
  BY DEF See
<1>2. s \in Segment
  <2>1. CASE s = Empty(f)
    BY <2>1 DEF Empty, Segment
  <2>2. CASE s \in ToSet(segments[f])
    <3>1. segments[f] \in Seq(Segment)
      BY DEF CaptureInv
    <3>. QED
      BY <2>2, <3>1, LenProperties DEF ToSet
  <2>. QED
    BY <2>1, <2>2
<1>3. seen \in Seq(Segment) /\ Len(seen) \in Nat
  BY LenProperties DEF CaptureInv
<1>4. /\ seen' \in Seq(Segment) /\ Len(seen') = Len(seen) + 1 /\ seen'[Len(seen) + 1] = s
      /\ \A i \in 1..Len(seen) : seen'[i] = seen[i]
  BY <1>1, <1>2, <1>3, AppendProperties
<1>5. Len(seen') <= MaxPackets
  BY <1>1, <1>3, <1>4, CaptureAssumption
<1>6. ASSUME NEW i \in 1..Len(seen') PROVE Captured(seen[i])'
  <2>1. Captured(seen'[i])
    <3>1. CASE i \in 1..Len(seen)
      BY <1>4, <3>1 DEF CaptureInv
    <3>2. CASE i = Len(seen) + 1
      BY <1>1, <1>4, <3>2 DEF Captured
    <3>. QED
      BY <1>3, <1>4, <3>1, <3>2
  <2>. QED
    BY <1>u, <2>1 DEF Captured
<1>7. \A g \in Flow : Bytes(g)' = Bytes(g) /\ Sent(g)' = Sent(g)
  BY <1>u DEF Bytes, Sent
<1>8. \A g \in Flow : /\ Cut(g, segments'[g], Len(Bytes(g)'))
                      /\ Reading(wire'[g], got'[g], taken'[g], reader'[g], received'[g])
                      /\ taken'[g] <= Sent(g)'
  BY <1>7, <1>u DEF CaptureInv
<1>9. /\ wire' \in [Flow -> Seq(Items)] /\ segments' \in [Flow -> Seq(Segment)]
      /\ small' \in SmallShapes
      /\ got' \in [Flow -> Seq(Seq(Byte))] /\ taken' \in [Flow -> Nat]
      /\ reader' \in [Flow -> {"reading"} \cup Fault] /\ received' \in [Flow -> Seq(Frame)]
  BY <1>u DEF CaptureInv
<1>. QED
  BY <1>4, <1>5, <1>6, <1>8, <1>9 DEF CaptureInv

LEMMA CaptureRead ==
  ASSUME CaptureInv, NEW f \in Flow, Read(f)
  PROVE  CaptureInv'
<1>. DEFINE Parts2(last) == Append(got[f], SubSeq(Bytes(f), taken[f] + 1, last))
<1>1. PICK last \in Readable(f, Wanted(got[f])) :
        LET parts == Parts2(last)
            code  == CodeOf(parts)
        IN  /\ reader[f] = "reading"
            /\ taken'  = [taken EXCEPT ![f] = last]
            /\ got'    = [got EXCEPT ![f] = NextParts(parts)]
            /\ reader' = [reader EXCEPT ![f] = IF code = "OK" THEN @ ELSE code]
            /\ received' = [received EXCEPT ![f] =
                 IF Len(parts) = 3 /\ code = "OK" THEN Append(@, FrameOf(parts[1], parts[2])) ELSE @]
            /\ UNCHANGED <<wire, segments, small, seen>>
  BY Zenon DEF Read, CodeOf
<1>2. PICK parts : parts = Parts2(last)
  OBVIOUS
<1>3. PICK code : code = CodeOf(parts)
  OBVIOUS
<1>4. PICK r : r = IF code = "OK" THEN "reading" ELSE code
  OBVIOUS
<1>5. PICK rec : rec = Returned(parts, code, received[f])
  OBVIOUS
<1>6. /\ reader[f] = "reading"
      /\ taken'  = [taken EXCEPT ![f] = last]
      /\ got'    = [got EXCEPT ![f] = NextParts(parts)]
      /\ reader' = [reader EXCEPT ![f] = r]
      /\ received' = [received EXCEPT ![f] = rec]
  <2>1. reader[f] = "reading" /\ reader' = [reader EXCEPT ![f] = IF code = "OK" THEN @ ELSE code]
    BY <1>1, <1>2, <1>3
  <2>2. reader' = [reader EXCEPT ![f] = r]
    BY <1>4, <2>1
  <2>3. received' = [received EXCEPT ![f] = rec]
    BY <1>1, <1>2, <1>3, <1>5 DEF Returned
  <2>. QED
    BY <1>1, <1>2, <2>1, <2>2, <2>3
<1>u. UNCHANGED <<wire, segments, small, seen>>
  BY <1>1
<1>7. /\ wire \in [Flow -> Seq(Items)] /\ segments \in [Flow -> Seq(Segment)]
      /\ small \in SmallShapes
      /\ got \in [Flow -> Seq(Seq(Byte))] /\ taken \in [Flow -> Nat]
      /\ reader \in [Flow -> {"reading"} \cup Fault] /\ received \in [Flow -> Seq(Frame)]
      /\ seen \in Seq(Segment) /\ Len(seen) <= MaxPackets
      /\ \A i \in 1..Len(seen) : Captured(seen[i])
  BY DEF CaptureInv
<1>8. \A g \in Flow : /\ Cut(g, segments[g], Len(Bytes(g)))
                      /\ Reading(wire[g], got[g], taken[g], reader[g], received[g])
                      /\ taken[g] <= Sent(g)
  BY DEF CaptureInv
<1>9. \A g \in Flow : Bytes(g)' = Bytes(g) /\ Sent(g)' = Sent(g)
  BY <1>u DEF Bytes, Sent
<1>10. last = taken[f] + Wanted(got[f]) /\ last <= Sent(f)
  BY DEF Readable
<1>11. Bytes(f) = Before(wire[f], Len(wire[f])) /\ Len(Bytes(f)) \in Nat
  BY <1>7, BytesIs
<1>12. Sent(f) \in 0..Len(Bytes(f))
  <2>1. Sent(f) = Cuts(segments[f])
    BY DEF Sent, Cuts
  <2>. QED
    BY <1>8, <1>11, <2>1, CutsIs
<1>13. Reading(wire[f], NextParts(parts), last, r, rec)
  <2>1. Reading(wire[f], got[f], taken[f], "reading", received[f]) /\ wire[f] \in Seq(Items)
    BY <1>6, <1>7, <1>8
  <2>2. Wanted(got[f]) \in Nat /\ taken[f] \in Nat
    BY <1>7, <2>1, WantedIs
  <2>3. last <= Len(Bytes(f))
    BY <1>10, <1>11, <1>12, <2>2
  <2>4. PICK bytes : bytes = Bytes(f)
    OBVIOUS
  <2>5. /\ bytes = Before(wire[f], Len(wire[f])) /\ last <= Len(bytes)
        /\ parts = Append(got[f], SubSeq(bytes, taken[f] + 1, last))
    BY <1>2, <1>11, <2>3, <2>4, Zenon
  <2>6. Reading(wire[f], NextParts(parts), last, IF code = "OK" THEN "reading" ELSE code,
                Returned(parts, code, received[f]))
    BY <1>3, <1>10, <2>1, <2>5, ReadStep, Zenon
  <2>. QED
    BY <1>4, <1>5, <2>6, Zenon
<1>14. /\ NextParts(parts) \in Seq(Seq(Byte)) /\ last \in Nat
       /\ r \in {"reading"} \cup Fault /\ rec \in Seq(Frame)
  BY <1>13 DEF Reading
<1>15. ASSUME NEW g \in Flow
       PROVE  /\ Cut(g, segments'[g], Len(Bytes(g)'))
              /\ Reading(wire'[g], got'[g], taken'[g], reader'[g], received'[g])
              /\ taken'[g] <= Sent(g)'
  <2>1. CASE g # f
    BY <1>6, <1>7, <1>8, <1>9, <1>u, <2>1
  <2>2. CASE g = f
    <3>1. got'[f] = NextParts(parts) /\ taken'[f] = last /\ reader'[f] = r /\ received'[f] = rec
      BY <1>6, <1>7
    <3>. QED
      BY <1>8, <1>9, <1>10, <1>13, <1>u, <2>2, <3>1
  <2>. QED
    BY <2>1, <2>2
<1>16. \A i \in 1..Len(seen) : Captured(seen[i])'
  BY <1>7, <1>u DEF Captured, Empty
<1>17. /\ got' \in [Flow -> Seq(Seq(Byte))] /\ taken' \in [Flow -> Nat]
       /\ reader' \in [Flow -> {"reading"} \cup Fault] /\ received' \in [Flow -> Seq(Frame)]
  BY <1>6, <1>7, <1>14
<1>. QED
  BY <1>7, <1>15, <1>16, <1>17, <1>u DEF CaptureInv

LEMMA CaptureUnchanged ==
  ASSUME CaptureInv, UNCHANGED vars
  PROVE  CaptureInv'
<1>u. UNCHANGED <<wire, segments, got, taken, reader, received, small, seen>>
  BY DEF vars
<1>1. \A g \in Flow : Bytes(g)' = Bytes(g) /\ Sent(g)' = Sent(g)
  BY <1>u DEF Bytes, Sent
<1>2. \A s : Captured(s)' <=> Captured(s)
  BY <1>u DEF Captured, Empty
<1>. QED
  BY <1>u, <1>1, <1>2 DEF CaptureInv

THEOREM CaptureInvariant == Spec => []CaptureInv
<1>1. CaptureInv /\ [Next]_vars => CaptureInv'
  <2>. SUFFICES ASSUME CaptureInv, [Next]_vars PROVE CaptureInv'
    OBVIOUS
  <2>1. CASE UNCHANGED vars
    BY <2>1, CaptureUnchanged
  <2>2. ASSUME NEW f \in Flow, Send(f) PROVE CaptureInv'
    BY <2>2, CaptureSend
  <2>3. ASSUME NEW f \in Flow, See(f) PROVE CaptureInv'
    BY <2>3, CaptureSee
  <2>4. ASSUME NEW f \in Flow, Read(f) PROVE CaptureInv'
    BY <2>4, CaptureRead
  <2>. QED
    BY <2>1, <2>2, <2>3, <2>4 DEF Next
<1>. QED
  BY <1>1, CaptureInit, PTL DEF Spec

(* The streams, their readers and the capture keep their types.            *)
THEOREM CaptureTypeOK == Spec => []TypeOK
<1>1. CaptureInv => TypeOK
  <2>. SUFFICES ASSUME CaptureInv PROVE TypeOK
    OBVIOUS
  <2>1. ASSUME NEW f \in Flow
        PROVE  /\ Sent(f) \in 0..Len(Bytes(f)) /\ Len(got[f]) \in 0..2
               /\ taken[f] \in 0..Sent(f) /\ reader[f] \in {"reading"} \cup Fault
    <3>1. Sent(f) = Cuts(segments[f])
      BY DEF Sent, Cuts
    <3>2. Len(Bytes(f)) \in Nat
      BY BytesIs DEF CaptureInv
    <3>3. Sent(f) \in 0..Len(Bytes(f))
      BY <3>1, <3>2, CutsIs DEF CaptureInv
    <3>4. /\ got[f] \in Seq(Seq(Byte)) /\ Len(got[f]) <= 2
          /\ taken[f] \in Nat /\ taken[f] <= Sent(f) /\ reader[f] \in {"reading"} \cup Fault
      BY DEF CaptureInv, Reading
    <3>5. Len(got[f]) \in 0..2
      <4>1. PICK n \in Nat : n = Len(got[f])
        BY <3>4, LenProperties
      <4>2. n <= 2
        BY <3>4, <4>1, Zenon
      <4>3. n \in 0..2
        BY <4>2
      <4>. QED
        BY <4>1, <4>3, Zenon
    <3>. QED
      BY <3>2, <3>3, <3>4, <3>5
  <2>. QED
    BY <2>1 DEF TypeOK, CaptureInv
<1>. QED
  BY <1>1, CaptureInvariant, PTL

(* However the stream is cut into segments, read_frame returns the frames  *)
(* that were written, up to the first with a fault, and fails there with   *)
(* the fault that the order of the decoder's checks puts first.            *)
THEOREM CaptureReadsWhatWasWritten == Spec => []ReadsWhatWasWritten
<1>1. CaptureInv => ReadsWhatWasWritten
  <2>. SUFFICES ASSUME CaptureInv PROVE ReadsWhatWasWritten
    OBVIOUS
  <2>1. ASSUME NEW f \in Flow
        PROVE  LET n == Len(received[f])
               IN  /\ \A i \in 1..n : received[f][i] = Written(wire[f][i]) /\ wire[f][i].faults = {}
                   /\ reader[f] # "reading" => \E k \in DOMAIN Order :
                        /\ reader[f] = Order[k]
                        /\ Order[k] \in wire[f][n + 1].faults
                        /\ \A j \in 1..k - 1 : Order[j] \notin wire[f][n + 1].faults
    <3>1. Reading(wire[f], got[f], taken[f], reader[f], received[f])
      BY DEF CaptureInv
    <3>2. DOMAIN Order = 1..7
      BY DEF Order
    <3>. QED
      BY <3>1, <3>2, Zenon DEF Reading, FirstFault
  <2>. QED
    BY <2>1, Zenon DEF ReadsWhatWasWritten, Order
<1>. QED
  BY <1>1, CaptureInvariant, PTL

-----------------------------------------------------------------------------
(* Capture files.                                                          *)

\* A record of a file: its header and the packet.
Record(p, order) == <<[order |-> order], [order |-> order, value |-> Len(p)]>> \o p

\* read_packets at the at-th byte: where a record ends, and whether it cannot.
FieldAt(file, at) ==
  IF file[at + 1].order = OrderOf(file[1]) THEN file[at + 1].value ELSE Len(file)
EndAt(file, at) == at + RecordHeaderSize + FieldAt(file, at)
CutAt(file, at) ==
  \/ at + RecordHeaderSize > Len(file) + 1
  \/ EndAt(file, at) \notin at + RecordHeaderSize..Len(file) + 1
Packet1(file, at) == SubSeq(file, at + RecordHeaderSize, EndAt(file, at) - 1)

ReadAs(code, packets) == [code |-> code, packets |-> packets]

Readers(file, B) ==
  [1..(Len(file) + 1) -> [code : {"OK", "ERR_PCAP"}, packets : Seq(Seq(B))]]

\* What read_packets yields from each byte on.
Yields(file, g) ==
  \A at \in 1..(Len(file) + 1) :
    /\ at = Len(file) + 1 => g[at] = ReadAs("OK", << >>)
    /\ at # Len(file) + 1 /\ CutAt(file, at) => g[at] = ReadAs("ERR_PCAP", << >>)
    /\ at # Len(file) + 1 /\ ~CutAt(file, at) =>
         LET later == g[EndAt(file, at)]
         IN  g[at] = ReadAs(later.code, <<Packet1(file, at)>> \o later.packets)

LEMMA RecursionValues ==
  ASSUME NEW D, NEW V, NEW m, NEW rank, NEW Stop, NEW base, NEW next, NEW step,
         Descends(D, V, m, rank, Stop, base, next, step),
         NEW h, \A d \in D : /\ d \in Stop => h[d] = base[d]
                             /\ d \notin Stop /\ h[next[d]] \in V => h[d] = step[d][h[next[d]]]
  PROVE  \A d \in D : h[d] \in V
<1>. USE DEF Descends
<1>. DEFINE P(n) == \A d \in D : rank[d] < n => h[d] \in V
            T == {n \in Nat : P(n)}
<1>1. P(0)
  OBVIOUS
<1>2. ASSUME NEW n \in Nat, P(n) PROVE P(n + 1)
  <2>. SUFFICES ASSUME NEW d \in D, rank[d] < n + 1 PROVE h[d] \in V
    OBVIOUS
  <2>1. CASE d \in Stop
    BY <2>1
  <2>2. CASE d \notin Stop
    <3>1. next[d] \in D /\ rank[next[d]] < n
      BY <2>2
    <3>2. h[next[d]] \in V
      BY <1>2, <3>1
    <3>. QED
      BY <2>2, <3>2
  <2>. QED
    BY <2>1, <2>2
<1>. HIDE DEF P
<1>3. T = Nat
  <2>1. T \in SUBSET Nat /\ 0 \in T /\ \A n \in T : n + 1 \in T
    BY <1>1, <1>2
  <2>. HIDE DEF T
  <2>. QED
    BY <2>1, Induction
<1>4. P(m + 1)
  BY <1>3
<1>. QED
  BY <1>4 DEF P

LEMMA ReadPacketsIs ==
  ASSUME NEW B, NEW file \in Seq(B), Len(file) >= 2, file[1].order \in ByteOrder
  PROVE  \E g \in Readers(file, B) : Yields(file, g) /\ ReadPackets(file) = g[3]
<1>. DEFINE D == 1..(Len(file) + 1)
            V == [code : {"OK", "ERR_PCAP"}, packets : Seq(Seq(B))]
            New(at, later) == [later EXCEPT !.packets = <<Packet1(file, at)>> \o @]
            Rec(f) == f = [at \in 1..(Len(file) + 1) |->
              IF at = Len(file) + 1 THEN [code |-> "OK", packets |-> << >>]
              ELSE IF CutAt(file, at) THEN [code |-> "ERR_PCAP", packets |-> << >>]
              ELSE New(at, f[EndAt(file, at)])]
            F == CHOOSE f : Rec(f)
<1>0. Len(file) \in Nat
  BY LenProperties
<1>1. ReadPackets(file) = F[3]
  <2>1. ~(Len(file) < FileHeaderSize \/ OrderOf(file[1]) \notin ByteOrder)
    BY <1>0 DEF FileHeaderSize, OrderOf
  <2>2. ReadPackets(file) = F[FileHeaderSize + 1]
    BY <2>1, Zenon DEF ReadPackets, EndAt, FieldAt, CutAt, Packet1
  <2>3. FileHeaderSize + 1 = 3
    BY DEF FileHeaderSize
  <2>. QED
    BY <2>2, <2>3, Zenon
<1>. DEFINE Stop == {at \in D : at = Len(file) + 1 \/ CutAt(file, at)}
            rank == [at \in D |-> Len(file) + 1 - at]
            base == [at \in D |-> IF at = Len(file) + 1 THEN ReadAs("OK", << >>) ELSE ReadAs("ERR_PCAP", << >>)]
            next == [at \in D |-> IF at \in Stop THEN at ELSE EndAt(file, at)]
            step == [at \in D |-> [v \in V |-> IF at \in Stop THEN v ELSE New(at, v)]]
<1>2. ASSUME NEW at \in D, at \notin Stop
      PROVE  /\ EndAt(file, at) \in D /\ EndAt(file, at) > at
             /\ \A v \in V : /\ New(at, v) \in V
                             /\ New(at, v) = ReadAs(v.code, <<Packet1(file, at)>> \o v.packets)
  <2>1. EndAt(file, at) \in at + 2..Len(file) + 1
    BY <1>0, <1>2 DEF CutAt, RecordHeaderSize
  <2>2. Packet1(file, at) \in Seq(B)
    <3>1. PICK last \in Int : last = EndAt(file, at) - 1 /\ last <= Len(file)
      BY <1>0, <2>1
    <3>2. \A i \in at + 2..last : file[i] \in B
      BY <1>0, <3>1, ElementOfSeq
    <3>. QED
      BY <1>0, <3>1, <3>2, SubSeqProperties DEF Packet1, RecordHeaderSize
  <2>3. ASSUME NEW v \in V
        PROVE  /\ New(at, v) \in V
               /\ New(at, v) = ReadAs(v.code, <<Packet1(file, at)>> \o v.packets)
    <3>1. PICK p \in Seq(B) : p = Packet1(file, at)
      BY <2>2
    <3>2. <<p>> \o v.packets \in Seq(Seq(B))
      <4>1. <<p>> \in Seq(Seq(B)) /\ v.packets \in Seq(Seq(B))
        OBVIOUS
      <4>. QED
        BY <4>1, ConcatProperties
    <3>3. PICK x \in Seq(Seq(B)) : x = <<p>> \o v.packets
      BY <3>2
    <3>4. New(at, v) = [v EXCEPT !.packets = x]
      BY <3>1, <3>3, Zenon
    <3>5. [v EXCEPT !.packets = x] = [code |-> v.code, packets |-> x]
      OBVIOUS
    <3>6. [code |-> v.code, packets |-> x] \in V
      OBVIOUS
    <3>. HIDE DEF V, New
    <3>7. New(at, v) = ReadAs(v.code, x)
      BY <3>4, <3>5, Zenon DEF ReadAs
    <3>. QED
      BY <3>1, <3>3, <3>4, <3>5, <3>6, <3>7, Zenon
  <2>4. EndAt(file, at) \in D /\ EndAt(file, at) > at
    <3>1. PICK e \in at + 2..Len(file) + 1 : e = EndAt(file, at)
      BY <2>1
    <3>2. e \in D /\ e > at
      BY <1>0
    <3>. HIDE DEF D
    <3>. QED
      BY <3>1, <3>2, Zenon
  <2>. HIDE DEF V, New, D
  <2>. QED
    BY <2>3, <2>4, Zenon
<1>3. Descends(D, V, Len(file), rank, Stop, base, next, step)
  <2>1. base \in [D -> V]
    BY DEF ReadAs
  <2>2. next \in [D -> D]
    <3>1. ASSUME NEW at \in D PROVE (IF at \in Stop THEN at ELSE EndAt(file, at)) \in D
      BY <1>2
    <3>. HIDE DEF D, Stop
    <3>. QED
      BY <3>1
  <2>3. step \in [D -> [V -> V]]
    <3>1. ASSUME NEW at \in D, NEW v \in V PROVE (IF at \in Stop THEN v ELSE New(at, v)) \in V
      BY <1>2
    <3>. HIDE DEF D, Stop, V, New
    <3>. QED
      BY <3>1
  <2>4. rank \in [D -> 0..Len(file)]
    BY <1>0
  <2>5. ASSUME NEW at \in D \ Stop PROVE rank[next[at]] < rank[at]
    <3>1. next[at] = EndAt(file, at) /\ EndAt(file, at) \in D /\ EndAt(file, at) > at
      BY <1>2
    <3>. QED
      BY <1>0, <3>1
  <2>. HIDE DEF D, V, Stop, rank, base, next, step
  <2>. QED
    BY <1>0, <2>1, <2>2, <2>3, <2>4, <2>5 DEF Descends
<1>4. \E g \in [D -> V] : Unfolds(g, D, Stop, base, next, step)
  <2>. HIDE DEF D, V, Stop, rank, base, next, step
  <2>. QED
    BY <1>3, Recursion
<1>5. PICK g \in [D -> V] : Unfolds(g, D, Stop, base, next, step)
  BY <1>4
<1>6. ASSUME NEW at \in D
      PROVE  g[at] = IF at = Len(file) + 1 THEN [code |-> "OK", packets |-> << >>]
                     ELSE IF CutAt(file, at) THEN [code |-> "ERR_PCAP", packets |-> << >>]
                     ELSE New(at, g[EndAt(file, at)])
  <2>1. CASE at \in Stop
    BY <1>5, <2>1 DEF Unfolds, ReadAs
  <2>2. CASE at \notin Stop
    <3>1. EndAt(file, at) \in D
      BY <1>2, <2>2
    <3>2. g[EndAt(file, at)] \in V
      BY <3>1
    <3>3. g[at] = step[at][g[next[at]]]
      <4>. HIDE DEF Stop, step, next, base
      <4>. QED
        BY <1>5, <2>2 DEF Unfolds
    <3>4. g[at] = New(at, g[EndAt(file, at)])
      <4>1. next[at] = EndAt(file, at)
        BY <2>2
      <4>2. step[at] = [v \in V |-> New(at, v)]
        BY <2>2
      <4>. HIDE DEF V, New, step, next
      <4>. QED
        BY <3>2, <3>3, <4>1, <4>2
    <3>. QED
      BY <2>2, <3>4
  <2>. QED
    BY <2>1, <2>2
<1>7. Rec(g)
  <2>. HIDE DEF New
  <2>. QED
    BY <1>6
<1>8. Rec(F)
  <2>. HIDE DEF Rec
  <2>. QED
    BY <1>7, Zenon
<1>9. \A at \in D : F[at] = IF at = Len(file) + 1 THEN [code |-> "OK", packets |-> << >>]
                            ELSE IF CutAt(file, at) THEN [code |-> "ERR_PCAP", packets |-> << >>]
                            ELSE New(at, F[EndAt(file, at)])
  <2>. HIDE DEF F, New
  <2>. QED
    BY <1>8
<1>10. \A at \in D : F[at] \in V
  <2>. HIDE DEF F
  <2>1. ASSUME NEW at \in D
        PROVE  /\ at \in Stop => F[at] = base[at]
               /\ at \notin Stop /\ F[next[at]] \in V => F[at] = step[at][F[next[at]]]
    <3>1. CASE at \in Stop
      BY <1>9, <3>1 DEF ReadAs
    <3>2. CASE at \notin Stop
      <4>1. next[at] = EndAt(file, at)
        BY <3>2
      <4>2. step[at] = [v \in V |-> New(at, v)]
        BY <3>2
      <4>3. F[at] = New(at, F[EndAt(file, at)])
        <5>. HIDE DEF New
        <5>. QED
          BY <1>9, <3>2
      <4>. HIDE DEF V, New, step, next
      <4>. QED
        BY <3>2, <4>1, <4>2, <4>3
    <3>. QED
      BY <3>1, <3>2
  <2>. HIDE DEF D, V, Stop, rank, base, next, step
  <2>. QED
    BY <1>3, <2>1, RecursionValues
<1>11. F \in [D -> V]
  <2>1. F = [at \in D |-> F[at]]
    <3>. HIDE DEF F, New
    <3>. QED
      BY <1>8
  <2>. HIDE DEF F, D, V
  <2>. QED
    BY <1>10, <2>1
<1>12. Yields(file, F)
  <2>. SUFFICES ASSUME NEW at \in D
                PROVE  /\ at = Len(file) + 1 => F[at] = ReadAs("OK", << >>)
                       /\ at # Len(file) + 1 /\ CutAt(file, at) => F[at] = ReadAs("ERR_PCAP", << >>)
                       /\ at # Len(file) + 1 /\ ~CutAt(file, at) =>
                            LET later == F[EndAt(file, at)]
                            IN  F[at] = ReadAs(later.code, <<Packet1(file, at)>> \o later.packets)
    BY DEF Yields
  <2>. HIDE DEF F
  <2>1. CASE at \in Stop
    BY <1>9, <2>1 DEF ReadAs
  <2>2. CASE at \notin Stop
    <3>1. PICK v \in V : v = F[EndAt(file, at)]
      BY <1>2, <1>10, <2>2
    <3>2. F[at] = New(at, v)
      <4>. HIDE DEF New, V
      <4>. QED
        BY <1>9, <2>2, <3>1
    <3>3. New(at, v) = ReadAs(v.code, <<Packet1(file, at)>> \o v.packets)
      BY <1>2, <2>2
    <3>. QED
      BY <2>2, <3>1, <3>2, <3>3
  <2>. QED
    BY <2>1, <2>2
<1>. QED
  <2>. HIDE DEF F
  <2>. QED
    BY <1>1, <1>11, <1>12, Zenon DEF Readers

\* What a file of packets of A consists of.
FileByte(A) == A \cup [order : ByteOrder] \cup [order : ByteOrder, value : Nat]

Shaped(r, p, order, A) ==
  /\ r \in Seq(FileByte(A)) /\ p \in Seq(FileByte(A))
  /\ Len(p) \in Nat /\ Len(r) = 2 + Len(p)
  /\ r[2] = [order |-> order, value |-> Len(p)]
  /\ \A k \in 1..Len(p) : r[2 + k] = p[k]

LEMMA RecordIs ==
  ASSUME NEW A, NEW p \in Seq(A), NEW order \in ByteOrder
  PROVE  Shaped(Record(p, order), p, order, A)
<1>r. PICK r : r = Record(p, order)
  OBVIOUS
<1>1. Len(p) \in Nat /\ p \in Seq(FileByte(A))
  <2>1. A \subseteq FileByte(A)
    BY DEF FileByte
  <2>. QED
    BY <2>1, SeqMonotonic, LenProperties
<1>2. PICK h : h = <<[order |-> order], [order |-> order, value |-> Len(p)]>>
  OBVIOUS
<1>3. h \in Seq(FileByte(A)) /\ Len(h) = 2 /\ h[2] = [order |-> order, value |-> Len(p)]
  BY <1>1, <1>2 DEF FileByte
<1>4. r = h \o p
  BY <1>2, <1>r DEF Record
<1>5. /\ r \in Seq(FileByte(A)) /\ Len(r) = 2 + Len(p)
      /\ \A i \in 1..2 + Len(p) : r[i] = IF i <= 2 THEN h[i] ELSE p[i - 2]
  <2>1. /\ h \o p \in Seq(FileByte(A)) /\ Len(h \o p) = Len(h) + Len(p)
        /\ \A i \in 1..Len(h) + Len(p) : (h \o p)[i] = IF i <= Len(h) THEN h[i] ELSE p[i - Len(h)]
    BY <1>1, <1>3, ConcatProperties, Zenon
  <2>2. Len(h) = 2
    BY <1>3
  <2>. QED
    BY <1>4, <2>1, <2>2, Zenon
<1>6. r[2] = [order |-> order, value |-> Len(p)]
  BY <1>1, <1>3, <1>5
<1>7. ASSUME NEW k \in 1..Len(p) PROVE r[2 + k] = p[k]
  <2>1. 2 + k \in 1..2 + Len(p) /\ ~(2 + k <= 2) /\ (2 + k) - 2 = k
    BY <1>1
  <2>. QED
    BY <1>5, <2>1
<1>8. Shaped(r, p, order, A)
  BY <1>1, <1>5, <1>6, <1>7 DEF Shaped
<1>. QED
  BY <1>8, <1>r, Zenon

TakesOne(s, j, x) == SubSeq(s, 1, j) \o (<<s[j + 1]>> \o x) = SubSeq(s, 1, j + 1) \o x

LEMMA TakeOne ==
  ASSUME NEW S, NEW s \in Seq(S), NEW j \in 0..Len(s) - 1, NEW x \in Seq(S)
  PROVE  TakesOne(s, j, x)
<1>1. PICK l \in Nat : l = Len(s)
  BY LenProperties
<1>2. /\ 1 \in 1..Len(s) /\ j + 1 \in 1..Len(s) /\ (j + 1) - 1 = j /\ 1 \in Int /\ j \in Int
      /\ \A i \in 1..j : i \in 1..Len(s)
  BY <1>1
<1>3. SubSeq(s, 1, j + 1) = SubSeq(s, 1, (j + 1) - 1) \o <<s[j + 1]>>
  BY <1>2, SubSeqRecursiveSecond
<1>4. PICK e \in S : e = s[j + 1]
  BY <1>2, ElementOfSeq
<1>5. PICK b \in Seq(S) : b = <<e>>
  <2>1. <<e>> \in Seq(S)
    OBVIOUS
  <2>. QED
    BY <2>1, Zenon
<1>6. \A i \in 1..j : s[i] \in S
  BY <1>2, ElementOfSeq
<1>7. SubSeq(s, 1, j) \in Seq(S)
  BY <1>2, <1>6, SubSeqProperties, Zenon
<1>8. PICK a \in Seq(S) : a = SubSeq(s, 1, j)
  BY <1>7, Zenon
<1>9. (a \o b) \o x = a \o (b \o x)
  BY ConcatAssociative, SMTT(20)
<1>. QED
  BY <1>2, <1>3, <1>4, <1>5, <1>8, <1>9, Zenon DEF TakesOne

\* The reader got from byte t to byte u over the packet p.
Passed(file, g, t, u, p) ==
  /\ u \in Nat /\ u <= Len(file)
  /\ g[t + 1] = ReadAs(g[u + 1].code, <<p>> \o g[u + 1].packets)

\* A file written in this byte order.
OfOrder(file, order) == file[1].order = order

LEMMA RecordRead ==
  ASSUME NEW A, NEW file \in Seq(FileByte(A)), NEW g, Yields(file, g),
         NEW order \in ByteOrder, OfOrder(file, order),
         NEW p \in Seq(A), NEW t \in Nat, HasChunk(file, t, Record(p, order))
  PROVE  Passed(file, g, t, t + (2 + Len(p)), p)
<1>u. PICK u : u = t + (2 + Len(p))
  OBVIOUS
<1>1. PICK r : r = Record(p, order)
  OBVIOUS
<1>2. /\ p \in Seq(FileByte(A)) /\ Len(p) \in Nat /\ Len(r) = 2 + Len(p)
      /\ r[2] = [order |-> order, value |-> Len(p)]
      /\ \A k \in 1..Len(p) : r[2 + k] = p[k]
  <2>1. Shaped(r, p, order, A)
    BY <1>1, RecordIs, Zenon
  <2>. QED
    BY <2>1 DEF Shaped
<1>3. t + Len(r) <= Len(file) /\ \A k \in 1..Len(r) : file[t + k] = r[k]
  BY <1>1 DEF HasChunk
<1>4. Len(file) \in Nat
  BY LenProperties
<1>5. u \in Nat /\ u <= Len(file) /\ u + 1 = (t + 1) + 2 + Len(p)
  BY <1>2, <1>3, <1>4, <1>u
<1>6. file[(t + 1) + 1] = [order |-> order, value |-> Len(p)]
  <2>1. 2 \in 1..Len(r) /\ t + 2 = (t + 1) + 1
    BY <1>2
  <2>. QED
    BY <1>2, <1>3, <2>1
<1>7. EndAt(file, t + 1) = u + 1
  BY <1>5, <1>6 DEF EndAt, FieldAt, OfOrder, OrderOf, RecordHeaderSize
<1>8. t + 1 \in 1..(Len(file) + 1) /\ t + 1 # Len(file) + 1
  BY <1>2, <1>3, <1>4
<1>9. ~CutAt(file, t + 1)
  <2>1. u + 1 \in (t + 1) + 2..Len(file) + 1 /\ ~((t + 1) + 2 > Len(file) + 1)
    BY <1>2, <1>4, <1>5
  <2>. QED
    BY <1>7, <2>1 DEF CutAt, RecordHeaderSize
<1>10. Packet1(file, t + 1) = p
  <2>1. ASSUME NEW k \in 1..Len(p) PROVE file[(t + 2) + k] = p[k]
    <3>1. Len(p) \in Nat /\ Len(r) = 2 + Len(p) /\ k \in 1..Len(p)
      BY <1>2
    <3>. HIDE <1>1
    <3>2. 2 + k \in 1..Len(r) /\ t + (2 + k) = (t + 2) + k
      BY <3>1
    <3>. QED
      BY <1>2, <1>3, <3>2
  <2>2. u = (t + 2) + Len(p) /\ t + 2 \in Nat
    <3>1. Len(p) \in Nat
      BY <1>2
    <3>. QED
      BY <1>u, <3>1
  <2>3. SubSeq(file, (t + 2) + 1, u) = p
    BY <1>2, <1>5, <2>1, <2>2, ChunkIs
  <2>4. (t + 1) + RecordHeaderSize = (t + 2) + 1 /\ (u + 1) - 1 = u
    BY <1>5 DEF RecordHeaderSize
  <2>. QED
    BY <1>7, <2>3, <2>4, Zenon DEF Packet1
<1>11. g[t + 1] = ReadAs(g[EndAt(file, t + 1)].code,
                          <<Packet1(file, t + 1)>> \o g[EndAt(file, t + 1)].packets)
  BY <1>8, <1>9, Zenon DEF Yields
<1>12. g[t + 1] = ReadAs(g[u + 1].code, <<p>> \o g[u + 1].packets)
  BY <1>7, <1>10, <1>11, Zenon
<1>. QED
  <2>1. Passed(file, g, t, u, p)
    BY <1>5, <1>12, Zenon DEF Passed
  <2>. QED
    BY <1>u, <2>1, Zenon

Records(packets, order) == [i \in 1..Len(packets) |-> Record(packets[i], order)]

\* The first n records are in the file.
Begins(file, recs, n) ==
  \A j \in 0..n - 1 : HasChunk(file, 2 + Len(First(recs, j)), recs[j + 1])

\* The reader got to byte t with the first n packets.
Reached(file, g, packets, n, t) ==
  /\ t \in 2..Len(file)
  /\ g[3] = ReadAs(g[t + 1].code, SubSeq(packets, 1, n) \o g[t + 1].packets)

\* A file that starts with records is read from behind them.
LEMMA RecordsRead ==
  ASSUME NEW A, NEW file \in Seq(FileByte(A)), NEW g \in Readers(file, FileByte(A)), Yields(file, g),
         NEW order \in ByteOrder, OfOrder(file, order), Len(file) >= 2,
         NEW packets \in Seq(Seq(A)), NEW n \in 0..Len(packets),
         Begins(file, Records(packets, order), n)
  PROVE  Reached(file, g, packets, n, 2 + Len(First(Records(packets, order), n)))
<1>. DEFINE V == [code : {"OK", "ERR_PCAP"}, packets : Seq(Seq(FileByte(A)))]
<1>g. g \in [1..(Len(file) + 1) -> V]
  BY DEF Readers
<1>r. PICK recs : recs = Records(packets, order)
  OBVIOUS
<1>s. recs = [i \in 1..Len(packets) |-> Record(packets[i], order)]
  BY <1>r DEF Records
<1>c. \A j \in 0..n - 1 : HasChunk(file, 2 + Len(First(recs, j)), recs[j + 1])
  BY <1>r, Zenon DEF Begins
<1>0. Len(packets) \in Nat /\ Len(file) \in Nat /\ n \in Nat
  BY LenProperties
<1>1. recs \in Seq(Seq(FileByte(A))) /\ Len(recs) = Len(packets)
  <2>1. ASSUME NEW i \in 1..Len(packets) PROVE Record(packets[i], order) \in Seq(FileByte(A))
    <3>1. packets[i] \in Seq(A)
      BY ElementOfSeq
    <3>2. Shaped(Record(packets[i], order), packets[i], order, A)
      BY <3>1, RecordIs, Zenon
    <3>. QED
      BY <3>2 DEF Shaped
  <2>2. PICK n2 \in Nat : n2 = Len(packets)
    BY <1>0
  <2>3. recs \in [1..n2 -> Seq(FileByte(A))]
    BY <1>s, <2>1, <2>2
  <2>4. recs \in Seq(Seq(FileByte(A))) /\ Len(recs) = n2
    BY <2>3
  <2>. QED
    BY <2>2, <2>4, Zenon
<1>. DEFINE P(j) == j <= n => LET t == 2 + Len(First(recs, j))
                              IN  /\ t \in 2..Len(file)
                                  /\ g[3] = ReadAs(g[t + 1].code, SubSeq(packets, 1, j) \o g[t + 1].packets)
            T == {j \in Nat : P(j)}
<1>2. P(0)
  <2>1. First(recs, 0) = << >>
    BY <1>1, FirstIs
  <2>2. SubSeq(packets, 1, 0) = << >>
    BY SubSeqEmpty
  <2>3. PICK v \in V : v = g[3]
    <3>1. 3 \in 1..(Len(file) + 1)
      BY <1>0
    <3>. HIDE DEF V
    <3>2. g[3] \in V
      BY <1>g, <3>1
    <3>. QED
      BY <3>2, Zenon
  <2>4. << >> \o v.packets = v.packets
    <3>1. v.packets \in Seq(Seq(FileByte(A)))
      OBVIOUS
    <3>. QED
      BY <3>1, ConcatEmptySeq
  <2>5. v = ReadAs(v.code, v.packets)
    BY DEF ReadAs
  <2>6. 2 + Len(First(recs, 0)) = 2 /\ 2 + 1 = 3 /\ 2 \in 2..Len(file)
    BY <1>0, <2>1
  <2>7. g[3] = ReadAs(g[2 + 1].code, SubSeq(packets, 1, 0) \o g[2 + 1].packets)
    BY <2>2, <2>3, <2>4, <2>5, <2>6, Zenon
  <2>. QED
    BY <2>6, <2>7, Zenon
<1>3. ASSUME NEW j \in Nat, P(j) PROVE P(j + 1)
  <2>. SUFFICES ASSUME j + 1 <= n
                PROVE  LET t == 2 + Len(First(recs, j + 1))
                       IN  /\ t \in 2..Len(file)
                           /\ g[3] = ReadAs(g[t + 1].code, SubSeq(packets, 1, j + 1) \o g[t + 1].packets)
    OBVIOUS
  <2>1. /\ j \in 0..n - 1 /\ j <= n /\ j \in 0..Len(recs) - 1 /\ j + 1 \in 1..Len(packets)
    BY <1>0, <1>1
  <2>2. PICK t : t = 2 + Len(First(recs, j))
    OBVIOUS
  <2>3. /\ t \in 2..Len(file)
        /\ g[3] = ReadAs(g[t + 1].code, SubSeq(packets, 1, j) \o g[t + 1].packets)
    BY <1>3, <2>1, <2>2
  <2>4. PICK p \in Seq(A) : p = packets[j + 1]
    BY <2>1, ElementOfSeq
  <2>5. recs[j + 1] = Record(p, order)
    BY <1>s, <2>1, <2>4
  <2>6. HasChunk(file, t, Record(p, order))
    BY <1>c, <2>1, <2>2, <2>5
  <2>7. PICK u : u = t + (2 + Len(p))
    OBVIOUS
  <2>8. /\ u \in Nat /\ u <= Len(file) /\ t \in Nat
        /\ g[t + 1] = ReadAs(g[u + 1].code, <<p>> \o g[u + 1].packets)
    <3>1. t \in Nat
      BY <2>3
    <3>2. Passed(file, g, t, t + (2 + Len(p)), p)
      BY <2>6, <3>1, RecordRead
    <3>3. Passed(file, g, t, u, p)
      BY <2>7, <3>2, Zenon
    <3>. QED
      BY <3>1, <3>3, Zenon DEF Passed
  <2>9. u = 2 + Len(First(recs, j + 1)) /\ u \in 2..Len(file)
    <3>1. PICK o : o = Len(First(recs, j))
      OBVIOUS
    <3>2. PICK r : r = recs[j + 1]
      OBVIOUS
    <3>3. o \in Nat /\ Len(First(recs, j + 1)) = o + Len(r)
      BY <1>1, <2>1, <3>1, <3>2, FlattenAt
    <3>4. Len(r) = 2 + Len(p) /\ Len(p) \in Nat
      <4>1. Shaped(r, p, order, A)
        BY <2>5, <3>2, RecordIs, Zenon
      <4>. QED
        BY <4>1 DEF Shaped
    <3>5. PICK l \in Nat : l = Len(p)
      BY <3>4
    <3>6. PICK o2 : o2 = Len(First(recs, j + 1))
      OBVIOUS
    <3>7. o2 = o + (2 + l) /\ t = 2 + o /\ u = t + (2 + l)
      BY <2>2, <2>7, <3>1, <3>3, <3>4, <3>5, <3>6, Zenon
    <3>8. u = 2 + o2 /\ u \in 2..Len(file)
      BY <1>0, <2>8, <3>3, <3>7
    <3>. QED
      BY <3>6, <3>8, Zenon
  <2>10. PICK w \in V : w = g[u + 1]
    <3>1. u + 1 \in 1..(Len(file) + 1)
      BY <1>0, <2>8
    <3>. HIDE DEF V
    <3>2. g[u + 1] \in V
      BY <1>g, <3>1
    <3>. QED
      BY <3>2, Zenon
  <2>11. SubSeq(packets, 1, j) \o (<<p>> \o w.packets) = SubSeq(packets, 1, j + 1) \o w.packets
    <3>1. A \subseteq FileByte(A)
      BY DEF FileByte
    <3>2. packets \in Seq(Seq(FileByte(A)))
      BY <3>1, SeqMonotonic
    <3>3. w.packets \in Seq(Seq(FileByte(A)))
      OBVIOUS
    <3>4. PICK x \in Seq(Seq(FileByte(A))) : x = w.packets
      BY <3>3, Zenon
    <3>5. j \in 0..Len(packets) - 1
      BY <1>0, <2>1
    <3>6. SubSeq(packets, 1, j) \o (<<packets[j + 1]>> \o x) = SubSeq(packets, 1, j + 1) \o x
      <4>1. PICK S : S = Seq(FileByte(A))
        OBVIOUS
      <4>2. packets \in Seq(S) /\ x \in Seq(S)
        BY <3>2, <4>1, Zenon
      <4>3. PICK s \in Seq(S) : s = packets
        BY <4>2, Zenon
      <4>4. j \in 0..Len(s) - 1
        BY <3>5, <4>3
      <4>5. TakesOne(s, j, x)
        BY <4>2, <4>4, TakeOne
      <4>. QED
        BY <4>3, <4>5, Zenon DEF TakesOne
    <3>. QED
      BY <2>4, <3>4, <3>6, Zenon
  <2>12. g[3] = ReadAs(w.code, SubSeq(packets, 1, j + 1) \o w.packets)
    <3>1. g[t + 1].code = w.code /\ g[t + 1].packets = <<p>> \o w.packets
      <4>1. g[t + 1] = ReadAs(w.code, <<p>> \o w.packets)
        BY <2>8, <2>10, Zenon
      <4>2. PICK x : x = <<p>> \o w.packets
        OBVIOUS
      <4>3. g[t + 1] = [code |-> w.code, packets |-> x]
        BY <4>1, <4>2, Zenon DEF ReadAs
      <4>4. g[t + 1].code = w.code /\ g[t + 1].packets = x
        BY <4>3
      <4>. QED
        BY <4>2, <4>4, Zenon
    <3>. QED
      BY <2>3, <2>11, <3>1, Zenon
  <2>. HIDE DEF V
  <2>. QED
    BY <2>9, <2>10, <2>12, Zenon
<1>. HIDE DEF P
<1>4. T = Nat
  <2>1. T \in SUBSET Nat /\ 0 \in T /\ \A j \in T : j + 1 \in T
    BY <1>2, <1>3
  <2>. HIDE DEF T
  <2>. QED
    BY <2>1, Induction
<1>5. P(n) /\ n <= n
  <2>1. n <= n
    BY <1>0
  <2>2. P(n)
    BY <1>0, <1>4
  <2>. QED
    BY <2>1, <2>2
<1>. QED
  BY <1>5, <1>r, Zenon DEF P, Reached

\* What write_packets writes.
Holds(file, recs, packets, order, A) ==
  /\ recs \in Seq(Seq(FileByte(A))) /\ Len(recs) = Len(packets)
  /\ file \in Seq(FileByte(A)) /\ OfOrder(file, order)
  /\ Len(file) = 2 + Len(First(recs, Len(recs))) /\ Len(file) >= 2
  /\ Begins(file, recs, Len(recs))
  /\ \A j \in 0..Len(recs) - 1 : Shaped(recs[j + 1], packets[j + 1], order, A)

LEMMA RecordsAre ==
  ASSUME NEW A, NEW packets \in Seq(Seq(A)), NEW order \in ByteOrder,
         NEW i \in 1..Len(packets)
  PROVE  Shaped(Records(packets, order)[i], packets[i], order, A)
<1>1. packets[i] \in Seq(A)
  BY ElementOfSeq
<1>2. Shaped(Record(packets[i], order), packets[i], order, A)
  BY <1>1, RecordIs, Zenon
<1>3. Records(packets, order)[i] = Record(packets[i], order)
  BY DEF Records
<1>. QED
  BY <1>2, <1>3, Zenon

LEMMA WriteIs ==
  ASSUME NEW A, NEW packets \in Seq(Seq(A)), NEW order \in ByteOrder
  PROVE  Holds(WritePackets(packets, order), Records(packets, order), packets, order, A)
<1>1. PICK recs : recs = Records(packets, order)
  OBVIOUS
<1>2. PICK n \in Nat : n = Len(packets)
  BY LenProperties
<1>3. \A i \in 1..n : Shaped(recs[i], packets[i], order, A)
  BY <1>1, <1>2, RecordsAre
<1>4. recs \in Seq(Seq(FileByte(A))) /\ Len(recs) = n
  <2>1. \A i \in 1..n : recs[i] \in Seq(FileByte(A))
    BY <1>3 DEF Shaped
  <2>2. recs \in [1..n -> Seq(FileByte(A))]
    BY <1>1, <1>2, <2>1 DEF Records
  <2>. QED
    BY <2>2
<1>5. PICK h : h = <<[order |-> order], [order |-> order]>>
  OBVIOUS
<1>6. h \in Seq(FileByte(A)) /\ Len(h) = 2 /\ h[1].order = order
  BY <1>5 DEF FileByte
<1>7. PICK s : s = FlattenSeq(recs)
  OBVIOUS
<1>8. s \in Seq(FileByte(A)) /\ Len(s) \in Nat /\ s = First(recs, n)
  <2>1. s \in Seq(FileByte(A)) /\ s = First(recs, n)
    BY <1>4, <1>7, FlattenType, FirstIs
  <2>. QED
    BY <2>1, LenProperties
<1>9. PICK file : file = h \o s
  OBVIOUS
<1>10. /\ file \in Seq(FileByte(A)) /\ Len(file) = 2 + Len(s)
       /\ \A k \in 1..2 + Len(s) : file[k] = IF k <= 2 THEN h[k] ELSE s[k - 2]
  <2>1. /\ h \o s \in Seq(FileByte(A)) /\ Len(h \o s) = Len(h) + Len(s)
        /\ \A i \in 1..Len(h) + Len(s) : (h \o s)[i] = IF i <= Len(h) THEN h[i] ELSE s[i - Len(h)]
    BY <1>6, <1>8, ConcatProperties, Zenon
  <2>2. Len(h) = 2
    BY <1>6
  <2>. QED
    BY <1>9, <2>1, <2>2, Zenon
<1>11. WritePackets(packets, order) = file
  <2>1. [i \in DOMAIN packets |->
          <<[order |-> order], [order |-> order, value |-> Len(packets[i])]>> \o packets[i]] = recs
    <3>1. DOMAIN packets = 1..Len(packets)
      OBVIOUS
    <3>. QED
      BY <1>1, <3>1, Zenon DEF Records, Record
  <2>. QED
    BY <1>5, <1>7, <1>9, <2>1, Zenon DEF WritePackets
<1>12. ASSUME NEW j \in 0..n - 1
       PROVE  HasChunk(file, 2 + Len(First(recs, j)), recs[j + 1])
  <2>1. PICK r, t : r = recs[j + 1] /\ t = Len(First(recs, j))
    OBVIOUS
  <2>2. r \in Seq(FileByte(A)) /\ t \in Nat /\ HasChunk(s, t, r)
    BY <1>4, <1>7, <2>1, FlattenAt
  <2>3. Len(r) \in Nat /\ t + Len(r) <= Len(s) /\ \A k \in 1..Len(r) : s[t + k] = r[k]
    BY <2>2, LenProperties DEF HasChunk
  <2>4. ASSUME NEW k \in 1..Len(r) PROVE file[(2 + t) + k] = r[k]
    <3>1. /\ (2 + t) + k \in 1..2 + Len(s) /\ ~((2 + t) + k <= 2)
          /\ ((2 + t) + k) - 2 = t + k
      BY <1>8, <2>2, <2>3
    <3>. QED
      BY <1>10, <2>3, <3>1
  <2>5. (2 + t) + Len(r) <= Len(file)
    BY <1>8, <1>10, <2>2, <2>3
  <2>6. HasChunk(file, 2 + t, r)
    BY <2>4, <2>5 DEF HasChunk
  <2>. QED
    BY <2>1, <2>6, Zenon
<1>13. Len(file) = 2 + Len(First(recs, n)) /\ Len(file) >= 2 /\ file[1] = h[1]
  BY <1>8, <1>10
<1>14. \A j \in 0..n - 1 : Shaped(recs[j + 1], packets[j + 1], order, A)
  <2>1. \A j \in 0..n - 1 : j + 1 \in 1..n
    OBVIOUS
  <2>. QED
    BY <1>3, <2>1
<1>15. OfOrder(file, order)
  BY <1>6, <1>13 DEF OfOrder
<1>16. Holds(file, recs, packets, order, A)
  BY <1>2, <1>4, <1>10, <1>12, <1>13, <1>14, <1>15, Zenon DEF Holds, Begins
<1>. QED
  BY <1>1, <1>11, <1>16, Zenon

\* A file that begins like one that write_packets wrote, up to record n.
LEMMA StartsRead ==
  ASSUME NEW A, NEW packets \in Seq(Seq(A)), NEW order \in ByteOrder,
         NEW n \in 0..Len(packets), NEW file \in Seq(FileByte(A)), Len(file) >= 2, OfOrder(file, order),
         Begins(file, Records(packets, order), n)
  PROVE  \E g \in Readers(file, FileByte(A)) :
           /\ Yields(file, g) /\ ReadPackets(file) = g[3]
           /\ Reached(file, g, packets, n, 2 + Len(First(Records(packets, order), n)))
<1>1. file[1].order \in ByteOrder
  BY DEF OfOrder
<1>2. PICK g \in Readers(file, FileByte(A)) : Yields(file, g) /\ ReadPackets(file) = g[3]
  BY <1>1, ReadPacketsIs
<1>3. Reached(file, g, packets, n, 2 + Len(First(Records(packets, order), n)))
  BY <1>2, RecordsRead
<1>. QED
  BY <1>2, <1>3, Zenon


LEMMA WholeFile ==
  ASSUME NEW A, NEW packets \in Seq(Seq(A)), NEW order \in ByteOrder
  PROVE  ReadPackets(WritePackets(packets, order)) = ReadAs("OK", packets)
<1>1. PICK file, recs : file = WritePackets(packets, order) /\ recs = Records(packets, order)
  OBVIOUS
<1>2. Holds(file, recs, packets, order, A)
  BY <1>1, WriteIs, Zenon
<1>3. PICK n \in Nat : n = Len(packets)
  BY LenProperties
<1>4. /\ file \in Seq(FileByte(A)) /\ OfOrder(file, order) /\ Len(file) >= 2
      /\ Len(recs) = n /\ Len(file) = 2 + Len(First(recs, n)) /\ Begins(file, recs, n)
  BY <1>2, <1>3, Zenon DEF Holds
<1>5. n \in 0..Len(packets) /\ Len(file) \in Nat
  BY <1>3, <1>4, LenProperties
<1>6. PICK g \in Readers(file, FileByte(A)) :
        /\ Yields(file, g) /\ ReadPackets(file) = g[3]
        /\ Reached(file, g, packets, n, 2 + Len(First(Records(packets, order), n)))
  BY <1>1, <1>4, <1>5, StartsRead
<1>7. Reached(file, g, packets, n, Len(file))
  BY <1>1, <1>4, <1>6, Zenon
<1>8. g[Len(file) + 1] = ReadAs("OK", << >>)
  <2>1. Len(file) + 1 \in 1..(Len(file) + 1)
    BY <1>5
  <2>. QED
    BY <1>6, <2>1, Zenon DEF Yields
<1>9. ReadAs("OK", << >>).code = "OK" /\ ReadAs("OK", << >>).packets = << >>
  BY DEF ReadAs
<1>10. g[3] = ReadAs("OK", SubSeq(packets, 1, n) \o << >>)
  BY <1>7, <1>8, <1>9, Zenon DEF Reached
<1>11. SubSeq(packets, 1, n) \o << >> = packets
  <2>1. PICK S : S = Seq(A)
    OBVIOUS
  <2>2. packets \in Seq(S)
    BY <2>1, Zenon
  <2>3. SubSeq(packets, 1, Len(packets)) = packets /\ packets \o << >> = packets
    BY <2>2, SubSeqFull, ConcatEmptySeq
  <2>. QED
    BY <1>3, <2>3, Zenon
<1>. QED
  BY <1>1, <1>6, <1>10, <1>11, Zenon

\* A file that ends inside its last record.
EndsInLast(packets, order, n, m) ==
  /\ Len(packets) = n + 1
  /\ 2 + Len(First(Records(packets, order), n)) < m /\ m < Len(WritePackets(packets, order))

LEMMA CutFile ==
  ASSUME NEW A, NEW packets \in Seq(Seq(A)), NEW order \in ByteOrder,
         NEW n \in Nat, NEW m \in Nat, EndsInLast(packets, order, n, m)
  PROVE  ReadPackets(SubSeq(WritePackets(packets, order), 1, m))
           = ReadAs("ERR_PCAP", SubSeq(packets, 1, n))
<1>0. Len(packets) = n + 1
  BY DEF EndsInLast
<1>1. PICK file, recs, t : /\ file = WritePackets(packets, order) /\ recs = Records(packets, order)
                           /\ t = 2 + Len(First(recs, n))
  OBVIOUS
<1>2. Holds(file, recs, packets, order, A)
  BY <1>1, WriteIs, Zenon
<1>2a. Len(recs) = n + 1
  BY <1>0, <1>2, Zenon DEF Holds
<1>3. /\ file \in Seq(FileByte(A)) /\ OfOrder(file, order) /\ Len(file) >= 2
      /\ recs \in Seq(Seq(FileByte(A))) /\ Len(recs) = n + 1
      /\ Len(file) = 2 + Len(First(recs, n + 1)) /\ Begins(file, recs, n + 1)
      /\ \A j \in 0..(n + 1) - 1 : Shaped(recs[j + 1], packets[j + 1], order, A)
  BY <1>0, <1>2, <1>2a DEF Holds
<1>4. PICK r, p, o : r = recs[n + 1] /\ p = packets[n + 1] /\ o = Len(First(recs, n))
  OBVIOUS
<1>5. n \in 0..(n + 1) - 1 /\ n \in 0..Len(recs) - 1 /\ n \in 0..Len(recs) /\ n \in 0..Len(packets)
  BY <1>0, <1>2a
<1>6. /\ Len(p) \in Nat /\ Len(r) = 2 + Len(p) /\ r[2] = [order |-> order, value |-> Len(p)]
  <2>1. Shaped(r, p, order, A)
    BY <1>3, <1>4, <1>5, Zenon
  <2>. QED
    BY <2>1 DEF Shaped
<1>7. o \in Nat /\ Len(First(recs, n + 1)) = o + Len(r)
  BY <1>3, <1>4, <1>5, FlattenAt
<1>8. t = 2 + o /\ Len(file) = t + 2 + Len(p) /\ t < m /\ m < Len(file) /\ t \in Nat /\ t >= 2
  <2>1. t = 2 + o /\ Len(file) = 2 + (o + Len(r)) /\ t < m /\ m < Len(file)
    BY <1>1, <1>3, <1>4, <1>7, Zenon DEF EndsInLast
  <2>. QED
    BY <1>6, <1>7, <2>1
<1>9. \A k \in 1..Len(r) : file[t + k] = r[k]
  <2>1. HasChunk(file, t, r)
    BY <1>1, <1>3, <1>4, <1>5, Zenon DEF Begins
  <2>. QED
    BY <2>1, Zenon DEF HasChunk
<1>10. PICK cut : cut = SubSeq(file, 1, m)
  OBVIOUS
<1>11. cut \in Seq(FileByte(A)) /\ Len(cut) = m /\ \A k \in 1..m : cut[k] = file[k]
  <2>1. Len(file) \in Nat /\ m <= Len(file)
    BY <1>3, <1>8, LenProperties
  <2>2. \A k \in 1..m : file[k] \in FileByte(A)
    <3>1. \A k \in 1..m : k \in 1..Len(file)
      BY <2>1
    <3>. QED
      BY <1>3, <3>1, ElementOfSeq
  <2>3. cut \in Seq(FileByte(A))
    BY <1>10, <2>2, SubSeqProperties
  <2>. QED
    BY <1>10, <2>1, <2>3, SubSeqProperties
<1>12. /\ OfOrder(cut, order) /\ Len(cut) >= 2
  <2>1. 1 \in 1..m /\ m >= 2
    BY <1>8
  <2>. QED
    BY <1>3, <1>11, <2>1 DEF OfOrder
<1>13. Begins(cut, recs, n)
  <2>. SUFFICES ASSUME NEW j \in 0..n - 1
                PROVE  HasChunk(cut, 2 + Len(First(recs, j)), recs[j + 1])
    BY Zenon DEF Begins
  <2>1. PICK c, s : c = recs[j + 1] /\ s = Len(First(recs, j))
    OBVIOUS
  <2>2. j \in 0..(n + 1) - 1 /\ j \in 0..Len(recs) - 1 /\ j + 1 \in 0..Len(recs) /\ n \in (j + 1)..Len(recs)
    BY <1>3
  <2>3. s \in Nat /\ c \in Seq(FileByte(A)) /\ Len(First(recs, j + 1)) = s + Len(c)
    BY <1>3, <2>1, <2>2, FlattenAt
  <2>4. Len(First(recs, j + 1)) <= Len(First(recs, n))
    BY <1>3, <2>2, FirstPrefix
  <2>5. Len(c) \in Nat /\ s + Len(c) <= o
    <3>1. s + Len(c) <= o
      BY <1>4, <2>3, <2>4, Zenon
    <3>. QED
      BY <2>3, <3>1, LenProperties
  <2>6. \A k \in 1..Len(c) : file[(2 + s) + k] = c[k]
    <3>1. HasChunk(file, 2 + s, c)
      BY <1>3, <2>1, <2>2, Zenon DEF Begins
    <3>. QED
      BY <3>1, Zenon DEF HasChunk
  <2>7. ASSUME NEW k \in 1..Len(c) PROVE cut[(2 + s) + k] = c[k]
    <3>1. (2 + s) + k \in 1..m
      BY <1>7, <1>8, <2>3, <2>5
    <3>. QED
      BY <1>11, <2>6, <3>1, Zenon
  <2>8. (2 + s) + Len(c) <= Len(cut)
    BY <1>7, <1>8, <1>11, <2>3, <2>5
  <2>9. HasChunk(cut, 2 + s, c)
    BY <2>7, <2>8 DEF HasChunk
  <2>. QED
    BY <2>1, <2>9, Zenon
<1>14. PICK g \in Readers(cut, FileByte(A)) :
        /\ Yields(cut, g) /\ ReadPackets(cut) = g[3]
        /\ Reached(cut, g, packets, n, 2 + Len(First(Records(packets, order), n)))
  BY <1>1, <1>5, <1>11, <1>12, <1>13, StartsRead
<1>15. Reached(cut, g, packets, n, t)
  BY <1>1, <1>14, Zenon
<1>16. CutAt(cut, t + 1)
  <2>1. CASE (t + 1) + 2 > m + 1
    BY <1>11, <2>1 DEF CutAt, RecordHeaderSize
  <2>2. CASE ~((t + 1) + 2 > m + 1)
    <3>1. (t + 1) + 1 \in 1..m /\ 2 \in 1..Len(r) /\ t + 2 = (t + 1) + 1
      <4>1. t \in Nat
        BY <1>8
      <4>2. (t + 1) + 1 \in 1..m /\ t + 2 = (t + 1) + 1
        BY <2>2, <4>1
      <4>3. 2 \in 1..Len(r)
        BY <1>6
      <4>. QED
        BY <4>2, <4>3
    <3>2. cut[(t + 1) + 1] = [order |-> order, value |-> Len(p)]
      BY <1>6, <1>9, <1>11, <3>1
    <3>3. FieldAt(cut, t + 1) = Len(p)
      BY <1>12, <3>2 DEF FieldAt, OfOrder, OrderOf
    <3>4. EndAt(cut, t + 1) = (t + 1) + 2 + Len(p)
      BY <3>3 DEF EndAt, RecordHeaderSize
    <3>5. EndAt(cut, t + 1) \notin (t + 1) + 2..Len(cut) + 1
      BY <1>6, <1>8, <1>11, <3>4
    <3>. QED
      BY <3>5 DEF CutAt, RecordHeaderSize
  <2>. QED
    BY <2>1, <2>2
<1>17. g[t + 1] = ReadAs("ERR_PCAP", << >>)
  <2>1. t + 1 \in 1..(Len(cut) + 1) /\ t + 1 # Len(cut) + 1
    BY <1>8, <1>11
  <2>. QED
    BY <1>14, <1>16, <2>1, Zenon DEF Yields
<1>18. ReadAs("ERR_PCAP", << >>).code = "ERR_PCAP" /\ ReadAs("ERR_PCAP", << >>).packets = << >>
  BY DEF ReadAs
<1>19. g[3] = ReadAs("ERR_PCAP", SubSeq(packets, 1, n) \o << >>)
  BY <1>15, <1>17, <1>18, Zenon DEF Reached
<1>20. SubSeq(packets, 1, n) \o << >> = SubSeq(packets, 1, n)
  <2>1. PICK S : S = Seq(A)
    OBVIOUS
  <2>2. packets \in Seq(S)
    BY <2>1, Zenon
  <2>3. \A i \in 1..n : packets[i] \in S
    <3>1. \A i \in 1..n : i \in 1..Len(packets)
      BY <1>0
    <3>. QED
      BY <2>2, <3>1, ElementOfSeq
  <2>4. SubSeq(packets, 1, n) \in Seq(S)
    BY <2>3, SubSeqProperties
  <2>. QED
    BY <2>4, ConcatEmptySeq
<1>. QED
  BY <1>1, <1>10, <1>14, <1>19, <1>20, Zenon


\* The byte of a packet that stands for its headers, and the others.
Headers == [l4 : {"TCP", "UDP", "none"}, flow : Flow, total : Nat]
LinkByte == Byte \cup Headers

\* How long the headers say a packet is.
Declared(segment) == IF Shape(segment).declares THEN Total(Payload(segment)) ELSE 0

LEMMA PartOf ==
  ASSUME NEW S, NEW s \in Seq(S), NEW a \in Nat \ {0}, NEW b \in Nat, b <= Len(s)
  PROVE  SubSeq(s, a, b) \in Seq(S) /\ Len(SubSeq(s, a, b)) = IF a <= b THEN b - a + 1 ELSE 0
<1>1. Len(s) \in Nat
  BY LenProperties
<1>2. \A k \in a..b : k \in 1..Len(s)
  BY <1>1
<1>3. \A k \in a..b : s[k] \in S
  BY <1>2, ElementOfSeq
<1>. QED
  BY <1>3, SubSeqProperties

\* What is seen is a part of what its sender writes.
LEMMA SeenPart ==
  ASSUME CaptureInv, NEW i \in 1..Len(seen)
  PROVE  \E a \in Nat \ {0}, b \in Nat :
           /\ seen[i].flow \in Flow /\ b <= Len(Bytes(seen[i].flow))
           /\ Payload(seen[i]) = SubSeq(Bytes(seen[i].flow), a, b)
<1>1. PICK s \in Segment : s = seen[i]
  <2>1. seen \in Seq(Segment)
    BY DEF CaptureInv
  <2>2. seen[i] \in Segment
    BY <2>1, ElementOfSeq
  <2>. QED
    BY <2>2, Zenon
<1>2. PICK f \in Flow : s \in ToSet(segments[f]) \cup {Empty(f)}
  BY <1>1, Zenon DEF CaptureInv, Captured
<1>3. PICK bytes \in Seq(Byte) : bytes = Bytes(f)
  BY BytesIs DEF CaptureInv
<1>4. s.flow = f /\ s.first \in Nat \ {0} /\ s.last \in Nat /\ s.last <= Len(bytes)
  <2>1. CASE s = Empty(f)
    BY <1>3, <2>1, LenProperties DEF Empty
  <2>2. CASE s \in ToSet(segments[f])
    <3>1. PICK segs : segs = segments[f]
      OBVIOUS
    <3>2. segs \in Seq(Segment) /\ Cut(f, segs, Len(bytes))
      BY <1>3, <3>1 DEF CaptureInv
    <3>3. PICK k \in 1..Len(segs) : segs[k] = s
      BY <2>2, <3>1, <3>2 DEF ToSet
    <3>4. s.flow = f /\ s.first = (IF k = 1 THEN 1 ELSE segs[k - 1].last + 1) /\ s.last <= Len(bytes)
      BY <3>2, <3>3 DEF Cut
    <3>5. k # 1 => segs[k - 1].last \in Nat
      <4>. SUFFICES ASSUME k # 1 PROVE segs[k - 1].last \in Nat
        OBVIOUS
      <4>1. k - 1 \in 1..Len(segs)
        BY <3>2, LenProperties
      <4>2. segs[k - 1] \in Segment
        BY <3>2, <4>1, ElementOfSeq
      <4>. QED
        BY <4>2 DEF Segment
    <3>6. s.first \in Nat \ {0}
      BY <3>4, <3>5
    <3>. QED
      BY <3>4, <3>6 DEF Segment
  <2>. QED
    BY <1>2, <2>1, <2>2
<1>. QED
  BY <1>1, <1>3, <1>4, Zenon DEF Payload

LEMMA PayloadIs ==
  ASSUME CaptureInv, NEW i \in 1..Len(seen)
  PROVE  seen[i].flow \in Flow /\ Payload(seen[i]) \in Seq(Byte)
<1>1. PICK a \in Nat \ {0}, b \in Nat : /\ seen[i].flow \in Flow /\ b <= Len(Bytes(seen[i].flow))
                                       /\ Payload(seen[i]) = SubSeq(Bytes(seen[i].flow), a, b)
  BY SeenPart, Zenon
<1>2. PICK bytes \in Seq(Byte) : bytes = Bytes(seen[i].flow)
  BY <1>1, BytesIs, Zenon DEF CaptureInv
<1>3. SubSeq(bytes, a, b) \in Seq(Byte)
  BY <1>1, <1>2, PartOf
<1>. QED
  BY <1>1, <1>2, <1>3, Zenon

LEMMA ShapeIs ==
  ASSUME CaptureInv, NEW i \in 1..Len(seen)
  PROVE  /\ Shape(seen[i]).l4 \in {"TCP", "UDP", "none"}
         /\ Shape(seen[i]).declares \in BOOLEAN /\ Shape(seen[i]).pad \in Nat
<1>1. small \in [l4 : {"TCP", "UDP", "none"}, declares : BOOLEAN, pad : Nat]
  BY CaptureAssumption DEF CaptureInv
<1>2. PICK shape : shape = Shape(seen[i])
  OBVIOUS
<1>3. shape = small \/ shape = [l4 |-> "TCP", declares |-> TRUE, pad |-> 0]
  BY <1>2 DEF Shape
<1>4. CASE shape = small
  <2>1. small.l4 \in {"TCP", "UDP", "none"} /\ small.declares \in BOOLEAN /\ small.pad \in Nat
    BY <1>1
  <2>. QED
    BY <1>2, <1>4, <2>1, Zenon
<1>5. CASE shape = [l4 |-> "TCP", declares |-> TRUE, pad |-> 0]
  <2>1. shape.l4 = "TCP" /\ shape.declares = TRUE /\ shape.pad = 0
    BY <1>5
  <2>2. 0 \in Nat
    OBVIOUS
  <2>. QED
    BY <1>2, <2>1, <2>2, Zenon
<1>. QED
  BY <1>3, <1>4, <1>5

\* What the packet of a segment consists of.
Carries(segment, header, payload, pads) ==
  /\ header = [l4 |-> Shape(segment).l4, flow |-> segment.flow, total |-> Declared(segment)]
  /\ payload = Payload(segment)
  /\ pads = [k \in 1..Shape(segment).pad |-> Padding]
  /\ PacketOf(segment) = <<header>> \o payload \o pads

LEMMA PacketIs ==
  ASSUME CaptureInv, NEW i \in 1..Len(seen)
  PROVE  \E header \in Headers, payload \in Seq(Byte), pads \in Seq(Byte) :
           Carries(seen[i], header, payload, pads)
<1>1. PICK payload \in Seq(Byte) : payload = Payload(seen[i])
  BY PayloadIs
<1>2. PICK total \in Nat : total = Declared(seen[i])
  <2>1. Total(payload) \in Nat
    BY LenProperties DEF Total
  <2>2. Declared(seen[i]) = Total(payload) \/ Declared(seen[i]) = 0
    BY <1>1 DEF Declared
  <2>. QED
    BY <2>1, <2>2
<1>3. PICK l4 \in {"TCP", "UDP", "none"}, flow \in Flow : l4 = Shape(seen[i]).l4 /\ flow = seen[i].flow
  BY PayloadIs, ShapeIs
<1>4. PICK header : header = [l4 |-> l4, flow |-> flow, total |-> total]
  OBVIOUS
<1>5. header \in Headers
  BY <1>4 DEF Headers
<1>6. PICK pad \in Nat : pad = Shape(seen[i]).pad
  BY ShapeIs
<1>7. PICK pads : pads = [k \in 1..pad |-> Padding]
  OBVIOUS
<1>8. pads \in Seq(Byte)
  <2>1. Padding \in Byte
    BY MaxPayloadAssumption DEF Padding, Byte, Items
  <2>2. pads \in [1..pad -> Byte]
    BY <1>7, <2>1
  <2>. QED
    BY <2>2
<1>9. PacketOf(seen[i]) = <<header>> \o payload \o pads
  BY <1>1, <1>2, <1>3, <1>4, <1>6, <1>7, Zenon DEF PacketOf, Packet, Declared
<1>10. Carries(seen[i], header, payload, pads)
  BY <1>1, <1>2, <1>3, <1>4, <1>6, <1>7, <1>9, Zenon DEF Carries
<1>. QED
  BY <1>5, <1>8, <1>10, Zenon

LEMMA PacketsAre ==
  ASSUME CaptureInv
  PROVE  Packets \in Seq(Seq(LinkByte)) /\ Len(Packets) = Len(seen) /\ Len(seen) \in Nat
<1>1. seen \in Seq(Segment) /\ Len(seen) \in Nat /\ DOMAIN seen = 1..Len(seen)
  BY LenProperties DEF CaptureInv
<1>2. ASSUME NEW i \in 1..Len(seen) PROVE PacketOf(seen[i]) \in Seq(LinkByte)
  <2>1. PICK header \in Headers, payload \in Seq(Byte), pads \in Seq(Byte) :
          PacketOf(seen[i]) = <<header>> \o payload \o pads
    <3>1. \E header \in Headers, payload \in Seq(Byte), pads \in Seq(Byte) :
            Carries(seen[i], header, payload, pads)
      BY PacketIs
    <3>. QED
      BY <3>1, Zenon DEF Carries
  <2>2. <<header>> \in Seq(LinkByte)
    BY DEF LinkByte
  <2>3. payload \in Seq(LinkByte) /\ pads \in Seq(LinkByte)
    <3>1. Byte \subseteq LinkByte
      BY DEF LinkByte
    <3>. QED
      BY <3>1, SeqMonotonic
  <2>4. <<header>> \o payload \in Seq(LinkByte)
    BY <2>2, <2>3, ConcatProperties
  <2>5. <<header>> \o payload \o pads \in Seq(LinkByte)
    BY <2>3, <2>4, ConcatProperties
  <2>. QED
    BY <2>1, <2>5, Zenon
<1>3. PICK n \in Nat : n = Len(seen)
  BY <1>1, Zenon
<1>4. Packets \in [1..n -> Seq(LinkByte)]
  BY <1>1, <1>2, <1>3 DEF Packets
<1>5. Packets \in Seq(Seq(LinkByte)) /\ Len(Packets) = n
  BY <1>4
<1>. QED
  BY <1>3, <1>5

(* The capture files read back, whatever was captured and however much of  *)
(* the last record is missing (read_packets, write_packets).               *)
THEOREM CapturePcapReadsBack == Spec => []PcapReadsBack
<1>1. CaptureInv => PcapReadsBack
  <2>. SUFFICES ASSUME CaptureInv, NEW order \in ByteOrder
                PROVE  LET file   == WritePackets(Packets, order)
                           others == SubSeq(Packets, 1, Len(Packets) - 1)
                           start  == IF seen = << >> THEN 0 ELSE Len(WritePackets(others, order))
                       IN  /\ ReadPackets(file) = [code |-> "OK", packets |-> Packets]
                           /\ \A n \in start + 1..Len(file) - 1 :
                                ReadPackets(SubSeq(file, 1, n)) = [code |-> "ERR_PCAP", packets |-> others]
    BY Zenon DEF PcapReadsBack
  <2>1. PICK q \in Seq(Seq(LinkByte)) : q = Packets /\ Len(q) = Len(seen) /\ Len(seen) \in Nat
    BY PacketsAre
  <2>2. PICK file : file = WritePackets(q, order)
    OBVIOUS
  <2>3. ReadPackets(file) = [code |-> "OK", packets |-> q]
    BY <2>2, WholeFile, Zenon DEF ReadAs
  <2>4. Len(file) \in Nat /\ file \in Seq(FileByte(LinkByte)) /\ Len(file) = 2 + Len(First(Records(q, order), Len(q)))
    <3>1. Holds(file, Records(q, order), q, order, LinkByte)
      BY <2>2, WriteIs, Zenon
    <3>2. file \in Seq(FileByte(LinkByte)) /\ Len(file) = 2 + Len(First(Records(q, order), Len(q)))
      BY <3>1, Zenon DEF Holds
    <3>. QED
      BY <3>2, LenProperties
  <2>5. ASSUME seen = << >>, NEW n \in 0 + 1..Len(file) - 1
        PROVE  ReadPackets(SubSeq(file, 1, n)) = [code |-> "ERR_PCAP", packets |-> SubSeq(q, 1, Len(q) - 1)]
    <3>1. Len(q) = 0
      BY <2>1, <2>5
    <3>2. Len(First(Records(q, order), 0)) = 0
      <4>1. Records(q, order) \in Seq(Seq(FileByte(LinkByte)))
        BY <2>2, WriteIs, Zenon DEF Holds
      <4>2. First(Records(q, order), 0) = << >>
        BY <4>1, FirstIs
      <4>. QED
        BY <4>2
    <3>3. Len(file) = 2
      <4>1. Len(file) = 2 + 0 /\ 2 + 0 = 2
        BY <2>4, <3>1, <3>2
      <4>. QED
        BY <4>1, Zenon
    <3>4. n = 1
      BY <3>3
    <3>5. Len(SubSeq(file, 1, 1)) < 2
      <4>1. Len(SubSeq(file, 1, 1)) = 1
        BY <2>4, <3>3, SubSeqProperties
      <4>. QED
        BY <4>1
    <3>6. SubSeq(q, 1, Len(q) - 1) = << >>
      BY <3>1, SubSeqEmpty
    <3>7. ReadPackets(SubSeq(file, 1, 1)) = [code |-> "ERR_PCAP", packets |-> << >>]
      BY <3>5, Zenon DEF ReadPackets, FileHeaderSize
    <3>. QED
      BY <3>4, <3>6, <3>7, Zenon
  <2>6. ASSUME seen # << >>, NEW n \in Len(WritePackets(SubSeq(q, 1, Len(q) - 1), order)) + 1..Len(file) - 1
        PROVE  ReadPackets(SubSeq(file, 1, n)) = [code |-> "ERR_PCAP", packets |-> SubSeq(q, 1, Len(q) - 1)]
    <3>1. PICK l \in Nat : Len(q) = l + 1
      <4>1. Len(seen) # 0
        BY <2>6 DEF CaptureInv
      <4>2. Len(q) \in Nat /\ Len(q) # 0
        BY <2>1, <4>1
      <4>3. Len(q) - 1 \in Nat /\ Len(q) = (Len(q) - 1) + 1
        BY <4>2
      <4>. QED
        BY <4>3, Zenon
    <3>2. PICK others \in Seq(Seq(LinkByte)) : others = SubSeq(q, 1, l) /\ Len(others) = l /\ l = Len(q) - 1
      <4>1. PICK S : S = Seq(LinkByte)
        OBVIOUS
      <4>2. q \in Seq(S)
        BY <4>1, Zenon
      <4>3. \A i \in 1..l : q[i] \in S
        <5>1. \A i \in 1..l : i \in 1..Len(q)
          BY <3>1
        <5>. QED
          BY <4>2, <5>1, ElementOfSeq
      <4>4. SubSeq(q, 1, l) \in Seq(S) /\ Len(SubSeq(q, 1, l)) = l
        BY <4>3, SubSeqProperties
      <4>5. l = Len(q) - 1
        BY <3>1
      <4>. QED
        BY <4>1, <4>4, <4>5, Zenon
    <3>3. First(Records(others, order), l) = First(Records(q, order), l)
      <4>1. \A i \in 1..l : others[i] = q[i]
        BY <3>1, <3>2
      <4>2. \A i \in 1..l : Records(others, order)[i] = Records(q, order)[i]
        <5>1. \A i \in 1..l : i \in 1..Len(others) /\ i \in 1..Len(q)
          BY <3>1, <3>2
        <5>2. \A i \in 1..l : Records(others, order)[i] = Record(others[i], order)
          BY <5>1 DEF Records
        <5>3. \A i \in 1..l : Records(q, order)[i] = Record(q[i], order)
          BY <5>1 DEF Records
        <5>. QED
          BY <4>1, <5>2, <5>3, Zenon
      <4>3. [i \in 1..l |-> Records(others, order)[i]] = [i \in 1..l |-> Records(q, order)[i]]
        BY <4>2
      <4>. QED
        BY <4>3, Zenon DEF First
    <3>4. PICK m : m = Len(WritePackets(others, order))
      OBVIOUS
    <3>5. m = 2 + Len(First(Records(q, order), l))
      <4>1. Holds(WritePackets(others, order), Records(others, order), others, order, LinkByte)
        BY WriteIs, Zenon
      <4>2. m = 2 + Len(First(Records(others, order), Len(others)))
        BY <3>4, <4>1, Zenon DEF Holds
      <4>. QED
        BY <3>2, <3>3, <4>2, Zenon
    <3>6. m \in Nat
      <4>1. WritePackets(others, order) \in Seq(FileByte(LinkByte))
        BY WriteIs, Zenon DEF Holds
      <4>. QED
        BY <3>4, <4>1, LenProperties
    <3>7. n \in m + 1..Len(file) - 1
      BY <3>2, <3>4, Zenon
    <3>8. n \in Nat /\ m < n /\ n < Len(file)
      BY <2>4, <3>6, <3>7
    <3>9. EndsInLast(q, order, l, n)
      BY <2>2, <3>1, <3>5, <3>8, Zenon DEF EndsInLast
    <3>10. ReadPackets(SubSeq(file, 1, n)) = ReadAs("ERR_PCAP", SubSeq(q, 1, l))
      BY <2>2, <3>8, <3>9, CutFile, Zenon
    <3>. QED
      BY <3>2, <3>10, Zenon DEF ReadAs
  <2>. QED
    BY <2>1, <2>2, <2>3, <2>5, <2>6, Zenon
<1>. QED
  BY <1>1, CaptureInvariant, PTL


-----------------------------------------------------------------------------
(* The buffer.                                                             *)

Code == {"OK"} \cup Fault

LEMMA LengthIs ==
  ASSUME NEW header \in Seq(Byte), Len(header) = 2
  PROVE  /\ DeclaredLength(header) \in Nat /\ DecodeHeader(header) \in Code
         /\ DecodeHeader(header) = "OK" => DeclaredLength(header) <= MaxPayload
<1>1. header[2] \in Byte
  BY ElementOfSeq
<1>2. PICK it \in Items : it = header[2].of
  BY <1>1 DEF Byte
<1>3. PICK n \in Nat : n = DeclaredLength(header)
  <2>1. it.length \in Nat
    BY EncodeIs, MaxPayloadAssumption
  <2>2. DeclaredLength(header) = it.length \/ DeclaredLength(header) = MaxPayload + 1
    BY <1>2 DEF DeclaredLength
  <2>. QED
    BY <2>1, <2>2, MaxPayloadAssumption
<1>4. Len(header) = HeaderSize
  BY DEF HeaderSize
<1>5. DecodeHeader(header) \in Code
  <2>1. \A k \in 1..5 : Order[k] \in Fault
    BY DEF Order, Fault
  <2>. QED
    BY <1>4, <2>1, DecodeHeaderIs DEF Code
<1>6. DecodeHeader(header) = "OK" => ~TooLong(header)
  <2>1. \A k \in 1..5 : Order[k] # "OK"
    BY DEF Order
  <2>. QED
    BY <1>4, <2>1, DecodeHeaderIs
<1>7. ~TooLong(header) => n <= MaxPayload
  BY <1>3, MaxPayloadAssumption DEF TooLong
<1>. QED
  BY <1>3, <1>5, <1>6, <1>7

\* What pop() makes of a buffer.
Popped(pop, buf) ==
  /\ pop.code \in Code \cup {"MORE"} /\ pop.rest \in Seq(Byte)
  /\ pop.code = "MORE" => pop.rest = buf /\ Len(buf) < MaxFrame
  /\ pop.code = "OK" => Len(pop.rest) < Len(buf) /\ pop.frame \in Frame

LEMMA PopIs ==
  ASSUME NEW buf \in Seq(Byte), NEW keyed \in BOOLEAN
  PROVE  Popped(Pop(buf, keyed), buf)
<1>1. PICK len \in Nat : len = Len(buf)
  BY LenProperties
<1>2. PICK header : header = SubSeq(buf, 1, HeaderSize)
  OBVIOUS
<1>3. PICK n : n = DeclaredLength(header)
  OBVIOUS
<1>4. PICK pop : pop = Pop(buf, keyed)
  OBVIOUS
<1>5. MaxFrame = MaxPayload + 3 /\ HeaderSize = 2 /\ MacSize = 1 /\ MaxPayload \in Nat
  BY MaxPayloadAssumption DEF MaxFrame, HeaderSize, MacSize
<1>6. CASE len < 2
  <2>1. pop = [code |-> "MORE", rest |-> buf]
    BY <1>1, <1>4, <1>5, <1>6 DEF Pop
  <2>2. Len(buf) < MaxFrame
    BY <1>1, <1>5, <1>6
  <2>3. "MORE" \in Code \cup {"MORE"} /\ "MORE" # "OK" /\ pop.code = "MORE" /\ pop.rest = buf
    BY <2>1
  <2>. QED
    BY <1>4, <2>2, <2>3, Zenon DEF Popped
<1>7. CASE ~(len < 2)
  <2>1. header \in Seq(Byte) /\ Len(header) = 2
    BY <1>1, <1>2, <1>5, <1>7, PartOf
  <2>2. /\ n \in Nat /\ DecodeHeader(header) \in Code
        /\ DecodeHeader(header) = "OK" => n <= MaxPayload
    BY <1>3, <2>1, LengthIs
  <2>3. CASE DecodeHeader(header) # "OK"
    <3>1. pop = [code |-> DecodeHeader(header), rest |-> buf]
      BY <1>1, <1>2, <1>4, <1>5, <1>7, <2>3 DEF Pop
    <3>2. DecodeHeader(header) # "MORE"
      BY <2>2 DEF Code, Fault
    <3>3. pop.code = DecodeHeader(header) /\ pop.rest = buf
      BY <3>1
    <3>. QED
      BY <1>4, <2>2, <2>3, <3>2, <3>3, Zenon DEF Popped
  <2>4. CASE DecodeHeader(header) = "OK" /\ len < 2 + n + 1
    <3>1. pop = [code |-> "MORE", rest |-> buf]
      BY <1>1, <1>2, <1>3, <1>4, <1>5, <1>7, <2>4 DEF Pop
    <3>2. Len(buf) < MaxFrame
      BY <1>1, <1>5, <2>2, <2>4
    <3>3. "MORE" \in Code \cup {"MORE"} /\ "MORE" # "OK" /\ pop.code = "MORE" /\ pop.rest = buf
      BY <3>1
    <3>. QED
      BY <1>4, <3>2, <3>3, Zenon DEF Popped
  <2>5. CASE DecodeHeader(header) = "OK" /\ ~(len < 2 + n + 1)
    <3>1. PICK payload, mac, rest : /\ payload = SubSeq(buf, 3, 2 + n)
                                    /\ mac = SubSeq(buf, 2 + n + 1, 2 + n + 1)
                                    /\ rest = SubSeq(buf, 2 + n + 1 + 1, len)
      OBVIOUS
    <3>2. payload \in Seq(Byte) /\ rest \in Seq(Byte) /\ Len(rest) < len
      BY <1>1, <2>2, <2>5, <3>1, PartOf
    <3>3. Parts(buf, n) = [header |-> header, payload |-> payload, mac |-> mac, rest |-> rest]
      BY <1>1, <1>2, <1>5, <3>1 DEF Parts
    <3>4. PICK code : code = DecodeFrame(header, payload, mac, keyed)
      OBVIOUS
    <3>5. code \in Code
      BY <2>5, <3>4, DecodeFrameIs DEF Code, Fault
    <3>6. PICK frame : frame = FrameOf(header, payload)
      OBVIOUS
    <3>7. frame \in Frame
      <4>1. header[1] \in Byte /\ header[2] \in Byte
        <5>1. 1 \in 1..2 /\ 2 \in 1..2
          OBVIOUS
        <5>2. 1 \in 1..Len(header) /\ 2 \in 1..Len(header)
          BY <2>1, <5>1, Zenon
        <5>. QED
          BY <2>1, <5>2, ElementOfSeq
      <4>2. header[1].of \in Items /\ header[2].of \in Items
        BY <4>1 DEF Byte
      <4>. QED
        BY <3>2, <3>6, <4>2 DEF FrameOf, Frame
    <3>8. pop = [code |-> code, rest |-> rest, frame |-> frame]
      <4>1. ~(Len(buf) < HeaderSize) /\ ~(Len(buf) < HeaderSize + n + MacSize)
        BY <1>1, <1>5, <1>7, <2>5
      <4>2. /\ Parts(buf, n).payload = payload /\ Parts(buf, n).mac = mac
            /\ Parts(buf, n).rest = rest
        BY <3>3
      <4>. QED
        BY <1>2, <1>3, <1>4, <2>5, <3>4, <3>6, <4>1, <4>2, Zenon DEF Pop
    <3>9. pop.code = code /\ pop.rest = rest /\ pop.frame = frame /\ code # "MORE"
      BY <3>5, <3>8 DEF Code, Fault
    <3>. QED
      BY <1>1, <1>4, <3>2, <3>5, <3>7, <3>9 DEF Popped
  <2>. QED
    BY <2>3, <2>4, <2>5
<1>. QED
  BY <1>6, <1>7

\* The last n elements.
LastOf(s, n) == SubSeq(s, Len(s) - n + 1, Len(s))

\* What drain() ends with: of what it keeps for later, less than a frame.
Drained(S) ==
  {r \in [code : {"MORE"} \cup Fault, frames : Seq(Frame), rest : Seq(S)] :
     r.code = "MORE" => Len(r.rest) < MaxFrame}

\* What a drain makes of a pop, and of what the drain of its rest made.
Outcome(pop, later) ==
  IF pop.code # "OK" THEN [code |-> pop.code, frames |-> << >>, rest |-> pop.rest]
  ELSE [code |-> later.code, frames |-> <<pop.frame>> \o later.frames, rest |-> later.rest]

\* Every pop of a drain, from the one with n bytes left on.
Drains(buf, keyed, g) ==
  \A n \in 0..Len(buf) :
    LET pop == Pop(LastOf(buf, n), keyed) IN g[n] = Outcome(pop, g[Len(pop.rest)])

LEMMA DrainIs ==
  ASSUME NEW buf \in Seq(Byte), NEW keyed \in BOOLEAN
  PROVE  \E g \in [0..Len(buf) -> Drained(Byte)] :
           Drains(buf, keyed, g) /\ Drain(buf, keyed) = g[Len(buf)]
<1>. DEFINE D == 0..Len(buf)
            V == Drained(Byte)
            PopAt(n) == Pop(SubSeq(buf, Len(buf) - n + 1, Len(buf)), keyed)
            End(n) == [code |-> PopAt(n).code, frames |-> << >>, rest |-> PopAt(n).rest]
            New(n, later) == [later EXCEPT !.frames = <<PopAt(n).frame>> \o @]
            Rec(f) == f = [n \in 0..Len(buf) |->
              IF PopAt(n).code # "OK" THEN End(n) ELSE New(n, f[Len(PopAt(n).rest)])]
            F == CHOOSE f : Rec(f)
<1>0. Len(buf) \in Nat
  BY LenProperties
<1>1. Drain(buf, keyed) = F[Len(buf)]
  BY Zenon DEF Drain
<1>. DEFINE Stop == {n \in D : PopAt(n).code # "OK"}
            rank == [n \in D |-> n]
            none == [code |-> "MORE", frames |-> << >>, rest |-> << >>]
            base == [n \in D |-> IF n \in Stop THEN End(n) ELSE none]
            next == [n \in D |-> IF n \in Stop THEN n ELSE Len(PopAt(n).rest)]
            step == [n \in D |-> [v \in V |-> IF n \in Stop THEN v ELSE New(n, v)]]
<1>2. ASSUME NEW n \in D
      PROVE  /\ PopAt(n).code \in Code \cup {"MORE"} /\ PopAt(n).rest \in Seq(Byte)
             /\ PopAt(n).code = "MORE" => Len(PopAt(n).rest) < MaxFrame
             /\ PopAt(n).code = "OK" => Len(PopAt(n).rest) < n /\ PopAt(n).frame \in Frame
  <2>1. PICK s : s = SubSeq(buf, Len(buf) - n + 1, Len(buf))
    OBVIOUS
  <2>2. s \in Seq(Byte) /\ Len(s) = n
    <3>1. PICK l \in Nat : l = Len(buf)
      BY <1>0
    <3>2. n \in 0..l
      BY <3>1
    <3>3. l - n + 1 \in Nat \ {0} /\ (l - n + 1 <= l <=> n > 0) /\ l - (l - n + 1) + 1 = n
      BY <3>2
    <3>4. s \in Seq(Byte) /\ Len(s) = IF l - n + 1 <= l THEN l - (l - n + 1) + 1 ELSE 0
      BY <2>1, <3>1, <3>3, PartOf
    <3>. QED
      BY <3>2, <3>3, <3>4
  <2>3. Popped(Pop(s, keyed), s)
    BY <2>2, PopIs
  <2>. QED
    BY <2>1, <2>2, <2>3, Zenon DEF Popped
<1>3. ASSUME NEW n \in D, n \notin Stop
      PROVE  Len(PopAt(n).rest) \in D /\ Len(PopAt(n).rest) < n /\ PopAt(n).frame \in Frame
  <2>1. Len(PopAt(n).rest) < n /\ PopAt(n).frame \in Frame /\ PopAt(n).rest \in Seq(Byte)
    BY <1>2, <1>3
  <2>2. PICK l \in Nat : l = Len(PopAt(n).rest)
    BY <2>1, LenProperties
  <2>3. l < n
    BY <2>1, <2>2, Zenon
  <2>4. l \in D
    BY <1>0, <2>3
  <2>. QED
    BY <2>1, <2>2, <2>4, Zenon
<1>4. ASSUME NEW n \in D, n \in Stop PROVE End(n) \in V
  <2>1. PICK c, r : c = PopAt(n).code /\ r = PopAt(n).rest
    OBVIOUS
  <2>2. c \in {"MORE"} \cup Fault /\ r \in Seq(Byte) /\ (c = "MORE" => Len(r) < MaxFrame)
    <3>1. c \in Code \cup {"MORE"} /\ c # "OK" /\ r \in Seq(Byte) /\ (c = "MORE" => Len(r) < MaxFrame)
      BY <1>2, <1>4, <2>1, Zenon
    <3>. QED
      BY <3>1 DEF Code
  <2>3. [code |-> c, frames |-> << >>, rest |-> r] \in V
    BY <2>2 DEF Drained
  <2>. QED
    BY <2>1, <2>3, Zenon
<1>5. ASSUME NEW n \in D, n \notin Stop, NEW v \in V
      PROVE  /\ New(n, v) \in V
             /\ New(n, v) = [code |-> v.code, frames |-> <<PopAt(n).frame>> \o v.frames, rest |-> v.rest]
  <2>1. PICK x \in Frame : x = PopAt(n).frame
    BY <1>3, <1>5, Zenon
  <2>2. /\ v \in [code : {"MORE"} \cup Fault, frames : Seq(Frame), rest : Seq(Byte)]
        /\ v.code = "MORE" => Len(v.rest) < MaxFrame
    BY DEF Drained
  <2>3. <<x>> \o v.frames \in Seq(Frame)
    BY <2>2, ConcatProperties
  <2>4. PICK y \in Seq(Frame) : y = <<x>> \o v.frames
    BY <2>3
  <2>5. New(n, v) = [v EXCEPT !.frames = y]
    BY <2>1, <2>4, Zenon
  <2>6. [v EXCEPT !.frames = y] = [code |-> v.code, frames |-> y, rest |-> v.rest]
    BY <2>2
  <2>7. [code |-> v.code, frames |-> y, rest |-> v.rest] \in V
    BY <2>2 DEF Drained
  <2>. QED
    BY <2>1, <2>4, <2>5, <2>6, <2>7, Zenon
<1>6. Descends(D, V, Len(buf), rank, Stop, base, next, step)
  <2>1. base \in [D -> V]
    <3>1. none \in V
      BY MaxPayloadAssumption DEF Drained, MaxFrame, HeaderSize, MacSize
    <3>2. ASSUME NEW n \in D PROVE (IF n \in Stop THEN End(n) ELSE none) \in V
      <4>. HIDE DEF V, End, none
      <4>. QED
        BY <1>4, <3>1
    <3>. HIDE DEF D, V, Stop, End, none
    <3>. QED
      BY <3>2
  <2>2. next \in [D -> D]
    <3>1. ASSUME NEW n \in D PROVE (IF n \in Stop THEN n ELSE Len(PopAt(n).rest)) \in D
      <4>. HIDE DEF D, Stop, PopAt
      <4>. QED
        BY <1>3
    <3>. HIDE DEF D, Stop, PopAt
    <3>. QED
      BY <3>1
  <2>3. step \in [D -> [V -> V]]
    <3>1. ASSUME NEW n \in D, NEW v \in V PROVE (IF n \in Stop THEN v ELSE New(n, v)) \in V
      <4>. HIDE DEF D, V, Stop, New
      <4>. QED
        BY <1>5
    <3>. HIDE DEF D, Stop, V, New
    <3>. QED
      BY <3>1
  <2>4. rank \in [D -> 0..Len(buf)]
    BY <1>0
  <2>5. ASSUME NEW n \in D \ Stop PROVE rank[next[n]] < rank[n]
    <3>1. PICK l \in D : l = Len(PopAt(n).rest) /\ l < n
      <4>. HIDE DEF D, Stop, PopAt
      <4>. QED
        BY <1>3
    <3>2. next[n] = l
      <4>. HIDE DEF D, Stop, PopAt
      <4>. QED
        BY <3>1
    <3>. QED
      BY <3>1, <3>2
  <2>. HIDE DEF D, V, Stop, rank, base, next, step
  <2>. QED
    BY <1>0, <2>1, <2>2, <2>3, <2>4, <2>5 DEF Descends
<1>7. PICK g \in [D -> V] : Unfolds(g, D, Stop, base, next, step)
  <2>. HIDE DEF D, V, Stop, rank, base, next, step
  <2>. QED
    BY <1>6, Recursion
<1>8. ASSUME NEW n \in D
      PROVE  g[n] = IF PopAt(n).code # "OK" THEN End(n) ELSE New(n, g[Len(PopAt(n).rest)])
  <2>1. CASE n \in Stop
    <3>1. g[n] = base[n]
      BY <1>7, <2>1, Zenon DEF Unfolds
    <3>2. base[n] = End(n)
      <4>. HIDE DEF D, Stop, End, none
      <4>. QED
        BY <2>1
    <3>. QED
      BY <2>1, <3>1, <3>2, Zenon
  <2>2. CASE n \notin Stop
    <3>1. g[n] = step[n][g[next[n]]]
      BY <1>7, <2>2, Zenon DEF Unfolds
    <3>2. next[n] = Len(PopAt(n).rest) /\ next[n] \in D
      <4>. HIDE DEF D, Stop, PopAt
      <4>. QED
        BY <1>3, <2>2
    <3>3. g[next[n]] \in V
      BY <1>7, <3>2, Zenon
    <3>4. step[n][g[next[n]]] = New(n, g[next[n]])
      <4>. HIDE DEF D, V, Stop, New, next
      <4>. QED
        BY <2>2, <3>3
    <3>. QED
      BY <2>2, <3>1, <3>2, <3>4, Zenon
  <2>. QED
    BY <2>1, <2>2
<1>9. Rec(g)
  <2>1. g = [n \in D |-> g[n]]
    <3>. HIDE DEF D, V
    <3>. QED
      OBVIOUS
  <2>. HIDE DEF PopAt, End, New
  <2>. QED
    BY <1>8, <2>1
<1>10. Rec(F)
  <2>. HIDE DEF Rec
  <2>. QED
    BY <1>9, Zenon
<1>. HIDE DEF F
<1>11. F = [n \in D |-> IF PopAt(n).code # "OK" THEN End(n) ELSE New(n, F[Len(PopAt(n).rest)])]
  BY <1>10, Zenon
<1>12. ASSUME NEW n \in D
       PROVE  F[n] = IF PopAt(n).code # "OK" THEN End(n) ELSE New(n, F[Len(PopAt(n).rest)])
  <2>. HIDE DEF D, PopAt, End, New
  <2>. QED
    BY <1>11
<1>13. \A n \in D : F[n] \in V
  <2>1. ASSUME NEW n \in D
        PROVE  /\ n \in Stop => F[n] = base[n]
               /\ n \notin Stop /\ F[next[n]] \in V => F[n] = step[n][F[next[n]]]
    <3>1. CASE n \in Stop
      <4>1. base[n] = End(n)
        <5>. HIDE DEF D, Stop, End, none
        <5>. QED
          BY <3>1
      <4>. QED
        BY <1>12, <3>1, <4>1, Zenon
    <3>2. CASE n \notin Stop
      <4>1. next[n] = Len(PopAt(n).rest)
        <5>. HIDE DEF D, Stop, PopAt
        <5>. QED
          BY <3>2
      <4>2. \A v \in V : step[n][v] = New(n, v)
        <5>. HIDE DEF D, V, Stop, New
        <5>. QED
          BY <3>2
      <4>3. F[n] = New(n, F[next[n]])
        BY <1>12, <3>2, <4>1, Zenon
      <4>. QED
        BY <3>2, <4>2, <4>3, Zenon
    <3>. QED
      BY <3>1, <3>2
  <2>. HIDE DEF D, V, Stop, rank, base, next, step
  <2>. QED
    BY <1>6, <2>1, RecursionValues
<1>14. F \in [D -> V]
  <2>1. F = [n \in D |-> F[n]]
    <3>. HIDE DEF D, PopAt, End, New
    <3>. QED
      BY <1>11
  <2>. HIDE DEF D, V
  <2>. QED
    BY <1>13, <2>1
<1>15. Drains(buf, keyed, F)
  <2>. SUFFICES ASSUME NEW n \in D
                PROVE  F[n] = IF PopAt(n).code # "OK" THEN End(n)
                              ELSE [code |-> F[Len(PopAt(n).rest)].code,
                                    frames |-> <<PopAt(n).frame>> \o F[Len(PopAt(n).rest)].frames,
                                    rest |-> F[Len(PopAt(n).rest)].rest]
    BY Zenon DEF Drains, Outcome, LastOf
  <2>1. CASE n \in Stop
    BY <1>12, <2>1, Zenon
  <2>2. CASE n \notin Stop
    <3>1. PICK v \in V : v = F[Len(PopAt(n).rest)]
      <4>. HIDE DEF D, V, Stop, PopAt
      <4>. QED
        BY <1>3, <1>13, <2>2
    <3>2. F[n] = New(n, v)
      BY <1>12, <2>2, <3>1, Zenon
    <3>3. New(n, v) = [code |-> v.code, frames |-> <<PopAt(n).frame>> \o v.frames, rest |-> v.rest]
      BY <1>5, <2>2, Zenon
    <3>. QED
      BY <2>2, <3>1, <3>2, <3>3, Zenon
  <2>. QED
    BY <2>1, <2>2
<1>. QED
  BY <1>1, <1>14, <1>15, Zenon

-----------------------------------------------------------------------------
(* The analyser.                                                           *)

Row == [l4 : {"TCP", "UDP", "none"}, flow : Flow, payload : Seq(Byte)]

\* What reassembly keeps: of each flow less than a frame, and the frames found.
Kept == {b \in Seq(Byte) : Len(b) < MaxFrame}
Flows == [buffers : [Flow -> Kept], frames : [Flow -> Seq(Frame)]]

LEMMA FeedIs ==
  ASSUME NEW acc \in Flows, NEW row \in Row
  PROVE  Feed(acc, row) \in Flows
<1>1. PICK f \in Flow, payload \in Seq(Byte) : f = row.flow /\ payload = row.payload
  BY DEF Row
<1>2. acc.buffers \in [Flow -> Kept] /\ acc.frames \in [Flow -> Seq(Frame)]
  BY DEF Flows
<1>3. acc.buffers[f] \in Seq(Byte) /\ acc.frames[f] \in Seq(Frame)
  BY <1>2 DEF Kept
<1>4. PICK buf \in Seq(Byte) : buf = acc.buffers[f] \o payload
  <2>1. acc.buffers[f] \o payload \in Seq(Byte)
    BY <1>3, ConcatProperties
  <2>. QED
    BY <2>1, Zenon
<1>5. PICK drained \in Drained(Byte) : drained = Drain(buf, FALSE)
  <2>1. PICK g \in [0..Len(buf) -> Drained(Byte)] : Drain(buf, FALSE) = g[Len(buf)]
    BY DrainIs
  <2>2. Len(buf) \in 0..Len(buf)
    BY LenProperties
  <2>3. g[Len(buf)] \in Drained(Byte)
    BY <2>2, Zenon
  <2>. QED
    BY <2>1, <2>3, Zenon
<1>6. /\ drained.frames \in Seq(Frame) /\ drained.rest \in Seq(Byte)
      /\ drained.code = "MORE" => Len(drained.rest) < MaxFrame
  BY DEF Drained
<1>7. PICK kept \in Kept : kept = IF drained.code = "MORE" THEN drained.rest ELSE << >>
  <2>1. << >> \in Kept
    BY MaxPayloadAssumption DEF Kept, MaxFrame, HeaderSize, MacSize
  <2>2. drained.code = "MORE" => drained.rest \in Kept
    BY <1>6 DEF Kept
  <2>. QED
    BY <2>1, <2>2
<1>8. PICK all \in Seq(Frame) : all = acc.frames[f] \o drained.frames
  <2>1. acc.frames[f] \o drained.frames \in Seq(Frame)
    BY <1>3, <1>6, ConcatProperties
  <2>. QED
    BY <2>1, Zenon
<1>9. CASE row.payload = << >> \/ row.l4 = "none"
  <2>1. Feed(acc, row) = acc
    BY <1>9, Zenon DEF Feed
  <2>. QED
    BY <2>1, Zenon
<1>10. CASE ~(row.payload = << >> \/ row.l4 = "none")
  <2>1. PICK buffers : buffers = [acc.buffers EXCEPT ![f] = kept]
    OBVIOUS
  <2>2. PICK frames : frames = [acc.frames EXCEPT ![f] = all]
    OBVIOUS
  <2>3. Feed(acc, row) = [buffers |-> buffers, frames |-> frames]
    BY <1>1, <1>4, <1>5, <1>7, <1>8, <1>10, <2>1, <2>2, Zenon DEF Feed
  <2>4. buffers \in [Flow -> Kept] /\ frames \in [Flow -> Seq(Frame)]
    BY <1>2, <2>1, <2>2
  <2>5. [buffers |-> buffers, frames |-> frames] \in Flows
    BY <2>4 DEF Flows
  <2>. QED
    BY <2>3, <2>5, Zenon
<1>. QED
  BY <1>9, <1>10

Fresh == [buffers |-> [f \in Flow |-> << >>], frames |-> [f \in Flow |-> << >>]]

\* What there is after each row.
Feeds(rows, g) ==
  g[0] = Fresh /\ \A n \in 1..Len(rows) : g[n] = Feed(g[n - 1], rows[n])

LEMMA ReassembleIs ==
  ASSUME NEW rows \in Seq(Row)
  PROVE  \E g \in [0..Len(rows) -> Flows] : Feeds(rows, g) /\ Reassemble(rows) = g[Len(rows)]
<1>. DEFINE D == 0..Len(rows)
            Rec(f) == f = [n \in 0..Len(rows) |->
              IF n = 0 THEN [buffers |-> [f_1 \in Flow |-> << >>], frames |-> [f_1 \in Flow |-> << >>]]
              ELSE Feed(f[n - 1], rows[n])]
            F == CHOOSE f : Rec(f)
<1>0. Len(rows) \in Nat
  BY LenProperties
<1>1. Reassemble(rows) = F[Len(rows)]
  BY Zenon DEF Reassemble
<1>. DEFINE rank == [n \in D |-> n]
            base == [n \in D |-> Fresh]
            next == [n \in D |-> IF n = 0 THEN n ELSE n - 1]
            step == [n \in D |-> [v \in Flows |-> IF n = 0 THEN v ELSE Feed(v, rows[n])]]
<1>2. Fresh \in Flows
  <2>1. << >> \in Kept
    BY MaxPayloadAssumption DEF Kept, MaxFrame, HeaderSize, MacSize
  <2>. QED
    BY <2>1 DEF Fresh, Flows
<1>3. ASSUME NEW n \in D, n # 0
      PROVE  n - 1 \in D /\ n - 1 < n /\ \A v \in Flows : Feed(v, rows[n]) \in Flows
  <2>1. n \in 1..Len(rows) /\ n - 1 \in D /\ n - 1 < n
    BY <1>0, <1>3
  <2>2. rows[n] \in Row
    BY <2>1, ElementOfSeq
  <2>. QED
    BY <2>1, <2>2, FeedIs
<1>4. Descends(D, Flows, Len(rows), rank, {0}, base, next, step)
  <2>1. base \in [D -> Flows]
    BY <1>2
  <2>2. next \in [D -> D]
    BY <1>3
  <2>3. step \in [D -> [Flows -> Flows]]
    <3>1. ASSUME NEW n \in D, NEW v \in Flows PROVE (IF n = 0 THEN v ELSE Feed(v, rows[n])) \in Flows
      BY <1>3
    <3>. HIDE DEF D
    <3>. QED
      BY <3>1
  <2>4. rank \in [D -> 0..Len(rows)]
    BY <1>0
  <2>5. ASSUME NEW n \in D \ {0} PROVE rank[next[n]] < rank[n]
    BY <1>3, <2>5
  <2>. HIDE DEF D, rank, base, next, step
  <2>. QED
    BY <1>0, <2>1, <2>2, <2>3, <2>4, <2>5 DEF Descends
<1>5. PICK g \in [D -> Flows] : Unfolds(g, D, {0}, base, next, step)
  <2>. HIDE DEF D, rank, base, next, step
  <2>. QED
    BY <1>4, Recursion
<1>6. ASSUME NEW n \in D PROVE g[n] = IF n = 0 THEN Fresh ELSE Feed(g[n - 1], rows[n])
  <2>1. g[n] = IF n = 0 THEN base[n] ELSE step[n][g[next[n]]]
    <3>. HIDE DEF D, base, next, step
    <3>. QED
      BY <1>5 DEF Unfolds
  <2>2. CASE n = 0
    <3>1. base[n] = Fresh
      OBVIOUS
    <3>. QED
      BY <2>1, <2>2, <3>1, Zenon
  <2>3. CASE n # 0
    <3>1. next[n] = n - 1 /\ n - 1 \in D
      BY <1>3, <2>3
    <3>2. g[n - 1] \in Flows
      <4>. HIDE DEF D
      <4>. QED
        BY <3>1
    <3>3. step[n][g[n - 1]] = Feed(g[n - 1], rows[n])
      BY <2>3, <3>2
    <3>. HIDE DEF next, step
    <3>. QED
      BY <2>1, <2>3, <3>1, <3>3, Zenon
  <2>. QED
    BY <2>2, <2>3
<1>7. Rec(g)
  <2>1. g = [n \in D |-> g[n]]
    <3>. HIDE DEF D
    <3>. QED
      OBVIOUS
  <2>2. \A n \in D : g[n] = IF n = 0 THEN [buffers |-> [f_1 \in Flow |-> << >>], frames |-> [f_1 \in Flow |-> << >>]]
                            ELSE Feed(g[n - 1], rows[n])
    BY <1>6, Zenon DEF Fresh
  <2>. QED
    BY <2>1, <2>2
<1>8. Rec(F)
  <2>. HIDE DEF Rec
  <2>. QED
    BY <1>7, Zenon
<1>. HIDE DEF F
<1>9. ASSUME NEW n \in D PROVE F[n] = IF n = 0 THEN Fresh ELSE Feed(F[n - 1], rows[n])
  BY <1>8 DEF Fresh
<1>10. \A n \in D : F[n] \in Flows
  <2>1. ASSUME NEW n \in D
        PROVE  /\ n \in {0} => F[n] = base[n]
               /\ n \notin {0} /\ F[next[n]] \in Flows => F[n] = step[n][F[next[n]]]
    <3>1. CASE n = 0
      BY <1>9, <3>1
    <3>2. CASE n # 0
      <4>1. next[n] = n - 1
        BY <3>2
      <4>2. \A v \in Flows : step[n][v] = Feed(v, rows[n])
        BY <3>2
      <4>3. F[n] = Feed(F[next[n]], rows[n])
        BY <1>9, <3>2, <4>1, Zenon
      <4>. QED
        BY <3>2, <4>2, <4>3, Zenon
    <3>. QED
      BY <3>1, <3>2
  <2>. HIDE DEF D, rank, base, next, step
  <2>. QED
    BY <1>4, <2>1, RecursionValues
<1>11. F \in [D -> Flows]
  <2>1. F = [n \in D |-> F[n]]
    BY <1>8
  <2>. HIDE DEF D
  <2>. QED
    BY <1>10, <2>1
<1>12. Feeds(rows, F)
  <2>1. 0 \in D /\ \A n \in 1..Len(rows) : n \in D /\ n # 0
    BY <1>0
  <2>. HIDE DEF D
  <2>. QED
    BY <1>9, <2>1 DEF Feeds
<1>. QED
  BY <1>1, <1>11, <1>12, Zenon

LEMMA DissectIs ==
  ASSUME NEW header \in Headers, NEW payload \in Seq(Byte), NEW pads \in Seq(Byte)
  PROVE  Dissect(<<header>> \o payload \o pads) \in Row
<1>1. PICK packet : packet = <<header>> \o payload \o pads
  OBVIOUS
<1>2. PICK data \in Seq(Byte) : data = Tail(packet) /\ Head(packet) = header
  <2>1. PICK s \in Seq(Byte) : s = payload \o pads
    <3>1. payload \o pads \in Seq(Byte)
      BY ConcatProperties
    <3>. QED
      BY <3>1, Zenon
  <2>2. <<header>> \in Seq(LinkByte) /\ payload \in Seq(LinkByte) /\ pads \in Seq(LinkByte) /\ s \in Seq(LinkByte)
    <3>1. Byte \subseteq LinkByte /\ header \in LinkByte
      BY DEF LinkByte
    <3>2. <<header>> \in Seq(LinkByte)
      BY <3>1
    <3>. QED
      BY <3>1, <3>2, SeqMonotonic
  <2>3. packet = <<header>> \o s
    BY <1>1, <2>1, <2>2, ConcatAssociative
  <2>4. Head(packet) = header /\ Tail(packet) = s
    <3>1. /\ <<header>> # << >> /\ Head(<<header>>) = header /\ Tail(<<header>>) = << >>
      OBVIOUS
    <3>2. Len(<<header>>) = 1 /\ <<header>>[1] = header /\ Len(s) \in Nat
      BY LenProperties
    <3>3. /\ packet \in Seq(LinkByte) /\ Len(packet) = 1 + Len(s)
          /\ packet[1] = header /\ \A i \in 1..Len(s) : packet[i + 1] = s[i]
      <4>1. /\ packet \in Seq(LinkByte) /\ Len(packet) = Len(<<header>>) + Len(s)
            /\ \A i \in 1..Len(<<header>>) + Len(s) :
                 packet[i] = IF i <= Len(<<header>>) THEN <<header>>[i] ELSE s[i - Len(<<header>>)]
        BY <2>2, <2>3, ConcatProperties
      <4>. QED
        BY <3>2, <4>1
    <3>4. Tail(packet) \in Seq(LinkByte) /\ Len(Tail(packet)) = Len(s) /\ \A i \in 1..Len(s) : Tail(packet)[i] = s[i]
      <4>1. packet # << >>
        BY <3>2, <3>3, EmptySeq
      <4>2. Tail(packet) \in Seq(LinkByte) /\ Len(Tail(packet)) = Len(packet) - 1
            /\ \A i \in 1..Len(packet) - 1 : Tail(packet)[i] = packet[i + 1]
        BY <3>3, <4>1, HeadTailProperties
      <4>. QED
        BY <3>2, <3>3, <4>2
    <3>5. Tail(packet) = s
      BY <2>2, <3>4, SeqEqual
    <3>6. Head(packet) = header
      BY <3>3
    <3>. QED
      BY <3>5, <3>6
  <2>. QED
    BY <2>1, <2>4, Zenon
<1>3. header.l4 \in {"TCP", "UDP", "none"} /\ header.flow \in Flow /\ header.total \in Nat
  BY DEF Headers
<1>4. Trim(header, data) \in Seq(Byte)
  <2>1. CASE header.total # 0 /\ header.total < Total(data)
    <3>1. PICK l \in Nat : l = Len(data)
      BY LenProperties
    <3>2. PICK t \in Nat : t = header.total
      BY <1>3
    <3>3. t - 1 \in Nat /\ t - 1 <= l
      BY <2>1, <3>1, <3>2 DEF Total
    <3>4. SubSeq(data, 1, t - 1) \in Seq(Byte)
      BY <3>1, <3>3, PartOf
    <3>. QED
      BY <2>1, <3>2, <3>4, Zenon DEF Trim
  <2>2. CASE ~(header.total # 0 /\ header.total < Total(data))
    <3>1. Trim(header, data) = data
      BY <2>2, Zenon DEF Trim
    <3>. QED
      BY <3>1, Zenon
  <2>. QED
    BY <2>1, <2>2
<1>5. PICK p \in Seq(Byte) : p = IF header.l4 = "none" THEN << >> ELSE Trim(header, data)
  <2>1. << >> \in Seq(Byte)
    OBVIOUS
  <2>. QED
    BY <1>4, <2>1
<1>6. Dissect(packet) = [l4 |-> header.l4, flow |-> header.flow, payload |-> p]
  BY <1>2, <1>5, Zenon DEF Dissect
<1>7. [l4 |-> header.l4, flow |-> header.flow, payload |-> p] \in Row
  BY <1>3 DEF Row
<1>. QED
  BY <1>1, <1>6, <1>7, Zenon

\* The analyser gets a row of every packet.
LEMMA RowsAre ==
  ASSUME CaptureInv
  PROVE  Rows \in Seq(Row) /\ Len(Rows) = Len(seen)
<1>1. PICK q \in Seq(Seq(LinkByte)) : q = Packets /\ Len(q) = Len(seen) /\ Len(seen) \in Nat
  BY PacketsAre
<1>2. "little" \in ByteOrder
  BY DEF ByteOrder
<1>3. ReadPackets(WritePackets(q, "little")) = ReadAs("OK", q)
  BY <1>2, WholeFile, Zenon
<1>4. ReadAs("OK", q).code = "OK" /\ ReadAs("OK", q).packets = q
  BY DEF ReadAs
<1>5. Rows = [i \in DOMAIN q |-> Dissect(q[i])]
  BY <1>1, <1>3, <1>4, Zenon DEF Rows, DissectFile
<1>6. PICK n \in Nat : n = Len(seen)
  BY <1>1, Zenon
<1>7. DOMAIN q = 1..n
  BY <1>1, <1>6
<1>8. ASSUME NEW i \in 1..n PROVE Dissect(q[i]) \in Row
  <2>1. q[i] = PacketOf(seen[i])
    <3>1. DOMAIN seen = 1..Len(seen)
      BY DEF CaptureInv
    <3>. QED
      BY <1>1, <1>6, <3>1 DEF Packets
  <2>2. \E header \in Headers, payload \in Seq(Byte), pads \in Seq(Byte) :
          Carries(seen[i], header, payload, pads)
    BY <1>6, PacketIs
  <2>3. PICK header \in Headers, payload \in Seq(Byte), pads \in Seq(Byte) :
          PacketOf(seen[i]) = <<header>> \o payload \o pads
    BY <2>2, Zenon DEF Carries
  <2>. QED
    BY <2>1, <2>3, DissectIs, Zenon
<1>9. Rows \in [1..n -> Row]
  BY <1>5, <1>7, <1>8
<1>10. Rows \in Seq(Row) /\ Len(Rows) = n
  BY <1>9
<1>. QED
  BY <1>6, <1>10

(* No reader waits for more than a frame can hold, and the analyser keeps  *)
(* less than one, whatever was written, sent and captured (decode_header,  *)
(* FrameBuffer).                                                           *)
THEOREM CaptureNeverMoreThanAFrame == Spec => []NeverMoreThanAFrame
<1>1. CaptureInv => NeverMoreThanAFrame
  <2>. SUFFICES ASSUME CaptureInv, NEW f \in Flow
                PROVE  /\ Waiting(f) /\ Len(got[f]) = 1 => Wanted(got[f]) <= MaxPayload
                       /\ Len(Found.buffers[f]) < MaxFrame
    BY Zenon DEF NeverMoreThanAFrame
  <2>1. ASSUME Waiting(f), Len(got[f]) = 1 PROVE Wanted(got[f]) <= MaxPayload
    <3>1. wire[f] \in Seq(Items) /\ Reading(wire[f], got[f], taken[f], "reading", received[f])
      BY <2>1 DEF CaptureInv, Waiting
    <3>. QED
      BY <2>1, <3>1, WantedIs
  <2>2. Found \in Flows
    <3>1. PICK rows \in Seq(Row) : rows = Rows
      BY RowsAre, Zenon
    <3>2. PICK g \in [0..Len(rows) -> Flows] : Reassemble(rows) = g[Len(rows)]
      BY ReassembleIs
    <3>3. Len(rows) \in 0..Len(rows)
      BY LenProperties
    <3>4. g[Len(rows)] \in Flows
      BY <3>3, Zenon
    <3>. QED
      BY <3>1, <3>2, <3>4, Zenon DEF Found
  <2>3. Found.buffers[f] \in Kept
    BY <2>2 DEF Flows
  <2>. QED
    BY <2>1, <2>3 DEF Kept
<1>. QED
  BY <1>1, CaptureInvariant, PTL

-----------------------------------------------------------------------------
(* Drain as a recursive definition of buffers.                             *)

HeaderIn(buf) == SubSeq(buf, 1, 2)
LengthIn(buf) == DeclaredLength(HeaderIn(buf))
BodyIn(buf)   == SubSeq(buf, 3, 2 + LengthIn(buf))
MacIn(buf)    == SubSeq(buf, 3 + LengthIn(buf), 3 + LengthIn(buf))
RestIn(buf)   == SubSeq(buf, 4 + LengthIn(buf), Len(buf))

Passes(buf)     == Len(buf) >= 2 /\ DecodeHeader(HeaderIn(buf)) = "OK"
Refused(buf)    == Len(buf) >= 2 /\ DecodeHeader(HeaderIn(buf)) # "OK"
Complete(buf)   == Passes(buf) /\ Len(buf) >= 3 + LengthIn(buf)
Incomplete(buf) == Len(buf) < 2 \/ (Passes(buf) /\ Len(buf) < 3 + LengthIn(buf))

VerdictOn(buf, keyed) == DecodeFrame(HeaderIn(buf), BodyIn(buf), MacIn(buf), keyed)

LEMMA HeaderInIs ==
  ASSUME NEW buf \in Seq(Byte), Len(buf) >= 2
  PROVE  /\ HeaderIn(buf) \in Seq(Byte) /\ Len(HeaderIn(buf)) = 2 /\ LengthIn(buf) \in Nat
         /\ DecodeHeader(HeaderIn(buf)) \in Code
<1>1. HeaderIn(buf) \in Seq(Byte) /\ Len(HeaderIn(buf)) = 2
  <2>1. SubSeq(buf, 1, 2) \in Seq(Byte) /\ Len(SubSeq(buf, 1, 2)) = 2
    BY PartOf
  <2>. QED
    BY <2>1, Zenon DEF HeaderIn
<1>. QED
  BY <1>1, LengthIs DEF LengthIn

PopsAs(buf, keyed) ==
  /\ Complete(buf) \/ Incomplete(buf) \/ Refused(buf)
  /\ Complete(buf) => Pop(buf, keyed) = [code |-> VerdictOn(buf, keyed), rest |-> RestIn(buf),
                                         frame |-> FrameOf(HeaderIn(buf), BodyIn(buf))]
  /\ Incomplete(buf) => Pop(buf, keyed) = [code |-> "MORE", rest |-> buf]
  /\ Refused(buf) => Pop(buf, keyed) = [code |-> DecodeHeader(HeaderIn(buf)), rest |-> buf]

LEMMA PopCases ==
  ASSUME NEW buf \in Seq(Byte), NEW keyed \in BOOLEAN
  PROVE  PopsAs(buf, keyed)
<1>1. PICK l \in Nat : l = Len(buf)
  BY LenProperties
<1>2. PICK header, n : header = HeaderIn(buf) /\ n = LengthIn(buf)
  OBVIOUS
<1>3. header = SubSeq(buf, 1, HeaderSize) /\ n = DeclaredLength(header)
  BY <1>2, Zenon DEF HeaderIn, LengthIn, HeaderSize
<1>4. HeaderSize = 2 /\ MacSize = 1
  BY DEF HeaderSize, MacSize
<1>5. l >= 2 => n \in Nat
  BY <1>1, <1>2, HeaderInIs
<1>6. Complete(buf) \/ Incomplete(buf) \/ Refused(buf)
  <2>1. l < 2 \/ l >= 2
    BY <1>1
  <2>2. l >= 2 => l < 3 + n \/ l >= 3 + n
    BY <1>1, <1>5
  <2>. QED
    BY <1>1, <1>2, <2>1, <2>2, Zenon DEF Complete, Incomplete, Refused, Passes
<1>7. ASSUME Refused(buf)
      PROVE  Pop(buf, keyed) = [code |-> DecodeHeader(HeaderIn(buf)), rest |-> buf]
  <2>1. ~(l < HeaderSize) /\ DecodeHeader(header) # "OK"
    BY <1>1, <1>2, <1>4, <1>7 DEF Refused
  <2>. QED
    BY <1>1, <1>2, <1>3, <2>1, Zenon DEF Pop
<1>8. ASSUME Incomplete(buf)
      PROVE  Pop(buf, keyed) = [code |-> "MORE", rest |-> buf]
  <2>1. CASE l < 2
    BY <1>1, <1>4, <2>1, Zenon DEF Pop
  <2>2. CASE ~(l < 2)
    <3>1. DecodeHeader(header) = "OK" /\ l < 3 + n /\ l >= 2
      BY <1>1, <1>2, <1>8, <2>2, Zenon DEF Incomplete, Passes
    <3>2. ~(l < HeaderSize) /\ l < HeaderSize + n + MacSize
      BY <1>4, <1>5, <3>1
    <3>. QED
      BY <1>1, <1>2, <1>3, <3>1, <3>2, Zenon DEF Pop
  <2>. QED
    BY <2>1, <2>2
<1>9. ASSUME Complete(buf)
      PROVE  Pop(buf, keyed) = [code |-> VerdictOn(buf, keyed), rest |-> RestIn(buf),
                                frame |-> FrameOf(HeaderIn(buf), BodyIn(buf))]
  <2>1. DecodeHeader(header) = "OK" /\ l >= 3 + n /\ l >= 2
    BY <1>1, <1>2, <1>9, Zenon DEF Complete, Passes
  <2>2. ~(l < HeaderSize) /\ ~(l < HeaderSize + n + MacSize)
    BY <1>4, <1>5, <2>1
  <2>3. PICK body, mac, rest : body = BodyIn(buf) /\ mac = MacIn(buf) /\ rest = RestIn(buf)
    OBVIOUS
  <2>4. Parts(buf, n) = [header |-> header, payload |-> body, mac |-> mac, rest |-> rest]
    <3>1. /\ HeaderSize + 1 = 3 /\ HeaderSize + n = 2 + n /\ HeaderSize + n + 1 = 3 + n
          /\ HeaderSize + n + MacSize = 3 + n /\ HeaderSize + n + MacSize + 1 = 4 + n
      BY <1>4, <1>5, <2>1
    <3>. QED
      BY <1>2, <1>3, <2>3, <3>1, Zenon DEF Parts, BodyIn, MacIn, RestIn
  <2>5. Parts(buf, n).payload = body /\ Parts(buf, n).mac = mac /\ Parts(buf, n).rest = rest
    BY <2>4
  <2>. QED
    BY <1>1, <1>2, <1>3, <2>1, <2>2, <2>3, <2>5, Zenon DEF Pop, VerdictOn
<1>. QED
  BY <1>6, <1>7, <1>8, <1>9, Zenon DEF PopsAs

LEMMA LastIs ==
  ASSUME NEW S, NEW s \in Seq(S), NEW n \in 0..Len(s)
  PROVE  /\ LastOf(s, n) \in Seq(S) /\ Len(LastOf(s, n)) = n
         /\ \A i \in 1..n : LastOf(s, n)[i] = s[Len(s) - n + i]
<1>1. PICK l \in Nat : l = Len(s)
  BY LenProperties
<1>2. PICK a : a = l - n + 1
  OBVIOUS
<1>3. a \in Nat \ {0} /\ (a <= l <=> n > 0) /\ l - a + 1 = n /\ n \in Nat
  BY <1>1, <1>2
<1>4. SubSeq(s, a, l) \in Seq(S) /\ Len(SubSeq(s, a, l)) = IF a <= l THEN l - a + 1 ELSE 0
  BY <1>1, <1>3, PartOf
<1>5. Len(SubSeq(s, a, l)) = n
  BY <1>3, <1>4
<1>6. ASSUME NEW i \in 1..n PROVE SubSeq(s, a, l)[i] = s[l - n + i]
  <2>1. SubSeq(s, a, l)[i] = s[a + i - 1]
    BY <1>1, <1>3
  <2>2. a + i - 1 = l - n + i
    BY <1>1, <1>2
  <2>. QED
    BY <2>1, <2>2, Zenon
<1>. QED
  BY <1>1, <1>2, <1>4, <1>5, <1>6, Zenon DEF LastOf

LEMMA LastOfLast ==
  ASSUME NEW S, NEW s \in Seq(S), NEW n \in 0..Len(s), NEW m \in 0..n
  PROVE  LastOf(LastOf(s, n), m) = LastOf(s, m) /\ LastOf(s, Len(s)) = s
<1>1. PICK l \in Nat : l = Len(s)
  BY LenProperties
<1>2. PICK t \in Seq(S) : t = LastOf(s, n) /\ Len(t) = n
  BY LastIs, Zenon
<1>3. m \in 0..Len(s) /\ m \in 0..Len(t) /\ l \in 0..Len(s) /\ n \in Nat
  BY <1>1, <1>2
<1>4. LastOf(t, m) = LastOf(s, m)
  <2>1. LastOf(t, m) \in Seq(S) /\ LastOf(s, m) \in Seq(S) /\ Len(LastOf(t, m)) = m /\ Len(LastOf(s, m)) = m
    BY <1>3, LastIs
  <2>2. ASSUME NEW i \in 1..m PROVE LastOf(t, m)[i] = LastOf(s, m)[i]
    <3>1. \A j \in 1..m : LastOf(t, m)[j] = t[Len(t) - m + j] /\ LastOf(s, m)[j] = s[Len(s) - m + j]
      BY <1>3, LastIs
    <3>4. LastOf(t, m)[i] = t[n - m + i] /\ LastOf(s, m)[i] = s[l - m + i]
      BY <1>1, <1>2, <3>1, Zenon
    <3>2. n - m + i \in 1..n /\ l - n + (n - m + i) = l - m + i
      BY <1>1, <1>3
    <3>3. t[n - m + i] = s[l - n + (n - m + i)]
      BY <1>1, <1>2, <3>2, LastIs
    <3>. QED
      BY <3>2, <3>3, <3>4, Zenon
  <2>. QED
    BY <2>1, <2>2, SeqEqual
<1>5. LastOf(s, l) = s
  <2>1. LastOf(s, l) \in Seq(S) /\ Len(LastOf(s, l)) = l /\ \A i \in 1..l : LastOf(s, l)[i] = s[l - l + i]
    BY <1>1, <1>3, LastIs
  <2>2. \A i \in 1..l : l - l + i = i
    BY <1>1
  <2>3. \A i \in 1..Len(s) : LastOf(s, l)[i] = s[i]
    BY <1>1, <2>1, <2>2
  <2>. QED
    BY <1>1, <2>1, <2>3, SeqEqual
<1>. QED
  BY <1>1, <1>2, <1>4, <1>5, Zenon

\* Two drains of one buffer agree on what they make of its last m bytes.
LEMMA DrainsAgree ==
  ASSUME NEW buf \in Seq(Byte), NEW keyed \in BOOLEAN, NEW m \in 0..Len(buf),
         NEW g, NEW h, Drains(buf, keyed, g), Drains(LastOf(buf, m), keyed, h)
  PROVE  h[m] = g[m]
<1>1. PICK l \in Nat : l = Len(buf)
  BY LenProperties
<1>2. PICK t \in Seq(Byte) : t = LastOf(buf, m) /\ Len(t) = m
  BY LastIs, Zenon
<1>3. m \in Nat /\ \A k \in 0..m : k \in 0..Len(buf)
  BY <1>1
<1>4. ASSUME NEW k \in 0..m
      PROVE  \E pop : /\ g[k] = Outcome(pop, g[Len(pop.rest)]) /\ h[k] = Outcome(pop, h[Len(pop.rest)])
                      /\ pop.code = "OK" => Len(pop.rest) \in 0..m /\ Len(pop.rest) < k
  <2>1. PICK s \in Seq(Byte) : s = LastOf(buf, k) /\ Len(s) = k
    BY <1>3, LastIs, Zenon
  <2>2. LastOf(t, k) = s
    BY <1>2, <2>1, LastOfLast, Zenon
  <2>3. PICK pop : pop = Pop(s, keyed)
    OBVIOUS
  <2>4. g[k] = Outcome(pop, g[Len(pop.rest)])
    BY <1>3, <2>1, <2>3, Zenon DEF Drains
  <2>5. h[k] = Outcome(pop, h[Len(pop.rest)])
    BY <1>2, <2>2, <2>3, Zenon DEF Drains
  <2>6. ASSUME pop.code = "OK" PROVE Len(pop.rest) \in 0..m /\ Len(pop.rest) < k
    <3>1. Popped(pop, s)
      BY <2>3, PopIs, Zenon
    <3>2. Len(pop.rest) < k /\ pop.rest \in Seq(Byte)
      BY <2>1, <2>6, <3>1, Zenon DEF Popped
    <3>3. Len(pop.rest) \in Nat
      BY <3>2, LenProperties
    <3>. QED
      BY <1>3, <3>2, <3>3
  <2>. QED
    BY <2>4, <2>5, <2>6, Zenon
<1>. DEFINE P(n) == \A k \in 0..m : k <= n => h[k] = g[k]
            T == {n \in Nat : P(n)}
<1>5. ASSUME NEW k \in 0..m, \A j \in 0..m : j < k => h[j] = g[j]
      PROVE  h[k] = g[k]
  <2>1. PICK pop : /\ g[k] = Outcome(pop, g[Len(pop.rest)]) /\ h[k] = Outcome(pop, h[Len(pop.rest)])
                   /\ pop.code = "OK" => Len(pop.rest) \in 0..m /\ Len(pop.rest) < k
    BY <1>4, Zenon
  <2>2. CASE pop.code = "OK"
    BY <1>5, <2>1, <2>2, Zenon
  <2>3. CASE pop.code # "OK"
    BY <2>1, <2>3, Zenon DEF Outcome
  <2>. QED
    BY <2>2, <2>3
<1>6. P(0)
  <2>. SUFFICES ASSUME NEW k \in 0..m, k <= 0 PROVE h[k] = g[k]
    OBVIOUS
  <2>1. \A j \in 0..m : ~(j < k)
    BY <1>3
  <2>. QED
    BY <1>5, <2>1, Zenon
<1>7. ASSUME NEW n \in Nat, P(n) PROVE P(n + 1)
  <2>. SUFFICES ASSUME NEW k \in 0..m, k <= n + 1 PROVE h[k] = g[k]
    OBVIOUS
  <2>1. \A j \in 0..m : j < k => j <= n
    BY <1>3
  <2>2. \A j \in 0..m : j < k => h[j] = g[j]
    BY <1>7, <2>1, Zenon
  <2>. QED
    BY <1>5, <2>2, Zenon
<1>. HIDE DEF P
<1>8. T = Nat
  <2>1. T \in SUBSET Nat /\ 0 \in T /\ \A n \in T : n + 1 \in T
    BY <1>6, <1>7
  <2>. HIDE DEF T
  <2>. QED
    BY <2>1, Induction
<1>9. P(m) /\ m \in 0..m /\ m <= m
  BY <1>3, <1>8
<1>. QED
  BY <1>9, Zenon DEF P

\* A pop that finds a frame takes it off the front.
LEMMA RestIs ==
  ASSUME NEW buf \in Seq(Byte), Complete(buf)
  PROVE  /\ RestIn(buf) \in Seq(Byte) /\ Len(RestIn(buf)) = Len(buf) - 3 - LengthIn(buf)
         /\ Len(RestIn(buf)) \in 0..Len(buf) /\ RestIn(buf) = LastOf(buf, Len(RestIn(buf)))
<1>1. PICK l \in Nat : l = Len(buf)
  BY LenProperties
<1>2. l >= 2 /\ l >= 3 + LengthIn(buf)
  BY <1>1 DEF Complete, Passes
<1>3. PICK n \in Nat : n = LengthIn(buf)
  BY <1>1, <1>2, HeaderInIs
<1>4. PICK rest : rest = SubSeq(buf, 4 + n, l)
  OBVIOUS
<1>5. rest = RestIn(buf)
  BY <1>1, <1>3, <1>4, Zenon DEF RestIn
<1>6. l >= 3 + n
  BY <1>2, <1>3
<1>7. rest \in Seq(Byte) /\ Len(rest) = IF 4 + n <= l THEN l - (4 + n) + 1 ELSE 0
  <2>1. 4 + n \in Nat \ {0} /\ l <= Len(buf)
    BY <1>1, <1>3
  <2>. QED
    BY <1>4, <2>1, PartOf
<1>8. PICK m \in Nat : m = Len(rest)
  BY <1>7, LenProperties
<1>9. m = l - 3 - n
  BY <1>6, <1>7, <1>8
<1>10. l - m + 1 = 4 + n /\ m \in 0..l
  BY <1>6, <1>9
<1>11. rest = LastOf(buf, m)
  BY <1>1, <1>4, <1>10, Zenon DEF LastOf
<1>. QED
  BY <1>1, <1>3, <1>5, <1>7, <1>8, <1>9, <1>10, <1>11, Zenon

LEMMA PopOk ==
  ASSUME NEW buf \in Seq(Byte), NEW keyed \in BOOLEAN, Pop(buf, keyed).code = "OK"
  PROVE  /\ Complete(buf) /\ Pop(buf, keyed).rest = RestIn(buf)
         /\ Pop(buf, keyed).frame = FrameOf(HeaderIn(buf), BodyIn(buf))
<1>1. PopsAs(buf, keyed)
  BY PopCases
<1>2. ~Incomplete(buf)
  <2>. SUFFICES ASSUME Incomplete(buf) PROVE FALSE
    OBVIOUS
  <2>1. Pop(buf, keyed) = [code |-> "MORE", rest |-> buf]
    BY <1>1, Zenon DEF PopsAs
  <2>. QED
    BY <2>1
<1>3. ~Refused(buf)
  <2>. SUFFICES ASSUME Refused(buf) PROVE FALSE
    OBVIOUS
  <2>1. PICK c : c = DecodeHeader(HeaderIn(buf)) /\ c # "OK"
    BY Zenon DEF Refused
  <2>2. Pop(buf, keyed) = [code |-> c, rest |-> buf]
    BY <1>1, <2>1, Zenon DEF PopsAs
  <2>. QED
    BY <2>1, <2>2
<1>4. Complete(buf)
  BY <1>1, <1>2, <1>3, Zenon DEF PopsAs
<1>5. PICK c, r, f : c = VerdictOn(buf, keyed) /\ r = RestIn(buf) /\ f = FrameOf(HeaderIn(buf), BodyIn(buf))
  OBVIOUS
<1>6. Pop(buf, keyed) = [code |-> c, rest |-> r, frame |-> f]
  BY <1>1, <1>4, <1>5, Zenon DEF PopsAs
<1>7. Pop(buf, keyed).rest = r /\ Pop(buf, keyed).frame = f
  BY <1>6
<1>. QED
  BY <1>4, <1>5, <1>7, Zenon

\* drain() as a recursive definition: a pop, and the drain of what it left.
LEMMA DrainUnfolds ==
  ASSUME NEW buf \in Seq(Byte), NEW keyed \in BOOLEAN
  PROVE  /\ Drain(buf, keyed) \in Drained(Byte)
         /\ Drain(buf, keyed) = Outcome(Pop(buf, keyed), Drain(Pop(buf, keyed).rest, keyed))
<1>1. PICK l \in Nat : l = Len(buf)
  BY LenProperties
<1>2. l \in 0..Len(buf) /\ LastOf(buf, l) = buf
  <2>1. l \in 0..Len(buf) /\ 0 \in 0..l
    BY <1>1
  <2>. QED
    BY <1>1, <2>1, LastOfLast, Zenon
<1>3. PICK g \in [0..Len(buf) -> Drained(Byte)] : Drains(buf, keyed, g) /\ Drain(buf, keyed) = g[l]
  BY <1>1, DrainIs, Zenon
<1>4. Drain(buf, keyed) \in Drained(Byte)
  BY <1>2, <1>3, Zenon
<1>5. PICK pop : pop = Pop(buf, keyed)
  OBVIOUS
<1>6. Drain(buf, keyed) = Outcome(pop, g[Len(pop.rest)])
  BY <1>2, <1>3, <1>5, Zenon DEF Drains
<1>7. CASE pop.code # "OK"
  BY <1>4, <1>5, <1>6, <1>7, Zenon DEF Outcome
<1>8. CASE pop.code = "OK"
  <2>1. Complete(buf) /\ pop.rest = RestIn(buf)
    BY <1>5, <1>8, PopOk, Zenon
  <2>2. PICK rest \in Seq(Byte) : rest = RestIn(buf) /\ Len(rest) \in 0..Len(buf) /\ rest = LastOf(buf, Len(rest))
    BY <2>1, RestIs, Zenon
  <2>3. PICK h : Drains(rest, keyed, h) /\ Drain(rest, keyed) = h[Len(rest)]
    BY <2>2, DrainIs, Zenon
  <2>4. h[Len(rest)] = g[Len(rest)]
    <3>1. PICK m \in 0..Len(buf) : m = Len(rest) /\ LastOf(buf, m) = rest
      BY <2>2, Zenon
    <3>2. Drains(buf, keyed, g) /\ Drains(LastOf(buf, m), keyed, h)
      BY <1>3, <2>3, <3>1, Zenon
    <3>3. h[m] = g[m]
      BY <3>2, DrainsAgree
    <3>. QED
      BY <3>1, <3>3, Zenon
  <2>. QED
    BY <1>4, <1>5, <1>6, <2>1, <2>2, <2>3, <2>4, Zenon
<1>. QED
  BY <1>7, <1>8

-----------------------------------------------------------------------------
(* The readers of a datagram.                                              *)

\* decode() accepts only what passes its first two checks.
LEMMA DecodeFrameOk ==
  ASSUME NEW header, NEW payload, NEW mac, NEW keyed \in BOOLEAN,
         DecodeFrame(header, payload, mac, keyed) = "OK"
  PROVE  DecodeHeader(header) = "OK" /\ Len(payload) = DeclaredLength(header)
<1>1. DecodeHeader(header) = "OK"
  <2>. SUFFICES ASSUME DecodeHeader(header) # "OK" PROVE FALSE
    OBVIOUS
  <2>. DEFINE f1 == DecodeHeader(header) # "OK"
              f2 == Len(payload) # DeclaredLength(header)
              f3 == Len(mac) # MacSize
              f4 == ~CrcFits(header, payload)
              f5 == keyed /\ ~MacFits(header, payload, mac)
              checks == <<Check(f1, DecodeHeader(header)), Check(f2, "ERR_LENGTH"),
                          Check(f3, "ERR_AUTH"), Check(f4, "ERR_CRC"), Check(f5, "ERR_AUTH")>>
  <2>1. FirstFailing(checks) = "OK"
    BY DEF DecodeFrame
  <2>2. f1
    OBVIOUS
  <2>. HIDE DEF f1, f2, f3, f4, f5
  <2>3. DOMAIN checks = 1..5
    OBVIOUS
  <2>4. /\ checks[1].fails <=> f1
        /\ checks[1].code = DecodeHeader(header) /\ checks[2].code = "ERR_LENGTH"
        /\ checks[3].code = "ERR_AUTH" /\ checks[4].code = "ERR_CRC" /\ checks[5].code = "ERR_AUTH"
    BY DEF Check
  <2>. HIDE DEF checks
  <2>5. \/ FirstFailing(checks) = "OK" /\ \A i \in 1..5 : ~checks[i].fails
        \/ \E k \in 1..5 : /\ checks[k].fails /\ FirstFailing(checks) = checks[k].code
                           /\ \A j \in 1..k - 1 : ~checks[j].fails
    BY <2>3, 5 \in Nat, FirstFailingIs, ZenonT(60)
  <2>6. \A k \in 1..5 : k = 1 \/ k = 2 \/ k = 3 \/ k = 4 \/ k = 5
    OBVIOUS
  <2>7. \A k \in 1..5 : checks[k].code # "OK"
    BY <2>2, <2>4, <2>6 DEF f1
  <2>8. 1 \in 1..5
    OBVIOUS
  <2>. QED
    BY <2>1, <2>2, <2>4, <2>5, <2>7, <2>8
<1>2. Len(payload) = DeclaredLength(header)
  BY <1>1, DecodeFrameIs
<1>. QED
  BY <1>1, <1>2

\* The datagram that decode() accepts is the one that pop() takes as a whole.
LEMMA DatagramIs ==
  ASSUME NEW raw \in Seq(Byte), NEW keyed \in BOOLEAN
  PROVE  DecodeDatagram(raw, keyed) = "OK" <=> Pop(raw, keyed).code = "OK" /\ Pop(raw, keyed).rest = << >>
<1>1. PICK l \in Nat : l = Len(raw)
  BY LenProperties
<1>2. HeaderSize = 2 /\ MacSize = 1
  BY DEF HeaderSize, MacSize
<1>3. ASSUME l >= 3
      PROVE  \E n \in Nat : /\ l = 3 + n /\ Len(SubSeq(raw, 3, 2 + n)) = n
                            /\ DecodeDatagram(raw, keyed) =
                                 DecodeFrame(HeaderIn(raw), SubSeq(raw, 3, 2 + n), SubSeq(raw, 3 + n, 3 + n), keyed)
  <2>1. PICK n \in Nat : n = l - HeaderSize - MacSize
    BY <1>2, <1>3
  <2>2. l = 3 + n /\ ~(l < HeaderSize + MacSize)
    BY <1>2, <1>3, <2>1
  <2>3. PICK body : body = SubSeq(raw, 3, 2 + n)
    OBVIOUS
  <2>4. Len(body) = n
    <3>1. 2 + n \in Nat /\ 2 + n <= Len(raw) /\ 3 \in Nat \ {0}
      BY <1>1, <2>2
    <3>2. Len(body) = IF 3 <= 2 + n THEN 2 + n - 3 + 1 ELSE 0
      BY <2>3, <3>1, PartOf
    <3>. QED
      BY <3>2
  <2>5. PICK header, mac, rest : /\ header = HeaderIn(raw) /\ mac = SubSeq(raw, 3 + n, 3 + n)
                                 /\ rest = SubSeq(raw, 4 + n, l)
    OBVIOUS
  <2>6. Parts(raw, n) = [header |-> header, payload |-> body, mac |-> mac, rest |-> rest]
    <3>1. /\ HeaderSize + 1 = 3 /\ HeaderSize + n = 2 + n /\ HeaderSize + n + 1 = 3 + n
          /\ HeaderSize + n + MacSize = 3 + n /\ HeaderSize + n + MacSize + 1 = 4 + n
      BY <1>2
    <3>. QED
      BY <1>1, <1>2, <2>3, <2>5, <3>1, Zenon DEF Parts, HeaderIn
  <2>7. Parts(raw, n).header = header /\ Parts(raw, n).payload = body /\ Parts(raw, n).mac = mac
    BY <2>6
  <2>8. DecodeDatagram(raw, keyed) = DecodeFrame(header, body, mac, keyed)
    BY <1>1, <2>1, <2>2, <2>7, Zenon DEF DecodeDatagram
  <2>. QED
    BY <2>2, <2>3, <2>4, <2>5, <2>8, Zenon
<1>4. ASSUME DecodeDatagram(raw, keyed) = "OK"
      PROVE  Pop(raw, keyed).code = "OK" /\ Pop(raw, keyed).rest = << >>
  <2>1. l >= 3
    <3>. SUFFICES ASSUME l < HeaderSize + MacSize PROVE FALSE
      BY <1>2
    <3>1. DecodeDatagram(raw, keyed) = "ERR_LENGTH"
      BY <1>1, Zenon DEF DecodeDatagram
    <3>. QED
      BY <1>4, <3>1
  <2>2. PICK n \in Nat : /\ l = 3 + n /\ Len(SubSeq(raw, 3, 2 + n)) = n
                         /\ DecodeFrame(HeaderIn(raw), SubSeq(raw, 3, 2 + n), SubSeq(raw, 3 + n, 3 + n), keyed) = "OK"
    BY <1>3, <1>4, <2>1, Zenon
  <2>3. DecodeHeader(HeaderIn(raw)) = "OK" /\ LengthIn(raw) = n
    BY <2>2, DecodeFrameOk, Zenon DEF LengthIn
  <2>4. VerdictOn(raw, keyed) = "OK"
    BY <2>2, <2>3, Zenon DEF VerdictOn, BodyIn, MacIn
  <2>5. Complete(raw)
    <3>1. l >= 2 /\ l >= 3 + n
      BY <2>2
    <3>. QED
      BY <1>1, <2>3, <3>1, Zenon DEF Complete, Passes
  <2>6. RestIn(raw) = << >>
    <3>1. RestIn(raw) \in Seq(Byte) /\ Len(RestIn(raw)) = l - 3 - n
      BY <1>1, <2>3, <2>5, RestIs, Zenon
    <3>2. Len(RestIn(raw)) = 0
      BY <2>2, <3>1
    <3>. QED
      BY <3>1, <3>2, EmptySeq
  <2>7. PICK f : f = FrameOf(HeaderIn(raw), BodyIn(raw))
    OBVIOUS
  <2>8. Pop(raw, keyed) = [code |-> "OK", rest |-> << >>, frame |-> f]
    BY <2>4, <2>5, <2>6, <2>7, PopCases, Zenon DEF PopsAs
  <2>. QED
    BY <2>8
<1>5. ASSUME Pop(raw, keyed).code = "OK", Pop(raw, keyed).rest = << >>
      PROVE  DecodeDatagram(raw, keyed) = "OK"
  <2>1. Complete(raw) /\ RestIn(raw) = << >>
    BY <1>5, PopOk, Zenon
  <2>2. VerdictOn(raw, keyed) = "OK"
    <3>1. PICK c, r, f : c = VerdictOn(raw, keyed) /\ r = RestIn(raw) /\ f = FrameOf(HeaderIn(raw), BodyIn(raw))
      OBVIOUS
    <3>2. Pop(raw, keyed) = [code |-> c, rest |-> r, frame |-> f]
      BY <2>1, <3>1, PopCases, Zenon DEF PopsAs
    <3>3. Pop(raw, keyed).code = c
      BY <3>2
    <3>. QED
      BY <1>5, <3>1, <3>3, Zenon
  <2>3. l >= 2 /\ l >= 3 + LengthIn(raw)
    BY <1>1, <2>1 DEF Complete, Passes
  <2>4. PICK n \in Nat : n = LengthIn(raw)
    BY <1>1, <2>3, HeaderInIs
  <2>5. l = 3 + n
    <3>1. Len(RestIn(raw)) = l - 3 - n
      BY <1>1, <2>1, <2>4, RestIs, Zenon
    <3>2. l - 3 - n = 0
      BY <2>1, <3>1
    <3>. QED
      BY <3>2
  <2>6. PICK k \in Nat : /\ l = 3 + k
                         /\ DecodeDatagram(raw, keyed) =
                              DecodeFrame(HeaderIn(raw), SubSeq(raw, 3, 2 + k), SubSeq(raw, 3 + k, 3 + k), keyed)
    <3>1. l >= 3
      BY <2>5
    <3>. QED
      BY <1>3, <3>1, Zenon
  <2>7. k = n
    BY <2>5, <2>6
  <2>. QED
    BY <2>2, <2>4, <2>6, <2>7, Zenon DEF VerdictOn, BodyIn, MacIn
<1>. QED
  BY <1>4, <1>5

LEMMA SplitIs ==
  ASSUME NEW raw \in Seq(Byte), NEW keyed \in BOOLEAN
  PROVE  /\ SplitDatagram(raw, keyed).code = "OK"
              <=> Drain(raw, keyed).code = "MORE" /\ Drain(raw, keyed).rest = << >>
         /\ SplitDatagram(raw, keyed).code = "OK" =>
              SplitDatagram(raw, keyed).frames = Drain(raw, keyed).frames
<1>1. PICK d \in Drained(Byte) : d = Drain(raw, keyed)
  BY DrainUnfolds, Zenon
<1>2. d.code \in {"MORE"} \cup Fault
  BY DEF Drained
<1>3. CASE d.code # "MORE"
  <2>1. SplitDatagram(raw, keyed) = [code |-> d.code]
    BY <1>1, <1>3, Zenon DEF SplitDatagram
  <2>2. d.code # "OK"
    BY <1>2, <1>3 DEF Fault
  <2>. QED
    BY <1>1, <1>3, <2>1, <2>2
<1>4. CASE d.code = "MORE" /\ d.rest # << >>
  <2>1. SplitDatagram(raw, keyed) = [code |-> "ERR_LENGTH"]
    BY <1>1, <1>4, Zenon DEF SplitDatagram, Trailing
  <2>. QED
    BY <1>1, <1>4, <2>1
<1>5. CASE d.code = "MORE" /\ d.rest = << >>
  <2>1. PICK frames : frames = d.frames
    OBVIOUS
  <2>2. SplitDatagram(raw, keyed) = [code |-> "OK", frames |-> frames]
    BY <1>1, <1>5, <2>1, Zenon DEF SplitDatagram, Trailing
  <2>. QED
    BY <1>1, <1>5, <2>1, <2>2
<1>. QED
  BY <1>3, <1>4, <1>5

LEMMA DrainEmpty ==
  ASSUME NEW keyed \in BOOLEAN
  PROVE  Drain(<< >>, keyed) = [code |-> "MORE", frames |-> << >>, rest |-> << >>]
<1>1. PICK buf \in Seq(Byte) : buf = << >> /\ Len(buf) = 0
  <2>1. << >> \in Seq(Byte) /\ Len(<< >>) = 0
    OBVIOUS
  <2>. QED
    BY <2>1, Zenon
<1>2. Incomplete(buf)
  <2>1. Len(buf) < 2
    BY <1>1
  <2>. QED
    BY <2>1, Zenon DEF Incomplete
<1>3. PICK pop : pop = Pop(buf, keyed) /\ pop = [code |-> "MORE", rest |-> buf]
  BY <1>2, PopCases, Zenon DEF PopsAs
<1>4. pop.code = "MORE" /\ pop.rest = buf /\ pop.code # "OK"
  BY <1>3
<1>5. Drain(buf, keyed) = Outcome(pop, Drain(pop.rest, keyed))
  BY <1>3, DrainUnfolds, Zenon
<1>. QED
  BY <1>1, <1>4, <1>5, Zenon DEF Outcome

\* decode() and split_datagram() agree on what one frame is.
LEMMA OneFrame ==
  ASSUME NEW raw \in Seq(Byte), NEW keyed \in BOOLEAN
  PROVE  DecodeDatagram(raw, keyed) = "OK"
           <=> SplitDatagram(raw, keyed).code = "OK" /\ Len(SplitDatagram(raw, keyed).frames) = 1
<1>1. PICK p : p = Pop(raw, keyed) /\ Popped(p, raw)
  BY PopIs, Zenon
<1>2. p.rest \in Seq(Byte)
  BY <1>1, Zenon DEF Popped
<1>3. PICK d \in Drained(Byte) : d = Drain(raw, keyed)
  BY DrainUnfolds, Zenon
<1>4. PICK e \in Drained(Byte) : e = Drain(p.rest, keyed)
  BY <1>2, DrainUnfolds, Zenon
<1>5. d = Outcome(p, e)
  BY <1>1, <1>3, <1>4, DrainUnfolds, Zenon
<1>6. /\ SplitDatagram(raw, keyed).code = "OK" <=> d.code = "MORE" /\ d.rest = << >>
      /\ SplitDatagram(raw, keyed).code = "OK" => SplitDatagram(raw, keyed).frames = d.frames
  BY <1>3, SplitIs, Zenon
<1>7. DecodeDatagram(raw, keyed) = "OK" <=> p.code = "OK" /\ p.rest = << >>
  BY <1>1, DatagramIs, Zenon
<1>8. d.frames \in Seq(Frame) /\ e.frames \in Seq(Frame)
  BY DEF Drained
<1>9. CASE p.code # "OK"
  <2>1. d = [code |-> p.code, frames |-> << >>, rest |-> p.rest]
    BY <1>5, <1>9, Zenon DEF Outcome
  <2>2. d.frames = << >> /\ Len(<< >>) # 1
    BY <2>1
  <2>. QED
    BY <1>6, <1>7, <1>9, <2>2, Zenon
<1>10. CASE p.code = "OK"
  <2>1. PICK frame \in Frame : frame = p.frame
    BY <1>1, <1>10, Zenon DEF Popped
  <2>2. d = [code |-> e.code, frames |-> <<frame>> \o e.frames, rest |-> e.rest]
    BY <1>5, <1>10, <2>1, Zenon DEF Outcome
  <2>3. PICK fs : fs = <<frame>> \o e.frames
    OBVIOUS
  <2>4. Len(fs) = 1 + Len(e.frames)
    BY <1>8, <2>3, ConcatProperties
  <2>5. d.code = e.code /\ d.frames = fs /\ d.rest = e.rest
    BY <2>2, <2>3
  <2>6. ASSUME p.rest = << >> PROVE d.code = "MORE" /\ d.rest = << >> /\ Len(d.frames) = 1
    <3>1. e = [code |-> "MORE", frames |-> << >>, rest |-> << >>]
      BY <1>4, <2>6, DrainEmpty, Zenon
    <3>2. e.code = "MORE" /\ e.frames = << >> /\ e.rest = << >>
      BY <3>1
    <3>3. Len(e.frames) = 0
      BY <3>2
    <3>. QED
      BY <2>4, <2>5, <3>2, <3>3
  <2>7. ASSUME d.code = "MORE", d.rest = << >>, Len(d.frames) = 1 PROVE p.rest = << >>
    <3>1. PICK q : q = Pop(p.rest, keyed) /\ Popped(q, p.rest)
      BY <1>2, PopIs, Zenon
    <3>2. e = Outcome(q, Drain(q.rest, keyed))
      BY <1>2, <1>4, <3>1, DrainUnfolds, Zenon
    <3>3. Len(e.frames) = 0
      <4>1. PICK n \in Nat : n = Len(e.frames)
        BY <1>8, LenProperties
      <4>2. 1 = 1 + n
        BY <2>4, <2>5, <2>7, <4>1, Zenon
      <4>. QED
        BY <4>1, <4>2
    <3>4. CASE q.code = "OK"
      <4>1. PICK x \in Frame : x = q.frame
        BY <3>1, <3>4, Zenon DEF Popped
      <4>2. q.rest \in Seq(Byte)
        BY <3>1, Zenon DEF Popped
      <4>3. PICK v \in Drained(Byte) : v = Drain(q.rest, keyed)
        BY <4>2, DrainUnfolds, Zenon
      <4>4. v.frames \in Seq(Frame)
        BY DEF Drained
      <4>5. e = [code |-> v.code, frames |-> <<x>> \o v.frames, rest |-> v.rest]
        BY <3>2, <3>4, <4>1, <4>3, Zenon DEF Outcome
      <4>6. e.frames = <<x>> \o v.frames
        BY <4>5
      <4>7. Len(<<x>> \o v.frames) = 1 + Len(v.frames) /\ Len(v.frames) \in Nat
        BY <4>4, ConcatProperties, LenProperties
      <4>. QED
        BY <3>3, <4>6, <4>7
    <3>5. CASE q.code # "OK"
      <4>1. e = [code |-> q.code, frames |-> << >>, rest |-> q.rest]
        BY <3>2, <3>5, Zenon DEF Outcome
      <4>2. e.code = q.code /\ e.rest = q.rest
        BY <4>1
      <4>3. q.code = "MORE"
        BY <2>5, <2>7, <4>2, Zenon
      <4>4. q.rest = p.rest
        BY <3>1, <4>3, Zenon DEF Popped
      <4>. QED
        BY <2>5, <2>7, <4>2, <4>4, Zenon
    <3>. QED
      BY <3>4, <3>5
  <2>. QED
    BY <1>6, <1>7, <1>10, <2>6, <2>7, Zenon
<1>. QED
  BY <1>9, <1>10

\* What is next to each other in a stream.
AtEnd(byte)   == byte.at = 3 + byte.of.length
Follows(a, b) == b = [of |-> a.of, at |-> a.at + 1] \/ (AtEnd(a) /\ b.at = 1)

\* Bytes that stood side by side in a stream.
Adjacent(buf) ==
  /\ buf \in Seq(Byte)
  /\ \A k \in 1..Len(buf) : buf[k].at \in 1..3 + buf[k].of.length
  /\ \A k \in 1..Len(buf) - 1 : Follows(buf[k], buf[k + 1])

\* They are whole items at their end.
Whole(buf) == Adjacent(buf) /\ (Len(buf) > 0 => AtEnd(buf[Len(buf)]))

LEMMA AdjacentPart ==
  ASSUME NEW s, Adjacent(s), NEW a \in Nat \ {0}, NEW b \in Nat, b <= Len(s)
  PROVE  Adjacent(SubSeq(s, a, b))
<1>0. s \in Seq(Byte)
  BY Zenon DEF Adjacent
<1>1. PICK l \in Nat : l = Len(s)
  BY <1>0, LenProperties
<1>2. PICK t : t = SubSeq(s, a, b)
  OBVIOUS
<1>3. t \in Seq(Byte) /\ Len(t) = IF a <= b THEN b - a + 1 ELSE 0
  BY <1>0, <1>2, PartOf
<1>4. PICK n \in Nat : n = Len(t)
  BY <1>3, LenProperties
<1>5. ASSUME NEW k \in 1..n PROVE a + k - 1 \in 1..l /\ t[k] = s[a + k - 1]
  <2>1. a <= b /\ n = b - a + 1
    BY <1>3, <1>4
  <2>2. a + k - 1 \in 1..l
    BY <1>1, <2>1
  <2>3. k \in 1..(b - a + 1)
    BY <2>1
  <2>4. SubSeq(s, a, b)[k] = s[a + k - 1]
    BY <2>1, <2>3
  <2>. QED
    BY <1>2, <2>2, <2>4, Zenon
<1>6. ASSUME NEW k \in 1..n PROVE t[k].at \in 1..3 + t[k].of.length
  <2>1. PICK j \in 1..l : j = a + k - 1 /\ t[k] = s[j]
    BY <1>5, Zenon
  <2>. QED
    BY <1>1, <2>1, Zenon DEF Adjacent
<1>7. ASSUME NEW k \in 1..n - 1 PROVE Follows(t[k], t[k + 1])
  <2>1. k \in 1..n /\ k + 1 \in 1..n
    OBVIOUS
  <2>2. PICK j \in 1..l : j = a + k - 1 /\ t[k] = s[j]
    BY <1>5, <2>1, Zenon
  <2>3. PICK i \in 1..l : i = a + (k + 1) - 1 /\ t[k + 1] = s[i]
    BY <1>5, <2>1, Zenon
  <2>4. i = j + 1 /\ j \in 1..l - 1
    BY <2>2, <2>3
  <2>. QED
    BY <1>1, <2>2, <2>3, <2>4, Zenon DEF Adjacent
<1>. QED
  BY <1>2, <1>3, <1>4, <1>6, <1>7, Zenon DEF Adjacent

LEMMA WholeJoin ==
  ASSUME NEW s, Whole(s), NEW it \in Items
  PROVE  Whole(s \o Encode(it))
<1>0. s \in Seq(Byte) /\ Adjacent(s)
  BY Zenon DEF Whole, Adjacent
<1>1. PICK l \in Nat : l = Len(s)
  BY <1>0, LenProperties
<1>2. PICK n \in Nat : n = 3 + it.length
  BY EncodeIs, MaxPayloadAssumption
<1>3. n >= 3
  BY <1>2, EncodeIs, MaxPayloadAssumption
<1>4. PICK e \in Seq(Byte) : e = Encode(it) /\ Len(e) = n /\ \A k \in 1..n : e[k] = [of |-> it, at |-> k]
  <2>1. HeaderSize + it.length + MacSize = n
    BY <1>2, EncodeIs, MaxPayloadAssumption DEF HeaderSize, MacSize
  <2>. QED
    BY <2>1, EncodeIs, Zenon
<1>5. PICK t \in Seq(Byte) : t = s \o e
  BY <1>0, ConcatProperties
<1>6. Len(t) = l + n
  BY <1>0, <1>1, <1>4, <1>5, ConcatProperties
<1>7. ASSUME NEW k \in 1..l PROVE t[k] = s[k]
  BY <1>0, <1>1, <1>4, <1>5, ConcatProperties
<1>8. ASSUME NEW k \in 1..n PROVE t[l + k] = [of |-> it, at |-> k]
  <2>1. l + k \in (l + 1)..(l + n) /\ l + k - l = k
    OBVIOUS
  <2>2. t[l + k] = e[l + k - l]
    BY <1>0, <1>1, <1>4, <1>5, <2>1, ConcatProperties
  <2>. QED
    BY <1>4, <2>1, <2>2, Zenon
<1>9. ASSUME NEW k \in 1..n PROVE t[l + k].of = it /\ t[l + k].at = k
  <2>1. PICK b : b = t[l + k]
    OBVIOUS
  <2>2. b = [of |-> it, at |-> k]
    BY <1>8, <2>1, Zenon
  <2>3. b.of = it /\ b.at = k
    BY <2>2
  <2>. QED
    BY <2>1, <2>3, Zenon
<1>10. ASSUME NEW k \in 1..l + n PROVE t[k].at \in 1..3 + t[k].of.length
  <2>1. CASE k \in 1..l
    <3>1. s[k].at \in 1..3 + s[k].of.length
      BY <1>0, <1>1, <2>1, Zenon DEF Adjacent
    <3>. QED
      BY <1>7, <2>1, <3>1, Zenon
  <2>2. CASE k \notin 1..l
    <3>1. PICK j \in 1..n : k = l + j
      <4>1. k - l \in 1..n /\ k = l + (k - l)
        BY <2>2
      <4>. QED
        BY <4>1, Zenon
    <3>2. t[k].of = it /\ t[k].at = j
      BY <1>9, <3>1, Zenon
    <3>. QED
      BY <1>2, <3>2, Zenon
  <2>. QED
    BY <2>1, <2>2
<1>11. ASSUME NEW k \in 1..l + n - 1 PROVE Follows(t[k], t[k + 1])
  <2>1. CASE k < l
    <3>1. k \in 1..l - 1 /\ k \in 1..l /\ k + 1 \in 1..l
      BY <2>1
    <3>2. Follows(s[k], s[k + 1])
      BY <1>0, <1>1, <3>1, Zenon DEF Adjacent
    <3>3. t[k] = s[k] /\ t[k + 1] = s[k + 1]
      BY <1>7, <3>1
    <3>. QED
      BY <3>2, <3>3, Zenon
  <2>2. CASE k = l
    <3>1. l \in 1..l /\ 1 \in 1..n /\ l > 0
      BY <1>3, <2>2
    <3>2. AtEnd(t[l])
      BY <1>1, <1>7, <3>1, Zenon DEF Whole
    <3>3. t[l + 1].at = 1
      BY <1>9, <3>1
    <3>. QED
      BY <2>2, <3>2, <3>3, Zenon DEF Follows
  <2>3. CASE k > l
    <3>1. PICK j \in Nat : j = k - l /\ j \in 1..n /\ j + 1 \in 1..n /\ k = l + j /\ k + 1 = l + (j + 1)
      BY <2>3
    <3>2. t[k].of = it /\ t[k].at = j /\ t[k + 1] = [of |-> it, at |-> j + 1]
      BY <1>8, <1>9, <3>1, Zenon
    <3>. QED
      BY <3>2, Zenon DEF Follows
  <2>. QED
    BY <2>1, <2>2, <2>3
<1>12. AtEnd(t[l + n])
  <2>1. n \in 1..n
    BY <1>3
  <2>. QED
    BY <1>2, <1>9, <2>1, Zenon DEF AtEnd
<1>13. PICK m : m = l + n
  OBVIOUS
<1>14. Adjacent(t)
  <2>1. Len(t) = m
    BY <1>6, <1>13, Zenon
  <2>2. \A k \in 1..m : t[k].at \in 1..3 + t[k].of.length
    BY <1>10, <1>13, Zenon
  <2>3. \A k \in 1..m - 1 : Follows(t[k], t[k + 1])
    <3>1. \A k \in 1..m - 1 : k \in 1..l + n - 1
      BY <1>13
    <3>. QED
      BY <1>11, <3>1, Zenon
  <2>. QED
    BY <2>1, <2>2, <2>3, Zenon DEF Adjacent
<1>15. Whole(t)
  BY <1>6, <1>12, <1>14, Zenon DEF Whole
<1>. QED
  BY <1>4, <1>5, <1>15, Zenon

LEMMA WholeBefore ==
  ASSUME NEW w \in Seq(Items), NEW n \in 0..Len(w)
  PROVE  Whole(Before(w, n))
<1>0. PICK l \in Nat : l = Len(w)
  BY LenProperties
<1>1. PICK q : q = [i \in 1..Len(w) |-> Encode(w[i])]
  OBVIOUS
<1>2. /\ q \in Seq(Seq(Byte)) /\ Len(q) = l
      /\ \A i \in 0..l : Before(w, i) = First(q, i)
  BY <1>0, <1>1, BeforeFirst
<1>3. \A i \in 0..l - 1 : First(q, i + 1) = First(q, i) \o q[i + 1]
  BY <1>2, FirstIs, Zenon
<1>. DEFINE P(m) == m <= l => Whole(Before(w, m))
            T == {m \in Nat : P(m)}
<1>4. P(0)
  <2>1. Before(w, 0) = << >>
    BY BeforeEnds
  <2>2. << >> \in Seq(Byte) /\ Len(<< >>) = 0 /\ 1..0 = {} /\ 1..0 - 1 = {}
    OBVIOUS
  <2>3. Adjacent(<< >>)
    BY <2>2 DEF Adjacent
  <2>4. ~(Len(<< >>) > 0)
    OBVIOUS
  <2>. QED
    BY <2>1, <2>3, <2>4, Zenon DEF Whole
<1>5. ASSUME NEW m \in Nat, P(m) PROVE P(m + 1)
  <2>. SUFFICES ASSUME m + 1 <= l PROVE Whole(Before(w, m + 1))
    OBVIOUS
  <2>1. m \in 0..l /\ m + 1 \in 0..l /\ m \in 0..l - 1 /\ m + 1 \in 1..l /\ m <= l
    OBVIOUS
  <2>2. Whole(Before(w, m))
    BY <1>5, <2>1
  <2>3. q[m + 1] = Encode(w[m + 1]) /\ w[m + 1] \in Items
    <3>1. m + 1 \in 1..Len(w)
      BY <1>0, <2>1
    <3>. QED
      BY <1>1, <3>1, ElementOfSeq
  <2>4. Before(w, m + 1) = Before(w, m) \o Encode(w[m + 1])
    BY <1>2, <1>3, <2>1, <2>3, Zenon
  <2>. QED
    BY <2>2, <2>3, <2>4, WholeJoin, Zenon
<1>. HIDE DEF P
<1>6. T = Nat
  <2>1. T \in SUBSET Nat /\ 0 \in T /\ \A m \in T : m + 1 \in T
    BY <1>4, <1>5
  <2>. HIDE DEF T
  <2>. QED
    BY <2>1, Induction
<1>7. P(n) /\ n <= l
  BY <1>0, <1>6
<1>. QED
  BY <1>7, Zenon DEF P

\* What pop() takes off a stream is an item, whole.
LEMMA FrameBytes ==
  ASSUME NEW buf, Adjacent(buf), Complete(buf)
  PROVE  \E it \in Items : /\ it = HeaderIn(buf)[2].of /\ LengthIn(buf) = it.length
                           /\ buf = Encode(it) \o RestIn(buf)
<1>0. buf \in Seq(Byte)
  BY Zenon DEF Adjacent
<1>1. PICK l \in Nat : l = Len(buf)
  BY <1>0, LenProperties
<1>2. l >= 2 /\ l >= 3 + LengthIn(buf) /\ DecodeHeader(HeaderIn(buf)) = "OK"
  BY <1>1 DEF Complete, Passes
<1>3. PICK header \in Seq(Byte) : /\ header = HeaderIn(buf) /\ Len(header) = 2
                                  /\ header[1] = buf[1] /\ header[2] = buf[2]
  <2>1. SubSeq(buf, 1, 2) \in Seq(Byte) /\ Len(SubSeq(buf, 1, 2)) = 2
    BY <1>0, <1>1, <1>2, PartOf
  <2>2. 1 \in 1..(2 - 1 + 1) /\ 2 \in 1..(2 - 1 + 1) /\ 1 + 1 - 1 = 1 /\ 1 + 2 - 1 = 2
    OBVIOUS
  <2>3. \A i \in 1..(2 - 1 + 1) : SubSeq(buf, 1, 2)[i] = buf[1 + i - 1]
    OBVIOUS
  <2>4. SubSeq(buf, 1, 2)[1] = buf[1] /\ SubSeq(buf, 1, 2)[2] = buf[2]
    BY <2>2, <2>3
  <2>. QED
    BY <2>1, <2>4, Zenon DEF HeaderIn
<1>4. 1 \in 1..l /\ 2 \in 1..l /\ 1 \in 1..l - 1
  BY <1>2
<1>5. buf[1] \in Byte /\ buf[2] \in Byte
  BY <1>0, <1>1, <1>4, ElementOfSeq
<1>6. PICK it \in Items : it = buf[2].of
  BY <1>5 DEF Byte
<1>7. PICK n \in Nat : n = it.length
  BY EncodeIs, MaxPayloadAssumption
<1>8. header[2].at = 2 /\ DeclaredLength(header) = n
  <2>1. DeclaredLength(header) <= MaxPayload
    BY <1>2, <1>3, LengthIs, Zenon
  <2>2. header[2].at = 2 /\ "ERR_LENGTH" \notin header[2].of.faults
    <3>. SUFFICES ASSUME ~(header[2].at = 2 /\ "ERR_LENGTH" \notin header[2].of.faults) PROVE FALSE
      OBVIOUS
    <3>1. DeclaredLength(header) = MaxPayload + 1
      BY Zenon DEF DeclaredLength
    <3>. QED
      BY <2>1, <3>1, MaxPayloadAssumption
  <2>. QED
    BY <1>3, <1>6, <1>7, <2>2, Zenon DEF DeclaredLength
<1>9. LengthIn(buf) = n
  BY <1>3, <1>8, Zenon DEF LengthIn
<1>10. buf[1] = [of |-> it, at |-> 1] /\ buf[2] = [of |-> it, at |-> 2]
  <2>1. PICK a \in Byte, b \in Byte : a = buf[1] /\ b = buf[2]
    BY <1>5
  <2>2. Follows(a, b)
    <3>1. 1 \in 1..Len(buf) - 1 /\ 1 + 1 = 2
      BY <1>1, <1>4
    <3>. QED
      BY <2>1, <3>1, Zenon DEF Adjacent
  <2>3. b.at = 2 /\ b.of = it
    BY <1>3, <1>6, <1>8, <2>1, Zenon
  <2>4. b = [of |-> a.of, at |-> a.at + 1]
    BY <2>2, <2>3 DEF Follows
  <2>5. a.of = it /\ a.at = 1
    BY <2>3, <2>4 DEF Byte
  <2>6. a = [of |-> it, at |-> 1] /\ b = [of |-> it, at |-> 2]
    BY <2>3, <2>5 DEF Byte
  <2>. QED
    BY <2>1, <2>6
<1>. DEFINE P(m) == m + 1 <= 3 + n => buf[m + 1] = [of |-> it, at |-> m + 1]
            T == {m \in Nat : P(m)}
<1>11. P(0)
  BY <1>10
<1>12. ASSUME NEW m \in Nat, P(m) PROVE P(m + 1)
  <2>. SUFFICES ASSUME (m + 1) + 1 <= 3 + n
                PROVE  buf[(m + 1) + 1] = [of |-> it, at |-> (m + 1) + 1]
    OBVIOUS
  <2>1. PICK k \in Nat : k = m + 1
    OBVIOUS
  <2>2. k < 3 + n /\ k \in 1..l - 1 /\ k + 1 = (m + 1) + 1
    BY <1>2, <1>9, <2>1
  <2>3. buf[k] = [of |-> it, at |-> k]
    BY <1>12, <2>1, <2>2
  <2>4. Follows(buf[k], buf[k + 1])
    BY <1>1, <2>2, Zenon DEF Adjacent
  <2>5. CASE k = 1
    <3>1. k + 1 = 2
      BY <2>5
    <3>. QED
      BY <1>10, <2>2, <3>1
  <2>6. CASE k # 1
    <3>1. PICK a, b : a = buf[k] /\ b = buf[k + 1]
      OBVIOUS
    <3>2. a.of = it /\ a.at = k
      BY <2>3, <3>1
    <3>3. ~AtEnd(a)
      BY <1>7, <2>2, <3>2 DEF AtEnd
    <3>4. b = [of |-> it, at |-> k + 1]
      BY <2>4, <3>1, <3>2, <3>3, Zenon DEF Follows
    <3>. QED
      BY <2>2, <3>1, <3>4
  <2>. QED
    BY <2>5, <2>6
<1>. HIDE DEF P
<1>13. T = Nat
  <2>1. T \in SUBSET Nat /\ 0 \in T /\ \A m \in T : m + 1 \in T
    BY <1>11, <1>12
  <2>. HIDE DEF T
  <2>. QED
    BY <2>1, Induction
<1>14. ASSUME NEW k \in 1..3 + n PROVE buf[k] = [of |-> it, at |-> k]
  <2>1. k - 1 \in Nat /\ (k - 1) + 1 = k /\ k <= 3 + n
    OBVIOUS
  <2>2. P(k - 1)
    BY <1>13, <2>1
  <2>3. (k - 1) + 1 <= 3 + n => buf[(k - 1) + 1] = [of |-> it, at |-> (k - 1) + 1]
    BY <2>2, Zenon DEF P
  <2>. QED
    BY <2>1, <2>3
<1>15. PICK e \in Seq(Byte) : e = Encode(it) /\ Len(e) = 3 + n /\ \A k \in 1..3 + n : e[k] = [of |-> it, at |-> k]
  <2>1. HeaderSize + it.length + MacSize = 3 + n
    BY <1>7 DEF HeaderSize, MacSize
  <2>2. /\ Encode(it) \in Seq(Byte)
        /\ Len(Encode(it)) = HeaderSize + it.length + MacSize
        /\ \A k \in 1..HeaderSize + it.length + MacSize : Encode(it)[k] = [of |-> it, at |-> k]
    BY EncodeIs, Zenon
  <2>. QED
    BY <2>1, <2>2, ZenonT(30)
<1>16. PICK rest \in Seq(Byte) : rest = RestIn(buf) /\ Len(rest) = l - 3 - n
  BY <1>0, <1>1, <1>9, RestIs, Zenon
<1>17. ASSUME NEW i \in 1..l - 3 - n PROVE rest[i] = buf[3 + n + i]
  <2>1. rest = SubSeq(buf, 4 + n, l)
    BY <1>1, <1>9, <1>16, Zenon DEF RestIn
  <2>2. i \in 1..(l - (4 + n) + 1) /\ 4 + n + i - 1 = 3 + n + i
    OBVIOUS
  <2>3. SubSeq(buf, 4 + n, l)[i] = buf[4 + n + i - 1]
    BY <2>2
  <2>. QED
    BY <2>1, <2>2, <2>3, Zenon
<1>18. PICK t \in Seq(Byte) : t = e \o rest
  BY ConcatProperties
<1>19. Len(t) = l
  <2>1. Len(t) = Len(e) + Len(rest)
    BY <1>18, ConcatProperties
  <2>. QED
    BY <1>2, <1>9, <1>15, <1>16, <2>1
<1>20. ASSUME NEW i \in 1..l PROVE buf[i] = t[i]
  <2>1. CASE i <= 3 + n
    <3>1. i \in 1..Len(e) /\ i \in 1..3 + n
      BY <1>15, <2>1
    <3>2. t[i] = e[i]
      BY <1>18, <3>1, ConcatProperties
    <3>. QED
      BY <1>14, <1>15, <3>1, <3>2, Zenon
  <2>2. CASE i > 3 + n
    <3>1. PICK j \in Nat : j = i - (3 + n) /\ j \in 1..l - 3 - n /\ 3 + n + j = i
      BY <2>2
    <3>2. i \in (Len(e) + 1)..(Len(e) + Len(rest)) /\ i - Len(e) = j
      BY <1>2, <1>9, <1>15, <1>16, <2>2, <3>1
    <3>3. t[i] = rest[i - Len(e)]
      BY <1>18, <3>2, ConcatProperties
    <3>. QED
      BY <1>17, <3>1, <3>2, <3>3, Zenon
  <2>. QED
    BY <2>1, <2>2
<1>21. buf = t
  BY <1>0, <1>1, <1>19, <1>20, SeqEqual
<1>22. it = HeaderIn(buf)[2].of
  BY <1>3, <1>6, Zenon
<1>. QED
  BY <1>7, <1>9, <1>15, <1>16, <1>18, <1>21, <1>22, Zenon

\* What frames were written as, by the second half of their headers.
WrittenAs(frames) == [i \in DOMAIN frames |-> Encode(frames[i].number)]

LEMMA WrittenAsIs ==
  ASSUME NEW frames \in Seq(Frame)
  PROVE  /\ WrittenAs(frames) \in Seq(Seq(Byte)) /\ Len(WrittenAs(frames)) = Len(frames)
         /\ \A i \in 1..Len(frames) : WrittenAs(frames)[i] = Encode(frames[i].number)
<1>1. PICK n \in Nat : n = Len(frames) /\ DOMAIN frames = 1..n
  BY LenProperties
<1>2. PICK S : S = Seq(Byte)
  OBVIOUS
<1>3. ASSUME NEW i \in 1..n PROVE Encode(frames[i].number) \in S
  <2>1. frames[i] \in Frame
    BY <1>1, ElementOfSeq
  <2>2. frames[i].number \in Items
    BY <2>1 DEF Frame
  <2>. QED
    BY <1>2, <2>2, EncodeIs, Zenon
<1>4. PICK q : q = [i \in 1..n |-> Encode(frames[i].number)]
  OBVIOUS
<1>5. q \in [1..n -> S] /\ \A i \in 1..n : q[i] = Encode(frames[i].number)
  BY <1>3, <1>4
<1>6. q \in Seq(S) /\ Len(q) = n
  BY <1>5
<1>7. WrittenAs(frames) = q
  BY <1>1, <1>4, Zenon DEF WrittenAs
<1>. QED
  BY <1>1, <1>2, <1>5, <1>6, <1>7, Zenon

Prepend(x, q) == <<x>> \o q

LEMMA PrependIs ==
  ASSUME NEW S, NEW x \in S, NEW q \in Seq(S)
  PROVE  /\ Prepend(x, q) \in Seq(S) /\ Len(Prepend(x, q)) = 1 + Len(q) /\ Prepend(x, q)[1] = x
         /\ \A i \in 1..Len(q) : Prepend(x, q)[1 + i] = q[i]
<1>1. PICK o \in Seq(S) : o = <<x>> /\ Len(o) = 1 /\ o[1] = x
  <2>1. <<x>> \in Seq(S) /\ Len(<<x>>) = 1 /\ <<x>>[1] = x
    OBVIOUS
  <2>. QED
    BY <2>1, Zenon
<1>2. PICK n \in Nat : n = Len(q)
  BY LenProperties
<1>3. PICK t \in Seq(S) : t = o \o q
  BY ConcatProperties
<1>4. /\ Len(t) = Len(o) + Len(q)
      /\ \A i \in 1..Len(o) + Len(q) : t[i] = IF i <= Len(o) THEN o[i] ELSE q[i - Len(o)]
  BY <1>3, ConcatProperties
<1>5. Len(t) = 1 + n
  BY <1>1, <1>2, <1>4, Zenon
<1>6. t[1] = x
  <2>1. 1 \in 1..1 + n /\ 1 <= 1
    BY <1>2
  <2>. QED
    BY <1>1, <1>2, <1>4, <2>1, Zenon
<1>7. ASSUME NEW i \in 1..n PROVE t[1 + i] = q[i]
  <2>1. 1 + i \in 1..1 + n /\ ~(1 + i <= 1) /\ 1 + i - 1 = i
    OBVIOUS
  <2>. QED
    BY <1>1, <1>2, <1>4, <2>1
<1>. QED
  BY <1>1, <1>2, <1>3, <1>5, <1>6, <1>7, Zenon DEF Prepend

LEMMA WrittenFirst ==
  ASSUME NEW x \in Frame, NEW fs \in Seq(Frame)
  PROVE  FlattenSeq(WrittenAs(<<x>> \o fs)) = Encode(x.number) \o FlattenSeq(WrittenAs(fs))
<1>1. PICK e \in Seq(Byte) : e = Encode(x.number)
  <2>1. x.number \in Items
    BY DEF Frame
  <2>. QED
    BY <2>1, EncodeIs, Zenon
<1>2. PICK n \in Nat : n = Len(fs)
  BY LenProperties
<1>3. PICK xs \in Seq(Frame) : /\ xs = Prepend(x, fs) /\ Len(xs) = 1 + n /\ xs[1] = x
                               /\ \A i \in 1..n : xs[1 + i] = fs[i]
  <2>1. /\ Prepend(x, fs) \in Seq(Frame) /\ Len(Prepend(x, fs)) = 1 + Len(fs) /\ Prepend(x, fs)[1] = x
        /\ \A i \in 1..Len(fs) : Prepend(x, fs)[1 + i] = fs[i]
    BY PrependIs
  <2>. QED
    BY <1>2, <2>1, Zenon
<1>4. PICK S : S = Seq(Byte)
  OBVIOUS
<1>5. PICK q \in Seq(S) : q = WrittenAs(fs) /\ Len(q) = n /\ \A i \in 1..n : q[i] = Encode(fs[i].number)
  BY <1>2, <1>4, WrittenAsIs, Zenon
<1>6. PICK p \in Seq(S) : p = WrittenAs(xs) /\ Len(p) = 1 + n /\ \A i \in 1..1 + n : p[i] = Encode(xs[i].number)
  BY <1>3, <1>4, WrittenAsIs, Zenon
<1>7. PICK t \in Seq(S) : /\ t = Prepend(e, q) /\ Len(t) = 1 + n /\ t[1] = e
                          /\ \A i \in 1..n : t[1 + i] = q[i]
  <2>1. /\ Prepend(e, q) \in Seq(S) /\ Len(Prepend(e, q)) = 1 + Len(q) /\ Prepend(e, q)[1] = e
        /\ \A i \in 1..Len(q) : Prepend(e, q)[1 + i] = q[i]
    BY <1>4, PrependIs
  <2>. QED
    BY <1>5, <2>1, Zenon
<1>8. ASSUME NEW i \in 1..1 + n PROVE p[i] = t[i]
  <2>1. CASE i = 1
    BY <1>1, <1>3, <1>6, <1>7, <2>1, Zenon
  <2>2. CASE i # 1
    <3>1. PICK j \in 1..n : i = 1 + j
      <4>1. i - 1 \in 1..n /\ i = 1 + (i - 1)
        BY <2>2
      <4>. QED
        BY <4>1, Zenon
    <3>2. 1 + j \in 1..1 + n
      BY <3>1, Zenon
    <3>3. p[1 + j] = Encode(xs[1 + j].number)
      BY <1>6, <3>2, Zenon
    <3>4. xs[1 + j] = fs[j] /\ t[1 + j] = q[j] /\ q[j] = Encode(fs[j].number)
      BY <1>3, <1>5, <1>7, Zenon
    <3>. QED
      BY <3>1, <3>3, <3>4, Zenon
  <2>. QED
    BY <2>1, <2>2
<1>9. p = t
  <2>1. Len(p) = Len(t) /\ \A i \in 1..Len(p) : p[i] = t[i]
    BY <1>6, <1>7, <1>8, Zenon
  <2>. QED
    BY <2>1, SeqEqual, Zenon
<1>10. <<e>> \in Seq(S) /\ FlattenSeq(<<e>>) = e
  <2>1. <<e>> \in Seq(S)
    BY <1>1, <1>4
  <2>. QED
    BY <1>1, <2>1, FlattenOne, Zenon
<1>11. FlattenSeq(t) = FlattenSeq(<<e>>) \o FlattenSeq(q)
  BY <1>4, <1>7, <1>10, FlattenConcat, Zenon DEF Prepend
<1>. QED
  BY <1>1, <1>3, <1>5, <1>6, <1>9, <1>10, <1>11, Zenon DEF Prepend

\* What drain() takes off a stream without an error, and what it leaves, is the
\* stream again.
LEMMA DrainWrites ==
  ASSUME NEW buf, Adjacent(buf), NEW keyed \in BOOLEAN, Drain(buf, keyed).code = "MORE"
  PROVE  FlattenSeq(WrittenAs(Drain(buf, keyed).frames)) \o Drain(buf, keyed).rest = buf
<1>. DEFINE Good(b) == Drain(b, keyed).code = "MORE" =>
                         FlattenSeq(WrittenAs(Drain(b, keyed).frames)) \o Drain(b, keyed).rest = b
            P(n) == \A b : Adjacent(b) /\ Len(b) < n => Good(b)
            T == {n \in Nat : P(n)}
<1>1. ASSUME NEW b, Adjacent(b), \A r : Adjacent(r) /\ Len(r) < Len(b) => Good(r) PROVE Good(b)
  <2>. SUFFICES ASSUME Drain(b, keyed).code = "MORE"
                PROVE  FlattenSeq(WrittenAs(Drain(b, keyed).frames)) \o Drain(b, keyed).rest = b
    OBVIOUS
  <2>0. b \in Seq(Byte)
    BY <1>1, Zenon DEF Adjacent
  <2>1. PICK p : p = Pop(b, keyed) /\ Popped(p, b)
    BY <2>0, PopIs, Zenon
  <2>2. PICK d \in Drained(Byte) : d = Drain(b, keyed)
    BY <2>0, DrainUnfolds, Zenon
  <2>3. p.rest \in Seq(Byte)
    BY <2>1, Zenon DEF Popped
  <2>4. PICK e \in Drained(Byte) : e = Drain(p.rest, keyed)
    BY <2>3, DrainUnfolds, Zenon
  <2>5. d = Outcome(p, e)
    BY <2>0, <2>1, <2>2, <2>4, DrainUnfolds, Zenon
  <2>6. CASE p.code # "OK"
    <3>1. d = [code |-> p.code, frames |-> << >>, rest |-> p.rest]
      BY <2>5, <2>6, Zenon DEF Outcome
    <3>2. d.code = p.code /\ d.frames = << >> /\ d.rest = p.rest
      BY <3>1
    <3>3. p.rest = b
      BY <2>1, <2>2, <3>2, Zenon DEF Popped
    <3>4. WrittenAs(<< >>) = << >>
      BY DEF WrittenAs
    <3>5. << >> \o b = b
      BY <2>0, ConcatEmptySeq
    <3>. QED
      BY <2>2, <3>2, <3>3, <3>4, <3>5, FlattenEmpty, Zenon
  <2>7. CASE p.code = "OK"
    <3>1. /\ Complete(b) /\ p.rest = RestIn(b) /\ p.frame = FrameOf(HeaderIn(b), BodyIn(b))
          /\ Len(p.rest) < Len(b) /\ p.frame \in Frame
      BY <2>0, <2>1, <2>7, PopOk, Zenon DEF Popped
    <3>2. PICK it \in Items : it = HeaderIn(b)[2].of /\ b = Encode(it) \o RestIn(b)
      BY <1>1, <3>1, FrameBytes, Zenon
    <3>3. PICK x \in Frame : x = p.frame /\ x.number = it
      <4>1. FrameOf(HeaderIn(b), BodyIn(b)).number = HeaderIn(b)[2].of
        BY DEF FrameOf
      <4>. QED
        BY <3>1, <3>2, <4>1, Zenon
    <3>4. PICK rest : rest = p.rest /\ Adjacent(rest)
      <4>1. PICK k \in 0..Len(b) : RestIn(b) = LastOf(b, k)
        BY <2>0, <3>1, RestIs, Zenon
      <4>2. PICK l \in Nat : l = Len(b)
        BY <2>0, LenProperties
      <4>3. PICK a \in Nat \ {0} : a = Len(b) - k + 1
        BY <4>2
      <4>4. l <= Len(b) /\ RestIn(b) = SubSeq(b, a, l)
        BY <4>1, <4>2, <4>3 DEF LastOf
      <4>5. Adjacent(RestIn(b))
        BY <1>1, <4>4, AdjacentPart
      <4>. QED
        BY <3>1, <4>5, Zenon
    <3>5. d = [code |-> e.code, frames |-> <<x>> \o e.frames, rest |-> e.rest]
      BY <2>5, <2>7, <3>3, Zenon DEF Outcome
    <3>6. d.code = e.code /\ d.frames = <<x>> \o e.frames /\ d.rest = e.rest
      BY <3>5
    <3>7. e.frames \in Seq(Frame) /\ e.rest \in Seq(Byte)
      BY DEF Drained
    <3>8. PICK flat \in Seq(Byte) : flat = FlattenSeq(WrittenAs(e.frames))
      <4>1. WrittenAs(e.frames) \in Seq(Seq(Byte))
        BY <3>7, WrittenAsIs, Zenon
      <4>. QED
        BY <4>1, FlattenType, Zenon
    <3>9. flat \o e.rest = rest
      <4>1. Good(rest)
        BY <1>1, <3>1, <3>4, Zenon
      <4>2. e.code = "MORE"
        BY <2>2, <3>6, Zenon
      <4>. QED
        BY <2>4, <3>4, <3>8, <4>1, <4>2, Zenon
    <3>10. PICK w \in Seq(Byte) : w = Encode(it)
      BY EncodeIs, Zenon
    <3>11. FlattenSeq(WrittenAs(d.frames)) = w \o flat
      BY <3>3, <3>6, <3>7, <3>8, <3>10, WrittenFirst, Zenon
    <3>12. (w \o flat) \o e.rest = w \o (flat \o e.rest)
      <4>1. PICK r \in Seq(Byte) : r = e.rest
        BY <3>7, Zenon
      <4>2. (w \o flat) \o r = w \o (flat \o r)
        BY ConcatAssociative
      <4>. QED
        BY <4>1, <4>2, Zenon
    <3>13. b = w \o rest
      <4>1. PICK y : y = RestIn(b)
        OBVIOUS
      <4>2. rest = y
        BY <3>1, <3>4, <4>1, Zenon
      <4>3. b = Encode(it) \o y
        BY <3>2, <4>1
      <4>. QED
        BY <3>10, <4>2, <4>3, Zenon
    <3>14. FlattenSeq(WrittenAs(d.frames)) \o d.rest = b
      <4>1. PICK r, u : r = e.rest /\ u = FlattenSeq(WrittenAs(d.frames))
        OBVIOUS
      <4>2. u = w \o flat /\ d.rest = r /\ flat \o r = rest /\ (w \o flat) \o r = w \o (flat \o r)
        BY <3>6, <3>9, <3>11, <3>12, <4>1, Zenon
      <4>3. u \o r = w \o rest
        BY <4>2
      <4>. QED
        BY <3>13, <4>1, <4>2, <4>3, Zenon
    <3>. QED
      BY <2>2, <3>14, Zenon
  <2>. QED
    BY <2>6, <2>7
<1>. HIDE DEF Good
<1>2. P(0)
  <2>. SUFFICES ASSUME NEW b, Adjacent(b), Len(b) < 0 PROVE Good(b)
    OBVIOUS
  <2>1. b \in Seq(Byte)
    BY Zenon DEF Adjacent
  <2>2. PICK l \in Nat : l = Len(b)
    BY <2>1, LenProperties
  <2>. QED
    BY <2>2
<1>3. ASSUME NEW n \in Nat, P(n) PROVE P(n + 1)
  <2>. SUFFICES ASSUME NEW b, Adjacent(b), Len(b) < n + 1 PROVE Good(b)
    OBVIOUS
  <2>1. ASSUME NEW r, Adjacent(r), Len(r) < Len(b) PROVE Good(r)
    <3>1. r \in Seq(Byte) /\ b \in Seq(Byte)
      BY <2>1, Zenon DEF Adjacent
    <3>2. PICK k \in Nat, l \in Nat : k = Len(r) /\ l = Len(b)
      BY <3>1, LenProperties
    <3>3. Len(r) < n
      BY <2>1, <3>2
    <3>. QED
      BY <1>3, <2>1, <3>3, Zenon
  <2>. QED
    BY <1>1, <2>1, Zenon
<1>. HIDE DEF P
<1>4. T = Nat
  <2>1. T \in SUBSET Nat /\ 0 \in T /\ \A n \in T : n + 1 \in T
    BY <1>2, <1>3
  <2>. HIDE DEF T
  <2>. QED
    BY <2>1, Induction
<1>5. PICK l \in Nat : l = Len(buf)
  <2>1. buf \in Seq(Byte)
    BY Zenon DEF Adjacent
  <2>. QED
    BY <2>1, LenProperties
<1>6. P(l + 1) /\ Len(buf) < l + 1
  BY <1>4, <1>5
<1>7. Good(buf)
  BY <1>6, Zenon DEF P
<1>. QED
  BY <1>7, Zenon DEF Good

\* The two readers of a datagram agree on what one frame is, and what
\* split_datagram() accepts is its frames and not a byte more: decode() and
\* split_datagram() of codec.py and framing.py, for any part of any stream.
THEOREM CaptureDatagramReadersAgree == Spec => []DatagramReadersAgree
<1>1. CaptureInv => DatagramReadersAgree
  <2>. SUFFICES ASSUME CaptureInv, NEW s \in ToSet(seen), NEW keyed \in BOOLEAN
                PROVE  /\ DecodeDatagram(Payload(s), keyed) = "OK" <=>
                            /\ SplitDatagram(Payload(s), keyed).code = "OK"
                            /\ Len(SplitDatagram(Payload(s), keyed).frames) = 1
                       /\ SplitDatagram(Payload(s), keyed).code = "OK" =>
                            FlattenSeq([i \in DOMAIN SplitDatagram(Payload(s), keyed).frames |->
                                         Encode(SplitDatagram(Payload(s), keyed).frames[i].number)]) = Payload(s)
    BY Zenon DEF DatagramReadersAgree
  <2>1. PICK i \in 1..Len(seen) : s = seen[i]
    BY DEF ToSet, CaptureInv
  <2>2. PICK raw \in Seq(Byte) : raw = Payload(s)
    BY <2>1, PayloadIs, Zenon
  <2>3. Adjacent(raw)
    <3>1. PICK a \in Nat \ {0}, b \in Nat : /\ s.flow \in Flow /\ b <= Len(Bytes(s.flow))
                                           /\ raw = SubSeq(Bytes(s.flow), a, b)
      BY <2>1, <2>2, SeenPart, Zenon
    <3>2. PICK bytes : bytes = Bytes(s.flow)
      OBVIOUS
    <3>3. Adjacent(bytes)
      <4>1. PICK w \in Seq(Items) : w = wire[s.flow]
        BY <3>1 DEF CaptureInv
      <4>2. bytes = Before(w, Len(w))
        BY <3>1, <3>2, <4>1, BytesIs, Zenon
      <4>3. Len(w) \in 0..Len(w)
        BY LenProperties
      <4>. QED
        BY <4>2, <4>3, WholeBefore, Zenon DEF Whole
    <3>4. Adjacent(SubSeq(bytes, a, b))
      BY <3>1, <3>2, <3>3, AdjacentPart
    <3>. QED
      BY <3>1, <3>2, <3>4, Zenon
  <2>4. ASSUME SplitDatagram(raw, keyed).code = "OK"
        PROVE  FlattenSeq(WrittenAs(SplitDatagram(raw, keyed).frames)) = raw
    <3>1. /\ Drain(raw, keyed).code = "MORE" /\ Drain(raw, keyed).rest = << >>
          /\ SplitDatagram(raw, keyed).frames = Drain(raw, keyed).frames
      BY <2>4, SplitIs, Zenon
    <3>2. FlattenSeq(WrittenAs(Drain(raw, keyed).frames)) \o Drain(raw, keyed).rest = raw
      BY <2>3, <3>1, DrainWrites, Zenon
    <3>3. PICK flat \in Seq(Byte) : flat = FlattenSeq(WrittenAs(Drain(raw, keyed).frames))
      <4>1. Drain(raw, keyed) \in Drained(Byte)
        BY DrainUnfolds, Zenon
      <4>2. Drain(raw, keyed).frames \in Seq(Frame)
        BY <4>1 DEF Drained
      <4>3. WrittenAs(Drain(raw, keyed).frames) \in Seq(Seq(Byte))
        BY <4>2, WrittenAsIs, Zenon
      <4>. QED
        BY <4>3, FlattenType, Zenon
    <3>4. flat \o << >> = flat
      BY ConcatEmptySeq
    <3>. QED
      BY <3>1, <3>2, <3>3, <3>4, Zenon
  <2>5. DecodeDatagram(raw, keyed) = "OK"
          <=> SplitDatagram(raw, keyed).code = "OK" /\ Len(SplitDatagram(raw, keyed).frames) = 1
    BY OneFrame, Zenon
  <2>. QED
    BY <2>2, <2>4, <2>5, Zenon DEF WrittenAs
<1>. QED
  BY <1>1, CaptureInvariant, PTL

-----------------------------------------------------------------------------
(* What the analyser reports.                                              *)

LEMMA WrittenIs ==
  ASSUME NEW it \in Items
  PROVE  /\ Written(it) = [kind |-> it, number |-> it, payload |-> Body(it)]
         /\ Written(it) \in Frame /\ Written(it).number = it /\ Written(it).kind = it
<1>1. PICK e, b : e = Encode(it) /\ b = Body(it)
  OBVIOUS
<1>2. it.length \in Nat /\ b \in Seq(Byte)
  BY <1>1, EncodeIs, MaxPayloadAssumption
<1>3. e[1].of = it /\ e[2].of = it
  <2>1. 1 \in 1..HeaderSize + it.length + MacSize /\ 2 \in 1..HeaderSize + it.length + MacSize
    BY <1>2 DEF HeaderSize, MacSize
  <2>2. e[1] = [of |-> it, at |-> 1] /\ e[2] = [of |-> it, at |-> 2]
    BY <1>1, <2>1, EncodeIs, Zenon
  <2>. QED
    BY <2>2
<1>4. Written(it) = [kind |-> it, number |-> it, payload |-> b]
  BY <1>1, <1>3, Zenon DEF Written, FrameOf
<1>. QED
  BY <1>1, <1>2, <1>4 DEF Frame

\* The two bytes of a header that passes.
LEMMA PassesIs ==
  ASSUME NEW buf \in Seq(Byte), Passes(buf)
  PROVE  /\ HeaderIn(buf)[1] = buf[1] /\ HeaderIn(buf)[2] = buf[2]
         /\ buf[1] \in Byte /\ buf[2] \in Byte /\ buf[1].at = 1 /\ buf[2].at = 2
         /\ buf[2].of \in Items /\ LengthIn(buf) = buf[2].of.length
<1>1. PICK l \in Nat : l = Len(buf)
  BY LenProperties
<1>2. l >= 2 /\ DecodeHeader(HeaderIn(buf)) = "OK"
  BY <1>1 DEF Passes
<1>3. PICK header \in Seq(Byte) : /\ header = HeaderIn(buf) /\ Len(header) = 2
                                  /\ header[1] = buf[1] /\ header[2] = buf[2]
  <2>1. SubSeq(buf, 1, 2) \in Seq(Byte) /\ Len(SubSeq(buf, 1, 2)) = 2
    BY <1>1, <1>2, PartOf
  <2>2. 1 \in 1..(2 - 1 + 1) /\ 2 \in 1..(2 - 1 + 1) /\ 1 + 1 - 1 = 1 /\ 1 + 2 - 1 = 2
    OBVIOUS
  <2>3. \A i \in 1..(2 - 1 + 1) : SubSeq(buf, 1, 2)[i] = buf[1 + i - 1]
    OBVIOUS
  <2>4. SubSeq(buf, 1, 2)[1] = buf[1] /\ SubSeq(buf, 1, 2)[2] = buf[2]
    BY <2>2, <2>3
  <2>. QED
    BY <2>1, <2>4, Zenon DEF HeaderIn
<1>4. buf[1] \in Byte /\ buf[2] \in Byte
  <2>1. 1 \in 1..Len(buf) /\ 2 \in 1..Len(buf)
    BY <1>1, <1>2
  <2>. QED
    BY <2>1, ElementOfSeq
<1>5. buf[2].of \in Items
  BY <1>4 DEF Byte
<1>6. header[2].at = 2 /\ "ERR_LENGTH" \notin header[2].of.faults
  <2>1. DeclaredLength(header) <= MaxPayload
    BY <1>2, <1>3, LengthIs, Zenon
  <2>. SUFFICES ASSUME ~(header[2].at = 2 /\ "ERR_LENGTH" \notin header[2].of.faults) PROVE FALSE
    OBVIOUS
  <2>2. DeclaredLength(header) = MaxPayload + 1
    BY Zenon DEF DeclaredLength
  <2>. QED
    BY <2>1, <2>2, MaxPayloadAssumption
<1>7. DeclaredLength(header) = header[2].of.length
  BY <1>6, Zenon DEF DeclaredLength
<1>8. header[1].at = 1
  <2>. DEFINE faults == header[1].of.faults
              Fails  == <<header[1].at # 1 \/ "ERR_MAGIC" \in faults, "ERR_VERSION" \in faults,
                          TooLong(header), "ERR_FLAGS" \in faults, "ERR_TYPE" \in faults>>
  <2>1. \/ DecodeHeader(header) = "OK" /\ \A i \in 1..5 : ~Fails[i]
        \/ \E k \in 1..5 : /\ Fails[k] /\ DecodeHeader(header) = Order[k]
                           /\ \A j \in 1..k - 1 : ~Fails[j]
    <3>1. Len(header) = HeaderSize
      BY <1>3 DEF HeaderSize
    <3>. QED
      BY <3>1, DecodeHeaderIs
  <2>2. \A k \in 1..5 : Order[k] # "OK"
    BY DEF Order
  <2>3. ~Fails[1]
    <3>1. 1 \in 1..5
      OBVIOUS
    <3>. HIDE DEF Fails
    <3>. QED
      BY <1>2, <1>3, <2>1, <2>2, <3>1, Zenon
  <2>. QED
    BY <2>3
<1>. QED
  BY <1>3, <1>4, <1>5, <1>6, <1>7, <1>8, Zenon DEF LengthIn

\* At the k-th byte of buf somebody wrote the frame x, and all of it may be there.
Finds(buf, k, x) ==
  /\ buf[k].at = 1 /\ buf[k].of \in Items /\ x = Written(buf[k].of)
  /\ "ERR_CRC" \notin buf[k].of.faults
  /\ k + 2 + buf[k].of.length <= Len(buf)

Located(buf, frames, n)  == \A i \in 1..Len(frames) : \E k \in 1..n : Finds(buf, k, frames[i])
Increasing(frames) ==
  \A i, j \in 1..Len(frames) : i < j => frames[i].number.id < frames[j].number.id

\* No header in buf is joined from the halves of two, and they are in order.
Unspliced(buf) ==
  \A k \in 1..Len(buf) - 1 : buf[k].at = 1 /\ buf[k + 1].at = 2 => buf[k].of = buf[k + 1].of
Rising(buf) ==
  \A j, k \in 1..Len(buf) : j < k /\ buf[j].at = 1 /\ buf[k].at = 1 => buf[j].of.id < buf[k].of.id

\* Of the bytes buf a reader has made frames, and kept some for later.
Analysed(buf, frames, kept) ==
  /\ frames \in Seq(Frame) /\ kept \in Seq(Byte) /\ Len(kept) \in 0..Len(buf)
  /\ kept = LastOf(buf, Len(kept))
  /\ Located(buf, frames, Len(buf) - Len(kept))
  /\ Rising(buf) => Increasing(frames)

LEMMA PopFinds ==
  ASSUME NEW buf \in Seq(Byte), Unspliced(buf), Pop(buf, FALSE).code = "OK"
  PROVE  /\ Finds(buf, 1, Pop(buf, FALSE).frame)
         /\ Complete(buf) /\ Pop(buf, FALSE).rest = RestIn(buf)
<1>1. PICK l \in Nat : l = Len(buf)
  BY LenProperties
<1>2. /\ Complete(buf) /\ Pop(buf, FALSE).rest = RestIn(buf)
      /\ Pop(buf, FALSE).frame = FrameOf(HeaderIn(buf), BodyIn(buf))
  BY PopOk
<1>3. Passes(buf) /\ l >= 2 /\ l >= 3 + LengthIn(buf) /\ DecodeHeader(HeaderIn(buf)) = "OK"
  BY <1>1, <1>2 DEF Complete, Passes
<1>4. /\ HeaderIn(buf)[1] = buf[1] /\ HeaderIn(buf)[2] = buf[2]
      /\ buf[1].at = 1 /\ buf[2].at = 2
      /\ buf[2].of \in Items /\ LengthIn(buf) = buf[2].of.length
  BY <1>3, PassesIs
<1>5. buf[1].of = buf[2].of
  <2>1. 1 \in 1..Len(buf) - 1 /\ 1 + 1 = 2
    BY <1>1, <1>3
  <2>. QED
    BY <1>4, <2>1, Zenon DEF Unspliced
<1>6. PICK it \in Items : it = buf[1].of /\ it = buf[2].of
  BY <1>4, <1>5
<1>7. VerdictOn(buf, FALSE) = "OK"
  <2>1. PopsAs(buf, FALSE)
    BY PopCases
  <2>2. PICK c, r, f : c = VerdictOn(buf, FALSE) /\ r = RestIn(buf) /\ f = FrameOf(HeaderIn(buf), BodyIn(buf))
    OBVIOUS
  <2>3. Pop(buf, FALSE) = [code |-> c, rest |-> r, frame |-> f]
    BY <1>2, <2>1, <2>2, Zenon DEF PopsAs
  <2>4. [code |-> c, rest |-> r, frame |-> f].code = c
    OBVIOUS
  <2>. QED
    BY <2>2, <2>3, <2>4, Zenon
<1>8. CrcFits(HeaderIn(buf), BodyIn(buf))
  <2>1. PICK h, b, m : h = HeaderIn(buf) /\ b = BodyIn(buf) /\ m = MacIn(buf)
    OBVIOUS
  <2>2. DecodeFrame(h, b, m, FALSE) = "OK" /\ DecodeHeader(h) = "OK"
    BY <1>3, <1>7, <2>1, Zenon DEF VerdictOn
  <2>3. DecodeFrame(h, b, m, FALSE) =
           IF Len(b) # DeclaredLength(h) THEN "ERR_LENGTH"
           ELSE IF Len(m) # MacSize THEN "ERR_AUTH"
           ELSE IF ~CrcFits(h, b) THEN "ERR_CRC"
           ELSE IF FALSE /\ ~MacFits(h, b, m) THEN "ERR_AUTH"
           ELSE "OK"
    BY <2>2, DecodeFrameIs
  <2>4. CrcFits(h, b)
    BY <2>2, <2>3
  <2>. QED
    BY <2>1, <2>4, Zenon
<1>9. BodyIn(buf) = Body(it) /\ "ERR_CRC" \notin it.faults
  BY <1>4, <1>6, <1>8, Zenon DEF CrcFits
<1>10. FrameOf(HeaderIn(buf), BodyIn(buf)) = [kind |-> it, number |-> it, payload |-> Body(it)]
  BY <1>4, <1>6, <1>9, Zenon DEF FrameOf
<1>11. Pop(buf, FALSE).frame = Written(it)
  BY <1>2, <1>10, WrittenIs, Zenon
<1>12. 1 + 2 + it.length <= Len(buf)
  BY <1>1, <1>3, <1>4, <1>6
<1>. QED
  BY <1>2, <1>4, <1>6, <1>9, <1>11, <1>12, Zenon DEF Finds

\* A prefix of a sequence that goes on.
LEMMA ConcatIs ==
  ASSUME NEW S, NEW s \in Seq(S), NEW t \in Seq(S)
  PROVE  /\ s \o t \in Seq(S) /\ Len(s) \in Nat /\ Len(t) \in Nat /\ Len(s \o t) = Len(s) + Len(t)
         /\ \A i \in 1..Len(s) : (s \o t)[i] = s[i]
         /\ \A i \in 1..Len(t) : (s \o t)[Len(s) + i] = t[i]
<1>1. PICK m, n \in Nat : m = Len(s) /\ n = Len(t)
  BY LenProperties
<1>2. PICK r : r = s \o t
  OBVIOUS
<1>3. r \in Seq(S) /\ Len(r) = m + n /\ \A i \in 1..m + n : r[i] = IF i <= m THEN s[i] ELSE t[i - m]
  BY <1>1, <1>2, ConcatProperties
<1>4. ASSUME NEW i \in 1..m PROVE r[i] = s[i]
  <2>1. i \in 1..m + n /\ i <= m
    OBVIOUS
  <2>. QED
    BY <1>3, <2>1
<1>5. ASSUME NEW i \in 1..n PROVE r[m + i] = t[i]
  <2>1. m + i \in 1..m + n /\ ~(m + i <= m) /\ (m + i) - m = i
    OBVIOUS
  <2>. QED
    BY <1>3, <2>1
<1>. QED
  BY <1>1, <1>2, <1>3, <1>4, <1>5, Zenon

LEMMA LastJoins ==
  ASSUME NEW S, NEW s \in Seq(S), NEW n \in 0..Len(s), NEW t \in Seq(S)
  PROVE  LastOf(s, n) \o t = LastOf(s \o t, n + Len(t)) /\ n + Len(t) \in 0..Len(s \o t)
<1>1. PICK ls, lt \in Nat : ls = Len(s) /\ lt = Len(t)
  BY LenProperties
<1>2. n \in Nat /\ n <= ls
  BY <1>1
<1>3. PICK u \in Seq(S) : u = LastOf(s, n) /\ Len(u) = n /\ \A i \in 1..n : u[i] = s[ls - n + i]
  <2>1. /\ LastOf(s, n) \in Seq(S) /\ Len(LastOf(s, n)) = n
        /\ \A i \in 1..n : LastOf(s, n)[i] = s[Len(s) - n + i]
    BY LastIs
  <2>. QED
    BY <1>1, <2>1, Zenon
<1>4. PICK b : b = s \o t
  OBVIOUS
<1>5. /\ b \in Seq(S) /\ Len(b) = ls + lt
      /\ \A i \in 1..ls : b[i] = s[i]
      /\ \A i \in 1..lt : b[ls + i] = t[i]
  <2>1. /\ b \in Seq(S) /\ Len(b) = Len(s) + Len(t)
        /\ \A i \in 1..Len(s) : b[i] = s[i]
        /\ \A i \in 1..Len(t) : b[Len(s) + i] = t[i]
    BY <1>4, ConcatIs
  <2>. QED
    BY <1>1, <2>1, Zenon
<1>6. PICK e : e = u \o t
  OBVIOUS
<1>7. /\ e \in Seq(S) /\ Len(e) = n + lt
      /\ \A i \in 1..n : e[i] = u[i]
      /\ \A i \in 1..lt : e[n + i] = t[i]
  <2>1. /\ e \in Seq(S) /\ Len(e) = Len(u) + Len(t)
        /\ \A i \in 1..Len(u) : e[i] = u[i]
        /\ \A i \in 1..Len(t) : e[Len(u) + i] = t[i]
    BY <1>6, ConcatIs
  <2>. QED
    BY <1>1, <1>3, <2>1, Zenon
<1>8. n + lt \in 0..Len(b) /\ Len(b) - (n + lt) = ls - n
  BY <1>2, <1>5
<1>9. PICK y \in Seq(S) : /\ y = LastOf(b, n + lt) /\ Len(y) = n + lt
                          /\ \A i \in 1..n + lt : y[i] = b[ls - n + i]
  <2>1. /\ LastOf(b, n + lt) \in Seq(S) /\ Len(LastOf(b, n + lt)) = n + lt
        /\ \A i \in 1..n + lt : LastOf(b, n + lt)[i] = b[Len(b) - (n + lt) + i]
    BY <1>5, <1>8, LastIs
  <2>. QED
    BY <1>8, <2>1, Zenon
<1>10. ASSUME NEW i \in 1..n + lt PROVE e[i] = y[i]
  <2>1. CASE i \in 1..n
    <3>1. ls - n + i \in 1..ls
      BY <1>2, <2>1
    <3>. QED
      BY <1>3, <1>5, <1>7, <1>9, <2>1, <3>1, Zenon
  <2>2. CASE i \notin 1..n
    <3>1. PICK j \in 1..lt : i = n + j
      <4>1. i - n \in 1..lt /\ i = n + (i - n)
        BY <1>2, <2>2
      <4>. QED
        BY <4>1, Zenon
    <3>2. ls - n + i = ls + j
      BY <1>2, <3>1
    <3>. QED
      BY <1>5, <1>7, <1>9, <3>1, <3>2, Zenon
  <2>. QED
    BY <2>1, <2>2
<1>11. e = y
  BY <1>7, <1>9, <1>10, SeqEqual
<1>. QED
  BY <1>1, <1>3, <1>4, <1>6, <1>8, <1>9, <1>11, Zenon

\* What comes after a part that was analysed is analysed with what was kept.
LEMMA AnalysedJoin ==
  ASSUME NEW c \in Seq(Byte), NEW frames, NEW kept, Analysed(c, frames, kept),
         NEW p \in Seq(Byte), NEW more, NEW rest, Analysed(kept \o p, more, rest)
  PROVE  Analysed(c \o p, frames \o more, rest)
<1>0. /\ frames \in Seq(Frame) /\ kept \in Seq(Byte) /\ Len(kept) \in 0..Len(c)
      /\ kept = LastOf(c, Len(kept))
      /\ more \in Seq(Frame) /\ rest \in Seq(Byte)
  BY Zenon DEF Analysed
<1>1. PICK lc, lp, lk, lr \in Nat : lc = Len(c) /\ lp = Len(p) /\ lk = Len(kept) /\ lr = Len(rest)
  BY <1>0, LenProperties
<1>2. lk <= lc
  BY <1>0, <1>1
<1>3. PICK b \in Seq(Byte) : /\ b = c \o p /\ Len(b) = lc + lp
                             /\ \A i \in 1..lc : b[i] = c[i]
                             /\ \A i \in 1..lp : b[lc + i] = p[i]
  <2>1. PICK b : b = c \o p
    OBVIOUS
  <2>2. /\ b \in Seq(Byte) /\ Len(b) = Len(c) + Len(p)
        /\ \A i \in 1..Len(c) : b[i] = c[i]
        /\ \A i \in 1..Len(p) : b[Len(c) + i] = p[i]
    BY <2>1, ConcatIs
  <2>. QED
    BY <1>1, <2>1, <2>2, Zenon
<1>4. PICK e \in Seq(Byte) : /\ e = kept \o p /\ Len(e) = lk + lp
                             /\ \A i \in 1..lk : e[i] = kept[i]
                             /\ \A i \in 1..lp : e[lk + i] = p[i]
  <2>1. PICK e : e = kept \o p
    OBVIOUS
  <2>2. /\ e \in Seq(Byte) /\ Len(e) = Len(kept) + Len(p)
        /\ \A i \in 1..Len(kept) : e[i] = kept[i]
        /\ \A i \in 1..Len(p) : e[Len(kept) + i] = p[i]
    BY <1>0, <2>1, ConcatIs
  <2>. QED
    BY <1>1, <2>1, <2>2, Zenon
<1>5. lr <= lk + lp /\ rest = LastOf(e, lr) /\ Located(e, more, lk + lp - lr)
  <2>0. Analysed(e, more, rest)
    BY <1>4
  <2>1. lr \in 0..lk + lp
    BY <1>1, <1>4, <2>0, Zenon DEF Analysed
  <2>. QED
    <3>1. lr <= lk + lp
      BY <2>1
    <3>2. rest = LastOf(e, Len(rest)) /\ Located(e, more, Len(e) - Len(rest))
      BY <2>0, Zenon DEF Analysed
    <3>. QED
      BY <1>1, <1>4, <3>1, <3>2
<1>6. kept = LastOf(c, lk) /\ Located(c, frames, lc - lk)
  BY <1>1, Zenon DEF Analysed
<1>8. e = LastOf(b, lk + lp)
  <2>1. lk \in 0..Len(c)
    BY <1>0, <1>1
  <2>2. LastOf(c, lk) \o p = LastOf(c \o p, lk + Len(p))
    BY <2>1, LastJoins
  <2>. QED
    BY <1>1, <1>3, <1>4, <1>6, <2>2, Zenon
<1>7. ASSUME NEW i \in 1..lk + lp PROVE lc - lk + i \in 1..lc + lp /\ e[i] = b[lc - lk + i]
  <2>1. lk + lp \in 0..Len(b) /\ Len(b) - (lk + lp) + i = lc - lk + i /\ lc - lk + i \in 1..lc + lp
    BY <1>2, <1>3
  <2>2. LastOf(b, lk + lp)[i] = b[Len(b) - (lk + lp) + i]
    BY <2>1, LastIs
  <2>. QED
    BY <1>8, <2>1, <2>2, Zenon
<1>9. rest = LastOf(b, lr) /\ lr \in 0..lc + lp
  <2>1. lk + lp \in 0..Len(b) /\ lr \in 0..lk + lp /\ lr \in 0..lc + lp
    BY <1>2, <1>3, <1>5
  <2>2. LastOf(LastOf(b, lk + lp), lr) = LastOf(b, lr)
    BY <2>1, LastOfLast
  <2>. QED
    BY <1>5, <1>8, <2>1, <2>2, Zenon
<1>10. PICK m, n \in Nat : m = Len(frames) /\ n = Len(more)
  BY <1>0, LenProperties
<1>11. PICK fs \in Seq(Frame) : /\ fs = frames \o more /\ Len(fs) = m + n
                                /\ \A i \in 1..m : fs[i] = frames[i]
                                /\ \A i \in 1..n : fs[m + i] = more[i]
  <2>1. PICK fs : fs = frames \o more
    OBVIOUS
  <2>2. /\ fs \in Seq(Frame) /\ Len(fs) = Len(frames) + Len(more)
        /\ \A i \in 1..Len(frames) : fs[i] = frames[i]
        /\ \A i \in 1..Len(more) : fs[Len(frames) + i] = more[i]
    BY <1>0, <2>1, ConcatIs
  <2>. QED
    BY <1>10, <2>1, <2>2, Zenon
<1>12. ASSUME NEW i \in 1..m PROVE \E k \in 1..lc - lk : Finds(b, k, fs[i])
  <2>1. PICK k \in 1..lc - lk : Finds(c, k, frames[i])
    BY <1>6, <1>10, Zenon DEF Located
  <2>2. k \in 1..lc /\ b[k] = c[k]
    <3>1. k \in 1..lc
      BY <1>2
    <3>. QED
      BY <1>3, <3>1, Zenon
  <2>3. c[k].of \in Items
    BY <2>1, Zenon DEF Finds
  <2>4. c[k].of.length \in Nat
    BY <2>3, EncodeIs, MaxPayloadAssumption
  <2>5. k + 2 + c[k].of.length <= lc
    BY <1>1, <2>1, Zenon DEF Finds
  <2>6. k + 2 + c[k].of.length <= Len(b)
    BY <1>3, <2>4, <2>5
  <2>. QED
    BY <1>11, <2>1, <2>2, <2>6, Zenon DEF Finds
<1>13. ASSUME NEW i \in 1..n PROVE \E k \in lc - lk + 1..lc + lp - lr : Finds(b, k, fs[m + i])
  <2>1. PICK j \in 1..lk + lp - lr : Finds(e, j, more[i])
    BY <1>5, <1>10, Zenon DEF Located
  <2>2. PICK k \in lc - lk + 1..lc + lp - lr : k = lc - lk + j /\ b[k] = e[j]
    <3>1. j \in 1..lk + lp
      OBVIOUS
    <3>2. lc - lk + j \in lc - lk + 1..lc + lp - lr
      BY <1>2
    <3>. QED
      BY <1>7, <3>1, <3>2, Zenon
  <2>3. e[j].of \in Items
    BY <2>1, Zenon DEF Finds
  <2>4. e[j].of.length \in Nat
    BY <2>3, EncodeIs, MaxPayloadAssumption
  <2>5. j + 2 + e[j].of.length <= lk + lp
    BY <1>4, <2>1, Zenon DEF Finds
  <2>6. k + 2 + e[j].of.length <= Len(b)
    BY <1>2, <1>3, <2>2, <2>4, <2>5
  <2>. QED
    BY <1>11, <2>1, <2>2, <2>6, Zenon DEF Finds
<1>14. Located(b, fs, lc + lp - lr)
  <2>. SUFFICES ASSUME NEW i \in 1..m + n PROVE \E k \in 1..lc + lp - lr : Finds(b, k, fs[i])
    BY <1>11, Zenon DEF Located
  <2>1. CASE i \in 1..m
    <3>1. PICK k \in 1..lc - lk : Finds(b, k, fs[i])
      BY <1>12, <2>1
    <3>2. k \in 1..lc + lp - lr
      BY <1>2, <1>5
    <3>. QED
      BY <3>1, <3>2, Zenon
  <2>2. CASE i \notin 1..m
    <3>1. PICK j \in 1..n : i = m + j
      <4>1. i - m \in 1..n /\ i = m + (i - m)
        BY <2>2
      <4>. QED
        BY <4>1, Zenon
    <3>2. PICK k \in lc - lk + 1..lc + lp - lr : Finds(b, k, fs[i])
      BY <1>13, <3>1
    <3>3. k \in 1..lc + lp - lr
      BY <1>2
    <3>. QED
      BY <3>2, <3>3, Zenon
  <2>. QED
    BY <2>1, <2>2
<1>15. ASSUME Rising(b) PROVE Increasing(fs)
  <2>1. Rising(c)
    <3>. SUFFICES ASSUME NEW j \in 1..lc, NEW k \in 1..lc, j < k, c[j].at = 1, c[k].at = 1
                  PROVE  c[j].of.id < c[k].of.id
      BY <1>1, Zenon DEF Rising
    <3>1. j \in 1..Len(b) /\ k \in 1..Len(b)
      BY <1>3
    <3>. QED
      BY <1>3, <1>15, <3>1, Zenon DEF Rising
  <2>2. Rising(e)
    <3>. SUFFICES ASSUME NEW j \in 1..lk + lp, NEW k \in 1..lk + lp, j < k, e[j].at = 1, e[k].at = 1
                  PROVE  e[j].of.id < e[k].of.id
      BY <1>4, Zenon DEF Rising
    <3>1. lc - lk + j \in 1..Len(b) /\ lc - lk + k \in 1..Len(b) /\ lc - lk + j < lc - lk + k
      BY <1>2, <1>3
    <3>2. e[j] = b[lc - lk + j] /\ e[k] = b[lc - lk + k]
      BY <1>7
    <3>. QED
      BY <1>15, <3>1, <3>2, Zenon DEF Rising
  <2>3. Increasing(frames) /\ Increasing(more)
    BY <1>4, <2>1, <2>2, Zenon DEF Analysed
  <2>4. ASSUME NEW i \in 1..m, NEW j \in 1..n PROVE fs[i].number.id < fs[m + j].number.id
    <3>1. PICK k \in 1..lc - lk : Finds(b, k, fs[i])
      BY <1>12
    <3>2. PICK h \in lc - lk + 1..lc + lp - lr : Finds(b, h, fs[m + j])
      BY <1>13
    <3>3. k \in 1..Len(b) /\ h \in 1..Len(b) /\ k < h
      BY <1>2, <1>3
    <3>4. b[k].of.id < b[h].of.id
      BY <1>15, <3>1, <3>2, <3>3, Zenon DEF Rising, Finds
    <3>5. fs[i].number = b[k].of /\ fs[m + j].number = b[h].of
      BY <3>1, <3>2, WrittenIs, Zenon DEF Finds
    <3>. QED
      BY <3>4, <3>5, Zenon
  <2>. SUFFICES ASSUME NEW i \in 1..m + n, NEW j \in 1..m + n, i < j
                PROVE  fs[i].number.id < fs[j].number.id
    BY <1>11, Zenon DEF Increasing
  <2>5. CASE i \in 1..m /\ j \in 1..m
    BY <1>10, <1>11, <2>3, <2>5, Zenon DEF Increasing
  <2>6. CASE i \in 1..m /\ j \notin 1..m
    <3>1. PICK h \in 1..n : j = m + h
      <4>1. j - m \in 1..n /\ j = m + (j - m)
        BY <2>6
      <4>. QED
        BY <4>1, Zenon
    <3>. QED
      BY <2>4, <2>6, <3>1, Zenon
  <2>7. CASE i \notin 1..m
    <3>1. PICK h \in 1..n : i = m + h
      <4>1. i - m \in 1..n /\ i = m + (i - m)
        BY <2>7
      <4>. QED
        BY <4>1, Zenon
    <3>2. PICK k \in 1..n : j = m + k
      <4>1. j - m \in 1..n /\ j = m + (j - m)
        BY <2>7
      <4>. QED
        BY <4>1, Zenon
    <3>3. h < k
      BY <3>1, <3>2
    <3>. QED
      BY <1>10, <1>11, <2>3, <3>1, <3>2, <3>3, Zenon DEF Increasing
  <2>. QED
    BY <2>5, <2>6, <2>7
<1>16. Analysed(b, fs, rest)
  <2>1. Len(b) - Len(rest) = lc + lp - lr /\ Len(rest) \in 0..Len(b) /\ rest = LastOf(b, Len(rest))
    BY <1>1, <1>3, <1>9
  <2>2. Located(b, fs, Len(b) - Len(rest))
    BY <1>14, <2>1, Zenon
  <2>. QED
    BY <1>0, <1>11, <1>15, <2>1, <2>2, Zenon DEF Analysed
<1>. QED
  BY <1>3, <1>11, <1>16, Zenon

LEMMA UnsplicedPart ==
  ASSUME NEW buf \in Seq(Byte), Unspliced(buf), NEW n \in 0..Len(buf)
  PROVE  Unspliced(LastOf(buf, n))
<1>1. PICK l \in Nat : l = Len(buf)
  BY LenProperties
<1>2. PICK s : s = LastOf(buf, n) /\ Len(s) = n /\ \A i \in 1..n : s[i] = buf[l - n + i]
  <2>1. Len(LastOf(buf, n)) = n /\ \A i \in 1..n : LastOf(buf, n)[i] = buf[Len(buf) - n + i]
    BY LastIs
  <2>. QED
    BY <1>1, <2>1, Zenon
<1>. SUFFICES ASSUME NEW k \in 1..n - 1, s[k].at = 1, s[k + 1].at = 2
              PROVE  s[k].of = s[k + 1].of
  BY <1>2, Zenon DEF Unspliced
<1>3. PICK j \in 1..Len(buf) - 1 : l - n + k = j /\ l - n + (k + 1) = j + 1
  <2>1. /\ l - n + k \in 1..Len(buf) - 1 /\ l - n + (k + 1) = (l - n + k) + 1
        /\ k \in 1..n /\ k + 1 \in 1..n
    BY <1>1
  <2>. QED
    BY <2>1, Zenon
<1>4. k \in 1..n /\ k + 1 \in 1..n
  BY <1>1
<1>5. s[k] = buf[j] /\ s[k + 1] = buf[j + 1]
  BY <1>2, <1>3, <1>4, Zenon
<1>. QED
  BY <1>5, Zenon DEF Unspliced

\* No frames, and all or nothing kept.
LEMMA AnalysedNone ==
  ASSUME NEW buf \in Seq(Byte), NEW n \in 0..Len(buf)
  PROVE  Analysed(buf, << >>, LastOf(buf, n)) /\ LastOf(buf, 0) = << >> /\ LastOf(buf, Len(buf)) = buf
<1>1. PICK kept : kept = LastOf(buf, n) /\ kept \in Seq(Byte) /\ Len(kept) = n
  BY LastIs, Zenon
<1>2. << >> \in Seq(Frame) /\ Len(<< >>) = 0 /\ 1..0 = {}
  OBVIOUS
<1>3. Located(buf, << >>, Len(buf) - n) /\ Increasing(<< >>)
  BY <1>2, Zenon DEF Located, Increasing
<1>4. Analysed(buf, << >>, kept)
  BY <1>1, <1>2, <1>3, Zenon DEF Analysed
<1>5. LastOf(buf, 0) = << >>
  <2>1. 0 \in 0..Len(buf)
    BY LenProperties
  <2>2. LastOf(buf, 0) \in Seq(Byte) /\ Len(LastOf(buf, 0)) = 0
    BY <2>1, LastIs
  <2>. QED
    BY <2>2, EmptySeq
<1>6. LastOf(buf, Len(buf)) = buf
  <2>1. Len(buf) \in 0..Len(buf) /\ 0 \in 0..Len(buf)
    BY LenProperties
  <2>. QED
    BY <2>1, LastOfLast
<1>. QED
  BY <1>1, <1>4, <1>5, <1>6, Zenon

\* What reassembly keeps of a drain: after an error nothing.
KeptOf(drained) == IF drained.code = "MORE" THEN drained.rest ELSE << >>

LEMMA FirstAnalysed ==
  ASSUME NEW buf \in Seq(Byte), Unspliced(buf), Pop(buf, FALSE).code = "OK",
         NEW more, NEW kept, Analysed(Pop(buf, FALSE).rest, more, kept)
  PROVE  Analysed(buf, <<Pop(buf, FALSE).frame>> \o more, kept)
<1>1. PICK l \in Nat : l = Len(buf)
  BY LenProperties
<1>2. PICK x, rest : x = Pop(buf, FALSE).frame /\ rest = Pop(buf, FALSE).rest
  OBVIOUS
<1>3. Finds(buf, 1, x) /\ Complete(buf) /\ rest = RestIn(buf)
  BY <1>2, PopFinds
<1>4. PICK m \in 0..l : rest \in Seq(Byte) /\ m = Len(rest) /\ rest = LastOf(buf, m) /\ m = l - 3 - LengthIn(buf)
  BY <1>1, <1>3, RestIs, Zenon
<1>5. buf[1].of \in Items /\ x = Written(buf[1].of)
  BY <1>3, Zenon DEF Finds
<1>6. x \in Frame
  BY <1>5, WrittenIs, Zenon
<1>7. LengthIn(buf) = buf[1].of.length /\ buf[1].of.length \in Nat /\ l - m = 3 + buf[1].of.length
  <2>1. Passes(buf) /\ l >= 2
    BY <1>1, <1>3, Zenon DEF Complete, Passes
  <2>2. buf[1].at = 1 /\ buf[2].at = 2 /\ LengthIn(buf) = buf[2].of.length
    BY <2>1, PassesIs
  <2>3. buf[1].of = buf[2].of
    <3>1. 1 \in 1..Len(buf) - 1 /\ 1 + 1 = 2
      BY <1>1, <2>1
    <3>. QED
      BY <2>2, <3>1, Zenon DEF Unspliced
  <2>4. buf[1].of.length \in Nat
    BY <1>5, EncodeIs, MaxPayloadAssumption
  <2>5. LengthIn(buf) = buf[1].of.length
    BY <2>2, <2>3, Zenon
  <2>. QED
    BY <1>4, <2>4, <2>5
<1>8. PICK c : c = SubSeq(buf, 1, l - m)
  OBVIOUS
<1>9. c \in Seq(Byte) /\ Len(c) = l - m /\ \A i \in 1..l - m : c[i] = buf[i]
  <2>1. l - m \in Nat /\ 1 <= l - m /\ l - m <= Len(buf) /\ 1 \in Nat \ {0} /\ (l - m) - 1 + 1 = l - m
    BY <1>1, <1>7
  <2>2. c \in Seq(Byte) /\ Len(c) = l - m
    BY <1>8, <2>1, PartOf
  <2>3. \A i \in 1..(l - m - 1 + 1) : SubSeq(buf, 1, l - m)[i] = buf[1 + i - 1]
    BY <2>1
  <2>4. \A i \in 1..l - m : i \in 1..(l - m - 1 + 1) /\ 1 + i - 1 = i
    BY <2>1
  <2>. QED
    BY <1>8, <2>2, <2>3, <2>4, Zenon
<1>10. buf = c \o rest
  <2>1. PICK b : b = c \o rest
    OBVIOUS
  <2>2. /\ b \in Seq(Byte) /\ Len(b) = Len(c) + Len(rest)
        /\ \A i \in 1..Len(c) : b[i] = c[i]
        /\ \A i \in 1..Len(rest) : b[Len(c) + i] = rest[i]
    <3>1. c \in Seq(Byte) /\ rest \in Seq(Byte)
      BY <1>4, <1>9
    <3>. QED
      BY <2>1, <3>1, ConcatIs
  <2>3. \A i \in 1..m : rest[i] = buf[l - m + i]
    BY <1>1, <1>4, LastIs
  <2>4. Len(b) = l
    <3>1. Len(c) = l - m /\ Len(rest) = m
      BY <1>4, <1>9
    <3>. QED
      BY <2>2, <3>1
  <2>5. ASSUME NEW i \in 1..l PROVE b[i] = buf[i]
    <3>1. CASE i \in 1..l - m
      BY <1>9, <2>2, <3>1, Zenon
    <3>2. CASE i \notin 1..l - m
      <4>1. i - (l - m) \in 1..m /\ i = (l - m) + (i - (l - m))
        BY <3>2
      <4>2. PICK j \in 1..m : i = (l - m) + j
        BY <4>1, Zenon
      <4>. QED
        BY <1>4, <1>9, <2>2, <2>3, <4>2, Zenon
    <3>. QED
      BY <3>1, <3>2
  <2>6. b = buf
    BY <1>1, <2>2, <2>4, <2>5, SeqEqual
  <2>. QED
    BY <2>1, <2>6
<1>11. Analysed(c, <<x>>, << >>)
  <2>1. <<x>> \in Seq(Frame) /\ Len(<<x>>) = 1 /\ <<x>>[1] = x
    BY <1>6
  <2>2. Len(c) \in 0..Len(c) /\ 0 \in 0..Len(c) /\ 1 \in 1..Len(c) - 0
    BY <1>7, <1>9
  <2>3. << >> \in Seq(Byte) /\ Len(<< >>) = 0
    OBVIOUS
  <2>4. << >> = LastOf(c, 0)
    BY <1>9, <2>2, AnalysedNone
  <2>5. Finds(c, 1, x)
    <3>1. c[1] = buf[1]
      BY <1>7, <1>9
    <3>2. 1 + 2 + buf[1].of.length <= Len(c)
      BY <1>7, <1>9
    <3>. QED
      BY <1>3, <3>1, <3>2, Zenon DEF Finds
  <2>6. Located(c, <<x>>, Len(c) - 0)
    <3>1. \A i \in 1..1 : i = 1
      OBVIOUS
    <3>. QED
      BY <2>1, <2>2, <2>5, <3>1, Zenon DEF Located
  <2>7. Increasing(<<x>>)
    <3>1. \A i, j \in 1..1 : ~(i < j)
      OBVIOUS
    <3>. QED
      BY <2>1, <3>1, Zenon DEF Increasing
  <2>. QED
    BY <2>1, <2>2, <2>3, <2>4, <2>6, <2>7, Zenon DEF Analysed
<1>12. << >> \o rest = rest
  BY <1>4, ConcatEmptySeq
<1>13. Analysed(<< >> \o rest, more, kept)
  BY <1>2, <1>12
<1>14. Analysed(c \o rest, <<x>> \o more, kept)
  BY <1>4, <1>9, <1>11, <1>13, AnalysedJoin, Zenon
<1>. QED
  BY <1>2, <1>10, <1>14, Zenon

\* Reassembly makes of a buffer without spliced headers what was written in it.
LEMMA DrainAnalysed ==
  ASSUME NEW buf \in Seq(Byte), Unspliced(buf)
  PROVE  Analysed(buf, Drain(buf, FALSE).frames, KeptOf(Drain(buf, FALSE)))
<1>. DEFINE P(n) == \A b \in Seq(Byte) : Len(b) < n /\ Unspliced(b) =>
                      Analysed(b, Drain(b, FALSE).frames, KeptOf(Drain(b, FALSE)))
            T == {n \in Nat : P(n)}
<1>1. P(0)
  <2>1. \A b \in Seq(Byte) : ~(Len(b) < 0)
    BY LenProperties
  <2>. QED
    BY <2>1, Zenon
<1>2. ASSUME NEW n \in Nat, P(n) PROVE P(n + 1)
  <2>. SUFFICES ASSUME NEW b \in Seq(Byte), Len(b) < n + 1, Unspliced(b)
                PROVE  Analysed(b, Drain(b, FALSE).frames, KeptOf(Drain(b, FALSE)))
    OBVIOUS
  <2>1. PICK l \in Nat : l = Len(b)
    BY LenProperties
  <2>2. PICK pop : pop = Pop(b, FALSE) /\ Popped(pop, b)
    BY PopIs, Zenon
  <2>3. PICK d, later : d = Drain(b, FALSE) /\ later = Drain(pop.rest, FALSE) /\ d = Outcome(pop, later)
    BY <2>2, DrainUnfolds, Zenon
  <2>4. CASE pop.code # "OK"
    <3>1. d = [code |-> pop.code, frames |-> << >>, rest |-> pop.rest]
      BY <2>3, <2>4, Zenon DEF Outcome
    <3>2. d.code = pop.code /\ d.frames = << >> /\ d.rest = pop.rest
      BY <3>1
    <3>3. l \in 0..Len(b) /\ 0 \in 0..Len(b)
      BY <2>1
    <3>4. CASE pop.code = "MORE"
      <4>1. KeptOf(d) = b
        BY <2>2, <3>2, <3>4, Zenon DEF KeptOf, Popped
      <4>. QED
        <5>1. Analysed(b, << >>, LastOf(b, l)) /\ LastOf(b, Len(b)) = b
          BY <3>3, AnalysedNone
        <5>. QED
          BY <2>1, <2>3, <3>2, <4>1, <5>1, Zenon
    <3>5. CASE pop.code # "MORE"
      <4>1. KeptOf(d) = << >>
        BY <3>2, <3>5, Zenon DEF KeptOf
      <4>. QED
        <5>1. Analysed(b, << >>, LastOf(b, 0)) /\ LastOf(b, 0) = << >>
          BY <3>3, AnalysedNone
        <5>. QED
          BY <2>3, <3>2, <4>1, <5>1, Zenon
    <3>. QED
      BY <3>4, <3>5
  <2>5. CASE pop.code = "OK"
    <3>1. d = [code |-> later.code, frames |-> <<pop.frame>> \o later.frames, rest |-> later.rest]
      BY <2>3, <2>5, Zenon DEF Outcome
    <3>2. d.code = later.code /\ d.frames = <<pop.frame>> \o later.frames /\ d.rest = later.rest
      BY <3>1
    <3>3. KeptOf(d) = KeptOf(later)
      BY <3>2, Zenon DEF KeptOf
    <3>4. PICK rest \in Seq(Byte) : /\ rest = pop.rest /\ Len(rest) < l
                                    /\ Len(rest) \in 0..Len(b) /\ rest = LastOf(b, Len(rest))
      <4>1. Complete(b) /\ pop.rest = RestIn(b)
        BY <2>2, <2>5, PopFinds, Zenon
      <4>2. pop.rest \in Seq(Byte) /\ Len(pop.rest) < Len(b)
        BY <2>2, <2>5, Zenon DEF Popped
      <4>3. Len(RestIn(b)) \in 0..Len(b) /\ RestIn(b) = LastOf(b, Len(RestIn(b)))
        BY <4>1, RestIs
      <4>. QED
        BY <2>1, <4>1, <4>2, <4>3, Zenon
    <3>5. Unspliced(rest)
      BY <3>4, UnsplicedPart, Zenon
    <3>6. Len(rest) < n
      <4>1. Len(rest) \in Nat
        BY LenProperties
      <4>. QED
        BY <2>1, <3>4, <4>1
    <3>7. Analysed(rest, later.frames, KeptOf(later))
      BY <1>2, <2>3, <3>4, <3>5, <3>6, Zenon
    <3>8. Analysed(b, <<pop.frame>> \o later.frames, KeptOf(later))
      BY <2>2, <2>5, <3>4, <3>7, FirstAnalysed, Zenon
    <3>. QED
      BY <2>3, <3>2, <3>3, <3>8, Zenon
  <2>. QED
    BY <2>4, <2>5
<1>. HIDE DEF P
<1>3. T = Nat
  <2>1. T \in SUBSET Nat /\ 0 \in T /\ \A m \in T : m + 1 \in T
    BY <1>1, <1>2
  <2>. HIDE DEF T
  <2>. QED
    BY <2>1, Induction
<1>4. Len(buf) + 1 \in Nat /\ Len(buf) < Len(buf) + 1
  BY LenProperties
<1>5. P(Len(buf) + 1)
  BY <1>3, <1>4
<1>. QED
  BY <1>4, <1>5, Zenon DEF P

-----------------------------------------------------------------------------
(* The rows of a capture.                                                  *)

\* What a row changes for the flow f.
LEMMA FeedFlow ==
  ASSUME NEW acc \in Flows, NEW row \in Row, NEW f \in Flow
  PROVE  /\ acc.buffers[f] \in Seq(Byte) /\ acc.frames[f] \in Seq(Frame)
         /\ row.flow # f \/ row.payload = << >> =>
              Feed(acc, row).buffers[f] = acc.buffers[f] /\ Feed(acc, row).frames[f] = acc.frames[f]
         /\ row.flow = f /\ row.payload # << >> /\ row.l4 # "none" =>
              LET drained == Drain(acc.buffers[f] \o row.payload, FALSE)
              IN  /\ Feed(acc, row).buffers[f] = KeptOf(drained)
                  /\ Feed(acc, row).frames[f] = acc.frames[f] \o drained.frames
<1>1. acc.buffers \in [Flow -> Kept] /\ acc.frames \in [Flow -> Seq(Frame)]
  BY DEF Flows
<1>2. acc.buffers[f] \in Seq(Byte) /\ acc.frames[f] \in Seq(Frame)
  BY <1>1 DEF Kept
<1>3. PICK h \in Flow : h = row.flow
  BY DEF Row
<1>4. PICK drained : drained = Drain(acc.buffers[h] \o row.payload, FALSE)
  OBVIOUS
<1>5. PICK buffers : buffers = [acc.buffers EXCEPT ![h] = KeptOf(drained)]
  OBVIOUS
<1>6. PICK frames : frames = [acc.frames EXCEPT ![h] = @ \o drained.frames]
  OBVIOUS
<1>7. /\ buffers[h] = KeptOf(drained) /\ frames[h] = acc.frames[h] \o drained.frames
      /\ f # h => buffers[f] = acc.buffers[f] /\ frames[f] = acc.frames[f]
  BY <1>1, <1>5, <1>6
<1>8. CASE row.payload = << >> \/ row.l4 = "none"
  <2>1. Feed(acc, row) = acc
    BY <1>8, Zenon DEF Feed
  <2>. QED
    BY <1>2, <1>8, <2>1, Zenon
<1>9. CASE ~(row.payload = << >> \/ row.l4 = "none")
  <2>1. Feed(acc, row) = [buffers |-> buffers, frames |-> frames]
    BY <1>3, <1>4, <1>5, <1>6, <1>9, Zenon DEF Feed, KeptOf
  <2>2. Feed(acc, row).buffers = buffers /\ Feed(acc, row).frames = frames
    BY <2>1
  <2>. QED
    BY <1>2, <1>3, <1>4, <1>7, <1>9, <2>2, Zenon
<1>. QED
  BY <1>8, <1>9

\* The payloads of the rows of one flow.
PartsOf(rows, f) == [i \in 1..Len(rows) |-> IF rows[i].flow = f THEN rows[i].payload ELSE << >>]

LEMMA PartsAre ==
  ASSUME NEW rows \in Seq(Row), NEW f
  PROVE  /\ PartsOf(rows, f) \in Seq(Seq(Byte)) /\ Len(PartsOf(rows, f)) = Len(rows)
         /\ \A i \in 1..Len(rows) :
              PartsOf(rows, f)[i] = IF rows[i].flow = f THEN rows[i].payload ELSE << >>
         /\ BytesOf(rows, f) = FlattenSeq(PartsOf(rows, f))
<1>1. PICK n \in Nat : n = Len(rows) /\ DOMAIN rows = 1..n
  BY LenProperties
<1>2. ASSUME NEW i \in 1..n PROVE (IF rows[i].flow = f THEN rows[i].payload ELSE << >>) \in Seq(Byte)
  <2>1. rows[i] \in Row
    BY <1>1, ElementOfSeq
  <2>2. rows[i].payload \in Seq(Byte) /\ << >> \in Seq(Byte)
    BY <2>1 DEF Row
  <2>. QED
    BY <2>2
<1>3. PICK q : q = PartsOf(rows, f)
  OBVIOUS
<1>4. /\ q \in [1..n -> Seq(Byte)]
      /\ \A i \in 1..n : q[i] = IF rows[i].flow = f THEN rows[i].payload ELSE << >>
  BY <1>1, <1>2, <1>3 DEF PartsOf
<1>5. q \in Seq(Seq(Byte)) /\ Len(q) = n
  BY <1>4
<1>6. BytesOf(rows, f) = FlattenSeq(q)
  BY <1>1, <1>3, Zenon DEF BytesOf, PartsOf
<1>. QED
  BY <1>1, <1>3, <1>4, <1>5, <1>6, Zenon

LEMMA UnsplicedFirst ==
  ASSUME NEW q \in Seq(Seq(Byte)), Unspliced(FlattenSeq(q)), NEW n \in 0..Len(q)
  PROVE  Unspliced(First(q, n))
<1>1. Len(q) \in Nat /\ Len(q) \in n..Len(q)
  BY LenProperties
<1>2. PICK a, b : a = First(q, n) /\ b = FlattenSeq(q)
  OBVIOUS
<1>3. a \in Seq(Byte) /\ b \in Seq(Byte) /\ First(q, Len(q)) = b
  BY <1>2, FirstIs, FlattenType
<1>4. Len(a) <= Len(b) /\ \A k \in 1..Len(a) : b[k] = a[k]
  <2>1. /\ Len(First(q, n)) <= Len(First(q, Len(q)))
        /\ \A k \in 1..Len(First(q, n)) : First(q, Len(q))[k] = First(q, n)[k]
    BY <1>1, FirstPrefix
  <2>. QED
    BY <1>2, <1>3, <2>1, Zenon
<1>5. PICK la, lb \in Nat : la = Len(a) /\ lb = Len(b) /\ la <= lb
  BY <1>3, <1>4, LenProperties
<1>6. \A k \in 1..la - 1 : k \in 1..la /\ k + 1 \in 1..la /\ k \in 1..lb - 1
  BY <1>5
<1>7. \A k \in 1..lb - 1 : b[k].at = 1 /\ b[k + 1].at = 2 => b[k].of = b[k + 1].of
  BY <1>2, <1>5, Zenon DEF Unspliced
<1>8. \A k \in 1..la - 1 : a[k].at = 1 /\ a[k + 1].at = 2 => a[k].of = a[k + 1].of
  BY <1>4, <1>5, <1>6, <1>7, Zenon
<1>. QED
  BY <1>2, <1>5, <1>8, Zenon DEF Unspliced

\* Reassembly makes of the rows what was written in the bytes they have.
LEMMA RowsAnalysed ==
  ASSUME NEW rows \in Seq(Row), NEW f \in Flow, Unspliced(BytesOf(rows, f)),
         \A i \in 1..Len(rows) : rows[i].l4 = "none" => rows[i].payload = << >>
  PROVE  Analysed(BytesOf(rows, f), Reassemble(rows).frames[f], Reassemble(rows).buffers[f])
<1>1. PICK l \in Nat : l = Len(rows)
  BY LenProperties
<1>2. PICK q \in Seq(Seq(Byte)) :
        /\ Len(q) = l /\ BytesOf(rows, f) = FlattenSeq(q)
        /\ \A i \in 1..l : q[i] = IF rows[i].flow = f THEN rows[i].payload ELSE << >>
  <2>1. PICK q : q = PartsOf(rows, f)
    OBVIOUS
  <2>2. /\ q \in Seq(Seq(Byte)) /\ Len(q) = Len(rows) /\ BytesOf(rows, f) = FlattenSeq(q)
        /\ \A i \in 1..Len(rows) : q[i] = IF rows[i].flow = f THEN rows[i].payload ELSE << >>
    BY <2>1, PartsAre
  <2>. QED
    BY <1>1, <2>2, Zenon
<1>3. PICK g \in [0..l -> Flows] : Feeds(rows, g) /\ Reassemble(rows) = g[l]
  BY <1>1, ReassembleIs, Zenon
<1>4. First(q, 0) = << >> /\ First(q, l) = BytesOf(rows, f) /\ 0 \in 0..l /\ l \in 0..l
  BY <1>1, <1>2, FirstIs
<1>. DEFINE P(n) == n <= l => Analysed(First(q, n), g[n].frames[f], g[n].buffers[f])
            T == {n \in Nat : P(n)}
<1>5. P(0)
  <2>1. g[0] = Fresh
    BY <1>3, Zenon DEF Feeds
  <2>2. g[0].frames[f] = << >> /\ g[0].buffers[f] = << >>
    BY <2>1 DEF Fresh
  <2>3. << >> \in Seq(Byte) /\ 0 \in 0..Len(<< >>)
    OBVIOUS
  <2>4. Analysed(<< >>, << >>, LastOf(<< >>, 0)) /\ LastOf(<< >>, 0) = << >>
    BY <2>3, AnalysedNone
  <2>. QED
    BY <1>4, <2>2, <2>4, Zenon
<1>6. ASSUME NEW n \in Nat, P(n) PROVE P(n + 1)
  <2>. SUFFICES ASSUME n + 1 <= l
                PROVE  Analysed(First(q, n + 1), g[n + 1].frames[f], g[n + 1].buffers[f])
    OBVIOUS
  <2>1. /\ n <= l /\ n \in 0..l /\ n + 1 \in 0..l /\ n + 1 \in 1..l /\ n \in 0..l - 1 /\ (n + 1) - 1 = n
        /\ n \in 0..Len(q) /\ n + 1 \in 0..Len(q) /\ n \in 0..Len(q) - 1
    BY <1>1, <1>2
  <2>2. PICK row \in Row : row = rows[n + 1]
    BY <1>1, <2>1, ElementOfSeq
  <2>3. PICK acc \in Flows : acc = g[n]
    BY <2>1
  <2>4. g[n + 1] = Feed(acc, row)
    BY <1>1, <1>3, <2>1, <2>2, <2>3, Zenon DEF Feeds
  <2>5. PICK c \in Seq(Byte) : c = First(q, n)
    BY <2>1, FirstIs
  <2>6. PICK p \in Seq(Byte) : p = q[n + 1] /\ First(q, n + 1) = c \o p
    <3>1. q[n + 1] \in Seq(Byte)
      BY <1>2, <2>1, ElementOfSeq
    <3>2. First(q, n + 1) = First(q, n) \o q[n + 1]
      BY <2>1, FirstIs
    <3>. QED
      BY <2>5, <3>1, <3>2, Zenon
  <2>7. p = IF row.flow = f THEN row.payload ELSE << >>
    BY <1>2, <2>1, <2>2, <2>6, Zenon
  <2>8. PICK frames, kept : frames = acc.frames[f] /\ kept = acc.buffers[f] /\ Analysed(c, frames, kept)
    <3>1. Analysed(First(q, n), g[n].frames[f], g[n].buffers[f])
      BY <1>6, <2>1
    <3>2. Analysed(c, acc.frames[f], acc.buffers[f])
      BY <2>3, <2>5, <3>1, Zenon
    <3>. QED
      BY <3>2, Zenon
  <2>9. CASE p = << >>
    <3>1. row.flow # f \/ row.payload = << >>
      BY <2>7, <2>9, Zenon
    <3>2. g[n + 1].buffers[f] = kept /\ g[n + 1].frames[f] = frames
      BY <2>4, <2>8, <3>1, FeedFlow, Zenon
    <3>3. First(q, n + 1) = c
      BY <2>6, <2>9, ConcatEmptySeq
    <3>. QED
      BY <2>8, <3>2, <3>3, Zenon
  <2>10. CASE p # << >>
    <3>1. row.flow = f /\ row.payload = p /\ row.l4 # "none"
      BY <1>1, <2>1, <2>2, <2>7, <2>10, Zenon
    <3>2. PICK drained : drained = Drain(kept \o p, FALSE)
      OBVIOUS
    <3>3. g[n + 1].buffers[f] = KeptOf(drained) /\ g[n + 1].frames[f] = frames \o drained.frames
      <4>1. LET d == Drain(acc.buffers[f] \o row.payload, FALSE)
            IN  /\ Feed(acc, row).buffers[f] = KeptOf(d)
                /\ Feed(acc, row).frames[f] = acc.frames[f] \o d.frames
        BY <2>10, <3>1, FeedFlow
      <4>. QED
        BY <2>4, <2>8, <3>1, <3>2, <4>1, Zenon
    <3>4. kept \in Seq(Byte) /\ Len(kept) \in 0..Len(c) /\ kept = LastOf(c, Len(kept))
      BY <2>8, Zenon DEF Analysed
    <3>5. kept \o p \in Seq(Byte)
      BY <3>4, ConcatProperties
    <3>6. Unspliced(kept \o p)
      <4>1. PICK s : s = c \o p
        OBVIOUS
      <4>2. s \in Seq(Byte)
        BY <4>1, ConcatProperties
      <4>3. LastOf(c, Len(kept)) \o p = LastOf(s, Len(kept) + Len(p)) /\ Len(kept) + Len(p) \in 0..Len(s)
        BY <3>4, <4>1, LastJoins
      <4>4. Unspliced(First(q, n + 1))
        BY <1>2, <2>1, UnsplicedFirst, Zenon
      <4>5. Unspliced(s)
        BY <2>6, <4>1, <4>4, Zenon
      <4>. QED
        BY <3>4, <4>2, <4>3, <4>5, UnsplicedPart, Zenon
    <3>7. Analysed(kept \o p, drained.frames, KeptOf(drained))
      BY <3>2, <3>5, <3>6, DrainAnalysed, Zenon
    <3>8. Analysed(c \o p, frames \o drained.frames, KeptOf(drained))
      BY <2>8, <3>7, AnalysedJoin, Zenon
    <3>. QED
      BY <2>6, <3>3, <3>8, Zenon
  <2>. QED
    BY <2>9, <2>10
<1>. HIDE DEF P
<1>7. T = Nat
  <2>1. T \in SUBSET Nat /\ 0 \in T /\ \A m \in T : m + 1 \in T
    BY <1>5, <1>6
  <2>. HIDE DEF T
  <2>. QED
    BY <2>1, Induction
<1>8. P(l)
  BY <1>7
<1>9. l <= l
  BY <1>1
<1>. QED
  BY <1>3, <1>4, <1>8, <1>9, Zenon DEF P

-----------------------------------------------------------------------------
(* Where the bytes of the rows come from.                                  *)

\* The items of a sender are numbered upwards.
Ascending(w) == \A i \in 2..Len(w) : w[i].id > w[i - 1].id

LEMMA IdsAscend ==
  ASSUME NEW w \in Seq(Items), Ascending(w), NEW i \in 1..Len(w), NEW j \in 1..Len(w), i < j
  PROVE  w[i].id < w[j].id
<1>1. PICK l \in Nat : l = Len(w)
  BY LenProperties
<1>2. \A k \in 1..l : w[k].id \in Nat
  <2>1. \A k \in 1..l : w[k] \in Items
    BY <1>1, ElementOfSeq
  <2>. QED
    BY <2>1 DEF Items
<1>. DEFINE P(d) == i + d + 1 <= l => w[i].id < w[i + d + 1].id
            T == {d \in Nat : P(d)}
<1>3. P(0)
  <2>. SUFFICES ASSUME i + 0 + 1 <= l PROVE w[i].id < w[i + 0 + 1].id
    OBVIOUS
  <2>1. i + 0 + 1 \in 2..l /\ (i + 0 + 1) - 1 = i
    BY <1>1
  <2>2. w[i + 0 + 1].id > w[i].id
    BY <1>1, <2>1, Zenon DEF Ascending
  <2>3. w[i].id \in Nat /\ w[i + 0 + 1].id \in Nat
    BY <1>1, <1>2, <2>1
  <2>. QED
    BY <2>2, <2>3
<1>4. ASSUME NEW d \in Nat, P(d) PROVE P(d + 1)
  <2>. SUFFICES ASSUME i + (d + 1) + 1 <= l PROVE w[i].id < w[i + (d + 1) + 1].id
    OBVIOUS
  <2>1. PICK m \in 1..l : m = i + d + 1 /\ m + 1 = i + (d + 1) + 1 /\ m + 1 \in 2..l /\ (m + 1) - 1 = m
    <3>1. i + d + 1 \in 1..l /\ (i + d + 1) + 1 = i + (d + 1) + 1 /\ i + (d + 1) + 1 \in 2..l
      BY <1>1
    <3>. QED
      BY <3>1
  <2>2. w[i].id < w[m].id
    BY <1>1, <1>4, <2>1
  <2>3. w[m + 1].id > w[m].id
    BY <1>1, <2>1, Zenon DEF Ascending
  <2>4. w[i].id \in Nat /\ w[m].id \in Nat /\ w[m + 1].id \in Nat
    BY <1>1, <1>2, <2>1
  <2>5. w[i].id < w[m + 1].id
    BY <2>2, <2>3, <2>4
  <2>. QED
    BY <2>1, <2>5, Zenon
<1>. HIDE DEF P
<1>5. T = Nat
  <2>1. T \in SUBSET Nat /\ 0 \in T /\ \A m \in T : m + 1 \in T
    BY <1>3, <1>4
  <2>. HIDE DEF T
  <2>. QED
    BY <2>1, Induction
<1>6. j - i - 1 \in Nat /\ i + (j - i - 1) + 1 = j /\ j <= l
  BY <1>1
<1>7. P(j - i - 1)
  BY <1>5, <1>6
<1>. QED
  BY <1>6, <1>7, Zenon DEF P

\* Every byte is of one of the first n items.
FromItems(bytes, w, n) ==
  \A k \in 1..Len(bytes) : \E m \in 1..n : bytes[k].of = w[m]

LEMMA BeforeRises ==
  ASSUME NEW w \in Seq(Items), NEW n \in 0..Len(w)
  PROVE  /\ FromItems(Before(w, n), w, n)
         /\ Ascending(w) => Rising(Before(w, n))
<1>0. PICK l \in Nat : l = Len(w)
  BY LenProperties
<1>1. PICK q : q = [i \in 1..Len(w) |-> Encode(w[i])]
  OBVIOUS
<1>2. /\ q \in Seq(Seq(Byte)) /\ Len(q) = l
      /\ \A i \in 0..l : Before(w, i) = First(q, i)
  BY <1>0, <1>1, BeforeFirst, Zenon
<1>3. /\ First(q, 0) = << >> /\ \A i \in 0..l : First(q, i) \in Seq(Byte)
      /\ \A i \in 0..l - 1 : First(q, i + 1) = First(q, i) \o q[i + 1]
  BY <1>2, FirstIs
<1>. DEFINE P(m) == m <= l => FromItems(Before(w, m), w, m) /\ (Ascending(w) => Rising(Before(w, m)))
            T == {m \in Nat : P(m)}
<1>4. P(0)
  <2>1. 0 \in 0..l /\ 1..Len(<< >>) = {}
    BY <1>0
  <2>2. Before(w, 0) = << >>
    BY <1>2, <1>3, <2>1, Zenon
  <2>3. FromItems(<< >>, w, 0) /\ Rising(<< >>)
    BY <2>1, Zenon DEF FromItems, Rising
  <2>. QED
    BY <2>2, <2>3, Zenon
<1>5. ASSUME NEW m \in Nat, P(m) PROVE P(m + 1)
  <2>. SUFFICES ASSUME m + 1 <= l
                PROVE  FromItems(Before(w, m + 1), w, m + 1) /\ (Ascending(w) => Rising(Before(w, m + 1)))
    OBVIOUS
  <2>1. m \in 0..l /\ m + 1 \in 0..l /\ m \in 0..l - 1 /\ m + 1 \in 1..l /\ m <= l
    OBVIOUS
  <2>2. PICK it \in Items : it = w[m + 1]
    BY <1>0, <2>1, ElementOfSeq
  <2>3. q[m + 1] = Encode(it)
    BY <1>0, <1>1, <2>1, <2>2
  <2>4. PICK c \in Seq(Byte) : c = Before(w, m)
    BY <1>2, <1>3, <2>1
  <2>5. PICK e \in Seq(Byte) : /\ e = Encode(it)
                               /\ \A k \in 1..Len(e) : e[k].of = it /\ (e[k].at = 1 => k = 1)
    <3>1. PICK e : e = Encode(it)
      OBVIOUS
    <3>2. e \in Seq(Byte) /\ Len(e) = HeaderSize + it.length + MacSize
          /\ \A k \in 1..HeaderSize + it.length + MacSize : e[k] = [of |-> it, at |-> k]
      BY <3>1, EncodeIs
    <3>3. ASSUME NEW k \in 1..Len(e) PROVE e[k].of = it /\ (e[k].at = 1 => k = 1)
      <4>1. e[k] = [of |-> it, at |-> k]
        BY <3>2, Zenon
      <4>. QED
        BY <4>1
    <3>. QED
      BY <3>1, <3>2, <3>3, Zenon
  <2>6. PICK lc, le \in Nat : lc = Len(c) /\ le = Len(e)
    BY LenProperties
  <2>7. PICK b : /\ b = Before(w, m + 1) /\ Len(b) = lc + le
                 /\ \A i \in 1..lc : b[i] = c[i]
                 /\ \A i \in 1..le : b[lc + i] = e[i]
    <3>1. PICK b : b = c \o e
      OBVIOUS
    <3>2. /\ Len(b) = Len(c) + Len(e)
          /\ \A i \in 1..Len(c) : b[i] = c[i]
          /\ \A i \in 1..Len(e) : b[Len(c) + i] = e[i]
      BY <3>1, ConcatIs
    <3>3. b = Before(w, m + 1)
      BY <1>2, <1>3, <2>1, <2>3, <2>4, <2>5, <3>1, Zenon
    <3>. QED
      BY <2>6, <3>2, <3>3, Zenon
  <2>8. FromItems(c, w, m) /\ (Ascending(w) => Rising(c))
    BY <1>5, <2>1, <2>4
  <2>9. ASSUME NEW k \in 1..lc + le
        PROVE  \/ k \in 1..lc /\ b[k] = c[k] /\ \E j \in 1..m : b[k].of = w[j]
               \/ k \in lc + 1..lc + le /\ b[k].of = it /\ (b[k].at = 1 => k = lc + 1)
    <3>1. CASE k \in 1..lc
      BY <2>6, <2>7, <2>8, <3>1, Zenon DEF FromItems
    <3>2. CASE k \notin 1..lc
      <4>1. k - lc \in 1..le /\ k = lc + (k - lc) /\ k \in lc + 1..lc + le
        BY <3>2
      <4>2. PICK i \in 1..le : k = lc + i /\ k \in lc + 1..lc + le
        BY <4>1, Zenon
      <4>3. b[k] = e[i]
        BY <2>7, <4>2, Zenon
      <4>4. e[i].of = it /\ (e[i].at = 1 => i = 1)
        BY <2>5, <2>6, Zenon
      <4>. QED
        BY <4>2, <4>3, <4>4, Zenon
    <3>. QED
      BY <3>1, <3>2
  <2>10. FromItems(b, w, m + 1)
    <3>1. \A j \in 1..m : j \in 1..m + 1
      OBVIOUS
    <3>2. m + 1 \in 1..m + 1
      OBVIOUS
    <3>. QED
      BY <2>2, <2>7, <2>9, <3>1, <3>2, Zenon DEF FromItems
  <2>11. ASSUME Ascending(w) PROVE Rising(b)
    <3>. SUFFICES ASSUME NEW j \in 1..lc + le, NEW k \in 1..lc + le, j < k, b[j].at = 1, b[k].at = 1
                  PROVE  b[j].of.id < b[k].of.id
      BY <2>7, Zenon DEF Rising
    <3>1. CASE k \in 1..lc
      <4>1. j \in 1..lc
        BY <3>1
      <4>. QED
        BY <2>6, <2>7, <2>8, <2>11, <3>1, <4>1, Zenon DEF Rising
    <3>2. CASE k \notin 1..lc
      <4>1. k = lc + 1 /\ b[k].of = it
        BY <2>9, <3>2, Zenon
      <4>2. j \in 1..lc /\ j \notin lc + 1..lc + le
        BY <4>1
      <4>3. PICK i \in 1..m : b[j].of = w[i]
        BY <2>9, <4>2, Zenon
      <4>4. i \in 1..Len(w) /\ m + 1 \in 1..Len(w) /\ i < m + 1
        BY <1>0, <2>1
      <4>5. w[i].id < w[m + 1].id
        BY <2>11, <4>4, IdsAscend
      <4>. QED
        BY <2>2, <4>1, <4>3, <4>5, Zenon
    <3>. QED
      BY <3>1, <3>2
  <2>. QED
    BY <2>7, <2>10, <2>11, Zenon
<1>. HIDE DEF P
<1>6. T = Nat
  <2>1. T \in SUBSET Nat /\ 0 \in T /\ \A m \in T : m + 1 \in T
    BY <1>4, <1>5
  <2>. HIDE DEF T
  <2>. QED
    BY <2>1, Induction
<1>7. P(n) /\ n <= l
  BY <1>0, <1>6
<1>. QED
  BY <1>7, Zenon DEF P

LEMMA SeenIs ==
  ASSUME CaptureInv, NEW i \in 1..Len(seen)
  PROVE  LET s == seen[i]
         IN  /\ s \in Segment /\ s.flow \in Flow /\ s.first \in Nat \ {0} /\ s.last \in Nat
             /\ s.last <= Len(Bytes(s.flow)) /\ (s = Empty(s.flow) \/ s.first <= s.last)
<1>1. PICK s \in Segment : s = seen[i]
  <2>1. seen \in Seq(Segment)
    BY DEF CaptureInv
  <2>2. seen[i] \in Segment
    BY <2>1, ElementOfSeq
  <2>. QED
    BY <2>2, Zenon
<1>2. PICK f \in Flow : s \in ToSet(segments[f]) \cup {Empty(f)}
  BY <1>1, Zenon DEF CaptureInv, Captured
<1>3. PICK bytes \in Seq(Byte) : bytes = Bytes(f)
  BY BytesIs DEF CaptureInv
<1>4. /\ s.flow = f /\ s.first \in Nat \ {0} /\ s.last \in Nat /\ s.last <= Len(bytes)
      /\ s = Empty(f) \/ s.first <= s.last
  <2>1. CASE s = Empty(f)
    BY <1>3, <2>1, LenProperties DEF Empty
  <2>2. CASE s \in ToSet(segments[f])
    <3>1. PICK segs : segs = segments[f]
      OBVIOUS
    <3>2. segs \in Seq(Segment) /\ Cut(f, segs, Len(bytes))
      BY <1>3, <3>1 DEF CaptureInv
    <3>3. PICK k \in 1..Len(segs) : segs[k] = s
      BY <2>2, <3>1, <3>2 DEF ToSet
    <3>4. /\ s.flow = f /\ s.first = (IF k = 1 THEN 1 ELSE segs[k - 1].last + 1)
          /\ s.first <= s.last /\ s.last <= Len(bytes)
      BY <3>2, <3>3 DEF Cut
    <3>5. k # 1 => segs[k - 1].last \in Nat
      <4>. SUFFICES ASSUME k # 1 PROVE segs[k - 1].last \in Nat
        OBVIOUS
      <4>1. k - 1 \in 1..Len(segs)
        BY <3>2, LenProperties
      <4>2. segs[k - 1] \in Segment
        BY <3>2, <4>1, ElementOfSeq
      <4>. QED
        BY <4>2 DEF Segment
    <3>6. s.first \in Nat \ {0}
      BY <3>4, <3>5
    <3>. QED
      BY <3>4, <3>6 DEF Segment
  <2>. QED
    BY <1>2, <2>1, <2>2
<1>. QED
  BY <1>1, <1>3, <1>4, Zenon

\* What the analyser has of a packet: its payload, and the padding where no
\* length is declared.
PayloadOf(segment) ==
  IF Shape(segment).l4 = "none" THEN << >>
  ELSE IF Shape(segment).declares THEN Payload(segment)
  ELSE Payload(segment) \o [k \in 1..Shape(segment).pad |-> Padding]

LEMMA RowIs ==
  ASSUME CaptureInv, NEW i \in 1..Len(seen)
  PROVE  /\ Rows[i].l4 = Shape(seen[i]).l4 /\ Rows[i].flow = seen[i].flow
         /\ Rows[i].payload = PayloadOf(seen[i]) /\ PayloadOf(seen[i]) \in Seq(Byte)
<1>1. PICK header \in Headers, payload \in Seq(Byte), pads \in Seq(Byte) :
        Carries(seen[i], header, payload, pads)
  BY PacketIs
<1>2. PICK packet : packet = <<header>> \o payload \o pads
  OBVIOUS
<1>3. Rows[i] = Dissect(packet)
  <2>1. PICK q \in Seq(Seq(LinkByte)) : q = Packets /\ Len(q) = Len(seen) /\ Len(seen) \in Nat
    BY PacketsAre
  <2>2. "little" \in ByteOrder
    BY DEF ByteOrder
  <2>3. ReadPackets(WritePackets(q, "little")) = ReadAs("OK", q)
    BY <2>2, WholeFile, Zenon
  <2>4. ReadAs("OK", q).code = "OK" /\ ReadAs("OK", q).packets = q
    BY DEF ReadAs
  <2>5. Rows = [j \in DOMAIN q |-> Dissect(q[j])]
    BY <2>1, <2>3, <2>4, Zenon DEF Rows, DissectFile
  <2>6. i \in DOMAIN q
    BY <2>1
  <2>7. Rows[i] = Dissect(q[i])
    BY <2>5, <2>6
  <2>8. q[i] = PacketOf(seen[i])
    <3>1. DOMAIN seen = 1..Len(seen)
      BY DEF CaptureInv
    <3>. QED
      BY <2>1, <3>1 DEF Packets
  <2>. QED
    BY <1>1, <1>2, <2>7, <2>8, Zenon DEF Carries
<1>4. PICK l, n \in Nat : l = Len(payload) /\ n = Len(pads)
  BY LenProperties
<1>5. PICK data : data = payload \o pads
  OBVIOUS
<1>6. /\ data \in Seq(Byte) /\ Len(data) = l + n
      /\ \A k \in 1..l : data[k] = payload[k]
  BY <1>4, <1>5, ConcatIs
<1>7. Head(packet) = header /\ Tail(packet) = data
  <2>1. packet = <<header>> \o data
    <3>1. <<header>> \in Seq(LinkByte) /\ payload \in Seq(LinkByte) /\ pads \in Seq(LinkByte)
      <4>1. Byte \subseteq LinkByte /\ header \in LinkByte
        BY DEF LinkByte
      <4>2. payload \in Seq(LinkByte) /\ pads \in Seq(LinkByte)
        BY <4>1, SeqMonotonic
      <4>. QED
        BY <4>1, <4>2
    <3>2. (<<header>> \o payload) \o pads = <<header>> \o (payload \o pads)
      BY <3>1, ConcatAssociative
    <3>. QED
      BY <1>2, <1>5, <3>2
  <2>2. PICK h : h = header
    OBVIOUS
  <2>3. packet = <<h>> \o data /\ Len(data) \in Nat
    BY <1>4, <1>6, <2>1, <2>2
  <2>. QED
    BY <1>6, <2>2, <2>3, PrependIs DEF Prepend
<1>8. PICK l4, declares, pad : /\ l4 = Shape(seen[i]).l4 /\ declares = Shape(seen[i]).declares
                               /\ pad = Shape(seen[i]).pad
  OBVIOUS
<1>9. /\ header = [l4 |-> l4, flow |-> seen[i].flow, total |-> Declared(seen[i])]
      /\ payload = Payload(seen[i]) /\ pads = [k \in 1..pad |-> Padding]
  BY <1>1, <1>8, Zenon DEF Carries
<1>10. header.l4 = l4 /\ header.flow = seen[i].flow /\ header.total = IF declares THEN 1 + l ELSE 0
  <2>1. header.total = Declared(seen[i])
    BY <1>9
  <2>2. Declared(seen[i]) = IF declares THEN 1 + l ELSE 0
    BY <1>4, <1>8, <1>9, Zenon DEF Declared, Total
  <2>. QED
    BY <1>9, <2>1, <2>2
<1>11. Trim(header, data) = IF declares THEN payload ELSE data
  <2>1. CASE declares /\ n > 0
    <3>1. header.total # 0 /\ header.total < Total(data) /\ header.total - 1 = l
      BY <1>4, <1>6, <1>10, <2>1 DEF Total
    <3>2. Trim(header, data) = SubSeq(data, 1, l)
      BY <3>1, Zenon DEF Trim
    <3>3. SubSeq(data, 1, l) = payload
      <4>1. 0 \in Nat /\ l = 0 + Len(payload) /\ l <= Len(data) /\ 0 + 1 = 1
            /\ \A k \in 1..Len(payload) : data[0 + k] = payload[k]
        BY <1>4, <1>6
      <4>2. SubSeq(data, 0 + 1, l) = payload
        BY <1>6, <4>1, ChunkIs
      <4>. QED
        BY <4>1, <4>2
    <3>. QED
      BY <2>1, <3>2, <3>3, Zenon
  <2>2. CASE declares /\ ~(n > 0)
    <3>1. ~(header.total < Total(data))
      BY <1>4, <1>6, <1>10, <2>2 DEF Total
    <3>2. Trim(header, data) = data
      BY <3>1, Zenon DEF Trim
    <3>3. data = payload
      <4>1. pads = << >>
        BY <1>4, <2>2, EmptySeq
      <4>. QED
        BY <1>5, <4>1, ConcatEmptySeq
    <3>. QED
      BY <2>2, <3>2, <3>3, Zenon
  <2>3. CASE ~declares
    <3>1. header.total = 0
      BY <1>10, <2>3
    <3>. QED
      BY <2>3, <3>1, Zenon DEF Trim
  <2>. QED
    BY <2>1, <2>2, <2>3
<1>12. PICK p : p = IF l4 = "none" THEN << >> ELSE IF declares THEN payload ELSE data
  OBVIOUS
<1>13. Rows[i] = [l4 |-> l4, flow |-> seen[i].flow, payload |-> p]
  BY <1>3, <1>7, <1>10, <1>11, <1>12, Zenon DEF Dissect
<1>14. Rows[i].l4 = l4 /\ Rows[i].flow = seen[i].flow /\ Rows[i].payload = p
  BY <1>13
<1>15. p = PayloadOf(seen[i])
  BY <1>5, <1>8, <1>9, <1>12, Zenon DEF PayloadOf
<1>16. p \in Seq(Byte)
  <2>1. << >> \in Seq(Byte)
    OBVIOUS
  <2>. QED
    BY <1>6, <1>12, <2>1
<1>. QED
  BY <1>8, <1>14, <1>15, <1>16, Zenon

\* A payload is a part of the stream, and padding behind it.
LEMMA PayloadBytes ==
  ASSUME CaptureInv, NEW i \in 1..Len(seen), NEW k \in 1..Len(PayloadOf(seen[i]))
  PROVE  \/ PayloadOf(seen[i])[k] = Padding
         \/ /\ seen[i].first - 1 + k <= seen[i].last
            /\ PayloadOf(seen[i])[k] = Bytes(seen[i].flow)[seen[i].first - 1 + k]
<1>1. PICK s : s = seen[i]
  OBVIOUS
<1>2. PICK f \in Flow : f = s.flow
  BY <1>1, SeenIs, Zenon
<1>3. PICK bytes \in Seq(Byte) : bytes = Bytes(f)
  BY BytesIs DEF CaptureInv
<1>4. PICK a \in Nat \ {0}, b \in Nat : a = s.first /\ b = s.last /\ b <= Len(bytes)
  BY <1>1, <1>2, <1>3, SeenIs, Zenon
<1>5. PICK payload : payload = SubSeq(bytes, a, b)
  OBVIOUS
<1>6. payload = Payload(s) /\ payload \in Seq(Byte) /\ Len(payload) = IF a <= b THEN b - a + 1 ELSE 0
  <2>1. payload = Payload(s)
    BY <1>2, <1>3, <1>4, <1>5, Zenon DEF Payload
  <2>. QED
    <3>1. SubSeq(bytes, a, b) \in Seq(Byte) /\ Len(SubSeq(bytes, a, b)) = IF a <= b THEN b - a + 1 ELSE 0
      BY <1>4, PartOf
    <3>. QED
      BY <1>5, <2>1, <3>1, Zenon
<1>7. PICK pad \in Nat : pad = Shape(s).pad
  BY <1>1, ShapeIs
<1>8. PICK pads : pads = [j \in 1..pad |-> Padding]
  OBVIOUS
<1>9. pads \in Seq(Byte) /\ Len(pads) = pad /\ \A j \in 1..pad : pads[j] = Padding
  <2>1. Padding \in Byte
    BY MaxPayloadAssumption DEF Padding, Byte, Items
  <2>2. pads \in [1..pad -> Byte]
    BY <1>8, <2>1
  <2>. QED
    BY <1>8, <2>2
<1>10. PICK p : p = PayloadOf(s)
  OBVIOUS
<1>11. k \in 1..Len(p)
  BY <1>1, <1>10
<1>12. PICK l \in Nat : l = Len(payload)
  BY <1>6, LenProperties
<1>13. ASSUME NEW j \in 1..l PROVE a - 1 + j <= b /\ payload[j] = bytes[a - 1 + j]
  <2>1. a <= b /\ l = b - a + 1
    BY <1>4, <1>6, <1>12
  <2>2. j \in 1..(b - a + 1) /\ a - 1 + j <= b /\ a + j - 1 = a - 1 + j
    BY <2>1
  <2>3. SubSeq(bytes, a, b)[j] = bytes[a + j - 1]
    BY <2>2
  <2>. QED
    BY <1>5, <2>2, <2>3, Zenon
<1>14. CASE p = << >>
  BY <1>11, <1>14
<1>15. CASE p = payload
  BY <1>1, <1>2, <1>3, <1>4, <1>10, <1>11, <1>12, <1>13, <1>15, Zenon
<1>16. CASE p = payload \o pads
  <2>1. /\ Len(p) = l + pad
        /\ \A j \in 1..l : p[j] = payload[j]
        /\ \A j \in 1..pad : p[l + j] = pads[j]
    <3>1. /\ Len(p) = Len(payload) + Len(pads)
          /\ \A j \in 1..Len(payload) : p[j] = payload[j]
          /\ \A j \in 1..Len(pads) : p[Len(payload) + j] = pads[j]
      <4>1. payload \in Seq(Byte) /\ pads \in Seq(Byte)
        BY <1>6, <1>9
      <4>. QED
        BY <1>16, <4>1, ConcatIs
    <3>. QED
      BY <1>9, <1>12, <3>1, Zenon
  <2>2. CASE k \in 1..l
    BY <1>1, <1>2, <1>3, <1>4, <1>10, <1>13, <2>1, <2>2, Zenon
  <2>3. CASE k \notin 1..l
    <3>1. k - l \in 1..pad /\ k = l + (k - l)
      BY <1>11, <2>1, <2>3
    <3>. QED
      BY <1>1, <1>9, <1>10, <2>1, <3>1, Zenon
  <2>. QED
    BY <2>2, <2>3
<1>17. p = << >> \/ p = payload \/ p = payload \o pads
  BY <1>6, <1>7, <1>8, <1>10, Zenon DEF PayloadOf
<1>. QED
  BY <1>14, <1>15, <1>16, <1>17

\* The first bytes of headers in c come from the first n of bytes.
Placed(c, bytes, n) ==
  \A k \in 1..Len(c) : c[k].at = 1 => \E j \in 1..n : c[k] = bytes[j]

\* What a segment, if there is one, shows of a stream.
Shows(part, p, bytes) ==
  \/ part = << >> /\ \A k \in 1..Len(p) : p[k].at # 1
  \/ \E s \in Segment :
       /\ part = <<s>> /\ 1 <= s.first /\ s.first <= s.last /\ s.last <= Len(bytes)
       /\ \A k \in 1..Len(p) : p[k].at = 1 =>
            s.first - 1 + k <= s.last /\ p[k] = bytes[s.first - 1 + k]

\* No segment is there twice or was overtaken.
Ordered(s) == \A i \in 2..Len(s) : s[i].first > s[i - 1].last

LEMMA PlacedStep ==
  ASSUME NEW bytes \in Seq(Byte), Rising(bytes),
         NEW c \in Seq(Byte), Rising(c), NEW v \in Seq(Segment), Placed(c, bytes, Cuts(v)),
         Cuts(v) \in 0..Len(bytes),
         NEW p \in Seq(Byte), NEW part, Shows(part, p, bytes), Ordered(v \o part)
  PROVE  /\ Cuts(v \o part) \in 0..Len(bytes)
         /\ Placed(c \o p, bytes, Cuts(v \o part)) /\ Rising(c \o p)
<1>1. PICK lc, lp, lb \in Nat : lc = Len(c) /\ lp = Len(p) /\ lb = Len(bytes)
  BY LenProperties
<1>2. PICK m \in 0..lb : m = Cuts(v)
  BY <1>1
<1>3. PICK b \in Seq(Byte) : /\ b = c \o p /\ Len(b) = lc + lp
                             /\ \A i \in 1..lc : b[i] = c[i]
                             /\ \A i \in 1..lp : b[lc + i] = p[i]
  <2>1. PICK b : b = c \o p
    OBVIOUS
  <2>2. /\ b \in Seq(Byte) /\ Len(b) = Len(c) + Len(p)
        /\ \A i \in 1..Len(c) : b[i] = c[i]
        /\ \A i \in 1..Len(p) : b[Len(c) + i] = p[i]
    BY <2>1, ConcatIs
  <2>. QED
    BY <1>1, <2>1, <2>2, Zenon
<1>4. ASSUME NEW k \in 1..lc + lp
      PROVE  \/ k \in 1..lc /\ b[k] = c[k]
             \/ \E i \in 1..lp : k = lc + i /\ b[k] = p[i]
  <2>1. CASE k \in 1..lc
    BY <1>3, <2>1, Zenon
  <2>2. CASE k \notin 1..lc
    <3>1. k - lc \in 1..lp /\ k = lc + (k - lc)
      BY <2>2
    <3>. QED
      BY <1>3, <3>1, Zenon
  <2>. QED
    BY <2>1, <2>2
<1>5. ASSUME NEW k \in 1..lc, c[k].at = 1 PROVE \E j \in 1..m : c[k] = bytes[j]
  BY <1>1, <1>2, <1>5, Zenon DEF Placed
<1>6. CASE part = << >> /\ \A k \in 1..Len(p) : p[k].at # 1
  <2>1. v \o part = v
    BY <1>6, ConcatEmptySeq
  <2>2. ASSUME NEW k \in 1..lc + lp, b[k].at = 1 PROVE k \in 1..lc /\ b[k] = c[k]
    BY <1>1, <1>4, <1>6, <2>2, Zenon
  <2>3. Placed(b, bytes, m)
    BY <1>3, <1>5, <2>2, Zenon DEF Placed
  <2>4. Rising(b)
    <3>. SUFFICES ASSUME NEW j \in 1..lc + lp, NEW k \in 1..lc + lp, j < k, b[j].at = 1, b[k].at = 1
                  PROVE  b[j].of.id < b[k].of.id
      BY <1>3, Zenon DEF Rising
    <3>1. j \in 1..lc /\ b[j] = c[j] /\ k \in 1..lc /\ b[k] = c[k]
      BY <2>2
    <3>. QED
      BY <1>1, <3>1, Zenon DEF Rising
  <2>. QED
    BY <1>1, <1>2, <1>3, <2>1, <2>3, <2>4, Zenon
<1>7. CASE part # << >> \/ ~\A k \in 1..Len(p) : p[k].at # 1
  <2>1. PICK s \in Segment :
          /\ part = <<s>> /\ 1 <= s.first /\ s.first <= s.last /\ s.last <= lb
          /\ \A k \in 1..lp : p[k].at = 1 =>
               s.first - 1 + k <= s.last /\ p[k] = bytes[s.first - 1 + k]
    BY <1>1, <1>7, Zenon DEF Shows
  <2>2. PICK first, last \in Nat : first = s.first /\ last = s.last /\ 1 <= first /\ first <= last /\ last <= lb
    BY <2>1 DEF Segment
  <2>3. PICK n \in Nat : n = Len(v)
    BY LenProperties
  <2>4. PICK u \in Seq(Segment) : u = v \o part /\ u = Append(v, s)
    <3>1. Append(v, s) = v \o <<s>> /\ Append(v, s) \in Seq(Segment)
      BY AppendIsConcat, AppendProperties
    <3>. QED
      BY <2>1, <3>1, Zenon
  <2>5. Len(u) = n + 1 /\ u[n + 1] = s /\ \A i \in 1..n : u[i] = v[i]
    BY <2>3, <2>4, AppendProperties
  <2>6. Cuts(u) = last
    <3>1. u # << >>
      BY <2>4, <2>5, EmptySeq
    <3>2. Cuts(u) = u[Len(u)].last
      BY <3>1 DEF Cuts, Last
    <3>. QED
      BY <2>2, <2>5, <3>2
  <2>7. m < first
    <3>1. CASE v = << >>
      BY <1>2, <2>2, <3>1 DEF Cuts
    <3>2. CASE v # << >>
      <4>1. n \in Nat \ {0}
        BY <2>3, <3>2, EmptySeq
      <4>2. m = v[n].last
        BY <1>2, <2>3, <3>2 DEF Cuts, Last
      <4>3. n + 1 \in 2..Len(u) /\ (n + 1) - 1 = n /\ n \in 1..n
        BY <2>5, <4>1
      <4>4. u[n + 1].first > u[n].last
        BY <2>4, <4>3, Zenon DEF Ordered
      <4>5. u[n + 1].first = first /\ u[n].last = m
        BY <2>2, <2>5, <4>2, <4>3, Zenon
      <4>. QED
        BY <2>2, <4>4, <4>5
    <3>. QED
      BY <3>1, <3>2
  <2>8. ASSUME NEW i \in 1..lp, p[i].at = 1
        PROVE  first - 1 + i \in first..last /\ p[i] = bytes[first - 1 + i]
    <3>1. s.first - 1 + i <= s.last /\ p[i] = bytes[s.first - 1 + i]
      BY <2>1, <2>8, Zenon
    <3>2. first - 1 + i <= last /\ p[i] = bytes[first - 1 + i]
      BY <2>2, <3>1, Zenon
    <3>3. first - 1 + i <= last
      BY <3>2, Zenon
    <3>4. first - 1 + i \in first..last
      BY <3>3
    <3>. QED
      BY <3>2, <3>4, Zenon
  <2>9. Placed(b, bytes, last)
    <3>. SUFFICES ASSUME NEW k \in 1..lc + lp, b[k].at = 1 PROVE \E j \in 1..last : b[k] = bytes[j]
      BY <1>3, Zenon DEF Placed
    <3>1. CASE k \in 1..lc /\ b[k] = c[k]
      <4>1. PICK j \in 1..m : c[k] = bytes[j]
        BY <1>5, <3>1
      <4>2. j \in 1..last
        BY <2>2, <2>7
      <4>. QED
        BY <3>1, <4>1, <4>2, Zenon
    <3>2. ASSUME NEW i \in 1..lp, b[k] = p[i] PROVE \E j \in 1..last : b[k] = bytes[j]
      <4>1. first - 1 + i \in first..last /\ p[i] = bytes[first - 1 + i]
        BY <2>8, <3>2
      <4>2. first - 1 + i \in 1..last
        BY <2>2, <4>1
      <4>. QED
        BY <3>2, <4>1, <4>2, Zenon
    <3>. QED
      BY <1>4, <3>1, <3>2, Zenon
  <2>10. Rising(b)
    <3>. SUFFICES ASSUME NEW j \in 1..lc + lp, NEW k \in 1..lc + lp, j < k, b[j].at = 1, b[k].at = 1
                  PROVE  b[j].of.id < b[k].of.id
      BY <1>3, Zenon DEF Rising
    <3>1. CASE k \in 1..lc
      <4>1. j \in 1..lc
        BY <3>1
      <4>. QED
        BY <1>1, <1>3, <3>1, <4>1, Zenon DEF Rising
    <3>2. CASE k \notin 1..lc
      <4>1. PICK i \in 1..lp : k = lc + i /\ b[k] = p[i]
        BY <1>4, <3>2, Zenon
      <4>2. first - 1 + i \in first..last /\ p[i] = bytes[first - 1 + i]
        BY <2>8, <4>1
      <4>3. CASE j \in 1..lc
        <5>1. b[j] = c[j]
          BY <1>3, <4>3, Zenon
        <5>2. PICK h \in 1..m : c[j] = bytes[h]
          BY <1>5, <4>3, <5>1, Zenon
        <5>3. h \in 1..lb /\ first - 1 + i \in 1..lb /\ h < first - 1 + i
          <6>1. PICK j2 \in first..last : j2 = first - 1 + i
            BY <4>2
          <6>2. h \in 1..lb /\ j2 \in 1..lb /\ h < j2
            BY <2>2, <2>7
          <6>. QED
            BY <6>1, <6>2, Zenon
        <5>. QED
          BY <1>1, <4>1, <4>2, <5>1, <5>2, <5>3, Zenon DEF Rising
      <4>4. CASE j \notin 1..lc
        <5>1. PICK h \in 1..lp : j = lc + h /\ b[j] = p[h]
          BY <1>4, <4>4, Zenon
        <5>2. first - 1 + h \in first..last /\ p[h] = bytes[first - 1 + h]
          BY <2>8, <5>1
        <5>3. first - 1 + h \in 1..lb /\ first - 1 + i \in 1..lb /\ first - 1 + h < first - 1 + i
          <6>1. h < i
            BY <4>1, <5>1
          <6>2. \A x \in first..last : x \in 1..lb
            BY <2>2
          <6>3. first - 1 + h < first - 1 + i
            BY <2>2, <6>1
          <6>. QED
            BY <4>2, <5>2, <6>2, <6>3, Zenon
        <5>. QED
          BY <1>1, <4>1, <4>2, <5>1, <5>2, <5>3, Zenon DEF Rising
      <4>. QED
        BY <4>3, <4>4
    <3>. QED
      BY <3>1, <3>2
  <2>11. last \in 0..Len(bytes)
    BY <1>1, <2>2
  <2>. QED
    BY <1>3, <2>4, <2>6, <2>9, <2>10, <2>11, Zenon
<1>. QED
  BY <1>6, <1>7

LEMMA PlacedJoin ==
  ASSUME NEW bytes, NEW n, NEW c \in Seq(Byte), Placed(c, bytes, n),
         NEW p \in Seq(Byte), Placed(p, bytes, n)
  PROVE  Placed(c \o p, bytes, n)
<1>1. PICK lc, lp \in Nat : lc = Len(c) /\ lp = Len(p)
  BY LenProperties
<1>2. PICK b : b = c \o p
  OBVIOUS
<1>3. /\ Len(b) = Len(c) + Len(p)
      /\ \A i \in 1..Len(c) : b[i] = c[i]
      /\ \A i \in 1..Len(p) : b[Len(c) + i] = p[i]
  BY <1>2, ConcatIs
<1>4. ASSUME NEW k \in 1..lc + lp, b[k].at = 1 PROVE \E j \in 1..n : b[k] = bytes[j]
  <2>1. CASE k \in 1..lc
    BY <1>1, <1>3, <1>4, <2>1, Zenon DEF Placed
  <2>2. CASE k \notin 1..lc
    <3>1. k - lc \in 1..lp /\ k = lc + (k - lc)
      BY <2>2
    <3>2. PICK i \in 1..lp : k = lc + i
      BY <3>1, Zenon
    <3>. QED
      BY <1>1, <1>3, <1>4, <3>2, Zenon DEF Placed
  <2>. QED
    BY <2>1, <2>2
<1>. QED
  BY <1>1, <1>2, <1>3, <1>4, Zenon DEF Placed

LEMMA PartsPlaced ==
  ASSUME NEW bytes \in Seq(Byte), NEW q \in Seq(Seq(Byte)), NEW u \in Seq(Seq(Segment)), Len(u) = Len(q),
         \A i \in 1..Len(q) : Shows(u[i], q[i], bytes)
  PROVE  /\ Placed(FlattenSeq(q), bytes, Len(bytes))
         /\ Rising(bytes) /\ Ordered(FlattenSeq(u)) => Rising(FlattenSeq(q))
<1>1. PICK l, lb \in Nat : l = Len(q) /\ lb = Len(bytes)
  BY LenProperties
<1>2. /\ First(q, 0) = << >> /\ First(q, l) = FlattenSeq(q) /\ First(u, 0) = << >> /\ First(u, l) = FlattenSeq(u)
      /\ \A i \in 0..l : First(q, i) \in Seq(Byte) /\ First(u, i) \in Seq(Segment)
      /\ \A i \in 0..l - 1 : First(q, i + 1) = First(q, i) \o q[i + 1] /\ First(u, i + 1) = First(u, i) \o u[i + 1]
  <2>1. /\ First(q, 0) = << >> /\ First(q, Len(q)) = FlattenSeq(q)
        /\ \A i \in 0..Len(q) : First(q, i) \in Seq(Byte)
        /\ \A i \in 0..Len(q) - 1 : First(q, i + 1) = First(q, i) \o q[i + 1]
    BY FirstIs
  <2>2. /\ First(u, 0) = << >> /\ First(u, Len(u)) = FlattenSeq(u)
        /\ \A i \in 0..Len(u) : First(u, i) \in Seq(Segment)
        /\ \A i \in 0..Len(u) - 1 : First(u, i + 1) = First(u, i) \o u[i + 1]
    BY FirstIs
  <2>. QED
    BY <1>1, <2>1, <2>2, Zenon
<1>. DEFINE InOrderTo(n) == /\ Cuts(First(u, n)) \in 0..lb /\ Placed(First(q, n), bytes, Cuts(First(u, n)))
                            /\ Rising(First(q, n))
            P(n) == n <= l => /\ Placed(First(q, n), bytes, lb)
                              /\ Rising(bytes) /\ Ordered(FlattenSeq(u)) => InOrderTo(n)
            T == {n \in Nat : P(n)}
<1>3. P(0)
  <2>1. 1..Len(<< >>) = {} /\ 0 \in 0..lb
    BY <1>1
  <2>2. Placed(<< >>, bytes, lb) /\ Rising(<< >>) /\ Placed(<< >>, bytes, 0) /\ Cuts(<< >>) = 0
    BY <2>1, Zenon DEF Placed, Rising, Cuts
  <2>. QED
    BY <1>2, <2>1, <2>2, Zenon
<1>4. ASSUME NEW n \in Nat, P(n) PROVE P(n + 1)
  <2>. SUFFICES ASSUME n + 1 <= l
                PROVE  /\ Placed(First(q, n + 1), bytes, lb)
                       /\ Rising(bytes) /\ Ordered(FlattenSeq(u)) => InOrderTo(n + 1)
    OBVIOUS
  <2>1. n \in 0..l /\ n + 1 \in 0..l /\ n \in 0..l - 1 /\ n + 1 \in 1..l /\ n <= l /\ l \in (n + 1)..l
    BY <1>1
  <2>2. PICK c \in Seq(Byte), p \in Seq(Byte) : c = First(q, n) /\ p = q[n + 1] /\ First(q, n + 1) = c \o p
    <3>1. q[n + 1] \in Seq(Byte)
      BY <1>1, <2>1, ElementOfSeq
    <3>. QED
      BY <1>2, <2>1, <3>1, Zenon
  <2>3. PICK v \in Seq(Segment), part \in Seq(Segment) :
          v = First(u, n) /\ part = u[n + 1] /\ First(u, n + 1) = v \o part
    <3>1. u[n + 1] \in Seq(Segment)
      BY <1>1, <2>1, ElementOfSeq
    <3>. QED
      BY <1>2, <2>1, <3>1, Zenon
  <2>4. Shows(part, p, bytes)
    BY <1>1, <2>1, <2>2, <2>3, Zenon
  <2>5. Placed(p, bytes, lb)
    <3>1. CASE part = << >> /\ \A k \in 1..Len(p) : p[k].at # 1
      BY <3>1, Zenon DEF Placed
    <3>2. ASSUME NEW s \in Segment, 1 <= s.first, s.last <= lb, NEW k \in 1..Len(p),
                 s.first - 1 + k <= s.last, p[k] = bytes[s.first - 1 + k]
          PROVE  \E j \in 1..lb : p[k] = bytes[j]
      <4>1. s.first \in Nat /\ s.last \in Nat
        BY DEF Segment
      <4>2. s.first - 1 + k \in 1..lb
        BY <3>2, <4>1
      <4>. QED
        BY <3>2, <4>2, Zenon
    <3>. QED
      BY <1>1, <2>4, <3>1, <3>2, Zenon DEF Shows, Placed
  <2>6. Placed(First(q, n + 1), bytes, lb)
    <3>1. Placed(c, bytes, lb)
      BY <1>4, <2>1, <2>2
    <3>. QED
      BY <2>2, <2>5, <3>1, PlacedJoin, Zenon
  <2>7. ASSUME Rising(bytes), Ordered(FlattenSeq(u)) PROVE InOrderTo(n + 1)
    <3>1. Cuts(v) \in 0..Len(bytes) /\ Placed(c, bytes, Cuts(v)) /\ Rising(c)
      <4>1. InOrderTo(n)
        BY <1>4, <2>1, <2>7
      <4>. QED
        BY <1>1, <2>2, <2>3, <4>1, Zenon
    <3>2. PICK s, t : s = First(u, n + 1) /\ t = FlattenSeq(u)
      OBVIOUS
    <3>3. Len(s) <= Len(t) /\ \A k \in 1..Len(s) : t[k] = s[k]
      <4>1. n + 1 \in 0..Len(u) /\ l \in (n + 1)..Len(u)
        BY <1>1, <2>1
      <4>2. /\ Len(First(u, n + 1)) <= Len(First(u, l))
            /\ \A k \in 1..Len(First(u, n + 1)) : First(u, l)[k] = First(u, n + 1)[k]
        BY <4>1, FirstPrefix
      <4>. QED
        BY <1>2, <3>2, <4>2, Zenon
    <3>4. s \in Seq(Segment) /\ t \in Seq(Segment)
      BY <1>2, <2>1, <3>2, FlattenType, Zenon
    <3>5. PICK ls, lt \in Nat : ls = Len(s) /\ lt = Len(t) /\ ls <= lt
      BY <3>3, <3>4, LenProperties
    <3>6. \A k \in 2..ls : k \in 1..ls /\ k - 1 \in 1..ls /\ k \in 2..lt
      BY <3>5
    <3>7. Ordered(s)
      BY <2>7, <3>2, <3>3, <3>5, <3>6, Zenon DEF Ordered
    <3>8. Ordered(v \o part)
      BY <2>3, <3>2, <3>7, Zenon
    <3>9. /\ Cuts(v \o part) \in 0..Len(bytes)
          /\ Placed(c \o p, bytes, Cuts(v \o part)) /\ Rising(c \o p)
      BY <2>4, <2>7, <3>1, <3>8, PlacedStep, Zenon
    <3>. QED
      BY <1>1, <2>2, <2>3, <3>9, Zenon
  <2>. QED
    BY <2>6, <2>7
<1>. HIDE DEF P
<1>5. T = Nat
  <2>1. T \in SUBSET Nat /\ 0 \in T /\ \A m \in T : m + 1 \in T
    BY <1>3, <1>4
  <2>. HIDE DEF T
  <2>. QED
    BY <2>1, Induction
<1>6. P(l)
  BY <1>5
<1>7. l <= l
  BY <1>1
<1>. QED
  BY <1>1, <1>2, <1>6, <1>7, Zenon DEF P

\* The captured bytes of a flow, as far as frames start there, are of its stream.
LEMMA RowsPlaced ==
  ASSUME CaptureInv, NEW f \in Flow
  PROVE  /\ Placed(BytesOf(Rows, f), Bytes(f), Len(Bytes(f)))
         /\ Rising(Bytes(f)) /\ InOrder(f) => Rising(BytesOf(Rows, f))
<1>1. PICK n \in Nat : n = Len(seen) /\ DOMAIN seen = 1..n
  BY LenProperties DEF CaptureInv
<1>2. PICK bytes \in Seq(Byte) : bytes = Bytes(f)
  BY BytesIs DEF CaptureInv
<1>3. PICK q : q = PartsOf(Rows, f)
  OBVIOUS
<1>4. /\ q \in Seq(Seq(Byte)) /\ Len(q) = n /\ BytesOf(Rows, f) = FlattenSeq(q)
      /\ \A i \in 1..n : q[i] = IF Rows[i].flow = f THEN Rows[i].payload ELSE << >>
  <2>1. Rows \in Seq(Row) /\ Len(Rows) = n
    BY <1>1, RowsAre
  <2>2. /\ q \in Seq(Seq(Byte)) /\ Len(q) = Len(Rows) /\ BytesOf(Rows, f) = FlattenSeq(q)
        /\ \A i \in 1..Len(Rows) : q[i] = IF Rows[i].flow = f THEN Rows[i].payload ELSE << >>
    <3>1. PICK rows \in Seq(Row) : rows = Rows
      BY <2>1
    <3>2. q = PartsOf(rows, f)
      BY <1>3, <3>1
    <3>3. /\ q \in Seq(Seq(Byte)) /\ Len(q) = Len(rows) /\ BytesOf(rows, f) = FlattenSeq(q)
          /\ \A i \in 1..Len(rows) : q[i] = IF rows[i].flow = f THEN rows[i].payload ELSE << >>
      BY <3>2, PartsAre
    <3>. QED
      BY <3>1, <3>3, Zenon
  <2>. QED
    BY <2>1, <2>2, Zenon
<1>5. PICK u : u = [i \in 1..n |-> IF seen[i].flow = f /\ seen[i] # Empty(f) THEN <<seen[i]>> ELSE << >>]
  OBVIOUS
<1>6. /\ u \in Seq(Seq(Segment)) /\ Len(u) = n /\ SeenOf(f) = FlattenSeq(u)
      /\ \A i \in 1..n : u[i] = IF seen[i].flow = f /\ seen[i] # Empty(f) THEN <<seen[i]>> ELSE << >>
  <2>1. ASSUME NEW i \in 1..n
        PROVE  (IF seen[i].flow = f /\ seen[i] # Empty(f) THEN <<seen[i]>> ELSE << >>) \in Seq(Segment)
    <3>1. seen[i] \in Segment
      BY <1>1, SeenIs
    <3>. QED
      BY <3>1
  <2>2. u \in [1..n -> Seq(Segment)]
    BY <1>5, <2>1
  <2>3. u \in Seq(Seq(Segment)) /\ Len(u) = n
    BY <2>2
  <2>4. SeenOf(f) = FlattenSeq(u)
    BY <1>1, <1>5, Zenon DEF SeenOf
  <2>. QED
    BY <1>5, <2>3, <2>4
<1>7. ASSUME NEW i \in 1..n PROVE Shows(u[i], q[i], bytes)
  <2>1. PICK s, p : s = seen[i] /\ p = PayloadOf(s)
    OBVIOUS
  <2>2. /\ s \in Segment /\ s.first \in Nat \ {0} /\ s.last \in Nat
        /\ s.flow = f => s.last <= Len(bytes) /\ (s = Empty(f) \/ s.first <= s.last)
    BY <1>1, <1>2, <2>1, SeenIs, Zenon
  <2>3. q[i] = IF s.flow = f THEN p ELSE << >>
    BY <1>1, <1>4, <2>1, RowIs, Zenon
  <2>4. u[i] = IF s.flow = f /\ s # Empty(f) THEN <<s>> ELSE << >>
    BY <1>6, <2>1, Zenon
  <2>5. ASSUME s.flow = f, NEW k \in 1..Len(p), p[k].at = 1
        PROVE  s.first - 1 + k <= s.last /\ p[k] = bytes[s.first - 1 + k]
    <3>1. Padding.at # 1
      BY DEF Padding
    <3>2. \/ p[k] = Padding
          \/ s.first - 1 + k <= s.last /\ p[k] = Bytes(s.flow)[s.first - 1 + k]
      BY <1>1, <2>1, PayloadBytes, Zenon
    <3>. QED
      BY <1>2, <2>5, <3>1, <3>2, Zenon
  <2>6. CASE s.flow # f
    <3>1. u[i] = << >> /\ q[i] = << >> /\ 1..Len(<< >>) = {}
      BY <2>3, <2>4, <2>6
    <3>. QED
      BY <3>1, Zenon DEF Shows
  <2>7. CASE s = Empty(f)
    <3>1. s.flow = f /\ s.first = 1 /\ s.last = 0
      BY <2>7 DEF Empty
    <3>2. ASSUME NEW k \in 1..Len(p), p[k].at = 1 PROVE FALSE
      <4>1. s.first - 1 + k <= s.last
        BY <2>5, <3>1, <3>2
      <4>. QED
        BY <3>1, <4>1
    <3>3. u[i] = << >> /\ q[i] = p
      BY <2>3, <2>4, <2>7, <3>1, Zenon
    <3>. QED
      BY <3>2, <3>3, Zenon DEF Shows
  <2>8. CASE s.flow = f /\ s # Empty(f)
    <3>1. u[i] = <<s>> /\ q[i] = p
      BY <2>3, <2>4, <2>8, Zenon
    <3>2. 1 <= s.first /\ s.first <= s.last /\ s.last <= Len(bytes)
      BY <2>2, <2>8
    <3>. QED
      BY <2>2, <2>5, <2>8, <3>1, <3>2, Zenon DEF Shows
  <2>. QED
    BY <2>6, <2>7, <2>8
<1>8. Placed(FlattenSeq(q), bytes, Len(bytes)) /\ (Rising(bytes) /\ Ordered(FlattenSeq(u)) => Rising(FlattenSeq(q)))
  BY <1>4, <1>6, <1>7, PartsPlaced, Zenon
<1>9. InOrder(f) => Ordered(FlattenSeq(u))
  BY <1>6, Zenon DEF InOrder, Ordered
<1>. QED
  BY <1>2, <1>4, <1>8, <1>9, Zenon

\* The senders write what they were given.
LEMMA CaptureWire == Spec => [](wire \in Wires)
<1>1. Init => wire \in Wires
  BY DEF Init
<1>2. wire \in Wires /\ [Next]_vars => (wire \in Wires)'
  <2>. SUFFICES ASSUME wire \in Wires, [Next]_vars PROVE wire' = wire
    BY Zenon
  <2>. QED
    BY Zenon DEF Next, Send, See, Read, vars
<1>. QED
  BY <1>1, <1>2, PTL DEF Spec

(* A frame that the analyser reports was written so, whatever the capture  *)
(* misses, repeats or has out of order, unless it joins the halves of two  *)
(* headers; and with nothing repeated the frames come in the order they    *)
(* were written (reassemble_flows).                                        *)
THEOREM CaptureNoFalseReport == Spec => []NoFalseReport
<1>1. CaptureInv /\ wire \in Wires => NoFalseReport
  <2>. SUFFICES ASSUME CaptureInv, wire \in Wires, NEW f \in Flow, ~Spliced(f)
                PROVE  LET frames == Found.frames[f]
                       IN  /\ \A i \in DOMAIN frames : \E k \in DOMAIN wire[f] :
                                frames[i] = Written(wire[f][k]) /\ "ERR_CRC" \notin wire[f][k].faults
                           /\ InOrder(f) => \A i \in 2..Len(frames) : frames[i].number.id > frames[i - 1].number.id
    BY Zenon DEF NoFalseReport
  <2>1. PICK frames, kept : frames = Found.frames[f] /\ kept = Found.buffers[f]
    OBVIOUS
  <2>2. Rows \in Seq(Row) /\ Len(Rows) = Len(seen)
    BY RowsAre
  <2>3. PICK b \in Seq(Byte) : b = BytesOf(Rows, f)
    <3>1. PartsOf(Rows, f) \in Seq(Seq(Byte)) /\ BytesOf(Rows, f) = FlattenSeq(PartsOf(Rows, f))
      BY <2>2, PartsAre, Zenon
    <3>2. BytesOf(Rows, f) \in Seq(Byte)
      BY <3>1, FlattenType, Zenon
    <3>. QED
      BY <3>2
  <2>4. PICK lb \in Nat : lb = Len(b)
    BY LenProperties
  <2>5. Unspliced(b)
    <3>. SUFFICES ASSUME NEW k \in 1..lb - 1, b[k].at = 1, b[k + 1].at = 2 PROVE b[k].of = b[k + 1].of
      BY <2>4, Zenon DEF Unspliced
    <3>1. k + 1 \in 2..lb /\ (k + 1) - 1 = k
      OBVIOUS
    <3>2. ~(b[(k + 1) - 1].at = 1 /\ b[k + 1].at = 2 /\ b[(k + 1) - 1].of # b[k + 1].of)
      BY <2>3, <2>4, <3>1, Zenon DEF Spliced
    <3>. QED
      BY <3>1, <3>2
  <2>6. Analysed(b, frames, kept)
    <3>1. ASSUME NEW i \in 1..Len(Rows) PROVE Rows[i].l4 = "none" => Rows[i].payload = << >>
      BY <2>2, RowIs, Zenon DEF PayloadOf
    <3>. QED
      BY <2>1, <2>2, <2>3, <2>5, <3>1, RowsAnalysed, Zenon DEF Found
  <2>7. /\ Placed(b, Bytes(f), Len(Bytes(f)))
        /\ Rising(Bytes(f)) /\ InOrder(f) => Rising(b)
    BY <2>3, RowsPlaced, Zenon
  <2>8. PICK w \in Seq(Items) : w = wire[f] /\ Bytes(f) = Before(w, Len(w))
    BY BytesIs DEF CaptureInv
  <2>9. FromItems(Bytes(f), w, Len(w)) /\ (Ascending(w) => Rising(Bytes(f)))
    <3>1. Len(w) \in 0..Len(w)
      BY LenProperties
    <3>. QED
      BY <2>8, <3>1, BeforeRises, Zenon
  <2>10. Ascending(w)
    BY <2>8, CaptureAssumption, Zenon DEF Ascending
  <2>11. /\ frames \in Seq(Frame) /\ Located(b, frames, lb - Len(kept)) /\ Len(kept) \in 0..lb
         /\ Rising(b) => Increasing(frames)
    BY <2>4, <2>6, Zenon DEF Analysed
  <2>12. PICK n \in Nat : n = Len(frames) /\ DOMAIN frames = 1..n
    BY <2>11, LenProperties
  <2>13. ASSUME NEW i \in 1..n
         PROVE  \E k \in DOMAIN w : frames[i] = Written(w[k]) /\ "ERR_CRC" \notin w[k].faults
    <3>1. PICK k \in 1..lb - Len(kept) : Finds(b, k, frames[i])
      BY <2>11, <2>12, Zenon DEF Located
    <3>2. k \in 1..lb
      BY <2>11
    <3>3. b[k].at = 1 /\ frames[i] = Written(b[k].of) /\ "ERR_CRC" \notin b[k].of.faults
      BY <3>1, Zenon DEF Finds
    <3>4. PICK j \in 1..Len(Bytes(f)) : b[k] = Bytes(f)[j]
      BY <2>4, <2>7, <3>2, <3>3, Zenon DEF Placed
    <3>5. PICK m \in 1..Len(w) : Bytes(f)[j].of = w[m]
      BY <2>9, Zenon DEF FromItems
    <3>6. m \in DOMAIN w
      BY LenProperties
    <3>. QED
      BY <3>3, <3>4, <3>5, <3>6, Zenon
  <2>14. ASSUME InOrder(f), NEW i \in 2..n PROVE frames[i].number.id > frames[i - 1].number.id
    <3>1. i \in 1..n /\ i - 1 \in 1..n /\ i - 1 < i
      OBVIOUS
    <3>2. Increasing(frames)
      BY <2>7, <2>9, <2>10, <2>11, <2>14, Zenon
    <3>3. frames[i - 1].number.id < frames[i].number.id
      BY <2>12, <3>1, <3>2, Zenon DEF Increasing
    <3>4. \A x, y : x < y => y > x
      OBVIOUS
    <3>. QED
      BY <3>3, <3>4, Zenon
  <2>. QED
    BY <2>1, <2>8, <2>12, <2>13, <2>14, Zenon
<1>. QED
  BY <1>1, CaptureInvariant, CaptureWire, PTL

-----------------------------------------------------------------------------
(* What the analyser makes of a stream of which nothing is missing.        *)

\* What is behind the a-th element, up to the b-th.
Between(s, a, b) == SubSeq(s, a + 1, b)

LEMMA BetweenIs ==
  ASSUME NEW S, NEW s \in Seq(S), NEW b \in 0..Len(s), NEW a \in 0..b
  PROVE  /\ Between(s, a, b) \in Seq(S) /\ Len(Between(s, a, b)) = b - a
         /\ \A k \in 1..b - a : Between(s, a, b)[k] = s[a + k]
<1>1. PICK l \in Nat : l = Len(s) /\ a <= b /\ b <= l
  BY LenProperties
<1>2. PICK t : t = SubSeq(s, a + 1, b)
  OBVIOUS
<1>3. a + 1 \in Nat \ {0} /\ b \in Nat /\ b <= Len(s) /\ b - (a + 1) + 1 = b - a
  BY <1>1
<1>4. t \in Seq(S) /\ Len(t) = IF a + 1 <= b THEN b - (a + 1) + 1 ELSE 0
  BY <1>2, <1>3, PartOf
<1>5. Len(t) = b - a
  BY <1>1, <1>3, <1>4
<1>6. \A k \in 1..b - (a + 1) + 1 : t[k] = s[(a + 1) + k - 1]
  BY <1>2, <1>3
<1>7. \A k \in 1..b - a : k \in 1..b - (a + 1) + 1 /\ (a + 1) + k - 1 = a + k
  BY <1>1
<1>8. \A k \in 1..b - a : t[k] = s[a + k]
  BY <1>6, <1>7, Zenon
<1>. QED
  BY <1>2, <1>4, <1>5, <1>8, Zenon DEF Between

LEMMA BetweenBetween ==
  ASSUME NEW S, NEW s \in Seq(S), NEW b \in 0..Len(s), NEW a \in 0..b, NEW d \in 0..b - a, NEW c \in 0..d
  PROVE  Between(Between(s, a, b), c, d) = Between(s, a + c, a + d)
<1>1. PICK l \in Nat : l = Len(s)
  BY LenProperties
<1>2. PICK t \in Seq(S) : t = Between(s, a, b) /\ Len(t) = b - a /\ \A k \in 1..b - a : t[k] = s[a + k]
  <2>1. /\ Between(s, a, b) \in Seq(S) /\ Len(Between(s, a, b)) = b - a
        /\ \A k \in 1..b - a : Between(s, a, b)[k] = s[a + k]
    BY BetweenIs
  <2>. QED
    BY <2>1, Zenon
<1>3. d \in 0..Len(t) /\ a + d \in 0..Len(s) /\ a + c \in 0..a + d /\ (a + d) - (a + c) = d - c
  BY <1>1, <1>2
<1>4. PICK u \in Seq(S) : u = Between(t, c, d) /\ Len(u) = d - c /\ \A k \in 1..d - c : u[k] = t[c + k]
  <2>1. /\ Between(t, c, d) \in Seq(S) /\ Len(Between(t, c, d)) = d - c
        /\ \A k \in 1..d - c : Between(t, c, d)[k] = t[c + k]
    BY <1>3, BetweenIs
  <2>. QED
    BY <2>1, Zenon
<1>5. PICK v \in Seq(S) : /\ v = Between(s, a + c, a + d) /\ Len(v) = d - c
                          /\ \A k \in 1..d - c : v[k] = s[(a + c) + k]
  <2>1. /\ Between(s, a + c, a + d) \in Seq(S) /\ Len(Between(s, a + c, a + d)) = (a + d) - (a + c)
        /\ \A k \in 1..(a + d) - (a + c) : Between(s, a + c, a + d)[k] = s[(a + c) + k]
    BY <1>3, BetweenIs
  <2>. QED
    BY <1>3, <2>1, Zenon
<1>6. ASSUME NEW k \in 1..d - c PROVE u[k] = v[k]
  <2>1. c + k \in 1..b - a /\ a + (c + k) = (a + c) + k
    OBVIOUS
  <2>. QED
    BY <1>2, <1>4, <1>5, <2>1, Zenon
<1>7. u = v
  BY <1>4, <1>5, <1>6, SeqEqual
<1>. QED
  BY <1>2, <1>4, <1>5, <1>7, Zenon

LEMMA BetweenJoins ==
  ASSUME NEW S, NEW s \in Seq(S), NEW c \in 0..Len(s), NEW b \in 0..c, NEW a \in 0..b
  PROVE  Between(s, a, b) \o Between(s, b, c) = Between(s, a, c)
<1>1. PICK l \in Nat : l = Len(s)
  BY LenProperties
<1>2. b \in 0..Len(s) /\ a \in 0..c
  BY <1>1
<1>3. PICK t \in Seq(S) : t = Between(s, a, b) /\ Len(t) = b - a /\ \A k \in 1..b - a : t[k] = s[a + k]
  <2>1. /\ Between(s, a, b) \in Seq(S) /\ Len(Between(s, a, b)) = b - a
        /\ \A k \in 1..b - a : Between(s, a, b)[k] = s[a + k]
    BY <1>2, BetweenIs
  <2>. QED
    BY <2>1, Zenon
<1>4. PICK u \in Seq(S) : u = Between(s, b, c) /\ Len(u) = c - b /\ \A k \in 1..c - b : u[k] = s[b + k]
  <2>1. /\ Between(s, b, c) \in Seq(S) /\ Len(Between(s, b, c)) = c - b
        /\ \A k \in 1..c - b : Between(s, b, c)[k] = s[b + k]
    BY BetweenIs
  <2>. QED
    BY <2>1, Zenon
<1>5. PICK v \in Seq(S) : v = Between(s, a, c) /\ Len(v) = c - a /\ \A k \in 1..c - a : v[k] = s[a + k]
  <2>1. /\ Between(s, a, c) \in Seq(S) /\ Len(Between(s, a, c)) = c - a
        /\ \A k \in 1..c - a : Between(s, a, c)[k] = s[a + k]
    BY <1>2, BetweenIs
  <2>. QED
    BY <2>1, Zenon
<1>6. PICK r : r = t \o u
  OBVIOUS
<1>7. /\ r \in Seq(S) /\ Len(r) = (b - a) + (c - b)
      /\ \A i \in 1..b - a : r[i] = t[i]
      /\ \A i \in 1..c - b : r[(b - a) + i] = u[i]
  <2>1. /\ r \in Seq(S) /\ Len(r) = Len(t) + Len(u)
        /\ \A i \in 1..Len(t) : r[i] = t[i]
        /\ \A i \in 1..Len(u) : r[Len(t) + i] = u[i]
    BY <1>6, ConcatIs
  <2>. QED
    BY <1>3, <1>4, <2>1, Zenon
<1>8. ASSUME NEW k \in 1..c - a PROVE r[k] = v[k]
  <2>1. CASE k \in 1..b - a
    BY <1>3, <1>5, <1>7, <2>1, Zenon
  <2>2. CASE k \notin 1..b - a
    <3>1. k - (b - a) \in 1..c - b /\ k = (b - a) + (k - (b - a)) /\ b + (k - (b - a)) = a + k
      BY <2>2
    <3>2. PICK i \in 1..c - b : k = (b - a) + i /\ b + i = a + k
      BY <3>1, Zenon
    <3>. QED
      BY <1>4, <1>5, <1>7, <3>2, Zenon
  <2>. QED
    BY <2>1, <2>2
<1>9. Len(r) = Len(v)
  BY <1>5, <1>7
<1>10. r = v
  BY <1>5, <1>7, <1>8, <1>9, SeqEqual
<1>. QED
  BY <1>3, <1>4, <1>5, <1>6, <1>10, Zenon

\* What a stream gives when it is taken apart at an item, as far as it is there.
ItemPops(bytes, o, t, it) ==
  LET buf == Between(bytes, o, t)
      pop == Pop(buf, FALSE)
  IN  \/ t < o + Size(it) /\ pop.code = "MORE" /\ pop.rest = buf
      \/ /\ it.faults # {} /\ pop.code \in Fault
         /\ o + Size(it) <= t \/ (o + 2 <= t /\ DecodeHeader(HeaderOf(it)) # "OK")
      \/ /\ o + Size(it) <= t /\ pop.code = "OK" /\ pop.frame = Written(it)
         /\ pop.rest = Between(bytes, o + Size(it), t)

\* Without a key an error is a fault of the item.
LEMMA UnkeyedVerdict ==
  ASSUME NEW it \in Items, DecodeHeader(HeaderOf(it)) = "OK",
         DecodeFrame(HeaderOf(it), Body(it), Mac(it), FALSE) # "OK"
  PROVE  it.faults # {} /\ DecodeFrame(HeaderOf(it), Body(it), Mac(it), FALSE) \in Fault
<1>1. PICK h, b, m, code : h = HeaderOf(it) /\ b = Body(it) /\ m = Mac(it) /\ code = DecodeFrame(h, b, m, FALSE)
  OBVIOUS
<1>2. code = IF Len(b) # DeclaredLength(h) THEN "ERR_LENGTH"
             ELSE IF Len(m) # MacSize THEN "ERR_AUTH"
             ELSE IF ~CrcFits(h, b) THEN "ERR_CRC"
             ELSE IF FALSE /\ ~MacFits(h, b, m) THEN "ERR_AUTH"
             ELSE "OK"
  BY <1>1, DecodeFrameIs
<1>3. Len(b) = DeclaredLength(h) /\ Len(m) = MacSize
  BY <1>1, HeaderVerdict, EncodeIs DEF Mac, MacSize
<1>4. h[2].of = it
  BY <1>1 DEF HeaderOf
<1>5. CrcFits(h, b) <=> "ERR_CRC" \notin it.faults
  BY <1>1, <1>4, Zenon DEF CrcFits
<1>6. code = "ERR_CRC" /\ "ERR_CRC" \in it.faults
  BY <1>1, <1>2, <1>3, <1>5
<1>. QED
  BY <1>1, <1>6 DEF Fault

LEMMA ItemPop ==
  ASSUME NEW it \in Items, NEW bytes \in Seq(Byte), NEW o \in Nat, HasChunk(bytes, o, Encode(it)),
         NEW t \in o..Len(bytes)
  PROVE  ItemPops(bytes, o, t, it)
<1>0. PICK lb \in Nat : lb = Len(bytes)
  BY LenProperties
<1>1. PICK n \in Nat : n = it.length /\ Size(it) = 3 + n /\ o + 3 + n <= lb
  <2>1. /\ HeaderSize = 2 /\ MacSize = 1 /\ it.length \in Nat
        /\ o + (HeaderSize + it.length + MacSize) <= Len(bytes)
    BY EncodeIs, MaxPayloadAssumption DEF HeaderSize, MacSize, HasChunk
  <2>2. Size(it) = 3 + it.length /\ o + 3 + it.length <= lb
    BY <1>0, <2>1 DEF Size
  <2>. QED
    BY <2>1, <2>2
<1>2. t \in 0..Len(bytes) /\ o \in 0..t /\ t \in Nat /\ o <= t
  BY <1>0
<1>3. PICK buf \in Seq(Byte) : buf = Between(bytes, o, t) /\ Len(buf) = t - o
  BY <1>2, BetweenIs, Zenon
<1>4. PICK l \in Nat : l = Len(buf) /\ l = t - o
  BY <1>3, LenProperties
<1>5. PICK pop : pop = Pop(buf, FALSE)
  OBVIOUS
<1>6. PopsAs(buf, FALSE)
  BY PopCases
<1>7. /\ SubSeq(bytes, o + 1, o + 2) = HeaderOf(it)
      /\ SubSeq(bytes, (o + 2) + 1, (o + 2) + n) = Body(it)
      /\ SubSeq(bytes, (o + 2 + n) + 1, o + 2 + n + 1) = Mac(it)
  BY <1>1, ItemChunks
<1>8. ASSUME NEW d \in 0..l, NEW c \in 0..d PROVE SubSeq(buf, c + 1, d) = SubSeq(bytes, (o + c) + 1, o + d)
  <2>1. d \in 0..t - o
    BY <1>4
  <2>2. Between(Between(bytes, o, t), c, d) = Between(bytes, o + c, o + d)
    BY <1>2, <2>1, BetweenBetween
  <2>. QED
    BY <1>3, <2>2, Zenon DEF Between
<1>9. CASE l < 2
  <2>1. Incomplete(buf)
    BY <1>4, <1>9 DEF Incomplete
  <2>2. pop = [code |-> "MORE", rest |-> buf]
    BY <1>5, <1>6, <2>1, Zenon DEF PopsAs
  <2>3. pop.code = "MORE" /\ pop.rest = buf /\ t < o + Size(it)
    BY <1>1, <1>2, <1>4, <1>9, <2>2
  <2>. QED
    BY <1>3, <1>5, <2>3, Zenon DEF ItemPops
<1>10. CASE l >= 2
  <2>1. HeaderIn(buf) = HeaderOf(it) /\ o + 2 <= t
    <3>1. 2 \in 0..l /\ 0 \in 0..2 /\ (o + 0) + 1 = o + 1 /\ 0 + 1 = 1 /\ o + 2 <= t
      BY <1>4, <1>10
    <3>2. SubSeq(buf, 0 + 1, 2) = SubSeq(bytes, (o + 0) + 1, o + 2)
      BY <1>8, <3>1
    <3>. QED
      BY <1>7, <3>1, <3>2, Zenon DEF HeaderIn
  <2>2. CASE DecodeHeader(HeaderOf(it)) # "OK"
    <3>1. Refused(buf)
      BY <1>4, <1>10, <2>1, <2>2, Zenon DEF Refused
    <3>2. PICK code : code = DecodeHeader(HeaderOf(it))
      OBVIOUS
    <3>3. pop = [code |-> code, rest |-> buf]
      BY <1>5, <1>6, <2>1, <3>1, <3>2, Zenon DEF PopsAs
    <3>4. pop.code = code
      BY <3>3
    <3>5. FirstFault(it.faults, code)
      BY <2>2, <3>2, HeaderVerdict
    <3>6. code \in Fault
      BY <3>5, FirstFaultIsFault
    <3>7. it.faults # {}
      BY <3>5 DEF FirstFault
    <3>. QED
      BY <1>3, <1>5, <2>1, <2>2, <3>4, <3>6, <3>7, Zenon DEF ItemPops
  <2>3. CASE DecodeHeader(HeaderOf(it)) = "OK"
    <3>1. Passes(buf) /\ LengthIn(buf) = n
      <4>1. DeclaredLength(HeaderOf(it)) = n
        BY <1>1, <2>3, HeaderVerdict
      <4>. QED
        BY <1>4, <1>10, <2>1, <2>3, <4>1, Zenon DEF Passes, LengthIn
    <3>2. CASE l < 3 + n
      <4>1. Incomplete(buf)
        BY <1>4, <3>1, <3>2, Zenon DEF Incomplete
      <4>2. pop = [code |-> "MORE", rest |-> buf]
        BY <1>5, <1>6, <4>1, Zenon DEF PopsAs
      <4>3. pop.code = "MORE" /\ pop.rest = buf
        BY <4>2
      <4>4. t < o + Size(it)
        BY <1>1, <1>2, <1>4, <3>2
      <4>. QED
        BY <1>3, <1>5, <4>3, <4>4, Zenon DEF ItemPops
    <3>3. CASE l >= 3 + n
      <4>1. Complete(buf)
        BY <1>4, <3>1, <3>3, Zenon DEF Complete
      <4>2. BodyIn(buf) = Body(it)
        <5>1. 2 + n \in 0..l /\ 2 \in 0..2 + n /\ 2 + 1 = 3 /\ o + (2 + n) = (o + 2) + n
          BY <3>3
        <5>2. SubSeq(buf, 2 + 1, 2 + n) = SubSeq(bytes, (o + 2) + 1, o + (2 + n))
          BY <1>8, <5>1
        <5>. QED
          BY <1>7, <3>1, <5>1, <5>2, Zenon DEF BodyIn
      <4>3. MacIn(buf) = Mac(it)
        <5>1. /\ 3 + n \in 0..l /\ 2 + n \in 0..3 + n /\ (2 + n) + 1 = 3 + n
              /\ o + (2 + n) = o + 2 + n /\ o + (3 + n) = o + 2 + n + 1
          BY <3>3
        <5>2. SubSeq(buf, (2 + n) + 1, 3 + n) = SubSeq(bytes, (o + (2 + n)) + 1, o + (3 + n))
          BY <1>8, <5>1
        <5>. QED
          BY <1>7, <3>1, <5>1, <5>2, Zenon DEF MacIn
      <4>4. RestIn(buf) = Between(bytes, o + Size(it), t)
        <5>1. l \in 0..l /\ 3 + n \in 0..l /\ (3 + n) + 1 = 4 + n /\ o + l = t
          BY <1>4, <3>3
        <5>2. SubSeq(buf, (3 + n) + 1, l) = SubSeq(bytes, (o + (3 + n)) + 1, o + l)
          BY <1>8, <5>1
        <5>. QED
          BY <1>1, <1>4, <3>1, <5>1, <5>2, Zenon DEF RestIn, Between
      <4>5. o + Size(it) <= t
        BY <1>1, <1>4, <3>3
      <4>6. PICK code, rest, frame : /\ code = DecodeFrame(HeaderOf(it), Body(it), Mac(it), FALSE)
                                     /\ rest = RestIn(buf) /\ frame = FrameOf(HeaderOf(it), Body(it))
        OBVIOUS
      <4>7. pop = [code |-> code, rest |-> rest, frame |-> frame]
        BY <1>5, <1>6, <2>1, <4>1, <4>2, <4>3, <4>6, Zenon DEF PopsAs, VerdictOn
      <4>8. pop.code = code /\ pop.rest = rest /\ pop.frame = frame
        BY <4>7
      <4>9. CASE code # "OK"
        BY <1>3, <1>5, <2>3, <4>5, <4>6, <4>8, <4>9, UnkeyedVerdict, Zenon DEF ItemPops
      <4>10. CASE code = "OK"
        <5>1. frame = Written(it)
          <6>1. HeaderOf(it)[1].of = it /\ HeaderOf(it)[2].of = it
            BY DEF HeaderOf
          <6>. QED
            BY <4>6, <6>1, WrittenIs, Zenon DEF FrameOf
        <5>. QED
          BY <1>3, <1>5, <4>4, <4>5, <4>6, <4>8, <4>10, <5>1, Zenon DEF ItemPops
      <4>. QED
        BY <4>9, <4>10
    <3>. QED
      BY <1>1, <1>4, <3>2, <3>3
  <2>. QED
    BY <2>2, <2>3
<1>. QED
  BY <1>4, <1>9, <1>10

\* Where the k-th item of a stream ends.
Ends(w, k) == Len(Before(w, k))

LEMMA EndsAre ==
  ASSUME NEW w \in Seq(Items)
  PROVE  /\ Ends(w, 0) = 0 /\ Before(w, Len(w)) \in Seq(Byte)
         /\ \A k \in 0..Len(w) : Ends(w, k) \in Nat
         /\ \A k \in 0..Len(w) : \A m \in k..Len(w) : Ends(w, k) <= Ends(w, m)
         /\ \A k \in 0..Len(w) - 1 :
              /\ w[k + 1] \in Items /\ Ends(w, k + 1) = Ends(w, k) + Size(w[k + 1])
              /\ HasChunk(Before(w, Len(w)), Ends(w, k), Encode(w[k + 1]))
<1>0. PICK l \in Nat : l = Len(w)
  BY LenProperties
<1>1. PICK q : q = [i \in 1..Len(w) |-> Encode(w[i])]
  OBVIOUS
<1>2. /\ q \in Seq(Seq(Byte)) /\ Len(q) = l
      /\ \A i \in 0..l : Before(w, i) = First(q, i)
  BY <1>0, <1>1, BeforeFirst, Zenon
<1>3. Ends(w, 0) = 0 /\ Before(w, l) \in Seq(Byte)
  <2>1. Before(w, 0) = << >> /\ Before(w, Len(w)) \in Seq(Byte)
    BY BeforeEnds
  <2>. QED
    BY <1>0, <2>1 DEF Ends
<1>4. ASSUME NEW k \in 0..l PROVE Ends(w, k) \in Nat
  <2>1. First(q, k) \in Seq(Byte)
    BY <1>2, FirstIs
  <2>2. Before(w, k) \in Seq(Byte)
    BY <1>2, <2>1
  <2>. QED
    BY <2>2, LenProperties DEF Ends
<1>5. ASSUME NEW k \in 0..l, NEW m \in k..l PROVE Ends(w, k) <= Ends(w, m)
  <2>1. k \in 0..Len(q) /\ m \in k..Len(q) /\ m \in 0..l
    BY <1>2
  <2>2. Len(First(q, k)) <= Len(First(q, m))
    BY <1>2, <2>1, FirstPrefix
  <2>. QED
    BY <1>2, <2>1, <2>2, Zenon DEF Ends
<1>6. ASSUME NEW k \in 0..l - 1
      PROVE  /\ w[k + 1] \in Items /\ Ends(w, k + 1) = Ends(w, k) + Size(w[k + 1])
             /\ HasChunk(Before(w, l), Ends(w, k), Encode(w[k + 1]))
  <2>1. PICK o, it, bytes : o = Len(Before(w, k)) /\ it = w[k + 1] /\ bytes = Before(w, Len(w))
    OBVIOUS
  <2>2. /\ it \in Items /\ Len(Before(w, k + 1)) = o + Size(it)
        /\ HasChunk(bytes, o, Encode(it))
    BY <1>0, <2>1, BytesAt
  <2>. QED
    BY <1>0, <2>1, <2>2, Zenon DEF Ends
<1>. QED
  BY <1>0, <1>3, <1>4, <1>5, <1>6, Zenon

\* Of the first t bytes nothing is left but the beginning of item k + 1.
Stops(w, k, t, kept) ==
  kept = Between(Before(w, Len(w)), Ends(w, k), t) /\ ~(k < Len(w) /\ Ends(w, k + 1) <= t)

\* Item k + 1 has a fault, and among the first t bytes it shows.
Fails(w, k, t) ==
  /\ k < Len(w) /\ w[k + 1].faults # {}
  /\ \/ Ends(w, k + 1) <= t
     \/ Ends(w, k) + 2 <= t /\ DecodeHeader(HeaderOf(w[k + 1])) # "OK"

Begin(w, m, k, frames) == k <= Len(frames) /\ \A i \in 1..k : frames[i] = Written(w[m + i])

\* Of the bytes up to t, from item m + 1 on, a reader without a key has made
\* frames: all items up to some k, where it waits or has failed.
OutFrom(w, m, t, frames, kept) ==
  /\ frames \in Seq(Frame)
  /\ \E k \in m..Len(w) :
       /\ Ends(w, k) <= t /\ Begin(w, m, k - m, frames)
       /\ (Len(frames) = k - m /\ Stops(w, k, t, kept)) \/ Fails(w, k, t)

LEMMA OutJoin ==
  ASSUME NEW w \in Seq(Items), NEW j \in 0..Len(w), NEW m \in j..Len(w),
         NEW frames \in Seq(Frame), Len(frames) = m - j, Begin(w, j, m - j, frames),
         NEW t, NEW more, NEW kept, OutFrom(w, m, t, more, kept)
  PROVE  OutFrom(w, j, t, frames \o more, kept)
<1>0. PICK l \in Nat : l = Len(w)
  BY LenProperties
<1>1. more \in Seq(Frame)
  BY Zenon DEF OutFrom
<1>2. PICK k \in m..l : /\ Ends(w, k) <= t /\ Begin(w, m, k - m, more)
                        /\ (Len(more) = k - m /\ Stops(w, k, t, kept)) \/ Fails(w, k, t)
  BY <1>0, Zenon DEF OutFrom
<1>3. PICK n \in Nat : n = Len(more)
  BY <1>1, LenProperties
<1>4. PICK fs : fs = frames \o more
  OBVIOUS
<1>5. /\ fs \in Seq(Frame) /\ Len(fs) = (m - j) + n
      /\ \A i \in 1..m - j : fs[i] = frames[i]
      /\ \A i \in 1..n : fs[(m - j) + i] = more[i]
  <2>1. /\ fs \in Seq(Frame) /\ Len(fs) = Len(frames) + Len(more)
        /\ \A i \in 1..Len(frames) : fs[i] = frames[i]
        /\ \A i \in 1..Len(more) : fs[Len(frames) + i] = more[i]
    <3>1. /\ frames \o more \in Seq(Frame) /\ Len(frames \o more) = Len(frames) + Len(more)
          /\ \A i \in 1..Len(frames) : (frames \o more)[i] = frames[i]
          /\ \A i \in 1..Len(more) : (frames \o more)[Len(frames) + i] = more[i]
      <4>1. PICK x \in Seq(Frame), y \in Seq(Frame) : x = frames /\ y = more
        BY <1>1
      <4>2. /\ x \o y \in Seq(Frame) /\ Len(x \o y) = Len(x) + Len(y)
            /\ \A i \in 1..Len(x) : (x \o y)[i] = x[i]
            /\ \A i \in 1..Len(y) : (x \o y)[Len(x) + i] = y[i]
        BY ConcatIs
      <4>. QED
        BY <4>1, <4>2, Zenon
    <3>. QED
      BY <1>4, <3>1, Zenon
  <2>. QED
    BY <1>3, <2>1, Zenon
<1>6. k - m <= n /\ \A i \in 1..k - m : more[i] = Written(w[m + i])
  BY <1>2, <1>3, Zenon DEF Begin
<1>7. \A i \in 1..m - j : frames[i] = Written(w[j + i])
  BY Zenon DEF Begin
<1>8. ASSUME NEW i \in 1..k - j PROVE fs[i] = Written(w[j + i])
  <2>1. CASE i \in 1..m - j
    BY <1>5, <1>7, <2>1, Zenon
  <2>2. CASE i \notin 1..m - j
    <3>1. i - (m - j) \in 1..k - m /\ i = (m - j) + (i - (m - j)) /\ j + i = m + (i - (m - j))
      BY <1>0, <2>2
    <3>2. PICK h \in 1..k - m : i = (m - j) + h /\ j + i = m + h
      BY <3>1, Zenon
    <3>3. h \in 1..n
      BY <1>6
    <3>. QED
      BY <1>5, <1>6, <3>2, <3>3, Zenon
  <2>. QED
    BY <2>1, <2>2
<1>9. k \in j..Len(w) /\ k - j <= Len(fs) /\ (n = k - m => Len(fs) = k - j)
  BY <1>0, <1>5, <1>6
<1>10. Begin(w, j, k - j, fs)
  BY <1>8, <1>9, Zenon DEF Begin
<1>11. (Len(fs) = k - j /\ Stops(w, k, t, kept)) \/ Fails(w, k, t)
  BY <1>2, <1>3, <1>9, Zenon
<1>. QED
  BY <1>2, <1>4, <1>5, <1>9, <1>10, <1>11, Zenon DEF OutFrom

\* A drain of a stream makes frames of the items that are there.
LEMMA DrainItems ==
  ASSUME NEW w \in Seq(Items), NEW m \in 0..Len(w), NEW t \in Ends(w, m)..Ends(w, Len(w))
  PROVE  LET drained == Drain(Between(Before(w, Len(w)), Ends(w, m), t), FALSE)
         IN  OutFrom(w, m, t, drained.frames, KeptOf(drained))
<1>0. PICK l \in Nat : l = Len(w)
  BY LenProperties
<1>1. PICK bytes \in Seq(Byte) : bytes = Before(w, l)
  BY <1>0, EndsAre
<1>2. PICK lb \in Nat : lb = Len(bytes) /\ lb = Ends(w, l)
  BY <1>0, <1>1, LenProperties DEF Ends
<1>e. /\ \A k \in 0..l : Ends(w, k) \in Nat
      /\ \A k \in 0..l - 1 : /\ w[k + 1] \in Items /\ Ends(w, k + 1) = Ends(w, k) + Size(w[k + 1])
                             /\ HasChunk(bytes, Ends(w, k), Encode(w[k + 1]))
  BY <1>0, <1>1, EndsAre, Zenon
<1>. DEFINE D(k, x) == Drain(Between(bytes, Ends(w, k), x), FALSE)
            P(n) == \A k \in 0..l : l - k <= n =>
                      \A x \in Ends(w, k)..lb : OutFrom(w, k, x, D(k, x).frames, KeptOf(D(k, x)))
            T == {n \in Nat : P(n)}
\* A drain that ends with its first pop.
<1>3. ASSUME NEW k \in 0..l, NEW x \in Ends(w, k)..lb, NEW buf, buf = Between(bytes, Ends(w, k), x),
             Pop(buf, FALSE).code # "OK",
             \/ Fails(w, k, x)
             \/ Pop(buf, FALSE).code = "MORE" /\ Pop(buf, FALSE).rest = buf /\ ~(k < l /\ Ends(w, k + 1) <= x)
      PROVE  OutFrom(w, k, x, D(k, x).frames, KeptOf(D(k, x)))
  <2>0. buf \in Seq(Byte)
    <3>1. Ends(w, k) \in Nat
      BY <1>e
    <3>2. x \in 0..Len(bytes) /\ Ends(w, k) \in 0..x
      BY <1>2, <3>1
    <3>. QED
      BY <1>3, <3>2, BetweenIs
  <2>1. PICK pop : pop = Pop(buf, FALSE)
    OBVIOUS
  <2>2. PICK d : d = D(k, x) /\ d = Outcome(pop, Drain(pop.rest, FALSE))
    BY <1>3, <2>0, <2>1, DrainUnfolds, Zenon
  <2>3. d = [code |-> pop.code, frames |-> << >>, rest |-> pop.rest]
    BY <1>3, <2>1, <2>2, Zenon DEF Outcome
  <2>4. d.code = pop.code /\ d.frames = << >> /\ d.rest = pop.rest
    BY <2>3
  <2>5. << >> \in Seq(Frame) /\ Len(<< >>) = 0 /\ k - k = 0 /\ k \in k..l /\ 0 <= 0 /\ 1..0 = {}
    BY <1>0
  <2>6. Begin(w, k, k - k, << >>) /\ Ends(w, k) <= x
    <3>1. Ends(w, k) <= x
      BY <1>e
    <3>. QED
      BY <2>5, <3>1, Zenon DEF Begin
  <2>7. Stops(w, k, x, KeptOf(d)) \/ Fails(w, k, x)
    BY <1>0, <1>1, <1>3, <2>1, <2>4, Zenon DEF Stops, KeptOf
  <2>. QED
    BY <1>0, <2>2, <2>4, <2>5, <2>6, <2>7, Zenon DEF OutFrom
\* At the end of the stream.
<1>4. P(0)
  <2>. SUFFICES ASSUME NEW k \in 0..l, l - k <= 0, NEW x \in Ends(w, k)..lb
                PROVE  OutFrom(w, k, x, D(k, x).frames, KeptOf(D(k, x)))
    OBVIOUS
  <2>1. k = l /\ ~(k < l)
    OBVIOUS
  <2>2. x = lb /\ Ends(w, k) = lb /\ lb \in 0..Len(bytes) /\ lb \in 0..lb /\ lb - lb = 0
    BY <1>2, <2>1
  <2>3. PICK buf : buf = Between(bytes, Ends(w, k), x)
    OBVIOUS
  <2>4. buf \in Seq(Byte) /\ Len(buf) = 0
    BY <2>2, <2>3, BetweenIs
  <2>5. Pop(buf, FALSE) = [code |-> "MORE", rest |-> buf]
    <3>1. Incomplete(buf)
      BY <2>4 DEF Incomplete
    <3>2. PopsAs(buf, FALSE)
      BY <2>4, PopCases
    <3>. QED
      BY <3>1, <3>2, Zenon DEF PopsAs
  <2>6. Pop(buf, FALSE).code = "MORE" /\ Pop(buf, FALSE).rest = buf
    <3>1. [code |-> "MORE", rest |-> buf].code = "MORE" /\ [code |-> "MORE", rest |-> buf].rest = buf
      OBVIOUS
    <3>. QED
      BY <2>5, <3>1, Zenon
  <2>7. Pop(buf, FALSE).code # "OK"
    BY <2>6
  <2>. QED
    BY <1>3, <2>1, <2>3, <2>6, <2>7
<1>5. ASSUME NEW n \in Nat, P(n) PROVE P(n + 1)
  <2>. SUFFICES ASSUME NEW k \in 0..l, l - k <= n + 1, NEW x \in Ends(w, k)..lb
                PROVE  OutFrom(w, k, x, D(k, x).frames, KeptOf(D(k, x)))
    OBVIOUS
  <2>1. CASE l - k <= n
    BY <1>5, <2>1
  <2>2. CASE ~(l - k <= n)
    <3>1. k \in 0..l - 1 /\ k + 1 \in 0..l /\ l - (k + 1) <= n /\ k < l
      BY <2>2
    <3>2. PICK it \in Items, o \in Nat : /\ it = w[k + 1] /\ o = Ends(w, k) /\ Ends(w, k + 1) = o + Size(it)
                                        /\ HasChunk(bytes, o, Encode(it))
      BY <1>e, <3>1
    <3>3. PICK buf, pop : buf = Between(bytes, o, x) /\ pop = Pop(buf, FALSE)
      OBVIOUS
    <3>4. x \in o..Len(bytes)
      BY <1>2, <3>2
    <3>5. ItemPops(bytes, o, x, it)
      BY <3>2, <3>4, ItemPop
    <3>6. \/ x < o + Size(it) /\ pop.code = "MORE" /\ pop.rest = buf
          \/ /\ it.faults # {} /\ pop.code \in Fault
             /\ o + Size(it) <= x \/ (o + 2 <= x /\ DecodeHeader(HeaderOf(it)) # "OK")
          \/ /\ o + Size(it) <= x /\ pop.code = "OK" /\ pop.frame = Written(it)
             /\ pop.rest = Between(bytes, o + Size(it), x)
      BY <3>3, <3>5, Zenon DEF ItemPops
    <3>7. CASE x < o + Size(it) /\ pop.code = "MORE" /\ pop.rest = buf
      <4>1. ~(Ends(w, k + 1) <= x) /\ pop.code # "OK"
        <5>1. Ends(w, k + 1) \in Nat
          BY <1>e, <3>1
        <5>2. x \in Nat
          BY <3>4
        <5>. QED
          BY <3>2, <3>7, <5>1, <5>2
      <4>. QED
        BY <1>3, <3>2, <3>3, <3>7, <4>1, Zenon
    <3>8. CASE /\ it.faults # {} /\ pop.code \in Fault
               /\ o + Size(it) <= x \/ (o + 2 <= x /\ DecodeHeader(HeaderOf(it)) # "OK")
      <4>1. pop.code # "OK"
        BY <3>8 DEF Fault
      <4>2. Fails(w, k, x)
        BY <1>0, <3>1, <3>2, <3>8, Zenon DEF Fails
      <4>. QED
        BY <1>3, <3>2, <3>3, <4>1, <4>2, Zenon
    <3>9. CASE /\ o + Size(it) <= x /\ pop.code = "OK" /\ pop.frame = Written(it)
               /\ pop.rest = Between(bytes, o + Size(it), x)
      <4>1. buf \in Seq(Byte)
        <5>1. x \in 0..Len(bytes) /\ o \in 0..x
          BY <1>2, <3>4
        <5>. QED
          BY <3>3, <5>1, BetweenIs
      <4>2. PICK d, later : d = D(k, x) /\ later = D(k + 1, x) /\ d = Outcome(pop, later)
        BY <3>2, <3>3, <3>9, <4>1, DrainUnfolds, Zenon
      <4>3. d = [code |-> later.code, frames |-> <<pop.frame>> \o later.frames, rest |-> later.rest]
        BY <3>9, <4>2, Zenon DEF Outcome
      <4>4. d.code = later.code /\ d.frames = <<pop.frame>> \o later.frames /\ d.rest = later.rest
        BY <4>3
      <4>5. KeptOf(d) = KeptOf(later)
        BY <4>4, Zenon DEF KeptOf
      <4>6. x \in Ends(w, k + 1)..lb
        <5>1. Ends(w, k + 1) \in Nat /\ x \in Nat /\ x <= lb
          BY <1>2, <1>e, <3>1, <3>4
        <5>. QED
          BY <3>2, <3>9, <5>1
      <4>7. OutFrom(w, k + 1, x, later.frames, KeptOf(later))
        BY <1>5, <3>1, <4>2, <4>6
      <4>8. PICK frame \in Frame : frame = pop.frame /\ frame = Written(w[k + 1])
        BY <3>2, <3>9, WrittenIs, Zenon
      <4>9. <<frame>> \in Seq(Frame) /\ Len(<<frame>>) = (k + 1) - k /\ <<frame>>[1] = frame
        OBVIOUS
      <4>10. Begin(w, k, (k + 1) - k, <<frame>>)
        <5>1. (k + 1) - k = 1 /\ 1 <= 1 /\ Len(<<frame>>) = 1 /\ \A i \in 1..1 : i = 1
          BY <4>9
        <5>. QED
          BY <4>8, <4>9, <5>1, Zenon DEF Begin
      <4>11. k + 1 \in k..Len(w) /\ k \in 0..Len(w) /\ k + 1 \in 0..Len(w)
        BY <1>0, <3>1
      <4>12. OutFrom(w, k, x, <<frame>> \o later.frames, KeptOf(later))
        BY <4>7, <4>9, <4>10, <4>11, OutJoin, Zenon
      <4>. QED
        BY <4>2, <4>4, <4>5, <4>8, <4>12, Zenon
    <3>. QED
      BY <3>6, <3>7, <3>8, <3>9
  <2>. QED
    BY <2>1, <2>2
<1>. HIDE DEF P, D
<1>6. T = Nat
  <2>1. T \in SUBSET Nat /\ 0 \in T /\ \A i \in T : i + 1 \in T
    BY <1>4, <1>5
  <2>. HIDE DEF T
  <2>. QED
    BY <2>1, Induction
<1>7. P(l - m) /\ m \in 0..l
  <2>1. l - m \in Nat /\ m \in 0..l
    BY <1>0
  <2>. QED
    BY <1>6, <2>1
<1>8. l - m <= l - m /\ t \in Ends(w, m)..lb
  BY <1>0, <1>2
<1>. QED
  BY <1>0, <1>1, <1>7, <1>8, Zenon DEF P, D

\* More of the stream.
LEMMA OutGrows ==
  ASSUME NEW w \in Seq(Items), NEW t \in 0..Ends(w, Len(w)), NEW u \in t..Ends(w, Len(w)),
         NEW frames, NEW kept \in Seq(Byte), OutFrom(w, 0, t, frames, kept),
         NEW drained, drained = Drain(kept \o Between(Before(w, Len(w)), t, u), FALSE)
  PROVE  OutFrom(w, 0, u, frames \o drained.frames, KeptOf(drained))
<1>0. PICK l \in Nat : l = Len(w)
  BY LenProperties
<1>1. PICK bytes \in Seq(Byte) : bytes = Before(w, l)
  BY <1>0, EndsAre
<1>2. PICK lb \in Nat : lb = Len(bytes) /\ lb = Ends(w, l)
  BY <1>0, <1>1, LenProperties DEF Ends
<1>3. t \in 0..lb /\ u \in t..lb /\ u \in 0..lb /\ u \in 0..Len(bytes) /\ t \in 0..u /\ t <= u
  BY <1>0, <1>2
<1>4. frames \in Seq(Frame)
  BY Zenon DEF OutFrom
<1>5. PICK k \in 0..l : /\ Ends(w, k) <= t /\ Begin(w, 0, k - 0, frames)
                        /\ (Len(frames) = k - 0 /\ Stops(w, k, t, kept)) \/ Fails(w, k, t)
  BY <1>0, Zenon DEF OutFrom
<1>6. k - 0 = k /\ Ends(w, k) \in Nat /\ Ends(w, k) <= u /\ Ends(w, k) \in 0..t
  <2>1. Ends(w, k) \in Nat
    BY <1>0, EndsAre
  <2>. QED
    BY <1>3, <1>5, <2>1
<1>7. CASE Len(frames) = k - 0 /\ Stops(w, k, t, kept)
  <2>1. kept = Between(bytes, Ends(w, k), t)
    BY <1>0, <1>1, <1>7, Zenon DEF Stops
  <2>2. kept \o Between(bytes, t, u) = Between(bytes, Ends(w, k), u)
    BY <1>3, <1>6, <2>1, BetweenJoins
  <2>3. k \in 0..Len(w) /\ u \in Ends(w, k)..Ends(w, Len(w)) /\ 0 \in 0..Len(w) /\ k \in 0..Len(w)
    BY <1>0, <1>2, <1>3, <1>6
  <2>4. drained = Drain(Between(Before(w, Len(w)), Ends(w, k), u), FALSE)
    BY <1>0, <1>1, <2>2, Zenon
  <2>5. OutFrom(w, k, u, drained.frames, KeptOf(drained))
    BY <2>3, <2>4, DrainItems, Zenon
  <2>6. Len(frames) = k - 0 /\ Begin(w, 0, k - 0, frames)
    BY <1>5, <1>7
  <2>. QED
    BY <1>4, <2>3, <2>5, <2>6, OutJoin, Zenon
<1>8. CASE Fails(w, k, t)
  <2>1. drained \in Drained(Byte)
    <3>1. Between(bytes, t, u) \in Seq(Byte)
      BY <1>3, BetweenIs
    <3>2. kept \o Between(bytes, t, u) \in Seq(Byte)
      BY <3>1, ConcatProperties
    <3>. QED
      BY <1>0, <1>1, <3>2, DrainUnfolds, Zenon
  <2>2. PICK more \in Seq(Frame) : more = drained.frames
    BY <2>1 DEF Drained
  <2>3. PICK a \in Seq(Frame), b \in Seq(Frame) : a = frames /\ b = more
    BY <1>4
  <2>4. /\ a \o b \in Seq(Frame) /\ Len(a) \in Nat /\ Len(b) \in Nat /\ Len(a \o b) = Len(a) + Len(b)
        /\ \A i \in 1..Len(a) : (a \o b)[i] = a[i]
    BY ConcatIs
  <2>5. k <= Len(a) /\ \A i \in 1..k : a[i] = Written(w[0 + i])
    BY <1>5, <1>6, <2>3, Zenon DEF Begin
  <2>6. k <= Len(a \o b) /\ \A i \in 1..k : i \in 1..Len(a)
    BY <2>4, <2>5
  <2>7. Begin(w, 0, k - 0, a \o b)
    BY <1>6, <2>4, <2>5, <2>6, Zenon DEF Begin
  <2>8. Fails(w, k, u)
    <3>1. k < l /\ w[k + 1].faults # {}
      BY <1>0, <1>8, Zenon DEF Fails
    <3>2. Ends(w, k + 1) \in Nat
      <4>1. k + 1 \in 0..Len(w)
        BY <1>0, <3>1
      <4>. QED
        BY <4>1, EndsAre
    <3>3. PICK x \in Nat, y \in Nat : x = Ends(w, k + 1) /\ y = Ends(w, k)
      BY <1>6, <3>2
    <3>4. x <= t \/ (y + 2 <= t /\ DecodeHeader(HeaderOf(w[k + 1])) # "OK")
      BY <1>8, <3>3, Zenon DEF Fails
    <3>5. (x <= t => x <= u) /\ (y + 2 <= t => y + 2 <= u)
      BY <1>3
    <3>. QED
      BY <1>0, <3>1, <3>3, <3>4, <3>5, Zenon DEF Fails
  <2>. QED
    BY <1>0, <1>6, <2>2, <2>3, <2>4, <2>7, <2>8, Zenon DEF OutFrom
<1>. QED
  BY <1>5, <1>7, <1>8

\* Of a capture that misses nothing, the rows have the payloads.
LEMMA IntactRow ==
  ASSUME CaptureInv, NEW f \in Flow, Intact(f), NEW i \in 1..Len(seen), seen[i].flow = f
  PROVE  Rows[i].flow = f /\ Rows[i].l4 # "none" /\ Rows[i].payload = Payload(seen[i])
<1>1. PICK s : s = seen[i]
  OBVIOUS
<1>2. s \in ToSet(seen) /\ s.flow = f
  <2>1. i \in DOMAIN seen
    BY DEF CaptureInv
  <2>. QED
    BY <1>1, <2>1 DEF ToSet
<1>3. Shape(s).l4 # "none" /\ (Shape(s).pad > 0 => Shape(s).declares)
  BY <1>2, Zenon DEF Intact
<1>4. Payload(s) \in Seq(Byte) /\ Shape(s).pad \in Nat /\ Shape(s).declares \in BOOLEAN
  BY <1>1, PayloadIs, ShapeIs
<1>5. PayloadOf(s) = Payload(s)
  <2>1. CASE Shape(s).declares
    BY <1>3, <2>1, Zenon DEF PayloadOf
  <2>2. CASE ~Shape(s).declares
    <3>1. Shape(s).pad = 0
      BY <1>3, <1>4, <2>2
    <3>2. [k \in 1..0 |-> Padding] = << >>
      OBVIOUS
    <3>3. Payload(s) \o << >> = Payload(s)
      BY <1>4, ConcatEmptySeq
    <3>. QED
      BY <1>3, <2>2, <3>1, <3>2, <3>3, Zenon DEF PayloadOf
  <2>. QED
    BY <2>1, <2>2
<1>. QED
  BY <1>1, <1>3, <1>5, RowIs, Zenon

\* Of a capture that misses nothing the analyser has made what there is to make.
LEMMA IntactOut ==
  ASSUME CaptureInv, NEW f \in Flow, Intact(f)
  PROVE  /\ OutFrom(wire[f], 0, Sent(f), Found.frames[f], Found.buffers[f])
         /\ Sent(f) \in 0..Ends(wire[f], Len(wire[f]))
<1>1. PICK n \in Nat : n = Len(seen) /\ DOMAIN seen = 1..n
  BY LenProperties DEF CaptureInv
<1>2. PICK w \in Seq(Items) : w = wire[f] /\ Bytes(f) = Before(w, Len(w))
  BY BytesIs DEF CaptureInv
<1>3. PICK bytes \in Seq(Byte) : bytes = Before(w, Len(w)) /\ bytes = Bytes(f)
  BY <1>2, EndsAre
<1>4. PICK lb \in Nat : lb = Len(bytes) /\ lb = Ends(w, Len(w))
  BY <1>3, LenProperties DEF Ends
<1>5. PICK rows \in Seq(Row) : rows = Rows /\ Len(rows) = n
  BY <1>1, RowsAre
<1>6. PICK g \in [0..n -> Flows] : Feeds(rows, g) /\ Found = g[n]
  <2>1. PICK g \in [0..Len(rows) -> Flows] : Feeds(rows, g) /\ Reassemble(rows) = g[Len(rows)]
    BY ReassembleIs
  <2>. QED
    BY <1>5, <2>1, Zenon DEF Found
<1>7. PICK u : u = [i \in 1..n |-> IF seen[i].flow = f /\ seen[i] # Empty(f) THEN <<seen[i]>> ELSE << >>]
  OBVIOUS
<1>8. /\ u \in Seq(Seq(Segment)) /\ Len(u) = n /\ segments[f] = FlattenSeq(u)
      /\ \A i \in 1..n : u[i] = IF seen[i].flow = f /\ seen[i] # Empty(f) THEN <<seen[i]>> ELSE << >>
  <2>1. ASSUME NEW i \in 1..n
        PROVE  (IF seen[i].flow = f /\ seen[i] # Empty(f) THEN <<seen[i]>> ELSE << >>) \in Seq(Segment)
    <3>1. seen[i] \in Segment
      BY <1>1, SeenIs
    <3>. QED
      BY <3>1
  <2>2. u \in [1..n -> Seq(Segment)]
    BY <1>7, <2>1
  <2>3. u \in Seq(Seq(Segment)) /\ Len(u) = n
    BY <2>2
  <2>4. segments[f] = FlattenSeq(u)
    BY <1>1, <1>7, Zenon DEF SeenOf, Intact
  <2>. QED
    BY <1>7, <2>3, <2>4
<1>9. PICK segs \in Seq(Segment) : segs = segments[f] /\ Cut(f, segs, lb)
  BY <1>3, <1>4 DEF CaptureInv
<1>10. /\ First(u, 0) = << >> /\ First(u, n) = segs
       /\ \A i \in 0..n : First(u, i) \in Seq(Segment)
       /\ \A i \in 0..n - 1 : First(u, i + 1) = First(u, i) \o u[i + 1]
  BY <1>8, <1>9, FirstIs
<1>. DEFINE P(i) == i <= n => /\ Cuts(First(u, i)) \in 0..lb
                              /\ OutFrom(w, 0, Cuts(First(u, i)), g[i].frames[f], g[i].buffers[f])
            T == {i \in Nat : P(i)}
<1>11. P(0)
  <2>1. g[0] = Fresh
    BY <1>6, Zenon DEF Feeds
  <2>2. g[0].frames[f] = << >> /\ g[0].buffers[f] = << >>
    BY <2>1 DEF Fresh
  <2>3. Cuts(First(u, 0)) = 0 /\ 0 \in 0..lb
    BY <1>10 DEF Cuts
  <2>4. << >> \in Seq(Frame) /\ Len(<< >>) = 0 /\ 1..0 = {} /\ 0 - 0 = 0 /\ 0 <= 0 /\ 0 \in 0..Len(w)
    BY LenProperties
  <2>5. Ends(w, 0) = 0 /\ \A k \in 0..Len(w) - 1 : /\ w[k + 1] \in Items
                                                  /\ Ends(w, k + 1) = Ends(w, k) + Size(w[k + 1])
    BY EndsAre, Zenon
  <2>6. ~(0 < Len(w) /\ Ends(w, 0 + 1) <= 0)
    <3>. SUFFICES ASSUME 0 < Len(w) PROVE ~(Ends(w, 0 + 1) <= 0)
      OBVIOUS
    <3>1. 0 \in 0..Len(w) - 1
      BY LenProperties
    <3>2. w[0 + 1] \in Items /\ Ends(w, 0 + 1) = 0 + Size(w[0 + 1])
      BY <2>5, <3>1
    <3>3. Size(w[0 + 1]) \in Nat \ {0}
      <4>1. w[0 + 1].length \in Nat
        BY <3>2, EncodeIs, MaxPayloadAssumption
      <4>. QED
        BY <4>1 DEF Size, HeaderSize, MacSize
    <3>. QED
      BY <3>2, <3>3
  <2>7. Between(bytes, 0, 0) = << >>
    <3>1. 0 \in 0..Len(bytes) /\ 0 \in 0..0 /\ 0 - 0 = 0
      BY <1>4
    <3>2. Between(bytes, 0, 0) \in Seq(Byte) /\ Len(Between(bytes, 0, 0)) = 0
      BY <3>1, BetweenIs
    <3>. QED
      BY <3>2, EmptySeq
  <2>8. Stops(w, 0, 0, << >>) /\ Begin(w, 0, 0 - 0, << >>)
    BY <1>3, <2>4, <2>5, <2>6, <2>7, Zenon DEF Stops, Begin
  <2>9. OutFrom(w, 0, 0, << >>, << >>)
    BY <2>4, <2>5, <2>8, Zenon DEF OutFrom
  <2>. QED
    BY <2>2, <2>3, <2>9, Zenon
<1>12. ASSUME NEW i \in Nat, P(i) PROVE P(i + 1)
  <2>. SUFFICES ASSUME i + 1 <= n
                PROVE  /\ Cuts(First(u, i + 1)) \in 0..lb
                       /\ OutFrom(w, 0, Cuts(First(u, i + 1)), g[i + 1].frames[f], g[i + 1].buffers[f])
    OBVIOUS
  <2>1. /\ i <= n /\ i \in 0..n /\ i + 1 \in 0..n /\ i + 1 \in 1..n /\ i \in 0..n - 1 /\ (i + 1) - 1 = i
        /\ i + 1 \in 1..Len(seen)
    BY <1>1
  <2>2. PICK row \in Row, acc \in Flows : row = rows[i + 1] /\ acc = g[i] /\ g[i + 1] = Feed(acc, row)
    <3>1. rows[i + 1] \in Row /\ g[i] \in Flows
      BY <1>5, <2>1, ElementOfSeq
    <3>2. g[i + 1] = Feed(g[i], rows[i + 1])
      BY <1>5, <1>6, <2>1, Zenon DEF Feeds
    <3>. QED
      BY <3>1, <3>2
  <2>3. PICK s : /\ s = seen[i + 1] /\ s \in Segment /\ s.flow \in Flow
                 /\ s.first \in Nat \ {0} /\ s.last \in Nat
    BY <2>1, SeenIs, Zenon
  <2>4. row.flow = s.flow /\ (s.flow = f => row.l4 # "none" /\ row.payload = Payload(s))
    BY <1>5, <2>1, <2>2, <2>3, RowIs, IntactRow, Zenon
  <2>5. PICK v \in Seq(Segment) : v = First(u, i) /\ First(u, i + 1) = v \o u[i + 1]
    BY <1>10, <2>1
  <2>6. PICK t \in 0..lb : t = Cuts(v) /\ OutFrom(w, 0, t, acc.frames[f], acc.buffers[f])
    <3>1. Cuts(v) \in 0..lb /\ OutFrom(w, 0, Cuts(v), acc.frames[f], acc.buffers[f])
      BY <1>12, <2>1, <2>2, <2>5, Zenon
    <3>. QED
      BY <3>1, Zenon
  <2>7. u[i + 1] = IF s.flow = f /\ s # Empty(f) THEN <<s>> ELSE << >>
    BY <1>8, <2>1, <2>3, Zenon
  <2>8. CASE ~(s.flow = f /\ s # Empty(f))
    <3>1. First(u, i + 1) = v
      <4>1. u[i + 1] = << >>
        BY <2>7, <2>8, Zenon
      <4>. QED
        BY <2>5, <4>1, ConcatEmptySeq
    <3>2. row.flow # f \/ row.payload = << >>
      <4>. SUFFICES ASSUME s.flow = f PROVE row.payload = << >>
        BY <2>4, Zenon
      <4>1. s.first = 1 /\ s.last = 0
        BY <2>8 DEF Empty
      <4>2. Payload(s) = SubSeq(bytes, 1, 0)
        BY <1>3, <4>1, Zenon DEF Payload
      <4>3. SubSeq(bytes, 1, 0) = << >>
        OBVIOUS
      <4>. QED
        BY <2>4, <4>2, <4>3, Zenon
    <3>3. g[i + 1].buffers[f] = acc.buffers[f] /\ g[i + 1].frames[f] = acc.frames[f]
      <4>1. Feed(acc, row).buffers[f] = acc.buffers[f] /\ Feed(acc, row).frames[f] = acc.frames[f]
        BY <3>2, FeedFlow
      <4>. QED
        BY <2>2, <4>1, Zenon
    <3>. QED
      BY <2>5, <2>6, <3>1, <3>3, Zenon
  <2>9. CASE s.flow = f /\ s # Empty(f)
    <3>1. PICK v2 \in Seq(Segment) : v2 = First(u, i + 1) /\ v2 = Append(v, s)
      <4>1. v \o <<s>> = Append(v, s) /\ Append(v, s) \in Seq(Segment)
        BY <2>3, AppendIsConcat, AppendProperties
      <4>. QED
        BY <2>5, <2>7, <2>9, <4>1, Zenon
    <3>2. PICK m \in Nat : m = Len(v)
      BY LenProperties
    <3>3. Len(v2) = m + 1 /\ v2[m + 1] = s /\ \A k \in 1..m : v2[k] = v[k]
      <4>1. s \in Segment
        BY <2>3, Zenon
      <4>2. /\ Len(Append(v, s)) = Len(v) + 1 /\ Append(v, s)[Len(v) + 1] = s
            /\ \A k \in 1..Len(v) : Append(v, s)[k] = v[k]
        BY <4>1, AppendProperties
      <4>. QED
        BY <3>1, <3>2, <4>2, Zenon
    <3>4. Len(v2) <= Len(segs) /\ \A k \in 1..Len(v2) : segs[k] = v2[k]
      <4>1. i + 1 \in 0..Len(u) /\ n \in (i + 1)..Len(u)
        BY <1>8, <2>1
      <4>2. /\ Len(First(u, i + 1)) <= Len(First(u, n))
            /\ \A k \in 1..Len(First(u, i + 1)) : First(u, n)[k] = First(u, i + 1)[k]
        BY <1>8, <4>1, FirstPrefix
      <4>. QED
        BY <1>10, <3>1, <4>2, Zenon
    <3>5. PICK k \in 1..Len(segs) : k = m + 1 /\ segs[k] = s /\ \A h \in 1..m : segs[h] = v[h]
      <4>1. Len(segs) \in Nat /\ m + 1 \in 1..Len(segs) /\ m + 1 \in 1..Len(v2) /\ \A h \in 1..m : h \in 1..Len(v2)
        BY <3>3, <3>4, LenProperties
      <4>. QED
        BY <3>3, <3>4, <4>1, Zenon
    <3>6. /\ s.first = IF k = 1 THEN 1 ELSE segs[k - 1].last + 1
          /\ s.first <= s.last /\ s.last <= lb
      BY <1>9, <3>5, Zenon DEF Cut
    <3>7. s.first = t + 1
      <4>1. CASE m = 0
        <5>1. v = << >>
          BY <3>2, <4>1, EmptySeq
        <5>2. t = 0
          BY <2>6, <5>1 DEF Cuts
        <5>. QED
          BY <3>5, <3>6, <4>1, <5>2
      <4>2. CASE m # 0
        <5>1. v # << >>
          BY <3>2, <4>2, EmptySeq
        <5>2. t = v[m].last
          BY <2>6, <3>2, <5>1 DEF Cuts, Last
        <5>3. k # 1 /\ k - 1 = m /\ m \in 1..m
          BY <3>2, <3>5, <4>2
        <5>4. segs[k - 1].last = t
          BY <3>5, <5>2, <5>3, Zenon
        <5>. QED
          BY <3>6, <5>3, <5>4, Zenon
      <4>. QED
        BY <4>1, <4>2
    <3>8. PICK x \in t..lb : x = s.last /\ x = Cuts(v2) /\ t < x
      <4>1. Cuts(v2) = s.last
        <5>1. v2 # << >>
          BY <3>1, <3>2, <3>3, EmptySeq
        <5>. QED
          BY <3>3, <5>1 DEF Cuts, Last
      <4>2. s.last \in t..lb /\ t < s.last
        BY <2>3, <3>6, <3>7
      <4>. QED
        BY <4>1, <4>2, Zenon
    <3>9. row.payload = Between(bytes, t, x) /\ row.payload # << >>
      <4>1. Payload(s) = SubSeq(bytes, t + 1, x)
        BY <1>3, <2>9, <3>7, <3>8, Zenon DEF Payload
      <4>2. x \in 0..Len(bytes) /\ t \in 0..x /\ x - t # 0
        BY <1>4, <3>8
      <4>3. Len(Between(bytes, t, x)) = x - t
        BY <4>2, BetweenIs
      <4>4. Between(bytes, t, x) # << >>
        BY <4>2, <4>3, EmptySeq
      <4>. QED
        BY <2>4, <2>9, <4>1, <4>4, Zenon DEF Between
    <3>10. PICK kept \in Seq(Byte), frames \in Seq(Frame) : kept = acc.buffers[f] /\ frames = acc.frames[f]
      BY FeedFlow
    <3>11. PICK drained : drained = Drain(kept \o Between(bytes, t, x), FALSE)
      OBVIOUS
    <3>12. g[i + 1].buffers[f] = KeptOf(drained) /\ g[i + 1].frames[f] = frames \o drained.frames
      <4>1. row.flow = f /\ row.payload # << >> /\ row.l4 # "none"
        BY <2>4, <2>9, <3>9, Zenon
      <4>2. LET d == Drain(acc.buffers[f] \o row.payload, FALSE)
            IN  /\ Feed(acc, row).buffers[f] = KeptOf(d)
                /\ Feed(acc, row).frames[f] = acc.frames[f] \o d.frames
        BY <4>1, FeedFlow
      <4>. QED
        BY <2>2, <3>9, <3>10, <3>11, <4>2, Zenon
    <3>13. t \in 0..Ends(w, Len(w)) /\ x \in t..Ends(w, Len(w)) /\ x \in 0..lb
      BY <1>4, <3>8
    <3>14. OutFrom(w, 0, x, frames \o drained.frames, KeptOf(drained))
      BY <1>3, <2>6, <3>10, <3>11, <3>13, OutGrows, Zenon
    <3>. QED
      BY <3>1, <3>8, <3>12, <3>13, <3>14, Zenon
  <2>. QED
    BY <2>8, <2>9
<1>. HIDE DEF P
<1>13. T = Nat
  <2>1. T \in SUBSET Nat /\ 0 \in T /\ \A i \in T : i + 1 \in T
    BY <1>11, <1>12
  <2>. HIDE DEF T
  <2>. QED
    BY <2>1, Induction
<1>14. P(n)
  BY <1>13
<1>15. n <= n /\ Sent(f) = Cuts(segs)
  <2>1. Sent(f) = Cuts(segs)
    BY <1>9, Zenon DEF Sent, Cuts
  <2>. QED
    BY <1>1, <2>1
<1>. QED
  BY <1>2, <1>4, <1>6, <1>10, <1>14, <1>15, Zenon DEF P

-----------------------------------------------------------------------------
(* The reader and the analyser.                                            *)

\* What a reader asks for next lies within the item it is at.
LEMMA ReaderWants ==
  ASSUME NEW w \in Seq(Items), NEW g, NEW t, NEW rec, Reading(w, g, t, "reading", rec),
         NEW n \in Nat, n = Len(rec), n < Len(w)
  PROVE  /\ t + Wanted(g) <= Ends(w, n + 1)
         /\ DecodeHeader(HeaderOf(w[n + 1])) # "OK" => t + Wanted(g) = Ends(w, n) + 2
<1>0. PICK l \in Nat : l = Len(w)
  BY LenProperties
<1>1. PICK it : it = w[n + 1]
  OBVIOUS
<1>2. PICK o : o = Ends(w, n)
  OBVIOUS
<1>3. \/ g = << >> /\ t = o
      \/ /\ DecodeHeader(HeaderOf(it)) = "OK"
         /\ \/ g = <<HeaderOf(it)>> /\ t = o + HeaderSize
            \/ g = <<HeaderOf(it), Body(it)>> /\ t = o + HeaderSize + it.length
  BY <1>1, <1>2, Zenon DEF Reading, Ends
<1>4. it \in Items /\ o \in Nat /\ it.length \in Nat /\ Ends(w, n + 1) = o + 2 + it.length + 1
  <2>1. n \in 0..Len(w) /\ n \in 0..Len(w) - 1
    BY <1>0
  <2>2. it \in Items /\ o \in Nat /\ Ends(w, n + 1) = o + Size(it)
    BY <1>1, <1>2, <2>1, EndsAre, Zenon
  <2>3. it.length \in Nat
    BY <2>2, EncodeIs, MaxPayloadAssumption
  <2>4. Size(it) = 2 + it.length + 1
    BY DEF Size, HeaderSize, MacSize
  <2>. QED
    BY <2>2, <2>3, <2>4
<1>5. CASE g = << >> /\ t = o
  <2>1. Wanted(g) = 2
    BY <1>5 DEF Wanted, HeaderSize
  <2>. QED
    BY <1>2, <1>4, <1>5, <2>1
<1>6. CASE DecodeHeader(HeaderOf(it)) = "OK" /\ g = <<HeaderOf(it)>> /\ t = o + HeaderSize
  <2>1. Wanted(g) = it.length
    <3>1. Wanted(g) = DeclaredLength(HeaderOf(it))
      BY <1>6 DEF Wanted
    <3>. QED
      BY <1>4, <1>6, <3>1, HeaderVerdict
  <2>. QED
    BY <1>1, <1>4, <1>6, <2>1 DEF HeaderSize
<1>7. CASE /\ DecodeHeader(HeaderOf(it)) = "OK" /\ g = <<HeaderOf(it), Body(it)>>
           /\ t = o + HeaderSize + it.length
  <2>1. Wanted(g) = 1
    BY <1>7 DEF Wanted, MacSize
  <2>. QED
    BY <1>1, <1>4, <1>7, <2>1 DEF HeaderSize
<1>. QED
  BY <1>3, <1>5, <1>6, <1>7

\* The frames a reader has returned are the first of those the analyser has made;
\* when the reader has to wait there are no others.
LEMMA ReaderBehind ==
  ASSUME NEW w \in Seq(Items), NEW g, NEW t, NEW r, NEW rec, Reading(w, g, t, r, rec),
         NEW m \in Nat, t <= m, NEW frames, NEW kept, OutFrom(w, 0, m, frames, kept)
  PROVE  /\ IsPrefix(rec, frames)
         /\ r = "reading" /\ m < t + Wanted(g) => rec = frames
<1>0. PICK l \in Nat : l = Len(w)
  BY LenProperties
<1>1. PICK n \in 0..l : n = Len(rec)
  <2>1. rec \in Seq(Frame) /\ Len(rec) <= Len(w)
    BY Zenon DEF Reading
  <2>2. Len(rec) \in Nat
    BY <2>1, LenProperties
  <2>. QED
    BY <1>0, <2>1, <2>2
<1>2. /\ rec \in Seq(Frame) /\ t \in Nat /\ Ends(w, n) <= t
      /\ \A i \in 1..n : rec[i] = Written(w[i]) /\ w[i].faults = {}
  BY <1>1, Zenon DEF Reading, Ends
<1>3. PICK k \in 0..l : /\ frames \in Seq(Frame) /\ Ends(w, k) <= m /\ Begin(w, 0, k - 0, frames)
                        /\ (Len(frames) = k - 0 /\ Stops(w, k, m, kept)) \/ Fails(w, k, m)
  BY <1>0, Zenon DEF OutFrom
<1>4. k - 0 = k /\ \A i \in 1..k : 0 + i = i
  OBVIOUS
<1>5. k <= Len(frames) /\ \A i \in 1..k : frames[i] = Written(w[i])
  BY <1>3, <1>4 DEF Begin
<1>6. /\ \A i \in 0..l : Ends(w, i) \in Nat
      /\ \A i \in 0..l : \A j \in i..l : Ends(w, i) <= Ends(w, j)
  BY <1>0, EndsAre, Zenon
<1>7. n <= k
  <2>. SUFFICES ASSUME k < n PROVE FALSE
    OBVIOUS
  <2>1. k + 1 \in 0..l /\ n \in (k + 1)..l /\ k + 1 \in 1..n /\ k < Len(w)
    BY <1>0
  <2>2. Ends(w, k + 1) <= m
    BY <1>2, <1>6, <2>1
  <2>3. w[k + 1].faults = {}
    BY <1>2, <2>1
  <2>. QED
    BY <1>3, <2>1, <2>2, <2>3, Zenon DEF Stops, Fails
<1>8. IsPrefix(rec, frames)
  <2>1. Len(frames) \in Nat /\ n <= Len(frames)
    BY <1>3, <1>5, <1>7, LenProperties
  <2>2. PICK a, b : a = SubSeq(rec, 1, n) /\ b = SubSeq(frames, 1, n)
    OBVIOUS
  <2>3. /\ a \in Seq(Frame) /\ Len(a) = n /\ \A i \in 1..n : a[i] = rec[i]
        /\ b \in Seq(Frame) /\ Len(b) = n /\ \A i \in 1..n : b[i] = frames[i]
    BY <1>1, <1>2, <1>3, <2>1, <2>2, PartOf
  <2>4. \A i \in 1..n : a[i] = b[i]
    BY <1>2, <1>5, <1>7, <2>3
  <2>5. a = b
    BY <2>3, <2>4, SeqEqual
  <2>. QED
    BY <1>1, <2>1, <2>2, <2>5 DEF IsPrefix
<1>9. ASSUME r = "reading", m < t + Wanted(g) PROVE rec = frames
  <2>1. ASSUME n < l
        PROVE  /\ ~(Ends(w, n + 1) <= m)
               /\ ~(Ends(w, n) + 2 <= m /\ DecodeHeader(HeaderOf(w[n + 1])) # "OK")
    <3>1. /\ t + Wanted(g) <= Ends(w, n + 1)
          /\ DecodeHeader(HeaderOf(w[n + 1])) # "OK" => t + Wanted(g) = Ends(w, n) + 2
      BY <1>0, <1>1, <1>9, <2>1, ReaderWants
    <3>2. Ends(w, n + 1) \in Nat /\ Ends(w, n) \in Nat
      BY <1>6, <2>1
    <3>3. Wanted(g) \in Nat
      BY <1>9, WantedIs
    <3>. QED
      BY <1>2, <1>9, <3>1, <3>2, <3>3
  <2>2. k = n
    <3>. SUFFICES ASSUME n < k PROVE FALSE
      BY <1>7
    <3>1. n < l /\ n + 1 \in 0..l /\ k \in (n + 1)..l
      OBVIOUS
    <3>2. Ends(w, n + 1) <= m
      BY <1>3, <1>6, <3>1
    <3>. QED
      BY <2>1, <3>1, <3>2
  <2>3. Len(frames) = n
    BY <1>0, <1>3, <1>4, <2>1, <2>2, Zenon DEF Fails
  <2>. QED
    BY <1>1, <1>2, <1>3, <1>5, <2>2, <2>3, SeqEqual
<1>. QED
  BY <1>8, <1>9

(* Framing and reassembly agree (reassemble_flows): of a capture that      *)
(* misses nothing the analyser has every frame the receiver has, at once,  *)
(* and no other unless the receiver refused one for its MAC.               *)
THEOREM CaptureAnalyserAgrees == Spec => []AnalyserAgrees
<1>1. CaptureInv => AnalyserAgrees
  <2>. SUFFICES ASSUME CaptureInv, NEW f \in Flow, Intact(f)
                PROVE  /\ IsPrefix(received[f], Found.frames[f])
                       /\ Waiting(f) => received[f] = Found.frames[f]
    BY Zenon DEF AnalyserAgrees
  <2>1. PICK frames, kept : frames = Found.frames[f] /\ kept = Found.buffers[f]
    OBVIOUS
  <2>2. PICK m : m = Sent(f)
    OBVIOUS
  <2>3. /\ wire[f] \in Seq(Items) /\ taken[f] <= m /\ taken[f] \in Nat
        /\ Reading(wire[f], got[f], taken[f], reader[f], received[f])
    BY <2>2 DEF CaptureInv
  <2>4. m \in Nat /\ OutFrom(wire[f], 0, m, frames, kept)
    <3>1. m \in 0..Ends(wire[f], Len(wire[f])) /\ OutFrom(wire[f], 0, m, frames, kept)
      BY <2>1, <2>2, IntactOut, Zenon
    <3>. QED
      BY <3>1
  <2>5. /\ IsPrefix(received[f], frames)
        /\ reader[f] = "reading" /\ m < taken[f] + Wanted(got[f]) => received[f] = frames
    BY <2>3, <2>4, ReaderBehind
  <2>6. ASSUME Waiting(f) PROVE reader[f] = "reading" /\ m < taken[f] + Wanted(got[f])
    <3>1. reader[f] = "reading" /\ ~(taken[f] + Wanted(got[f]) <= m)
      BY <2>2, <2>6 DEF Waiting, Readable
    <3>2. Wanted(got[f]) \in Nat
      BY <2>3, <3>1, WantedIs
    <3>. QED
      BY <2>3, <2>4, <3>1, <3>2
  <2>. QED
    BY <2>1, <2>5, <2>6
<1>. QED
  BY <1>1, CaptureInvariant, PTL

-----------------------------------------------------------------------------
(* The scan of one payload.                                                *)

\* What the scan tells of frames.
HeadsOf(frames) ==
  [i \in DOMAIN frames |-> [kind |-> frames[i].kind, number |-> frames[i].number]]

FrameHead == [kind : Items, number : Items]

LEMMA HeadsAre ==
  ASSUME NEW frames \in Seq(Frame)
  PROVE  /\ HeadsOf(frames) \in Seq(FrameHead) /\ Len(HeadsOf(frames)) = Len(frames)
         /\ \A i \in 1..Len(frames) :
              HeadsOf(frames)[i] = [kind |-> frames[i].kind, number |-> frames[i].number]
<1>1. PICK n \in Nat : n = Len(frames) /\ DOMAIN frames = 1..n
  BY LenProperties
<1>2. \A i \in 1..n : frames[i] \in Frame
  BY <1>1, ElementOfSeq
<1>3. PICK h : h = [i \in 1..n |-> [kind |-> frames[i].kind, number |-> frames[i].number]]
  OBVIOUS
<1>4. h = HeadsOf(frames)
  BY <1>1, <1>3, Zenon DEF HeadsOf
<1>5. ASSUME NEW i \in 1..n PROVE [kind |-> frames[i].kind, number |-> frames[i].number] \in FrameHead
  BY <1>2 DEF Frame, FrameHead
<1>6. h \in [1..n -> FrameHead]
  BY <1>3, <1>5
<1>7. h \in Seq(FrameHead) /\ Len(h) = n
  BY <1>6
<1>. QED
  BY <1>1, <1>3, <1>4, <1>7, Zenon

LEMMA HeadsJoin ==
  ASSUME NEW x \in Frame, NEW frames \in Seq(Frame)
  PROVE  HeadsOf(<<x>> \o frames) = <<[kind |-> x.kind, number |-> x.number]>> \o HeadsOf(frames)
<1>1. PICK y \in FrameHead : y = [kind |-> x.kind, number |-> x.number]
  BY DEF Frame, FrameHead
<1>2. PICK s, t : s = <<x>> /\ t = <<y>>
  OBVIOUS
<1>3. /\ s \in Seq(Frame) /\ Len(s) = 1 /\ s[1] = x
      /\ t \in Seq(FrameHead) /\ Len(t) = 1 /\ t[1] = y
  BY <1>2
<1>4. PICK n \in Nat : n = Len(frames)
  BY LenProperties
<1>5. PICK h \in Seq(FrameHead) : /\ h = HeadsOf(frames) /\ Len(h) = n
                              /\ \A i \in 1..n : h[i] = [kind |-> frames[i].kind, number |-> frames[i].number]
  BY <1>4, HeadsAre, Zenon
<1>6. PICK a \in Seq(Frame) : /\ a = s \o frames /\ Len(a) = 1 + n /\ a[1] = x
                              /\ \A i \in 1..n : a[1 + i] = frames[i]
  <2>1. /\ s \o frames \in Seq(Frame) /\ Len(s \o frames) = Len(s) + Len(frames)
        /\ \A i \in 1..Len(s) : (s \o frames)[i] = s[i]
        /\ \A i \in 1..Len(frames) : (s \o frames)[Len(s) + i] = frames[i]
    <3>1. s \in Seq(Frame)
      BY <1>3
    <3>. QED
      BY <3>1, ConcatIs
  <2>2. 1 \in 1..1
    OBVIOUS
  <2>. QED
    BY <1>3, <1>4, <2>1, <2>2, Zenon
<1>7. PICK b \in Seq(FrameHead) : /\ b = t \o h /\ Len(b) = 1 + n /\ b[1] = y
                              /\ \A i \in 1..n : b[1 + i] = h[i]
  <2>1. /\ t \o h \in Seq(FrameHead) /\ Len(t \o h) = Len(t) + Len(h)
        /\ \A i \in 1..Len(t) : (t \o h)[i] = t[i]
        /\ \A i \in 1..Len(h) : (t \o h)[Len(t) + i] = h[i]
    <3>1. t \in Seq(FrameHead)
      BY <1>3
    <3>. QED
      BY <3>1, ConcatIs
  <2>2. 1 \in 1..1
    OBVIOUS
  <2>3. PICK b : b = t \o h
    OBVIOUS
  <2>4. b \in Seq(FrameHead) /\ Len(b) = Len(t) + Len(h) /\ b[1] = t[1]
    BY <1>3, <2>1, <2>2, <2>3, Zenon
  <2>5. \A i \in 1..n : b[1 + i] = h[i]
    BY <1>3, <1>5, <2>1, <2>3, Zenon
  <2>. QED
    BY <1>3, <1>5, <2>3, <2>4, <2>5, Zenon
<1>8. PICK c \in Seq(FrameHead) : /\ c = HeadsOf(a) /\ Len(c) = 1 + n
                              /\ \A i \in 1..1 + n : c[i] = [kind |-> a[i].kind, number |-> a[i].number]
  <2>1. /\ HeadsOf(a) \in Seq(FrameHead) /\ Len(HeadsOf(a)) = Len(a)
        /\ \A i \in 1..Len(a) : HeadsOf(a)[i] = [kind |-> a[i].kind, number |-> a[i].number]
    BY HeadsAre
  <2>. QED
    BY <1>6, <2>1, Zenon
<1>9. ASSUME NEW i \in 1..1 + n PROVE c[i] = b[i]
  <2>1. CASE i = 1
    BY <1>1, <1>6, <1>7, <1>8, <2>1, Zenon
  <2>2. CASE i # 1
    <3>1. PICK j \in 1..n : i = 1 + j
      <4>1. i - 1 \in 1..n /\ i = 1 + (i - 1)
        BY <2>2
      <4>. QED
        BY <4>1
    <3>2. c[i] = [kind |-> a[i].kind, number |-> a[i].number]
      BY <1>8
    <3>3. a[i] = frames[j] /\ b[i] = h[j] /\ h[j] = [kind |-> frames[j].kind, number |-> frames[j].number]
      BY <1>5, <1>6, <1>7, <3>1, Zenon
    <3>. QED
      BY <3>2, <3>3, Zenon
  <2>. QED
    BY <2>1, <2>2
<1>10. c = b
  BY <1>7, <1>8, <1>9, SeqEqual
<1>. QED
  BY <1>1, <1>2, <1>5, <1>6, <1>7, <1>8, <1>10, Zenon

\* Every frame that lies whole at the start of what is left is accepted.
Sound(buf) ==
  \A n \in 0..Len(buf) : Complete(LastOf(buf, n)) => Pop(LastOf(buf, n), FALSE).code = "OK"

LEMMA DrainOne ==
  ASSUME NEW buf \in Seq(Byte)
  PROVE  /\ Drain(buf, FALSE).frames \in Seq(Frame)
         /\ ~Complete(buf) => Drain(buf, FALSE).frames = << >>
         /\ Complete(buf) /\ Pop(buf, FALSE).code = "OK" =>
              /\ FrameOf(HeaderIn(buf), BodyIn(buf)) \in Frame
              /\ Drain(buf, FALSE).frames =
                   <<FrameOf(HeaderIn(buf), BodyIn(buf))>> \o Drain(RestIn(buf), FALSE).frames
<1>1. FALSE \in BOOLEAN
  OBVIOUS
<1>2. PICK p : p = Pop(buf, FALSE) /\ Popped(p, buf)
  BY <1>1, PopIs, Zenon
<1>3. PICK d : d = Drain(buf, FALSE) /\ d \in Drained(Byte) /\ d = Outcome(p, Drain(p.rest, FALSE))
  BY <1>1, <1>2, DrainUnfolds, Zenon
<1>4. d.frames \in Seq(Frame)
  BY <1>3 DEF Drained
<1>5. ASSUME ~Complete(buf) PROVE d.frames = << >>
  <2>1. p.code # "OK"
    BY <1>1, <1>2, <1>5, PopOk, Zenon
  <2>2. d = [code |-> p.code, frames |-> << >>, rest |-> p.rest]
    BY <1>3, <2>1, Zenon DEF Outcome
  <2>. QED
    BY <2>2
<1>6. ASSUME Complete(buf), p.code = "OK"
      PROVE  /\ FrameOf(HeaderIn(buf), BodyIn(buf)) \in Frame
             /\ d.frames = <<FrameOf(HeaderIn(buf), BodyIn(buf))>> \o Drain(RestIn(buf), FALSE).frames
  <2>1. p.rest = RestIn(buf) /\ p.frame = FrameOf(HeaderIn(buf), BodyIn(buf))
    BY <1>1, <1>2, <1>6, PopOk, Zenon
  <2>2. p.frame \in Frame
    BY <1>2, <1>6, Zenon DEF Popped
  <2>3. PICK later : later = Drain(RestIn(buf), FALSE)
    OBVIOUS
  <2>4. PICK new : new = <<p.frame>> \o later.frames
    OBVIOUS
  <2>5. d = [code |-> later.code, frames |-> new, rest |-> later.rest]
    BY <1>3, <1>6, <2>1, <2>3, <2>4, Zenon DEF Outcome
  <2>6. d.frames = new
    BY <2>5
  <2>. QED
    BY <2>1, <2>2, <2>3, <2>4, <2>6, Zenon
<1>. QED
  BY <1>2, <1>3, <1>4, <1>5, <1>6, Zenon

\* The scan at a byte looks at what is left from there on.
ScanHeader(data, at) == SubSeq(data, at, at + HeaderSize - 1)
ScanEnd(data, at)    == at + HeaderSize + DeclaredLength(ScanHeader(data, at)) + MacSize - 1
ScanStops(data, at) ==
  \/ at + HeaderSize - 1 > Len(data)
  \/ DecodeHeader(ScanHeader(data, at)) # "OK"
  \/ ~InThisPayload(ScanEnd(data, at), data)

LEMMA ScanAt ==
  ASSUME NEW data \in Seq(Byte), NEW at \in 1..Len(data) + 1,
         NEW buf, buf = LastOf(data, Len(data) + 1 - at)
  PROVE  /\ ScanStops(data, at) <=> ~Complete(buf)
         /\ Complete(buf) =>
              /\ ScanHeader(data, at) = HeaderIn(buf)
              /\ ScanEnd(data, at) + 1 \in at + 1..Len(data) + 1
              /\ RestIn(buf) = LastOf(data, Len(data) + 1 - (ScanEnd(data, at) + 1))
<1>1. PICK l \in Nat : l = Len(data)
  BY LenProperties
<1>2. PICK n \in 0..l : n = l + 1 - at /\ at = l - n + 1 /\ at \in Nat \ {0}
  <2>1. l + 1 - at \in 0..l /\ at = l - (l + 1 - at) + 1 /\ at \in Nat \ {0}
    BY <1>1
  <2>. QED
    BY <2>1
<1>3. /\ buf \in Seq(Byte) /\ Len(buf) = n /\ \A i \in 1..n : buf[i] = data[l - n + i]
      /\ buf = LastOf(data, n)
  <2>1. buf = LastOf(data, n)
    BY <1>1, <1>2
  <2>2. n \in 0..Len(data)
    BY <1>1
  <2>. QED
    BY <1>1, <2>1, <2>2, LastIs
<1>4. HeaderSize = 2 /\ MacSize = 1
  BY DEF HeaderSize, MacSize
<1>5. CASE n < 2
  <2>1. at + HeaderSize - 1 > Len(data)
    BY <1>1, <1>2, <1>4, <1>5
  <2>2. ~Complete(buf)
    BY <1>3, <1>5 DEF Complete, Passes
  <2>. QED
    BY <2>1, <2>2 DEF ScanStops
<1>6. CASE ~(n < 2)
  <2>1. ~(at + HeaderSize - 1 > Len(data)) /\ at + HeaderSize - 1 = at + 1 /\ at + 1 <= l /\ n >= 2
    BY <1>1, <1>2, <1>4, <1>6
  <2>2. PICK header : header = ScanHeader(data, at) /\ header = SubSeq(data, at, at + 1)
    BY <2>1, Zenon DEF ScanHeader
  <2>3. header = HeaderIn(buf)
    <3>1. PICK h : h = SubSeq(buf, 1, 2)
      OBVIOUS
    <3>2. h \in Seq(Byte) /\ Len(h) = 2 /\ \A i \in 1..2 : h[i] = buf[1 + i - 1]
      BY <1>3, <2>1, <3>1, PartOf
    <3>3. header \in Seq(Byte) /\ Len(header) = 2 /\ \A i \in 1..2 : header[i] = data[at + i - 1]
      <4>1. /\ at + 1 \in 0..Len(data) /\ at - 1 \in 0..at + 1 /\ (at - 1) + 1 = at
            /\ (at + 1) - (at - 1) = 2 /\ \A i \in 1..2 : (at - 1) + i = at + i - 1
        BY <1>1, <1>2, <2>1
      <4>2. /\ Between(data, at - 1, at + 1) \in Seq(Byte)
            /\ Len(Between(data, at - 1, at + 1)) = (at + 1) - (at - 1)
            /\ \A i \in 1..(at + 1) - (at - 1) : Between(data, at - 1, at + 1)[i] = data[(at - 1) + i]
        BY <4>1, BetweenIs
      <4>3. header = Between(data, at - 1, at + 1)
        BY <2>2, <4>1, Zenon DEF Between
      <4>. QED
        BY <4>1, <4>2, <4>3, Zenon
    <3>4. ASSUME NEW i \in 1..2 PROVE h[i] = header[i]
      <4>1. i \in 1..n /\ 1 + i - 1 = i /\ at + i - 1 = l - n + i
        BY <1>2, <2>1
      <4>. QED
        BY <1>3, <3>2, <3>3, <4>1
    <3>5. h = header
      BY <3>2, <3>3, <3>4, SeqEqual
    <3>. QED
      BY <3>1, <3>5, Zenon DEF HeaderIn
  <2>4. PICK k \in Nat : k = LengthIn(buf) /\ k = DeclaredLength(header)
    <3>1. LengthIn(buf) \in Nat
      BY <1>3, <2>1, HeaderInIs
    <3>. QED
      BY <2>3, <3>1 DEF LengthIn
  <2>5. ScanEnd(data, at) = at + 2 + k + 1 - 1
    BY <1>4, <2>2, <2>4, Zenon DEF ScanEnd
  <2>6. InThisPayload(ScanEnd(data, at), data) <=> n >= 3 + k
    BY <1>1, <1>2, <2>5 DEF InThisPayload
  <2>7. Complete(buf) <=> DecodeHeader(header) = "OK" /\ n >= 3 + k
    BY <1>3, <2>1, <2>3, <2>4, Zenon DEF Complete, Passes
  <2>8. ScanStops(data, at) <=> ~Complete(buf)
    BY <2>1, <2>2, <2>6, <2>7, Zenon DEF ScanStops
  <2>9. ASSUME Complete(buf)
        PROVE  /\ ScanEnd(data, at) + 1 \in at + 1..Len(data) + 1
               /\ RestIn(buf) = LastOf(data, Len(data) + 1 - (ScanEnd(data, at) + 1))
    <3>1. n >= 3 + k
      BY <2>7, <2>9
    <3>2. PICK m \in 0..n : m = n - 3 - k
      BY <2>4, <3>1
    <3>3. RestIn(buf) = LastOf(buf, m)
      <4>1. Len(RestIn(buf)) = m /\ RestIn(buf) = LastOf(buf, Len(RestIn(buf)))
        BY <1>3, <2>4, <2>9, <3>2, RestIs, Zenon
      <4>. QED
        BY <4>1, Zenon
    <3>4. LastOf(LastOf(data, n), m) = LastOf(data, m)
      BY <1>1, <3>2, LastOfLast
    <3>5. Len(data) + 1 - (ScanEnd(data, at) + 1) = m
      BY <1>1, <1>2, <2>4, <2>5, <3>2
    <3>6. ScanEnd(data, at) + 1 \in at + 1..Len(data) + 1
      BY <1>1, <1>2, <2>4, <2>5, <3>1
    <3>. QED
      BY <1>3, <3>3, <3>4, <3>5, <3>6, Zenon
  <2>. QED
    BY <2>2, <2>3, <2>8, <2>9
<1>. QED
  BY <1>5, <1>6

\* The scan finds what a reader without a key finds that starts with an empty buffer.
LEMMA ScanIs ==
  ASSUME NEW data \in Seq(Byte), Sound(data)
  PROVE  Scan(data) = HeadsOf(Drain(data, FALSE).frames)
<1>. DEFINE D == 1..(Len(data) + 1)
            Header(at) == SubSeq(data, at, at + HeaderSize - 1)
            End(at)    == at + HeaderSize + DeclaredLength(Header(at)) + MacSize - 1
            Rec(f) == f = [at \in 1..(Len(data) + 1) |->
              IF \/ at + HeaderSize - 1 > Len(data)
                 \/ DecodeHeader(Header(at)) # "OK"
                 \/ ~InThisPayload(End(at), data)
              THEN << >>
              ELSE <<[kind |-> Header(at)[1].of, number |-> Header(at)[2].of]>> \o f[End(at) + 1]]
            F == CHOOSE f : Rec(f)
            New(at) == [kind |-> ScanHeader(data, at)[1].of, number |-> ScanHeader(data, at)[2].of]
            G == [at \in D |-> HeadsOf(Drain(LastOf(data, Len(data) + 1 - at), FALSE).frames)]
            Makes(f, at) == f[at] = IF ScanStops(data, at) THEN << >>
                                    ELSE <<New(at)>> \o f[ScanEnd(data, at) + 1]
<1>0. PICK l \in Nat : l = Len(data)
  BY LenProperties
<1>1. Scan(data) = F[1]
  BY Zenon DEF Scan
<1>2. ASSUME NEW at \in D
      PROVE  Makes(G, at) /\ (~ScanStops(data, at) => ScanEnd(data, at) + 1 \in at + 1..l + 1)
  <2>0. at \in 1..Len(data) + 1 /\ l + 1 - at \in 0..l /\ at \in Nat
    BY <1>0
  <2>1. PICK buf : buf = LastOf(data, Len(data) + 1 - at)
    OBVIOUS
  <2>2. buf \in Seq(Byte) /\ (Complete(buf) => Pop(buf, FALSE).code = "OK")
    <3>1. buf = LastOf(data, l + 1 - at) /\ l + 1 - at \in 0..Len(data)
      BY <1>0, <2>0, <2>1
    <3>. QED
      BY <3>1, LastIs, Zenon DEF Sound
  <2>3. /\ ScanStops(data, at) <=> ~Complete(buf)
        /\ Complete(buf) =>
             /\ ScanHeader(data, at) = HeaderIn(buf)
             /\ ScanEnd(data, at) + 1 \in at + 1..Len(data) + 1
             /\ RestIn(buf) = LastOf(data, Len(data) + 1 - (ScanEnd(data, at) + 1))
    BY <2>0, <2>1, ScanAt
  <2>4. G[at] = HeadsOf(Drain(buf, FALSE).frames)
    BY <2>1
  <2>5. CASE ~Complete(buf)
    <3>1. Drain(buf, FALSE).frames = << >>
      BY <2>2, <2>5, DrainOne, Zenon
    <3>2. HeadsOf(<< >>) = << >>
      BY DEF HeadsOf
    <3>3. G[at] = << >>
      BY <2>4, <3>1, <3>2, Zenon
    <3>4. ScanStops(data, at)
      BY <2>3, <2>5, Zenon
    <3>. HIDE DEF G
    <3>. QED
      BY <3>3, <3>4, Zenon
  <2>6. CASE Complete(buf)
    <3>1. PICK next : next = ScanEnd(data, at) + 1 /\ next \in at + 1..Len(data) + 1
      BY <2>3, <2>6, Zenon
    <3>2. PICK x \in Frame : x = FrameOf(HeaderIn(buf), BodyIn(buf))
      BY <2>2, <2>6, DrainOne, Zenon
    <3>3. PICK rest \in Seq(Byte) : rest = RestIn(buf) /\ rest = LastOf(data, Len(data) + 1 - next)
      <4>1. RestIn(buf) \in Seq(Byte)
        BY <2>2, <2>6, RestIs, Zenon
      <4>. QED
        BY <2>3, <2>6, <3>1, <4>1, Zenon
    <3>4. PICK more \in Seq(Frame) : more = Drain(rest, FALSE).frames
      <4>1. Drain(rest, FALSE).frames \in Seq(Frame)
        BY DrainOne
      <4>. QED
        BY <4>1, Zenon
    <3>5. Drain(buf, FALSE).frames = <<x>> \o more
      BY <2>2, <2>6, <3>2, <3>3, <3>4, DrainOne, Zenon
    <3>6. G[at] = <<[kind |-> x.kind, number |-> x.number]>> \o HeadsOf(more)
      <4>1. HeadsOf(<<x>> \o more) = <<[kind |-> x.kind, number |-> x.number]>> \o HeadsOf(more)
        BY HeadsJoin
      <4>. HIDE DEF G
      <4>. QED
        BY <2>4, <3>5, <4>1, Zenon
    <3>7. G[next] = HeadsOf(more)
      <4>1. next \in D
        BY <1>0, <2>0, <3>1
      <4>2. G[next] = HeadsOf(Drain(LastOf(data, Len(data) + 1 - next), FALSE).frames)
        BY <4>1
      <4>. HIDE DEF G
      <4>. QED
        BY <3>3, <3>4, <4>2, Zenon
    <3>8. [kind |-> x.kind, number |-> x.number] = New(at)
      <4>1. PICK header : header = HeaderIn(buf)
        OBVIOUS
      <4>2. x.kind = header[1].of /\ x.number = header[2].of
        BY <3>2, <4>1 DEF FrameOf
      <4>3. header = ScanHeader(data, at)
        BY <2>3, <2>6, <4>1, Zenon
      <4>. QED
        BY <4>2, <4>3, Zenon
    <3>9. ~ScanStops(data, at)
      BY <2>3, <2>6, Zenon
    <3>. HIDE DEF G, New
    <3>. QED
      BY <1>0, <3>1, <3>6, <3>7, <3>8, <3>9, Zenon
  <2>. QED
    BY <2>3, <2>5, <2>6
<1>3. Rec(G)
  <2>1. G = [at \in 1..(Len(data) + 1) |-> G[at]]
    OBVIOUS
  <2>2. \A at \in 1..(Len(data) + 1) : G[at] =
          IF \/ at + HeaderSize - 1 > Len(data)
             \/ DecodeHeader(Header(at)) # "OK"
             \/ ~InThisPayload(End(at), data)
          THEN << >>
          ELSE <<[kind |-> Header(at)[1].of, number |-> Header(at)[2].of]>> \o G[End(at) + 1]
    <3>. HIDE DEF G
    <3>. QED
      BY <1>2, Zenon DEF ScanStops, ScanHeader, ScanEnd
  <2>. HIDE DEF G, Header, End
  <2>. QED
    BY <2>1, <2>2
<1>4. Rec(F)
  <2>. HIDE DEF Rec
  <2>. QED
    BY <1>3, Zenon
<1>. HIDE DEF F
<1>5. ASSUME NEW at \in D PROVE Makes(F, at)
  <2>1. F[at] =
          IF \/ at + HeaderSize - 1 > Len(data)
             \/ DecodeHeader(Header(at)) # "OK"
             \/ ~InThisPayload(End(at), data)
          THEN << >>
          ELSE <<[kind |-> Header(at)[1].of, number |-> Header(at)[2].of]>> \o F[End(at) + 1]
    <3>. HIDE DEF Header, End
    <3>. QED
      BY <1>4
  <2>. QED
    BY <2>1, Zenon DEF ScanStops, ScanHeader, ScanEnd
<1>. HIDE DEF G, Rec
<1>. DEFINE P(n) == \A at \in D : l + 1 - at < n => F[at] = G[at]
            T == {n \in Nat : P(n)}
<1>6. P(0)
  BY <1>0
<1>7. ASSUME NEW n \in Nat, P(n) PROVE P(n + 1)
  <2>. SUFFICES ASSUME NEW at \in D, l + 1 - at < n + 1 PROVE F[at] = G[at]
    OBVIOUS
  <2>1. Makes(F, at) /\ Makes(G, at) /\ (~ScanStops(data, at) => ScanEnd(data, at) + 1 \in at + 1..l + 1)
    BY <1>2, <1>5, Zenon
  <2>2. CASE ScanStops(data, at)
    BY <2>1, <2>2, Zenon
  <2>3. CASE ~ScanStops(data, at)
    <3>1. PICK next : next = ScanEnd(data, at) + 1 /\ next \in at + 1..l + 1
      BY <2>1, <2>3, Zenon
    <3>2. next \in D /\ l + 1 - next < n
      BY <1>0, <3>1
    <3>3. F[next] = G[next]
      BY <1>7, <3>2
    <3>. HIDE DEF New
    <3>. QED
      BY <2>1, <2>3, <3>1, <3>3, Zenon
  <2>. QED
    BY <2>2, <2>3
<1>. HIDE DEF P
<1>8. T = Nat
  <2>1. T \in SUBSET Nat /\ 0 \in T /\ \A n \in T : n + 1 \in T
    BY <1>6, <1>7
  <2>. HIDE DEF T
  <2>. QED
    BY <2>1, Induction
<1>9. F[1] = G[1]
  <2>1. P(l + 1)
    BY <1>0, <1>8
  <2>2. 1 \in D /\ l + 1 - 1 < l + 1
    BY <1>0
  <2>. QED
    BY <2>1, <2>2, Zenon DEF P
<1>10. G[1] = HeadsOf(Drain(data, FALSE).frames)
  <2>1. 1 \in D /\ Len(data) + 1 - 1 = Len(data) /\ Len(data) \in 0..Len(data) /\ 0 \in 0..Len(data)
    BY <1>0
  <2>2. LastOf(data, Len(data)) = data
    BY <2>1, LastOfLast, Zenon
  <2>3. G[1] = HeadsOf(Drain(LastOf(data, Len(data) + 1 - 1), FALSE).frames)
    BY <2>1 DEF G
  <2>. QED
    BY <2>1, <2>2, <2>3, Zenon
<1>. QED
  BY <1>1, <1>9, <1>10, Zenon

\* A frame that lies whole in a stream, of an item without faults, is accepted.
LEMMA CompleteSound ==
  ASSUME NEW buf, Adjacent(buf), Complete(buf), \A k \in 1..Len(buf) : buf[k].of.faults = {}
  PROVE  Pop(buf, FALSE).code = "OK"
<1>0. buf \in Seq(Byte)
  BY Zenon DEF Adjacent
<1>1. PICK l \in Nat : l = Len(buf)
  BY <1>0, LenProperties
<1>2. l >= 2 /\ l >= 3 + LengthIn(buf)
  BY <1>1 DEF Complete, Passes
<1>3. PICK it \in Items : it = HeaderIn(buf)[2].of /\ LengthIn(buf) = it.length /\ buf = Encode(it) \o RestIn(buf)
  BY FrameBytes, Zenon
<1>4. it.faults = {}
  <2>1. Passes(buf)
    BY Zenon DEF Complete
  <2>2. it = buf[2].of
    BY <1>0, <1>3, <2>1, PassesIs, Zenon
  <2>3. 2 \in 1..Len(buf)
    BY <1>1, <1>2
  <2>. QED
    BY <2>2, <2>3
<1>5. it.length \in Nat /\ Encode(it) \in Seq(Byte) /\ RestIn(buf) \in Seq(Byte) /\ Len(Encode(it)) = Size(it)
  <2>1. it.length \in Nat
    BY EncodeIs, MaxPayloadAssumption
  <2>2. Encode(it) \in Seq(Byte) /\ Len(Encode(it)) = Size(it)
    BY EncodeIs DEF Size
  <2>. QED
    BY <1>0, <2>1, <2>2, RestIs, Zenon
<1>6. Size(it) <= l /\ Size(it) \in Nat
  BY <1>2, <1>3, <1>5 DEF Size, HeaderSize, MacSize
<1>7. HasChunk(buf, 0, Encode(it))
  <2>1. PICK e, r : e = Encode(it) /\ r = RestIn(buf)
    OBVIOUS
  <2>2. e \in Seq(Byte) /\ r \in Seq(Byte) /\ buf = e \o r /\ Len(e) \in Nat /\ Len(e) <= l
    BY <1>3, <1>5, <1>6, <2>1, Zenon
  <2>3. \A k \in 1..Len(e) : (e \o r)[k] = e[k]
    BY <2>2, ConcatIs
  <2>4. \A k \in 1..Len(e) : 0 + k = k
    BY <2>2
  <2>5. 0 + Len(e) <= Len(buf)
    BY <1>1, <2>2
  <2>. QED
    BY <2>1, <2>2, <2>3, <2>4, <2>5 DEF HasChunk
<1>8. ItemPops(buf, 0, l, it)
  <2>1. l \in 0..Len(buf) /\ 0 \in Nat
    BY <1>1
  <2>. QED
    BY <1>0, <1>7, <2>1, ItemPop
<1>9. Between(buf, 0, l) = buf
  <2>1. SubSeq(buf, 1, Len(buf)) = buf
    BY <1>0, SubSeqFull
  <2>2. 0 + 1 = 1
    OBVIOUS
  <2>. QED
    BY <1>1, <2>1, <2>2, Zenon DEF Between
<1>10. ~(l < 0 + Size(it))
  BY <1>6
<1>. QED
  BY <1>4, <1>8, <1>9, <1>10, Zenon DEF ItemPops

LEMMA StreamSound ==
  ASSUME NEW s, Adjacent(s), \A k \in 1..Len(s) : s[k].of.faults = {}
  PROVE  Sound(s)
<1>0. s \in Seq(Byte)
  BY Zenon DEF Adjacent
<1>1. PICK l \in Nat : l = Len(s)
  BY <1>0, LenProperties
<1>2. ASSUME NEW n \in 0..Len(s), Complete(LastOf(s, n)) PROVE Pop(LastOf(s, n), FALSE).code = "OK"
  <2>1. PICK buf : buf = LastOf(s, n)
    OBVIOUS
  <2>2. buf \in Seq(Byte) /\ Len(buf) = n /\ \A k \in 1..n : buf[k] = s[l - n + k]
    BY <1>0, <1>1, <2>1, LastIs
  <2>3. Adjacent(buf)
    <3>1. l - n + 1 \in Nat \ {0} /\ l <= Len(s)
      BY <1>1
    <3>2. Adjacent(SubSeq(s, l - n + 1, l))
      BY <1>1, <3>1, AdjacentPart
    <3>. QED
      BY <1>1, <2>1, <3>2, Zenon DEF LastOf
  <2>4. \A k \in 1..Len(buf) : buf[k].of.faults = {}
    <3>1. \A k \in 1..n : l - n + k \in 1..Len(s)
      BY <1>1
    <3>. QED
      BY <2>2, <3>1, Zenon
  <2>. QED
    BY <1>2, <2>1, <2>3, <2>4, CompleteSound, Zenon
<1>. QED
  BY <1>2, Zenon DEF Sound

\* Where nothing but the first byte can be of a stream, no frame is.
LEMMA PaddedSound ==
  ASSUME NEW s \in Seq(Byte), \A k \in 2..Len(s) : s[k].at # 2
  PROVE  Sound(s)
<1>1. PICK l \in Nat : l = Len(s)
  BY LenProperties
<1>2. ASSUME NEW n \in 0..Len(s), Complete(LastOf(s, n)) PROVE FALSE
  <2>1. PICK buf : buf = LastOf(s, n)
    OBVIOUS
  <2>2. buf \in Seq(Byte) /\ Len(buf) = n /\ \A k \in 1..n : buf[k] = s[l - n + k]
    BY <1>1, <2>1, LastIs
  <2>3. Passes(buf) /\ Len(buf) >= 2
    BY <1>2, <2>1 DEF Complete, Passes
  <2>4. buf[2].at = 2
    BY <2>2, <2>3, PassesIs, Zenon
  <2>5. 2 \in 1..n /\ l - n + 2 \in 2..Len(s)
    BY <1>1, <2>2, <2>3
  <2>. QED
    BY <2>2, <2>4, <2>5
<1>. QED
  BY <1>2, Zenon DEF Sound

\* Of a sender without faults, what a row has.
LEMMA PayloadSound ==
  ASSUME CaptureInv, NEW i \in 1..Len(seen), Faultless(seen[i].flow)
  PROVE  Sound(PayloadOf(seen[i]))
<1>1. PICK s : /\ s = seen[i] /\ s \in Segment /\ s.flow \in Flow
               /\ s.first \in Nat \ {0} /\ s.last \in Nat /\ s.last <= Len(Bytes(s.flow))
  BY SeenIs, Zenon
<1>2. PICK p \in Seq(Byte) : p = PayloadOf(s)
  BY <1>1, RowIs, Zenon
<1>3. CASE s.first >= s.last
  <2>1. ASSUME NEW k \in 2..Len(p) PROVE p[k].at # 2
    <3>1. k \in 1..Len(p)
      OBVIOUS
    <3>2. p[k] = Padding \/ s.first - 1 + k <= s.last
      BY <1>1, <1>2, <3>1, PayloadBytes, Zenon
    <3>3. p[k] = Padding
      BY <1>1, <1>3, <3>2
    <3>. QED
      BY <3>3 DEF Padding
  <2>. QED
    BY <1>1, <1>2, <2>1, PaddedSound
<1>4. CASE ~(s.first >= s.last)
  <2>1. PICK w \in Seq(Items) : w = wire[s.flow] /\ Bytes(s.flow) = Before(w, Len(w))
    BY <1>1, BytesIs DEF CaptureInv
  <2>2. Len(w) \in Nat /\ DOMAIN w = 1..Len(w) /\ Len(w) \in 0..Len(w)
    BY LenProperties
  <2>3. PICK bytes \in Seq(Byte) : bytes = Before(w, Len(w)) /\ Adjacent(bytes) /\ FromItems(bytes, w, Len(w))
    BY <2>2, WholeBefore, BeforeRises, Zenon DEF Whole, Adjacent
  <2>4. p = SubSeq(bytes, s.first, s.last)
    <3>1. Shape(s) = [l4 |-> "TCP", declares |-> TRUE, pad |-> 0]
      BY <1>4 DEF Shape
    <3>2. Shape(s).l4 # "none" /\ Shape(s).declares
      BY <3>1
    <3>. QED
      BY <1>2, <2>1, <2>3, <3>2, Zenon DEF PayloadOf, Payload
  <2>5. Adjacent(p)
    BY <1>1, <2>1, <2>3, <2>4, AdjacentPart
  <2>6. ASSUME NEW k \in 1..Len(p) PROVE p[k].of.faults = {}
    <3>1. PICK j \in 1..Len(bytes) : p[k] = bytes[j]
      <4>0. Len(bytes) \in Nat /\ s.first - 1 \in 0..s.last /\ s.last \in 0..Len(bytes) /\ (s.first - 1) + 1 = s.first
        BY <1>1, <1>4, <2>1, <2>3, LenProperties
      <4>1. PICK b \in 0..Len(bytes), a \in 0..Len(bytes) : a \in 0..b /\ b = s.last /\ a + 1 = s.first
        BY <4>0
      <4>2. p = Between(bytes, a, b)
        BY <2>4, <4>1, Zenon DEF Between
      <4>3. /\ Len(Between(bytes, a, b)) = b - a
            /\ \A h \in 1..b - a : Between(bytes, a, b)[h] = bytes[a + h]
        <5>1. a \in 0..b
          BY <4>1, Zenon
        <5>. QED
          BY <5>1, BetweenIs
      <4>4. k \in 1..b - a
        BY <4>2, <4>3, Zenon
      <4>5. a + k \in 1..Len(bytes)
        BY <4>0, <4>4
      <4>. QED
        BY <4>2, <4>3, <4>4, <4>5, Zenon
    <3>2. PICK m \in 1..Len(w) : bytes[j].of = w[m]
      BY <2>3 DEF FromItems
    <3>3. w[m].faults = {}
      BY <1>1, <2>1, <2>2, Zenon DEF Faultless
    <3>. QED
      BY <3>1, <3>2, <3>3
  <2>. QED
    BY <1>1, <1>2, <2>5, <2>6, StreamSound
<1>. QED
  BY <1>3, <1>4

\* The last row is fed to what the others gave.
LEMMA ReassembleLast ==
  ASSUME NEW rows \in Seq(Row), rows # << >>
  PROVE  /\ Last(rows) \in Row /\ Last(rows) = rows[Len(rows)] /\ Reassemble(Front(rows)) \in Flows
         /\ Reassemble(rows) = Feed(Reassemble(Front(rows)), Last(rows))
<1>1. PICK l \in Nat \ {0} : l = Len(rows)
  BY EmptySeq, LenProperties
<1>2. PICK n \in Nat : n = l - 1 /\ n + 1 = l
  BY <1>1
<1>3. PICK row \in Row : row = Last(rows) /\ row = rows[l]
  <2>1. l \in 1..Len(rows)
    BY <1>1
  <2>. QED
    BY <1>1, <2>1, ElementOfSeq DEF Last
<1>4. PICK front \in Seq(Row) : front = Front(rows) /\ Len(front) = n /\ \A i \in 1..n : front[i] = rows[i]
  <2>1. n \in 0..Len(rows) /\ 0 \in 0..n /\ n - 0 = n /\ \A i \in 1..n : 0 + i = i
    BY <1>1, <1>2
  <2>2. Front(rows) = Between(rows, 0, n)
    <3>1. Front(rows) = SubSeq(rows, 1, n)
      BY <1>1, <1>2 DEF Front
    <3>. QED
      BY <3>1 DEF Between
  <2>3. PICK b : b = Between(rows, 0, n)
    OBVIOUS
  <2>4. b \in Seq(Row) /\ Len(b) = n /\ \A i \in 1..n : b[i] = rows[i]
    <3>1. /\ Between(rows, 0, n) \in Seq(Row) /\ Len(Between(rows, 0, n)) = n - 0
          /\ \A k \in 1..n - 0 : Between(rows, 0, n)[k] = rows[0 + k]
      BY <2>1, BetweenIs
    <3>. QED
      BY <2>1, <2>3, <3>1, Zenon
  <2>. QED
    BY <2>2, <2>3, <2>4, Zenon
<1>5. PICK g : /\ g \in [0..l -> Flows] /\ g[0] = Fresh /\ Reassemble(rows) = g[l]
               /\ \A i \in 1..l : g[i] = Feed(g[i - 1], rows[i])
  BY <1>1, ReassembleIs, Zenon DEF Feeds
<1>6. PICK h : /\ h \in [0..n -> Flows] /\ h[0] = Fresh /\ Reassemble(front) = h[n]
               /\ \A i \in 1..n : h[i] = Feed(h[i - 1], front[i])
  <2>1. PICK h \in [0..Len(front) -> Flows] : Feeds(front, h) /\ Reassemble(front) = h[Len(front)]
    BY ReassembleIs
  <2>2. Len(front) = n
    BY <1>4
  <2>. QED
    BY <2>1, <2>2, Zenon DEF Feeds
<1>. DEFINE P(i) == i <= n => g[i] = h[i]
            T == {i \in Nat : P(i)}
<1>7. P(0)
  BY <1>5, <1>6
<1>8. ASSUME NEW i \in Nat, P(i) PROVE P(i + 1)
  <2>. SUFFICES ASSUME i + 1 <= n PROVE g[i + 1] = h[i + 1]
    OBVIOUS
  <2>1. i + 1 \in 1..n /\ i + 1 \in 1..l /\ (i + 1) - 1 = i /\ i <= n
    BY <1>2
  <2>2. g[i + 1] = Feed(g[i], rows[i + 1]) /\ h[i + 1] = Feed(h[i], front[i + 1])
    BY <1>5, <1>6, <2>1, Zenon
  <2>3. g[i] = h[i] /\ front[i + 1] = rows[i + 1]
    BY <1>4, <1>8, <2>1, Zenon
  <2>. QED
    BY <2>2, <2>3, Zenon
<1>. HIDE DEF P
<1>9. T = Nat
  <2>1. T \in SUBSET Nat /\ 0 \in T /\ \A i \in T : i + 1 \in T
    BY <1>7, <1>8
  <2>. HIDE DEF T
  <2>. QED
    BY <2>1, Induction
<1>10. g[n] = h[n]
  <2>1. P(n) /\ n <= n
    BY <1>9
  <2>. QED
    BY <2>1 DEF P
<1>11. g[l] = Feed(g[n], rows[l]) /\ h[n] \in Flows
  <2>1. l \in 1..l /\ l - 1 = n /\ n \in 0..n
    BY <1>1, <1>2
  <2>. QED
    BY <1>5, <1>6, <2>1, Zenon
<1>. QED
  BY <1>1, <1>3, <1>4, <1>5, <1>6, <1>10, <1>11, Zenon

\* Of a flow with nothing in its buffer a row adds what a reader finds in it alone.
LEMMA FreshIs ==
  ASSUME CaptureInv, seen # << >>, NEW row, row = Last(Rows), NEW f, f = row.flow,
         NEW before, before = Reassemble(Front(Rows)), before.buffers[f] = << >>
  PROVE  /\ row \in Row /\ f \in Flow /\ row = Rows[Len(seen)] /\ Len(seen) \in 1..Len(seen)
         /\ Found.frames[f] \in Seq(Frame)
         /\ SubSeq(Found.frames[f], Len(before.frames[f]) + 1, Len(Found.frames[f])) =
              Drain(row.payload, FALSE).frames
<1>1. PICK n \in Nat \ {0} : n = Len(seen) /\ n \in 1..Len(seen)
  <2>1. Len(seen) \in Nat \ {0}
    BY EmptySeq, LenProperties DEF CaptureInv
  <2>. QED
    BY <2>1
<1>2. PICK rows \in Seq(Row) : rows = Rows /\ Len(rows) = n /\ rows # << >>
  <2>1. Rows \in Seq(Row) /\ Len(Rows) = n
    BY <1>1, RowsAre
  <2>2. Rows # << >>
    BY <1>1, <2>1
  <2>. QED
    BY <2>1, <2>2
<1>3. /\ row \in Row /\ row = rows[n] /\ before \in Flows /\ Found = Feed(before, row)
  BY <1>2, ReassembleLast, Zenon DEF Found
<1>4. f \in Flow /\ row.payload \in Seq(Byte)
  BY <1>3 DEF Row
<1>5. row.l4 = "none" => row.payload = << >>
  <2>1. row.l4 = Shape(seen[n]).l4 /\ row.payload = PayloadOf(seen[n])
    BY <1>1, <1>2, <1>3, RowIs, Zenon
  <2>. QED
    BY <2>1, Zenon DEF PayloadOf
<1>6. PICK old \in Seq(Frame) : old = before.frames[f]
  BY <1>3, <1>4, FeedFlow
<1>7. PICK m \in Nat : m = Len(old)
  BY LenProperties
<1>8. CASE row.payload = << >>
  <2>1. Found.frames[f] = old
    BY <1>3, <1>4, <1>6, <1>8, FeedFlow, Zenon
  <2>2. SubSeq(old, m + 1, m) = << >>
    <3>1. m <= Len(old) /\ m + 1 \in Nat \ {0} /\ ~(m + 1 <= m)
      BY <1>7
    <3>2. SubSeq(old, m + 1, m) \in Seq(Frame) /\ Len(SubSeq(old, m + 1, m)) = 0
      BY <3>1, PartOf
    <3>. QED
      BY <3>2, EmptySeq
  <2>3. Drain(row.payload, FALSE).frames = << >>
    <3>1. Drain(<< >>, FALSE) = [code |-> "MORE", frames |-> << >>, rest |-> << >>]
      BY DrainEmpty
    <3>2. [code |-> "MORE", frames |-> << >>, rest |-> << >>].frames = << >>
      OBVIOUS
    <3>. QED
      BY <1>8, <3>1, <3>2, Zenon
  <2>. QED
    BY <1>1, <1>2, <1>3, <1>4, <1>6, <1>7, <2>1, <2>2, <2>3, Zenon
<1>9. CASE row.payload # << >>
  <2>1. before.buffers[f] \o row.payload = row.payload
    BY <1>4, ConcatEmptySeq
  <2>2. PICK more \in Seq(Frame) : more = Drain(row.payload, FALSE).frames
    <3>1. Drain(row.payload, FALSE).frames \in Seq(Frame)
      BY <1>4, DrainOne
    <3>. QED
      BY <3>1
  <2>3. PICK all : all = Found.frames[f] /\ all = old \o more
    <3>1. LET drained == Drain(before.buffers[f] \o row.payload, FALSE)
          IN  Feed(before, row).frames[f] = before.frames[f] \o drained.frames
      BY <1>3, <1>4, <1>5, <1>9, FeedFlow
    <3>. QED
      BY <1>3, <1>6, <2>1, <2>2, <3>1, Zenon
  <2>4. PICK d \in Nat : d = Len(more)
    BY LenProperties
  <2>5. /\ all \in Seq(Frame) /\ Len(all) = m + d
        /\ \A i \in 1..d : all[m + i] = more[i]
    <3>1. /\ old \o more \in Seq(Frame) /\ Len(old \o more) = Len(old) + Len(more)
          /\ \A i \in 1..Len(more) : (old \o more)[Len(old) + i] = more[i]
      BY ConcatIs
    <3>. QED
      BY <1>7, <2>3, <2>4, <3>1, Zenon
  <2>6. Between(all, m, m + d) = more
    <3>1. m + d \in 0..Len(all) /\ m \in 0..m + d /\ (m + d) - m = d
      BY <2>5
    <3>2. /\ Between(all, m, m + d) \in Seq(Frame) /\ Len(Between(all, m, m + d)) = (m + d) - m
          /\ \A i \in 1..(m + d) - m : Between(all, m, m + d)[i] = all[m + i]
      BY <2>5, <3>1, BetweenIs
    <3>3. PICK b : b = Between(all, m, m + d)
      OBVIOUS
    <3>4. b \in Seq(Frame) /\ Len(b) = d /\ \A i \in 1..d : b[i] = all[m + i]
      BY <3>1, <3>2, <3>3, Zenon
    <3>5. b = more
      <4>1. Len(b) = Len(more) /\ \A i \in 1..Len(b) : b[i] = more[i]
        BY <2>4, <2>5, <3>4, Zenon
      <4>2. b \in Seq(Frame)
        BY <3>4
      <4>. QED
        BY <4>1, <4>2, SeqEqual
    <3>. QED
      BY <3>3, <3>5
  <2>. QED
    BY <1>1, <1>2, <1>3, <1>4, <1>6, <1>7, <2>2, <2>3, <2>5, <2>6, Zenon DEF Between
<1>. QED
  BY <1>8, <1>9

\* Where a header starts in a stream, an item starts.
LEMMA HeaderAt ==
  ASSUME NEW w \in Seq(Items), NEW bytes, bytes = Before(w, Len(w)),
         NEW j \in 1..Len(bytes), bytes[j].at = 1
  PROVE  \E m \in 1..Len(w) : bytes[j].of = w[m] /\ Ends(w, m) = j + 2 + w[m].length
<1>0. PICK l \in Nat : l = Len(w)
  BY LenProperties
<1>1. Ends(w, 0) = 0 /\ \A k \in 0..l : Ends(w, k) \in Nat
  BY <1>0, EndsAre, Zenon
<1>2. \A k \in 0..l - 1 : /\ w[k + 1] \in Items /\ Ends(w, k + 1) = Ends(w, k) + Size(w[k + 1])
                          /\ HasChunk(bytes, Ends(w, k), Encode(w[k + 1]))
  BY <1>0, EndsAre, Zenon
<1>. DEFINE Good(i, n) == \E m \in 1..n : bytes[i].of = w[m] /\ Ends(w, m) = i + 2 + w[m].length
            P(n) == n <= l => \A i \in 1..Ends(w, n) : bytes[i].at = 1 => Good(i, n)
            T == {n \in Nat : P(n)}
<1>3. P(0)
  BY <1>1
<1>4. ASSUME NEW n \in Nat, P(n) PROVE P(n + 1)
  <2>. SUFFICES ASSUME n + 1 <= l, NEW i \in 1..Ends(w, n + 1), bytes[i].at = 1 PROVE Good(i, n + 1)
    OBVIOUS
  <2>1. n \in 0..l - 1 /\ n \in 0..l /\ n + 1 \in 0..l /\ n <= l
    BY <1>0
  <2>2. PICK o \in Nat : o = Ends(w, n)
    BY <1>1, <2>1
  <2>3. PICK it \in Items : it = w[n + 1] /\ Ends(w, n + 1) = o + Size(it) /\ HasChunk(bytes, o, Encode(it))
    BY <1>2, <2>1, <2>2
  <2>4. it.length \in Nat /\ Size(it) = 3 + it.length /\ HeaderSize + it.length + MacSize = 3 + it.length
    <3>1. it.length \in Nat
      BY EncodeIs, MaxPayloadAssumption
    <3>. QED
      BY <3>1 DEF Size, HeaderSize, MacSize
  <2>5. CASE i <= o
    <3>1. i \in 1..Ends(w, n)
      BY <2>2, <2>5
    <3>2. PICK m \in 1..n : bytes[i].of = w[m] /\ Ends(w, m) = i + 2 + w[m].length
      BY <1>4, <2>1, <3>1
    <3>3. m \in 1..n + 1
      OBVIOUS
    <3>. QED
      BY <3>2, <3>3, Zenon
  <2>6. CASE ~(i <= o)
    <3>1. PICK k \in 1..3 + it.length : i = o + k
      <4>1. i - o \in 1..3 + it.length /\ i = o + (i - o)
        BY <2>3, <2>4, <2>6
      <4>. QED
        BY <4>1
    <3>2. bytes[o + k] = [of |-> it, at |-> k]
      <4>1. Encode(it)[k] = [of |-> it, at |-> k] /\ Len(Encode(it)) = 3 + it.length
        BY <2>4, EncodeIs
      <4>. QED
        BY <2>3, <4>1, Zenon DEF HasChunk
    <3>3. k = 1 /\ bytes[i].of = it
      BY <3>1, <3>2
    <3>4. Ends(w, n + 1) = i + 2 + it.length
      <4>1. k = 1
        BY <3>3, Zenon
      <4>2. \A y \in Nat : o + (3 + y) = o + 1 + 2 + y
        OBVIOUS
      <4>. QED
        BY <2>3, <2>4, <3>1, <4>1, <4>2, Zenon
    <3>5. n + 1 \in 1..n + 1
      OBVIOUS
    <3>. QED
      BY <2>3, <3>3, <3>4, <3>5, Zenon
  <2>. QED
    BY <2>5, <2>6
<1>. HIDE DEF P
<1>5. T = Nat
  <2>1. 0 \in Nat /\ \A n \in Nat : n + 1 \in Nat
    OBVIOUS
  <2>2. T \in SUBSET Nat /\ 0 \in T /\ \A n \in T : n + 1 \in T
    BY <1>3, <1>4, <2>1, Zenon
  <2>. HIDE DEF T
  <2>. QED
    BY <2>2, Induction
<1>6. P(l) /\ l <= l
  BY <1>5
<1>7. j \in 1..Ends(w, l)
  BY <1>0 DEF Ends
<1>. QED
  BY <1>0, <1>6, <1>7, Zenon DEF P

\* The frames are of items that end at the b-th byte of their stream, or before.
EndBy(w, frames, b) ==
  \A i \in 1..Len(frames) : \E m \in 1..Len(w) : frames[i] = Written(w[m]) /\ Ends(w, m) <= b

\* The frames found in a part of a stream are of items that end in it.
LEMMA FramesEnd ==
  ASSUME NEW w \in Seq(Items), NEW bytes \in Seq(Byte), bytes = Before(w, Len(w)),
         NEW b \in 0..Len(bytes), NEW a \in 0..b,
         NEW frames, frames = Drain(Between(bytes, a, b), FALSE).frames
  PROVE  EndBy(w, frames, b)
<1>. SUFFICES ASSUME NEW i \in 1..Len(frames)
              PROVE  \E m \in 1..Len(w) : frames[i] = Written(w[m]) /\ Ends(w, m) <= b
  BY Zenon DEF EndBy
<1>1. PICK p \in Seq(Byte) : /\ p = Between(bytes, a, b) /\ Len(p) = b - a
                             /\ \A k \in 1..b - a : p[k] = bytes[a + k]
  <2>1. /\ Between(bytes, a, b) \in Seq(Byte) /\ Len(Between(bytes, a, b)) = b - a
        /\ \A k \in 1..b - a : Between(bytes, a, b)[k] = bytes[a + k]
    BY BetweenIs
  <2>. QED
    BY <2>1
<1>2. Adjacent(p)
  <2>1. Len(w) \in 0..Len(w) /\ a + 1 \in Nat \ {0} /\ b \in Nat /\ b <= Len(bytes)
    BY LenProperties
  <2>2. Adjacent(bytes)
    BY <2>1, WholeBefore, Zenon DEF Whole
  <2>3. Adjacent(SubSeq(bytes, a + 1, b))
    BY <2>1, <2>2, AdjacentPart
  <2>. QED
    BY <1>1, <2>3, Zenon DEF Between
<1>3. Unspliced(p)
  <2>1. ASSUME NEW k \in 1..Len(p) - 1, p[k].at = 1, p[k + 1].at = 2 PROVE p[k].of = p[k + 1].of
    <3>1. Follows(p[k], p[k + 1])
      BY <1>2 DEF Adjacent
    <3>2. p[k + 1] = [of |-> p[k].of, at |-> p[k].at + 1]
      BY <2>1, <3>1 DEF Follows
    <3>. QED
      BY <3>2
  <2>. QED
    BY <2>1 DEF Unspliced
<1>4. PICK n : /\ n = Len(p) - Len(KeptOf(Drain(p, FALSE))) /\ Located(p, frames, n)
               /\ Len(KeptOf(Drain(p, FALSE))) \in 0..Len(p)
  <2>1. Analysed(p, frames, KeptOf(Drain(p, FALSE)))
    BY <1>1, <1>3, DrainAnalysed, Zenon
  <2>. QED
    BY <2>1, Zenon DEF Analysed
<1>5. PICK k \in 1..n : Finds(p, k, frames[i])
  BY <1>4 DEF Located
<1>6. k \in 1..Len(p) /\ a + k \in 1..Len(bytes)
  <2>1. Len(p) \in Nat /\ Len(bytes) \in Nat
    BY <1>1, LenProperties
  <2>2. PICK x \in 0..Len(p) : n = Len(p) - x
    BY <1>4, Zenon
  <2>3. Len(p) = b - a
    BY <1>1, Zenon
  <2>. QED
    BY <2>1, <2>2, <2>3
<1>7. /\ bytes[a + k].at = 1 /\ frames[i] = Written(bytes[a + k].of)
      /\ k + 2 + bytes[a + k].of.length <= b - a
  <2>1. p[k] = bytes[a + k]
    BY <1>1, <1>6
  <2>. QED
    BY <1>1, <1>5, <2>1, Zenon DEF Finds
<1>8. PICK m \in 1..Len(w) : bytes[a + k].of = w[m] /\ Ends(w, m) = a + k + 2 + w[m].length
  BY <1>6, <1>7, HeaderAt
<1>9. Ends(w, m) <= b
  <2>1. w[m].length \in Nat
    <3>1. w[m] \in Items
      BY ElementOfSeq
    <3>. QED
      BY <3>1, EncodeIs, MaxPayloadAssumption
  <2>2. k + 2 + w[m].length <= b - a
    BY <1>7, <1>8, Zenon
  <2>. QED
    BY <1>6, <1>8, <2>1, <2>2
<1>. QED
  BY <1>7, <1>8, <1>9, Zenon

\* No segment ends behind what has left.
LEMMA CutLast ==
  ASSUME NEW f \in Flow, NEW size \in Nat, NEW segs, Cut(f, segs, size), NEW j \in 1..Len(segs)
  PROVE  segs[j].last <= Cuts(segs)
<1>0. segs \in Seq(Segment) /\ \A i \in 1..Len(segs) : segs[i] \in Segment
  <2>1. segs \in Seq(Segment)
    BY Zenon DEF Cut
  <2>. QED
    BY <2>1, ElementOfSeq
<1>1. PICK l \in Nat : l = Len(segs)
  BY <1>0, LenProperties
<1>2. \A i \in 1..l : segs[i].first \in Nat /\ segs[i].last \in Nat
  BY <1>0, <1>1 DEF Segment
<1>3. \A i \in 1..l : segs[i].first = (IF i = 1 THEN 1 ELSE segs[i - 1].last + 1) /\ segs[i].first <= segs[i].last
  BY <1>1, Zenon DEF Cut
<1>. DEFINE P(n) == j + n <= l => segs[j].last <= segs[j + n].last
            T == {n \in Nat : P(n)}
<1>4. P(0)
  <2>1. j + 0 = j /\ segs[j].last \in Nat
    BY <1>1, <1>2
  <2>. QED
    BY <2>1
<1>5. ASSUME NEW n \in Nat, P(n) PROVE P(n + 1)
  <2>. SUFFICES ASSUME j + (n + 1) <= l PROVE segs[j].last <= segs[j + (n + 1)].last
    OBVIOUS
  <2>1. PICK i \in 1..l : i = j + (n + 1) /\ i # 1 /\ i - 1 = j + n /\ i - 1 \in 1..l /\ j \in 1..l
    BY <1>1
  <2>2. segs[j].last <= segs[i - 1].last
    BY <1>5, <2>1
  <2>3. segs[i].first = segs[i - 1].last + 1 /\ segs[i].first <= segs[i].last
    BY <1>3, <2>1
  <2>4. segs[i].first \in Nat /\ segs[i].last \in Nat /\ segs[i - 1].last \in Nat /\ segs[j].last \in Nat
    BY <1>2, <2>1
  <2>5. segs[j].last <= segs[i].last
    BY <2>2, <2>3, <2>4
  <2>. QED
    BY <2>1, <2>5, Zenon
<1>. HIDE DEF P
<1>6. T = Nat
  <2>1. T \in SUBSET Nat /\ 0 \in T /\ \A n \in T : n + 1 \in T
    BY <1>4, <1>5
  <2>. HIDE DEF T
  <2>. QED
    BY <2>1, Induction
<1>7. segs[j].last <= segs[l].last
  <2>1. l - j \in Nat /\ j + (l - j) = l /\ l <= l
    BY <1>1
  <2>2. P(l - j)
    BY <1>6, <2>1
  <2>. QED
    BY <2>1, <2>2, Zenon DEF P
<1>8. Cuts(segs) = segs[l].last
  <2>1. segs # << >>
    BY <1>0, <1>1, EmptySeq
  <2>. QED
    BY <1>1, <2>1, Zenon DEF Cuts, Last
<1>. QED
  BY <1>7, <1>8

LEMMA SeenSent ==
  ASSUME CaptureInv, NEW i \in 1..Len(seen)
  PROVE  seen[i].last <= Sent(seen[i].flow)
<1>1. PICK s : s = seen[i]
  OBVIOUS
<1>2. PICK f \in Flow : s \in ToSet(segments[f]) \cup {Empty(f)}
  BY <1>1 DEF CaptureInv, Captured
<1>3. PICK size \in Nat : size = Len(Bytes(f)) /\ Cut(f, segments[f], size)
  BY BytesIs DEF CaptureInv
<1>4. PICK segs \in Seq(Segment) : segs = segments[f] /\ Cut(f, segs, size)
  BY <1>3, Zenon DEF Cut
<1>5. Sent(f) = Cuts(segs) /\ Cuts(segs) \in 0..size
  BY <1>4, CutsIs, Zenon DEF Sent, Cuts
<1>6. CASE s \in ToSet(segments[f])
  <2>1. DOMAIN segs = 1..Len(segs)
    BY LenProperties
  <2>2. PICK j \in 1..Len(segs) : s = segs[j]
    BY <1>4, <1>6, <2>1 DEF ToSet
  <2>3. s.flow = f
    BY <1>4, <2>2 DEF Cut
  <2>4. segs[j].last <= Cuts(segs)
    BY <1>4, CutLast
  <2>. QED
    BY <1>1, <1>5, <2>2, <2>3, <2>4, Zenon
<1>7. CASE s = Empty(f)
  <2>1. s.flow = f /\ s.last = 0
    BY <1>7 DEF Empty
  <2>2. 0 <= Cuts(segs)
    BY <1>5
  <2>. QED
    BY <1>1, <1>5, <2>1, <2>2, Zenon
<1>. QED
  BY <1>2, <1>6, <1>7

\* Every frame is one of all.
Among(frames, all) == \A i \in 1..Len(frames) : \E m \in 1..Len(all) : frames[i] = all[m]

\* Of a capture that misses nothing of a sender without faults, what a row shows
\* by itself is among the frames.
LEMMA IntactFrames ==
  ASSUME CaptureInv, NEW i \in 1..Len(seen), NEW f, f = seen[i].flow, Intact(f), Faultless(f),
         NEW found, found = Drain(Rows[i].payload, FALSE).frames
  PROVE  Among(found, Found.frames[f])
<1>. SUFFICES ASSUME NEW j \in 1..Len(found)
              PROVE  \E m \in 1..Len(Found.frames[f]) : found[j] = Found.frames[f][m]
  BY Zenon DEF Among
<1>0. PICK x : x = found[j]
  OBVIOUS
<1>1. PICK s : /\ s = seen[i] /\ s \in Segment /\ s.flow \in Flow /\ s.flow = f
               /\ s.first \in Nat \ {0} /\ s.last \in Nat /\ s.last <= Len(Bytes(f))
               /\ (s = Empty(f) \/ s.first <= s.last)
  BY SeenIs, Zenon
<1>2. PICK w \in Seq(Items) : w = wire[f] /\ Bytes(f) = Before(w, Len(w))
  BY <1>1, BytesIs DEF CaptureInv
<1>3. PICK l \in Nat : l = Len(w) /\ DOMAIN w = 1..l
  BY LenProperties
<1>4. PICK bytes \in Seq(Byte) : bytes = Before(w, Len(w)) /\ bytes = Bytes(f)
  BY <1>2, EndsAre
<1>5. PICK b \in 0..Len(bytes) : b = s.last
  <2>1. Len(bytes) \in Nat
    BY LenProperties
  <2>. QED
    BY <1>1, <1>4, <2>1
<1>6. PICK a \in 0..b : a + 1 = s.first
  <2>1. s.first <= s.last + 1
    <3>1. CASE s = Empty(f)
      <4>1. s.first = 1 /\ s.last = 0
        BY <3>1 DEF Empty
      <4>. QED
        BY <4>1
    <3>2. CASE s.first <= s.last
      BY <1>1, <3>2
    <3>. QED
      BY <1>1, <3>1, <3>2
  <2>2. s.first - 1 \in 0..b /\ (s.first - 1) + 1 = s.first
    BY <1>1, <1>5, <2>1
  <2>. QED
    BY <2>2
<1>7. Rows[i].payload = Between(bytes, a, b)
  <2>1. Rows[i].payload = Payload(s)
    BY <1>1, IntactRow
  <2>. QED
    BY <1>1, <1>4, <1>5, <1>6, <2>1, Zenon DEF Payload, Between
<1>8. PICK m \in 1..l : x = Written(w[m]) /\ Ends(w, m) <= b
  <2>1. PICK frames : frames = Drain(Between(bytes, a, b), FALSE).frames
    OBVIOUS
  <2>2. j \in 1..Len(frames) /\ x = frames[j]
    BY <1>0, <1>7, <2>1, Zenon
  <2>3. EndBy(w, frames, b)
    BY <1>4, <2>1, FramesEnd, Zenon
  <2>. QED
    BY <1>3, <2>2, <2>3, Zenon DEF EndBy
<1>9. PICK t : t = Sent(f) /\ t \in Nat /\ b <= t
  <2>1. s.last <= Sent(f)
    BY <1>1, SeenSent, Zenon
  <2>2. Sent(f) \in 0..Ends(wire[f], Len(wire[f]))
    BY <1>1, IntactOut
  <2>. QED
    BY <1>5, <2>1, <2>2
<1>10. PICK all, kept : all = Found.frames[f] /\ OutFrom(w, 0, t, all, kept)
  BY <1>1, <1>2, <1>9, IntactOut, Zenon
<1>11. PICK k \in 0..l : /\ Begin(w, 0, k - 0, all)
                         /\ (Len(all) = k - 0 /\ Stops(w, k, t, kept)) \/ Fails(w, k, t)
  BY <1>3, <1>10, Zenon DEF OutFrom
<1>12. k - 0 = k /\ \A h \in 1..k : 0 + h = h
  OBVIOUS
<1>13. ~Fails(w, k, t)
  <2>. SUFFICES ASSUME k < l, w[k + 1].faults # {} PROVE FALSE
    BY <1>3 DEF Fails
  <2>1. k + 1 \in DOMAIN w
    BY <1>3
  <2>. QED
    BY <1>2, <2>1 DEF Faultless
<1>14. m <= k
  <2>. SUFFICES ASSUME k < m PROVE FALSE
    OBVIOUS
  <2>1. k < l /\ k + 1 \in 0..l /\ m \in k + 1..l /\ m \in 0..l
    OBVIOUS
  <2>2. Ends(w, k + 1) <= Ends(w, m) /\ Ends(w, k + 1) \in Nat /\ Ends(w, m) \in Nat
    BY <1>3, <2>1, EndsAre, Zenon
  <2>3. Ends(w, k + 1) <= t
    BY <1>8, <1>9, <2>2
  <2>. QED
    BY <1>3, <1>11, <1>13, <2>1, <2>3, Zenon DEF Stops
<1>15. all[m] = Written(w[m]) /\ m \in 1..Len(all)
  <2>1. m \in 1..k
    BY <1>14
  <2>2. Len(all) = k /\ \A h \in 1..k : all[h] = Written(w[h])
    BY <1>11, <1>12, <1>13 DEF Begin
  <2>. QED
    BY <2>1, <2>2
<1>. QED
  BY <1>0, <1>8, <1>10, <1>15, Zenon

(* The per-packet scan claims only frames that are there, and reassembly   *)
(* misses none of them: a direction followed from the start of a packet    *)
(* yields exactly what the scan (try_parse_wireline) finds there, also     *)
(* after an error has emptied its buffer; and in a capture that misses     *)
(* nothing every frame scanned is among the reassembled                    *)
(* (reassemble_flows).                                                     *)
THEOREM CaptureScanAgrees == Spec => []ScanAgrees
<1>1. CaptureInv => ScanAgrees
  <2>. SUFFICES ASSUME CaptureInv, seen # << >>
                PROVE  LET row    == Last(Rows)
                           f      == row.flow
                           before == Reassemble(Front(Rows))
                           all    == Found.frames[f]
                           fresh  == SubSeq(all, Len(before.frames[f]) + 1, Len(all))
                       IN  Faultless(f) =>
                             /\ before.buffers[f] = << >> => Scan(row.payload) = HeadsOf(fresh)
                             /\ Intact(f) => ToSet(Scan(row.payload)) \subseteq ToSet(HeadsOf(all))
    BY Zenon DEF ScanAgrees, HeadsOf
  <2>1. PICK row : row = Last(Rows)
    OBVIOUS
  <2>2. PICK f : f = row.flow
    OBVIOUS
  <2>3. PICK before : before = Reassemble(Front(Rows))
    OBVIOUS
  <2>. SUFFICES ASSUME Faultless(f)
                PROVE  /\ before.buffers[f] = << >> =>
                            Scan(row.payload) = HeadsOf(SubSeq(Found.frames[f], Len(before.frames[f]) + 1,
                                                               Len(Found.frames[f])))
                       /\ Intact(f) => ToSet(Scan(row.payload)) \subseteq ToSet(HeadsOf(Found.frames[f]))
    BY <2>1, <2>2, <2>3, Zenon
  <2>4. PICK n \in 1..Len(seen) : row = Rows[n] /\ row \in Row /\ f \in Flow /\ Found.frames[f] \in Seq(Frame)
    <3>1. Len(seen) \in Nat \ {0} /\ Len(seen) \in 1..Len(seen)
      <4>1. Len(seen) \in Nat \ {0}
        BY EmptySeq, LenProperties DEF CaptureInv
      <4>. QED
        BY <4>1
    <3>2. Rows \in Seq(Row) /\ Len(Rows) = Len(seen)
      BY RowsAre
    <3>3. Rows # << >>
      BY <3>1, <3>2
    <3>4. row \in Row /\ row = Rows[Len(seen)] /\ before \in Flows /\ Found = Feed(before, row)
      BY <2>1, <2>3, <3>2, <3>3, ReassembleLast, Zenon DEF Found
    <3>5. f \in Flow
      BY <2>2, <3>4 DEF Row
    <3>6. Found \in Flows
      BY <3>4, FeedIs
    <3>7. Found.frames[f] \in Seq(Frame)
      BY <3>5, <3>6 DEF Flows
    <3>. QED
      BY <3>1, <3>4, <3>5, <3>7, Zenon
  <2>5. row.flow = seen[n].flow /\ row.payload = PayloadOf(seen[n]) /\ f = seen[n].flow /\ row.payload \in Seq(Byte)
    BY <2>2, <2>4, RowIs, Zenon
  <2>6. PICK frames \in Seq(Frame) : frames = Drain(row.payload, FALSE).frames
    <3>1. Drain(row.payload, FALSE).frames \in Seq(Frame)
      BY <2>5, DrainOne
    <3>. QED
      BY <3>1
  <2>7. Scan(row.payload) = HeadsOf(frames)
    <3>1. Sound(row.payload)
      BY <2>5, PayloadSound, Zenon
    <3>. QED
      BY <2>5, <2>6, <3>1, ScanIs, Zenon
  <2>8. ASSUME before.buffers[f] = << >>
        PROVE  SubSeq(Found.frames[f], Len(before.frames[f]) + 1, Len(Found.frames[f])) = frames
    BY <2>1, <2>2, <2>3, <2>6, <2>8, FreshIs, Zenon
  <2>9. ASSUME Intact(f) PROVE ToSet(HeadsOf(frames)) \subseteq ToSet(HeadsOf(Found.frames[f]))
    <3>1. PICK all \in Seq(Frame) : all = Found.frames[f]
      BY <2>4
    <3>2. /\ HeadsOf(frames) \in Seq(FrameHead) /\ Len(HeadsOf(frames)) = Len(frames)
          /\ \A i \in 1..Len(frames) :
               HeadsOf(frames)[i] = [kind |-> frames[i].kind, number |-> frames[i].number]
      BY HeadsAre
    <3>3. /\ HeadsOf(all) \in Seq(FrameHead) /\ Len(HeadsOf(all)) = Len(all)
          /\ \A i \in 1..Len(all) : HeadsOf(all)[i] = [kind |-> all[i].kind, number |-> all[i].number]
      BY HeadsAre
    <3>4. DOMAIN HeadsOf(frames) = 1..Len(frames) /\ DOMAIN HeadsOf(all) = 1..Len(all)
      BY <3>2, <3>3, LenProperties
    <3>5. ASSUME NEW i \in 1..Len(frames) PROVE HeadsOf(frames)[i] \in ToSet(HeadsOf(all))
      <4>1. PICK m \in 1..Len(all) : frames[i] = all[m]
        <5>1. frames = Drain(Rows[n].payload, FALSE).frames
          BY <2>4, <2>6, Zenon
        <5>2. Among(frames, Found.frames[f])
          BY <2>5, <2>9, <5>1, IntactFrames, Zenon
        <5>. QED
          BY <3>1, <5>2, Zenon DEF Among
      <4>2. HeadsOf(frames)[i] = HeadsOf(all)[m]
        BY <3>2, <3>3, <4>1, Zenon
      <4>. QED
        BY <3>4, <4>2 DEF ToSet
    <3>. QED
      BY <3>1, <3>4, <3>5 DEF ToSet
  <2>. QED
    BY <2>7, <2>8, <2>9, Zenon
<1>. QED
  BY <1>1, CaptureInvariant, PTL
=============================================================================
