---------------------------- MODULE ManifestProofs ----------------------------
(***************************************************************************)
(* Theorems about modules Manifest and Picker: the order of the entries,   *)
(* which of them a collection keeps, and the entry that the picker finds.  *)
(* For every set of hashes, every clock, every max_snapshots and every     *)
(* length of the manifest.                                                 *)
(*                                                                         *)
(* The operators are folds over the positions of the slice.  An induction  *)
(* over positions is the least position that a claim fails at (Least).     *)
(***************************************************************************)
EXTENDS Picker, FiniteSetTheorems, SequenceTheorems, WellFoundedInduction, TLAPS

-----------------------------------------------------------------------------
(* Least and greatest numbers, and the recursion of a fold.                *)

\* A set of natural numbers has a least one.
LEMMA Least ==
  ASSUME NEW T, T \subseteq Nat, T # {}
  PROVE  \E n \in T : \A k \in T : n <= k
<1> DEFINE R == OpToRel(<, Nat)
<1>1. IsWellFoundedOn(R, Nat)
  BY NatLessThanWellFounded
<1>2. ASSUME NEW x \in Nat, NEW y \in Nat
      PROVE  <<y, x>> \in R <=> y < x
  BY DEF OpToRel
<1> HIDE DEF R
<1>3. PICK x \in T : \A y \in T : <<y, x>> \notin R
  BY <1>1, WFMin
<1>4. ASSUME NEW y \in T
      PROVE  x <= y
  <2>1. x \in Nat /\ y \in Nat
    OBVIOUS
  <2>2. ~(y < x)
    BY <1>2, <1>3, <2>1
  <2> QED
    BY <2>1, <2>2
<1> QED
  BY <1>4

\* What holds at 0 and goes from each number to the next holds of all.
LEMMA Onward ==
  ASSUME NEW P, 0 \in P, \A n \in Nat : n \in P => n + 1 \in P
  PROVE  Nat \subseteq P
<1> SUFFICES ASSUME Nat \ P # {} PROVE FALSE
  OBVIOUS
<1> DEFINE T == Nat \ P
<1>1. PICK n \in T : \A k \in T : n <= k
  <2> HIDE DEF T
  <2>1. T \subseteq Nat /\ T # {}
    BY DEF T
  <2> QED
    BY <2>1, Least
<1>2. n # 0 /\ n - 1 \in Nat
  OBVIOUS
<1>3. n - 1 \in P
  BY <1>1, <1>2
<1> QED
  BY <1>2, <1>3

\* The positions up to the next one.
LEMMA UpTo ==
  ASSUME NEW k \in Nat, NEW n \in Nat, k + 1 <= n
  PROVE  (1 .. k + 1) \ {k + 1} = 1 .. k /\ 1 .. k + 1 \subseteq 1 .. n /\ k + 1 \in 1 .. k + 1
OBVIOUS

\* What Max picks, if there is a greatest number.
LEMMA MaxIs ==
  ASSUME NEW S \in SUBSET Int, NEW n \in S, \A k \in S : k <= n
  PROVE  Max(S) = n
<1>1. \E x \in S : \A y \in S : x >= y
  OBVIOUS
<1>2. Max(S) \in S /\ \A y \in S : Max(S) >= y
  BY <1>1 DEF Max
<1>3. Max(S) \in Int /\ n \in Int /\ Max(S) >= n /\ Max(S) <= n
  BY <1>2
<1> QED
  BY <1>3

\* Positions have a last one.
LEMMA MaxIn ==
  ASSUME NEW n \in Nat, NEW S \in SUBSET (1 .. n), S # {}
  PROVE  Max(S) \in S /\ \A k \in S : k <= Max(S)
<1> DEFINE T == {n - k : k \in S}
<1>1. T \subseteq Nat /\ T # {}
  <2>1. \A k \in S : n - k \in Nat
    OBVIOUS
  <2> QED
    BY <2>1
<1>2. PICK x \in T : \A y \in T : x <= y
  <2> HIDE DEF T
  <2> QED
    BY <1>1, Least
<1>3. PICK k \in S : x = n - k
  BY <1>2
<1>4. ASSUME NEW j \in S
      PROVE  j <= k
  <2>1. j \in Int /\ k \in Int /\ n - j \in T
    OBVIOUS
  <2>2. n - k <= n - j
    BY <1>2, <1>3, <2>1
  <2> QED
    BY <2>1, <2>2
<1>5. S \in SUBSET Int
  OBVIOUS
<1>6. Max(S) = k
  BY <1>4, <1>5, MaxIs
<1> QED
  BY <1>4, <1>6

\* And a first one.
LEMMA MinIs ==
  ASSUME NEW S \in SUBSET Nat, S # {}
  PROVE  Min(S) \in S /\ \A k \in S : Min(S) <= k
<1>1. \E x \in S : \A y \in S : x <= y
  BY Least
<1> QED
  BY <1>1 DEF Min

\* g folds f over the sets of positions of m.
FoldsWith(V, f, base, n, m, g) ==
  /\ g \in [SUBSET (1 .. n) -> V]
  /\ \A S \in SUBSET (1 .. n) :
       g[S] = IF S = {} THEN base ELSE f[<<g[S \ {Max(S)}], m[Max(S)]>>]

\* The recursion of a fold has a solution, for each number of positions.
LEMMA FoldExists ==
  ASSUME NEW V, NEW E, NEW f \in [V \X E -> V], NEW base \in V,
         NEW n \in Nat, NEW m \in [1 .. n -> E]
  PROVE  \E g : FoldsWith(V, f, base, n, m, g)
<1> DEFINE Folds(k, g) == FoldsWith(V, f, base, k, m, g)
           P == {k \in Nat : k <= n => \E g : Folds(k, g)}
<1>1. 0 \in P
  <2> DEFINE g == [S \in SUBSET (1 .. 0) |-> base]
  <2>1. \A S \in SUBSET (1 .. 0) : S = {}
    OBVIOUS
  <2>2. Folds(0, g)
    BY <2>1 DEF FoldsWith
  <2> QED
    BY <2>2
<1>2. ASSUME NEW k \in Nat, k \in P
      PROVE  k + 1 \in P
  <2> SUFFICES ASSUME k + 1 <= n
               PROVE  \E g : Folds(k + 1, g)
    OBVIOUS
  <2>1. PICK g : Folds(k, g)
    BY <1>2
  <2> DEFINE G == [S \in SUBSET (1 .. (k + 1)) |->
                     IF k + 1 \in S THEN f[<<g[S \ {k + 1}], m[k + 1]>>] ELSE g[S]]
  <2>2. \A S \in SUBSET (1 .. (k + 1)) :
           /\ S \ {k + 1} \in SUBSET (1 .. k)
           /\ k + 1 \notin S => S \in SUBSET (1 .. k)
    OBVIOUS
  <2>3. m[k + 1] \in E
    OBVIOUS
  <2>4. G \in [SUBSET (1 .. (k + 1)) -> V]
    BY <2>1, <2>2, <2>3 DEF FoldsWith
  <2>5. ASSUME NEW S \in SUBSET (1 .. (k + 1)), k + 1 \in S
        PROVE  G[S] = IF S = {} THEN base ELSE f[<<G[S \ {Max(S)}], m[Max(S)]>>]
    <3>1. Max(S) = k + 1
      <4>1. S \in SUBSET Int /\ \A j \in S : j <= k + 1
        OBVIOUS
      <4> QED
        BY <2>5, <4>1, MaxIs
    <3>2. S \ {k + 1} \in SUBSET (1 .. (k + 1))
      OBVIOUS
    <3>3. G[S \ {k + 1}] = g[S \ {k + 1}]
      BY <3>2
    <3> QED
      BY <2>5, <3>1, <3>3
  <2>6. ASSUME NEW S \in SUBSET (1 .. (k + 1)), k + 1 \notin S
        PROVE  G[S] = IF S = {} THEN base ELSE f[<<G[S \ {Max(S)}], m[Max(S)]>>]
    <3> DEFINE s == S \ {Max(S)}
    <3>1. S \in SUBSET (1 .. k) /\ s \in SUBSET (1 .. (k + 1)) /\ k + 1 \notin s
      BY <2>2, <2>6
    <3>2. G[S] = g[S] /\ G[s] = g[s]
      BY <2>6, <3>1
    <3> QED
      BY <2>1, <3>1, <3>2 DEF FoldsWith
  <2>7. Folds(k + 1, G)
    BY <2>4, <2>5, <2>6 DEF FoldsWith
  <2> QED
    BY <2>7
<1>3. n \in P
  <2> HIDE DEF P
  <2> QED
    BY <1>1, <1>2, Onward
<1> QED
  BY <1>3

-----------------------------------------------------------------------------
(* The sort.                                                               *)

\* The i-th entry belongs before the j-th.
Before(m, i, j) == After(m[i], m[j]) \/ (i < j /\ ~After(m[j], m[i]))

\* What an insertion does: s comes behind the entries it is not after, and
\* before one that it is after.
LEMMA InsertFacts ==
  ASSUME NEW m \in Seq(Snapshot), NEW s \in Snapshot
  PROVE  /\ Insert(m, s) \in Seq(Snapshot)
         /\ Len(Insert(m, s)) = Len(m) + 1
         /\ \E t \in 1 .. Len(m) + 1 :
              /\ \A r \in 1 .. Len(m) + 1 :
                   Insert(m, s)[r] = IF r < t THEN m[r] ELSE IF r = t THEN s ELSE m[r - 1]
              /\ \A r \in 1 .. t - 1 : ~After(s, m[r])
              /\ t <= Len(m) => After(s, m[t])
<1> DEFINE I == {i \in 1 .. Len(m) : After(s, m[i])}
<1>1. Insert(m, s) = IF I = {} \/ Min(I) = 0 THEN Append(m, s) ELSE InsertAt(m, Min(I), s)
  BY DEF Insert, SelectInSeq
<1>2. Len(m) \in Nat /\ I \in SUBSET Nat
  OBVIOUS
<1>3. CASE I = {}
  <2>1. Insert(m, s) = Append(m, s)
    BY <1>1, <1>3
  <2>2. \A r \in 1 .. Len(m) : ~After(s, m[r])
    BY <1>3
  <2> HIDE DEF I
  <2>3. \A r \in 1 .. Len(m) + 1 :
          Append(m, s)[r] = IF r < Len(m) + 1 THEN m[r]
                            ELSE IF r = Len(m) + 1 THEN s ELSE m[r - 1]
    OBVIOUS
  <2>4. Len(m) + 1 \in 1 .. Len(m) + 1 /\ ~(Len(m) + 1 <= Len(m))
    OBVIOUS
  <2>5. \A r \in 1 .. (Len(m) + 1) - 1 : ~After(s, m[r])
    BY <2>2
  <2>6. Append(m, s) \in Seq(Snapshot) /\ Len(Append(m, s)) = Len(m) + 1
    OBVIOUS
  <2> QED
    BY <2>1, <2>3, <2>4, <2>5, <2>6
<1>4. CASE I # {}
  <2> DEFINE t == Min(I)
  <2>1. t \in I /\ \A k \in I : t <= k
    BY <1>2, <1>4, MinIs
  <2>2. t \in 1 .. Len(m) /\ After(s, m[t])
    BY <2>1
  <2>3. \A r \in 1 .. t - 1 : ~After(s, m[r])
    BY <2>1, <2>2
  <2> HIDE DEF I
  <2>4. Insert(m, s) = SubSeq(m, 1, t - 1) \o <<s>> \o SubSeq(m, t, Len(m))
    <3>1. t \in Nat /\ t # 0
      BY <2>2
    <3>2. Insert(m, s) = InsertAt(m, t, s)
      BY <1>1, <1>4, <3>1
    <3> QED
      BY <3>2 DEF InsertAt
  <2> HIDE DEF t
  <2> DEFINE a == SubSeq(m, 1, t - 1)
             b == SubSeq(m, t, Len(m))
  <2>5. /\ a \in Seq(Snapshot) /\ Len(a) = t - 1 /\ \A r \in 1 .. t - 1 : a[r] = m[r]
        /\ b \in Seq(Snapshot) /\ Len(b) = Len(m) - t + 1
        /\ \A r \in 1 .. Len(m) - t + 1 : b[r] = m[t + r - 1]
    BY <2>2
  <2> HIDE DEF a, b
  <2> DEFINE c == a \o <<s>>
  <2>6. c \in Seq(Snapshot) /\ Len(c) = t /\ \A r \in 1 .. t : c[r] = IF r = t THEN s ELSE m[r]
    BY <2>2, <2>5
  <2> HIDE DEF c
  <2>7. /\ c \o b \in Seq(Snapshot) /\ Len(c \o b) = Len(m) + 1
        /\ \A r \in 1 .. Len(m) + 1 : (c \o b)[r] = IF r <= t THEN c[r] ELSE b[r - t]
    <3>1. Len(c) = t /\ Len(b) = Len(m) - t + 1 /\ t \in Nat /\ Len(m) \in Nat
      BY <2>2, <2>5, <2>6
    <3>2. c \o b \in Seq(Snapshot) /\ Len(c \o b) = Len(m) + 1
      BY <2>5, <2>6, <3>1
    <3>3. \A r \in 1 .. Len(c) + Len(b) : (c \o b)[r] = IF r <= Len(c) THEN c[r] ELSE b[r - Len(c)]
      BY <2>5, <2>6, ConcatProperties, ZenonT(30)
    <3> QED
      BY <3>1, <3>2, <3>3
  <2>8. \A r \in 1 .. Len(m) + 1 :
          (c \o b)[r] = IF r < t THEN m[r] ELSE IF r = t THEN s ELSE m[r - 1]
    <3> SUFFICES ASSUME NEW r \in 1 .. Len(m) + 1
                 PROVE  (c \o b)[r] = IF r < t THEN m[r] ELSE IF r = t THEN s ELSE m[r - 1]
      OBVIOUS
    <3> HIDE DEF b, c
    <3>1. r \in Nat /\ t \in Nat
      BY <1>2, <2>2
    <3>2. CASE r <= t
      <4>1. r \in 1 .. t /\ (c \o b)[r] = c[r]
        BY <2>2, <2>7, <3>1, <3>2
      <4>2. c[r] = IF r = t THEN s ELSE m[r]
        BY <2>6, <4>1
      <4> QED
        BY <3>1, <3>2, <4>1, <4>2
    <3>3. CASE r > t
      <4>1. (c \o b)[r] = b[r - t] /\ r - t \in 1 .. Len(m) - t + 1 /\ t + (r - t) - 1 = r - 1
        BY <1>2, <2>2, <2>7, <3>1, <3>3
      <4>2. b[r - t] = m[t + (r - t) - 1]
        BY <2>5, <4>1
      <4> QED
        BY <3>1, <3>3, <4>1, <4>2
    <3>4. r <= t \/ r > t
      BY <3>1
    <3> QED
      BY <3>2, <3>3, <3>4, Zenon
  <2>9. Insert(m, s) = c \o b
    BY <2>4 DEF a, b, c
  <2>10. t \in 1 .. Len(m) + 1 /\ (t <= Len(m) => After(s, m[t]))
    BY <1>2, <2>2
  <2> HIDE DEF c
  <2> QED
    BY <2>3, <2>7, <2>8, <2>9, <2>10
<1> QED
  BY <1>3, <1>4

\* Sorting inserts the entries one by one.
LEMMA SortUnfolds ==
  ASSUME NEW m \in Seq(Snapshot)
  PROVE  \E h : /\ h[0] = <<>> /\ h[Len(m)] = SortByTimestampDesc(m)
                /\ \A k \in 0 .. Len(m) - 1 : h[k + 1] = Insert(h[k], m[k + 1])
<1> DEFINE n == Len(m)
           V == Seq(Snapshot)
           f == [p \in V \X Snapshot |-> Insert(p[1], p[2])]
           none == <<>>
           Sorting(g) == g = [S \in SUBSET DOMAIN m |->
                              IF S = {} THEN <<>> ELSE Insert(g[S \ {Max(S)}], m[Max(S)])]
           g == CHOOSE x : Sorting(x)
<1>1. n \in Nat /\ DOMAIN m = 1 .. n /\ m \in [1 .. n -> Snapshot] /\ none \in V
  OBVIOUS
<1>2. f \in [V \X Snapshot -> V] /\ \A v \in V, e \in Snapshot : f[<<v, e>>] = Insert(v, e)
  BY InsertFacts
<1> HIDE DEF V, f, n, none, Sorting, g
<1>3. PICK x : FoldsWith(V, f, none, n, m, x)
  BY <1>1, <1>2, FoldExists
<1>4. Sorting(x)
  <2>1. ASSUME NEW S \in SUBSET (1 .. n)
        PROVE  x[S] = IF S = {} THEN none ELSE Insert(x[S \ {Max(S)}], m[Max(S)])
    <3>1. CASE S = {}
      BY <1>3, <3>1 DEF FoldsWith
    <3>2. CASE S # {}
      <4>1. Max(S) \in 1 .. n
        BY <1>1, <3>2, MaxIn
      <4>2. m[Max(S)] \in Snapshot /\ x[S \ {Max(S)}] \in V
        BY <1>1, <1>3, <4>1 DEF FoldsWith
      <4> QED
        BY <1>2, <1>3, <3>2, <4>2 DEF FoldsWith
    <3> QED
      BY <3>1, <3>2
  <2> QED
    BY <1>1, <1>3, <2>1 DEF Sorting, none, FoldsWith
<1>5. Sorting(g)
  BY <1>4 DEF g
<1>6. SortByTimestampDesc(m) = g[DOMAIN m]
  BY DEF SortByTimestampDesc, FoldLeft, MapThenFoldSet, g, Sorting
<1> DEFINE h == [k \in 0 .. n |-> g[1 .. k]]
<1>7. ASSUME NEW k \in 0 .. n - 1
      PROVE  h[k + 1] = Insert(h[k], m[k + 1])
  <2> DEFINE S == 1 .. k + 1
  <2>1. S \in SUBSET DOMAIN m /\ S # {} /\ S \ {k + 1} = 1 .. k
    <3>1. k \in Nat /\ k + 1 <= n
      BY <1>1
    <3>2. (1 .. k + 1) \ {k + 1} = 1 .. k /\ 1 .. k + 1 \subseteq 1 .. n /\ k + 1 \in 1 .. k + 1
      BY <1>1, <3>1, UpTo
    <3> QED
      BY <1>1, <3>2
  <2>2. Max(S) = k + 1
    <3>1. S \in SUBSET Int /\ k + 1 \in S /\ \A j \in S : j <= k + 1
      BY <1>1
    <3> QED
      BY <3>1, MaxIs
  <2>3. g[S] = Insert(g[1 .. k], m[k + 1])
    BY <1>5, <2>1, <2>2 DEF Sorting
  <2>4. k \in 0 .. n /\ k + 1 \in 0 .. n
    BY <1>1
  <2> QED
    BY <2>3, <2>4
<1>8. h[0] = <<>>
  <2>1. 1 .. 0 = {} /\ {} \in SUBSET DOMAIN m /\ 0 \in 0 .. n
    BY <1>1
  <2> QED
    BY <1>5, <2>1 DEF Sorting
<1>9. h[n] = SortByTimestampDesc(m)
  BY <1>1, <1>6
<1> QED
  BY <1>7, <1>8, <1>9 DEF n

\* Before is a strict order of the positions, and a total one.
LEMMA BeforeOrders ==
  ASSUME NEW m \in Seq(Snapshot)
  PROVE  /\ \A i \in DOMAIN m : m[i] \in Snapshot /\ m[i].ts \in Nat
         /\ \A i, j \in DOMAIN m : Before(m, i, j) => m[i].ts >= m[j].ts
         /\ \A i, j \in DOMAIN m : m[i].ts > m[j].ts => Before(m, i, j)
         /\ \A i, j \in DOMAIN m : m[i].ts = m[j].ts => (Before(m, i, j) <=> i < j)
<1>1. ASSUME NEW i \in DOMAIN m
      PROVE  m[i] \in Snapshot /\ m[i].ts \in Nat
  <2>1. m[i] \in Snapshot
    OBVIOUS
  <2> QED
    BY <2>1, TimeAssumption DEF Snapshot
<1> QED
  BY <1>1 DEF Before, After

\* s is the first k entries of m in their order; pi[r] is where its r-th was.
Arranges(m, k, s, pi) ==
  /\ s \in Seq(Snapshot) /\ Len(s) = k
  /\ pi \in [1 .. k -> 1 .. k]
  /\ \A i \in 1 .. k : \E r \in 1 .. k : pi[r] = i
  /\ \A r \in 1 .. k : s[r] = m[pi[r]]
  /\ \A r, q \in 1 .. k : r < q => Before(m, pi[r], pi[q])

\* The next entry inserted, the entries so far are arranged.
LEMMA ArrangesStep ==
  ASSUME NEW m \in Seq(Snapshot), NEW k \in Nat, k + 1 <= Len(m),
         NEW s, NEW pi, Arranges(m, k, s, pi)
  PROVE  \E x : Arranges(m, k + 1, Insert(s, m[k + 1]), x)
<1> DEFINE e == m[k + 1]
           S == Insert(s, e)
<1>1. /\ s \in Seq(Snapshot) /\ Len(s) = k
      /\ pi \in [1 .. k -> 1 .. k]
      /\ \A i \in 1 .. k : \E r \in 1 .. k : pi[r] = i
      /\ \A r \in 1 .. k : s[r] = m[pi[r]]
      /\ \A r, q \in 1 .. k : r < q => Before(m, pi[r], pi[q])
  BY DEF Arranges
<1>2. e \in Snapshot /\ DOMAIN m = 1 .. Len(m) /\ Len(m) \in Nat /\ k + 1 \in DOMAIN m
  OBVIOUS
<1>3. S \in Seq(Snapshot) /\ Len(S) = k + 1
  BY <1>1, <1>2, InsertFacts
<1>4. PICK t \in 1 .. k + 1 :
        /\ \A r \in 1 .. k + 1 : S[r] = IF r < t THEN s[r] ELSE IF r = t THEN e ELSE s[r - 1]
        /\ \A r \in 1 .. t - 1 : ~After(e, s[r])
        /\ t <= k => After(e, s[t])
  BY <1>1, <1>2, InsertFacts
<1> HIDE DEF S
<1> DEFINE x == [r \in 1 .. k + 1 |-> IF r < t THEN pi[r] ELSE IF r = t THEN k + 1 ELSE pi[r - 1]]
<1>5. x \in [1 .. k + 1 -> 1 .. k + 1]
  <2>1. ASSUME NEW r \in 1 .. k + 1
        PROVE  x[r] \in 1 .. k + 1
    <3>1. CASE r = t
      BY <3>1
    <3>2. CASE r < t
      <4>1. r \in 1 .. k /\ x[r] = pi[r]
        BY <3>2
      <4>2. pi[r] \in 1 .. k /\ 1 .. k \subseteq 1 .. k + 1
        BY <1>1, <4>1
      <4> HIDE DEF x
      <4> QED
        BY <4>1, <4>2
    <3>3. CASE r > t
      <4>1. r - 1 \in 1 .. k /\ x[r] = pi[r - 1]
        BY <3>3
      <4>2. pi[r - 1] \in 1 .. k /\ 1 .. k \subseteq 1 .. k + 1
        BY <1>1, <4>1
      <4> HIDE DEF x
      <4> QED
        BY <4>1, <4>2
    <3> QED
      BY <3>1, <3>2, <3>3
  <2>2. x = [r \in 1 .. k + 1 |-> x[r]]
    OBVIOUS
  <2> HIDE DEF x
  <2> QED
    BY <2>1, <2>2
<1>6. ASSUME NEW i \in 1 .. k + 1
      PROVE  \E r \in 1 .. k + 1 : x[r] = i
  <2>1. CASE i = k + 1
    <3>1. t \in 1 .. k + 1 /\ x[t] = k + 1
      OBVIOUS
    <3> HIDE DEF x
    <3> QED
      BY <2>1, <3>1
  <2>2. CASE i \in 1 .. k
    <3>1. PICK r \in 1 .. k : pi[r] = i
      BY <1>1, <2>2
    <3>2. CASE r < t
      BY <3>1, <3>2
    <3>3. CASE r >= t
      <4>1. r + 1 \in 1 .. k + 1 /\ ~(r + 1 < t) /\ r + 1 # t /\ (r + 1) - 1 = r
        BY <3>3
      <4>2. x[r + 1] = pi[r]
        BY <4>1
      <4> QED
        BY <3>1, <4>1, <4>2
    <3> QED
      BY <3>2, <3>3
  <2> QED
    BY <2>1, <2>2
<1>7. ASSUME NEW r \in 1 .. k + 1
      PROVE  S[r] = m[x[r]]
  <2>1. CASE r = t
    BY <1>4, <2>1
  <2>2. CASE r < t
    <3>1. r \in 1 .. k /\ x[r] = pi[r] /\ S[r] = s[r]
      BY <1>4, <2>2
    <3> QED
      BY <1>1, <3>1
  <2>3. CASE r > t
    <3>1. r - 1 \in 1 .. k /\ x[r] = pi[r - 1] /\ S[r] = s[r - 1]
      BY <1>4, <2>3
    <3> QED
      BY <1>1, <3>1, ZenonT(30)
  <2> QED
    BY <2>1, <2>2, <2>3
<1>8. ASSUME NEW r \in 1 .. k + 1, NEW q \in 1 .. k + 1, r < q
      PROVE  Before(m, x[r], x[q])
  <2>1. CASE r # t /\ q # t
    <3> DEFINE a == IF r < t THEN r ELSE r - 1
               b == IF q < t THEN q ELSE q - 1
    <3>1. a \in 1 .. k /\ b \in 1 .. k /\ a < b
      BY <1>8, <2>1
    <3>2. x[r] = pi[a] /\ x[q] = pi[b]
      BY <2>1
    <3> QED
      BY <1>1, <3>1, <3>2, ZenonT(30)
  <2>2. CASE q = t
    <3>1. x[q] = k + 1 /\ x[r] = pi[r] /\ r \in 1 .. k /\ r \in 1 .. t - 1
      BY <1>8, <2>2
    <3>2. pi[r] \in 1 .. k /\ ~After(e, m[pi[r]])
      BY <1>1, <1>4, <3>1
    <3> QED
      BY <3>1, <3>2 DEF Before
  <2>3. CASE r = t
    <3>1. x[r] = k + 1 /\ x[q] = pi[q - 1] /\ q - 1 \in 1 .. k /\ t <= q - 1 /\ t \in 1 .. k
      BY <1>8, <2>3
    <3>2. After(e, m[pi[t]])
      <4>1. t <= k /\ s[t] = m[pi[t]]
        BY <1>1, <3>1
      <4> QED
        BY <1>4, <4>1
    <3>3. pi[t] \in DOMAIN m /\ pi[q - 1] \in DOMAIN m
      <4>1. pi[t] \in 1 .. k /\ pi[q - 1] \in 1 .. k
        BY <1>1, <3>1
      <4>2. 1 .. k \subseteq DOMAIN m
        BY <1>2
      <4> QED
        BY <4>1, <4>2
    <3>4. m[pi[t]].ts >= m[pi[q - 1]].ts
      <4>1. CASE t = q - 1
        BY <3>3, <4>1, BeforeOrders
      <4>2. CASE t < q - 1
        BY <1>1, <3>1, <3>3, <4>2, BeforeOrders
      <4> QED
        BY <3>1, <4>1, <4>2
    <3>5. e.ts > m[pi[q - 1]].ts
      <4>1. e.ts \in Nat /\ m[pi[t]].ts \in Nat /\ m[pi[q - 1]].ts \in Nat
        BY <1>2, <3>3, BeforeOrders
      <4>2. e.ts > m[pi[t]].ts
        BY <3>2 DEF After
      <4> QED
        BY <3>4, <4>1, <4>2, SMTT(30)
    <3> QED
      BY <1>2, <3>1, <3>3, <3>5, BeforeOrders
  <2> QED
    BY <1>8, <2>1, <2>2, <2>3
<1>9. Arranges(m, k + 1, S, x)
  BY <1>3, <1>5, <1>6, <1>7, <1>8 DEF Arranges
<1> QED
  BY <1>9 DEF S

\* The sort arranges all entries.
LEMMA SortArranges ==
  ASSUME NEW m \in Seq(Snapshot)
  PROVE  \E pi : Arranges(m, Len(m), SortByTimestampDesc(m), pi)
<1>1. PICK h : /\ h[0] = <<>> /\ h[Len(m)] = SortByTimestampDesc(m)
               /\ \A k \in 0 .. Len(m) - 1 : h[k + 1] = Insert(h[k], m[k + 1])
  BY SortUnfolds
<1> DEFINE P == {k \in Nat : k <= Len(m) => \E pi : Arranges(m, k, h[k], pi)}
<1>2. 0 \in P
  <2>1. Arranges(m, 0, <<>>, <<>>)
    BY DEF Arranges
  <2> QED
    BY <1>1, <2>1
<1>3. ASSUME NEW k \in Nat, k \in P
      PROVE  k + 1 \in P
  <2> SUFFICES ASSUME k + 1 <= Len(m)
               PROVE  \E x : Arranges(m, k + 1, h[k + 1], x)
    OBVIOUS
  <2>1. Len(m) \in Nat /\ k <= Len(m) /\ k \in 0 .. Len(m) - 1
    OBVIOUS
  <2>2. PICK pi : Arranges(m, k, h[k], pi)
    BY <1>3, <2>1
  <2>3. h[k + 1] = Insert(h[k], m[k + 1])
    BY <1>1, <2>1
  <2> QED
    BY <2>2, <2>3, ArrangesStep
<1>4. Len(m) \in P
  <2>1. Len(m) \in Nat
    OBVIOUS
  <2> HIDE DEF P
  <2> QED
    BY <1>2, <1>3, <2>1, Onward
<1>5. Len(m) \in Nat
  OBVIOUS
<1> QED
  BY <1>1, <1>4, <1>5

-----------------------------------------------------------------------------
(* Ranks.                                                                  *)

\* The entries that belong before the i-th.
Ahead(m, i) == {j \in DOMAIN m : Before(m, j, i)}

\* The entry at place r of the sorted manifest has rank r.
LEMMA RankOfPlace ==
  ASSUME NEW m \in Seq(Snapshot), NEW s, NEW pi, Arranges(m, Len(m), s, pi),
         NEW r \in 1 .. Len(m)
  PROVE  /\ Rank(m, pi[r]) = r
         /\ Ahead(m, pi[r]) = {pi[q] : q \in 1 .. r - 1}
         /\ IsFiniteSet(Ahead(m, pi[r])) /\ Cardinality(Ahead(m, pi[r])) = r - 1
<1> DEFINE n == Len(m)
           A == Ahead(m, pi[r])
<1>1. /\ n \in Nat /\ DOMAIN m = 1 .. n
      /\ pi \in [1 .. n -> 1 .. n]
      /\ \A i \in 1 .. n : \E q \in 1 .. n : pi[q] = i
      /\ \A p, q \in 1 .. n : p < q => Before(m, pi[p], pi[q])
  <2>1. n \in Nat /\ DOMAIN m = 1 .. n
    OBVIOUS
  <2> QED
    BY <2>1 DEF Arranges
<1>2. ASSUME NEW p \in 1 .. n, NEW q \in 1 .. n
      PROVE  Before(m, pi[p], pi[q]) <=> p < q
  <2>1. pi[p] \in DOMAIN m /\ pi[q] \in DOMAIN m
    BY <1>1
  <2>2. ~Before(m, pi[p], pi[p])
    BY <2>1, BeforeOrders
  <2>3. Before(m, pi[p], pi[q]) => ~Before(m, pi[q], pi[p])
    BY <2>1, BeforeOrders DEF Before, After
  <2>4. p \in Nat /\ q \in Nat
    BY <1>1
  <2>5. CASE p < q
    BY <1>1, <2>5
  <2>6. CASE p = q
    BY <2>2, <2>4, <2>6
  <2>7. CASE q < p
    <3>1. Before(m, pi[q], pi[p])
      BY <1>1, <2>7
    <3> QED
      BY <2>3, <2>4, <2>7, <3>1
  <2> QED
    BY <2>4, <2>5, <2>6, <2>7
<1>3. A = {pi[q] : q \in 1 .. r - 1}
  <2>1. ASSUME NEW j \in A
        PROVE  j \in {pi[q] : q \in 1 .. r - 1}
    <3>1. j \in 1 .. n /\ Before(m, j, pi[r])
      BY <1>1 DEF Ahead
    <3>2. PICK q \in 1 .. n : pi[q] = j
      BY <1>1, <3>1
    <3>3. q \in 1 .. r - 1
      BY <1>2, <3>1, <3>2
    <3> QED
      BY <3>2, <3>3
  <2>2. ASSUME NEW q \in 1 .. r - 1
        PROVE  pi[q] \in A
    <3>1. q \in 1 .. n /\ q < r
      BY <1>1
    <3> QED
      BY <1>1, <1>2, <3>1 DEF Ahead
  <2> HIDE DEF A
  <2> QED
    BY <2>1, <2>2
<1>4. IsFiniteSet(A) /\ Cardinality(A) = r - 1
  <2> DEFINE b == [q \in 1 .. r - 1 |-> pi[q]]
  <2>1. b \in [1 .. r - 1 -> A]
    BY <1>3
  <2>2. ASSUME NEW p \in 1 .. r - 1, NEW q \in 1 .. r - 1, pi[p] = pi[q]
        PROVE  p = q
    <3>1. p \in 1 .. n /\ q \in 1 .. n
      BY <1>1
    <3> QED
      BY <1>2, <2>2, <3>1
  <2>3. b \in Bijection(1 .. r - 1, A)
    <3>1. IsInjective(b)
      BY <2>2 DEF IsInjective
    <3>2. \A a \in A : \E q \in 1 .. r - 1 : b[q] = a
      BY <1>3
    <3> HIDE DEF b
    <3> QED
      BY <2>1, <3>1, <3>2 DEF Bijection, Injection, Surjection
  <2>4. ExistsBijection(1 .. r - 1, A)
    BY <2>3 DEF ExistsBijection
  <2>5. IsFiniteSet(1 .. r - 1) /\ Cardinality(1 .. r - 1) = r - 1
    <3>1. 1 \in Int /\ r - 1 \in Int /\ r >= 1
      BY <1>1
    <3>2. /\ IsFiniteSet(1 .. r - 1)
          /\ Cardinality(1 .. r - 1) = IF 1 > r - 1 THEN 0 ELSE (r - 1) - 1 + 1
      BY <3>1, FS_Interval
    <3> QED
      BY <3>1, <3>2
  <2> QED
    BY <2>4, <2>5, FS_Bijection
<1>5. Rank(m, pi[r]) = 1 + Cardinality(A)
  BY DEF Rank, Ahead, Before
<1> QED
  BY <1>1, <1>3, <1>4, <1>5

\* The sorted manifest has as many entries, each at its rank; ranks are places.
LEMMA Sorted ==
  ASSUME NEW m \in Seq(Snapshot)
  PROVE  LET s == SortByTimestampDesc(m)
         IN /\ s \in Seq(Snapshot) /\ Len(s) = Len(m)
            /\ \A i \in 1 .. Len(m) : Rank(m, i) \in 1 .. Len(m) /\ s[Rank(m, i)] = m[i]
            /\ \A r \in 1 .. Len(m) : \E i \in 1 .. Len(m) : Rank(m, i) = r
            /\ \A i \in 1 .. Len(m) :
                 IsFiniteSet(Ahead(m, i)) /\ Rank(m, i) = 1 + Cardinality(Ahead(m, i))
<1>1. PICK pi : Arranges(m, Len(m), SortByTimestampDesc(m), pi)
  BY SortArranges
<1> DEFINE s == SortByTimestampDesc(m)
<1>2. /\ s \in Seq(Snapshot) /\ Len(s) = Len(m)
      /\ pi \in [1 .. Len(m) -> 1 .. Len(m)]
      /\ \A i \in 1 .. Len(m) : \E r \in 1 .. Len(m) : pi[r] = i
      /\ \A r \in 1 .. Len(m) : s[r] = m[pi[r]]
  BY <1>1 DEF Arranges
<1> HIDE DEF s
<1>3. ASSUME NEW i \in 1 .. Len(m)
      PROVE  /\ Rank(m, i) \in 1 .. Len(m) /\ s[Rank(m, i)] = m[i]
             /\ IsFiniteSet(Ahead(m, i)) /\ Rank(m, i) = 1 + Cardinality(Ahead(m, i))
  <2>1. PICK r \in 1 .. Len(m) : pi[r] = i
    BY <1>2
  <2>2. Rank(m, i) = r /\ IsFiniteSet(Ahead(m, i)) /\ Cardinality(Ahead(m, i)) = r - 1
    BY <1>1, <2>1, RankOfPlace DEF s
  <2>3. Rank(m, i) = 1 + Cardinality(Ahead(m, i))
    BY <2>2
  <2> QED
    BY <1>2, <2>1, <2>2, <2>3
<1>4. ASSUME NEW r \in 1 .. Len(m)
      PROVE  \E i \in 1 .. Len(m) : Rank(m, i) = r
  <2>1. pi[r] \in 1 .. Len(m) /\ Rank(m, pi[r]) = r
    <3>1. pi[r] \in 1 .. Len(m)
      BY <1>2
    <3>2. Rank(m, pi[r]) = r
      BY <1>1, RankOfPlace
    <3> QED
      BY <3>1, <3>2
  <2> QED
    BY <2>1
<1> QED
  BY <1>2, <1>3, <1>4 DEF s

\* An entry that belongs before another has a lower rank.
LEMMA RankOrders ==
  ASSUME NEW m \in Seq(Snapshot), NEW i \in 1 .. Len(m), NEW j \in 1 .. Len(m)
  PROVE  Before(m, i, j) <=> Rank(m, i) < Rank(m, j)
<1>1. PICK pi : Arranges(m, Len(m), SortByTimestampDesc(m), pi)
  BY SortArranges
<1>2. /\ \A k \in 1 .. Len(m) : \E r \in 1 .. Len(m) : pi[r] = k
      /\ \A p, q \in 1 .. Len(m) : p < q => Before(m, pi[p], pi[q])
  BY <1>1 DEF Arranges
<1>3. PICK p \in 1 .. Len(m) : pi[p] = i
  BY <1>2
<1>4. PICK q \in 1 .. Len(m) : pi[q] = j
  BY <1>2
<1>5. Rank(m, i) = p /\ Rank(m, j) = q
  BY <1>1, <1>3, <1>4, RankOfPlace
<1>6. DOMAIN m = 1 .. Len(m)
  OBVIOUS
<1>7. Before(m, i, j) => ~Before(m, j, i) /\ i # j
  BY <1>6, BeforeOrders DEF Before, After
<1>8. p \in Nat /\ q \in Nat
  OBVIOUS
<1>9. CASE p < q
  BY <1>2, <1>3, <1>4, <1>5, <1>9
<1>10. CASE p = q
  BY <1>3, <1>4, <1>5, <1>7, <1>8, <1>10
<1>11. CASE q < p
  <2>1. Before(m, j, i)
    BY <1>2, <1>3, <1>4, <1>11
  <2> QED
    BY <1>5, <1>7, <1>8, <1>11, <2>1
<1> QED
  BY <1>8, <1>9, <1>10, <1>11

-----------------------------------------------------------------------------
(* The newest entry.                                                       *)

Later(n, s) == IF After(s, n) THEN s ELSE n

\* The newest is found by comparing the entries one by one.
LEMMA NewestUnfolds ==
  ASSUME NEW m \in Seq(Snapshot), m # <<>>
  PROVE  \E h : /\ h[0] = Head(m) /\ h[Len(m) - 1] = Newest(m)
                /\ \A k \in 0 .. Len(m) - 2 : h[k + 1] = Later(h[k], m[k + 2])
<1> DEFINE t == Tail(m)
           n == Len(t)
           f == [p \in Snapshot \X Snapshot |-> Later(p[1], p[2])]
           first == Head(m)
           Comparing(g) == g = [S \in SUBSET DOMAIN t |->
                                IF S = {} THEN first ELSE Later(g[S \ {Max(S)}], t[Max(S)])]
           g == CHOOSE x : Comparing(x)
<1>1. /\ n \in Nat /\ n = Len(m) - 1 /\ DOMAIN t = 1 .. n /\ t \in [1 .. n -> Snapshot]
      /\ first \in Snapshot /\ \A k \in 1 .. n : t[k] = m[k + 1]
  <2>1. t \in Seq(Snapshot) /\ n = Len(m) - 1
    OBVIOUS
  <2>2. first \in Snapshot /\ \A k \in 1 .. n : t[k] = m[k + 1]
    OBVIOUS
  <2>3. n \in Nat /\ DOMAIN t = 1 .. n /\ t \in [1 .. n -> Snapshot]
    <3> HIDE DEF t
    <3> QED
      BY <2>1
  <2> QED
    BY <2>1, <2>2, <2>3
<1>2. /\ f \in [Snapshot \X Snapshot -> Snapshot]
      /\ \A v \in Snapshot, e \in Snapshot : f[<<v, e>>] = Later(v, e)
  BY DEF Later
<1> HIDE DEF t, f, n, first, Comparing, g
<1>3. PICK x : FoldsWith(Snapshot, f, first, n, t, x)
  BY <1>1, <1>2, FoldExists
<1>4. Comparing(x)
  <2>1. ASSUME NEW S \in SUBSET (1 .. n)
        PROVE  x[S] = IF S = {} THEN first ELSE Later(x[S \ {Max(S)}], t[Max(S)])
    <3>1. CASE S = {}
      BY <1>3, <3>1 DEF FoldsWith
    <3>2. CASE S # {}
      <4>1. Max(S) \in 1 .. n
        BY <1>1, <3>2, MaxIn
      <4>2. t[Max(S)] \in Snapshot /\ x[S \ {Max(S)}] \in Snapshot
        BY <1>1, <1>3, <4>1 DEF FoldsWith
      <4> QED
        BY <1>2, <1>3, <3>2, <4>2 DEF FoldsWith
    <3> QED
      BY <3>1, <3>2
  <2> QED
    BY <1>1, <1>3, <2>1 DEF Comparing, FoldsWith
<1>5. Comparing(g)
  BY <1>4 DEF g
<1>6. Newest(m) = g[DOMAIN t]
  BY DEF Newest, FoldLeft, MapThenFoldSet, g, Comparing, Later, t, first
<1> DEFINE h == [k \in 0 .. n |-> g[1 .. k]]
<1>7. ASSUME NEW k \in 0 .. n - 1
      PROVE  h[k + 1] = Later(h[k], m[k + 2])
  <2> DEFINE S == 1 .. k + 1
  <2>1. S \in SUBSET DOMAIN t /\ S # {} /\ S \ {k + 1} = 1 .. k
    <3>1. k \in Nat /\ k + 1 <= n
      BY <1>1
    <3>2. (1 .. k + 1) \ {k + 1} = 1 .. k /\ 1 .. k + 1 \subseteq 1 .. n /\ k + 1 \in 1 .. k + 1
      BY <1>1, <3>1, UpTo
    <3> QED
      BY <1>1, <3>2
  <2>2. Max(S) = k + 1
    <3>1. S \in SUBSET Int /\ k + 1 \in S /\ \A j \in S : j <= k + 1
      BY <1>1
    <3> QED
      BY <3>1, MaxIs
  <2>3. g[S] = Later(g[1 .. k], t[k + 1])
    BY <1>5, <2>1, <2>2 DEF Comparing
  <2>4. k \in 0 .. n /\ k + 1 \in 0 .. n /\ t[k + 1] = m[k + 2]
    BY <1>1
  <2> QED
    BY <2>3, <2>4
<1>8. h[0] = first
  <2>1. 1 .. 0 = {} /\ {} \in SUBSET DOMAIN t /\ 0 \in 0 .. n
    BY <1>1
  <2> QED
    BY <1>5, <2>1 DEF Comparing
<1>9. h[n] = Newest(m)
  BY <1>1, <1>6
<1>10. n - 1 = Len(m) - 2
  BY <1>1
<1> QED
  BY <1>1, <1>7, <1>8, <1>9, <1>10 DEF first

\* The newest entry belongs before all others.
LEMMA NewestLeads ==
  ASSUME NEW m \in Seq(Snapshot), m # <<>>
  PROVE  \E i \in 1 .. Len(m) :
           Newest(m) = m[i] /\ \A j \in 1 .. Len(m) : j # i => Before(m, i, j)
<1> DEFINE Leads(k, n) ==
             \E i \in 1 .. k + 1 : n = m[i] /\ \A j \in 1 .. k + 1 : j # i => Before(m, i, j)
<1>1. PICK h : /\ h[0] = Head(m) /\ h[Len(m) - 1] = Newest(m)
               /\ \A k \in 0 .. Len(m) - 2 : h[k + 1] = Later(h[k], m[k + 2])
  BY NewestUnfolds
<1>2. Len(m) \in Nat /\ Len(m) > 0 /\ DOMAIN m = 1 .. Len(m) /\ Head(m) = m[1]
  OBVIOUS
<1> DEFINE P == {k \in Nat : k < Len(m) => Leads(k, h[k])}
<1>3. 0 \in P
  BY <1>1, <1>2
<1>4. ASSUME NEW k \in Nat, k \in P
      PROVE  k + 1 \in P
  <2> SUFFICES ASSUME k + 1 < Len(m)
               PROVE  Leads(k + 1, h[k + 1])
    OBVIOUS
  <2>1. PICK i \in 1 .. k + 1 : h[k] = m[i] /\ \A j \in 1 .. k + 1 : j # i => Before(m, i, j)
    BY <1>2, <1>4
  <2> DEFINE e == k + 2
  <2>2. /\ e \in DOMAIN m /\ i \in DOMAIN m /\ i < e /\ e \in Nat /\ i \in Nat
        /\ 1 .. k + 1 \subseteq DOMAIN m
        /\ (k + 1) + 1 = e /\ 1 .. e = 1 .. k + 1 \cup {e}
    BY <1>2
  <2>3. h[k + 1] = Later(m[i], m[e])
    BY <1>1, <1>2, <2>1
  <2> HIDE DEF e
  <2>4. CASE After(m[e], m[i])
    <3>1. h[k + 1] = m[e]
      BY <2>3, <2>4 DEF Later
    <3>2. ASSUME NEW j \in 1 .. k + 1
          PROVE  Before(m, e, j)
      <4>1. m[i].ts >= m[j].ts
        BY <2>1, <2>2, BeforeOrders
      <4>2. m[e].ts > m[i].ts
        BY <2>4 DEF After
      <4>3. j \in DOMAIN m /\ m[e].ts \in Nat /\ m[i].ts \in Nat /\ m[j].ts \in Nat
        BY <2>2, BeforeOrders
      <4> QED
        BY <2>2, <4>1, <4>2, <4>3, BeforeOrders
    <3> QED
      BY <2>2, <3>1, <3>2
  <2>5. CASE ~After(m[e], m[i])
    <3>1. h[k + 1] = m[i]
      BY <2>3, <2>5 DEF Later
    <3>2. Before(m, i, e)
      BY <2>2, <2>5 DEF Before
    <3> QED
      BY <2>1, <2>2, <3>1, <3>2
  <2> QED
    BY <2>4, <2>5
<1>5. Len(m) - 1 \in P
  <2>1. Len(m) - 1 \in Nat
    BY <1>2
  <2> HIDE DEF P
  <2> QED
    BY <1>3, <1>4, <2>1, Onward
<1>6. Leads(Len(m) - 1, Newest(m))
  BY <1>1, <1>2, <1>5
<1>7. (Len(m) - 1) + 1 = Len(m)
  BY <1>2
<1> QED
  BY <1>6, <1>7

\* It is the first of the sorted manifest.
LEMMA NewestIsFirst ==
  ASSUME NEW m \in Seq(Snapshot), m # <<>>
  PROVE  Newest(m) = SortByTimestampDesc(m)[1]
<1>1. PICK i \in 1 .. Len(m) :
        Newest(m) = m[i] /\ \A j \in 1 .. Len(m) : j # i => Before(m, i, j)
  BY NewestLeads
<1>2. 1 \in 1 .. Len(m)
  OBVIOUS
<1>3. PICK k \in 1 .. Len(m) : Rank(m, k) = 1
  BY <1>2, Sorted
<1>4. Rank(m, i) \in 1 .. Len(m) /\ SortByTimestampDesc(m)[Rank(m, i)] = m[i]
  BY Sorted
<1>5. k # i => Rank(m, i) < Rank(m, k)
  BY <1>1, RankOrders
<1>6. k = i
  BY <1>3, <1>4, <1>5
<1> QED
  BY <1>1, <1>3, <1>4, <1>6

-----------------------------------------------------------------------------
(* What a collection keeps.                                                *)

\* It keeps the entries whose rank is at most max_snapshots.
LEMMA TrimmedFacts ==
  ASSUME NEW m \in Seq(Snapshot)
  PROVE  /\ Trimmed(m) \in Seq(Snapshot)
         /\ Len(Trimmed(m)) = IF OverLimit(m) THEN MaxSnapshots ELSE Len(m)
         /\ Trimmed(Trimmed(m)) = Trimmed(m)
         /\ ToSet(Trimmed(m)) =
              {m[i] : i \in {j \in 1 .. Len(m) : MaxSnapshots > 0 => Rank(m, j) <= MaxSnapshots}}
<1> DEFINE s == SortByTimestampDesc(m)
           Kept == {j \in 1 .. Len(m) : MaxSnapshots > 0 => Rank(m, j) <= MaxSnapshots}
<1>1. /\ s \in Seq(Snapshot) /\ Len(s) = Len(m) /\ Len(m) \in Nat
      /\ \A i \in 1 .. Len(m) : Rank(m, i) \in 1 .. Len(m) /\ s[Rank(m, i)] = m[i]
      /\ \A r \in 1 .. Len(m) : \E i \in 1 .. Len(m) : Rank(m, i) = r
  <2>1. Len(m) \in Nat
    OBVIOUS
  <2> HIDE DEF Kept
  <2> QED
    BY <2>1, Sorted, Zenon
<1> HIDE DEF s
<1>2. CASE OverLimit(m)
  <2>1. MaxSnapshots \in Nat /\ MaxSnapshots > 0 /\ MaxSnapshots < Len(m)
    BY <1>2, LimitAssumption DEF OverLimit
  <2> DEFINE k == SubSeq(s, 1, MaxSnapshots)
  <2>2. Trimmed(m) = k
    BY <1>2 DEF Trimmed, s
  <2>3. /\ k \in Seq(Snapshot) /\ Len(k) = MaxSnapshots
        /\ \A r \in 1 .. MaxSnapshots : k[r] = s[r]
    BY <1>1, <2>1
  <2> HIDE DEF k
  <2>4. Trimmed(k) = k
    BY <2>1, <2>3 DEF Trimmed, OverLimit
  <2>5. ASSUME NEW i \in Kept
        PROVE  m[i] \in ToSet(k)
    <3>1. i \in 1 .. Len(m) /\ Rank(m, i) \in 1 .. MaxSnapshots
      BY <1>1, <2>1
    <3>2. k[Rank(m, i)] = m[i]
      BY <1>1, <2>3, <3>1
    <3> QED
      BY <2>3, <3>1, <3>2 DEF ToSet
  <2>6. ASSUME NEW x \in ToSet(k)
        PROVE  x \in {m[i] : i \in Kept}
    <3>1. PICK r \in 1 .. MaxSnapshots : x = s[r]
      BY <2>1, <2>3 DEF ToSet
    <3>2. r \in 1 .. Len(m)
      BY <1>1, <2>1
    <3>3. PICK i \in 1 .. Len(m) : Rank(m, i) = r
      BY <1>1, <3>2
    <3>4. s[Rank(m, i)] = m[i]
      BY <1>1
    <3>5. Rank(m, i) <= MaxSnapshots
      BY <2>1, <3>3
    <3> QED
      BY <3>1, <3>3, <3>4, <3>5
  <2> HIDE DEF Kept
  <2>7. ToSet(k) = {m[i] : i \in Kept}
    BY <2>5, <2>6
  <2> QED
    BY <1>2, <2>2, <2>3, <2>4, <2>7 DEF Kept
<1>3. CASE ~OverLimit(m)
  <2>1. Trimmed(m) = m
    BY <1>3 DEF Trimmed
  <2>2. MaxSnapshots > 0 => Len(m) <= MaxSnapshots
    BY <1>1, <1>3, LimitAssumption DEF OverLimit
  <2>3. Kept = 1 .. Len(m)
    <3>1. ASSUME NEW j \in 1 .. Len(m), MaxSnapshots > 0
          PROVE  Rank(m, j) <= MaxSnapshots
      BY <1>1, <2>2, <3>1, LimitAssumption
    <3> QED
      BY <3>1
  <2>4. ToSet(m) = {m[i] : i \in 1 .. Len(m)}
    BY DEF ToSet
  <2> QED
    BY <1>3, <2>1, <2>3, <2>4
<1> QED
  BY <1>2, <1>3

\* An entry that is appended moves none forward.
LEMMA RankAppended ==
  ASSUME NEW m \in Seq(Snapshot), NEW s \in Snapshot, NEW i \in 1 .. Len(m)
  PROVE  Rank(m, i) <= Rank(Append(m, s), i)
<1> DEFINE a == Append(m, s)
<1>1. /\ a \in Seq(Snapshot) /\ Len(a) = Len(m) + 1 /\ Len(m) \in Nat
      /\ \A j \in 1 .. Len(m) : a[j] = m[j]
      /\ DOMAIN m = 1 .. Len(m) /\ DOMAIN a = 1 .. Len(m) + 1
      /\ 1 .. Len(m) \subseteq 1 .. Len(m) + 1
  OBVIOUS
<1> HIDE DEF a
<1>2. Ahead(m, i) \subseteq Ahead(a, i)
  BY <1>1 DEF Ahead, Before
<1>3. /\ IsFiniteSet(Ahead(m, i)) /\ Rank(m, i) = 1 + Cardinality(Ahead(m, i))
      /\ IsFiniteSet(Ahead(a, i)) /\ Rank(a, i) = 1 + Cardinality(Ahead(a, i))
  BY <1>1, Sorted
<1>4. /\ Cardinality(Ahead(m, i)) <= Cardinality(Ahead(a, i))
      /\ Cardinality(Ahead(m, i)) \in Nat /\ Cardinality(Ahead(a, i)) \in Nat
  BY <1>2, <1>3, FS_Subset, FS_CardinalityType
<1> QED
  BY <1>3, <1>4 DEF a

\* A commit brings nothing among the entries kept but itself.
LEMMA TrimmedAppended ==
  ASSUME NEW m \in Seq(Snapshot), NEW s \in Snapshot
  PROVE  ToSet(Trimmed(Append(m, s))) \subseteq ToSet(Trimmed(m)) \cup {s}
<1> DEFINE a == Append(m, s)
<1>1. /\ a \in Seq(Snapshot) /\ Len(a) = Len(m) + 1 /\ Len(m) \in Nat
      /\ \A j \in 1 .. Len(m) : a[j] = m[j]
      /\ a[Len(m) + 1] = s
  OBVIOUS
<1>2. \A i \in 1 .. Len(m) : Rank(m, i) <= Rank(a, i)
  BY RankAppended
<1> HIDE DEF a
<1>3. ASSUME NEW x \in ToSet(Trimmed(a)), x # s
      PROVE  x \in ToSet(Trimmed(m))
  <2>1. PICK i \in 1 .. Len(a) : x = a[i] /\ (MaxSnapshots > 0 => Rank(a, i) <= MaxSnapshots)
    BY <1>1, TrimmedFacts
  <2>2. i \in 1 .. Len(m) /\ x = m[i]
    BY <1>1, <1>3, <2>1
  <2>3. Rank(m, i) \in Nat /\ Rank(a, i) \in Nat
    <3>1. Rank(m, i) \in 1 .. Len(m)
      BY <2>2, Sorted
    <3>2. Rank(a, i) \in 1 .. Len(a)
      BY <1>1, <2>1, Sorted
    <3> QED
      BY <3>1, <3>2
  <2>4. MaxSnapshots > 0 => Rank(m, i) <= MaxSnapshots
    BY <1>2, <2>1, <2>2, <2>3, LimitAssumption
  <2> QED
    BY <2>2, <2>4, TrimmedFacts
<1> QED
  BY <1>3 DEF a

HashesOf(S) == {s.hash : s \in S}

\* The hashes of the slice are those of its set of entries.
LEMMA HashSetOf ==
  ASSUME NEW m \in Seq(Snapshot)
  PROVE  HashSet(m) = HashesOf(ToSet(m))
BY DEF HashSet, HashesOf, ToSet

-----------------------------------------------------------------------------
(* The theorems about the manifest.                                        *)

TypeInv == snaps \in Seq(Snapshot) /\ data \in SUBSET Hashes

\* Commits append entries, a collection leaves some of those it found.
THEOREM ManifestTypeCorrect == Spec => []TypeInv
<1>1. Init => TypeInv
  BY DEF Init, TypeInv
<1>2. TypeInv /\ [Next]_vars => TypeInv'
  <2> SUFFICES ASSUME TypeInv, [Next]_vars PROVE TypeInv'
    OBVIOUS
  <2> USE DEF TypeInv
  <2>1. ASSUME NEW h \in Hashes, NEW t \in Times, Commit(h, t)
        PROVE  TypeInv'
    BY <2>1 DEF Commit, Snapshot
  <2>2. ASSUME NEW h \in Hashes, CommitUnsaved(h)
        PROVE  TypeInv'
    BY <2>2 DEF CommitUnsaved
  <2>3. CASE Prune
    BY <2>3, TrimmedFacts DEF Prune
  <2>4. ASSUME NEW gone \in SUBSET Orphans(snaps), PruneStops(gone)
        PROVE  TypeInv'
    BY <2>4 DEF PruneStops
  <2>5. CASE UNCHANGED vars
    BY <2>5 DEF vars
  <2> QED
    BY <2>1, <2>2, <2>3, <2>4, <2>5 DEF Next
<1> QED
  BY <1>1, <1>2, PTL DEF Spec

\* Every manifest is sorted newest first, stably, and whole.
THEOREM SortCorrect == Spec => []SortsByRank
<1>1. TypeInv => SortsByRank
  <2> SUFFICES ASSUME TypeInv PROVE SortsByRank
    OBVIOUS
  <2>1. snaps \in Seq(Snapshot) /\ DOMAIN snaps = 1 .. Len(snaps)
    BY DEF TypeInv
  <2>2. /\ Len(SortByTimestampDesc(snaps)) = Len(snaps)
        /\ \A i \in 1 .. Len(snaps) : SortByTimestampDesc(snaps)[Rank(snaps, i)] = snaps[i]
    BY <2>1, Sorted, Zenon
  <2> QED
    BY <2>1, <2>2 DEF SortsByRank
<1> QED
  BY <1>1, ManifestTypeCorrect, PTL

\* What a collection leaves of a manifest has the newest entry in front.
LEMMA TrimmedLeads ==
  ASSUME NEW m \in Seq(Snapshot), m # <<>>
  PROVE  Newest(Trimmed(m)) = Newest(m)
<1> DEFINE s == SortByTimestampDesc(m)
           k == Trimmed(m)
<1>1. CASE ~OverLimit(m)
  BY <1>1 DEF Trimmed
<1>2. CASE OverLimit(m)
  <2>1. /\ MaxSnapshots \in Nat /\ MaxSnapshots > 0 /\ MaxSnapshots < Len(m)
        /\ Len(m) \in Nat /\ DOMAIN m = 1 .. Len(m)
    BY <1>2, LimitAssumption DEF OverLimit
  <2>2. PICK pi : Arranges(m, Len(m), s, pi)
    BY SortArranges
  <2>3. /\ s \in Seq(Snapshot) /\ Len(s) = Len(m)
        /\ pi \in [1 .. Len(m) -> 1 .. Len(m)]
        /\ \A r \in 1 .. Len(m) : s[r] = m[pi[r]]
        /\ \A r, q \in 1 .. Len(m) : r < q => Before(m, pi[r], pi[q])
    BY <2>2 DEF Arranges
  <2>4. Newest(m) = s[1]
    BY NewestIsFirst
  <2> HIDE DEF s
  <2>5. /\ k \in Seq(Snapshot) /\ Len(k) = MaxSnapshots
        /\ \A r \in 1 .. MaxSnapshots : k[r] = s[r]
    BY <1>2, <2>1, <2>3 DEF Trimmed, s
  <2> HIDE DEF k
  <2>6. k # <<>> /\ DOMAIN k = 1 .. MaxSnapshots /\ 1 \in 1 .. MaxSnapshots
    BY <2>1, <2>5
  <2>7. PICK i \in 1 .. MaxSnapshots :
          Newest(k) = k[i] /\ \A j \in 1 .. MaxSnapshots : j # i => Before(k, i, j)
    BY <2>5, <2>6, NewestLeads
  <2>8. CASE i # 1
    <3>0. 1 \in 1 .. Len(m) /\ i \in 1 .. Len(m) /\ 1 < i
      BY <2>1, <2>8
    <3>1. k[1] = m[pi[1]] /\ k[i] = m[pi[i]]
      <4>1. k[1] = s[1] /\ k[i] = s[i]
        BY <2>5, <2>6
      <4> QED
        BY <2>3, <3>0, <4>1
    <3>2. pi[1] \in DOMAIN m /\ pi[i] \in DOMAIN m /\ Before(m, pi[1], pi[i])
      BY <2>1, <2>3, <3>0
    <3>3. k[1].ts >= k[i].ts /\ k[1].ts \in Nat /\ k[i].ts \in Nat
      BY <3>1, <3>2, BeforeOrders
    <3>4. Before(k, i, 1)
      BY <2>6, <2>7, <2>8
    <3> QED
      BY <3>0, <3>3, <3>4 DEF Before, After
  <2>9. CASE i = 1
    BY <2>4, <2>5, <2>6, <2>7, <2>9 DEF k
  <2> QED
    BY <2>8, <2>9 DEF k
<1> QED
  BY <1>1, <1>2

\* A collection leaves the baseline of the next start as it is.
THEOREM BaselineSurvives == Spec => []BaselineStable
<1>1. TypeInv => BaselineStable
  BY TrimmedLeads DEF TypeInv, BaselineStable
<1> QED
  BY <1>1, ManifestTypeCorrect, PTL

\* The entries that the next collection keeps have their blobs.
THEOREM KeptStayRestorable == Spec => []KeptRestorable
<1> DEFINE K(m) == HashesOf(ToSet(Trimmed(m)))
<1>1. \A m \in Seq(Snapshot) : HashSet(Trimmed(m)) = K(m) /\ Trimmed(Trimmed(m)) = Trimmed(m)
  BY TrimmedFacts, HashSetOf
<1>2. Init => KeptRestorable
  <2> SUFFICES ASSUME Init PROVE KeptRestorable
    OBVIOUS
  <2>1. Trimmed(<<>>) = <<>>
    BY LimitAssumption DEF Trimmed, OverLimit
  <2> QED
    BY <2>1 DEF Init, KeptRestorable, HashSet
<1>3. TypeInv /\ TypeInv' /\ KeptRestorable /\ [Next]_vars => KeptRestorable'
  <2> SUFFICES ASSUME TypeInv, TypeInv', KeptRestorable, [Next]_vars
               PROVE  KeptRestorable'
    OBVIOUS
  <2>1. /\ snaps \in Seq(Snapshot) /\ snaps' \in Seq(Snapshot)
        /\ HashSet(Trimmed(snaps)) \subseteq data
    BY DEF TypeInv, KeptRestorable
  <2>2. ASSUME NEW h \in Hashes, NEW t \in Times, Commit(h, t)
        PROVE  KeptRestorable'
    <3> DEFINE s == [ts |-> t, hash |-> h]
    <3>1. s \in Snapshot /\ s.hash = h /\ snaps' = Append(snaps, s) /\ data' = data \cup {h}
      BY <2>2 DEF Commit, Snapshot
    <3> HIDE DEF s
    <3>2. ToSet(Trimmed(snaps')) \subseteq ToSet(Trimmed(snaps)) \cup {s}
      BY <2>1, <3>1, TrimmedAppended
    <3>3. K(snaps') \subseteq K(snaps) \cup {h}
      BY <3>1, <3>2 DEF HashesOf
    <3> QED
      BY <1>1, <2>1, <3>1, <3>3 DEF KeptRestorable
  <2>3. ASSUME NEW h \in Hashes, CommitUnsaved(h)
        PROVE  KeptRestorable'
    BY <2>1, <2>3 DEF CommitUnsaved, KeptRestorable
  <2>4. CASE Prune
    <3>1. snaps' = Trimmed(snaps) /\ data' = data \ Orphans(snaps)
      BY <2>4 DEF Prune
    <3>2. HashSet(Trimmed(snaps)) \cap Orphans(snaps) = {}
      BY DEF Orphans
    <3> QED
      BY <1>1, <2>1, <3>1, <3>2 DEF KeptRestorable
  <2>5. ASSUME NEW gone \in SUBSET Orphans(snaps), PruneStops(gone)
        PROVE  KeptRestorable'
    BY <2>1, <2>5 DEF PruneStops, Orphans, KeptRestorable
  <2>6. CASE UNCHANGED vars
    BY <2>1, <2>6 DEF vars, KeptRestorable
  <2> QED
    BY <2>2, <2>3, <2>4, <2>5, <2>6 DEF Next
<1> QED
  BY <1>2, <1>3, ManifestTypeCorrect, PTL DEF Spec

-----------------------------------------------------------------------------
(* The two views of the manifest.                                          *)

\* As long as times differ, an entry has as many newer ones as are ahead of it.
LEMMA NewerAhead ==
  ASSUME NEW m \in Seq(Snapshot), NEW i \in 1 .. Len(m),
         \A j, k \in DOMAIN m : m[j].ts = m[k].ts => j = k
  PROVE  /\ IsFiniteSet(Newer(m[i], ToSet(m)))
         /\ Rank(m, i) = 1 + Cardinality(Newer(m[i], ToSet(m)))
         /\ Newer(m[i], ToSet(m)) = {} <=> Ahead(m, i) = {}
<1> DEFINE A == Ahead(m, i)
           N == Newer(m[i], ToSet(m))
<1>1. DOMAIN m = 1 .. Len(m) /\ i \in DOMAIN m
  OBVIOUS
<1>2. \A j \in DOMAIN m : Before(m, j, i) <=> m[j].ts > m[i].ts
  <2>1. ASSUME NEW j \in DOMAIN m, Before(m, j, i)
        PROVE  m[j].ts > m[i].ts
    <3>1. j # i
      BY <1>1, <2>1, BeforeOrders DEF Before, After
    <3>2. m[j].ts >= m[i].ts /\ m[j].ts # m[i].ts /\ m[j].ts \in Nat /\ m[i].ts \in Nat
      BY <1>1, <2>1, <3>1, BeforeOrders
    <3> QED
      BY <3>2
  <2> QED
    BY <1>1, <2>1, BeforeOrders
<1>3. N = {m[j] : j \in A}
  BY <1>2 DEF Newer, ToSet, Ahead
<1>4. A \subseteq DOMAIN m /\ IsFiniteSet(A) /\ Rank(m, i) = 1 + Cardinality(A)
  <2>1. A \subseteq DOMAIN m
    BY DEF Ahead
  <2> HIDE DEF N
  <2>2. IsFiniteSet(A) /\ Rank(m, i) = 1 + Cardinality(A)
    BY Sorted, Zenon
  <2> QED
    BY <2>1, <2>2
<1> HIDE DEF A, N
<1> DEFINE b == [j \in A |-> m[j]]
<1>5. b \in Bijection(A, N)
  <2>1. IsInjective(b)
    BY <1>4 DEF IsInjective
  <2>2. b \in [A -> N] /\ \A n \in N : \E j \in A : b[j] = n
    BY <1>3
  <2> HIDE DEF b
  <2> QED
    BY <2>1, <2>2 DEF Bijection, Injection, Surjection
<1>6. IsFiniteSet(N) /\ Cardinality(N) = Cardinality(A)
  BY <1>4, <1>5, FS_Bijection DEF ExistsBijection
<1> HIDE DEF b
<1>7. N = {} <=> A = {}
  BY <1>3
<1> QED
  BY <1>4, <1>6, <1>7 DEF A, N

\* The set of entries that module Evaluator works with tells what the slice
\* does, as long as timestamps differ.
THEOREM SetsSuffice == Spec => []SetView
<1>1. TypeInv => SetView
  <2> SUFFICES ASSUME TypeInv, DistinctTimes
               PROVE  LET S == ToSet(snaps)
                      IN /\ ToSet(Trimmed(snaps))
                              = {s \in S : MaxSnapshots > 0 => Cardinality(Newer(s, S)) < MaxSnapshots}
                         /\ snaps # <<>> => {Newest(snaps)} = {s \in S : Newer(s, S) = {}}
    BY DEF SetView
  <2> DEFINE S == ToSet(snaps)
             n == Len(snaps)
  <2>1. /\ snaps \in Seq(Snapshot) /\ DOMAIN snaps = 1 .. n
        /\ S = {snaps[i] : i \in 1 .. n}
        /\ \A j, k \in DOMAIN snaps : snaps[j].ts = snaps[k].ts => j = k
    BY DEF TypeInv, DistinctTimes, ToSet
  <2>2. ASSUME NEW i \in 1 .. n
        PROVE  /\ Rank(snaps, i) = 1 + Cardinality(Newer(snaps[i], S))
               /\ Cardinality(Newer(snaps[i], S)) \in Nat
               /\ Newer(snaps[i], S) = {} <=> Ahead(snaps, i) = {}
    BY <2>1, NewerAhead, FS_CardinalityType
  <2>3. \A i \in 1 .. n : Rank(snaps, i) <= MaxSnapshots <=> Cardinality(Newer(snaps[i], S)) < MaxSnapshots
    BY <2>2, LimitAssumption
  <2>4. ToSet(Trimmed(snaps)) =
          {snaps[i] : i \in {j \in 1 .. n : MaxSnapshots > 0 => Rank(snaps, j) <= MaxSnapshots}}
    BY <2>1, TrimmedFacts
  <2> HIDE DEF S, n
  <2>5. ToSet(Trimmed(snaps)) = {s \in S : MaxSnapshots > 0 => Cardinality(Newer(s, S)) < MaxSnapshots}
    <3>1. {snaps[i] : i \in {j \in 1 .. n : MaxSnapshots > 0 => Rank(snaps, j) <= MaxSnapshots}}
            = {s \in S : MaxSnapshots > 0 => Cardinality(Newer(s, S)) < MaxSnapshots}
      BY <2>1, <2>3
    <3> QED
      BY <2>4, <3>1
  <2>6. ASSUME snaps # <<>>
        PROVE  {Newest(snaps)} = {s \in S : Newer(s, S) = {}}
    <3>1. PICK i \in 1 .. n :
            Newest(snaps) = snaps[i] /\ \A j \in 1 .. n : j # i => Before(snaps, i, j)
      BY <2>1, <2>6, NewestLeads DEF n
    <3>2. Ahead(snaps, i) = {}
      <4>1. ASSUME NEW j \in DOMAIN snaps, Before(snaps, j, i)
            PROVE  FALSE
        <5>1. j # i => Before(snaps, i, j)
          BY <2>1, <3>1
        <5>2. i \in DOMAIN snaps /\ snaps[i].ts \in Nat /\ snaps[j].ts \in Nat
          BY <2>1, BeforeOrders
        <5>3. i \in Nat /\ j \in Nat
          BY <2>1, <4>1
        <5>4. ~Before(snaps, i, i)
          BY <5>2, <5>3 DEF Before, After
        <5> QED
          BY <4>1, <5>1, <5>2, <5>3, <5>4 DEF Before, After
      <4> QED
        BY <4>1 DEF Ahead
    <3>3. \A j \in 1 .. n : j # i => i \in Ahead(snaps, j)
      BY <2>1, <3>1 DEF Ahead
    <3>4. \A j \in 1 .. n : Newer(snaps[j], S) = {} <=> j = i
      BY <2>2, <3>2, <3>3
    <3> QED
      BY <2>1, <3>1, <3>4
  <2> QED
    BY <2>5, <2>6 DEF S
<1> QED
  BY <1>1, ManifestTypeCorrect, PTL

-----------------------------------------------------------------------------
(* The theorems about the picker.                                          *)

Ranking(n, r) == r \in Rankings(n)

\* A ranking is no longer than the list; both extremes are rankings.
LEMMA RankingFacts ==
  ASSUME NEW n \in Nat
  PROVE  /\ \A r : Ranking(n, r) =>
                     r \in Seq(Nat) /\ Len(r) <= n /\ \A i \in 1 .. Len(r) : r[i] \in 1 .. n
         /\ Ranking(n, <<>>) /\ Ranking(n, All(n))
<1>1. ASSUME NEW r, Ranking(n, r)
      PROVE  r \in Seq(Nat) /\ Len(r) <= n /\ \A i \in 1 .. Len(r) : r[i] \in 1 .. n
  <2>1. PICK k \in 0 .. n : r \in [1 .. k -> 1 .. n]
    BY <1>1 DEF Ranking, Rankings
  <2>2. r \in Seq(1 .. n) /\ Len(r) = k
    BY <2>1
  <2> QED
    BY <2>1, <2>2
<1>2. Ranking(n, <<>>)
  <2>1. <<>> \in [1 .. 0 -> 1 .. n] /\ 0 \in 0 .. n
    OBVIOUS
  <2>2. IsInjective(<<>>)
    BY DEF IsInjective
  <2> QED
    BY <2>1, <2>2 DEF Ranking, Rankings
<1>3. Ranking(n, All(n))
  <2>1. All(n) \in [1 .. n -> 1 .. n] /\ n \in 0 .. n
    BY DEF All
  <2>2. IsInjective(All(n))
    BY DEF IsInjective, All
  <2> QED
    BY <2>1, <2>2 DEF Ranking, Rankings
<1> QED
  BY <1>1, <1>2, <1>3

Pickers == [at : {"off", "open", "done"}, sorted : Seq(Snapshot),
            filter : {"none", "typing", "applied"}, typed : BOOLEAN, matched : Seq(Nat),
            cursor : Nat, flight : SUBSET Seq(Nat),
            found : SUBSET Snapshot, seen : SUBSET Snapshot]

\* An open picker lists something, its cursor is on the list, and every filter,
\* shown or under way, is of this list.
PickerInv ==
  /\ ui \in Pickers
  /\ ui.at = "open" =>
       /\ ui.cursor < Len(ui.sorted)
       /\ Ranking(Len(ui.sorted), ui.matched)
       /\ \A r \in ui.flight : Ranking(Len(ui.sorted), r)
  /\ RestoresShownUnfiltered

\* Keys and matches, whenever they come, keep this.
LEMMA PickerStep == TypeInv /\ PickerInv /\ [PickerNext]_pvars => PickerInv'
<1> SUFFICES ASSUME TypeInv, PickerInv, [PickerNext]_pvars
             PROVE  PickerInv'
  OBVIOUS
<1> DEFINE n == Len(ui.sorted)
<1>1. /\ ui \in Pickers /\ ui.sorted \in Seq(Snapshot) /\ n \in Nat
      /\ snaps \in Seq(Snapshot)
  BY DEF PickerInv, Pickers, TypeInv
<1>2. /\ Off \in Pickers /\ Off.at = "off" /\ Off.found = {} /\ Off.seen = {}
  BY DEF Off, Pickers
<1>3. CASE ui' = ui
  BY <1>3 DEF PickerInv, RestoresShownUnfiltered
<1>4. CASE SelectByID
  <2>1. PICK t \in Times :
          ui' = [Off EXCEPT !.at = "done", !.found = FindByID(snaps, t),
                            !.seen = {s \in ToSet(snaps) : s.ts = t}]
    BY <1>4 DEF SelectByID
  <2> DEFINE I == {i \in 1 .. Len(snaps) : snaps[i].ts = t}
             seen == {s \in ToSet(snaps) : s.ts = t}
  <2>2. seen \subseteq Snapshot /\ \A i \in I : snaps[i] \in seen
    BY <1>1 DEF ToSet
  <2>3. seen # {} => I # {}
    BY <1>1 DEF ToSet
  <2>4. FindByID(snaps, t) = IF I = {} \/ Min(I) = 0 THEN {} ELSE {snaps[Min(I)]}
    BY DEF FindByID, SelectInSeq
  <2>5. I # {} => Min(I) \in I /\ Min(I) # 0
    <3>1. I \in SUBSET Nat
      BY <1>1
    <3>2. 0 \notin I
      OBVIOUS
    <3> HIDE DEF I
    <3> QED
      BY <3>1, <3>2, MinIs
  <2> HIDE DEF I
  <2>6. FindByID(snaps, t) \subseteq seen /\ (seen # {} => FindByID(snaps, t) # {})
    BY <2>2, <2>3, <2>4, <2>5
  <2> HIDE DEF seen
  <2>7. /\ ui' \in Pickers /\ ui'.at = "done" /\ ui'.found = FindByID(snaps, t) /\ ui'.seen = seen
    BY <1>2, <2>1, <2>2, <2>6 DEF Pickers, Off, seen
  <2> QED
    BY <2>6, <2>7 DEF PickerInv, RestoresShownUnfiltered
<1>5. CASE SelectByPicker
  <2> DEFINE s == SortByTimestampDesc(snaps)
  <2>1. ui' = [Off EXCEPT !.at = "open", !.sorted = s] /\ Len(snaps) \in 1 .. MaxListed
    BY <1>5 DEF SelectByPicker
  <2>2. s \in Seq(Snapshot) /\ Len(s) = Len(snaps)
    BY <1>1, Sorted, Zenon
  <2> HIDE DEF s
  <2>3. /\ ui' \in Pickers /\ ui'.at = "open" /\ ui'.sorted = s
        /\ ui'.cursor = 0 /\ ui'.matched = <<>> /\ ui'.flight = {}
    <3>1. Off.cursor = 0 /\ Off.matched = <<>> /\ Off.flight = {}
      BY DEF Off
    <3>2. /\ ui'.at = "open" /\ ui'.sorted = s
          /\ ui'.cursor = Off.cursor /\ ui'.matched = Off.matched /\ ui'.flight = Off.flight
      BY <1>2, <2>1 DEF Pickers
    <3>3. ui' \in Pickers
      BY <1>2, <2>1, <2>2 DEF Pickers
    <3> QED
      BY <3>1, <3>2, <3>3
  <2>4. Len(s) \in Nat /\ 0 < Len(s)
    BY <2>1, <2>2
  <2>5. Ranking(Len(s), <<>>)
    BY <2>4, RankingFacts
  <2> QED
    BY <2>3, <2>4, <2>5 DEF PickerInv, RestoresShownUnfiltered
<1>6. CASE Close
  BY <1>2, <1>6 DEF Close, PickerInv, RestoresShownUnfiltered
<1>7. CASE Cancel
  <2>1. ui' = [Off EXCEPT !.at = "done"]
    BY <1>7 DEF Cancel, Open
  <2>2. ui' \in Pickers /\ ui'.at = "done" /\ ui'.found = {} /\ ui'.seen = {}
    BY <1>2, <2>1 DEF Pickers, Off
  <2> QED
    BY <2>2 DEF PickerInv, RestoresShownUnfiltered
<1> SUFFICES ASSUME Enter \/ Move \/ EditFilter \/ Type \/ Matches \/ AcceptFilter
             PROVE  PickerInv'
  BY <1>3, <1>4, <1>5, <1>6, <1>7 DEF PickerNext, pvars
<1>8. /\ ui.at = "open" /\ ui.cursor \in Nat /\ ui.cursor < n
      /\ Ranking(n, ui.matched) /\ \A r \in ui.flight : Ranking(n, r)
  BY DEF Enter, Move, EditFilter, Type, Matches, AcceptFilter, Open, PickerInv, Pickers
<1>9. /\ \A r : Ranking(n, r) =>
                  r \in Seq(Nat) /\ Len(r) <= n /\ \A i \in 1 .. Len(r) : r[i] \in 1 .. n
      /\ Ranking(n, All(n))
  BY <1>1, RankingFacts
\* What keeps an open picker good.
<1>10. ASSUME NEW u \in Pickers, ui' = u, u.at = "open", u.sorted = ui.sorted,
              u.cursor < n, Ranking(n, u.matched), \A r \in u.flight : Ranking(n, r)
       PROVE  PickerInv'
  BY <1>10 DEF PickerInv, RestoresShownUnfiltered
<1>11. CASE Enter
  <2>1. ui' = [ui EXCEPT !.at = "done", !.found = {ui.sorted[ui.cursor + 1]}, !.seen = Highlighted]
    BY <1>11 DEF Enter, Open
  <2>2. ui.sorted[ui.cursor + 1] \in Snapshot
    BY <1>1, <1>8
  <2>3. Highlighted \subseteq Snapshot
    <3>1. CASE ui.cursor < Len(Visible)
      <4>1. Ranking(n, Visible)
        BY <1>8, <1>9 DEF Visible
      <4>2. Visible[ui.cursor + 1] \in 1 .. n
        <5>1. Len(Visible) \in Nat /\ ui.cursor + 1 \in 1 .. Len(Visible)
          BY <1>8, <1>9, <3>1, <4>1
        <5> QED
          BY <1>9, <4>1, <5>1
      <4>3. ui.sorted[Visible[ui.cursor + 1]] \in Snapshot
        BY <1>1, <4>2
      <4> QED
        BY <3>1, <4>3 DEF Highlighted
    <3>2. CASE ~(ui.cursor < Len(Visible))
      BY <3>2 DEF Highlighted
    <3> QED
      BY <3>1, <3>2
  <2>4. ui.filter = "none" => Highlighted = {ui.sorted[ui.cursor + 1]}
    <3> SUFFICES ASSUME ui.filter = "none"
                 PROVE  Highlighted = {ui.sorted[ui.cursor + 1]}
      OBVIOUS
    <3>1. Visible = All(n)
      BY DEF Visible
    <3>2. Len(All(n)) = n /\ All(n)[ui.cursor + 1] = ui.cursor + 1
      BY <1>1, <1>8 DEF All
    <3> QED
      BY <1>8, <3>1, <3>2 DEF Highlighted
  <2>5. /\ ui' \in Pickers /\ ui'.at = "done" /\ ui'.filter = ui.filter
        /\ ui'.found = {ui.sorted[ui.cursor + 1]} /\ ui'.seen = Highlighted
    BY <1>1, <2>1, <2>2, <2>3 DEF Pickers
  <2> QED
    BY <2>4, <2>5 DEF PickerInv, RestoresShownUnfiltered
<1>12. CASE Move
  <2>1. PICK c \in 0 .. Len(Visible) - 1 : ui' = [ui EXCEPT !.cursor = c]
    BY <1>12 DEF Move, Open
  <2>2. Ranking(n, Visible)
    BY <1>8, <1>9 DEF Visible
  <2>3. c \in Nat /\ c < n
    <3>1. Len(Visible) \in Nat /\ Len(Visible) <= n
      BY <1>9, <2>2
    <3> QED
      BY <1>1, <2>1, <3>1
  <2>4. /\ ui' \in Pickers /\ ui'.at = "open" /\ ui'.sorted = ui.sorted /\ ui'.cursor = c
        /\ ui'.matched = ui.matched /\ ui'.flight = ui.flight
    BY <1>1, <1>8, <2>1, <2>3 DEF Pickers
  <2> QED
    BY <1>8, <1>10, <2>3, <2>4
<1>13. CASE EditFilter
  <2>1. ui' = [ui EXCEPT !.filter = "typing", !.cursor = 0,
                         !.matched = IF ui.typed THEN @ ELSE All(Len(ui.sorted))]
    BY <1>13 DEF EditFilter, Open
  <2>2. Ranking(n, IF ui.typed THEN ui.matched ELSE All(n))
    BY <1>8, <1>9
  <2>3. /\ ui' \in Pickers /\ ui'.at = "open" /\ ui'.sorted = ui.sorted /\ ui'.cursor = 0
        /\ ui'.matched = (IF ui.typed THEN ui.matched ELSE All(n)) /\ ui'.flight = ui.flight
    BY <1>1, <1>8, <1>9, <2>1, <2>2 DEF Pickers
  <2>4. 0 < n
    BY <1>1, <1>8
  <2> QED
    BY <1>8, <1>10, <2>2, <2>3, <2>4
<1>14. CASE Type
  <2>1. PICK b \in BOOLEAN, r \in Rankings(n) \cup {All(n)} :
          ui' = [ui EXCEPT !.typed = b, !.flight = @ \cup {r}]
    BY <1>14 DEF Type, Open
  <2>2. Ranking(n, r) /\ r \in Seq(Nat)
    BY <1>9 DEF Ranking
  <2>3. /\ ui' \in Pickers /\ ui'.at = "open" /\ ui'.sorted = ui.sorted
        /\ ui'.cursor = ui.cursor /\ ui'.matched = ui.matched /\ ui'.flight = ui.flight \cup {r}
    BY <1>1, <1>8, <2>1, <2>2 DEF Pickers
  <2> QED
    BY <1>8, <1>10, <2>2, <2>3
<1>15. CASE Matches
  <2>1. PICK r \in ui.flight : ui' = [ui EXCEPT !.matched = r, !.flight = @ \ {r}]
    BY <1>15 DEF Matches, Open
  <2>2. Ranking(n, r) /\ r \in Seq(Nat)
    BY <1>8, <1>9
  <2>3. /\ ui' \in Pickers /\ ui'.at = "open" /\ ui'.sorted = ui.sorted
        /\ ui'.cursor = ui.cursor /\ ui'.matched = r /\ ui'.flight = ui.flight \ {r}
    BY <1>1, <1>8, <2>1, <2>2 DEF Pickers
  <2> QED
    BY <1>8, <1>10, <2>2, <2>3
<1>16. CASE AcceptFilter
  <2>1. \/ ui' = [ui EXCEPT !.filter = "none", !.typed = FALSE]
        \/ ui' = [ui EXCEPT !.filter = "applied"]
    BY <1>16 DEF AcceptFilter, Open
  <2>2. /\ ui' \in Pickers /\ ui'.at = "open" /\ ui'.sorted = ui.sorted
        /\ ui'.cursor = ui.cursor /\ ui'.matched = ui.matched /\ ui'.flight = ui.flight
    BY <1>1, <1>8, <2>1 DEF Pickers
  <2> QED
    BY <1>8, <1>10, <2>2
<1> QED
  BY <1>11, <1>12, <1>13, <1>14, <1>15, <1>16

\* While the picker is open the manifest rests, else it changes as it may.
LEMMA PickerImplements == [PickerNext]_pvars => [Next]_vars
BY DEF PickerNext, pvars, vars, SelectByID, SelectByPicker, Enter, Cancel, Close, Move, EditFilter,
       Type, Matches, AcceptFilter, Open

\* The picker's list is the sorted manifest it has read, and its cursor and its
\* filters are about that list.
THEOREM PickerCorrect == PickerSpec => [](TypeInv /\ PickerInv)
<1>1. PickerSpec => []TypeInv
  <2>1. PickerInit => Init
    BY DEF PickerInit
  <2>2. PickerSpec => Spec
    BY <2>1, PickerImplements, PTL DEF PickerSpec, Spec
  <2> QED
    BY <2>2, ManifestTypeCorrect, PTL
<1>2. PickerInit => PickerInv
  BY DEF PickerInit, PickerInv, Off, Pickers, RestoresShownUnfiltered
<1> QED
  BY <1>1, <1>2, PickerStep, PTL DEF PickerSpec

\* The index that Pick returns is one of the slice that restore indexes.
THEOREM IndexNeverPanics == PickerSpec => []IndexInRange
<1>1. PickerInv => IndexInRange
  BY DEF PickerInv, IndexInRange
<1> QED
  BY <1>1, PickerCorrect, PTL

\* Without a filter, what is restored is what was shown or asked for.
THEOREM ShownIsRestored == PickerSpec => []RestoresShownUnfiltered
<1>1. PickerInv => RestoresShownUnfiltered
  BY DEF PickerInv
<1> QED
  BY <1>1, PickerCorrect, PTL
=============================================================================
