----------------------------- MODULE ListProofs -----------------------------
(***************************************************************************)
(* Facts about lists: the least natural and induction in a form that needs *)
(* no operator parameter, recursion over the naturals, sorted sets.        *)
(***************************************************************************)
EXTENDS Lists, SequencesExt, FiniteSetTheorems, WellFoundedInduction, TLAPS

(* A set of naturals with a member has a least one.                        *)
LEMMA LeastNatural ==
  ASSUME NEW S \in SUBSET Nat, S # {}
  PROVE  \E n \in S : \A m \in S : n <= m
<1> DEFINE Less == {p \in Nat \X Nat : p[1] < p[2]}
<1>1. IsWellFoundedOn(Less, Nat)
  BY NatLessThanWellFounded DEF OpToRel
<1>2. \A m, n \in S : <<m, n>> \in Less <=> m < n
  OBVIOUS
<1>3. \E n \in S : \A m \in S : ~ (<<m, n>> \in Less)
  <2> HIDE DEF Less
  <2> QED BY <1>1, WFMin
<1>4. \E n \in S : \A m \in S : ~ (m < n)
  <2> HIDE DEF Less
  <2> QED BY <1>2, <1>3, Zenon
<1> QED
  BY <1>4

(* Induction up to N, for the set of the numbers a statement is true of.   *)
LEMMA Induction ==
  ASSUME NEW N \in Int, NEW a \in Int, NEW S,
         a <= N => a \in S, \A n \in a .. N - 1 : n \in S => n + 1 \in S
  PROVE  \A n \in a .. N : n \in S
<1> SUFFICES ASSUME NEW n \in a .. N, n \notin S PROVE FALSE
  OBVIOUS
<1> DEFINE Bad == {k \in Nat : a + k <= N /\ a + k \notin S}
<1>1. n - a \in Nat /\ a + (n - a) = n
  OBVIOUS
<1>2. Bad \in SUBSET Nat /\ n - a \in Bad
  BY <1>1
<1>3. PICK k \in Bad : \A m \in Bad : k <= m
  <2> HIDE DEF Bad
  <2> QED BY <1>2, LeastNatural
<1>4. k \in Nat /\ a + k <= N /\ a + k \notin S /\ k # 0
  BY <1>3
<1>5. k - 1 \in Nat /\ ~ (k <= k - 1) /\ a + (k - 1) \in a .. N - 1 /\ a + (k - 1) + 1 = a + k
  BY <1>4
<1>6. k - 1 \notin Bad
  <2> HIDE DEF Bad
  <2> QED BY <1>3, <1>5
<1>7. a + (k - 1) \in S
  BY <1>5, <1>6
<1> QED
  BY <1>4, <1>5, <1>7

(* Of the places of the least value there is a first one.                  *)
LEMMA FirstLeast ==
  ASSUME NEW N \in Nat, N > 0, NEW g \in [1 .. N -> Nat]
  PROVE  \E i \in 1 .. N : \A j \in 1 .. N : g[i] <= g[j] /\ (j < i => g[i] < g[j])
<1> DEFINE V == {g[i] : i \in 1 .. N}
<1>1. V \in SUBSET Nat /\ g[1] \in V
  OBVIOUS
<1>2. PICK v \in V : \A u \in V : v <= u
  <2> HIDE DEF V
  <2> QED BY <1>1, LeastNatural
<1> DEFINE I == {i \in 1 .. N : g[i] = v}
<1>3. I \in SUBSET Nat /\ I # {}
  BY <1>2
<1>4. PICK i \in I : \A j \in I : i <= j
  <2> HIDE DEF I
  <2> QED BY <1>3, LeastNatural
<1>5. i \in 1 .. N /\ g[i] = v
  OBVIOUS
<1>6. ASSUME NEW j \in 1 .. N
      PROVE  g[i] <= g[j] /\ (j < i => g[i] < g[j])
  <2>1. g[i] <= g[j] /\ g[i] \in Nat /\ g[j] \in Nat
    BY <1>2, <1>5
  <2>2. j < i => g[j] # v
    <3> SUFFICES ASSUME j < i, g[j] = v PROVE FALSE
      OBVIOUS
    <3>1. j \in I /\ ~ (i <= j)
      BY <1>5
    <3> QED
      BY <1>4, <3>1
  <2> QED
    BY <1>5, <2>1, <2>2
<1> QED
  BY <1>5, <1>6

(* A list's length, its positions and what is there.                       *)
LEMMA ListParts ==
  ASSUME NEW V, NEW s \in Seq(V)
  PROVE  /\ Len(s) \in Nat /\ DOMAIN s = 1 .. Len(s)
         /\ s \in [1 .. Len(s) -> V]
         /\ \A i \in 1 .. Len(s) : s[i] \in V
  OBVIOUS

(* Lists of the same length that agree everywhere are the same.            *)
LEMMA ListsEqual ==
  ASSUME NEW V, NEW s \in Seq(V), NEW t \in Seq(V), Len(s) = Len(t),
         \A i \in 1 .. Len(s) : s[i] = t[i]
  PROVE  s = t
<1>1. Len(s) \in Nat /\ s \in [1 .. Len(s) -> V] /\ t \in [1 .. Len(s) -> V]
  BY ListParts
<1> QED
  BY <1>1

(* What SubSeq cuts out.                                                   *)
LEMMA SubSeqParts ==
  ASSUME NEW V, NEW s \in Seq(V), NEW i \in Nat, NEW j \in Nat, i <= j, j <= Len(s)
  PROVE  /\ SubSeq(s, i + 1, j) \in Seq(V) /\ Len(SubSeq(s, i + 1, j)) = j - i
         /\ \A k \in 1 .. j - i : SubSeq(s, i + 1, j)[k] = s[i + k]
  OBVIOUS

(* What the concatenation of two lists is.                                 *)
LEMMA JoinParts ==
  ASSUME NEW V, NEW a \in Seq(V), NEW b \in Seq(V)
  PROVE  /\ a \o b \in Seq(V) /\ Len(a \o b) = Len(a) + Len(b)
         /\ \A k \in 1 .. Len(a) : (a \o b)[k] = a[k]
         /\ \A k \in 1 .. Len(b) : (a \o b)[Len(a) + k] = b[k]
  OBVIOUS

(* Cut out of a concatenation.                                             *)
LEMMA SubSeqJoined ==
  ASSUME NEW V, NEW a \in Seq(V), NEW b \in Seq(V)
  PROVE  /\ SubSeq(a \o b, Len(a) + 1, Len(a) + Len(b)) = b
         /\ \A i, j \in Nat : i <= j /\ j <= Len(a) =>
              SubSeq(a \o b, i + 1, j) = SubSeq(a, i + 1, j)
<1>1. /\ a \o b \in Seq(V) /\ Len(a \o b) = Len(a) + Len(b)
      /\ \A k \in 1 .. Len(a) : (a \o b)[k] = a[k]
      /\ \A k \in 1 .. Len(b) : (a \o b)[Len(a) + k] = b[k]
      /\ Len(a) \in Nat /\ Len(b) \in Nat
  BY JoinParts, ListParts
<1> DEFINE ab == a \o b
           M == Len(a)
           N == Len(b)
<1>2. ab \in Seq(V) /\ Len(ab) = M + N /\ M \in Nat /\ N \in Nat
  BY <1>1
<1>3. SubSeq(ab, M + 1, M + N) = b
  <2> HIDE DEF ab
  <2>1. M <= M + N /\ M + N <= Len(ab) /\ (M + N) - M = N /\ M + N \in Nat
    BY <1>2
  <2> DEFINE c == SubSeq(ab, M + 1, M + N)
  <2>2. c \in Seq(V) /\ Len(c) = N /\ \A k \in 1 .. N : c[k] = ab[M + k]
    <3> HIDE DEF M, N
    <3> QED BY <1>2, <2>1, SubSeqParts
  <2>3. \A k \in 1 .. N : c[k] = b[k]
    <3> HIDE DEF c
    <3> QED BY <1>1, <2>2 DEF ab
  <2> HIDE DEF c
  <2>4. c = b
    BY <2>2, <2>3, ListsEqual
  <2> QED
    BY <2>4 DEF c
<1>4. ASSUME NEW i \in Nat, NEW j \in Nat, i <= j, j <= M
      PROVE  SubSeq(ab, i + 1, j) = SubSeq(a, i + 1, j)
  <2> HIDE DEF ab
  <2>1. j <= Len(ab)
    BY <1>2, <1>4
  <2> DEFINE c == SubSeq(ab, i + 1, j)
             d == SubSeq(a, i + 1, j)
  <2>2. c \in Seq(V) /\ Len(c) = j - i /\ \A k \in 1 .. j - i : c[k] = ab[i + k]
    BY <1>2, <1>4, <2>1, SubSeqParts
  <2>3. d \in Seq(V) /\ Len(d) = j - i /\ \A k \in 1 .. j - i : d[k] = a[i + k]
    BY <1>4, SubSeqParts
  <2>4. \A k \in 1 .. j - i : i + k \in 1 .. M /\ ab[i + k] = a[i + k]
    BY <1>1, <1>4 DEF ab
  <2> HIDE DEF c, d
  <2>5. c = d
    BY <2>2, <2>3, <2>4, ListsEqual
  <2> QED
    BY <2>5 DEF c, d
<1> QED
  BY <1>3, <1>4

(* f is given at 0 and by steps from there on.                             *)
Recursion(f, N, T, start, step) ==
  /\ f \in [0 .. N -> T]
  /\ f[0] = start
  /\ \A n \in 1 .. N : f[n] = step[<<n, f[n - 1]>>]

(* There is such a function.                                               *)
LEMMA RecursionExists ==
  ASSUME NEW N \in Nat, NEW T, NEW start \in T, NEW step \in [(1 .. N) \X T -> T]
  PROVE  \E f : Recursion(f, N, T, start, step)
<1> DEFINE Good(f, n) == f[0] = start /\ \A k \in 1 .. n : f[k] = step[<<k, f[k - 1]>>]
           S == {n \in 0 .. N : \E f \in [0 .. n -> T] : Good(f, n)}
<1>1. 0 \in S
  <2> DEFINE f == [k \in 0 .. 0 |-> start]
  <2>1. f \in [0 .. 0 -> T] /\ Good(f, 0)
    OBVIOUS
  <2>2. 0 \in 0 .. N
    OBVIOUS
  <2> HIDE DEF f, Good
  <2> QED
    BY <2>1, <2>2
<1>2. ASSUME NEW n \in 0 .. N - 1, n \in S
      PROVE  n + 1 \in S
  <2>1. PICK f \in [0 .. n -> T] : Good(f, n)
    BY <1>2
  <2> DEFINE last == step[<<n + 1, f[n]>>]
             g == [k \in 0 .. n + 1 |-> IF k = n + 1 THEN last ELSE f[k]]
  <2>2. n \in Nat /\ n + 1 \in 1 .. N /\ n + 1 \in 0 .. N
    OBVIOUS
  <2>3. f[n] \in T
    BY <2>1, <2>2
  <2>4. last \in T
    BY <2>2, <2>3
  <2>5. \A k \in 0 .. n : g[k] = f[k] /\ f[k] \in T
    BY <2>1, <2>2
  <2>6. g[n + 1] = step[<<n + 1, g[n]>>]
    <3>1. g[n] = f[n] /\ n + 1 \in 0 .. n + 1
      BY <2>2, <2>5
    <3>2. g[n + 1] = last
      BY <3>1
    <3> QED
      BY <3>1, <3>2
  <2>7. g \in [0 .. n + 1 -> T]
    <3> HIDE DEF last
    <3> QED BY <2>1, <2>2, <2>4
  <2>8. Good(g, n + 1)
    <3> HIDE DEF g, last
    <3>1. g[0] = start
      BY <2>1, <2>2, <2>5
    <3>2. ASSUME NEW k \in 1 .. n + 1
          PROVE  g[k] = step[<<k, g[k - 1]>>]
      <4>1. CASE k = n + 1
        <5>1. k - 1 = n
          BY <4>1, <2>2
        <5> QED
          BY <2>6, <4>1, <5>1
      <4>2. CASE k # n + 1
        <5>1. k \in 1 .. n /\ k \in 0 .. n /\ k - 1 \in 0 .. n
          BY <2>2, <4>2
        <5>2. f[k] = step[<<k, f[k - 1]>>]
          BY <2>1, <5>1
        <5> QED
          BY <2>5, <5>1, <5>2
      <4> QED
        BY <4>1, <4>2
    <3> QED
      BY <3>1, <3>2
  <2> QED
    <3> HIDE DEF Good, g
    <3> QED BY <2>2, <2>7, <2>8
<1>3. N \in S
  <2>1. \A n \in 0 .. N : n \in S
    <3> HIDE DEF S
    <3> QED BY <1>1, <1>2, Induction
  <2>2. N \in 0 .. N
    OBVIOUS
  <2> HIDE DEF S
  <2> QED
    BY <2>1, <2>2
<1> QED
  BY <1>3 DEF Recursion

-----------------------------------------------------------------------------
(* Sorted sets.                                                            *)

(* R orders the members of S strictly, and any two of them.                *)
Orders(R, S) ==
  /\ \A x \in S : <<x, x>> \notin R
  /\ \A x, y \in S : x = y \/ <<x, y>> \in R \/ <<y, x>> \in R
  /\ \A x, y, z \in S : <<x, y>> \in R /\ <<y, z>> \in R => <<x, z>> \in R

(* The place of a member is one of as many as there are members.           *)
LEMMA PlaceType ==
  ASSUME NEW S, IsFiniteSet(S), NEW R, NEW x \in S
  PROVE  Place(S, R, x) \in 1 .. Cardinality(S)
<1> DEFINE B == {y \in S : y = x \/ <<y, x>> \in R}
<1>1. B \in SUBSET S /\ x \in B
  OBVIOUS
<1> HIDE DEF B
<1>2. IsFiniteSet(B) /\ Cardinality(B) <= Cardinality(S)
  BY <1>1, FS_Subset
<1>3. Cardinality(B) # 0 /\ Cardinality(B) \in Nat /\ Cardinality(S) \in Nat
  BY <1>1, <1>2, FS_EmptySet, FS_CardinalityType
<1>4. Cardinality(B) \in 1 .. Cardinality(S)
  BY <1>2, <1>3
<1> QED
  BY <1>4 DEF B, Place

(* What is smaller has a smaller place.                                    *)
LEMMA PlaceIncreases ==
  ASSUME NEW S, IsFiniteSet(S), NEW R, Orders(R, S), NEW x \in S, NEW y \in S, <<x, y>> \in R
  PROVE  Place(S, R, x) < Place(S, R, y)
<1> DEFINE B(z) == {u \in S : u = z \/ <<u, z>> \in R}
<1>1. B(x) \in SUBSET B(y) /\ y \in B(y) /\ y \notin B(x)
  BY DEF Orders
<1>2. B(y) \in SUBSET S
  OBVIOUS
<1>3. Place(S, R, x) = Cardinality(B(x)) /\ Place(S, R, y) = Cardinality(B(y))
  BY DEF Place
<1> HIDE DEF B
<1>4. IsFiniteSet(B(y))
  BY <1>2, FS_Subset
<1>5. /\ IsFiniteSet(B(x)) /\ Cardinality(B(x)) <= Cardinality(B(y))
      /\ Cardinality(B(x)) # Cardinality(B(y))
  BY <1>1, <1>4, FS_Subset
<1>6. Cardinality(B(x)) \in Nat /\ Cardinality(B(y)) \in Nat
  BY <1>4, <1>5, FS_CardinalityType
<1> QED
  BY <1>3, <1>5, <1>6

(* No two members have the same place.                                     *)
LEMMA PlaceInjective ==
  ASSUME NEW S, IsFiniteSet(S), NEW R, Orders(R, S), NEW x \in S, NEW y \in S,
         Place(S, R, x) = Place(S, R, y)
  PROVE  x = y
<1>1. /\ <<x, y>> \in R => Place(S, R, x) < Place(S, R, y)
      /\ <<y, x>> \in R => Place(S, R, y) < Place(S, R, x)
  BY PlaceIncreases
<1>2. Cardinality(S) \in Nat
  BY FS_CardinalityType
<1>3. Place(S, R, x) \in Int /\ Place(S, R, y) \in Int
  BY <1>2, PlaceType
<1> QED
  BY <1>1, <1>3 DEF Orders

(* Every place is that of a member.                                        *)
LEMMA PlaceSurjective ==
  ASSUME NEW S, IsFiniteSet(S), NEW R, Orders(R, S), NEW n \in 1 .. Cardinality(S)
  PROVE  \E x \in S : Place(S, R, x) = n
<1> DEFINE f == [x \in S |-> Place(S, R, x)]
<1>1. f \in [S -> 1 .. Cardinality(S)]
  BY PlaceType
<1>2. \A x, y \in S : f[x] = f[y] => x = y
  BY PlaceInjective
<1>3. IsFiniteSet(1 .. Cardinality(S)) /\ Cardinality(1 .. Cardinality(S)) = Cardinality(S)
  BY FS_CardinalityType, FS_Interval
<1>4. f \in Surjection(S, 1 .. Cardinality(S))
  <2> HIDE DEF f
  <2>1. f \in Injection(S, 1 .. Cardinality(S))
    BY <1>1, <1>2 DEF Injection, IsInjective
  <2> QED
    BY <2>1, <1>3, FS_Injection
<1>5. \E x \in S : f[x] = n
  <2> HIDE DEF f
  <2> QED BY <1>4 DEF Surjection
<1> QED
  BY <1>5

(* SortBy has the members of S, each once, in the order R.                 *)
LEMMA SortByParts ==
  ASSUME NEW S, IsFiniteSet(S), NEW R, Orders(R, S)
  PROVE  /\ Cardinality(S) \in Nat
         /\ SortBy(S, R) \in [1 .. Cardinality(S) -> S]
         /\ \A x \in S : \E n \in 1 .. Cardinality(S) : SortBy(S, R)[n] = x
         /\ \A m, n \in 1 .. Cardinality(S) :
              m < n => <<SortBy(S, R)[m], SortBy(S, R)[n]>> \in R
<1> DEFINE N == Cardinality(S)
           at(n) == CHOOSE x \in S : Place(S, R, x) = n
<1>1. N \in Nat
  BY FS_CardinalityType
<1>2. ASSUME NEW n \in 1 .. N
      PROVE  at(n) \in S /\ Place(S, R, at(n)) = n
  <2>1. \E x \in S : Place(S, R, x) = n
    BY PlaceSurjective
  <2> QED
    BY <2>1
<1>3. \A n \in 1 .. N : SortBy(S, R)[n] = at(n)
  BY DEF SortBy
<1>4. SortBy(S, R) \in [1 .. N -> S]
  <2> SUFFICES [n \in 1 .. N |-> at(n)] \in [1 .. N -> S]
    BY DEF SortBy
  <2> HIDE DEF N, at
  <2> QED
    BY <1>2
<1>5. ASSUME NEW x \in S
      PROVE  \E n \in 1 .. N : at(n) = x
  <2>1. Place(S, R, x) \in 1 .. N
    BY PlaceType
  <2>2. at(Place(S, R, x)) \in S /\ Place(S, R, at(Place(S, R, x))) = Place(S, R, x)
    BY <1>2, <2>1
  <2>3. at(Place(S, R, x)) = x
    <3> HIDE DEF at
    <3> QED BY <2>2, PlaceInjective
  <2> QED
    BY <2>1, <2>3
<1>6. ASSUME NEW m \in 1 .. N, NEW n \in 1 .. N, m < n
      PROVE  <<at(m), at(n)>> \in R
  <2> HIDE DEF N, at
  <2>1. at(m) \in S /\ at(n) \in S /\ Place(S, R, at(m)) = m /\ Place(S, R, at(n)) = n
    BY <1>2
  <2>2. ~ (n < m) /\ m # n
    BY <1>1, <1>6
  <2>3. <<at(n), at(m)>> \in R => n < m
    BY <2>1, PlaceIncreases
  <2> QED
    BY <2>1, <2>2, <2>3 DEF Orders
<1> QED
  <2> HIDE DEF at, N
  <2>1. \A x \in S : \E n \in 1 .. N : SortBy(S, R)[n] = x
    BY <1>3, <1>5
  <2>2. \A m, n \in 1 .. N : m < n => <<SortBy(S, R)[m], SortBy(S, R)[n]>> \in R
    BY <1>3, <1>6
  <2> QED
    BY <1>1, <1>4, <2>1, <2>2 DEF N

(* Ascending has the numbers of S, each once, the smaller first.           *)
LEMMA AscendingParts ==
  ASSUME NEW S \in SUBSET Int, IsFiniteSet(S)
  PROVE  /\ Cardinality(S) \in Nat
         /\ Ascending(S) \in [1 .. Cardinality(S) -> S]
         /\ \A x \in S : \E n \in 1 .. Cardinality(S) : Ascending(S)[n] = x
         /\ \A m, n \in 1 .. Cardinality(S) : m < n => Ascending(S)[m] < Ascending(S)[n]
<1> DEFINE R == {p \in S \X S : p[1] < p[2]}
<1>1. Orders(R, S)
  BY DEF Orders
<1>2. \A x, y : <<x, y>> \in R => x < y
  OBVIOUS
<1>3. Ascending(S) = SortBy(S, R)
  BY DEF Ascending
<1> HIDE DEF R
<1>4. /\ Cardinality(S) \in Nat
      /\ SortBy(S, R) \in [1 .. Cardinality(S) -> S]
      /\ \A x \in S : \E n \in 1 .. Cardinality(S) : SortBy(S, R)[n] = x
  BY <1>1, SortByParts
<1>5. \A m, n \in 1 .. Cardinality(S) :
        m < n => <<SortBy(S, R)[m], SortBy(S, R)[n]>> \in R
  BY <1>1, SortByParts
<1> QED
  BY <1>2, <1>3, <1>4, <1>5

(* A list's positions are a finite set of numbers.                         *)
LEMMA PositionsFinite ==
  ASSUME NEW V, NEW s \in Seq(V), NEW I \in SUBSET DOMAIN s
  PROVE  I \in SUBSET Int /\ IsFiniteSet(I) /\ Cardinality(I) \in Nat
<1>1. DOMAIN s = 1 .. Len(s) /\ Len(s) \in Nat
  OBVIOUS
<1>2. IsFiniteSet(1 .. Len(s))
  BY <1>1, FS_Interval
<1>3. IsFiniteSet(I)
  BY <1>1, <1>2, FS_Subset
<1> QED
  BY <1>1, <1>3, FS_CardinalityType

(* What is picked by key is a list of the values at the positions.         *)
LEMMA PickByParts ==
  ASSUME NEW V, NEW s \in Seq(V), NEW I \in SUBSET DOMAIN s, NEW key,
         \A i \in I : key[i] \in Int
  PROVE  /\ PickBy(s, I, key) \in Seq(V)
         /\ \A i \in I : \E n \in 1 .. Len(PickBy(s, I, key)) : PickBy(s, I, key)[n] = s[i]
         /\ \A n \in 1 .. Len(PickBy(s, I, key)) : \E i \in I : PickBy(s, I, key)[n] = s[i]
<1> DEFINE R == {p \in I \X I : key[p[1]] < key[p[2]] \/ (key[p[1]] = key[p[2]] /\ p[1] < p[2])}
           N == Cardinality(I)
           order == SortBy(I, R)
<1>1. I \in SUBSET Int /\ IsFiniteSet(I) /\ N \in Nat
  BY PositionsFinite
<1>2. Orders(R, I)
  <2>1. \A x, y \in I : <<x, y>> \in R <=> key[x] < key[y] \/ (key[x] = key[y] /\ x < y)
    OBVIOUS
  <2>2. \A x \in I : key[x] \in Int /\ x \in Int
    BY <1>1
  <2> HIDE DEF R
  <2>3. \A x \in I : <<x, x>> \notin R
    BY <2>1, <2>2
  <2>4. \A x, y \in I : x = y \/ <<x, y>> \in R \/ <<y, x>> \in R
    <3> SUFFICES ASSUME NEW x \in I, NEW y \in I
                 PROVE  x = y \/ <<x, y>> \in R \/ <<y, x>> \in R
      OBVIOUS
    <3>1. x \in Int /\ y \in Int /\ key[x] \in Int /\ key[y] \in Int
      BY <2>2
    <3> QED
      BY <2>1, <3>1
  <2>5. ASSUME NEW x \in I, NEW y \in I, NEW z \in I, <<x, y>> \in R, <<y, z>> \in R
        PROVE  <<x, z>> \in R
    <3>1. /\ x \in Int /\ y \in Int /\ z \in Int
          /\ key[x] \in Int /\ key[y] \in Int /\ key[z] \in Int
      BY <2>2
    <3>2. key[x] < key[y] \/ (key[x] = key[y] /\ x < y)
      BY <2>1, <2>5
    <3>3. key[y] < key[z] \/ (key[y] = key[z] /\ y < z)
      BY <2>1, <2>5
    <3>4. key[x] < key[z] \/ (key[x] = key[z] /\ x < z)
      BY <3>1, <3>2, <3>3
    <3> QED
      BY <2>1, <3>4
  <2> QED
    BY <2>3, <2>4, <2>5 DEF Orders
<1>3. PickBy(s, I, key) = [n \in 1 .. N |-> s[order[n]]]
  BY DEF PickBy
<1> HIDE DEF R
<1>4. order \in [1 .. N -> I] /\ \A i \in I : \E n \in 1 .. N : order[n] = i
  BY <1>1, <1>2, SortByParts
<1> HIDE DEF order, N
<1>5. \A n \in 1 .. N : order[n] \in I /\ s[order[n]] \in V
  BY <1>4
<1>6. PickBy(s, I, key) \in Seq(V) /\ Len(PickBy(s, I, key)) = N
  BY <1>1, <1>3, <1>5
<1>7. \A n \in 1 .. N : PickBy(s, I, key)[n] = s[order[n]]
  BY <1>3
<1> QED
  <2>1. \A i \in I : \E n \in 1 .. N : PickBy(s, I, key)[n] = s[i]
    BY <1>4, <1>7
  <2>2. \A n \in 1 .. N : \E i \in I : PickBy(s, I, key)[n] = s[i]
    BY <1>5, <1>7
  <2> QED
    BY <1>6, <2>1, <2>2

(* What is picked is a list of the values at the positions.                *)
LEMMA PickParts ==
  ASSUME NEW V, NEW s \in Seq(V), NEW I \in SUBSET DOMAIN s
  PROVE  /\ Pick(s, I) \in Seq(V)
         /\ \A i \in I : \E n \in 1 .. Len(Pick(s, I)) : Pick(s, I)[n] = s[i]
         /\ \A n \in 1 .. Len(Pick(s, I)) : \E i \in I : Pick(s, I)[n] = s[i]
<1> DEFINE N == Cardinality(I)
           order == Ascending(I)
<1>1. I \in SUBSET Int /\ IsFiniteSet(I) /\ N \in Nat
  BY PositionsFinite
<1>2. Pick(s, I) = [n \in 1 .. N |-> s[order[n]]]
  BY DEF Pick
<1>3. order \in [1 .. N -> I] /\ \A i \in I : \E n \in 1 .. N : order[n] = i
  BY <1>1, AscendingParts
<1> HIDE DEF order, N
<1>4. \A n \in 1 .. N : order[n] \in I /\ s[order[n]] \in V
  BY <1>3
<1>5. Pick(s, I) \in Seq(V) /\ Len(Pick(s, I)) = N
  BY <1>1, <1>2, <1>4
<1>6. \A n \in 1 .. N : Pick(s, I)[n] = s[order[n]]
  BY <1>2
<1> QED
  <2>1. \A i \in I : \E n \in 1 .. N : Pick(s, I)[n] = s[i]
    BY <1>3, <1>6
  <2>2. \A n \in 1 .. N : \E i \in I : Pick(s, I)[n] = s[i]
    BY <1>4, <1>6
  <2> QED
    BY <1>5, <2>1, <2>2

(* Who picks every position picks the list.                                *)
LEMMA PickAll ==
  ASSUME NEW V, NEW s \in Seq(V)
  PROVE  Pick(s, DOMAIN s) = s
<1> DEFINE N == Len(s)
           R == {p \in (1 .. N) \X (1 .. N) : p[1] < p[2]}
<1>1. DOMAIN s = 1 .. N /\ N \in Nat /\ Cardinality(1 .. N) = N /\ IsFiniteSet(1 .. N)
  <2>1. DOMAIN s = 1 .. N /\ N \in Nat
    OBVIOUS
  <2> HIDE DEF N
  <2>2. IsFiniteSet(1 .. N) /\ Cardinality(1 .. N) = N
    BY <2>1, FS_Interval
  <2> QED
    BY <2>1, <2>2
<1>2. ASSUME NEW n \in 1 .. N
      PROVE  Place(1 .. N, R, n) = n
  <2>1. {y \in 1 .. N : y = n \/ <<y, n>> \in R} = 1 .. n
    OBVIOUS
  <2>2. Cardinality(1 .. n) = n
    BY FS_Interval
  <2> QED
    BY <2>1, <2>2 DEF Place
<1>3. ASSUME NEW n \in 1 .. N
      PROVE  (CHOOSE x \in 1 .. N : Place(1 .. N, R, x) = n) = n
  <2> HIDE DEF R, N
  <2> QED BY <1>2
<1>4. SortBy(1 .. N, R) = [n \in 1 .. N |-> n]
  <2> HIDE DEF R, N
  <2> QED BY <1>1, <1>3 DEF SortBy
<1>5. Ascending(1 .. N) = [n \in 1 .. N |-> n]
  BY <1>4 DEF Ascending
<1>6. Pick(s, 1 .. N) = [n \in 1 .. N |-> s[n]]
  <2> HIDE DEF R, N
  <2> QED BY <1>1, <1>5 DEF Pick
<1> QED
  BY <1>1, <1>6

-----------------------------------------------------------------------------
(* Joined lists.                                                           *)

(* FlattenSeq joins the lists one after the other.                         *)
LEMMA FlattenParts ==
  ASSUME NEW V, NEW ss \in Seq(Seq(V))
  PROVE  \E upto \in [0 .. Len(ss) -> Seq(V)] :
           /\ upto[0] = <<>>
           /\ \A n \in 1 .. Len(ss) : upto[n] = upto[n - 1] \o ss[n]
           /\ FlattenSeq(ss) = upto[Len(ss)]
<1> DEFINE N == Len(ss)
           T == Seq(V)
           none == <<>>
           Fits(f) == f = [i \in 1 .. N |-> IF i = 1 THEN ss[i] ELSE f[i - 1] \o ss[i]]
           flatten == CHOOSE f : Fits(f)
           step == [p \in (1 .. N) \X T |-> p[2] \o ss[p[1]]]
<1>1. N \in Nat /\ none \in T /\ \A i \in 1 .. N : ss[i] \in T
  OBVIOUS
<1>2. \A s, t \in T : s \o t \in T /\ none \o s = s
  OBVIOUS
<1>3. FlattenSeq(ss) = IF N = 0 THEN none ELSE flatten[N]
  BY DEF FlattenSeq
<1> SUFFICES \E upto \in [0 .. N -> T] :
               /\ upto[0] = none
               /\ \A n \in 1 .. N : upto[n] = upto[n - 1] \o ss[n]
               /\ FlattenSeq(ss) = upto[N]
  OBVIOUS
<1> HIDE DEF N, T, none
<1>4. step \in [(1 .. N) \X T -> T]
  BY <1>1, <1>2
<1>5. PICK f \in [0 .. N -> T] :
        f[0] = none /\ \A n \in 1 .. N : f[n] = step[<<n, f[n - 1]>>]
  <2> HIDE DEF step
  <2>1. \E f : Recursion(f, N, T, none, step)
    BY <1>1, <1>4, RecursionExists
  <2> QED
    BY <2>1 DEF Recursion
<1>6. f[0] = none /\ \A n \in 1 .. N : f[n] = f[n - 1] \o ss[n]
  <2>1. \A n \in 1 .. N : f[n - 1] \in T /\ <<n, f[n - 1]>> \in (1 .. N) \X T
    BY <1>1
  <2> QED
    BY <1>5, <2>1
<1>7. ASSUME N > 0
      PROVE  1 \in 1 .. N /\ f[1] = ss[1]
  <2>1. 1 \in 1 .. N /\ 1 - 1 = 0
    BY <1>1, <1>7
  <2>2. f[1] = none \o ss[1]
    BY <1>6, <2>1
  <2> QED
    BY <1>1, <1>2, <2>1, <2>2
<1>8. Fits(flatten)
  <2> DEFINE g == [i \in 1 .. N |-> f[i]]
  <2>1. Fits(g)
    <3> SUFFICES ASSUME NEW i \in 1 .. N
                 PROVE  f[i] = IF i = 1 THEN ss[i] ELSE g[i - 1] \o ss[i]
      OBVIOUS
    <3>1. CASE i = 1
      BY <1>1, <1>7, <3>1
    <3>2. CASE i # 1
      <4>1. i - 1 \in 1 .. N
        BY <1>1, <3>2
      <4> QED
        BY <1>6, <3>2, <4>1
    <3> QED
      BY <3>1, <3>2
  <2> HIDE DEF Fits
  <2> QED
    BY <2>1
<1>9. ASSUME N > 0
      PROVE  flatten[N] = f[N]
  <2> DEFINE S == {i \in 1 .. N : flatten[i] = f[i]}
  <2>1. \A i \in 1 .. N : flatten[i] = IF i = 1 THEN ss[i] ELSE flatten[i - 1] \o ss[i]
    <3> HIDE DEF flatten
    <3> QED BY <1>8
  <2> HIDE DEF flatten
  <2>2. 1 \in S
    BY <1>7, <1>9, <2>1
  <2>3. ASSUME NEW n \in 1 .. N - 1, n \in S
        PROVE  n + 1 \in S
    <3>1. n + 1 \in 1 .. N /\ n + 1 # 1 /\ (n + 1) - 1 = n
      BY <1>1
    <3>2. flatten[n + 1] = flatten[n] \o ss[n + 1] /\ f[n + 1] = f[n] \o ss[n + 1]
      BY <1>6, <2>1, <3>1
    <3> QED
      BY <2>3, <3>1, <3>2
  <2>4. \A n \in 1 .. N : n \in S
    <3> HIDE DEF S
    <3>1. N \in Int /\ 1 \in Int /\ (1 <= N => 1 \in S) /\ \A n \in 1 .. N - 1 : n \in S => n + 1 \in S
      BY <1>1, <2>2, <2>3
    <3> QED
      BY <3>1, Induction
  <2> QED
    BY <1>1, <1>9, <2>4
<1>10. FlattenSeq(ss) = f[N]
  <2> HIDE DEF flatten
  <2> QED BY <1>1, <1>3, <1>6, <1>9
<1> QED
  BY <1>6, <1>10

(* Each of the lists is in all behind the elements of those before it; there *)
(* are before[n] of them in the first n lists.                             *)
Laid(V, ss, before, all) ==
  /\ all \in Seq(V) /\ Len(all) = before[Len(ss)]
  /\ \A n \in 1 .. Len(ss) : \A k \in 1 .. Len(ss[n]) :
       /\ before[n - 1] + k \in 1 .. before[Len(ss)]
       /\ all[before[n - 1] + k] = ss[n][k]

(* Where each of the lists is in the joined one.                            *)
LEMMA FlattenAt ==
  ASSUME NEW V, NEW ss \in Seq(Seq(V)), NEW before \in [0 .. Len(ss) -> Nat],
         before[0] = 0, \A n \in 1 .. Len(ss) : before[n] = before[n - 1] + Len(ss[n])
  PROVE  Laid(V, ss, before, FlattenSeq(ss))
<1> DEFINE N == Len(ss)
<1>1. PICK upto \in [0 .. N -> Seq(V)] :
        /\ upto[0] = <<>>
        /\ \A n \in 1 .. N : upto[n] = upto[n - 1] \o ss[n]
        /\ FlattenSeq(ss) = upto[N]
  BY FlattenParts
<1>2. N \in Nat /\ \A n \in 1 .. N : ss[n] \in Seq(V)
  BY ListParts
<1> HIDE DEF N
<1> DEFINE Placed(m) == \A n \in 1 .. m : \A k \in 1 .. Len(ss[n]) :
                          /\ before[n - 1] + k \in 1 .. before[m]
                          /\ upto[m][before[n - 1] + k] = ss[n][k]
           S == {m \in 0 .. N : Len(upto[m]) = before[m] /\ Placed(m)}
<1>3. 0 \in S
  <2>1. Len(upto[0]) = before[0] /\ Placed(0)
    BY <1>1
  <2> QED
    BY <1>2, <2>1
<1>4. ASSUME NEW m \in 0 .. N - 1, m \in S
      PROVE  m + 1 \in S
  <2>1. m + 1 \in 1 .. N /\ m + 1 \in 0 .. N /\ (m + 1) - 1 = m /\ m \in 0 .. N
    BY <1>2
  <2> DEFINE a == upto[m]
             b == ss[m + 1]
  <2>2. /\ a \in Seq(V) /\ b \in Seq(V) /\ upto[m + 1] = a \o b /\ Len(a) = before[m]
        /\ before[m + 1] = before[m] + Len(b) /\ before[m] \in Nat /\ Len(b) \in Nat
    <3>1. b \in Seq(V) /\ a \in Seq(V)
      BY <1>2, <2>1
    <3>2. Len(b) \in Nat
      <4> HIDE DEF b
      <4> QED BY <3>1
    <3>3. upto[m + 1] = a \o b
      BY <1>1, <2>1
    <3>4. before[m + 1] = before[m] + Len(b) /\ before[m] \in Nat
      BY <2>1 DEF N
    <3>5. Len(a) = before[m]
      BY <1>4
    <3> QED
      BY <3>1, <3>2, <3>3, <3>4, <3>5
  <2>3. Placed(m)
    BY <1>4
  <2> HIDE DEF a, b
  <2>4. /\ Len(upto[m + 1]) = before[m + 1]
        /\ \A k \in 1 .. Len(a) : upto[m + 1][k] = a[k]
        /\ \A k \in 1 .. Len(b) : upto[m + 1][Len(a) + k] = b[k]
    <3> DEFINE c == a \o b
    <3>1. /\ Len(c) = Len(a) + Len(b)
          /\ \A k \in 1 .. Len(a) : c[k] = a[k]
          /\ \A k \in 1 .. Len(b) : c[Len(a) + k] = b[k]
      <4>1. a \in Seq(V) /\ b \in Seq(V)
        BY <2>2
      <4> QED
        BY ONLY <4>1, JoinParts
    <3>2. upto[m + 1] = c
      BY <2>2
    <3> HIDE DEF c
    <3> QED
      BY <2>2, <3>1, <3>2
  <2>5. ASSUME NEW n \in 1 .. m + 1, NEW k \in 1 .. Len(ss[n])
        PROVE  /\ before[n - 1] + k \in 1 .. before[m + 1]
               /\ upto[m + 1][before[n - 1] + k] = ss[n][k]
    <3>1. CASE n \in 1 .. m
      <4>1. before[n - 1] + k \in 1 .. before[m] /\ upto[m][before[n - 1] + k] = ss[n][k]
        BY <2>3, <3>1
      <4>2. before[n - 1] + k \in 1 .. before[m + 1]
        BY <2>2, <4>1
      <4>3. upto[m + 1][before[n - 1] + k] = a[before[n - 1] + k]
        BY <2>2, <2>4, <4>1
      <4> QED
        BY <4>1, <4>2, <4>3 DEF a
    <3>2. CASE n = m + 1
      <4>1. n - 1 = m /\ ss[n] = b /\ k \in 1 .. Len(b)
        BY <2>1, <3>2 DEF b
      <4>2. before[m] + k \in 1 .. before[m + 1]
        BY <2>2, <4>1
      <4>3. upto[m + 1][before[m] + k] = b[k]
        BY <2>2, <2>4, <4>1
      <4> QED
        BY <4>1, <4>2, <4>3
    <3> QED
      BY <2>1, <3>1, <3>2
  <2>6. Placed(m + 1)
    BY <2>5
  <2> HIDE DEF Placed
  <2> QED
    BY <2>1, <2>4, <2>6
<1>5. \A m \in 0 .. N : m \in S
  <2> HIDE DEF S
  <2>1. N \in Int /\ 0 \in Int /\ (0 <= N => 0 \in S) /\ \A m \in 0 .. N - 1 : m \in S => m + 1 \in S
    BY <1>2, <1>3, <1>4
  <2> QED
    BY <2>1, Induction
<1>6. N \in S /\ upto[N] \in Seq(V)
  <2> HIDE DEF S
  <2> QED BY <1>2, <1>5
<1> QED
  BY <1>1, <1>6 DEF N, Laid

(* Lists without elements, joined.                                         *)
LEMMA FlattenNothing ==
  ASSUME NEW V, NEW ss \in Seq(Seq(V)), \A n \in 1 .. Len(ss) : Len(ss[n]) = 0
  PROVE  FlattenSeq(ss) = <<>>
<1> DEFINE before == [n \in 0 .. Len(ss) |-> 0]
<1>1. Len(ss) \in Nat
  BY ListParts
<1>2. before \in [0 .. Len(ss) -> Nat] /\ before[0] = 0 /\ before[Len(ss)] = 0
      /\ \A n \in 1 .. Len(ss) : before[n] = before[n - 1] + Len(ss[n])
  BY <1>1
<1> HIDE DEF before
<1>3. FlattenSeq(ss) \in Seq(V) /\ Len(FlattenSeq(ss)) = before[Len(ss)]
  <2>1. ss \in Seq(Seq(V))
    OBVIOUS
  <2>2. Laid(V, ss, before, FlattenSeq(ss))
    BY ONLY <1>2, <2>1, FlattenAt
  <2> QED
    BY <2>2 DEF Laid
<1> DEFINE all == FlattenSeq(ss)
<1>4. all \in Seq(V) /\ Len(all) = 0
  BY <1>2, <1>3
<1> HIDE DEF all
<1>5. all = <<>>
  BY <1>4
<1> QED
  BY <1>5 DEF all

(* The list t has g of the elements of s.                                  *)
ImageOf(g, s, t) == Len(t) = Len(s) /\ \A k \in 1 .. Len(s) : t[k] = g[s[k]]

(* What is done to every element may be done before the lists are joined.   *)
LEMMA FlattenMap ==
  ASSUME NEW V, NEW U, NEW g \in [V -> U], NEW ss \in Seq(Seq(V)), NEW tt \in Seq(Seq(U)),
         Len(tt) = Len(ss),
         \A n \in 1 .. Len(ss) : ImageOf(g, ss[n], tt[n])
  PROVE  /\ FlattenSeq(ss) \in Seq(V) /\ FlattenSeq(tt) \in Seq(U)
         /\ ImageOf(g, FlattenSeq(ss), FlattenSeq(tt))
<1> DEFINE N == Len(ss)
<1>1. PICK a \in [0 .. N -> Seq(V)] :
        /\ a[0] = <<>>
        /\ \A n \in 1 .. N : a[n] = a[n - 1] \o ss[n]
        /\ FlattenSeq(ss) = a[N]
  BY FlattenParts
<1>2. PICK b \in [0 .. N -> Seq(U)] :
        /\ b[0] = <<>>
        /\ \A n \in 1 .. N : b[n] = b[n - 1] \o tt[n]
        /\ FlattenSeq(tt) = b[N]
  <2>1. Len(tt) = N
    OBVIOUS
  <2>2. \E f \in [0 .. Len(tt) -> Seq(U)] :
          /\ f[0] = <<>>
          /\ \A n \in 1 .. Len(tt) : f[n] = f[n - 1] \o tt[n]
          /\ FlattenSeq(tt) = f[Len(tt)]
    BY FlattenParts
  <2> HIDE DEF N
  <2> QED
    BY <2>1, <2>2
<1>3. /\ N \in Nat /\ \A n \in 1 .. N : ss[n] \in Seq(V) /\ tt[n] \in Seq(U)
      /\ \A n \in 1 .. N :
           Len(tt[n]) = Len(ss[n]) /\ \A k \in 1 .. Len(ss[n]) : tt[n][k] = g[ss[n][k]]
  BY ListParts DEF ImageOf
<1> HIDE DEF N
<1> DEFINE Alike(s, t) == Len(t) = Len(s) /\ \A k \in 1 .. Len(s) : t[k] = g[s[k]]
           S == {n \in 0 .. N : Alike(a[n], b[n])}
<1>4. 0 \in S
  BY <1>1, <1>2, <1>3
<1>5. ASSUME NEW n \in 0 .. N - 1, n \in S
      PROVE  n + 1 \in S
  <2> DEFINE s == a[n]
             t == b[n]
             x == ss[n + 1]
             y == tt[n + 1]
  <2>1. n + 1 \in 1 .. N /\ n + 1 \in 0 .. N /\ (n + 1) - 1 = n /\ n \in 0 .. N
    BY <1>3
  <2>2. s \in Seq(V) /\ x \in Seq(V) /\ a[n + 1] = s \o x
    BY <1>1, <1>3, <2>1
  <2>3. t \in Seq(U) /\ y \in Seq(U) /\ b[n + 1] = t \o y
    BY <1>2, <1>3, <2>1
  <2>4. Alike(s, t) /\ Alike(x, y)
    BY <1>3, <1>5, <2>1
  <2> HIDE DEF s, t, x, y, Alike
  <2>5. Alike(s \o x, t \o y)
    <3> DEFINE sx == s \o x
               ty == t \o y
    <3>1. /\ Len(sx) = Len(s) + Len(x)
          /\ \A k \in 1 .. Len(s) : sx[k] = s[k]
          /\ \A k \in 1 .. Len(x) : sx[Len(s) + k] = x[k]
      <4>1. s \in Seq(V) /\ x \in Seq(V)
        BY <2>2
      <4> QED
        BY ONLY <4>1, JoinParts
    <3>2. /\ Len(ty) = Len(t) + Len(y)
          /\ \A k \in 1 .. Len(t) : ty[k] = t[k]
          /\ \A k \in 1 .. Len(y) : ty[Len(t) + k] = y[k]
      <4>1. t \in Seq(U) /\ y \in Seq(U)
        BY <2>3
      <4> QED
        BY ONLY <4>1, JoinParts
    <3>3. Len(s) \in Nat /\ Len(x) \in Nat
      BY <2>2
    <3> HIDE DEF sx, ty
    <3>4. ASSUME NEW k \in 1 .. Len(sx)
          PROVE  ty[k] = g[sx[k]]
      <4>1. CASE k \in 1 .. Len(s)
        BY <2>4, <3>1, <3>2, <4>1 DEF Alike
      <4>2. CASE k \notin 1 .. Len(s)
        <5>1. k - Len(s) \in 1 .. Len(x) /\ Len(s) + (k - Len(s)) = k
          BY <3>1, <3>3, <4>2
        <5>2. sx[k] = x[k - Len(s)] /\ ty[k] = y[k - Len(s)]
          <6> DEFINE j == k - Len(s)
          <6>1. j \in 1 .. Len(x) /\ Len(s) + j = k /\ Len(t) = Len(s) /\ Len(y) = Len(x)
            BY <2>4, <5>1 DEF Alike
          <6> HIDE DEF j
          <6>2. sx[Len(s) + j] = x[j] /\ ty[Len(t) + j] = y[j]
            BY <3>1, <3>2, <6>1
          <6>3. sx[k] = x[j] /\ ty[k] = y[j]
            BY <6>1, <6>2
          <6> QED
            BY <6>3 DEF j
        <5> QED
          BY <2>4, <5>1, <5>2 DEF Alike
      <4> QED
        BY <4>1, <4>2
    <3>5. Len(ty) = Len(sx)
      BY <2>4, <3>1, <3>2 DEF Alike
    <3>6. Alike(sx, ty)
      BY <3>4, <3>5 DEF Alike
    <3> QED
      BY <3>6 DEF sx, ty
  <2> QED
    BY <2>1, <2>2, <2>3, <2>5
<1>6. \A n \in 0 .. N : n \in S
  <2> HIDE DEF S
  <2>1. 0 <= N => 0 \in S
    BY <1>4
  <2>2. \A n \in 0 .. N - 1 : n \in S => n + 1 \in S
    BY <1>5
  <2>3. N \in Int /\ 0 \in Int
    BY <1>3
  <2> QED
    BY ONLY <2>1, <2>2, <2>3, Induction
<1>7. Alike(a[N], b[N]) /\ a[N] \in Seq(V) /\ b[N] \in Seq(U)
  <2>1. N \in 0 .. N
    BY <1>3
  <2> HIDE DEF Alike
  <2> QED
    BY <1>6, <2>1
<1> QED
  BY <1>1, <1>2, <1>7 DEF ImageOf

(* Every element of the lists is in the joined one.                        *)
LEMMA FlattenHas ==
  ASSUME NEW V, NEW ss \in Seq(Seq(V)), NEW n \in 1 .. Len(ss), NEW k \in 1 .. Len(ss[n])
  PROVE  /\ FlattenSeq(ss) \in Seq(V)
         /\ \E j \in 1 .. Len(FlattenSeq(ss)) : FlattenSeq(ss)[j] = ss[n][k]
<1> DEFINE N == Len(ss)
           step == [p \in (1 .. N) \X Nat |-> p[2] + Len(ss[p[1]])]
<1>1. N \in Nat /\ \A m \in 1 .. N : Len(ss[m]) \in Nat
  <2>1. N \in Nat /\ \A m \in 1 .. N : ss[m] \in Seq(V)
    BY ListParts
  <2> QED
    BY <2>1
<1> HIDE DEF N
<1>2. PICK before : Recursion(before, N, Nat, 0, step)
  <2>1. step \in [(1 .. N) \X Nat -> Nat] /\ 0 \in Nat
    BY <1>1
  <2> HIDE DEF step
  <2>2. \E before : Recursion(before, N, Nat, 0, step)
    BY <1>1, <2>1, RecursionExists
  <2> QED
    BY <2>2
<1>3. before \in [0 .. N -> Nat] /\ before[0] = 0
      /\ \A m \in 1 .. N : before[m] = before[m - 1] + Len(ss[m])
  <2>1. before \in [0 .. N -> Nat] /\ before[0] = 0
        /\ \A m \in 1 .. N : before[m] = step[<<m, before[m - 1]>>]
    BY <1>2 DEF Recursion
  <2>2. \A m \in 1 .. N : before[m - 1] \in Nat /\ <<m, before[m - 1]>> \in (1 .. N) \X Nat
    BY <1>1, <2>1
  <2> QED
    BY <2>1, <2>2
<1> HIDE DEF step
<1> DEFINE all == FlattenSeq(ss)
<1>4. /\ all \in Seq(V) /\ Len(all) = before[N]
      /\ \A m \in 1 .. N : \A i \in 1 .. Len(ss[m]) :
           before[m - 1] + i \in 1 .. before[N] /\ all[before[m - 1] + i] = ss[m][i]
  <2>1. /\ ss \in Seq(Seq(V)) /\ before \in [0 .. Len(ss) -> Nat] /\ before[0] = 0
        /\ \A m \in 1 .. Len(ss) : before[m] = before[m - 1] + Len(ss[m])
    BY <1>3 DEF N
  <2>2. Laid(V, ss, before, all)
    BY ONLY <2>1, FlattenAt
  <2> HIDE DEF all
  <2> QED
    BY <2>2 DEF N, Laid
<1> HIDE DEF all
<1>5. before[n - 1] + k \in 1 .. Len(all) /\ all[before[n - 1] + k] = ss[n][k]
  BY <1>4 DEF N
<1> QED
  BY <1>4, <1>5 DEF all
=============================================================================
