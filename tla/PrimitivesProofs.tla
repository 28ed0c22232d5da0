---------------------------- MODULE PrimitivesProofs ----------------------------
(***************************************************************************)
(* Theorems about the C algorithms, for every input whatever its length:   *)
(* ssb_diff for all files and all hashes, crypto_box for all messages,     *)
(* nonces and secrets, BLAKE3, BLAKE2b, SHA-512 and the XSalsa20 stream    *)
(* for all lengths and words of 8, 16, 32 or 64 bits.                      *)
(* The loops are recursive functions here; that they are defined, and what *)
(* they compute, is proved by complete induction.                          *)
(***************************************************************************)
EXTENDS Primitives, TLAPS, WellFoundedInduction, FiniteSetTheorems, SequenceTheorems

(* Every nonempty set of numbers has a least one.                           *)
LEMMA LeastNatural ==
  ASSUME NEW T, T \subseteq Nat, T # {}
  PROVE  \E x \in T : \A y \in T : x <= y
<1> DEFINE Below == {0 .. n - 1 : n \in T}
<1>1. Below \subseteq FiniteSubsetsOf(Nat)
  <2>1. ASSUME NEW n \in T PROVE IsFiniteSet(0 .. n - 1) /\ 0 .. n - 1 \subseteq Nat
    <3>1. n - 1 \in Int /\ 0 \in Int
      OBVIOUS
    <3> QED BY <3>1, FS_Interval
  <2> QED BY <2>1 DEF FiniteSubsetsOf
<1>2. PICK x \in Below : \A y \in Below : ~ (<<y, x>> \in StrictSubsetOrdering(Nat))
  <2>1. Below # {}
    OBVIOUS
  <2> HIDE DEF Below
  <2> QED BY <1>1, <2>1, WFMin, FS_StrictSubsetOrderingWellFounded
<1>3. PICK n \in T : x = 0 .. n - 1
  OBVIOUS
<1>4. ASSUME NEW m \in T, m < n PROVE FALSE
  <2>1. m \in Nat /\ n \in Nat
    OBVIOUS
  <2>2. 0 .. m - 1 \in Below /\ 0 .. m - 1 \in SUBSET Nat /\ x \in SUBSET Nat
    BY <1>3
  <2>3. 0 .. m - 1 \subseteq 0 .. n - 1 /\ m \in 0 .. n - 1 /\ m \notin 0 .. m - 1
    BY <1>4, <2>1
  <2> QED BY <1>2, <1>3, <2>2, <2>3 DEF StrictSubsetOrdering
<1>5. \A m \in T : n <= m
  BY <1>4
<1> QED BY <1>5

(* A property of numbers that holds of n whenever it holds of all numbers   *)
(* below n holds of all.  Here the numbers it holds of are given as a set.  *)
LEMMA CompleteInduction ==
  ASSUME NEW G, \A n \in Nat : (\A k \in 0 .. n - 1 : k \in G) => n \in G
  PROVE  \A n \in Nat : n \in G
<1> SUFFICES ASSUME Nat \ G # {} PROVE FALSE
  OBVIOUS
<1>1. PICK n \in Nat \ G : \A k \in Nat \ G : n <= k
  BY LeastNatural
<1>2. ASSUME NEW k \in 0 .. n - 1 PROVE k \in G
  BY <1>1
<1> QED BY <1>1, <1>2

(* A region lies within both files.                                         *)
LEMMA RegionType ==
  ASSUME NEW a, NEW b, NEW r \in Regions(a, b), Len(a) \in Nat, Len(b) \in Nat
  PROVE  /\ r.i \in Nat /\ r.n \in Nat /\ r.j \in Nat /\ r.m \in Nat
         /\ r.i + r.n <= Len(a) /\ r.j + r.m <= Len(b)
         /\ r = Region(r.i, r.n, r.j, r.m)
         /\ LinesA(r) \subseteq Nat /\ LinesB(r) \subseteq Nat
<1>1. r \in [i : 0 .. Len(a), n : 0 .. Len(a), j : 0 .. Len(b), m : 0 .. Len(b)]
  BY DEF Regions
<1>2. r.i \in Nat /\ r.n \in Nat /\ r.j \in Nat /\ r.m \in Nat
  BY <1>1
<1> QED BY <1>1, <1>2 DEF Regions, Region, LinesA, LinesB

(* A frequency is a number.                                                 *)
LEMMA Frequencies ==
  ASSUME NEW a, NEW b, NEW r \in Regions(a, b), NEW h, Len(a) \in Nat, Len(b) \in Nat
  PROVE  Frequency(a, b, r, h) \in Nat
<1> DEFINE X == {x \in LinesA(r) : a[x + 1] = h}
           Y == {y \in LinesB(r) : b[y + 1] = h}
<1>1. IsFiniteSet(LinesA(r)) /\ IsFiniteSet(LinesB(r))
  <2>1. r.i \in Int /\ r.i + r.n - 1 \in Int /\ r.j \in Int /\ r.j + r.m - 1 \in Int
    BY RegionType
  <2> QED BY <2>1, FS_Interval DEF LinesA, LinesB
<1>2. X \subseteq LinesA(r) /\ Y \subseteq LinesB(r)
  OBVIOUS
<1> HIDE DEF X, Y
<1>3. Cardinality(X) \in Nat /\ Cardinality(Y) \in Nat
  BY <1>1, <1>2, FS_Subset, FS_CardinalityType
<1>4. Frequency(a, b, r, h) = Cardinality(X) + Cardinality(Y)
  BY DEF Frequency, X, Y
<1> QED BY <1>3, <1>4

(* Files that share a line have an anchor: the first line of its hash on both sides. *)
LEMMA Anchors ==
  ASSUME NEW a, NEW b, NEW r \in Regions(a, b), Len(a) \in Nat, Len(b) \in Nat,
         SharedLines(a, b, r) # {}
  PROVE  LET x == BestA(a, b, r)
             y == FirstB(b, r, a[x + 1])
         IN  /\ x \in LinesA(r)
             /\ y \in LinesB(r)
             /\ b[y + 1] = a[x + 1]
             /\ \A z \in LinesA(r) : a[z + 1] = a[x + 1] => x <= z
             /\ \A z \in LinesB(r) : b[z + 1] = a[x + 1] => y <= z
<1> DEFINE S == SharedLines(a, b, r)
           F(z) == Frequency(a, b, r, a[z + 1])
           Best(x) == \A z \in S : F(x) < F(z) \/ (F(x) = F(z) /\ x <= z)
           First(y, h) == b[y + 1] = h /\ \A z \in LinesB(r) : b[z + 1] = h => y <= z
<1>1. LinesA(r) \subseteq Nat /\ LinesB(r) \subseteq Nat /\ S \subseteq Nat
  BY RegionType DEF SharedLines
<1>2. \A z : F(z) \in Nat
  BY Frequencies
<1>3. \E x \in S : Best(x)
  <2> HIDE DEF F
  <2> DEFINE Fs == {F(z) : z \in S}
  <2>1. PICK f \in Fs : \A g \in Fs : f <= g
    <3>1. Fs \subseteq Nat /\ Fs # {}
      BY <1>2
    <3> HIDE DEF Fs
    <3> QED BY <3>1, LeastNatural
  <2> DEFINE Zs == {z \in S : F(z) = f}
  <2>2. PICK x \in Zs : \A z \in Zs : x <= z
    <3>1. Zs \subseteq Nat /\ Zs # {}
      BY <1>1
    <3> HIDE DEF Zs
    <3> QED BY <3>1, LeastNatural
  <2>3. ASSUME NEW z \in S PROVE F(x) < F(z) \/ (F(x) = F(z) /\ x <= z)
    <3>1. CASE F(z) = f
      BY <2>2, <3>1
    <3>2. CASE F(z) # f
      <4>1. f <= F(z) /\ F(z) \in Nat /\ f \in Nat
        BY <2>1, <1>2
      <4> QED BY <4>1, <3>2, <2>2
    <3> QED BY <3>1, <3>2
  <2> QED BY <2>3
<1> DEFINE x == BestA(a, b, r)
           y == FirstB(b, r, a[x + 1])
<1>4. x \in S /\ Best(x)
  <2>1. x = CHOOSE x1 \in S : Best(x1)
    BY DEF BestA
  <2> HIDE DEF x, Best, S
  <2> QED BY <1>3, <2>1
<1>5. x \in LinesA(r) /\ \E z \in LinesB(r) : b[z + 1] = a[x + 1]
  BY <1>4 DEF SharedLines
<1>6. \E z \in LinesB(r) : First(z, a[x + 1])
  <2> DEFINE Zs == {z \in LinesB(r) : b[z + 1] = a[x + 1]}
  <2>1. PICK z \in Zs : \A w \in Zs : z <= w
    <3>1. Zs \subseteq Nat /\ Zs # {}
      BY <1>1, <1>5
    <3> HIDE DEF Zs
    <3> QED BY <3>1, LeastNatural
  <2> QED BY <2>1
<1>7. y \in LinesB(r) /\ First(y, a[x + 1])
  <2>1. y = CHOOSE z \in LinesB(r) : First(z, a[x + 1])
    BY DEF FirstB
  <2> HIDE DEF y, First
  <2> QED BY <1>6, <2>1
<1>8. ASSUME NEW z \in LinesA(r), a[z + 1] = a[x + 1] PROVE x <= z
  <2>1. z \in S
    BY <1>8, <1>5 DEF SharedLines
  <2>2. F(x) = F(z) /\ F(x) \in Nat
    BY <1>8, <1>2
  <2>3. F(x) < F(z) \/ (F(x) = F(z) /\ x <= z)
    BY <1>4, <2>1
  <2> HIDE DEF F
  <2> QED BY <2>2, <2>3
<1> QED BY <1>5, <1>7, <1>8

(* The regions before and after the anchor of a region.                     *)
Left(a, b, r) ==
  Region(r.i, BestA(a, b, r) - r.i, r.j, FirstB(b, r, a[BestA(a, b, r) + 1]) - r.j)
Right(a, b, r) ==
  LET x == BestA(a, b, r)
      y == FirstB(b, r, a[x + 1])
  IN  Region(x + 1, r.i + r.n - x - 1, y + 1, r.j + r.m - y - 1)

(* Where a line of a region and the parts before and after it lie.          *)
LEMMA Inside ==
  ASSUME NEW i \in Nat, NEW n \in Nat, NEW l \in Nat, i + n <= l, NEW x \in i .. i + n - 1
  PROVE  /\ i \in 0 .. l /\ x - i \in 0 .. l /\ i + (x - i) <= l /\ x - i < n
         /\ x + 1 \in 0 .. l /\ i + n - x - 1 \in 0 .. l
         /\ x + 1 + (i + n - x - 1) <= l /\ i + n - x - 1 < n
OBVIOUS

(* Both parts of a region are regions with fewer lines of a.                *)
LEMMA PartsAreSmaller ==
  ASSUME NEW a, NEW b, NEW r \in Regions(a, b), Len(a) \in Nat, Len(b) \in Nat,
         SharedLines(a, b, r) # {}
  PROVE  /\ Left(a, b, r) \in Regions(a, b) /\ Left(a, b, r).n < r.n
         /\ Right(a, b, r) \in Regions(a, b) /\ Right(a, b, r).n < r.n
<1> DEFINE x == BestA(a, b, r)
           y == FirstB(b, r, a[x + 1])
<1>1. x \in LinesA(r) /\ y \in LinesB(r)
  BY Anchors
<1>2. /\ r.i \in Nat /\ r.n \in Nat /\ r.j \in Nat /\ r.m \in Nat
      /\ r.i + r.n <= Len(a) /\ r.j + r.m <= Len(b)
  BY RegionType
<1>3. Left(a, b, r) = Region(r.i, x - r.i, r.j, y - r.j)
  BY DEF Left
<1>4. Right(a, b, r) = Region(x + 1, r.i + r.n - x - 1, y + 1, r.j + r.m - y - 1)
  BY DEF Right
<1> HIDE DEF x, y
<1>5. x \in r.i .. r.i + r.n - 1 /\ y \in r.j .. r.j + r.m - 1
  BY <1>1 DEF LinesA, LinesB
<1>6. /\ x - r.i \in 0 .. Len(a) /\ y - r.j \in 0 .. Len(b)
      /\ r.i \in 0 .. Len(a) /\ r.j \in 0 .. Len(b)
      /\ r.i + (x - r.i) <= Len(a) /\ r.j + (y - r.j) <= Len(b) /\ x - r.i < r.n
  BY <1>2, <1>5, Inside
<1>7. /\ x + 1 \in 0 .. Len(a) /\ y + 1 \in 0 .. Len(b)
      /\ r.i + r.n - x - 1 \in 0 .. Len(a) /\ r.j + r.m - y - 1 \in 0 .. Len(b)
      /\ x + 1 + (r.i + r.n - x - 1) <= Len(a) /\ y + 1 + (r.j + r.m - y - 1) <= Len(b)
      /\ r.i + r.n - x - 1 < r.n
  BY <1>2, <1>5, Inside
<1>8. Left(a, b, r) \in Regions(a, b) /\ Left(a, b, r).n < r.n
  BY <1>3, <1>6 DEF Region, Regions
<1>9. Right(a, b, r) \in Regions(a, b) /\ Right(a, b, r).n < r.n
  BY <1>4, <1>7 DEF Region, Regions
<1> QED BY <1>8, <1>9

(* The edits of a region, with its parts named.                             *)
LEMMA Unfold ==
  ASSUME NEW a, NEW b, NEW diff, NEW r
  PROVE  ssb_diff_recursive(a, b, diff, r) =
           IF SharedLines(a, b, r) = {} THEN Deletions(r.i, r.n) \o Additions(r.j, r.m)
           ELSE diff[Left(a, b, r)]
                \o <<Match(BestA(a, b, r), FirstB(b, r, a[BestA(a, b, r) + 1]))>>
                \o diff[Right(a, b, r)]
  BY DEF ssb_diff_recursive, Left, Right

(* The edits of a region depend on those of smaller ones only.              *)
LEMMA DiffIsLocal ==
  ASSUME NEW a, NEW b, NEW r \in Regions(a, b), Len(a) \in Nat, Len(b) \in Nat,
         NEW f, NEW g, \A s \in Regions(a, b) : s.n < r.n => f[s] = g[s]
  PROVE  ssb_diff_recursive(a, b, f, r) = ssb_diff_recursive(a, b, g, r)
<1>1. CASE SharedLines(a, b, r) = {}
  BY <1>1, Unfold
<1>2. CASE SharedLines(a, b, r) # {}
  <2>1. f[Left(a, b, r)] = g[Left(a, b, r)] /\ f[Right(a, b, r)] = g[Right(a, b, r)]
    BY <1>2, PartsAreSmaller
  <2> QED BY <1>2, <2>1, Unfold
<1> QED BY <1>1, <1>2

DiffOn(a, b, R, diff) == diff = [r \in R |-> ssb_diff_recursive(a, b, diff, r)]

(* The recursion of the code ends: it defines the edits of every region.    *)
LEMMA DiffExists ==
  ASSUME NEW a, NEW b, Len(a) \in Nat, Len(b) \in Nat
  PROVE  \E diff : DiffOn(a, b, Regions(a, b), diff)
<1> DEFINE Small(k) == {r \in Regions(a, b) : r.n < k}
           G == {k \in Nat : \E f : DiffOn(a, b, Small(k), f)}
<1>1. ASSUME NEW k \in Nat, \A l \in 0 .. k - 1 : l \in G
      PROVE  k \in G
  <2>1. CASE k = 0
    <3>1. Small(k) = {}
      <4>1. ASSUME NEW r \in Regions(a, b) PROVE ~(r.n < 0)
        BY RegionType
      <4> QED BY <2>1, <4>1
    <3> DEFINE f == [r \in {} |-> 0]
    <3>2. DiffOn(a, b, {}, f)
      BY DEF DiffOn
    <3> QED BY <3>1, <3>2
  <2>2. CASE k # 0
    <3>1. k - 1 \in G
      <4>1. k - 1 \in 0 .. k - 1
        BY <2>2
      <4> HIDE DEF G
      <4> QED BY <1>1, <4>1
    <3>2. PICK f : DiffOn(a, b, Small(k - 1), f)
      BY <3>1
    <3> DEFINE g == [r \in Small(k) |-> ssb_diff_recursive(a, b, f, r)]
    <3>3. ASSUME NEW r \in Small(k)
          PROVE  ssb_diff_recursive(a, b, f, r) = ssb_diff_recursive(a, b, g, r)
      <4>1. ASSUME NEW s \in Regions(a, b), s.n < r.n PROVE f[s] = g[s]
        <5>1. r \in Regions(a, b) /\ r.n < k /\ r.n \in Nat /\ s.n \in Nat
          BY RegionType
        <5>2. s.n < k - 1 /\ s.n < k
          BY <4>1, <5>1
        <5>3. s \in Small(k - 1) /\ s \in Small(k)
          BY <5>2
        <5>4. f[s] = ssb_diff_recursive(a, b, f, s)
          BY <3>2, <5>3 DEF DiffOn
        <5> QED BY <5>3, <5>4
      <4>2. r \in Regions(a, b)
        OBVIOUS
      <4> HIDE DEF g, Small
      <4> QED BY <4>1, <4>2, DiffIsLocal
    <3>4. DiffOn(a, b, Small(k), g)
      <4> HIDE DEF Small
      <4> QED BY <3>3 DEF DiffOn
    <3> QED BY <3>4
  <2> QED BY <2>1, <2>2
<1>2. Len(a) + 1 \in G
  <2> HIDE DEF G
  <2>1. \A k \in Nat : k \in G
    BY <1>1, CompleteInduction
  <2> QED BY <2>1
<1>3. Small(Len(a) + 1) = Regions(a, b)
  <2>1. ASSUME NEW r \in Regions(a, b) PROVE r.n < Len(a) + 1
    BY RegionType
  <2> QED BY <2>1
<1> QED BY <1>2, <1>3

Edits == [type : {"match", "delete", "add"}, line_a : Int, line_b : Int]

(* What an index of a concatenation stands for.                             *)
LEMMA ConcatParts ==
  ASSUME NEW S, NEW s \in Seq(S), NEW t \in Seq(S)
  PROVE  /\ s \o t \in Seq(S) /\ DOMAIN (s \o t) \subseteq Int
         /\ DOMAIN s = 1 .. Len(s) /\ DOMAIN t = 1 .. Len(t) /\ Len(s) \in Nat /\ Len(t) \in Nat
         /\ \A k \in DOMAIN s : k \in DOMAIN (s \o t) /\ (s \o t)[k] = s[k]
         /\ \A k \in DOMAIN t : k + Len(s) \in DOMAIN (s \o t) /\ (s \o t)[k + Len(s)] = t[k]
         /\ \A k \in DOMAIN (s \o t) :
              \/ k \in DOMAIN s /\ (s \o t)[k] = s[k]
              \/ k - Len(s) \in DOMAIN t /\ (s \o t)[k] = t[k - Len(s)]
<1>1. /\ s \o t \in Seq(S) /\ Len(s) \in Nat /\ Len(t) \in Nat
      /\ DOMAIN s = 1 .. Len(s) /\ DOMAIN t = 1 .. Len(t)
      /\ DOMAIN (s \o t) = 1 .. Len(s) + Len(t)
      /\ \A k \in 1 .. Len(s) + Len(t) :
           (s \o t)[k] = IF k <= Len(s) THEN s[k] ELSE t[k - Len(s)]
  BY ConcatProperties, LenProperties
<1> DEFINE u == s \o t
           l == Len(s)
<1>2. \A k \in 1 .. l : k \in 1 .. l + Len(t) /\ k <= l
  BY <1>1
<1>3. \A k \in 1 .. Len(t) : k + l \in 1 .. l + Len(t) /\ ~(k + l <= l) /\ k + l - l = k
  BY <1>1
<1>4. \A k \in 1 .. l + Len(t) : (k <= l => k \in 1 .. l) /\ (~(k <= l) => k - l \in 1 .. Len(t))
  BY <1>1
<1> HIDE DEF u, l
<1>5. \A k \in 1 .. l : k \in DOMAIN u /\ u[k] = s[k]
  BY <1>1, <1>2 DEF u, l
<1>6. \A k \in 1 .. Len(t) : k + l \in DOMAIN u /\ u[k + l] = t[k]
  <2> TAKE k \in 1 .. Len(t)
  <2>1. k + l \in 1 .. l + Len(t) /\ ~(k + l <= l) /\ k + l - l = k
    BY <1>3
  <2> QED BY <1>1, <2>1 DEF u, l
<1>7. \A k \in DOMAIN u : \/ k \in 1 .. l /\ u[k] = s[k]
                          \/ k - l \in 1 .. Len(t) /\ u[k] = t[k - l]
  BY <1>1, <1>4 DEF u, l
<1> QED BY <1>1, <1>5, <1>6, <1>7 DEF u, l

(* Lists of adjacent runs of lines make a list of the whole run.            *)
LEMMA ListsConcat ==
  ASSUME NEW S, NEW s \in Seq(S), NEW t \in Seq(S), NEW side,
         NEW i \in Nat, NEW n \in Nat, NEW m \in Nat,
         ListsLines(s, side, i, n), ListsLines(t, side, i + n, m)
  PROVE  ListsLines(s \o t, side, i, n + m)
<1> DEFINE u == s \o t
           l == Len(s)
<1>1. /\ DOMAIN u \subseteq Int /\ DOMAIN s = 1 .. l /\ DOMAIN t = 1 .. Len(t)
      /\ l \in Nat /\ Len(t) \in Nat
      /\ \A k \in DOMAIN s : k \in DOMAIN u /\ u[k] = s[k]
      /\ \A k \in DOMAIN t : k + l \in DOMAIN u /\ u[k + l] = t[k]
      /\ \A k \in DOMAIN u : \/ k \in DOMAIN s /\ u[k] = s[k]
                             \/ k - l \in DOMAIN t /\ u[k] = t[k - l]
  BY ConcatParts
<1> HIDE DEF u, l
<1>2. ASSUME NEW x \in i .. i + (n + m) - 1
      PROVE  \E k \in DOMAIN u : u[k][side] = x
  <2>1. CASE x < i + n
    <3>1. x \in i .. i + n - 1
      BY <2>1
    <3>2. PICK k \in DOMAIN s : s[k][side] = x
      BY <3>1 DEF ListsLines
    <3> QED BY <1>1, <3>2
  <2>2. CASE ~(x < i + n)
    <3>1. x \in i + n .. i + n + m - 1
      BY <2>2
    <3>2. PICK k \in DOMAIN t : t[k][side] = x
      BY <3>1 DEF ListsLines
    <3> QED BY <1>1, <3>2
  <2> QED BY <2>1, <2>2
<1>3. \A x \in i .. i + n - 1 : x \in i .. i + (n + m) - 1 /\ x < i + n /\ x # -1
  OBVIOUS
<1>4. \A x \in i + n .. i + n + m - 1 : x \in i .. i + (n + m) - 1 /\ i + n <= x /\ x # -1
  OBVIOUS
<1>5. ASSUME NEW k \in DOMAIN u
      PROVE  u[k][side] \in {-1} \union (i .. i + (n + m) - 1)
  <2>1. CASE k \in DOMAIN s /\ u[k] = s[k]
    BY <2>1, <1>3 DEF ListsLines
  <2>2. CASE k - l \in DOMAIN t /\ u[k] = t[k - l]
    BY <2>2, <1>4 DEF ListsLines
  <2> QED BY <1>1, <2>1, <2>2
<1>6. ASSUME NEW k \in DOMAIN u, NEW h \in DOMAIN u, k < h,
             u[k][side] # -1, u[h][side] # -1
      PROVE  u[k][side] < u[h][side]
  <2>1. CASE k \in DOMAIN s /\ h \in DOMAIN s /\ u[k] = s[k] /\ u[h] = s[h]
    BY <2>1, <1>6 DEF ListsLines
  <2>2. CASE k - l \in DOMAIN t /\ h - l \in DOMAIN t /\ u[k] = t[k - l] /\ u[h] = t[h - l]
    <3>1. k - l < h - l
      <4>1. k \in Int /\ h \in Int
        BY <1>1, <2>2
      <4> QED BY <4>1, <1>1, <1>6
    <3> QED BY <2>2, <3>1, <1>6 DEF ListsLines
  <2>3. CASE k \in DOMAIN s /\ h - l \in DOMAIN t /\ u[k] = s[k] /\ u[h] = t[h - l]
    <3>1. u[k][side] \in i .. i + n - 1 /\ u[h][side] \in i + n .. i + n + m - 1
      BY <2>3, <1>6 DEF ListsLines
    <3> QED BY <3>1
  <2>4. CASE k - l \in DOMAIN t /\ h \in DOMAIN s
    <3>1. k \in Int /\ h \in Int /\ k - l >= 1 /\ h <= l
      BY <1>1, <2>4
    <3> QED BY <3>1, <1>1, <1>6
  <2> QED BY <1>1, <2>1, <2>2, <2>3, <2>4
<1>7. ListsLines(u, side, i, n + m)
  BY <1>2, <1>5, <1>6 DEF ListsLines
<1> QED BY <1>7 DEF u

(* Concatenation keeps the edits truthful.                                  *)
LEMMA TruthConcat ==
  ASSUME NEW S, NEW s \in Seq(S), NEW t \in Seq(S), NEW a, NEW b,
         IsTruthful(s, a, b), IsTruthful(t, a, b)
  PROVE  IsTruthful(s \o t, a, b)
<1> DEFINE u == s \o t
<1>1. \A k \in DOMAIN u : \/ k \in DOMAIN s /\ u[k] = s[k]
                          \/ k - Len(s) \in DOMAIN t /\ u[k] = t[k - Len(s)]
  BY ConcatParts
<1> HIDE DEF u
<1>2. IsTruthful(u, a, b)
  BY <1>1 DEF IsTruthful
<1> QED BY <1>2 DEF u

(* Concatenation keeps the edits matches.                                   *)
LEMMA MatchConcat ==
  ASSUME NEW S, NEW s \in Seq(S), NEW t \in Seq(S), IsMatch(s), IsMatch(t)
  PROVE  IsMatch(s \o t)
<1> DEFINE u == s \o t
<1>1. \A k \in DOMAIN u : \/ k \in DOMAIN s /\ u[k] = s[k]
                          \/ k - Len(s) \in DOMAIN t /\ u[k] = t[k - Len(s)]
  BY ConcatParts
<1> HIDE DEF u
<1>2. IsMatch(u)
  BY <1>1 DEF IsMatch
<1> QED BY <1>2 DEF u

(* Edits without a line on a side list no line of it.                       *)
LEMMA ListsNone ==
  ASSUME NEW e, NEW side, NEW i \in Nat, \A k \in DOMAIN e : e[k][side] = -1
  PROVE  ListsLines(e, side, i, 0)
<1>1. i .. i + 0 - 1 = {}
  OBVIOUS
<1> QED BY <1>1 DEF ListsLines

(* A list whose edit k has line i + k - 1 on a side lists the lines from i. *)
LEMMA ListsInOrder ==
  ASSUME NEW e, NEW side, NEW i \in Nat, NEW n \in Nat, DOMAIN e = 1 .. n,
         \A k \in 1 .. n : e[k][side] = i + k - 1
  PROVE  ListsLines(e, side, i, n)
<1>1. ASSUME NEW x \in i .. i + n - 1 PROVE \E k \in DOMAIN e : e[k][side] = x
  <2>1. x - i + 1 \in 1 .. n /\ i + (x - i + 1) - 1 = x
    OBVIOUS
  <2> QED BY <2>1
<1>2. ASSUME NEW k \in DOMAIN e PROVE e[k][side] \in {-1} \union (i .. i + n - 1)
  <2>1. e[k][side] = i + k - 1 /\ k \in 1 .. n
    OBVIOUS
  <2> QED BY <2>1
<1>3. ASSUME NEW k \in DOMAIN e, NEW l \in DOMAIN e, k < l PROVE e[k][side] < e[l][side]
  <2>1. e[k][side] = i + k - 1 /\ e[l][side] = i + l - 1 /\ k \in 1 .. n /\ l \in 1 .. n
    OBVIOUS
  <2> QED BY <2>1, <1>3
<1> QED BY <1>1, <1>2, <1>3 DEF ListsLines

(* The deletions of a run of lines list it in a and nothing in b.           *)
LEMMA DeletionsList ==
  ASSUME NEW a, NEW b, NEW i \in Nat, NEW n \in Nat, NEW j \in Nat
  PROVE  LET e == Deletions(i, n)
         IN  /\ e \in Seq(Edits) /\ Len(e) = n
             /\ ListsLines(e, "line_a", i, n) /\ ListsLines(e, "line_b", j, 0)
             /\ IsTruthful(e, a, b)
<1> DEFINE e == Deletions(i, n)
<1>1. /\ DOMAIN e = 1 .. n
      /\ \A k \in 1 .. n : e[k] = [type |-> "delete", line_a |-> i + k - 1, line_b |-> -1]
  BY DEF Deletions, Delete
<1>2. \A k \in 1 .. n : i + k - 1 \in Int /\ i + k - 1 # -1
  OBVIOUS
<1>3. e \in Seq(Edits) /\ Len(e) = n
  <2>1. \A k \in 1 .. n : e[k] \in Edits
    BY <1>1, <1>2 DEF Edits
  <2>2. e = [k \in 1 .. n |-> e[k]]
    BY DEF Deletions
  <2> HIDE DEF e
  <2> QED BY <2>1, <2>2
<1> HIDE DEF e
<1>4. /\ \A k \in 1 .. n : e[k]["line_a"] = i + k - 1
      /\ \A k \in 1 .. n : e[k]["line_b"] = -1
  BY <1>1
<1>5. ListsLines(e, "line_a", i, n) /\ ListsLines(e, "line_b", j, 0)
  BY <1>1, <1>4, ListsInOrder, ListsNone
<1>6. IsTruthful(e, a, b)
  BY <1>1, <1>2 DEF IsTruthful
<1> QED BY <1>3, <1>5, <1>6 DEF e

(* The additions of a run of lines list it in b and nothing in a.           *)
LEMMA AdditionsList ==
  ASSUME NEW a, NEW b, NEW j \in Nat, NEW m \in Nat, NEW i \in Nat
  PROVE  LET e == Additions(j, m)
         IN  /\ e \in Seq(Edits) /\ Len(e) = m
             /\ ListsLines(e, "line_a", i, 0) /\ ListsLines(e, "line_b", j, m)
             /\ IsTruthful(e, a, b)
<1> DEFINE e == Additions(j, m)
<1>1. /\ DOMAIN e = 1 .. m
      /\ \A k \in 1 .. m : e[k] = [type |-> "add", line_a |-> -1, line_b |-> j + k - 1]
  BY DEF Additions, AddLine
<1>2. \A k \in 1 .. m : j + k - 1 \in Int /\ j + k - 1 # -1
  OBVIOUS
<1>3. e \in Seq(Edits) /\ Len(e) = m
  <2>1. \A k \in 1 .. m : e[k] \in Edits
    BY <1>1, <1>2 DEF Edits
  <2>2. e = [k \in 1 .. m |-> e[k]]
    BY DEF Additions
  <2> HIDE DEF e
  <2> QED BY <2>1, <2>2
<1> HIDE DEF e
<1>4. /\ \A k \in 1 .. m : e[k]["line_b"] = j + k - 1
      /\ \A k \in 1 .. m : e[k]["line_a"] = -1
  BY <1>1
<1>5. ListsLines(e, "line_b", j, m) /\ ListsLines(e, "line_a", i, 0)
  BY <1>1, <1>4, ListsInOrder, ListsNone
<1>6. IsTruthful(e, a, b)
  BY <1>1, <1>2 DEF IsTruthful
<1> QED BY <1>3, <1>5, <1>6 DEF e

(* All of a region deleted and added.                                       *)
LEMMA RewrittenList ==
  ASSUME NEW a, NEW b, NEW i \in Nat, NEW n \in Nat, NEW j \in Nat, NEW m \in Nat
  PROVE  LET e == Deletions(i, n) \o Additions(j, m)
         IN  /\ e \in Seq(Edits) /\ Len(e) = n + m
             /\ ListsLines(e, "line_a", i, n) /\ ListsLines(e, "line_b", j, m)
             /\ IsTruthful(e, a, b)
<1> DEFINE d == Deletions(i, n)
           c == Additions(j, m)
<1>1. /\ d \in Seq(Edits) /\ Len(d) = n /\ ListsLines(d, "line_a", i, n)
      /\ ListsLines(d, "line_b", j, 0) /\ IsTruthful(d, a, b)
  BY DeletionsList
<1>2. i + n \in Nat
  OBVIOUS
<1>3. /\ c \in Seq(Edits) /\ Len(c) = m /\ ListsLines(c, "line_a", i + n, 0)
      /\ ListsLines(c, "line_b", j, m) /\ IsTruthful(c, a, b)
  BY <1>2, AdditionsList
<1> HIDE DEF d, c
<1>4. ListsLines(d \o c, "line_a", i, n)
  <2>1. ListsLines(d \o c, "line_a", i, n + 0)
    BY <1>1, <1>3, ListsConcat
  <2> QED BY <2>1
<1>5. ListsLines(d \o c, "line_b", j, m)
  <2>1. ListsLines(c, "line_b", j + 0, m)
    BY <1>3
  <2>2. ListsLines(d \o c, "line_b", j, 0 + m)
    BY <1>1, <1>3, <2>1, ListsConcat
  <2> QED BY <2>2
<1>6. IsTruthful(d \o c, a, b)
  BY <1>1, <1>3, TruthConcat
<1>7. d \o c \in Seq(Edits) /\ Len(d \o c) = n + m
  BY <1>1, <1>3, ConcatProperties
<1> QED BY <1>4, <1>5, <1>6, <1>7 DEF d, c

Same(a, b, r) ==
  r.n = r.m /\ \A k \in 0 .. r.n - 1 : a[r.i + k + 1] = b[r.j + k + 1]

(* What the edits of a region are meant to be.                              *)
Sound(a, b, r, edits) ==
  /\ edits \in Seq(Edits)
  /\ ListsLines(edits, "line_a", r.i, r.n)
  /\ ListsLines(edits, "line_b", r.j, r.m)
  /\ IsTruthful(edits, a, b)
  /\ Same(a, b, r) => IsMatch(edits)

(* Deleting and adding everything is sound where nothing is shared.         *)
LEMMA RewrittenIsSound ==
  ASSUME NEW a, NEW b, NEW r \in Regions(a, b), Len(a) \in Nat, Len(b) \in Nat,
         SharedLines(a, b, r) = {}
  PROVE  Sound(a, b, r, Deletions(r.i, r.n) \o Additions(r.j, r.m))
<1> DEFINE e == Deletions(r.i, r.n) \o Additions(r.j, r.m)
<1>1. r.i \in Nat /\ r.n \in Nat /\ r.j \in Nat /\ r.m \in Nat
  BY RegionType
<1>2. /\ e \in Seq(Edits) /\ Len(e) = r.n + r.m
      /\ ListsLines(e, "line_a", r.i, r.n) /\ ListsLines(e, "line_b", r.j, r.m)
      /\ IsTruthful(e, a, b)
  BY <1>1, RewrittenList
<1> HIDE DEF e
<1>3. ASSUME Same(a, b, r) PROVE IsMatch(e)
  <2>1. r.n = 0
    <3> SUFFICES ASSUME r.n # 0 PROVE FALSE
      OBVIOUS
    <3>1. r.n = r.m /\ 0 \in 0 .. r.n - 1
      BY <1>1, <1>3 DEF Same
    <3>2. a[r.i + 1] = b[r.j + 1]
      <4>1. r.i + 0 + 1 = r.i + 1 /\ r.j + 0 + 1 = r.j + 1
        BY <1>1
      <4> QED BY <1>3, <3>1, <4>1 DEF Same
    <3>3. r.i \in LinesA(r) /\ r.j \in LinesB(r)
      BY <1>1, <3>1 DEF LinesA, LinesB
    <3> QED BY <3>2, <3>3 DEF SharedLines
  <2>2. Len(e) = 0
    BY <1>2, <1>3, <2>1 DEF Same
  <2>3. DOMAIN e = {}
    <3>1. DOMAIN e = 1 .. 0
      BY <1>2, <2>2
    <3> QED BY <3>1
  <2> QED BY <2>3 DEF IsMatch
<1>4. Sound(a, b, r, e)
  BY <1>2, <1>3 DEF Sound
<1> QED BY <1>4 DEF e

(* What equal regions with a pair of anchors at the same place split into.  *)
SamePieces(a, b, i, n, j, x, y) ==
  /\ x - i = y - j /\ i + n - x - 1 = j + n - y - 1
  /\ \A k \in 0 .. x - i - 1 : a[i + k + 1] = b[j + k + 1]
  /\ \A k \in 0 .. i + n - x - 1 - 1 : a[x + 1 + k + 1] = b[y + 1 + k + 1]

(* In equal regions the anchors face each other, and so do the parts.       *)
LEMMA Aligned ==
  ASSUME NEW a, NEW b, NEW i \in Nat, NEW n \in Nat, NEW j \in Nat,
         \A k \in 0 .. n - 1 : a[i + k + 1] = b[j + k + 1],
         NEW x \in i .. i + n - 1, NEW y \in j .. j + n - 1, b[y + 1] = a[x + 1],
         \A z \in i .. i + n - 1 : a[z + 1] = a[x + 1] => x <= z,
         \A z \in j .. j + n - 1 : b[z + 1] = a[x + 1] => y <= z
  PROVE  SamePieces(a, b, i, n, j, x, y)
<1>1. x - i \in 0 .. n - 1 /\ y - j \in 0 .. n - 1
  OBVIOUS
<1>2. y - j <= x - i
  <2>1. i + (x - i) + 1 = x + 1 /\ j + (x - i) \in j .. j + n - 1
    OBVIOUS
  <2>2. b[j + (x - i) + 1] = a[x + 1]
    BY <1>1, <2>1
  <2>3. y <= j + (x - i)
    BY <2>1, <2>2
  <2> QED BY <2>3
<1>3. x - i <= y - j
  <2>1. j + (y - j) + 1 = y + 1 /\ i + (y - j) \in i .. i + n - 1
    OBVIOUS
  <2>2. a[i + (y - j) + 1] = a[x + 1]
    BY <1>1, <2>1
  <2>3. x <= i + (y - j)
    BY <2>1, <2>2
  <2> QED BY <2>3
<1>4. x - i = y - j /\ i + n - x - 1 = j + n - y - 1
  BY <1>1, <1>2, <1>3
<1>5. ASSUME NEW k \in 0 .. x - i - 1 PROVE a[i + k + 1] = b[j + k + 1]
  <2>1. k \in 0 .. n - 1
    OBVIOUS
  <2> QED BY <2>1
<1>6. ASSUME NEW k \in 0 .. i + n - x - 1 - 1 PROVE a[x + 1 + k + 1] = b[y + 1 + k + 1]
  <2>1. x - i + 1 + k \in 0 .. n - 1 /\ i + (x - i + 1 + k) + 1 = x + 1 + k + 1
    OBVIOUS
  <2>2. j + (x - i + 1 + k) + 1 = y + 1 + k + 1
    BY <1>4
  <2>3. a[i + (x - i + 1 + k) + 1] = b[j + (x - i + 1 + k) + 1]
    BY <2>1
  <2> QED BY <2>1, <2>2, <2>3
<1> QED BY <1>4, <1>5, <1>6 DEF SamePieces

(* Two runs of lines with the same hashes make equal regions.               *)
LEMMA SameRegion ==
  ASSUME NEW a, NEW b, NEW i, NEW n, NEW j, NEW m, n = m,
         \A k \in 0 .. n - 1 : a[i + k + 1] = b[j + k + 1]
  PROVE  Same(a, b, Region(i, n, j, m))
BY DEF Same, Region

(* The parts of equal regions are equal.                                    *)
LEMMA SameParts ==
  ASSUME NEW a, NEW b, NEW r \in Regions(a, b), Len(a) \in Nat, Len(b) \in Nat,
         SharedLines(a, b, r) # {}, Same(a, b, r)
  PROVE  Same(a, b, Left(a, b, r)) /\ Same(a, b, Right(a, b, r))
<1> DEFINE x == BestA(a, b, r)
           y == FirstB(b, r, a[x + 1])
<1>1. /\ x \in LinesA(r) /\ y \in LinesB(r) /\ b[y + 1] = a[x + 1]
      /\ \A z \in LinesA(r) : a[z + 1] = a[x + 1] => x <= z
      /\ \A z \in LinesB(r) : b[z + 1] = a[x + 1] => y <= z
  BY Anchors
<1>2. /\ Left(a, b, r) = Region(r.i, x - r.i, r.j, y - r.j)
      /\ Right(a, b, r) = Region(x + 1, r.i + r.n - x - 1, y + 1, r.j + r.m - y - 1)
  BY DEF Left, Right
<1>3. /\ r.i \in Nat /\ r.n \in Nat /\ r.j \in Nat /\ r.m = r.n
      /\ \A k \in 0 .. r.n - 1 : a[r.i + k + 1] = b[r.j + k + 1]
  BY RegionType DEF Same
<1> HIDE DEF x, y
<1>4. /\ x \in r.i .. r.i + r.n - 1 /\ y \in r.j .. r.j + r.n - 1
      /\ \A z \in r.i .. r.i + r.n - 1 : a[z + 1] = a[x + 1] => x <= z
      /\ \A z \in r.j .. r.j + r.n - 1 : b[z + 1] = a[x + 1] => y <= z
  BY <1>1, <1>3 DEF LinesA, LinesB
<1>5. /\ x - r.i = y - r.j /\ r.i + r.n - x - 1 = r.j + r.n - y - 1
      /\ \A k \in 0 .. x - r.i - 1 : a[r.i + k + 1] = b[r.j + k + 1]
      /\ \A k \in 0 .. r.i + r.n - x - 1 - 1 : a[x + 1 + k + 1] = b[y + 1 + k + 1]
  <2>1. SamePieces(a, b, r.i, r.n, r.j, x, y)
    BY <1>1, <1>3, <1>4, Aligned
  <2> QED BY <2>1 DEF SamePieces
<1>6. Same(a, b, Region(r.i, x - r.i, r.j, y - r.j))
  BY <1>5, SameRegion
<1>7. Same(a, b, Region(x + 1, r.i + r.n - x - 1, y + 1, r.j + r.m - y - 1))
  <2>1. r.j + r.m - y - 1 = r.i + r.n - x - 1
    BY <1>3, <1>5
  <2> DEFINE i == x + 1
             n == r.i + r.n - x - 1
             j == y + 1
             m == r.j + r.m - y - 1
  <2>2. ASSUME NEW k \in 0 .. n - 1 PROVE a[i + k + 1] = b[j + k + 1]
    <3>1. k \in 0 .. r.i + r.n - x - 1 - 1
      <4>1. n - 1 = r.i + r.n - x - 1 - 1
        BY <1>3, <1>4
      <4> QED BY <4>1
    <3>2. a[x + 1 + k + 1] = b[y + 1 + k + 1]
      BY <1>5, <3>1
    <3> QED BY <3>2
  <2>3. n = m
    BY <2>1
  <2> HIDE DEF i, n, j, m
  <2>4. Same(a, b, Region(i, n, j, m))
    BY <2>2, <2>3, SameRegion
  <2> QED BY <2>4 DEF i, n, j, m
<1> QED BY <1>2, <1>6, <1>7

IsInside(x, i, n) ==
  /\ x \in Nat /\ x # -1 /\ x - i \in Nat /\ x - i + 1 \in Nat /\ i + n - x - 1 \in Nat
  /\ i + (x - i) = x /\ i + (x - i + 1) = x + 1 /\ x - i + 1 + (i + n - x - 1) = n

(* The numbers of lines before and after a line of a run.                   *)
LEMMA Offsets ==
  ASSUME NEW i \in Nat, NEW n \in Nat, NEW x \in i .. i + n - 1
  PROVE  IsInside(x, i, n)
BY DEF IsInside

(* Sound edits of both parts and the anchor are sound edits of the region.  *)
LEMMA SplitIsSound ==
  ASSUME NEW a, NEW b, NEW r \in Regions(a, b), Len(a) \in Nat, Len(b) \in Nat,
         SharedLines(a, b, r) # {},
         NEW left, Sound(a, b, Left(a, b, r), left),
         NEW right, Sound(a, b, Right(a, b, r), right)
  PROVE  Sound(a, b, r,
               left \o <<Match(BestA(a, b, r), FirstB(b, r, a[BestA(a, b, r) + 1]))>> \o right)
<1> DEFINE x == BestA(a, b, r)
           y == FirstB(b, r, a[x + 1])
           e == <<Match(x, y)>>
<1>1. x \in LinesA(r) /\ y \in LinesB(r) /\ b[y + 1] = a[x + 1]
  BY Anchors
<1>2. /\ Left(a, b, r) = Region(r.i, x - r.i, r.j, y - r.j)
      /\ Right(a, b, r) = Region(x + 1, r.i + r.n - x - 1, y + 1, r.j + r.m - y - 1)
  BY DEF Left, Right
<1>3. r.i \in Nat /\ r.n \in Nat /\ r.j \in Nat /\ r.m \in Nat
  BY RegionType
<1> HIDE DEF x, y
<1>4. x \in r.i .. r.i + r.n - 1 /\ y \in r.j .. r.j + r.m - 1
  BY <1>1 DEF LinesA, LinesB
<1>5. /\ x \in Nat /\ x # -1 /\ x - r.i \in Nat /\ x - r.i + 1 \in Nat
      /\ r.i + r.n - x - 1 \in Nat /\ r.i + (x - r.i) = x /\ r.i + (x - r.i + 1) = x + 1
      /\ x - r.i + 1 + (r.i + r.n - x - 1) = r.n
  <2>1. IsInside(x, r.i, r.n)
    BY <1>3, <1>4, Offsets
  <2> QED BY <2>1 DEF IsInside
<1>6. /\ y \in Nat /\ y # -1 /\ y - r.j \in Nat /\ y - r.j + 1 \in Nat
      /\ r.j + r.m - y - 1 \in Nat /\ r.j + (y - r.j) = y /\ r.j + (y - r.j + 1) = y + 1
      /\ y - r.j + 1 + (r.j + r.m - y - 1) = r.m
  <2>1. IsInside(y, r.j, r.m)
    BY <1>3, <1>4, Offsets
  <2> QED BY <2>1 DEF IsInside
<1>7. /\ left \in Seq(Edits) /\ IsTruthful(left, a, b)
      /\ ListsLines(left, "line_a", r.i, x - r.i) /\ ListsLines(left, "line_b", r.j, y - r.j)
  BY <1>2 DEF Sound, Region
<1>8. /\ right \in Seq(Edits) /\ IsTruthful(right, a, b)
      /\ ListsLines(right, "line_a", x + 1, r.i + r.n - x - 1)
      /\ ListsLines(right, "line_b", y + 1, r.j + r.m - y - 1)
  BY <1>2 DEF Sound, Region
<1>9. /\ e \in Seq(Edits) /\ IsTruthful(e, a, b) /\ IsMatch(e)
      /\ ListsLines(e, "line_a", x, 1) /\ ListsLines(e, "line_b", y, 1)
  <2>1. /\ DOMAIN e = 1 .. 1 /\ Match(x, y) \in Edits
        /\ e[1] = [type |-> "match", line_a |-> x, line_b |-> y]
    BY <1>5, <1>6 DEF Match, Edits
  <2>2. /\ \A k \in 1 .. 1 : e[k]["line_a"] = x + k - 1
        /\ \A k \in 1 .. 1 : e[k]["line_b"] = y + k - 1
    <3>1. x \in Nat /\ y \in Nat
      BY <1>5, <1>6
    <3> HIDE DEF e
    <3> QED BY <3>1, <2>1
  <2>3. e \in Seq(Edits)
    BY <2>1
  <2> HIDE DEF e
  <2>4. ListsLines(e, "line_a", x, 1) /\ ListsLines(e, "line_b", y, 1)
    BY <2>1, <2>2, <1>5, <1>6, ListsInOrder
  <2>5. \A k \in DOMAIN e : e[k].type = "match" /\ e[k].line_a = x /\ e[k].line_b = y
    BY <2>1
  <2>6. IsTruthful(e, a, b)
    <3>1. x # -1 /\ y # -1
      BY <1>5, <1>6
    <3> QED BY <1>1, <2>5, <3>1 DEF IsTruthful
  <2>7. IsMatch(e)
    BY <2>1 DEF IsMatch
  <2> QED BY <2>3, <2>4, <2>6, <2>7
<1> HIDE DEF e
<1>10. /\ left \o e \in Seq(Edits) /\ IsTruthful(left \o e, a, b)
       /\ ListsLines(left \o e, "line_a", r.i, x - r.i + 1)
       /\ ListsLines(left \o e, "line_b", r.j, y - r.j + 1)
  <2>1. ListsLines(e, "line_a", r.i + (x - r.i), 1) /\ ListsLines(e, "line_b", r.j + (y - r.j), 1)
    BY <1>5, <1>6, <1>9
  <2>2. left \o e \in Seq(Edits) /\ IsTruthful(left \o e, a, b)
    BY <1>7, <1>9, ConcatProperties, TruthConcat
  <2>3. ListsLines(left \o e, "line_a", r.i, x - r.i + 1)
    BY <1>3, <1>5, <1>7, <1>9, <2>1, ListsConcat
  <2>4. ListsLines(left \o e, "line_b", r.j, y - r.j + 1)
    BY <1>3, <1>6, <1>7, <1>9, <2>1, ListsConcat
  <2> QED BY <2>2, <2>3, <2>4
<1> DEFINE all == left \o e \o right
<1>11. /\ all \in Seq(Edits) /\ IsTruthful(all, a, b)
       /\ ListsLines(all, "line_a", r.i, r.n) /\ ListsLines(all, "line_b", r.j, r.m)
  <2>1. x - r.i + 1 \in Nat /\ y - r.j + 1 \in Nat
    BY <1>5, <1>6
  <2>2. all \in Seq(Edits) /\ IsTruthful(all, a, b)
    BY <1>8, <1>10, ConcatProperties, TruthConcat
  <2>3. ListsLines(all, "line_a", r.i, x - r.i + 1 + (r.i + r.n - x - 1))
    <3>1. ListsLines(right, "line_a", r.i + (x - r.i + 1), r.i + r.n - x - 1)
      BY <1>5, <1>8
    <3> QED BY <1>3, <1>5, <1>8, <1>10, <2>1, <3>1, ListsConcat
  <2>4. ListsLines(all, "line_b", r.j, y - r.j + 1 + (r.j + r.m - y - 1))
    <3>1. ListsLines(right, "line_b", r.j + (y - r.j + 1), r.j + r.m - y - 1)
      BY <1>6, <1>8
    <3> QED BY <1>3, <1>6, <1>8, <1>10, <2>1, <3>1, ListsConcat
  <2> QED BY <2>2, <2>3, <2>4, <1>5, <1>6
<1>12. ASSUME Same(a, b, r) PROVE IsMatch(all)
  <2>1. IsMatch(left) /\ IsMatch(right)
    BY <1>12, SameParts DEF Sound
  <2>2. IsMatch(left \o e)
    BY <2>1, <1>7, <1>9, MatchConcat
  <2> QED BY <2>1, <2>2, <1>8, <1>10, MatchConcat
<1>13. Sound(a, b, r, all)
  BY <1>11, <1>12 DEF Sound
<1> QED BY <1>13 DEF x, y, e

(* By induction on the lines of a: the histogram diff is sound.             *)
LEMMA HistogramIsSound ==
  ASSUME NEW H, NEW a \in Seq(H), NEW b \in Seq(H)
  PROVE  Sound(a, b, Region(0, Len(a), 0, Len(b)), ssb_diff_histogram(a, b))
<1> DEFINE diff == CHOOSE f : DiffOn(a, b, Regions(a, b), f)
           whole == Region(0, Len(a), 0, Len(b))
           G == {n \in Nat : \A r \in Regions(a, b) : r.n = n => Sound(a, b, r, diff[r])}
<1>1. Len(a) \in Nat /\ Len(b) \in Nat
  OBVIOUS
<1>2. ssb_diff_histogram(a, b) = diff[whole]
  BY DEF ssb_diff_histogram, DiffOn
<1>3. DiffOn(a, b, Regions(a, b), diff)
  BY <1>1, DiffExists
<1> HIDE DEF diff
<1>4. \A r \in Regions(a, b) : diff[r] = ssb_diff_recursive(a, b, diff, r)
  BY <1>3 DEF DiffOn
<1>5. ASSUME NEW n \in Nat, \A k \in 0 .. n - 1 : k \in G
      PROVE  n \in G
  <2>1. ASSUME NEW r \in Regions(a, b), r.n = n PROVE Sound(a, b, r, diff[r])
    <3>1. CASE SharedLines(a, b, r) = {}
      BY <1>1, <1>4, <3>1, Unfold, RewrittenIsSound
    <3>2. CASE SharedLines(a, b, r) # {}
      <4>1. ASSUME NEW s \in Regions(a, b), s.n < n PROVE Sound(a, b, s, diff[s])
        <5>1. s.n \in 0 .. n - 1
          BY <1>1, <4>1, RegionType
        <5> QED BY <1>5, <5>1
      <4>2. Sound(a, b, Left(a, b, r), diff[Left(a, b, r)])
        BY <1>1, <2>1, <3>2, <4>1, PartsAreSmaller
      <4>3. Sound(a, b, Right(a, b, r), diff[Right(a, b, r)])
        BY <1>1, <2>1, <3>2, <4>1, PartsAreSmaller
      <4> QED BY <1>1, <1>4, <3>2, <4>2, <4>3, Unfold, SplitIsSound
    <3> QED BY <3>1, <3>2
  <2> QED BY <2>1
<1>6. whole \in Regions(a, b) /\ whole.n = Len(a)
  BY <1>1 DEF Region, Regions
<1>7. Len(a) \in G
  <2> HIDE DEF G
  <2>1. \A n \in Nat : n \in G
    BY <1>5, CompleteInduction
  <2> QED BY <1>1, <2>1
<1> QED BY <1>2, <1>6, <1>7

(* The other algorithm is sound, too.                                       *)
LEMMA MyersIsSound ==
  ASSUME NEW H, NEW a \in Seq(H), NEW b \in Seq(H)
  PROVE  LET e == ssb_diff_myers(a, b)
         IN  /\ ListsLines(e, "line_a", 0, Len(a)) /\ ListsLines(e, "line_b", 0, Len(b))
             /\ IsTruthful(e, a, b) /\ (a = b => IsMatch(e))
<1> DEFINE e == ssb_diff_myers(a, b)
<1>1. Len(a) \in Nat /\ Len(b) \in Nat
  OBVIOUS
<1>2. CASE a = b
  <2>1. /\ DOMAIN e = 1 .. Len(a)
        /\ \A k \in 1 .. Len(a) : e[k] = [type |-> "match", line_a |-> k - 1, line_b |-> k - 1]
    BY <1>2 DEF ssb_diff_myers, Match
  <2> HIDE DEF e
  <2>2. /\ \A k \in 1 .. Len(a) : e[k]["line_a"] = k - 1 /\ e[k]["line_b"] = k - 1
        /\ \A k \in 1 .. Len(a) : k - 1 = 0 + k - 1 /\ k - 1 # -1 /\ k - 1 + 1 = k
    BY <1>1, <2>1
  <2>3. ListsLines(e, "line_a", 0, Len(a)) /\ ListsLines(e, "line_b", 0, Len(b))
    BY <1>1, <1>2, <2>1, <2>2, ListsInOrder
  <2>4. IsTruthful(e, a, b) /\ IsMatch(e)
    BY <1>2, <2>1, <2>2 DEF IsTruthful, IsMatch
  <2> QED BY <2>3, <2>4 DEF e
<1>3. CASE a # b
  BY <1>1, <1>3, RewrittenList DEF ssb_diff_myers
<1> QED BY <1>2, <1>3

(* Whatever the algorithm, the edits account for both files.                *)
LEMMA DiffIsSound ==
  ASSUME NEW H, NEW a \in Seq(H), NEW b \in Seq(H), NEW algo
  PROVE  LET e == ssb_diff(a, b, algo)
         IN  /\ ListsLines(e, "line_a", 0, Len(a)) /\ ListsLines(e, "line_b", 0, Len(b))
             /\ IsTruthful(e, a, b) /\ (a = b => IsMatch(e))
<1>1. CASE algo = HISTOGRAM
  <2> DEFINE e == ssb_diff_histogram(a, b)
  <2>1. Sound(a, b, Region(0, Len(a), 0, Len(b)), e)
    BY HistogramIsSound
  <2>2. a = b => Same(a, b, Region(0, Len(a), 0, Len(b)))
    BY SameRegion
  <2> HIDE DEF e
  <2>3. /\ ListsLines(e, "line_a", 0, Len(a)) /\ ListsLines(e, "line_b", 0, Len(b))
        /\ IsTruthful(e, a, b) /\ (a = b => IsMatch(e))
    BY <2>1, <2>2 DEF Sound, Region
  <2> QED BY <1>1, <2>3 DEF e, ssb_diff
<1>2. CASE algo # HISTOGRAM
  BY <1>2, MyersIsSound DEF ssb_diff
<1> QED BY <1>1, <1>2

(* A step after which no call of f is running or has just returned.        *)
NotOf(f) == call' = Idle \/ call'.of # f

(* Which function a call is of after each action of the algorithms.        *)
IsOf(f) == call'.of = f
(* The return of f leaves the call one of f.                               *)
LEMMA ReturnsKeeps == ASSUME NEW f, NEW y, Called(f), Returns(y) PROVE IsOf(f)
BY DEF Called, Returns, IsOf
(* The call of f leaves the call one of f.                                 *)
LEMMA CallIsOf == ASSUME NEW f, NEW x, Call(f, x) PROVE IsOf(f)
BY DEF Call, IsOf
(* Each action of the algorithms leaves the call one of its own function.  *)
LEMMA StepsAreOf ==
  /\ (CallDiff => IsOf("ssb_diff"))
  /\ (CallBlake2b => IsOf("blake2b256"))
  /\ (CallBlake3 => IsOf("blake3_256"))
  /\ (CallSha512 => IsOf("crypto_hash"))
  /\ (CallStream => IsOf("crypto_stream_xor"))
  /\ (CallTag => IsOf("crypto_onetimeauth"))
  /\ (CallBox => IsOf("crypto_box"))
  /\ (CallField => IsOf("gf"))
  /\ (CallKeys => IsOf("crypto_box_keypair"))
  /\ (CallSign => IsOf("crypto_sign_keypair"))
  /\ (ReturnDiff => IsOf("ssb_diff"))
  /\ (ReturnBlake2b => IsOf("blake2b256"))
  /\ (ReturnBlake3 => IsOf("blake3_256"))
  /\ (ReturnSha512 => IsOf("crypto_hash"))
  /\ (ReturnStream => IsOf("crypto_stream_xor"))
  /\ (ReturnTag => IsOf("crypto_onetimeauth"))
  /\ (ReturnBox => IsOf("crypto_box"))
  /\ (ReturnField => IsOf("gf"))
  /\ (ReturnKeys => IsOf("crypto_scalarmult"))
  /\ (SignKeyPair => IsOf("crypto_sign_keypair"))
  /\ (ReturnOpen => IsOf("crypto_sign_open"))
  /\ (KeyPairs => IsOf("crypto_scalarmult"))
  /\ (Sign => IsOf("crypto_sign"))
  /\ (Convert => IsOf("to_curve25519"))
  /\ (ConvertedPair => IsOf("converted"))
  /\ (CallOpen => IsOf("crypto_sign_open"))
<1>1. ASSUME CallDiff PROVE IsOf("ssb_diff")
  BY <1>1, CallIsOf DEF CallDiff
<1>2. ASSUME CallBlake2b PROVE IsOf("blake2b256")
  BY <1>2, CallIsOf DEF CallBlake2b
<1>3. ASSUME CallBlake3 PROVE IsOf("blake3_256")
  BY <1>3, CallIsOf DEF CallBlake3
<1>4. ASSUME CallSha512 PROVE IsOf("crypto_hash")
  BY <1>4, CallIsOf DEF CallSha512
<1>5. ASSUME CallStream PROVE IsOf("crypto_stream_xor")
  BY <1>5, CallIsOf DEF CallStream
<1>6. ASSUME CallTag PROVE IsOf("crypto_onetimeauth")
  BY <1>6, CallIsOf DEF CallTag
<1>7. ASSUME CallBox PROVE IsOf("crypto_box")
  BY <1>7, CallIsOf DEF CallBox
<1>8. ASSUME CallField PROVE IsOf("gf")
  BY <1>8, CallIsOf DEF CallField
<1>9. ASSUME CallKeys PROVE IsOf("crypto_box_keypair")
  BY <1>9, CallIsOf DEF CallKeys
<1>10. ASSUME CallSign PROVE IsOf("crypto_sign_keypair")
  BY <1>10, CallIsOf DEF CallSign
<1>11. ASSUME ReturnDiff PROVE IsOf("ssb_diff")
  BY <1>11, ReturnsKeeps DEF ReturnDiff
<1>12. ASSUME ReturnBlake2b PROVE IsOf("blake2b256")
  BY <1>12, ReturnsKeeps DEF ReturnBlake2b
<1>13. ASSUME ReturnBlake3 PROVE IsOf("blake3_256")
  BY <1>13, ReturnsKeeps DEF ReturnBlake3
<1>14. ASSUME ReturnSha512 PROVE IsOf("crypto_hash")
  BY <1>14, ReturnsKeeps DEF ReturnSha512
<1>15. ASSUME ReturnStream PROVE IsOf("crypto_stream_xor")
  BY <1>15, ReturnsKeeps DEF ReturnStream
<1>16. ASSUME ReturnTag PROVE IsOf("crypto_onetimeauth")
  BY <1>16, ReturnsKeeps DEF ReturnTag
<1>17. ASSUME ReturnBox PROVE IsOf("crypto_box")
  BY <1>17, ReturnsKeeps DEF ReturnBox
<1>18. ASSUME ReturnField PROVE IsOf("gf")
  BY <1>18, ReturnsKeeps DEF ReturnField
<1>19. ASSUME ReturnKeys PROVE IsOf("crypto_scalarmult")
  BY <1>19, ReturnsKeeps DEF ReturnKeys
<1>20. ASSUME SignKeyPair PROVE IsOf("crypto_sign_keypair")
  BY <1>20, ReturnsKeeps DEF SignKeyPair
<1>21. ASSUME ReturnOpen PROVE IsOf("crypto_sign_open")
  BY <1>21, ReturnsKeeps DEF ReturnOpen
<1>22. ASSUME KeyPairs PROVE IsOf("crypto_scalarmult")
  BY <1>22 DEF KeyPairs, IsOf
<1>23. ASSUME Sign PROVE IsOf("crypto_sign")
  BY <1>23 DEF Sign, IsOf
<1>24. ASSUME Convert PROVE IsOf("to_curve25519")
  BY <1>24 DEF Convert, IsOf
<1>25. ASSUME ConvertedPair PROVE IsOf("converted")
  BY <1>25, ReturnsKeeps DEF ConvertedPair, IsOf
<1>26. ASSUME CallOpen PROVE IsOf("crypto_sign_open")
  BY <1>26 DEF CallOpen, IsOf
<1> QED BY <1>1, <1>2, <1>3, <1>4, <1>5, <1>6, <1>7, <1>8, <1>9, <1>10, <1>11, <1>12, <1>13, <1>14, <1>15, <1>16, <1>17, <1>18, <1>19, <1>20, <1>21, <1>22, <1>23, <1>24, <1>25, <1>26

(* A step calls a function, returns from it, or is of no call of it.       *)
LEMMA StepsOfOne ==
  ASSUME Next
  PROVE  /\ CallDiff \/ ReturnDiff \/ NotOf("ssb_diff")
         /\ CallBox \/ ReturnBox \/ NotOf("crypto_box")
         /\ CallBlake3 \/ ReturnBlake3 \/ NotOf("blake3_256")
         /\ CallBlake2b \/ ReturnBlake2b \/ NotOf("blake2b256")
         /\ CallSha512 \/ ReturnSha512 \/ NotOf("crypto_hash")
         /\ CallStream \/ ReturnStream \/ NotOf("crypto_stream_xor")
<1>1. CallDiff \/ CallBlake2b \/ CallBlake3 \/ CallSha512 \/ CallStream \/ CallTag \/ CallBox \/ CallField \/ CallKeys \/ CallSign \/ ReturnDiff \/ ReturnBlake2b \/ ReturnBlake3 \/ ReturnSha512 \/ ReturnStream \/ ReturnTag \/ ReturnBox \/ ReturnField \/ ReturnKeys \/ SignKeyPair \/ ReturnOpen \/ KeyPairs \/ Sign \/ Convert \/ ConvertedPair \/ CallOpen \/ Done
  BY DEF Next
<1>2. Done => call' = Idle
  BY DEF Done
<1> QED BY <1>1, <1>2, StepsAreOf DEF NotOf, IsOf

(* What is known of a call of ssb_diff.                                     *)
DiffInv ==
  call # Idle /\ call.of = "ssb_diff" =>
    /\ call.args[1] \in Files /\ call.args[2] \in Files
    /\ "result" \in DOMAIN call =>
         call.result = ssb_diff(Hashes(call.args[1]), Hashes(call.args[2]), call.args[3])

(* A call keeps its files and returns their diff.                           *)
LEMMA DiffInvariance == Spec => []DiffInv
<1>1. Init => DiffInv
  BY DEF Init, DiffInv
<1>2. ASSUME DiffInv, [Next]_call
      PROVE  DiffInv'
  <2>1. CASE CallDiff
    <3>1. PICK a \in Files, b \in Files, algo \in Algorithms : Call("ssb_diff", <<a, b, algo>>)
      BY <2>1 DEF CallDiff
    <3>2. call' = [of |-> "ssb_diff", args |-> <<a, b, algo>>]
      BY <3>1 DEF Call
    <3> QED BY <3>2 DEF DiffInv
  <2>2. CASE ReturnDiff
    <3> DEFINE e == ssb_diff(Hashes(call.args[1]), Hashes(call.args[2]), call.args[3])
    <3>1. call.args[1] \in Files /\ call.args[2] \in Files
      BY <1>2, <2>2 DEF DiffInv, ReturnDiff, Called
    <3>2. call' = [of |-> call.of, args |-> call.args, result |-> e]
      BY <2>2 DEF ReturnDiff, Returns
    <3> HIDE DEF e
    <3>3. call'.args = call.args /\ call'.result = e
      BY <3>2
    <3> QED BY <3>1, <3>3 DEF DiffInv, e
  <2>3. CASE NotOf("ssb_diff")
    BY <2>3 DEF NotOf, DiffInv
  <2>4. CASE UNCHANGED call
    BY <1>2, <2>4 DEF DiffInv
  <2> QED BY <1>2, <2>1, <2>2, <2>3, <2>4, StepsOfOne
<1> QED BY <1>1, <1>2, PTL DEF Spec

(* The edits of a diff account for every line of both files, once and in    *)
(* order, whatever the files and their hashes.                              *)
THEOREM LinesAreAccounted == Spec => []LinesAccounted
<1>1. DiffInv => LinesAccounted
  <2> SUFFICES ASSUME DiffInv, Returned("ssb_diff") PROVE LinesAccounted
    BY DEF LinesAccounted
  <2> DEFINE H == {HashLine(l) : l \in Lines}
             a == Hashes(call.args[1])
             b == Hashes(call.args[2])
  <2>1. /\ call.args[1] \in Files /\ call.args[2] \in Files
        /\ call.result = ssb_diff(a, b, call.args[3])
    BY DEF DiffInv, Returned
  <2>2. ASSUME NEW file \in Files PROVE Hashes(file) \in Seq(H)
    <3>1. file \in Seq(Lines)
      BY FilesAssumption
    <3>2. /\ DOMAIN file = 1 .. Len(file) /\ Len(file) \in Nat
          /\ \A i \in 1 .. Len(file) : file[i] \in Lines
      BY <3>1
    <3>3. Hashes(file) = [i \in 1 .. Len(file) |-> HashLine(file[i])]
      BY <3>2 DEF Hashes
    <3>4. \A i \in 1 .. Len(file) : HashLine(file[i]) \in H
      BY <3>2
    <3> HIDE DEF H
    <3> QED BY <3>2, <3>3, <3>4
  <2>3. a \in Seq(H) /\ b \in Seq(H)
    BY <2>1, <2>2
  <2> HIDE DEF H, a, b
  <2>4. LET e == ssb_diff(a, b, call.args[3])
        IN  /\ ListsLines(e, "line_a", 0, Len(a)) /\ ListsLines(e, "line_b", 0, Len(b))
            /\ IsTruthful(e, a, b) /\ (a = b => IsMatch(e))
    BY <2>3, DiffIsSound
  <2> QED BY <2>1, <2>4 DEF LinesAccounted, a, b
<1> QED BY <1>1, DiffInvariance, PTL

-----------------------------------------------------------------------------
(* crypto_box and crypto_box_open.                                          *)

(* A message is a sequence of cells, the first two of them zero.            *)
LEMMA BoxTextType ==
  ASSUME NEW m \in BoxTexts
  PROVE  /\ m \in Seq(SUBSET Unknowns) /\ Len(m) \in Nat /\ DOMAIN m = 1 .. Len(m)
         /\ \A i \in 1 .. Len(m) : m[i] \subseteq Unknowns
         /\ Len(m) >= 2 => m[1] = {} /\ m[2] = {}
<1>1. m \in Seq(SUBSET Unknowns)
  BY BoxTextsAssumption
<1>2. Len(m) >= 2 => m[1] = {} /\ m[2] = {}
  <2>1. \A i \in 1 .. 2 : i <= Len(m) => m[i] = {}
    BY BoxTextsAssumption
  <2> QED BY <1>1, <2>1
<1> QED BY <1>1, <1>2

(* The cells of a stream, one of a message and the tag are told apart.      *)
Cell(n, k, i) == <<"key", k, "nonce", n, "cell", i>>

(* A cell of a stream tells its nonce and key.                              *)
LEMMA CellsDiffer ==
  ASSUME NEW n, NEW k, NEW o, NEW h, NEW i
  PROVE  /\ <<"changed">> # Cell(n, k, i)
         /\ Cell(n, k, i) = Cell(o, h, i) => n = o /\ k = h
BY DEF Cell

(* A tag tells what it is of and its key.                                   *)
LEMMA TagsDiffer ==
  ASSUME NEW s, NEW k, NEW t, NEW h
  PROVE  /\ <<"changed">> # <<"tag", s, k>>
         /\ <<"tag", s, k>> = <<"tag", t, h>> => s = t /\ k = h
OBVIOUS

(* The cells of a stream.                                                   *)
LEMMA StreamCells ==
  ASSUME NEW d \in Nat, NEW n, NEW k
  PROVE  /\ DOMAIN crypto_stream(d, n, k) = 1 .. d
         /\ \A i \in 1 .. d : crypto_stream(d, n, k)[i] = {Cell(n, k, i)}
BY DEF crypto_stream, Cell

(* The two cells the authenticator is keyed with.                           *)
LEMMA StreamType ==
  ASSUME NEW n, NEW k
  PROVE  /\ Len(crypto_stream(2, n, k)) = 2
         /\ crypto_stream(2, n, k)[1] = {Cell(n, k, 1)}
         /\ crypto_stream(2, n, k)[2] = {Cell(n, k, 2)}
<1> DEFINE s == crypto_stream(2, n, k)
           S == {{Cell(n, k, 1)}, {Cell(n, k, 2)}}
<1>1. DOMAIN s = 1 .. 2 /\ \A i \in 1 .. 2 : s[i] = {Cell(n, k, i)}
  BY DEF crypto_stream, Cell
<1>2. s = [i \in 1 .. 2 |-> s[i]]
  BY DEF crypto_stream
<1> HIDE DEF s
<1>3. \A i \in 1 .. 2 : s[i] \in S
  BY <1>1
<1> HIDE DEF S
<1>4. s \in Seq(S) /\ Len(s) = 2
  BY <1>2, <1>3
<1> QED BY <1>1, <1>4 DEF s

Cells(c, l) == c = [i \in 1 .. l |-> c[i]]

(* Cells numbered from 1 are a sequence.                                    *)
LEMMA CellsAreSeq ==
  ASSUME NEW l \in Nat, NEW c, Cells(c, l)
  PROVE  DOMAIN c = 1 .. l /\ c \in Seq({c[i] : i \in 1 .. l}) /\ Len(c) = l
<1> DEFINE S == {c[i] : i \in 1 .. l}
<1>1. DOMAIN c = 1 .. l
  BY DEF Cells
<1>2. \A i \in 1 .. l : c[i] \in S
  OBVIOUS
<1> HIDE DEF S
<1>3. c \in Seq(S) /\ Len(c) = l
  BY <1>2 DEF Cells
<1> QED BY <1>1, <1>3 DEF S

(* The cells of a body are those from the third on.                         *)
LEMMA BodyCells ==
  ASSUME NEW l \in Nat, l >= 2, NEW c, Cells(c, l)
  PROVE  Cells(Body(c), l - 2) /\ \A i \in 1 .. l - 2 : Body(c)[i] = c[i + 2]
<1> DEFINE S == {c[i] : i \in 1 .. l}
           s == SubSeq(c, 3, l)
<1>1. c \in Seq(S) /\ Len(c) = l
  BY CellsAreSeq
<1>2. \A i \in 3 .. l : c[i] \in S
  OBVIOUS
<1> HIDE DEF S
<1>3. s \in Seq(S) /\ Len(s) = l - 2 /\ \A i \in 1 .. l - 2 : s[i] = c[i + 2]
  <2>1. 3 \in Int /\ l \in Int /\ (IF 3 <= l THEN l - 3 + 1 ELSE 0) = l - 2
    OBVIOUS
  <2>2. /\ s \in Seq(S) /\ Len(s) = (IF 3 <= l THEN l - 3 + 1 ELSE 0)
        /\ \A i \in 1 .. l - 3 + 1 : s[i] = c[3 + i - 1]
    BY <1>2, <2>1, SubSeqProperties
  <2>3. \A i \in 1 .. l - 2 : i \in 1 .. l - 3 + 1 /\ 3 + i - 1 = i + 2
    OBVIOUS
  <2> QED BY <2>1, <2>2, <2>3
<1> HIDE DEF s
<1>4. s = [i \in 1 .. l - 2 |-> s[i]]
  BY <1>3, LenProperties
<1> QED BY <1>1, <1>3, <1>4 DEF Body, Cells, s

(* The body depends on nothing but the cells from the third on.             *)
LEMMA SameBody ==
  ASSUME NEW l \in Nat, l >= 2, NEW c, Cells(c, l), NEW d, Cells(d, l),
         \A i \in 3 .. l : c[i] = d[i]
  PROVE  Body(c) = Body(d)
<1>1. /\ Cells(Body(c), l - 2) /\ \A i \in 1 .. l - 2 : Body(c)[i] = c[i + 2]
      /\ Cells(Body(d), l - 2) /\ \A i \in 1 .. l - 2 : Body(d)[i] = d[i + 2]
  BY BodyCells
<1>2. \A i \in 1 .. l - 2 : i + 2 \in 3 .. l
  OBVIOUS
<1> DEFINE s == Body(c)
           t == Body(d)
<1>3. \A i \in 1 .. l - 2 : s[i] = t[i]
  BY <1>1, <1>2
<1>4. s = [i \in 1 .. l - 2 |-> s[i]] /\ t = [i \in 1 .. l - 2 |-> t[i]]
  BY <1>1 DEF Cells
<1> HIDE DEF s, t
<1>5. [i \in 1 .. l - 2 |-> s[i]] = [i \in 1 .. l - 2 |-> t[i]]
  BY <1>3
<1>6. s = t
  BY <1>4, <1>5
<1> QED BY <1>6 DEF s, t

(* Equal bodies have equal cells.                                           *)
LEMMA BodyTells ==
  ASSUME NEW l \in Nat, l >= 2, NEW c, Cells(c, l), NEW d, Cells(d, l), Body(c) = Body(d)
  PROVE  \A i \in 3 .. l : c[i] = d[i]
<1> TAKE i \in 3 .. l
<1>1. i - 2 \in 1 .. l - 2 /\ i - 2 + 2 = i
  OBVIOUS
<1>2. Body(c)[i - 2] = c[i - 2 + 2] /\ Body(d)[i - 2] = d[i - 2 + 2]
  BY <1>1, BodyCells
<1> QED BY <1>1, <1>2

Xor(x, y) == (x \ y) \union (y \ x)

Streamed(c, l, m, n, k) ==
  Cells(c, l) /\ \A i \in 1 .. l : c[i] = Xor(m[i], {Cell(n, k, i)})

(* Xor with the stream, cell by cell.                                       *)
LEMMA XorStream ==
  ASSUME NEW l \in Nat, NEW m, Cells(m, l), NEW n, NEW k
  PROVE  Streamed(crypto_stream_xor(m, n, k), l, m, n, k)
<1>1. DOMAIN m = 1 .. l /\ Len(m) = l
  BY CellsAreSeq
<1> QED BY <1>1, StreamCells DEF crypto_stream_xor, XorCells, Cells, Xor, Streamed

(* A sealed box has no first cell, the tag for a second, and the message    *)
(* xored with the stream after it.                                          *)
Sealed(c, l, m, n, k) ==
  /\ Cells(c, l) /\ c[1] = {}
  /\ c[2] = {<<"tag", Body(c), crypto_stream(2, n, k)>>}
  /\ \A i \in 3 .. l : c[i] = Xor(m[i], {Cell(n, k, i)})

(* crypto_secretbox makes a sealed box.                                     *)
LEMMA SecretBoxSeals ==
  ASSUME NEW l \in Nat, l >= 2, NEW m, Cells(m, l), m[1] = {}, m[2] = {}, NEW n, NEW k
  PROVE  Sealed(crypto_secretbox(m, n, k), l, m, n, k)
<1> DEFINE x == crypto_stream_xor(m, n, k)
           c == [x EXCEPT ![1] = {}, ![2] = crypto_onetimeauth(Body(x), FirstTwo(x))]
<1>1. Len(m) = l
  BY CellsAreSeq
<1>2. crypto_secretbox(m, n, k) = c
  BY <1>1 DEF crypto_secretbox
<1>3. Cells(x, l) /\ \A i \in 1 .. l : x[i] = Xor(m[i], {Cell(n, k, i)})
  <2>1. Streamed(x, l, m, n, k)
    BY XorStream
  <2> HIDE DEF x
  <2> QED BY <2>1 DEF Streamed
<1> HIDE DEF x
<1>4. FirstTwo(x) = crypto_stream(2, n, k)
  <2>1. 1 \in 1 .. l /\ 2 \in 1 .. l
    OBVIOUS
  <2>2. x[1] = {Cell(n, k, 1)} /\ x[2] = {Cell(n, k, 2)}
    BY <1>3, <2>1 DEF Xor
  <2> DEFINE f == SubSeq(x, 1, 2)
             S == {x[i] : i \in 1 .. l}
  <2>3. \A i \in 1 .. 2 : x[i] \in S
    BY <2>1
  <2> HIDE DEF S
  <2>4. f \in Seq(S) /\ Len(f) = 2 /\ f[1] = x[1] /\ f[2] = x[2]
    <3>1. /\ f \in Seq(S) /\ Len(f) = (IF 1 <= 2 THEN 2 - 1 + 1 ELSE 0)
          /\ \A i \in 1 .. 2 - 1 + 1 : f[i] = x[1 + i - 1]
      BY <2>3, SubSeqProperties
    <3> QED BY <3>1
  <2> HIDE DEF f
  <2>5. f = [i \in 1 .. 2 |-> {Cell(n, k, i)}]
    <3>1. DOMAIN f = 1 .. 2 /\ f = [i \in 1 .. 2 |-> f[i]]
      BY <2>4, LenProperties
    <3>2. \A i \in 1 .. 2 : f[i] = {Cell(n, k, i)}
      BY <2>2, <2>4
    <3> QED BY <3>1, <3>2
  <2> QED BY <2>5 DEF f, FirstTwo, crypto_stream, Cell
<1>5. /\ Cells(c, l) /\ c[1] = {} /\ c[2] = crypto_onetimeauth(Body(x), FirstTwo(x))
      /\ \A i \in 3 .. l : c[i] = x[i]
  <2>1. DOMAIN x = 1 .. l /\ 1 \in 1 .. l /\ 2 \in 1 .. l
    <3>1. DOMAIN x = 1 .. l
      BY <1>3, CellsAreSeq
    <3> QED BY <3>1
  <2>2. \A i \in 3 .. l : i \in 1 .. l /\ i # 1 /\ i # 2
    OBVIOUS
  <2>3. /\ DOMAIN c = 1 .. l /\ c[1] = {} /\ c[2] = crypto_onetimeauth(Body(x), FirstTwo(x))
        /\ \A i \in 3 .. l : c[i] = x[i]
    BY <2>1, <2>2
  <2>4. c = [i \in DOMAIN c |-> c[i]]
    OBVIOUS
  <2> HIDE DEF c
  <2> QED BY <2>3, <2>4 DEF Cells
<1> HIDE DEF c
<1>6. Body(c) = Body(x)
  BY <1>3, <1>5, SameBody
<1>7. \A i \in 3 .. l : c[i] = Xor(m[i], {Cell(n, k, i)})
  <2>1. \A i \in 3 .. l : i \in 1 .. l
    OBVIOUS
  <2> QED BY <1>3, <1>5, <2>1
<1> QED BY <1>2, <1>4, <1>5, <1>6, <1>7 DEF Sealed, crypto_onetimeauth

(* A sealed box opens to its message, whatever its first cell became.       *)
LEMMA SecretBoxOpens ==
  ASSUME NEW l \in Nat, l >= 2, NEW m, Cells(m, l), m[1] = {}, m[2] = {}, NEW n, NEW k,
         NEW c, Sealed(c, l, m, n, k),
         NEW d, Cells(d, l), \A i \in 2 .. l : d[i] = c[i]
  PROVE  crypto_secretbox_open(d, n, k) = m
<1> DEFINE x == crypto_stream_xor(d, n, k)
           e == [x EXCEPT ![1] = {}, ![2] = {}]
<1>1. Len(d) = l
  BY CellsAreSeq
<1>2. d[2] = {<<"tag", Body(d), crypto_stream(2, n, k)>>}
  <2>1. 2 \in 2 .. l /\ \A i \in 3 .. l : i \in 2 .. l
    OBVIOUS
  <2>2. Body(d) = Body(c)
    BY <2>1, SameBody DEF Sealed
  <2> QED BY <2>1, <2>2 DEF Sealed
<1>3. crypto_secretbox_open(d, n, k) = e
  BY <1>1, <1>2 DEF crypto_secretbox_open, crypto_onetimeauth
<1>4. Cells(x, l) /\ \A i \in 1 .. l : x[i] = Xor(d[i], {Cell(n, k, i)})
  <2>1. Streamed(x, l, d, n, k)
    BY XorStream
  <2> HIDE DEF x
  <2> QED BY <2>1 DEF Streamed
<1> HIDE DEF x
<1>5. \A i \in 3 .. l : i \in 1 .. l /\ i \in 2 .. l /\ i # 1 /\ i # 2
  OBVIOUS
<1>6. ASSUME NEW i \in 3 .. l PROVE x[i] = m[i]
  <2>1. x[i] = Xor(Xor(m[i], {Cell(n, k, i)}), {Cell(n, k, i)})
    BY <1>4, <1>5 DEF Sealed
  <2> QED BY <2>1 DEF Xor
<1>7. /\ DOMAIN e = 1 .. l /\ e[1] = {} /\ e[2] = {} /\ \A i \in 3 .. l : e[i] = m[i]
  <2>1. DOMAIN x = 1 .. l
    BY <1>4, CellsAreSeq
  <2>2. 1 \in 1 .. l /\ 2 \in 1 .. l
    OBVIOUS
  <2> QED BY <2>1, <2>2, <1>5, <1>6
<1>8. e = [i \in DOMAIN e |-> e[i]]
  OBVIOUS
<1> HIDE DEF e
<1>9. \A i \in 1 .. l : e[i] = m[i]
  <2>1. \A i \in 1 .. l : i = 1 \/ i = 2 \/ i \in 3 .. l
    OBVIOUS
  <2> QED BY <1>7, <2>1
<1>10. e = [i \in 1 .. l |-> m[i]]
  BY <1>7, <1>8, <1>9
<1> QED BY <1>3, <1>10 DEF Cells

(* A box whose tag is not that of its body does not open.                   *)
LEMMA SecretBoxRefuses ==
  ASSUME NEW l \in Nat, l >= 2, NEW d, Cells(d, l), NEW n, NEW k,
         d[2] # {<<"tag", Body(d), crypto_stream(2, n, k)>>}
  PROVE  crypto_secretbox_open(d, n, k) = Failed
<1>1. Len(d) = l
  BY CellsAreSeq
<1> QED BY <1>1 DEF crypto_secretbox_open, crypto_onetimeauth

(* Another nonce or key starts another stream.                              *)
LEMMA StreamsDiffer ==
  ASSUME NEW n, NEW k, NEW o, NEW h, crypto_stream(2, n, k) = crypto_stream(2, o, h)
  PROVE  n = o /\ k = h
<1>1. {Cell(n, k, 1)} = {Cell(o, h, 1)}
  BY StreamType
<1> QED BY <1>1, CellsDiffer

ChangedTo(d, l, c, i) ==
  /\ Cells(d, l)
  /\ \A j \in 1 .. l : d[j] = IF i = j THEN c[j] \union {<<"changed">>} ELSE c[j]

(* A changed box differs in one cell.                                       *)
LEMMA ChangedCells ==
  ASSUME NEW l \in Nat, NEW c, Cells(c, l), NEW i \in Nat
  PROVE  ChangedTo(Changed(c, i), l, c, i)
<1>1. DOMAIN c = 1 .. l
  BY CellsAreSeq
<1>2. CASE i \in 1 .. l
  <2> DEFINE d == [c EXCEPT ![i] = @ \union {<<"changed">>}]
  <2>1. Changed(c, i) = d
    BY <1>1, <1>2 DEF Changed
  <2>2. /\ DOMAIN d = 1 .. l
        /\ \A j \in 1 .. l : d[j] = IF i = j THEN c[j] \union {<<"changed">>} ELSE c[j]
    BY <1>1, <1>2
  <2>3. d = [j \in DOMAIN d |-> d[j]]
    OBVIOUS
  <2> HIDE DEF d
  <2> QED BY <2>1, <2>2, <2>3 DEF Cells, ChangedTo
<1>3. CASE i \notin 1 .. l
  BY <1>1, <1>3 DEF Changed, ChangedTo
<1> QED BY <1>2, <1>3

(* What is opened is refused unless it is the sealed box, but for its first *)
(* cell, and nonce and key are those it was sealed with.                    *)
LEMMA OthersRefused ==
  ASSUME NEW l \in Nat, l >= 2, NEW m, \A i \in 1 .. l : <<"changed">> \notin m[i],
         NEW n, NEW k, NEW c, Sealed(c, l, m, n, k), NEW i \in Nat, NEW o, NEW h,
         i \in 2 .. l \/ n # o \/ k # h
  PROVE  crypto_secretbox_open(Changed(c, i), o, h) = Failed
<1> DEFINE d == Changed(c, i)
<1>1. /\ Cells(c, l)
      /\ c[2] = {<<"tag", Body(c), crypto_stream(2, n, k)>>}
      /\ \A j \in 3 .. l : c[j] = Xor(m[j], {Cell(n, k, j)})
  BY DEF Sealed
<1>2. /\ Cells(d, l)
      /\ \A j \in 1 .. l : d[j] = IF i = j THEN c[j] \union {<<"changed">>} ELSE c[j]
  <2>1. ChangedTo(d, l, c, i)
    BY <1>1, ChangedCells
  <2> HIDE DEF d
  <2> QED BY <2>1 DEF ChangedTo
<1> HIDE DEF d
<1>3. 2 \in 1 .. l /\ \A j \in 3 .. l : j \in 1 .. l
  OBVIOUS
<1>4. d[2] # {<<"tag", Body(d), crypto_stream(2, o, h)>>}
  <2>1. CASE i = 2
    <3>1. <<"changed">> \in d[2]
      BY <1>2, <1>3, <2>1
    <3> QED BY <3>1, TagsDiffer
  <2>2. CASE i # 2
    <3>1. d[2] = {<<"tag", Body(c), crypto_stream(2, n, k)>>}
      BY <1>1, <1>2, <1>3, <2>2
    <3>2. SUFFICES ASSUME d[2] = {<<"tag", Body(d), crypto_stream(2, o, h)>>} PROVE FALSE
      OBVIOUS
    <3>3. <<"tag", Body(c), crypto_stream(2, n, k)>> = <<"tag", Body(d), crypto_stream(2, o, h)>>
      BY <3>1, <3>2
    <3>4. Body(c) = Body(d) /\ crypto_stream(2, n, k) = crypto_stream(2, o, h)
      BY <3>3, TagsDiffer
    <3>5. n = o /\ k = h
      BY <3>4, StreamsDiffer
    <3>6. i \in 3 .. l
      BY <3>5, <2>2
    <3>7. c[i] = d[i]
      BY <1>1, <1>2, <3>4, <3>6, BodyTells
    <3>8. <<"changed">> \in c[i]
      BY <1>2, <1>3, <3>6, <3>7
    <3>9. <<"changed">> \notin Xor(m[i], {Cell(n, k, i)})
      BY <1>3, <3>6, CellsDiffer DEF Xor
    <3> QED BY <1>1, <3>6, <3>8, <3>9
  <2> QED BY <2>1, <2>2
<1>5. crypto_secretbox_open(d, o, h) = Failed
  BY <1>2, <1>4, SecretBoxRefuses
<1> QED BY <1>5 DEF d

Opened(a) ==
  LET c == crypto_box(a.m, a.n, crypto_scalarmult_base(a.y), a.x)
  IN  [c |-> c,
       m |-> IF c = Failed THEN c
             ELSE crypto_box_open(Changed(c, a.i), a.o, crypto_scalarmult_base(a.z), a.y)]

BoxCalls ==
  [m : BoxTexts, n : Nonces, o : Nonces, x : Secrets, y : Secrets, z : Secrets, i : 0 .. 4]

(* What is known of a call of crypto_box.                                   *)
BoxInv ==
  call # Idle /\ call.of = "crypto_box" =>
    /\ call.args \in BoxCalls
    /\ "result" \in DOMAIN call => call.result = Opened(call.args)

(* A call keeps its arguments and returns what sealing and opening give.    *)
LEMMA BoxInvariance == Spec => []BoxInv
<1>1. Init => BoxInv
  BY DEF Init, BoxInv
<1>2. ASSUME BoxInv, [Next]_call
      PROVE  BoxInv'
  <2>1. CASE CallBox
    <3>1. PICK a \in BoxCalls : Call("crypto_box", a)
      BY <2>1 DEF CallBox, BoxCalls
    <3>2. call' = [of |-> "crypto_box", args |-> a]
      BY <3>1 DEF Call
    <3> QED BY <3>2 DEF BoxInv
  <2>2. CASE ReturnBox
    <3> DEFINE e == Opened(call.args)
    <3>1. call.args \in BoxCalls
      BY <1>2, <2>2 DEF BoxInv, ReturnBox, Called
    <3>2. call' = [of |-> call.of, args |-> call.args, result |-> e]
      BY <2>2 DEF ReturnBox, Returns, Opened
    <3> HIDE DEF e
    <3>3. call'.args = call.args /\ call'.result = e
      BY <3>2
    <3> QED BY <3>1, <3>3 DEF BoxInv, e
  <2>3. CASE NotOf("crypto_box")
    BY <2>3 DEF NotOf, BoxInv
  <2>4. CASE UNCHANGED call
    BY <1>2, <2>4 DEF BoxInv
  <2> QED BY <1>2, <2>1, <2>2, <2>3, <2>4, StepsOfOne
<1> QED BY <1>1, <1>2, PTL DEF Spec

(* A box opens to what was sealed, with its nonce and for its parties, and  *)
(* to nothing else.                                                         *)
THEOREM OnlySealedBoxesAreOpened == Spec => []OnlySealedBoxesOpen
<1>1. BoxInv => OnlySealedBoxesOpen
  <2> SUFFICES ASSUME BoxInv, Returned("crypto_box") PROVE OnlySealedBoxesOpen
    BY DEF OnlySealedBoxesOpen
  <2> DEFINE a == call.args
             r == call.result
             k == <<"hsalsa20", {a.x} \union {a.y}>>
             h == <<"hsalsa20", {a.y} \union {a.z}>>
             l == Len(a.m)
  <2>1. a \in BoxCalls /\ r = Opened(a)
    BY DEF BoxInv, Returned
  <2>2. a.m \in BoxTexts /\ a.i \in 0 .. 4
    BY <2>1 DEF BoxCalls
  <2>3. /\ a.m \in Seq(SUBSET Unknowns) /\ l \in Nat /\ DOMAIN a.m = 1 .. l
        /\ \A i \in 1 .. l : a.m[i] \subseteq Unknowns
        /\ l >= 2 => a.m[1] = {} /\ a.m[2] = {}
    BY <2>2, BoxTextType
  <2> DEFINE c == crypto_secretbox(a.m, a.n, k)
             o == crypto_secretbox_open(Changed(c, a.i), a.o, h)
  <2>4. r.c = c /\ r.m = IF c = Failed THEN c ELSE o
    BY <2>1 DEF Opened, crypto_box, crypto_box_open, crypto_box_afternm,
       crypto_box_open_afternm, crypto_box_beforenm, crypto_scalarmult, crypto_scalarmult_base
  <2>5. CASE l < 2
    <3>1. c = Failed
      BY <2>5 DEF crypto_secretbox
    <3> HIDE DEF c, o
    <3>2. r.c = Failed /\ r.m = Failed
      BY <2>4, <3>1
    <3> QED BY <2>5, <3>2 DEF OnlySealedBoxesOpen
  <2>6. CASE ~(l < 2)
    <3>1. Cells(a.m, l)
      BY <2>3 DEF Cells
    <3>2. l >= 2
      BY <2>3, <2>6
    <3>3. Sealed(c, l, a.m, a.n, k)
      BY <2>3, <3>1, <3>2, SecretBoxSeals
    <3> HIDE DEF l, k, h, c
    <3>4. c # Failed
      <4>1. Len(c) = l
        BY <2>3, <3>3, CellsAreSeq DEF Sealed
      <4>2. Len(Failed) = 1
        BY DEF Failed
      <4> QED BY <2>3, <3>2, <4>1, <4>2
    <3>5. r.m = o
      BY <2>4, <3>4
    <3> DEFINE untouched == a.i \in {0, 1} \/ a.i > l
               right == a.n = a.o /\ {a.z} \union {a.y} = {a.x} \union {a.y}
    <3>6. k = h <=> {a.z} \union {a.y} = {a.x} \union {a.y}
      BY DEF k, h
    <3>7. CASE right /\ untouched
      <4>1. /\ Cells(Changed(c, a.i), l)
            /\ \A j \in 1 .. l : Changed(c, a.i)[j] =
                 IF a.i = j THEN c[j] \union {<<"changed">>} ELSE c[j]
        <5>1. a.i \in Nat /\ Cells(c, l)
          BY <2>2, <3>3 DEF Sealed
        <5>2. ChangedTo(Changed(c, a.i), l, c, a.i)
          BY <2>3, <5>1, ChangedCells
        <5> QED BY <5>2 DEF ChangedTo
      <4>2. ASSUME NEW j \in 2 .. l PROVE Changed(c, a.i)[j] = c[j]
        <5>1. j \in 1 .. l /\ a.i # j
          BY <2>2, <2>3, <3>7
        <5> QED BY <4>1, <5>1
      <4>3. crypto_secretbox_open(Changed(c, a.i), a.n, k) = a.m
        BY <2>3, <3>1, <3>2, <3>3, <4>1, <4>2, SecretBoxOpens
      <4>4. o = a.m
        BY <3>6, <3>7, <4>3
      <4>5. r.m = a.m
        BY <3>5, <4>4
      <4> HIDE DEF o
      <4>6. /\ ~(Len(a.m) < 2) /\ a.n = a.o /\ {a.z} \union {a.y} = {a.x} \union {a.y}
            /\ a.i \in {0, 1} \/ a.i > Len(a.m)
        BY <2>6, <3>7 DEF l
      <4> QED BY <4>5, <4>6 DEF OnlySealedBoxesOpen
    <3>8. CASE ~(right /\ untouched)
      <4>1. a.i \in 2 .. l \/ a.n # a.o \/ k # h
        BY <2>2, <2>3, <3>6, <3>8
      <4>2. \A i \in 1 .. l : <<"changed">> \notin a.m[i]
        BY <2>3, BoxTextsAssumption
      <4>3. o = Failed
        BY <2>2, <2>3, <3>2, <3>3, <4>1, <4>2, OthersRefused
      <4> QED BY <3>2, <3>5, <3>8, <4>3, <2>3 DEF OnlySealedBoxesOpen, l
    <3> QED BY <3>7, <3>8
  <2> QED BY <2>5, <2>6
<1> QED BY <1>1, BoxInvariance, PTL

-----------------------------------------------------------------------------
(* blake3.c *)

(* The rounds of compress. *)
LEMMA CompressChain ==
  ASSUME NEW cv, NEW block, NEW counter, NEW len, NEW flags
  PROVE  \E f : /\ f[0] = B3!StartState(cv, counter, len, flags)
                /\ \A i \in 0 .. 6 : f[i + 1] = B3!Round(f[i], B3!Message(block), i)
                /\ B3!compress(cv, block, counter, len, flags) = B3!Halves(f[7])
<1> DEFINE Eq(fn, top) == fn = [i \in 0 .. top |->
             IF i = 0 THEN B3!StartState(cv, counter, len, flags)
             ELSE B3!Round(fn[i - 1], B3!Message(block), i - 1)]
           G == {top \in Nat : \E fn : Eq(fn, top)}
<1>1. ASSUME NEW top \in Nat, \A low \in 0 .. top - 1 : low \in G PROVE top \in G
  <2>1. CASE top = 0
    <3>1. Eq([i \in 0 .. top |-> B3!StartState(cv, counter, len, flags)], top)
      BY <2>1
    <3> QED BY <3>1
  <2>2. CASE top # 0
    <3>1. PICK f : Eq(f, top - 1)
      <4>1. top - 1 \in 0 .. top - 1
        BY <2>2
      <4> HIDE DEF Eq, G
      <4>2. top - 1 \in G
        BY <1>1, <4>1
      <4> QED BY <4>2 DEF G
    <3> DEFINE g == [i \in 0 .. top |->
                     IF i = top THEN B3!Round(f[top - 1], B3!Message(block), top - 1) ELSE f[i]]
    <3>2. Eq(g, top)
      BY <2>2, <3>1
    <3> QED BY <3>2
  <2> QED BY <2>1, <2>2
<1>2. PICK f : Eq(f, 7)
  <2>1. 7 \in G
    BY <1>1, CompleteInduction
  <2> QED BY <2>1
<1> DEFINE h == CHOOSE fn : Eq(fn, 7)
<1>3. Eq(h, 7)
  BY <1>2
<1>4. B3!compress(cv, block, counter, len, flags) = B3!Halves(h[7])
  BY DEF B3!compress, B3!Iterate, B3!Then
<1> HIDE DEF h
<1>5. h[0] = B3!StartState(cv, counter, len, flags) /\ \A i \in 0 .. 6 : h[i + 1] = B3!Round(h[i], B3!Message(block), i)
  BY <1>3
<1> QED BY <1>4, <1>5

(* The rounds of the specification. *)
LEMMA SpecCompressChain ==
  ASSUME NEW cv, NEW block, NEW counter, NEW len, NEW flags
  PROVE  \E f : /\ f[0] = [v |-> B3!StartState(cv, counter, len, flags), m |-> B3!Message(block)]
                /\ \A i \in 0 .. 6 : f[i + 1] = B3!SpecRound(f[i], i)
                /\ B3!SpecCompress(cv, block, counter, len, flags) = B3!Halves(f[7].v)
<1> DEFINE Eq(fn, top) == fn = [i \in 0 .. top |->
             IF i = 0 THEN [v |-> B3!StartState(cv, counter, len, flags), m |-> B3!Message(block)]
             ELSE B3!SpecRound(fn[i - 1], i - 1)]
           G == {top \in Nat : \E fn : Eq(fn, top)}
<1>1. ASSUME NEW top \in Nat, \A low \in 0 .. top - 1 : low \in G PROVE top \in G
  <2>1. CASE top = 0
    <3>1. Eq([i \in 0 .. top |-> [v |-> B3!StartState(cv, counter, len, flags), m |-> B3!Message(block)]], top)
      BY <2>1
    <3> QED BY <3>1
  <2>2. CASE top # 0
    <3>1. PICK f : Eq(f, top - 1)
      <4>1. top - 1 \in 0 .. top - 1
        BY <2>2
      <4> HIDE DEF Eq, G
      <4>2. top - 1 \in G
        BY <1>1, <4>1
      <4> QED BY <4>2 DEF G
    <3> DEFINE g == [i \in 0 .. top |->
                     IF i = top THEN B3!SpecRound(f[top - 1], top - 1) ELSE f[i]]
    <3>2. Eq(g, top)
      BY <2>2, <3>1
    <3> QED BY <3>2
  <2> QED BY <2>1, <2>2
<1>2. PICK f : Eq(f, 7)
  <2>1. 7 \in G
    BY <1>1, CompleteInduction
  <2> QED BY <2>1
<1> DEFINE h == CHOOSE fn : Eq(fn, 7)
<1>3. Eq(h, 7)
  BY <1>2
<1>4. B3!SpecCompress(cv, block, counter, len, flags) = B3!Halves(h[7].v)
  BY DEF B3!SpecCompress, B3!Iterate, B3!Then
<1> HIDE DEF h
<1>5. h[0] = [v |-> B3!StartState(cv, counter, len, flags), m |-> B3!Message(block)] /\ \A i \in 0 .. 6 : h[i + 1] = B3!SpecRound(h[i], i)
  BY <1>3
<1> QED BY <1>4, <1>5

(* The eight calls of a round. *)
LEMMA RoundChain ==
  ASSUME NEW v, NEW m, NEW r
  PROVE  \E f : /\ f[0] = v
                /\ \A i \in 0 .. 7 : f[i + 1] = B3!Mix(f[i], m, r, i)
                /\ B3!Round(v, m, r) = f[8]
<1> DEFINE Eq(fn, top) == fn = [i \in 0 .. top |->
             IF i = 0 THEN v
             ELSE B3!Mix(fn[i - 1], m, r, i - 1)]
           G == {top \in Nat : \E fn : Eq(fn, top)}
<1>1. ASSUME NEW top \in Nat, \A low \in 0 .. top - 1 : low \in G PROVE top \in G
  <2>1. CASE top = 0
    <3>1. Eq([i \in 0 .. top |-> v], top)
      BY <2>1
    <3> QED BY <3>1
  <2>2. CASE top # 0
    <3>1. PICK f : Eq(f, top - 1)
      <4>1. top - 1 \in 0 .. top - 1
        BY <2>2
      <4> HIDE DEF Eq, G
      <4>2. top - 1 \in G
        BY <1>1, <4>1
      <4> QED BY <4>2 DEF G
    <3> DEFINE g == [i \in 0 .. top |->
                     IF i = top THEN B3!Mix(f[top - 1], m, r, top - 1) ELSE f[i]]
    <3>2. Eq(g, top)
      BY <2>2, <3>1
    <3> QED BY <3>2
  <2> QED BY <2>1, <2>2
<1>2. PICK f : Eq(f, 8)
  <2>1. 8 \in G
    BY <1>1, CompleteInduction
  <2> QED BY <2>1
<1> DEFINE h == CHOOSE fn : Eq(fn, 8)
<1>3. Eq(h, 8)
  BY <1>2
<1>4. B3!Round(v, m, r) = h[8]
  BY DEF B3!Round, B3!Iterate, B3!Then
<1> HIDE DEF h
<1>5. h[0] = v /\ \A i \in 0 .. 7 : h[i + 1] = B3!Mix(h[i], m, r, i)
  BY <1>3
<1> QED BY <1>4, <1>5

(* The columns of a round. *)
LEMMA ColumnsChain ==
  ASSUME NEW v, NEW m
  PROVE  \E f : /\ f[0] = v
                /\ \A i \in 0 .. 3 : f[i + 1] = B3!Column(f[i], m, i)
                /\ B3!Columns(v, m) = f[4]
<1> DEFINE Eq(fn, top) == fn = [i \in 0 .. top |->
             IF i = 0 THEN v
             ELSE B3!Column(fn[i - 1], m, i - 1)]
           G == {top \in Nat : \E fn : Eq(fn, top)}
<1>1. ASSUME NEW top \in Nat, \A low \in 0 .. top - 1 : low \in G PROVE top \in G
  <2>1. CASE top = 0
    <3>1. Eq([i \in 0 .. top |-> v], top)
      BY <2>1
    <3> QED BY <3>1
  <2>2. CASE top # 0
    <3>1. PICK f : Eq(f, top - 1)
      <4>1. top - 1 \in 0 .. top - 1
        BY <2>2
      <4> HIDE DEF Eq, G
      <4>2. top - 1 \in G
        BY <1>1, <4>1
      <4> QED BY <4>2 DEF G
    <3> DEFINE g == [i \in 0 .. top |->
                     IF i = top THEN B3!Column(f[top - 1], m, top - 1) ELSE f[i]]
    <3>2. Eq(g, top)
      BY <2>2, <3>1
    <3> QED BY <3>2
  <2> QED BY <2>1, <2>2
<1>2. PICK f : Eq(f, 4)
  <2>1. 4 \in G
    BY <1>1, CompleteInduction
  <2> QED BY <2>1
<1> DEFINE h == CHOOSE fn : Eq(fn, 4)
<1>3. Eq(h, 4)
  BY <1>2
<1>4. B3!Columns(v, m) = h[4]
  BY DEF B3!Columns, B3!Iterate, B3!Then
<1> HIDE DEF h
<1>5. h[0] = v /\ \A i \in 0 .. 3 : h[i + 1] = B3!Column(h[i], m, i)
  BY <1>3
<1> QED BY <1>4, <1>5

(* The diagonals of a round. *)
LEMMA DiagonalsChain ==
  ASSUME NEW v, NEW m
  PROVE  \E f : /\ f[0] = v
                /\ \A i \in 0 .. 3 : f[i + 1] = B3!Diagonal(f[i], m, i)
                /\ B3!Diagonals(v, m) = f[4]
<1> DEFINE Eq(fn, top) == fn = [i \in 0 .. top |->
             IF i = 0 THEN v
             ELSE B3!Diagonal(fn[i - 1], m, i - 1)]
           G == {top \in Nat : \E fn : Eq(fn, top)}
<1>1. ASSUME NEW top \in Nat, \A low \in 0 .. top - 1 : low \in G PROVE top \in G
  <2>1. CASE top = 0
    <3>1. Eq([i \in 0 .. top |-> v], top)
      BY <2>1
    <3> QED BY <3>1
  <2>2. CASE top # 0
    <3>1. PICK f : Eq(f, top - 1)
      <4>1. top - 1 \in 0 .. top - 1
        BY <2>2
      <4> HIDE DEF Eq, G
      <4>2. top - 1 \in G
        BY <1>1, <4>1
      <4> QED BY <4>2 DEF G
    <3> DEFINE g == [i \in 0 .. top |->
                     IF i = top THEN B3!Diagonal(f[top - 1], m, top - 1) ELSE f[i]]
    <3>2. Eq(g, top)
      BY <2>2, <3>1
    <3> QED BY <3>2
  <2> QED BY <2>1, <2>2
<1>2. PICK f : Eq(f, 4)
  <2>1. 4 \in G
    BY <1>1, CompleteInduction
  <2> QED BY <2>1
<1> DEFINE h == CHOOSE fn : Eq(fn, 4)
<1>3. Eq(h, 4)
  BY <1>2
<1>4. B3!Diagonals(v, m) = h[4]
  BY DEF B3!Diagonals, B3!Iterate, B3!Then
<1> HIDE DEF h
<1>5. h[0] = v /\ \A i \in 0 .. 3 : h[i + 1] = B3!Diagonal(h[i], m, i)
  BY <1>3
<1> QED BY <1>4, <1>5

(* A call of compress mixes a column or a diagonal. *)
LEMMA MixIsColumn ==
  ASSUME NEW u, NEW m0, NEW m, NEW r, NEW i \in 0 .. 3,
         \A k \in 0 .. 15 : m[k] = m0[B3!SIGMA[r + 1][k + 1]]
  PROVE  /\ B3!Mix(u, m0, r, i) = B3!Column(u, m, i)
         /\ B3!Mix(u, m0, r, i + 4) = B3!Diagonal(u, m, i)
<1>1. m[2 * i] = m0[B3!SIGMA[r + 1][2 * i + 1]]
  BY 2 * i \in 0 .. 15
<1>2. m[2 * i + 1] = m0[B3!SIGMA[r + 1][2 * i + 2]]
  <2>1. 2 * i + 1 \in 0 .. 15 /\ (2 * i + 1) + 1 = 2 * i + 2
    OBVIOUS
  <2> QED BY <2>1
<1>3. m[8 + 2 * i] = m0[B3!SIGMA[r + 1][2 * (i + 4) + 1]]
  <2>1. 8 + 2 * i \in 0 .. 15 /\ (8 + 2 * i) + 1 = 2 * (i + 4) + 1
    OBVIOUS
  <2> QED BY <2>1
<1>4. m[9 + 2 * i] = m0[B3!SIGMA[r + 1][2 * (i + 4) + 2]]
  <2>1. 9 + 2 * i \in 0 .. 15 /\ (9 + 2 * i) + 1 = 2 * (i + 4) + 2
    OBVIOUS
  <2> QED BY <2>1
<1>5. /\ B3!Calls[i + 1][1] = i /\ B3!Calls[i + 1][2] = 4 + i
      /\ B3!Calls[i + 1][3] = 8 + i /\ B3!Calls[i + 1][4] = 12 + i
  <2>1. CASE i = 0
    BY <2>1 DEF B3!Calls
  <2>2. CASE i = 1
    BY <2>2 DEF B3!Calls
  <2>3. CASE i = 2
    BY <2>3 DEF B3!Calls
  <2>4. CASE i = 3
    BY <2>4 DEF B3!Calls
  <2> QED BY <2>1, <2>2, <2>3, <2>4
<1>6. /\ B3!Calls[(i + 4) + 1][1] = i /\ B3!Calls[(i + 4) + 1][2] = 4 + ((i + 1) % 4)
      /\ B3!Calls[(i + 4) + 1][3] = 8 + ((i + 2) % 4)
      /\ B3!Calls[(i + 4) + 1][4] = 12 + ((i + 3) % 4)
  <2>1. CASE i = 0
    BY <2>1 DEF B3!Calls
  <2>2. CASE i = 1
    BY <2>2 DEF B3!Calls
  <2>3. CASE i = 2
    BY <2>3 DEF B3!Calls
  <2>4. CASE i = 3
    BY <2>4 DEF B3!Calls
  <2> QED BY <2>1, <2>2, <2>3, <2>4
<1>7. B3!Mix(u, m0, r, i) = B3!Column(u, m, i)
  BY <1>1, <1>2, <1>5 DEF B3!Mix, B3!Column
<1>8. B3!Mix(u, m0, r, i + 4) = B3!Diagonal(u, m, i)
  BY <1>3, <1>4, <1>6 DEF B3!Mix, B3!Diagonal
<1> QED BY <1>7, <1>8

(* A round of compress is a round of the specification on the message as   *)
(* it is permuted by then.                                                 *)
LEMMA RoundIsSpecRound ==
  ASSUME NEW v, NEW m0, NEW m, NEW r,
         \A k \in 0 .. 15 : m[k] = m0[B3!SIGMA[r + 1][k + 1]]
  PROVE  B3!Round(v, m0, r) = B3!Diagonals(B3!Columns(v, m), m)
<1>1. PICK f : /\ f[0] = v
               /\ \A i \in 0 .. 7 : f[i + 1] = B3!Mix(f[i], m0, r, i)
               /\ B3!Round(v, m0, r) = f[8]
  BY RoundChain
<1>2. PICK c : /\ c[0] = v
               /\ \A i \in 0 .. 3 : c[i + 1] = B3!Column(c[i], m, i)
               /\ B3!Columns(v, m) = c[4]
  BY ColumnsChain
<1>3. PICK d : /\ d[0] = B3!Columns(v, m)
               /\ \A i \in 0 .. 3 : d[i + 1] = B3!Diagonal(d[i], m, i)
               /\ B3!Diagonals(B3!Columns(v, m), m) = d[4]
  BY DiagonalsChain
<1>4. ASSUME NEW i \in 0 .. 3, f[i] = c[i] PROVE f[i + 1] = c[i + 1]
  BY <1>1, <1>2, <1>4, MixIsColumn
<1>5. f[4] = c[4]
  <2>1. f[0] = c[0]
    BY <1>1, <1>2
  <2>2. f[1] = c[1]
    BY <1>4, <2>1
  <2>3. f[2] = c[2]
    BY <1>4, <2>2
  <2>4. f[3] = c[3]
    BY <1>4, <2>3
  <2> QED BY <1>4, <2>4
<1>6. ASSUME NEW i \in 0 .. 3, f[i + 4] = d[i] PROVE f[(i + 1) + 4] = d[i + 1]
  <2>1. i + 4 \in 0 .. 7 /\ (i + 4) + 1 = (i + 1) + 4
    OBVIOUS
  <2>2. f[(i + 4) + 1] = B3!Mix(f[i + 4], m0, r, i + 4)
    BY <1>1, <2>1
  <2>3. B3!Mix(f[i + 4], m0, r, i + 4) = B3!Diagonal(f[i + 4], m, i)
    BY MixIsColumn
  <2> QED BY <1>3, <1>6, <2>1, <2>2, <2>3
<1>7. f[8] = d[4]
  <2>1. f[0 + 4] = d[0]
    BY <1>2, <1>3, <1>5
  <2>2. f[(0 + 1) + 4] = d[0 + 1]
    BY <1>6, <2>1
  <2>3. f[(1 + 1) + 4] = d[1 + 1]
    BY <1>6, <2>2
  <2>4. f[(2 + 1) + 4] = d[2 + 1]
    BY <1>6, <2>3
  <2>5. f[(3 + 1) + 4] = d[3 + 1]
    BY <1>6, <2>4
  <2> QED BY <2>5
<1> QED BY <1>1, <1>3, <1>7

(* The schedule of a round is that of the round before it, permuted.       *)
LEMMA SigmaIsPermuted ==
  ASSUME NEW r \in 1 .. 6, NEW k \in 0 .. 15
  PROVE  /\ B3!Permutation[k + 1] \in 0 .. 15
         /\ B3!SIGMA[r + 1][k + 1] = B3!SIGMA[r][B3!Permutation[k + 1] + 1]
<1>1. CASE r = 1
  BY <1>1 DEF B3!SIGMA, B3!Permutation
<1>2. CASE r = 2
  BY <1>2 DEF B3!SIGMA, B3!Permutation
<1>3. CASE r = 3
  BY <1>3 DEF B3!SIGMA, B3!Permutation
<1>4. CASE r = 4
  BY <1>4 DEF B3!SIGMA, B3!Permutation
<1>5. CASE r = 5
  BY <1>5 DEF B3!SIGMA, B3!Permutation
<1>6. CASE r = 6
  BY <1>6 DEF B3!SIGMA, B3!Permutation
<1> QED BY <1>1, <1>2, <1>3, <1>4, <1>5, <1>6

(* The unrolled schedules compress as the permuted message does.           *)
LEMMA CompressIsSpec ==
  ASSUME NEW cv, NEW block, NEW counter, NEW len, NEW flags
  PROVE  B3!compress(cv, block, counter, len, flags)
           = B3!SpecCompress(cv, block, counter, len, flags)
<1> DEFINE m0 == B3!Message(block)
           Follows(s, r) == \A k \in 0 .. 15 : s.m[k] = m0[B3!SIGMA[r + 1][k + 1]]
<1>1. PICK f : /\ f[0] = B3!StartState(cv, counter, len, flags)
               /\ \A i \in 0 .. 6 : f[i + 1] = B3!Round(f[i], m0, i)
               /\ B3!compress(cv, block, counter, len, flags) = B3!Halves(f[7])
  BY CompressChain
<1>2. PICK s : /\ s[0] = [v |-> B3!StartState(cv, counter, len, flags), m |-> m0]
               /\ \A i \in 0 .. 6 : s[i + 1] = B3!SpecRound(s[i], i)
               /\ B3!SpecCompress(cv, block, counter, len, flags) = B3!Halves(s[7].v)
  BY SpecCompressChain
<1>3. f[0] = s[0].v /\ Follows(s[0], 0)
  <2>1. f[0] = s[0].v /\ s[0].m = m0
    BY <1>1, <1>2
  <2>2. ASSUME NEW k \in 0 .. 15 PROVE B3!SIGMA[1][k + 1] = k
    BY DEF B3!SIGMA
  <2> HIDE DEF m0
  <2> QED BY <2>1, <2>2
<1> HIDE DEF m0
<1>4. ASSUME NEW r \in 0 .. 6, f[r] = s[r].v, Follows(s[r], r)
      PROVE  f[r + 1] = s[r + 1].v /\ (r < 6 => Follows(s[r + 1], r + 1))
  <2>1. f[r + 1] = B3!Diagonals(B3!Columns(f[r], s[r].m), s[r].m)
    <3>1. f[r + 1] = B3!Round(f[r], m0, r)
      BY <1>1
    <3>2. \A k \in 0 .. 15 : s[r].m[k] = m0[B3!SIGMA[r + 1][k + 1]]
      BY <1>4
    <3> DEFINE v == f[r]
               m == s[r].m
    <3> HIDE DEF v, m
    <3>3. \A k \in 0 .. 15 : m[k] = m0[B3!SIGMA[r + 1][k + 1]]
      BY <3>2 DEF m
    <3>4. B3!Round(v, m0, r) = B3!Diagonals(B3!Columns(v, m), m)
      BY <3>3, RoundIsSpecRound
    <3> QED BY <3>1, <3>4 DEF v, m
  <2>2. /\ s[r + 1].v = B3!Diagonals(B3!Columns(s[r].v, s[r].m), s[r].m)
        /\ s[r + 1].m = [i \in 0 .. 15 |-> s[r].m[B3!Permutation[i + 1]]]
    <3>1. s[r + 1] = B3!SpecRound(s[r], r)
      BY <1>2
    <3> DEFINE v == B3!Diagonals(B3!Columns(s[r].v, s[r].m), s[r].m)
               m == [i \in 0 .. 15 |-> s[r].m[B3!Permutation[i + 1]]]
    <3>2. s[r + 1] = [v |-> v, m |-> m]
      BY <3>1 DEF B3!SpecRound
    <3> HIDE DEF v, m
    <3>3. s[r + 1].v = v /\ s[r + 1].m = m
      BY <3>2
    <3> QED BY <3>3 DEF v, m
  <2>3. ASSUME r < 6, NEW k \in 0 .. 15
        PROVE  s[r + 1].m[k] = m0[B3!SIGMA[(r + 1) + 1][k + 1]]
    <3>1. r + 1 \in 1 .. 6
      BY <2>3
    <3>2. /\ B3!Permutation[k + 1] \in 0 .. 15
          /\ B3!SIGMA[(r + 1) + 1][k + 1] = B3!SIGMA[r + 1][B3!Permutation[k + 1] + 1]
      BY <3>1, SigmaIsPermuted
    <3>3. s[r].m[B3!Permutation[k + 1]] = m0[B3!SIGMA[r + 1][B3!Permutation[k + 1] + 1]]
      BY <1>4, <3>2
    <3> QED BY <2>2, <3>2, <3>3
  <2> QED BY <1>4, <2>1, <2>2, <2>3
<1> HIDE DEF Follows
<1>5. f[1] = s[1].v /\ Follows(s[1], 1)
  <2>1. f[0 + 1] = s[0 + 1].v /\ Follows(s[0 + 1], 0 + 1)
    BY <1>3, <1>4
  <2> QED BY <2>1
<1>6. f[2] = s[2].v /\ Follows(s[2], 2)
  <2>1. f[1 + 1] = s[1 + 1].v /\ Follows(s[1 + 1], 1 + 1)
    BY <1>5, <1>4
  <2> QED BY <2>1
<1>7. f[3] = s[3].v /\ Follows(s[3], 3)
  <2>1. f[2 + 1] = s[2 + 1].v /\ Follows(s[2 + 1], 2 + 1)
    BY <1>6, <1>4
  <2> QED BY <2>1
<1>8. f[4] = s[4].v /\ Follows(s[4], 4)
  <2>1. f[3 + 1] = s[3 + 1].v /\ Follows(s[3 + 1], 3 + 1)
    BY <1>7, <1>4
  <2> QED BY <2>1
<1>9. f[5] = s[5].v /\ Follows(s[5], 5)
  <2>1. f[4 + 1] = s[4 + 1].v /\ Follows(s[4 + 1], 4 + 1)
    BY <1>8, <1>4
  <2> QED BY <2>1
<1>10. f[6] = s[6].v /\ Follows(s[6], 6)
  <2>1. f[5 + 1] = s[5 + 1].v /\ Follows(s[5 + 1], 5 + 1)
    BY <1>9, <1>4
  <2> QED BY <2>1
<1>11. f[6 + 1] = s[6 + 1].v
  BY <1>10, <1>4
<1> QED BY <1>1, <1>2, <1>11

(* The blocks of a chunk in the code. *)
LEMMA HashChunkChain ==
  ASSUME NEW in, NEW from, NEW len, NEW k, NEW root, B3!Blocks(len) \in Nat
  PROVE  \E f : /\ f[0] = [cv |-> B3!IV, offset |-> 0, flags |-> B3!CHUNK_START]
                /\ \A i \in 0 .. B3!Blocks(len) - 1 : f[i + 1] = B3!HashBlock(f[i], in, from, len, k, root)
                /\ B3!hash_chunk(in, from, len, k, root) = B3!words_to_bytes(f[B3!Blocks(len)].cv)
<1> DEFINE Eq(fn, top) == fn = [i \in 0 .. top |->
             IF i = 0 THEN [cv |-> B3!IV, offset |-> 0, flags |-> B3!CHUNK_START]
             ELSE B3!HashBlock(fn[i - 1], in, from, len, k, root)]
           G == {top \in Nat : \E fn : Eq(fn, top)}
<1>1. ASSUME NEW top \in Nat, \A low \in 0 .. top - 1 : low \in G PROVE top \in G
  <2>1. CASE top = 0
    <3>1. Eq([i \in 0 .. top |-> [cv |-> B3!IV, offset |-> 0, flags |-> B3!CHUNK_START]], top)
      BY <2>1
    <3> QED BY <3>1
  <2>2. CASE top # 0
    <3>1. PICK f : Eq(f, top - 1)
      <4>1. top - 1 \in 0 .. top - 1
        BY <2>2
      <4> HIDE DEF Eq, G
      <4>2. top - 1 \in G
        BY <1>1, <4>1
      <4> QED BY <4>2 DEF G
    <3> DEFINE g == [i \in 0 .. top |->
                     IF i = top THEN B3!HashBlock(f[top - 1], in, from, len, k, root) ELSE f[i]]
    <3>2. Eq(g, top)
      BY <2>2, <3>1
    <3> QED BY <3>2
  <2> QED BY <2>1, <2>2
<1>2. PICK f : Eq(f, B3!Blocks(len))
  <2>1. B3!Blocks(len) \in G
    BY <1>1, CompleteInduction
  <2> QED BY <2>1
<1> DEFINE h == CHOOSE fn : Eq(fn, B3!Blocks(len))
<1>3. Eq(h, B3!Blocks(len))
  BY <1>2
<1>4. B3!hash_chunk(in, from, len, k, root) = B3!words_to_bytes(h[B3!Blocks(len)].cv)
  BY DEF B3!hash_chunk, B3!Iterate, B3!Then
<1> HIDE DEF h
<1>5. h[0] = [cv |-> B3!IV, offset |-> 0, flags |-> B3!CHUNK_START] /\ \A i \in 0 .. B3!Blocks(len) - 1 : h[i + 1] = B3!HashBlock(h[i], in, from, len, k, root)
  BY <1>3
<1> QED BY <1>4, <1>5

(* The blocks of a chunk in the specification. *)
LEMMA SpecChunkChain ==
  ASSUME NEW in, NEW from, NEW len, NEW k, NEW root, B3!LastBlock(len) + 1 \in Nat
  PROVE  \E f : /\ f[0] = B3!IV
                /\ \A i \in 0 .. (B3!LastBlock(len) + 1) - 1 : f[i + 1] = B3!SpecBlock(f[i], i, in, from, len, k, root)
                /\ B3!SpecChunk(in, from, len, k, root) = B3!words_to_bytes(f[(B3!LastBlock(len) + 1)])
<1> DEFINE Eq(fn, top) == fn = [i \in 0 .. top |->
             IF i = 0 THEN B3!IV
             ELSE B3!SpecBlock(fn[i - 1], i - 1, in, from, len, k, root)]
           G == {top \in Nat : \E fn : Eq(fn, top)}
<1>1. ASSUME NEW top \in Nat, \A low \in 0 .. top - 1 : low \in G PROVE top \in G
  <2>1. CASE top = 0
    <3>1. Eq([i \in 0 .. top |-> B3!IV], top)
      BY <2>1
    <3> QED BY <3>1
  <2>2. CASE top # 0
    <3>1. PICK f : Eq(f, top - 1)
      <4>1. top - 1 \in 0 .. top - 1
        BY <2>2
      <4> HIDE DEF Eq, G
      <4>2. top - 1 \in G
        BY <1>1, <4>1
      <4> QED BY <4>2 DEF G
    <3> DEFINE g == [i \in 0 .. top |->
                     IF i = top THEN B3!SpecBlock(f[top - 1], top - 1, in, from, len, k, root) ELSE f[i]]
    <3>2. Eq(g, top)
      BY <2>2, <3>1
    <3> QED BY <3>2
  <2> QED BY <2>1, <2>2
<1>2. PICK f : Eq(f, (B3!LastBlock(len) + 1))
  <2>1. (B3!LastBlock(len) + 1) \in G
    BY <1>1, CompleteInduction
  <2> QED BY <2>1
<1> DEFINE h == CHOOSE fn : Eq(fn, (B3!LastBlock(len) + 1))
<1>3. Eq(h, (B3!LastBlock(len) + 1))
  BY <1>2
<1>4. B3!SpecChunk(in, from, len, k, root) = B3!words_to_bytes(h[(B3!LastBlock(len) + 1)])
  BY DEF B3!SpecChunk, B3!Iterate, B3!Then
<1> HIDE DEF h
<1>5. h[0] = B3!IV /\ \A i \in 0 .. (B3!LastBlock(len) + 1) - 1 : h[i + 1] = B3!SpecBlock(h[i], i, in, from, len, k, root)
  BY <1>3
<1> QED BY <1>4, <1>5

(* The last block of a chunk is the one its last byte is in.               *)
LEMMA LastBlockOfChunk ==
  ASSUME NEW len \in Nat
  PROVE  /\ B3!LastBlock(len) \in Nat
         /\ B3!Blocks(len) = B3!LastBlock(len) + 1
         /\ \A b \in 0 .. B3!LastBlock(len) :
              /\ 64 * b <= len
              /\ b < B3!LastBlock(len) => len > 64 * b + 64
              /\ b = B3!LastBlock(len) => len - 64 * b <= 64
<1>1. CASE len = 0
  BY <1>1 DEF B3!LastBlock, B3!Blocks
<1>2. CASE len # 0
  <2>1. PICK q \in Nat : q = (len - 1) \div 64
    BY <1>2
  <2>2. 64 * q <= len - 1 /\ len - 1 < 64 * q + 64
    BY <1>2, <2>1
  <2>3. (len + 64 - 1) \div 64 = q + 1
    BY <1>2, <2>2
  <2>4. B3!LastBlock(len) = q /\ B3!Blocks(len) = q + 1
    BY <1>2, <2>1, <2>3 DEF B3!LastBlock, B3!Blocks, B3!BLOCK_LEN
  <2>5. ASSUME NEW b \in 0 .. q
        PROVE  /\ 64 * b <= len
               /\ b < q => len > 64 * b + 64
               /\ b = q => len - 64 * b <= 64
    BY <2>2
  <2> QED BY <2>4, <2>5
<1> QED BY <1>1, <1>2

(* The do-while loop of hash_chunk hashes the blocks of the specification. *)
LEMMA HashChunkIsSpec ==
  ASSUME NEW in, NEW from, NEW len \in Nat, NEW k, NEW root
  PROVE  B3!hash_chunk(in, from, len, k, root) = B3!SpecChunk(in, from, len, k, root)
<1> DEFINE last == B3!LastBlock(len)
           Flags(b) == IF b = 0 THEN B3!CHUNK_START ELSE 0
<1>1. last \in Nat /\ B3!Blocks(len) = last + 1
  BY LastBlockOfChunk
<1>2. PICK f : /\ f[0] = [cv |-> B3!IV, offset |-> 0, flags |-> B3!CHUNK_START]
               /\ \A b \in 0 .. last : f[b + 1] = B3!HashBlock(f[b], in, from, len, k, root)
               /\ B3!hash_chunk(in, from, len, k, root) = B3!words_to_bytes(f[last + 1].cv)
  <2>1. B3!Blocks(len) \in Nat /\ B3!Blocks(len) - 1 = last
    BY <1>1
  <2>2. PICK f :
          /\ f[0] = [cv |-> B3!IV, offset |-> 0, flags |-> B3!CHUNK_START]
          /\ \A i \in 0 .. B3!Blocks(len) - 1 :
               f[i + 1] = B3!HashBlock(f[i], in, from, len, k, root)
          /\ B3!hash_chunk(in, from, len, k, root) = B3!words_to_bytes(f[B3!Blocks(len)].cv)
    BY <2>1, HashChunkChain
  <2> HIDE DEF last
  <2> QED BY <1>1, <2>1, <2>2
<1>3. PICK g : /\ g[0] = B3!IV
               /\ \A b \in 0 .. last : g[b + 1] = B3!SpecBlock(g[b], b, in, from, len, k, root)
               /\ B3!SpecChunk(in, from, len, k, root) = B3!words_to_bytes(g[last + 1])
  <2>1. last + 1 \in Nat /\ (last + 1) - 1 = last
    BY <1>1
  <2> QED BY <2>1, SpecChunkChain
<1> DEFINE Agree(b) == /\ f[b].cv = g[b]
                       /\ b <= last => f[b].offset = 64 * b /\ f[b].flags = Flags(b)
           G == {b \in Nat : b <= last + 1 => Agree(b)}
<1> HIDE DEF last
<1>4. Agree(0)
  BY <1>2, <1>3
<1>5. ASSUME NEW b \in 0 .. last, Agree(b) PROVE Agree(b + 1)
  <2> DEFINE size == IF b = last THEN len - 64 * b ELSE 64
             flags == Flags(b) + (IF b = last THEN B3!CHUNK_END + root ELSE 0)
             new == B3!compress(f[b].cv, B3!Padded(in, from + 64 * b, size), k, size, flags)
  <2>1. b \in Nat /\ f[b].offset = 64 * b /\ f[b].flags = Flags(b)
    BY <1>5, <1>1
  <2>2. /\ 64 * b <= len
        /\ b < last => len > 64 * b + 64
        /\ b = last => len - 64 * b <= 64
    BY LastBlockOfChunk DEF last
  <2>3. /\ size = IF len - 64 * b > 64 THEN 64 ELSE len - 64 * b
        /\ (64 * b + size = len) <=> b = last
    BY <2>1, <2>2, <1>1
  <2>4. f[b + 1] = [cv |-> new, offset |-> 64 * b + size, flags |-> 0]
    <3>1. f[b + 1] = B3!HashBlock(f[b], in, from, len, k, root)
      BY <1>2
    <3> HIDE DEF Flags
    <3> QED BY <2>1, <2>3, <3>1 DEF B3!HashBlock, B3!BLOCK_LEN
  <2>5. g[b + 1] = B3!SpecCompress(g[b], B3!Padded(in, from + 64 * b, size), k, size, flags)
    <3>1. g[b + 1] = B3!SpecBlock(g[b], b, in, from, len, k, root)
      BY <1>3
    <3>2. b * 64 = 64 * b
      BY <2>1
    <3> QED BY <3>1, <3>2 DEF B3!SpecBlock, B3!BLOCK_LEN, last
  <2>6. f[b + 1].cv = g[b + 1]
    BY <1>5, <2>4, <2>5, CompressIsSpec
  <2>7. b + 1 <= last => 64 * b + size = 64 * (b + 1) /\ Flags(b + 1) = 0
    BY <1>1, <2>1
  <2> HIDE DEF new
  <2> QED BY <2>4, <2>6, <2>7
<1> HIDE DEF Agree
<1>6. ASSUME NEW n \in Nat, \A b \in 0 .. n - 1 : b \in G PROVE n \in G
  <2>1. CASE n = 0
    BY <1>4, <2>1
  <2>2. CASE n # 0 /\ n <= last + 1
    <3>1. n - 1 \in 0 .. last /\ n - 1 \in 0 .. n - 1 /\ (n - 1) + 1 = n
      BY <1>1, <2>2
    <3>2. n - 1 \in G
      <4> HIDE DEF G
      <4> QED BY <1>6, <3>1
    <3>3. Agree(n - 1)
      BY <1>1, <3>1, <3>2
    <3>4. Agree((n - 1) + 1)
      BY <1>5, <3>1, <3>3
    <3> QED BY <3>1, <3>4
  <2> QED BY <2>1, <2>2
<1>7. Agree(last + 1)
  <2>1. last + 1 \in G
    <3> HIDE DEF G
    <3> QED BY <1>1, <1>6, CompleteInduction
  <2> QED BY <2>1
<1> QED BY <1>2, <1>3, <1>7 DEF Agree

(* The left subtree of a subtree of two to eight chunks is a complete one,  *)
(* and both are subtrees again.                                            *)
LEMMA LeftChunksSplit ==
  ASSUME NEW c \in 2 .. 8
  PROVE  B3!LeftChunks(c) = IF c = 2 THEN 1 ELSE IF c <= 4 THEN 2 ELSE 4
<1>1. CASE c = 2
  BY <1>1 DEF B3!LeftChunks
<1>2. CASE c \in 3 .. 4
  BY <1>2 DEF B3!LeftChunks
<1>3. CASE c \in 5 .. 8
  BY <1>3 DEF B3!LeftChunks
<1> QED BY <1>1, <1>2, <1>3

(* The two halves of a tree of several chunks are smaller trees of the     *)
(* definition, and they make up the whole.                                 *)
LEMMA SubtreesOfSubtree ==
  ASSUME NEW t \in B3!Subtrees, t.count # 1
  PROVE  LET left == B3!LeftChunks(t.count)
             l == B3!Subtree(t.first, left, 0)
             r == B3!Subtree(t.first + left, t.count - left, 0)
         IN  /\ t.count \in 2 .. 8
             /\ l \in B3!Subtrees /\ l.count < t.count
             /\ r \in B3!Subtrees /\ r.count < t.count
<1> DEFINE left == B3!LeftChunks(t.count)
           l == B3!Subtree(t.first, left, 0)
           r == B3!Subtree(t.first + left, t.count - left, 0)
<1>1. t.count \in 2 .. 8 /\ t.first \in 0 .. 7 /\ t.first + t.count <= 8
  BY DEF B3!Subtrees, B3!MAX_CHUNKS
<1>2. left \in Nat /\ left >= 1 /\ left < t.count
  BY <1>1, LeftChunksSplit
<1> HIDE DEF left
<1>3. /\ t.first \in 0 .. 7 /\ left \in 1 .. 8 /\ t.first + left <= 8
      /\ t.first + left \in 0 .. 7 /\ t.count - left \in 1 .. 8
      /\ (t.first + left) + (t.count - left) <= 8
      /\ t.count - left < t.count
  BY <1>1, <1>2
<1>4. l = [first |-> t.first, count |-> left, root |-> 0]
  BY DEF B3!Subtree
<1>5. r = [first |-> t.first + left, count |-> t.count - left, root |-> 0]
  BY DEF B3!Subtree
<1>6. l \in B3!Subtrees
  BY <1>3, <1>4 DEF B3!Subtrees, B3!MAX_CHUNKS
<1>7. r \in B3!Subtrees
  BY <1>3, <1>5 DEF B3!Subtrees, B3!MAX_CHUNKS
<1>8. l.count < t.count /\ r.count < t.count
  BY <1>2, <1>3, <1>4, <1>5
<1> QED BY <1>1, <1>6, <1>7, <1>8 DEF left

(* The tree of the specification is defined for every subtree.             *)
LEMMA SpecNodeEquation ==
  ASSUME NEW in, NEW n, NEW t \in B3!Subtrees
  PROVE  B3!SpecNode(in, n, t) =
           IF t.count = 1 THEN B3!SpecLeaf(in, n, t.first, t.root)
           ELSE LET left == B3!LeftChunks(t.count)
                IN  B3!SpecParent(
                      B3!SpecNode(in, n, B3!Subtree(t.first, left, 0)),
                      B3!SpecNode(in, n, B3!Subtree(t.first + left, t.count - left, 0)),
                      t.root)
<1> DEFINE Node(f, s) ==
             IF s.count = 1 THEN B3!SpecLeaf(in, n, s.first, s.root)
             ELSE LET left == B3!LeftChunks(s.count)
                  IN  B3!SpecParent(f[B3!Subtree(s.first, left, 0)],
                                    f[B3!Subtree(s.first + left, s.count - left, 0)], s.root)
           Upto(c) == {s \in B3!Subtrees : s.count <= c}
           Eq(f, c) == f = [s \in Upto(c) |-> Node(f, s)]
           G == {c \in Nat : \E f : Eq(f, c)}
<1>1. ASSUME NEW c \in Nat, \A k \in 0 .. c - 1 : k \in G PROVE c \in G
  <2>1. CASE c = 0
    <3>1. Upto(0) = {}
      BY DEF B3!Subtrees
    <3> DEFINE g == [s \in Upto(0) |-> 0]
    <3>2. Eq(g, 0)
      <4> HIDE DEF Upto
      <4> QED BY <3>1
    <3> QED BY <2>1, <3>2
  <2>2. CASE c # 0
    <3>1. PICK f : Eq(f, c - 1)
      <4>1. c - 1 \in 0 .. c - 1
        BY <2>2
      <4> HIDE DEF Eq, G
      <4>2. c - 1 \in G
        BY <1>1, <4>1
      <4> QED BY <4>2 DEF G
    <3> DEFINE g == [s \in Upto(c) |-> Node(f, s)]
    <3>2. ASSUME NEW s \in Upto(c - 1) PROVE s \in Upto(c) /\ g[s] = f[s]
      <4>1. s \in Upto(c)
        BY <2>2 DEF B3!Subtrees, B3!MAX_CHUNKS
      <4> HIDE DEF Node, Upto
      <4> QED BY <3>1, <4>1
    <3>3. ASSUME NEW s \in Upto(c) PROVE Node(g, s) = Node(f, s)
      <4>1. CASE s.count = 1
        BY <4>1
      <4>2. CASE s.count # 1
        <5> DEFINE left == B3!LeftChunks(s.count)
                   l == B3!Subtree(s.first, left, 0)
                   r == B3!Subtree(s.first + left, s.count - left, 0)
        <5>1. /\ s \in B3!Subtrees /\ s.count \in 2 .. 8 /\ s.count <= c
              /\ l \in B3!Subtrees /\ l.count < s.count
              /\ r \in B3!Subtrees /\ r.count < s.count
          BY <4>2, SubtreesOfSubtree
        <5>2. l.count \in Nat /\ r.count \in Nat
          BY <5>1 DEF B3!Subtrees, B3!MAX_CHUNKS
        <5> HIDE DEF l, r
        <5>3. l.count <= c - 1 /\ r.count <= c - 1
          BY <5>1, <5>2, <2>2
        <5>4. l \in Upto(c - 1) /\ r \in Upto(c - 1)
          BY <5>1, <5>3
        <5> HIDE DEF Upto, g
        <5>5. g[l] = f[l] /\ g[r] = f[r]
          BY <3>2, <5>4
        <5> QED BY <4>2, <5>5 DEF l, r
      <4> QED BY <4>1, <4>2
    <3>4. Eq(g, c)
      <4>1. g = [s \in Upto(c) |-> Node(g, s)]
        <5> HIDE DEF Node, Upto
        <5> QED BY <3>3
      <4> QED BY <4>1
    <3> QED BY <3>4
  <2> QED BY <2>1, <2>2
<1>2. PICK f : Eq(f, 8)
  <2>1. 8 \in G
    <3> HIDE DEF G
    <3> QED BY <1>1, CompleteInduction
  <2> QED BY <2>1
<1>3. Upto(8) = B3!Subtrees
  BY DEF B3!Subtrees, B3!MAX_CHUNKS
<1> DEFINE All(f_1) == f_1 = [s \in B3!Subtrees |-> Node(f_1, s)]
           node == CHOOSE f_1 : All(f_1)
<1>4. All(f)
  <2> HIDE DEF Node, Upto
  <2> QED BY <1>2, <1>3
<1>5. All(node)
  <2> HIDE DEF All
  <2> QED BY <1>4
<1>6. \A s : B3!SpecNode(in, n, s) = node[s]
  BY DEF B3!SpecNode
<1>7. node[t] = Node(node, t)
  <2> HIDE DEF node, Node
  <2> QED BY <1>5
<1> HIDE DEF node
<1> QED BY <1>6, <1>7

(* A merge hashes the two subtrees as the specification does.              *)
LEMMA HashParentIsSpec ==
  ASSUME NEW l, NEW r, NEW root
  PROVE  B3!hash_parent(l, r, root) = B3!SpecParent(l, r, root)
BY CompressIsSpec DEF B3!hash_parent, B3!SpecParent, B3!BLOCK_LEN

(* A function of 1 .. m is a sequence of length m, and what is appended to *)
(* it is its value at m + 1.                                               *)
LEMMA FunctionIsSequence ==
  ASSUME NEW m \in Nat, NEW s, s = [j \in 1 .. m |-> s[j]], NEW x
  PROVE  /\ Len(s) = m
         /\ Append(s, x) = [j \in 1 .. m + 1 |-> IF j <= m THEN s[j] ELSE x]
<1> DEFINE S == {s[j] : j \in 1 .. m} \cup {x}
<1>1. s \in [1 .. m -> S]
  BY Zenon
<1> HIDE DEF S
<1>2. s \in Seq(S) /\ Len(s) = m
  BY <1>1
<1>3. x \in S
  BY DEF S
<1>4. /\ Append(s, x) \in Seq(S)
      /\ Len(Append(s, x)) = m + 1
      /\ \A j \in 1 .. m + 1 : Append(s, x)[j] = IF j <= m THEN s[j] ELSE x
  BY <1>2, <1>3
<1>5. Append(s, x) = [j \in 1 .. m + 1 |-> Append(s, x)[j]]
  BY <1>4
<1> QED BY <1>2, <1>4, <1>5

(* The level of a tree over N chunks whose values are those of the         *)
(* subtrees of w chunks, the last of which may have fewer.                 *)
Width(N, w, j) == IF N - (j - 1) * w < w THEN N - (j - 1) * w ELSE w
Nodes(N, w) == (N + w - 1) \div w
Level(in, n, N, w) ==
  [j \in 1 .. Nodes(N, w) |->
     B3!SpecNode(in, n, B3!Subtree((j - 1) * w, Width(N, w, j), IF N <= w THEN B3!ROOT ELSE 0))]

(* How many subtrees of w chunks there are, and which chunks they cover.   *)
LEMMA NodesOfLevel ==
  ASSUME NEW N \in 1 .. 8, NEW w \in {1, 2, 4, 8}
  PROVE  /\ Nodes(N, w) \in 1 .. 8
         /\ \A j \in 1 .. Nodes(N, w) : (j - 1) * w < N /\ Width(N, w, j) \in 1 .. w
         /\ Nodes(N, w) = 1 <=> N <= w
         /\ Nodes(N, w) = 2 <=> w < N /\ N <= 2 * w
<1>1. CASE w = 1
  BY <1>1 DEF Nodes, Width
<1>2. CASE w = 2
  BY <1>2 DEF Nodes, Width
<1>3. CASE w = 4
  BY <1>3 DEF Nodes, Width
<1>4. CASE w = 8
  BY <1>4 DEF Nodes, Width
<1> QED BY <1>1, <1>2, <1>3, <1>4

(* A level of the tree is a sequence of as many values as it has           *)
(* subtrees.                                                               *)
LEMMA LevelIsSequence ==
  ASSUME NEW in, NEW n, NEW N \in 1 .. 8, NEW w \in {1, 2, 4, 8}
  PROVE  Len(Level(in, n, N, w)) = Nodes(N, w)
<1>1. Nodes(N, w) \in Nat
  BY NodesOfLevel
<1> DEFINE s == Level(in, n, N, w)
<1>2. s = [j \in 1 .. Nodes(N, w) |-> s[j]]
  BY DEF Level
<1> HIDE DEF s
<1>3. Len(s) = Nodes(N, w)
  BY <1>1, <1>2, FunctionIsSequence
<1> QED BY <1>3 DEF s

(* The pairs of a level and its odd last value, in numbers.                *)
LEMMA PairsOfLevel ==
  ASSUME NEW N \in 1 .. 8, NEW w \in {1, 2, 4}, w < N
  PROVE  /\ Nodes(N, 2 * w) = Nodes(N, w) \div 2 + (Nodes(N, w) % 2)
         /\ \A j \in 1 .. Nodes(N, w) \div 2 :
              /\ 2 * j - 1 \in 1 .. Nodes(N, w) /\ 2 * j \in 1 .. Nodes(N, w)
              /\ ((2 * j - 1) - 1) * w = (j - 1) * (2 * w)
              /\ Width(N, w, 2 * j - 1) = w
              /\ (2 * j - 1) * w = (j - 1) * (2 * w) + w
              /\ Width(N, 2 * w, j) = w + Width(N, w, 2 * j)
              /\ Width(N, w, 2 * j) \in 1 .. w
              /\ (j - 1) * (2 * w) \in 0 .. 7
              /\ (j - 1) * (2 * w) + Width(N, 2 * w, j) <= 8
         /\ Nodes(N, w) % 2 = 1 =>
              /\ 2 * w < N
              /\ (Nodes(N, w) - 1) * w = (Nodes(N, 2 * w) - 1) * (2 * w)
              /\ Width(N, w, Nodes(N, w)) = Width(N, 2 * w, Nodes(N, 2 * w))
<1> DEFINE k == Nodes(N, w)
<1>1. CASE w = 1
  <2>1. k = N /\ Nodes(N, 2 * w) = (N + 1) \div 2
    BY <1>1 DEF Nodes
  <2> QED BY <1>1, <2>1 DEF Width
<1>2. CASE w = 2
  <2>1. k = (N + 1) \div 2 /\ Nodes(N, 2 * w) = (N + 3) \div 4
    BY <1>2 DEF Nodes
  <2> QED BY <1>2, <2>1 DEF Width
<1>3. CASE w = 4
  <2>1. k = (N + 3) \div 4 /\ Nodes(N, 2 * w) = (N + 7) \div 8
    BY <1>3 DEF Nodes
  <2> QED BY <1>3, <2>1 DEF Width
<1> QED BY <1>1, <1>2, <1>3

(* Two neighbours of a level are the subtrees of one of the next.          *)
LEMMA NeighboursMerge ==
  ASSUME NEW in, NEW n, NEW w \in {1, 2, 4}, NEW v \in 1 .. w,
         NEW first \in 0 .. 7, first + (w + v) <= 8, NEW root \in {0, B3!ROOT}
  PROVE  B3!SpecNode(in, n, B3!Subtree(first, w + v, root)) =
           B3!hash_parent(B3!SpecNode(in, n, B3!Subtree(first, w, 0)),
                          B3!SpecNode(in, n, B3!Subtree(first + w, v, 0)), root)
<1> DEFINE t == B3!Subtree(first, w + v, root)
<1>1. w + v \in 2 .. 8 /\ w + v # 1 /\ (w + v) - w = v
  OBVIOUS
<1>2. t.first = first /\ t.count = w + v /\ t.root = root
  BY DEF B3!Subtree
<1>3. t \in B3!Subtrees
  BY <1>1 DEF B3!Subtree, B3!Subtrees, B3!MAX_CHUNKS
<1>4. B3!LeftChunks(w + v) = w
  BY <1>1, LeftChunksSplit
<1> HIDE DEF t
<1>5. B3!SpecNode(in, n, t) =
        B3!SpecParent(B3!SpecNode(in, n, B3!Subtree(first, w, 0)),
                      B3!SpecNode(in, n, B3!Subtree(first + w, v, 0)), root)
  BY <1>1, <1>2, <1>3, <1>4, SpecNodeEquation
<1> QED BY <1>5, HashParentIsSpec DEF t

(* Merging a level makes the next one: pairs become subtrees of twice the  *)
(* chunks, an odd last value is one already, and only the last merge is    *)
(* flagged as the root.                                                    *)
LEMMA MergeLevelIsLevel ==
  ASSUME NEW in, NEW n, NEW N \in 1 .. 8, NEW w \in {1, 2, 4}, w < N
  PROVE  B3!MergeLevel(Level(in, n, N, w)) = Level(in, n, N, 2 * w)
<1> DEFINE s == Level(in, n, N, w)
           k == Nodes(N, w)
           next == Level(in, n, N, 2 * w)
           root == IF k = 2 THEN B3!ROOT ELSE 0
           merged == [j \in 1 .. k \div 2 |-> B3!hash_parent(s[2 * j - 1], s[2 * j], root)]
<1>1. k \in Nat /\ Len(s) = k
  BY NodesOfLevel, LevelIsSequence
<1>2. root = (IF N <= 2 * w THEN B3!ROOT ELSE 0) /\ root \in {0, B3!ROOT}
  BY NodesOfLevel
<1>3. ASSUME NEW j \in 1 .. k
      PROVE  s[j] = B3!SpecNode(in, n, B3!Subtree((j - 1) * w, Width(N, w, j), 0))
  BY DEF Level
<1>4. Nodes(N, 2 * w) = k \div 2 + (k % 2)
  BY PairsOfLevel
<1>5. next = [j \in 1 .. Nodes(N, 2 * w) |->
                B3!SpecNode(in, n, B3!Subtree((j - 1) * (2 * w), Width(N, 2 * w, j), root))]
  BY <1>2 DEF Level
<1>6. B3!MergeLevel(s) = IF k % 2 = 1 THEN Append(merged, s[k]) ELSE merged
  BY <1>1 DEF B3!MergeLevel
<1> HIDE DEF root
<1>7. ASSUME NEW j \in 1 .. k \div 2
      PROVE  B3!hash_parent(s[2 * j - 1], s[2 * j], root) =
               B3!SpecNode(in, n, B3!Subtree((j - 1) * (2 * w), Width(N, 2 * w, j), root))
  <2> DEFINE first == (j - 1) * (2 * w)
             v == Width(N, w, 2 * j)
  <2>1. /\ 2 * j - 1 \in 1 .. k /\ 2 * j \in 1 .. k
        /\ ((2 * j - 1) - 1) * w = first
        /\ Width(N, w, 2 * j - 1) = w
        /\ (2 * j - 1) * w = first + w
        /\ Width(N, 2 * w, j) = w + v
        /\ v \in 1 .. w
        /\ first \in 0 .. 7
        /\ first + (w + v) <= 8
    BY PairsOfLevel
  <2> HIDE DEF first, v, k
  <2>2. s[2 * j - 1] = B3!SpecNode(in, n, B3!Subtree(first, w, 0))
    <3>1. s[2 * j - 1] = B3!SpecNode(in, n, B3!Subtree(((2 * j - 1) - 1) * w,
                                                      Width(N, w, 2 * j - 1), 0))
      BY <1>3, <2>1
    <3> QED BY <2>1, <3>1
  <2>3. s[2 * j] = B3!SpecNode(in, n, B3!Subtree(first + w, v, 0))
    <3>1. s[2 * j] = B3!SpecNode(in, n, B3!Subtree((2 * j - 1) * w, Width(N, w, 2 * j), 0))
      BY <1>3, <2>1
    <3> QED BY <2>1, <3>1 DEF v
  <2>4. B3!SpecNode(in, n, B3!Subtree(first, w + v, root)) =
          B3!hash_parent(B3!SpecNode(in, n, B3!Subtree(first, w, 0)),
                         B3!SpecNode(in, n, B3!Subtree(first + w, v, 0)), root)
    BY <1>2, <2>1, NeighboursMerge
  <2> QED BY <2>1, <2>2, <2>3, <2>4 DEF first
<1>8. CASE k % 2 = 1
  <2>1. /\ 2 * w < N
        /\ (k - 1) * w = (Nodes(N, 2 * w) - 1) * (2 * w)
        /\ Width(N, w, k) = Width(N, 2 * w, Nodes(N, 2 * w))
    BY <1>8, PairsOfLevel
  <2>2. root = 0
    BY <1>2, <2>1
  <2>3. k \in 1 .. k /\ Nodes(N, 2 * w) = k \div 2 + 1 /\ k \div 2 \in Nat
    BY <1>1, <1>4, <1>8
  <2>4. s[k] = B3!SpecNode(in, n, B3!Subtree((Nodes(N, 2 * w) - 1) * (2 * w),
                                            Width(N, 2 * w, Nodes(N, 2 * w)), root))
    <3> HIDE DEF s, k
    <3>1. s[k] = B3!SpecNode(in, n, B3!Subtree((k - 1) * w, Width(N, w, k), 0))
      BY <1>3, <2>3
    <3> QED BY <2>1, <2>2, <3>1
  <2>5. Append(merged, s[k]) =
          [j \in 1 .. k \div 2 + 1 |-> IF j <= k \div 2 THEN merged[j] ELSE s[k]]
    <3>1. merged = [j \in 1 .. k \div 2 |-> merged[j]]
      OBVIOUS
    <3> HIDE DEF merged
    <3> QED BY <2>3, <3>1, FunctionIsSequence
  <2>6. ASSUME NEW j \in 1 .. k \div 2 + 1
        PROVE  (IF j <= k \div 2 THEN merged[j] ELSE s[k]) =
                 B3!SpecNode(in, n, B3!Subtree((j - 1) * (2 * w), Width(N, 2 * w, j), root))
    <3>1. CASE j <= k \div 2
      <4> j \in 1 .. k \div 2
        BY <2>3, <3>1
      <4> QED BY <1>7, <3>1
    <3>2. CASE ~ (j <= k \div 2)
      <4> j = Nodes(N, 2 * w)
        BY <2>3, <3>2
      <4> QED BY <2>4, <3>2
    <3> QED BY <3>1, <3>2
  <2> HIDE DEF next, merged, s, k
  <2>7. Append(merged, s[k]) = next
    BY <1>5, <2>3, <2>5, <2>6
  <2> QED BY <1>6, <1>8, <2>7 DEF s, next
<1>9. CASE k % 2 # 1
  <2>1. Nodes(N, 2 * w) = k \div 2
    BY <1>1, <1>4, <1>9
  <2>2. merged = next
    <3> HIDE DEF s, k, next
    <3> QED BY <1>5, <1>7, <2>1
  <2> QED BY <1>6, <1>9, <2>2
<1> QED BY <1>8, <1>9

(* One turn of the while loop over the levels. *)
NextLevel(l) == IF Len(l) > 1 THEN B3!MergeLevel(l) ELSE l

(* The while loop over the levels. *)
LEMMA MergeTreeChain ==
  ASSUME NEW level
  PROVE  \E f : /\ f[0] = level
                /\ \A i \in 0 .. 7 : f[i + 1] = NextLevel(f[i])
                /\ B3!MergeTree(level) = f[8][1]
<1> DEFINE Eq(fn, top) == fn = [i \in 0 .. top |->
             IF i = 0 THEN level
             ELSE NextLevel(fn[i - 1])]
           G == {top \in Nat : \E fn : Eq(fn, top)}
<1>1. ASSUME NEW top \in Nat, \A low \in 0 .. top - 1 : low \in G PROVE top \in G
  <2>1. CASE top = 0
    <3>1. Eq([i \in 0 .. top |-> level], top)
      BY <2>1
    <3> QED BY <3>1
  <2>2. CASE top # 0
    <3>1. PICK f : Eq(f, top - 1)
      <4>1. top - 1 \in 0 .. top - 1
        BY <2>2
      <4> HIDE DEF Eq, G
      <4>2. top - 1 \in G
        BY <1>1, <4>1
      <4> QED BY <4>2 DEF G
    <3> DEFINE g == [i \in 0 .. top |->
                     IF i = top THEN NextLevel(f[top - 1]) ELSE f[i]]
    <3>2. Eq(g, top)
      BY <2>2, <3>1
    <3> QED BY <3>2
  <2> QED BY <2>1, <2>2
<1>2. PICK f : Eq(f, 8)
  <2>1. 8 \in G
    BY <1>1, CompleteInduction
  <2> QED BY <2>1
<1> DEFINE h == CHOOSE fn : Eq(fn, 8)
<1>3. Eq(h, 8)
  BY <1>2
<1>4. B3!MergeTree(level) = h[8][1]
  BY DEF NextLevel, B3!MergeTree, B3!MAX_CHUNKS, B3!While, B3!Iterate, B3!Then
<1> HIDE DEF h
<1>5. h[0] = level /\ \A i \in 0 .. 7 : h[i + 1] = NextLevel(h[i])
  BY <1>3
<1> QED BY <1>4, <1>5

(* The levels merged one after the other end with the root of the tree.    *)
LEMMA MergeTreeIsRoot ==
  ASSUME NEW in, NEW n, NEW N \in 1 .. 8
  PROVE  B3!MergeTree(Level(in, n, N, 1)) = B3!SpecNode(in, n, B3!Subtree(0, N, B3!ROOT))
<1>1. PICK f : /\ f[0] = Level(in, n, N, 1)
               /\ \A i \in 0 .. 7 :
                    f[i + 1] = NextLevel(f[i])
               /\ B3!MergeTree(Level(in, n, N, 1)) = f[8][1]
  BY MergeTreeChain
<1> DEFINE At(i, w) == f[i] = Level(in, n, N, w)
           Ends(i) == \E w \in {1, 2, 4, 8} : N <= w /\ At(i, w)
<1>2. ASSUME NEW i \in 0 .. 7, NEW w \in {1, 2, 4}, At(i, w), w < N PROVE At(i + 1, 2 * w)
  <2>1. w \in {1, 2, 4, 8}
    OBVIOUS
  <2>2. Nodes(N, w) > 1
    BY <1>2, <2>1, NodesOfLevel
  <2>3. Len(f[i]) = Nodes(N, w)
    BY <1>2, <2>1, LevelIsSequence
  <2>4. f[i + 1] = B3!MergeLevel(f[i])
    BY <1>1, <2>2, <2>3 DEF NextLevel
  <2> QED BY <1>2, <2>4, MergeLevelIsLevel
<1>3. ASSUME NEW i \in 0 .. 7, Ends(i) PROVE Ends(i + 1)
  <2>1. PICK w \in {1, 2, 4, 8} : N <= w /\ At(i, w)
    BY <1>3
  <2>2. Len(f[i]) = 1
    <3>1. Nodes(N, w) = 1
      BY <2>1, NodesOfLevel
    <3>2. Len(f[i]) = Nodes(N, w)
      BY <2>1, LevelIsSequence
    <3> QED BY <3>1, <3>2
  <2>3. f[i + 1] = f[i]
    <3>1. f[i + 1] = NextLevel(f[i])
      BY <1>1
    <3>2. ~ (Len(f[i]) > 1)
      BY <2>2
    <3> QED BY <3>1, <3>2 DEF NextLevel
  <2> QED BY <2>1, <2>3
<1> HIDE DEF At
<1>4. At(0, 1)
  BY <1>1 DEF At
<1>5. Ends(1) \/ (1 < N /\ At(1, 2))
  <2>1. CASE N <= 1
    <3>1. Ends(0)
      BY <1>4, <2>1
    <3>2. Ends(0 + 1)
      BY <1>3, <3>1
    <3> QED BY <3>2
  <2>2. CASE 1 < N
    <3>1. At(0 + 1, 2 * 1)
      BY <1>2, <1>4, <2>2
    <3> QED BY <2>2, <3>1
  <2> QED BY <2>1, <2>2
<1>6. Ends(2) \/ (2 < N /\ At(2, 4))
  <2>1. CASE Ends(1)
    <3>1. Ends(1 + 1)
      BY <1>3, <2>1
    <3> QED BY <3>1
  <2>2. CASE At(1, 2) /\ N <= 2
    <3>1. Ends(1)
      BY <2>2
    <3>2. Ends(1 + 1)
      BY <1>3, <3>1
    <3> QED BY <3>2
  <2>3. CASE At(1, 2) /\ 2 < N
    <3>1. At(1 + 1, 2 * 2)
      BY <1>2, <2>3
    <3> QED BY <2>3, <3>1
  <2> QED BY <1>5, <2>1, <2>2, <2>3
<1>7. Ends(3)
  <2>1. CASE Ends(2)
    <3>1. Ends(2 + 1)
      BY <1>3, <2>1
    <3> QED BY <3>1
  <2>2. CASE At(2, 4) /\ N <= 4
    <3>1. Ends(2)
      BY <2>2
    <3>2. Ends(2 + 1)
      BY <1>3, <3>1
    <3> QED BY <3>2
  <2>3. CASE At(2, 4) /\ 4 < N
    <3>1. At(2 + 1, 2 * 4)
      BY <1>2, <2>3
    <3> QED BY <3>1
  <2> QED BY <1>6, <2>1, <2>2, <2>3
<1>8. Ends(8)
  <2> HIDE DEF Ends
  <2>1. Ends(3 + 1)
    BY <1>3, <1>7
  <2>2. Ends(4 + 1)
    BY <1>3, <2>1
  <2>3. Ends(5 + 1)
    BY <1>3, <2>2
  <2>4. Ends(6 + 1)
    BY <1>3, <2>3
  <2>5. Ends(7 + 1)
    BY <1>3, <2>4
  <2> QED BY <2>5
<1>9. PICK w \in {1, 2, 4, 8} : N <= w /\ f[8] = Level(in, n, N, w)
  BY <1>8 DEF At
<1>10. Nodes(N, w) = 1 /\ Width(N, w, 1) = N /\ (1 - 1) * w = 0
  BY <1>9, NodesOfLevel DEF Width
<1>11. f[8][1] = B3!SpecNode(in, n, B3!Subtree((1 - 1) * w, Width(N, w, 1), B3!ROOT))
  BY <1>9, <1>10 DEF Level
<1> QED BY <1>1, <1>10, <1>11

(* The chunks of n bytes, at most eight of them: each starts before the    *)
(* end of the input, and only the last may be shorter.                     *)
LEMMA ChunkOffsets ==
  ASSUME NEW c \in Nat, c > 0, NEW n \in Nat, n > 0, NEW N \in Nat, N = (n + c - 1) \div c
  PROVE  N >= 1 /\ \A i \in 0 .. N - 1 : i * c < n
<1>1. N * c <= n + c - 1 /\ n + c - 1 < N * c + c
  <2> DEFINE q == (n + c - 1) \div c
  <2>1. n + c - 1 \in Nat
    OBVIOUS
  <2>2. q \in Nat /\ q * c <= n + c - 1 /\ n + c - 1 < q * c + c
    BY <2>1
  <2> QED BY <2>2
<1>2. N # 0
  BY <1>1
<1>3. ASSUME NEW i \in 0 .. N - 1 PROVE i * c < n
  <2>1. i + 1 <= N /\ i \in Nat
    OBVIOUS
  <2>2. (i + 1) * c <= N * c
    BY <2>1
  <2>3. (i + 1) * c = i * c + c
    BY <2>1
  <2>4. i * c \in Nat /\ N * c \in Nat
    BY <2>1
  <2> QED BY <1>1, <2>2, <2>3, <2>4
<1> QED BY <1>2, <1>3

(* An input of at most eight chunk lengths has at most eight chunks.       *)
LEMMA AtMostEightChunks ==
  ASSUME NEW c \in Nat, c > 0, NEW n \in Nat, n <= 8 * c
  PROVE  (n + c - 1) \div c <= 8
<1> DEFINE q == (n + c - 1) \div c
<1>1. n + c - 1 \in Nat
  OBVIOUS
<1>2. q \in Nat /\ q * c <= n + c - 1
  BY <1>1
<1>3. SUFFICES ASSUME q >= 9 PROVE FALSE
  BY <1>2
<1>4. 9 * c <= q * c
  BY <1>2, <1>3
<1> QED BY <1>2, <1>4

(* The chunks of an input are at most eight, and each starts within the    *)
(* input.                                                                  *)
LEMMA ChunksOfInput ==
  ASSUME NEW n \in Nat, n <= B3!MAX_CHUNKS * B3!CHUNK_LEN
  PROVE  /\ B3!CHUNK_LEN \in Nat /\ B3!CHUNK_LEN > 0
         /\ B3!Chunks(n) \in 1 .. 8
         /\ \A i \in 0 .. B3!Chunks(n) - 1 : i * B3!CHUNK_LEN <= n
<1> DEFINE c == B3!CHUNK_LEN
<1>1. c \in Nat /\ c > 0
  BY SizesAssumption DEF B3!CHUNK_LEN, B3!BLOCK_LEN
<1> HIDE DEF c
<1>2. CASE n = 0
  <2>1. B3!Chunks(n) = 1
    BY <1>2 DEF B3!Chunks
  <2> QED BY <1>1, <1>2, <2>1 DEF c
<1>3. CASE n > 0
  <2> DEFINE N == (n + c - 1) \div c
  <2>1. B3!Chunks(n) = N
    BY <1>3 DEF B3!Chunks, c
  <2>2. N \in Nat
    BY <1>1, <1>3
  <2>3. N <= 8
    BY <1>1, AtMostEightChunks DEF c, B3!MAX_CHUNKS
  <2>4. N >= 1 /\ \A i \in 0 .. N - 1 : i * c < n
    <3> HIDE DEF N
    <3>1. N = (n + c - 1) \div c
      BY DEF N
    <3> QED BY <1>1, <1>3, <2>2, <3>1, ChunkOffsets
  <2> HIDE DEF N
  <2>5. ASSUME NEW i \in 0 .. N - 1 PROVE i * c <= n
    <3>1. i * c \in Nat /\ i * c < n
      BY <1>1, <2>2, <2>4
    <3> QED BY <3>1
  <2> QED BY <1>1, <2>1, <2>2, <2>3, <2>4, <2>5 DEF c
<1> QED BY <1>2, <1>3

(* BLAKE3 of the code is BLAKE3 of the specification, for every input of   *)
(* every length up to eight chunks.                                        *)
LEMMA Blake3IsSpec ==
  ASSUME NEW in, NEW n \in Nat
  PROVE  B3!blake3_256(in, n) = IF n > B3!MAX_CHUNKS * B3!CHUNK_LEN THEN -1 ELSE B3!SpecHash(in, n)
<1>1. CASE n > B3!MAX_CHUNKS * B3!CHUNK_LEN
  BY <1>1 DEF B3!blake3_256
<1>2. CASE ~ (n > B3!MAX_CHUNKS * B3!CHUNK_LEN)
  <2> DEFINE c == B3!CHUNK_LEN
             N == B3!Chunks(n)
             extra == IF N = 1 THEN B3!ROOT ELSE 0
             size(i) == IF n - i * c > c THEN c ELSE n - i * c
             level == [i \in 1 .. N |-> B3!hash_chunk(in, (i - 1) * c, size(i - 1), i - 1, extra)]
  <2>1. n <= B3!MAX_CHUNKS * c
    <3>1. c \in Nat
      BY SizesAssumption DEF B3!CHUNK_LEN, B3!BLOCK_LEN
    <3> QED BY <1>2, <3>1 DEF B3!MAX_CHUNKS
  <2>2. /\ c \in Nat /\ c > 0 /\ N \in 1 .. 8
        /\ \A i \in 0 .. N - 1 : i * c <= n
    BY <2>1, ChunksOfInput
  <2>3. B3!blake3_256(in, n) = B3!MergeTree(level)
    BY <1>2 DEF B3!blake3_256, B3!Chunks
  <2> HIDE DEF c, N
  <2>4. Nodes(N, 1) = N
    BY <2>2 DEF Nodes
  <2>5. ASSUME NEW i \in 1 .. N
        PROVE  B3!hash_chunk(in, (i - 1) * c, size(i - 1), i - 1, extra) =
                 B3!SpecNode(in, n, B3!Subtree((i - 1) * 1, Width(N, 1, i),
                                               IF N <= 1 THEN B3!ROOT ELSE 0))
    <3> DEFINE k == i - 1
               t == B3!Subtree(k, 1, extra)
    <3>1. k \in 0 .. N - 1 /\ k \in 0 .. 7 /\ k * c \in Nat /\ k * c <= n
      BY <2>2
    <3>2. (i - 1) * 1 = k /\ Width(N, 1, i) = 1 /\ extra = IF N <= 1 THEN B3!ROOT ELSE 0
      BY <2>2 DEF Width
    <3>3. (k + 1) * c = k * c + c
      BY <2>2, <3>1
    <3> HIDE DEF k
    <3>4. size(k) = (IF n > (k + 1) * c THEN c ELSE n - k * c) /\ size(k) \in Nat
      BY <2>2, <3>1, <3>3
    <3>5. t.first = k /\ t.count = 1 /\ t.root = extra /\ t \in B3!Subtrees
      BY <3>1 DEF B3!Subtree, B3!Subtrees, B3!MAX_CHUNKS
    <3>6. B3!SpecNode(in, n, t) = B3!SpecLeaf(in, n, k, extra)
      <4> HIDE DEF t, extra
      <4> QED BY <3>5, SpecNodeEquation
    <3>7. B3!SpecLeaf(in, n, k, extra) = B3!SpecChunk(in, k * c, size(k), k, extra)
      BY <3>4 DEF B3!SpecLeaf, c
    <3>8. B3!hash_chunk(in, k * c, size(k), k, extra) = B3!SpecChunk(in, k * c, size(k), k, extra)
      <4> HIDE DEF size, extra
      <4> QED BY <3>4, HashChunkIsSpec
    <3> QED BY <3>2, <3>6, <3>7, <3>8 DEF k
  <2>6. level = Level(in, n, N, 1)
    <3> HIDE DEF size, extra
    <3> QED BY <2>4, <2>5 DEF Level
  <2>7. B3!MergeTree(level) = B3!SpecNode(in, n, B3!Subtree(0, N, B3!ROOT))
    <3> HIDE DEF level
    <3> QED BY <2>2, <2>6, MergeTreeIsRoot
  <2> QED BY <1>2, <2>3, <2>7 DEF B3!SpecHash, N
<1> QED BY <1>1, <1>2

(* What is known of a call of blake3_256. *)
Blake3Inv ==
  call # Idle /\ call.of = "blake3_256" =>
    /\ call.args \in Blake3Lengths
    /\ "result" \in DOMAIN call => call.result = B3!blake3_256(Pattern(WordBits \div 4), call.args)

(* A call keeps its length and returns what the algorithm computes. *)
LEMMA Blake3Invariance == Spec => []Blake3Inv
<1>1. Init => Blake3Inv
  BY DEF Init, Blake3Inv
<1>2. ASSUME Blake3Inv, [Next]_call PROVE Blake3Inv'
  <2>1. CASE CallBlake3
    <3>1. PICK n \in Blake3Lengths : call' = [of |-> "blake3_256", args |-> n]
      BY <2>1 DEF CallBlake3, Call
    <3> QED BY <3>1 DEF Blake3Inv
  <2>2. CASE ReturnBlake3
    <3>1. call.args \in Blake3Lengths
      BY <1>2, <2>2 DEF Blake3Inv, ReturnBlake3, Called
    <3>2. call' = [of |-> call.of, args |-> call.args,
                   result |-> B3!blake3_256(Pattern(WordBits \div 4), call.args)]
      BY <2>2 DEF ReturnBlake3, Returns
    <3>3. /\ call'.args = call.args
          /\ call'.result = B3!blake3_256(Pattern(WordBits \div 4), call.args)
      BY <3>2
    <3> QED BY <3>1, <3>3 DEF Blake3Inv
  <2>3. CASE NotOf("blake3_256")
    BY <2>3 DEF NotOf, Blake3Inv
  <2>4. CASE UNCHANGED call
    BY <1>2, <2>4 DEF Blake3Inv
  <2> QED BY <1>2, <2>1, <2>2, <2>3, <2>4, StepsOfOne
<1> QED BY <1>1, <1>2, PTL DEF Spec

(* The level-by-level merge hashes the tree of the specification, for inputs *)
(* of every length; those beyond eight chunks are refused.                  *)
THEOREM Blake3HashesTheWholeTree == Spec => []Blake3HashesTheTree
<1>1. Blake3Inv => Blake3HashesTheTree
  <2> SUFFICES ASSUME Blake3Inv, Returned("blake3_256") PROVE Blake3HashesTheTree
    BY DEF Blake3HashesTheTree
  <2>1. call.args \in Blake3Lengths /\ call.result = B3!blake3_256(Pattern(WordBits \div 4), call.args)
    BY DEF Blake3Inv, Returned
  <2>2. call.args \in Nat
    BY <2>1, SizesAssumption
  <2> QED BY <2>1, <2>2, Blake3IsSpec DEF Blake3HashesTheTree
<1> QED BY <1>1, Blake3Invariance, PTL

-----------------------------------------------------------------------------
(* The stream of tweetnacl.c *)

(* What holds of 0 and, below n, of the next of each number holds of n.    *)
LEMMA StepsUpTo ==
  ASSUME NEW n \in Nat, NEW G, 0 \in G, \A i \in 0 .. n - 1 : i \in G => i + 1 \in G
  PROVE  n \in G
<1> DEFINE H == {m \in Nat : m <= n => m \in G}
<1>1. ASSUME NEW m \in Nat, \A l \in 0 .. m - 1 : l \in H PROVE m \in H
  <2>1. CASE m = 0
    BY <2>1
  <2>2. CASE m # 0 /\ m <= n
    <3>1. m - 1 \in 0 .. m - 1 /\ m - 1 \in 0 .. n - 1 /\ m - 1 <= n /\ (m - 1) + 1 = m
      BY <2>2
    <3>2. m - 1 \in G
      BY <1>1, <3>1
    <3> QED BY <3>1, <3>2
  <2> QED BY <2>1, <2>2
<1> HIDE DEF H
<1>2. n \in H
  BY <1>1, CompleteInduction
<1> QED BY <1>2 DEF H

(* The rounds of core. *)
LEMMA TurnsChain ==
  ASSUME NEW y
  PROVE  \E f : /\ f[0] = y
                /\ \A i \in 0 .. 19 : f[i + 1] = Salsa!Turn(f[i], i)
                /\ Salsa!Turns(y) = f[20]
<1> DEFINE Eq(fn, top) == fn = [i \in 0 .. top |->
             IF i = 0 THEN y
             ELSE Salsa!Turn(fn[i - 1], i - 1)]
           G == {top \in Nat : \E fn : Eq(fn, top)}
<1>1. ASSUME NEW top \in Nat, \A low \in 0 .. top - 1 : low \in G PROVE top \in G
  <2>1. CASE top = 0
    <3>1. Eq([i \in 0 .. top |-> y], top)
      BY <2>1
    <3> QED BY <3>1
  <2>2. CASE top # 0
    <3>1. PICK f : Eq(f, top - 1)
      <4>1. top - 1 \in 0 .. top - 1
        BY <2>2
      <4> HIDE DEF Eq, G
      <4>2. top - 1 \in G
        BY <1>1, <4>1
      <4> QED BY <4>2 DEF G
    <3> DEFINE g == [i \in 0 .. top |->
                     IF i = top THEN Salsa!Turn(f[top - 1], top - 1) ELSE f[i]]
    <3>2. Eq(g, top)
      BY <2>2, <3>1
    <3> QED BY <3>2
  <2> QED BY <2>1, <2>2
<1>2. PICK f : Eq(f, 20)
  <2>1. 20 \in G
    BY <1>1, CompleteInduction, Zenon
  <2> QED BY <2>1
<1> DEFINE h == CHOOSE fn : Eq(fn, 20)
<1>3. Eq(h, 20)
  BY <1>2, Zenon
<1>4. Salsa!Turns(y) = h[20]
  BY DEF Salsa!Turns, Salsa!Iterate, Salsa!Then
<1> HIDE DEF h
<1>5. h[0] = y /\ \A i \in 0 .. 19 : h[i + 1] = Salsa!Turn(h[i], i)
  BY <1>3
<1> QED BY <1>4, <1>5

(* The rounds of the definition. *)
LEMMA SalsaRoundsChain ==
  ASSUME NEW in, NEW k
  PROVE  \E f : /\ f[0] = Salsa!StartMatrix(in, k, Salsa!sigma)
                /\ \A i \in 0 .. 19 : f[i + 1] = Salsa!Round(f[i], i)
                /\ Salsa!SpecRounds(in, k) = f[20]
<1> DEFINE Eq(fn, top) == fn = [i \in 0 .. top |->
             IF i = 0 THEN Salsa!StartMatrix(in, k, Salsa!sigma)
             ELSE Salsa!Round(fn[i - 1], i - 1)]
           G == {top \in Nat : \E fn : Eq(fn, top)}
<1>1. ASSUME NEW top \in Nat, \A low \in 0 .. top - 1 : low \in G PROVE top \in G
  <2>1. CASE top = 0
    <3>1. Eq([i \in 0 .. top |-> Salsa!StartMatrix(in, k, Salsa!sigma)], top)
      BY <2>1
    <3> QED BY <3>1
  <2>2. CASE top # 0
    <3>1. PICK f : Eq(f, top - 1)
      <4>1. top - 1 \in 0 .. top - 1
        BY <2>2
      <4> HIDE DEF Eq, G
      <4>2. top - 1 \in G
        BY <1>1, <4>1
      <4> QED BY <4>2 DEF G
    <3> DEFINE g == [i \in 0 .. top |->
                     IF i = top THEN Salsa!Round(f[top - 1], top - 1) ELSE f[i]]
    <3>2. Eq(g, top)
      BY <2>2, <3>1
    <3> QED BY <3>2
  <2> QED BY <2>1, <2>2
<1>2. PICK f : Eq(f, 20)
  <2>1. 20 \in G
    BY <1>1, CompleteInduction, Zenon
  <2> QED BY <2>1
<1> DEFINE h == CHOOSE fn : Eq(fn, 20)
<1>3. Eq(h, 20)
  BY <1>2, Zenon
<1>4. Salsa!SpecRounds(in, k) = h[20]
  BY DEF Salsa!SpecRounds, Salsa!Iterate, Salsa!Then
<1> HIDE DEF h
<1>5. h[0] = Salsa!StartMatrix(in, k, Salsa!sigma) /\ \A i \in 0 .. 19 : h[i + 1] = Salsa!Round(h[i], i)
  BY <1>3
<1> QED BY <1>4, <1>5

(* A round of columns. *)
LEMMA ColumnRoundChain ==
  ASSUME NEW x, NEW r, r % 2 = 0
  PROVE  \E f : /\ f[0] = x
                /\ \A i \in 0 .. 3 : f[i + 1] = Salsa!Column(f[i], i)
                /\ Salsa!Round(x, r) = f[4]
<1> DEFINE Eq(fn, top) == fn = [i \in 0 .. top |->
             IF i = 0 THEN x
             ELSE Salsa!Column(fn[i - 1], i - 1)]
           G == {top \in Nat : \E fn : Eq(fn, top)}
<1>1. ASSUME NEW top \in Nat, \A low \in 0 .. top - 1 : low \in G PROVE top \in G
  <2>1. CASE top = 0
    <3>1. Eq([i \in 0 .. top |-> x], top)
      BY <2>1
    <3> QED BY <3>1
  <2>2. CASE top # 0
    <3>1. PICK f : Eq(f, top - 1)
      <4>1. top - 1 \in 0 .. top - 1
        BY <2>2
      <4> HIDE DEF Eq, G
      <4>2. top - 1 \in G
        BY <1>1, <4>1
      <4> QED BY <4>2 DEF G
    <3> DEFINE g == [i \in 0 .. top |->
                     IF i = top THEN Salsa!Column(f[top - 1], top - 1) ELSE f[i]]
    <3>2. Eq(g, top)
      BY <2>2, <3>1
    <3> QED BY <3>2
  <2> QED BY <2>1, <2>2
<1>2. PICK f : Eq(f, 4)
  <2>1. 4 \in G
    BY <1>1, CompleteInduction
  <2> QED BY <2>1
<1> DEFINE h == CHOOSE fn : Eq(fn, 4)
<1>3. Eq(h, 4)
  BY <1>2
<1>4. Salsa!Round(x, r) = h[4]
  BY DEF Salsa!Round, Salsa!Iterate, Salsa!Then
<1> HIDE DEF h
<1>5. h[0] = x /\ \A i \in 0 .. 3 : h[i + 1] = Salsa!Column(h[i], i)
  BY <1>3
<1> QED BY <1>4, <1>5

(* A round of rows. *)
LEMMA RowRoundChain ==
  ASSUME NEW x, NEW r, r % 2 # 0
  PROVE  \E f : /\ f[0] = x
                /\ \A i \in 0 .. 3 : f[i + 1] = Salsa!Row(f[i], i)
                /\ Salsa!Round(x, r) = f[4]
<1> DEFINE Eq(fn, top) == fn = [i \in 0 .. top |->
             IF i = 0 THEN x
             ELSE Salsa!Row(fn[i - 1], i - 1)]
           G == {top \in Nat : \E fn : Eq(fn, top)}
<1>1. ASSUME NEW top \in Nat, \A low \in 0 .. top - 1 : low \in G PROVE top \in G
  <2>1. CASE top = 0
    <3>1. Eq([i \in 0 .. top |-> x], top)
      BY <2>1
    <3> QED BY <3>1
  <2>2. CASE top # 0
    <3>1. PICK f : Eq(f, top - 1)
      <4>1. top - 1 \in 0 .. top - 1
        BY <2>2
      <4> HIDE DEF Eq, G
      <4>2. top - 1 \in G
        BY <1>1, <4>1
      <4> QED BY <4>2 DEF G
    <3> DEFINE g == [i \in 0 .. top |->
                     IF i = top THEN Salsa!Row(f[top - 1], top - 1) ELSE f[i]]
    <3>2. Eq(g, top)
      BY <2>2, <3>1
    <3> QED BY <3>2
  <2> QED BY <2>1, <2>2
<1>2. PICK f : Eq(f, 4)
  <2>1. 4 \in G
    BY <1>1, CompleteInduction
  <2> QED BY <2>1
<1> DEFINE h == CHOOSE fn : Eq(fn, 4)
<1>3. Eq(h, 4)
  BY <1>2
<1>4. Salsa!Round(x, r) = h[4]
  BY DEF Salsa!Round, Salsa!Iterate, Salsa!Then
<1> HIDE DEF h
<1>5. h[0] = x /\ \A i \in 0 .. 3 : h[i + 1] = Salsa!Row(h[i], i)
  BY <1>3
<1> QED BY <1>4, <1>5

(* A matrix of sixteen words, and the four words a quarter round makes of  *)
(* four.                                                                   *)
IsMatrix(x) == x = [p \in 0 .. 15 |-> x[p]]
Mixed(t0, t1, t2, t3) ==
  LET z1 == Salsa!XOR(t1, Salsa!Rotl(Salsa!Add(t0, t3), 7))
      z2 == Salsa!XOR(t2, Salsa!Rotl(Salsa!Add(z1, t0), 9))
      z3 == Salsa!XOR(t3, Salsa!Rotl(Salsa!Add(z2, z1), 13))
      z0 == Salsa!XOR(t0, Salsa!Rotl(Salsa!Add(z3, z2), 18))
  IN  <<z0, z1, z2, z3>>
MixedAt(x, P, j) == Mixed(x[P[j][0]], x[P[j][1]], x[P[j][2]], x[P[j][3]])

MixedIn(x, y, a, b, c, d, z) ==
  /\ IsMatrix(y)
  /\ y[a] = z[1] /\ y[b] = z[2] /\ y[c] = z[3] /\ y[d] = z[4]
  /\ \A p \in 0 .. 15 \ {a, b, c, d} : y[p] = x[p]
(* quarterround() of the definition writes the four mixed words and        *)
(* leaves the twelve others alone.                                         *)
LEMMA QuarterIsMixed ==
  ASSUME NEW x, NEW a \in 0 .. 15, NEW b \in 0 .. 15, NEW c \in 0 .. 15, NEW d \in 0 .. 15,
         a # b, a # c, a # d, b # c, b # d, c # d, IsMatrix(x)
  PROVE  MixedIn(x, Salsa!quarterround(x, a, b, c, d), a, b, c, d,
                 Mixed(x[a], x[b], x[c], x[d]))
<1> DEFINE z1 == Salsa!XOR(x[b], Salsa!Rotl(Salsa!Add(x[a], x[d]), 7))
           z2 == Salsa!XOR(x[c], Salsa!Rotl(Salsa!Add(z1, x[a]), 9))
           z3 == Salsa!XOR(x[d], Salsa!Rotl(Salsa!Add(z2, z1), 13))
           z0 == Salsa!XOR(x[a], Salsa!Rotl(Salsa!Add(z3, z2), 18))
           y == [x EXCEPT ![a] = z0, ![b] = z1, ![c] = z2, ![d] = z3]
           z == Mixed(x[a], x[b], x[c], x[d])
<1>1. Salsa!quarterround(x, a, b, c, d) = y
  BY DEF Salsa!quarterround
<1>2. z = <<z0, z1, z2, z3>>
  BY DEF Mixed
<1> HIDE DEF z0, z1, z2, z3, z
<1>3. IsMatrix(y)
  BY DEF IsMatrix
<1>4. y[a] = z0 /\ y[b] = z1 /\ y[c] = z2 /\ y[d] = z3
  BY DEF IsMatrix
<1>5. ASSUME NEW p \in 0 .. 15 \ {a, b, c, d} PROVE y[p] = x[p]
  BY DEF IsMatrix
<1> HIDE DEF y
<1>6. z[1] = z0 /\ z[2] = z1 /\ z[3] = z2 /\ z[4] = z3
  BY <1>2
<1>7. MixedIn(x, y, a, b, c, d, z)
  BY <1>3, <1>4, <1>5, <1>6 DEF MixedIn
<1> QED BY <1>1, <1>7 DEF z

(* Four disjoint groups of four positions; the words of y at the positions *)
(* of Q are mixed from those of x at the positions of P.                   *)
Disjoint(P) ==
  /\ P \in [0 .. 3 -> [0 .. 3 -> 0 .. 15]]
  /\ \A j, m, i, k \in 0 .. 3 : P[j][m] = P[i][k] => j = i /\ m = k
MixedInto(y, Q, x, P) ==
  IsMatrix(y) /\ \A j, m \in 0 .. 3 : y[Q[j][m]] = MixedAt(x, P, j)[m + 1]
QuarterRounds(y, P) ==
  \A k \in 0 .. 3 : y[k + 1] = Salsa!quarterround(y[k], P[k][0], P[k][1], P[k][2], P[k][3])

(* Four quarter rounds on disjoint positions mix each four words as they   *)
(* were before.                                                            *)
LEMMA FourQuarters ==
  ASSUME NEW P, Disjoint(P), NEW y, IsMatrix(y[0]), QuarterRounds(y, P)
  PROVE  MixedInto(y[4], P, y[0], P)
<1> USE DEF Disjoint, QuarterRounds
<1> DEFINE Upto(k) ==
             /\ IsMatrix(y[k])
             /\ \A j, m \in 0 .. 3 :
                  y[k][P[j][m]] = IF j < k THEN MixedAt(y[0], P, j)[m + 1] ELSE y[0][P[j][m]]
<1>1. Upto(0)
  OBVIOUS
<1>2. ASSUME NEW k \in 0 .. 3, Upto(k) PROVE Upto(k + 1)
  <2> DEFINE z == MixedAt(y[0], P, k)
  <2>1. \A m \in 0 .. 3 : P[k][m] \in 0 .. 15 /\ y[k][P[k][m]] = y[0][P[k][m]]
    BY <1>2
  <2>2. /\ P[k][0] # P[k][1] /\ P[k][0] # P[k][2] /\ P[k][0] # P[k][3]
        /\ P[k][1] # P[k][2] /\ P[k][1] # P[k][3] /\ P[k][2] # P[k][3]
    OBVIOUS
  <2>3. /\ IsMatrix(y[k + 1])
        /\ y[k + 1][P[k][0]] = z[1] /\ y[k + 1][P[k][1]] = z[2]
        /\ y[k + 1][P[k][2]] = z[3] /\ y[k + 1][P[k][3]] = z[4]
        /\ \A p \in 0 .. 15 \ {P[k][0], P[k][1], P[k][2], P[k][3]} : y[k + 1][p] = y[k][p]
    <3>1. z = Mixed(y[k][P[k][0]], y[k][P[k][1]], y[k][P[k][2]], y[k][P[k][3]])
      BY <2>1 DEF MixedAt
    <3>2. y[k + 1] = Salsa!quarterround(y[k], P[k][0], P[k][1], P[k][2], P[k][3])
      OBVIOUS
    <3> HIDE DEF z
    <3> DEFINE x == y[k]
               a == P[k][0]
               b == P[k][1]
               c == P[k][2]
               d == P[k][3]
    <3>3. /\ IsMatrix(x) /\ a \in 0 .. 15 /\ b \in 0 .. 15 /\ c \in 0 .. 15 /\ d \in 0 .. 15
          /\ a # b /\ a # c /\ a # d /\ b # c /\ b # d /\ c # d
      BY <1>2, <2>1, <2>2
    <3>4. y[k + 1] = Salsa!quarterround(x, a, b, c, d) /\ z = Mixed(x[a], x[b], x[c], x[d])
      BY <3>1, <3>2
    <3> HIDE DEF x, a, b, c, d
    <3>5. MixedIn(x, y[k + 1], a, b, c, d, z)
      <4>1. MixedIn(x, Salsa!quarterround(x, a, b, c, d), a, b, c, d,
                    Mixed(x[a], x[b], x[c], x[d]))
        BY <3>3, QuarterIsMixed, ZenonT(30)
      <4> QED BY <3>4, <4>1, Zenon
    <3> QED BY <3>5 DEF x, a, b, c, d, MixedIn
  <2>4. ASSUME NEW j \in 0 .. 3, NEW m \in 0 .. 3
        PROVE  y[k + 1][P[j][m]] =
                 IF j < k + 1 THEN MixedAt(y[0], P, j)[m + 1] ELSE y[0][P[j][m]]
    <3> HIDE DEF z
    <3>1. CASE j = k
      <4>1. y[k + 1][P[k][m]] = z[m + 1]
        BY <2>3
      <4> QED BY <3>1, <4>1 DEF z
    <3>2. CASE j # k
      <4>1. P[j][m] \in 0 .. 15 \ {P[k][0], P[k][1], P[k][2], P[k][3]}
        BY <3>2
      <4>2. y[k + 1][P[j][m]] = y[k][P[j][m]]
        BY <2>3, <4>1
      <4>3. j < k + 1 <=> j < k
        BY <3>2
      <4> QED BY <1>2, <4>2, <4>3
    <3> QED BY <3>1, <3>2
  <2> QED BY <2>3, <2>4
<1> HIDE DEF Upto
<1>3. Upto(1)
  <2>1. Upto(0 + 1)
    BY <1>1, <1>2
  <2> QED BY <2>1
<1>4. Upto(2)
  <2>1. Upto(1 + 1)
    BY <1>3, <1>2
  <2> QED BY <2>1
<1>5. Upto(3)
  <2>1. Upto(2 + 1)
    BY <1>4, <1>2
  <2> QED BY <2>1
<1>6. Upto(4)
  <2>1. Upto(3 + 1)
    BY <1>5, <1>2
  <2> QED BY <2>1
<1> QED BY <1>6 DEF Upto, MixedInto

(* The positions of a column from its diagonal downwards, and of a row     *)
(* from its diagonal to the right.                                         *)
Cols == [j \in 0 .. 3 |-> [m \in 0 .. 3 |-> Salsa!At(j + m, j)]]
Rows == [j \in 0 .. 3 |-> [m \in 0 .. 3 |-> Salsa!At(j, j + m)]]

AllPositions(P) == \A p \in 0 .. 15 : \E j, m \in 0 .. 3 : p = P[j][m]

(* The positions are different ones, and all of them.                      *)
LEMMA ColsAndRows ==
  /\ Disjoint(Cols) /\ Disjoint(Rows) /\ AllPositions(Rows)
  /\ \A j, m \in 0 .. 3 : /\ Cols[j][m] = (5 * j + 4 * m) % 16 /\ Rows[j][m] = 4 * j + ((j + m) % 4)
                          /\ Cols[j][m] = Salsa!At(j + m, j) /\ Rows[j][m] = Salsa!At(j, j + m)
<1>1. ASSUME NEW j \in 0 .. 3, NEW m \in 0 .. 3
      PROVE  /\ Cols[j][m] = (5 * j + 4 * m) % 16 /\ Rows[j][m] = 4 * j + ((j + m) % 4)
             /\ Cols[j][m] = Salsa!At(j + m, j) /\ Rows[j][m] = Salsa!At(j, j + m)
             /\ Cols[j][m] \in 0 .. 15 /\ Rows[j][m] \in 0 .. 15
  BY DEF Cols, Rows, Salsa!At
<1>2. Cols \in [0 .. 3 -> [0 .. 3 -> 0 .. 15]] /\ Rows \in [0 .. 3 -> [0 .. 3 -> 0 .. 15]]
  <2>1. \A j, m \in 0 .. 3 : Salsa!At(j + m, j) \in 0 .. 15 /\ Salsa!At(j, j + m) \in 0 .. 15
    BY DEF Salsa!At
  <2> QED BY <2>1 DEF Cols, Rows
<1>3. ASSUME NEW j \in 0 .. 3, NEW m \in 0 .. 3, NEW i \in 0 .. 3, NEW k \in 0 .. 3
      PROVE  /\ (5 * j + 4 * m) % 16 = (5 * i + 4 * k) % 16 => j = i /\ m = k
             /\ 4 * j + ((j + m) % 4) = 4 * i + ((i + k) % 4) => j = i /\ m = k
  OBVIOUS
<1>4. ASSUME NEW p \in 0 .. 15 PROVE \E j, m \in 0 .. 3 : p = 4 * j + ((j + m) % 4)
  <2> DEFINE j == p \div 4
             m == (p - j) % 4
  <2>1. j \in 0 .. 3 /\ m \in 0 .. 3 /\ p = 4 * j + ((j + m) % 4)
    OBVIOUS
  <2> QED BY <2>1
<1>5. \A p \in 0 .. 15 : \E j, m \in 0 .. 3 : p = Rows[j][m]
  BY <1>1, <1>4
<1>6. \A j, m, i, k \in 0 .. 3 : Cols[j][m] = Cols[i][k] => j = i /\ m = k
  BY <1>1, <1>3
<1>7. \A j, m, i, k \in 0 .. 3 : Rows[j][m] = Rows[i][k] => j = i /\ m = k
  BY <1>1, <1>3
<1> HIDE DEF Cols, Rows
<1>8. \A j, m \in 0 .. 3 : /\ Cols[j][m] = (5 * j + 4 * m) % 16 /\ Rows[j][m] = 4 * j + ((j + m) % 4)
                           /\ Cols[j][m] = Salsa!At(j + m, j) /\ Rows[j][m] = Salsa!At(j, j + m)
  BY <1>1
<1> QED BY <1>2, <1>5, <1>6, <1>7, <1>8, Zenon DEF Disjoint, AllPositions

(* A round of the code mixes every column, and leaves it in a row.         *)
LEMMA TurnMixes ==
  ASSUME NEW x, NEW i
  PROVE  MixedInto(Salsa!Turn(x, i), Rows, x, Cols)
<1> DEFINE t == [j \in 0 .. 3 |-> Salsa!Quarter(x, j)]
           y == [p \in 0 .. 15 |-> t[p \div 4][((p - (p \div 4)) % 4) + 1]]
<1>1. Salsa!Turn(x, i) = y
  BY DEF Salsa!Turn
<1>2. IsMatrix(y)
  <2> HIDE DEF t
  <2> QED BY DEF IsMatrix
<1>3. ASSUME NEW j \in 0 .. 3 PROVE t[j] = MixedAt(x, Cols, j)
  <2>1. /\ (5 * j + 4 * 0) % 16 = Cols[j][0] /\ (5 * j + 4 * 1) % 16 = Cols[j][1]
        /\ (5 * j + 4 * 2) % 16 = Cols[j][2] /\ (5 * j + 4 * 3) % 16 = Cols[j][3]
    BY ColsAndRows
  <2> DEFINE s == [m \in 0 .. 3 |-> x[(5 * j + 4 * m) % 16]]
  <2>2. Salsa!Quarter(x, j) = Mixed(s[0], s[1], s[2], s[3])
    BY DEF Salsa!Quarter, Mixed, Salsa!L32
  <2>3. s[0] = x[Cols[j][0]] /\ s[1] = x[Cols[j][1]] /\ s[2] = x[Cols[j][2]] /\ s[3] = x[Cols[j][3]]
    BY <2>1
  <2> HIDE DEF s
  <2> QED BY <2>2, <2>3 DEF MixedAt
<1>4. ASSUME NEW j \in 0 .. 3, NEW m \in 0 .. 3
      PROVE  y[Rows[j][m]] = MixedAt(x, Cols, j)[m + 1]
  <2> DEFINE p == 4 * j + ((j + m) % 4)
  <2>1. Rows[j][m] = p
    BY ColsAndRows
  <2>2. p \in 0 .. 15 /\ p \div 4 = j /\ (p - j) % 4 = m
    OBVIOUS
  <2> HIDE DEF p, t
  <2>3. y[p] = t[j][m + 1]
    BY <2>2
  <2> QED BY <1>3, <2>1, <2>3
<1> HIDE DEF y
<1> QED BY <1>1, <1>2, <1>4 DEF MixedInto

(* A round of the definition mixes the columns, or the rows, in place.     *)
LEMMA RoundMixes ==
  ASSUME NEW x, IsMatrix(x), NEW r \in Nat
  PROVE  /\ r % 2 = 0 => MixedInto(Salsa!Round(x, r), Cols, x, Cols)
         /\ r % 2 # 0 => MixedInto(Salsa!Round(x, r), Rows, x, Rows)
<1>1. CASE r % 2 = 0
  <2>1. PICK f : /\ f[0] = x
                 /\ \A i \in 0 .. 3 : f[i + 1] = Salsa!Column(f[i], i)
                 /\ Salsa!Round(x, r) = f[4]
    BY <1>1, ColumnRoundChain
  <2>2. ASSUME NEW i \in 0 .. 3
        PROVE  f[i + 1] = Salsa!quarterround(f[i], Cols[i][0], Cols[i][1], Cols[i][2], Cols[i][3])
    <3>1. Salsa!At(i, i) = Cols[i][0]
      BY ColsAndRows
    <3>2. /\ Salsa!At(i + 1, i) = Cols[i][1] /\ Salsa!At(i + 2, i) = Cols[i][2]
          /\ Salsa!At(i + 3, i) = Cols[i][3]
      BY ColsAndRows
    <3> QED BY <2>1, <3>1, <3>2 DEF Salsa!Column
  <2>3. MixedInto(f[4], Cols, f[0], Cols)
    <3>1. Disjoint(Cols)
      BY ColsAndRows
    <3>2. IsMatrix(f[0])
      BY <2>1
    <3>3. QuarterRounds(f, Cols)
      BY <2>2 DEF QuarterRounds
    <3> QED BY <3>1, <3>2, <3>3, FourQuarters
  <2> QED BY <1>1, <2>1, <2>3
<1>2. CASE r % 2 # 0
  <2>1. PICK f : /\ f[0] = x
                 /\ \A i \in 0 .. 3 : f[i + 1] = Salsa!Row(f[i], i)
                 /\ Salsa!Round(x, r) = f[4]
    BY <1>2, RowRoundChain
  <2>2. ASSUME NEW i \in 0 .. 3
        PROVE  f[i + 1] = Salsa!quarterround(f[i], Rows[i][0], Rows[i][1], Rows[i][2], Rows[i][3])
    <3>1. Salsa!At(i, i) = Rows[i][0]
      BY ColsAndRows
    <3>2. /\ Salsa!At(i, i + 1) = Rows[i][1] /\ Salsa!At(i, i + 2) = Rows[i][2]
          /\ Salsa!At(i, i + 3) = Rows[i][3]
      BY ColsAndRows
    <3> QED BY <2>1, <3>1, <3>2 DEF Salsa!Row
  <2>3. MixedInto(f[4], Rows, f[0], Rows)
    <3>1. Disjoint(Rows)
      BY ColsAndRows
    <3>2. IsMatrix(f[0])
      BY <2>1
    <3>3. QuarterRounds(f, Rows)
      BY <2>2 DEF QuarterRounds
    <3> QED BY <3>1, <3>2, <3>3, FourQuarters
  <2> QED BY <1>2, <2>1, <2>3
<1> QED BY <1>1, <1>2

(* A matrix turned: what one has in its columns the other has in its rows. *)
IsTurned(y, x) == \A j, m \in 0 .. 3 : y[Rows[j][m]] = x[Cols[j][m]]
IsTurnedBack(y, x) == \A j, m \in 0 .. 3 : y[Cols[j][m]] = x[Rows[j][m]]
(* A matrix that is another one turned has its rows in the columns of the  *)
(* other.                                                                  *)
LEMMA TurnedBack ==
  ASSUME NEW x, NEW y, IsTurned(y, x)
  PROVE  IsTurnedBack(y, x)
<1> SUFFICES ASSUME NEW j \in 0 .. 3, NEW m \in 0 .. 3 PROVE y[Cols[j][m]] = x[Rows[j][m]]
  BY DEF IsTurnedBack
<1> DEFINE i == (j + m) % 4
           k == (4 - m) % 4
<1>1. i \in 0 .. 3 /\ k \in 0 .. 3 /\ 4 * i + ((i + k) % 4) = (5 * j + 4 * m) % 16
      /\ (5 * i + 4 * k) % 16 = 4 * j + ((j + m) % 4)
  OBVIOUS
<1> HIDE DEF i, k
<1>2. Rows[i][k] = Cols[j][m] /\ Cols[i][k] = Rows[j][m]
  BY <1>1, ColsAndRows
<1> QED BY <1>1, <1>2 DEF IsTurned

(* Twenty rounds of the code are the twenty rounds of the definition.      *)
LEMMA TurnsAreRounds ==
  ASSUME NEW in, NEW k, NEW y, y = Salsa!StartMatrix(in, k, Salsa!sigma)
  PROVE  Salsa!Turns(y) = Salsa!SpecRounds(in, k) /\ IsMatrix(Salsa!SpecRounds(in, k))
<1>1. PICK f : /\ f[0] = y
               /\ \A i \in 0 .. 19 : f[i + 1] = Salsa!Turn(f[i], i)
               /\ Salsa!Turns(y) = f[20]
  BY TurnsChain
<1>2. PICK g : /\ g[0] = y
               /\ \A i \in 0 .. 19 : g[i + 1] = Salsa!Round(g[i], i)
               /\ Salsa!SpecRounds(in, k) = g[20]
  BY SalsaRoundsChain
<1> DEFINE Agree(i) == IsMatrix(g[i]) /\ IsMatrix(f[i]) /\ f[i] = g[i]
<1>3. Agree(0)
  <2>1. IsMatrix(y)
    BY DEF IsMatrix, Salsa!StartMatrix
  <2> QED BY <1>1, <1>2, <2>1
<1>4. ASSUME NEW h \in 0 .. 9, Agree(2 * h) PROVE Agree(2 * (h + 1))
  <2> DEFINE i == 2 * h
  <2>1. i \in 0 .. 19 /\ i + 1 \in 0 .. 19 /\ i % 2 = 0 /\ (i + 1) % 2 # 0
        /\ (i + 1) + 1 = 2 * (h + 1) /\ i \in Nat /\ i + 1 \in Nat
    OBVIOUS
  <2>2. IsMatrix(g[i]) /\ f[i] = g[i]
    BY <1>4
  <2> HIDE DEF i
  <2>3. /\ f[i + 1] = Salsa!Turn(f[i], i) /\ f[(i + 1) + 1] = Salsa!Turn(f[i + 1], i + 1)
        /\ g[i + 1] = Salsa!Round(g[i], i) /\ g[(i + 1) + 1] = Salsa!Round(g[i + 1], i + 1)
    BY <1>1, <1>2, <2>1
  <2>4. MixedInto(f[i + 1], Rows, f[i], Cols) /\ MixedInto(g[i + 1], Cols, f[i], Cols)
    BY <2>1, <2>2, <2>3, TurnMixes, RoundMixes
  <2>5. IsMatrix(g[i + 1]) /\ IsTurned(f[i + 1], g[i + 1])
    BY <2>4 DEF MixedInto, IsTurned
  <2>5a. IsTurnedBack(f[i + 1], g[i + 1])
    BY <2>5, TurnedBack
  <2>6. /\ MixedInto(f[(i + 1) + 1], Rows, f[i + 1], Cols)
        /\ MixedInto(g[(i + 1) + 1], Rows, g[i + 1], Rows)
    BY <2>1, <2>3, <2>5, TurnMixes, RoundMixes
  <2>7. ASSUME NEW p \in 0 .. 15 PROVE f[(i + 1) + 1][p] = g[(i + 1) + 1][p]
    <3>1. PICK j \in 0 .. 3, m \in 0 .. 3 : p = Rows[j][m]
      BY ColsAndRows DEF AllPositions
    <3>2. \A n \in 0 .. 3 : f[i + 1][Cols[j][n]] = g[i + 1][Rows[j][n]]
      BY <2>5a DEF IsTurnedBack
    <3>3. MixedAt(f[i + 1], Cols, j) = MixedAt(g[i + 1], Rows, j)
      BY <3>2 DEF MixedAt
    <3> QED BY <2>6, <3>1, <3>3 DEF MixedInto
  <2>8. f[(i + 1) + 1] = g[(i + 1) + 1]
    BY <2>6, <2>7, Zenon DEF MixedInto, IsMatrix
  <2> QED BY <2>1, <2>6, <2>8 DEF MixedInto
<1> HIDE DEF Agree
<1>5. Agree(2)
  <2>1. Agree(2 * 0)
    BY <1>3
  <2>2. Agree(2 * (0 + 1))
    BY <1>4, <2>1
  <2> QED BY <2>2
<1>6. Agree(4)
  <2>1. Agree(2 * 1)
    BY <1>5
  <2>2. Agree(2 * (1 + 1))
    BY <1>4, <2>1
  <2> QED BY <2>2
<1>7. Agree(6)
  <2>1. Agree(2 * 2)
    BY <1>6
  <2>2. Agree(2 * (2 + 1))
    BY <1>4, <2>1
  <2> QED BY <2>2
<1>8. Agree(8)
  <2>1. Agree(2 * 3)
    BY <1>7
  <2>2. Agree(2 * (3 + 1))
    BY <1>4, <2>1
  <2> QED BY <2>2
<1>9. Agree(10)
  <2>1. Agree(2 * 4)
    BY <1>8
  <2>2. Agree(2 * (4 + 1))
    BY <1>4, <2>1
  <2> QED BY <2>2
<1>10. Agree(12)
  <2>1. Agree(2 * 5)
    BY <1>9
  <2>2. Agree(2 * (5 + 1))
    BY <1>4, <2>1
  <2> QED BY <2>2
<1>11. Agree(14)
  <2>1. Agree(2 * 6)
    BY <1>10
  <2>2. Agree(2 * (6 + 1))
    BY <1>4, <2>1
  <2> QED BY <2>2
<1>12. Agree(16)
  <2>1. Agree(2 * 7)
    BY <1>11
  <2>2. Agree(2 * (7 + 1))
    BY <1>4, <2>1
  <2> QED BY <2>2
<1>13. Agree(18)
  <2>1. Agree(2 * 8)
    BY <1>12
  <2>2. Agree(2 * (8 + 1))
    BY <1>4, <2>1
  <2> QED BY <2>2
<1>14. Agree(20)
  <2>1. Agree(2 * 9)
    BY <1>13
  <2>2. Agree(2 * (9 + 1))
    BY <1>4, <2>1
  <2> QED BY <2>2
<1> QED BY <1>1, <1>2, <1>14 DEF Agree

-----------------------------------------------------------------------------
(* Division and the powers of two *)

(* A positive multiple is no smaller.                                      *)
LEMMA Multiple ==
  ASSUME NEW d \in Nat \ {0}, NEW k \in Nat \ {0}
  PROVE  d * k \in Nat \ {0} /\ d * k >= d
<1>1. d * k = d * (k - 1) + d
  BY SMT
<1>2. d * (k - 1) \in Nat
  BY SMT
<1> QED BY <1>1, <1>2, SMT

(* Quotient and remainder, and that there are no others.                   *)
LEMMA Division ==
  ASSUME NEW x \in Int, NEW d \in Nat \ {0}
  PROVE  /\ x = d * (x \div d) + (x % d)
         /\ x % d \in 0 .. d - 1 /\ x \div d \in Int
         /\ x \in Nat => x \div d \in Nat /\ x \div d <= x
<1>1. x = d * (x \div d) + (x % d) /\ x % d \in 0 .. d - 1 /\ x \div d \in Int
  BY SMT
<1> DEFINE q == x \div d
           r == x % d
<1>a. x = d * q + r /\ r \in 0 .. d - 1 /\ q \in Int
  BY <1>1
<1> HIDE DEF q, r
<1>2. ASSUME x \in Nat, q < 0 PROVE FALSE
  <2>1. -q \in Nat \ {0}
    BY <1>a, <1>2
  <2>2. d * (-q) >= d
    BY <2>1, Multiple
  <2>3. d * (-q) = 0 - d * q
    BY <1>a, SMT
  <2> QED BY <1>a, <1>2, <2>2, <2>3, SMT
<1>3. ASSUME x \in Nat, q > x PROVE FALSE
  <2>1. q \in Nat \ {0}
    BY <1>a, <1>3
  <2>2. q * d >= q
    BY <2>1, Multiple
  <2>3. d * q = q * d
    BY <2>1, SMT
  <2> QED BY <1>a, <1>3, <2>2, <2>3, SMT
<1> QED BY <1>1, <1>2, <1>3 DEF q, r

(* The quotient and the remainder are the only ones of their kind.         *)
LEMMA QuotientIs ==
  ASSUME NEW d \in Nat \ {0}, NEW q \in Int, NEW r \in 0 .. d - 1, NEW x, x = d * q + r
  PROVE  x \div d = q /\ x % d = r
<1> DEFINE Q == x \div d
           R == x % d
<1>1. x \in Int /\ r \in Int
  BY SMT
<1>2. x = d * Q + R /\ R \in 0 .. d - 1 /\ Q \in Int
  BY <1>1, Division
<1> HIDE DEF Q, R
<1>3. d * (Q - q) = r - R /\ d * (q - Q) = R - r
  BY <1>2, SMT
<1>4. ASSUME Q > q PROVE FALSE
  <2>1. Q - q \in Nat \ {0}
    BY <1>2, <1>4
  <2>2. d * (Q - q) >= d
    BY <2>1, Multiple
  <2> QED BY <1>2, <1>3, <2>2
<1>5. ASSUME Q < q PROVE FALSE
  <2>1. q - Q \in Nat \ {0}
    BY <1>2, <1>5
  <2>2. d * (q - Q) >= d
    BY <2>1, Multiple
  <2> QED BY <1>2, <1>3, <2>2
<1>6. Q = q
  BY <1>2, <1>4, <1>5
<1> QED BY <1>2, <1>6 DEF Q, R

(* A number below the divisor is its own remainder.                        *)
LEMMA SmallRemainder ==
  ASSUME NEW d \in Nat \ {0}, NEW r \in 0 .. d - 1
  PROVE  r \div d = 0 /\ r % d = r
<1>1. r = d * 0 + r
  BY SMT
<1> QED BY <1>1, QuotientIs

(* Multiples of the divisor do not change the remainder.                   *)
LEMMA RemainderOfSum ==
  ASSUME NEW d \in Nat \ {0}, NEW x \in Int, NEW k \in Int
  PROVE  (d * k + x) % d = x % d /\ (d * k + x) \div d = k + (x \div d)
<1> DEFINE q == x \div d
           r == x % d
           y == d * k + x
<1>1. x = d * q + r /\ r \in 0 .. d - 1 /\ q \in Int
  BY Division
<1> HIDE DEF q, r
<1> DEFINE s == k + q
<1>2. y = d * s + r /\ s \in Int
  BY <1>1, SMT
<1> HIDE DEF y, s
<1>3. y \div d = s /\ y % d = r
  BY <1>1, <1>2, QuotientIs
<1> QED BY <1>3 DEF y, q, r, s

(* Dividing twice is dividing by the product, and the remainder of the     *)
(* product has both remainders in it.                                      *)
LEMMA DividedTwice ==
  ASSUME NEW x \in Int, NEW a \in Nat \ {0}, NEW b \in Nat \ {0}
  PROVE  /\ (x \div a) \div b = x \div (a * b)
         /\ (x % (a * b)) \div a = (x \div a) % b
         /\ (x % (a * b)) % a = x % a
<1> DEFINE p == x \div a
           r == x % a
           q == p \div b
           s == p % b
           m == a * b
<1>1. x = a * p + r /\ r \in 0 .. a - 1 /\ p \in Int
  BY Division
<1> HIDE DEF p, r
<1>2. p = b * q + s /\ s \in 0 .. b - 1 /\ q \in Int
  BY <1>1, Division
<1> HIDE DEF q, s
<1>3. m \in Nat \ {0}
  BY Multiple
<1>4. x = m * q + (a * s + r)
  BY <1>1, <1>2, SMT
<1>5. a * s + r \in 0 .. m - 1
  <2>1. a * s \in Nat /\ a * (b - 1 - s) \in Nat
    BY <1>2, SMT
  <2>2. a * (b - 1 - s) = m - a - a * s
    BY <1>2, SMT
  <2> HIDE DEF m
  <2> QED BY <1>1, <1>3, <2>1, <2>2, SMT
<1> DEFINE t == a * s + r
<1>t. x = m * q + t /\ t \in 0 .. m - 1
  BY <1>4, <1>5
<1> HIDE DEF m, t
<1>6. x \div m = q /\ x % m = t
  BY <1>2, <1>3, <1>t, QuotientIs
<1>7. t \div a = s /\ t % a = r
  BY <1>1, <1>2, QuotientIs DEF t
<1> QED BY <1>6, <1>7 DEF m, p, q, r, s

(* A summand may be reduced before the sum is.                             *)
LEMMA ReducedBefore ==
  ASSUME NEW d \in Nat \ {0}, NEW x \in Int, NEW y \in Int
  PROVE  ((x % d) + y) % d = (x + y) % d
<1> DEFINE q == x \div d
           r == x % d
<1>1. x = d * q + r /\ r \in 0 .. d - 1 /\ q \in Int
  BY Division
<1> HIDE DEF q, r
<1>2. x + y = d * q + (r + y) /\ r + y \in Int
  BY <1>1, SMT
<1>3. (d * q + (r + y)) % d = (r + y) % d
  BY <1>1, <1>2, RemainderOfSum
<1> QED BY <1>2, <1>3 DEF r

(* The next number has the same quotient or the next.                      *)
LEMMA NextQuotient ==
  ASSUME NEW x \in Int, NEW d \in Nat \ {0}
  PROVE  (x + 1) \div d \in {x \div d, x \div d + 1}
<1> DEFINE q == x \div d
           r == x % d
           y == x + 1
<1>1. x = d * q + r /\ r \in 0 .. d - 1 /\ q \in Int
  BY Division
<1> HIDE DEF q, r
<1>2. CASE r + 1 \in 0 .. d - 1
  <2>1. y = d * q + (r + 1)
    BY <1>1, SMT
  <2> HIDE DEF y
  <2>2. y \div d = q
    BY <1>1, <1>2, <2>1, QuotientIs
  <2> QED BY <2>2 DEF y, q
<1>3. CASE r + 1 = d
  <2>1. y = d * (q + 1) + 0
    BY <1>1, <1>3, SMT
  <2>2. q + 1 \in Int /\ 0 \in 0 .. d - 1
    BY <1>1
  <2> HIDE DEF y
  <2>3. y \div d = q + 1
    BY <2>1, <2>2, QuotientIs
  <2> QED BY <2>3 DEF y, q
<1>4. r + 1 \in 0 .. d - 1 \/ r + 1 = d
  BY <1>1
<1> QED BY <1>2, <1>3, <1>4

(* The same holds of every number on the way.                              *)
LEMMA AllStepsUpTo ==
  ASSUME NEW n \in Nat, NEW G, 0 \in G, \A i \in 0 .. n - 1 : i \in G => i + 1 \in G
  PROVE  \A i \in 0 .. n : i \in G
<1> SUFFICES ASSUME NEW m \in 0 .. n PROVE m \in G
  OBVIOUS
<1>1. m \in Nat /\ \A i \in 0 .. m - 1 : i \in 0 .. n - 1
  OBVIOUS
<1>2. \A i \in 0 .. m - 1 : i \in G => i + 1 \in G
  BY <1>1
<1> QED BY <1>1, <1>2, StepsUpTo

(* Power[n] is 2^n: the powers start at one and double.                    *)
LEMMA PowerDoubles ==
  /\ Salsa!Power[0] = 1
  /\ \A n \in 0 .. WordBits - 1 : Salsa!Power[n + 1] = 2 * Salsa!Power[n]
<1> DEFINE Eq(fn, top) == fn = [n \in 0 .. top |-> IF n = 0 THEN 1 ELSE 2 * fn[n - 1]]
           G == {top \in Nat : \E fn : Eq(fn, top)}
<1>0. WordBits \in Nat
  BY SizesAssumption
<1>1. ASSUME NEW top \in Nat, \A low \in 0 .. top - 1 : low \in G PROVE top \in G
  <2>1. CASE top = 0
    <3>1. Eq([n \in 0 .. top |-> 1], top)
      BY <2>1
    <3> QED BY <3>1
  <2>2. CASE top # 0
    <3>1. PICK f : Eq(f, top - 1)
      <4>1. top - 1 \in 0 .. top - 1
        BY <2>2
      <4> HIDE DEF Eq, G
      <4>2. top - 1 \in G
        BY <1>1, <4>1
      <4> QED BY <4>2 DEF G
    <3> DEFINE g == [n \in 0 .. top |-> IF n = top THEN 2 * f[top - 1] ELSE f[n]]
    <3>2. Eq(g, top)
      BY <2>2, <3>1
    <3> QED BY <3>2
  <2> QED BY <2>1, <2>2
<1>2. PICK f : Eq(f, WordBits)
  <2>1. WordBits \in G
    BY <1>0, <1>1, CompleteInduction
  <2> QED BY <2>1
<1> DEFINE h == CHOOSE fn : Eq(fn, WordBits)
<1>3. Eq(h, WordBits)
  BY <1>2
<1>4. Salsa!Power = h
  BY DEF Salsa!Power
<1> HIDE DEF h
<1>5. h[0] = 1 /\ \A n \in 0 .. WordBits - 1 : h[n + 1] = 2 * h[n]
  BY <1>0, <1>3
<1> QED BY <1>4, <1>5

(* So they are positive, and the power of a sum is a product.              *)
LEMMA PowerOfSum ==
  /\ \A n \in 0 .. WordBits : Salsa!Power[n] \in Nat \ {0}
  /\ \A m, n \in 0 .. WordBits : m + n <= WordBits =>
       Salsa!Power[m + n] = Salsa!Power[m] * Salsa!Power[n]
<1> DEFINE P(n) == Salsa!Power[n]
<1>0. WordBits \in Nat
  BY SizesAssumption
<1>1. P(0) = 1 /\ \A n \in 0 .. WordBits - 1 : P(n + 1) = 2 * P(n)
  BY PowerDoubles
<1> HIDE DEF P
<1>2. \A n \in 0 .. WordBits : P(n) \in Nat \ {0}
  <2> DEFINE G == {n \in 0 .. WordBits : P(n) \in Nat \ {0}}
  <2>1. 0 \in G
    BY <1>0, <1>1
  <2>2. ASSUME NEW n \in 0 .. WordBits - 1, n \in G PROVE n + 1 \in G
    <3>1. P(n + 1) = 2 * P(n) /\ P(n) \in Nat \ {0} /\ n + 1 \in 0 .. WordBits
      BY <1>0, <1>1, <2>2
    <3> QED BY <3>1
  <2> HIDE DEF G
  <2>3. WordBits \in G /\ \A n \in 0 .. WordBits : n \in G
    BY <1>0, <2>1, <2>2, AllStepsUpTo
  <2> QED BY <2>3 DEF G
<1>3. ASSUME NEW m \in 0 .. WordBits
      PROVE  \A n \in 0 .. WordBits - m : P(m + n) = P(m) * P(n)
  <2> DEFINE L == WordBits - m
             G == {n \in 0 .. L : P(m + n) = P(m) * P(n)}
  <2>0. L \in Nat /\ L <= WordBits /\ m + L = WordBits /\ m \in Nat
    BY <1>0
  <2> HIDE DEF L
  <2>1. 0 \in G
    <3>1. m + 0 = m /\ P(m) * 1 = P(m)
      BY <1>2, <2>0
    <3> QED BY <1>1, <2>0, <3>1
  <2>2. ASSUME NEW n \in 0 .. L - 1, n \in G PROVE n + 1 \in G
    <3>1. m + (n + 1) = (m + n) + 1 /\ m + n \in 0 .. WordBits - 1 /\ n \in 0 .. WordBits - 1
          /\ n + 1 \in 0 .. L /\ n \in 0 .. WordBits
      BY <1>0, <2>0
    <3>2. P((m + n) + 1) = 2 * P(m + n) /\ P(n + 1) = 2 * P(n) /\ P(m + n) = P(m) * P(n)
      BY <1>1, <2>2, <3>1
    <3> DEFINE x == P(m)
               y == P(n)
    <3>3. x \in Nat /\ y \in Nat
      BY <1>2, <3>1
    <3> HIDE DEF x, y
    <3>4. 2 * (x * y) = x * (2 * y)
      BY <3>3, SMT
    <3>5. P(m + (n + 1)) = P(m) * P(n + 1)
      BY <3>1, <3>2, <3>4 DEF x, y
    <3> QED BY <3>1, <3>5
  <2> HIDE DEF G
  <2>3. \A n \in 0 .. L : n \in G
    BY <2>0, <2>1, <2>2, AllStepsUpTo
  <2> QED BY <2>3 DEF G, L
<1>4. ASSUME NEW m \in 0 .. WordBits, NEW n \in 0 .. WordBits, m + n <= WordBits
      PROVE  P(m + n) = P(m) * P(n)
  <2>1. n \in 0 .. WordBits - m
    BY <1>0, <1>4
  <2> QED BY <1>3, <2>1
<1> QED BY <1>2, <1>4 DEF P

(* The powers of two of the three algorithms are the same.                 *)
LEMMA SamePowers == B2!Power = Salsa!Power /\ Sha!Power = Salsa!Power
BY DEF B2!Power, Sha!Power, Salsa!Power

(* The sizes of the bytes of a word, when eight or four make it.           *)
Eighth == WordBits \div 8
Quarter == WordBits \div 4
(* They fill the word.                                                     *)
LEMMA Sizes ==
  /\ WordBits \in Nat /\ Eighth \in Nat \ {0} /\ Quarter \in Nat \ {0}
  /\ WordBits = 8 * Eighth /\ WordBits = 4 * Quarter
<1>1. WordBits \in {8, 16, 32, 64}
  BY SizesAssumption
<1>2. \A w \in {8, 16, 32, 64} :
        /\ w \in Nat /\ w \div 8 \in Nat \ {0} /\ w \div 4 \in Nat \ {0}
        /\ w = 8 * (w \div 8) /\ w = 4 * (w \div 4)
  OBVIOUS
<1> QED BY <1>1, <1>2 DEF Eighth, Quarter

(* A word has at least 256 values.                                         *)
LEMMA WordIsWide == Salsa!Power[WordBits] \in Nat \ {0} /\ Salsa!Power[WordBits] >= 256
<1> DEFINE P(n) == Salsa!Power[n]
<1>1. WordBits \in Nat /\ WordBits >= 8
  BY SizesAssumption
<1>2. P(0) = 1 /\ \A n \in 0 .. WordBits - 1 : P(n + 1) = 2 * P(n)
  BY PowerDoubles
<1> HIDE DEF P
<1>3. /\ P(0 + 1) = 2 * P(0) /\ P(1 + 1) = 2 * P(1) /\ P(2 + 1) = 2 * P(2) /\ P(3 + 1) = 2 * P(3)
      /\ P(4 + 1) = 2 * P(4) /\ P(5 + 1) = 2 * P(5) /\ P(6 + 1) = 2 * P(6) /\ P(7 + 1) = 2 * P(7)
  BY <1>1, <1>2
<1>4. /\ 0 + 1 = 1 /\ 1 + 1 = 2 /\ 2 + 1 = 3 /\ 3 + 1 = 4 /\ 4 + 1 = 5 /\ 5 + 1 = 6
      /\ 6 + 1 = 7 /\ 7 + 1 = 8
  OBVIOUS
<1>5. P(8) = 256
  <2>1. /\ P(1) = 2 * P(0) /\ P(2) = 2 * P(1) /\ P(3) = 2 * P(2) /\ P(4) = 2 * P(3)
        /\ P(5) = 2 * P(4) /\ P(6) = 2 * P(5) /\ P(7) = 2 * P(6) /\ P(8) = 2 * P(7)
    BY <1>3, <1>4
  <2> QED BY <1>2, <2>1, SMT
<1>6. WordBits - 8 \in 0 .. WordBits /\ 8 \in 0 .. WordBits /\ 8 + (WordBits - 8) = WordBits
  BY <1>1
<1>7. P(WordBits) = P(8) * P(WordBits - 8) /\ P(WordBits - 8) \in Nat \ {0}
  <2>1. Salsa!Power[8 + (WordBits - 8)] = Salsa!Power[8] * Salsa!Power[WordBits - 8]
    BY <1>1, <1>6, PowerOfSum
  <2> QED BY <1>6, <2>1, PowerOfSum DEF P
<1> DEFINE z == P(WordBits - 8)
<1>8. P(WordBits) = 256 * z /\ z \in Nat \ {0}
  BY <1>5, <1>7
<1> HIDE DEF z
<1>9. P(WordBits) \in Nat \ {0} /\ P(WordBits) >= 256
  BY <1>8, SMT
<1> QED BY <1>9 DEF P

(* The powers that size bytes of c bits have in a word: each is one byte   *)
(* more, and the last is that of the word.                                 *)
Fills(size, c) ==
  /\ Salsa!Power[c] \in Nat \ {0} /\ Salsa!Power[c] > 1
  /\ Salsa!Power[c * 0] = 1 /\ Salsa!Power[c * size] = Salsa!Power[WordBits]
  /\ \A i \in 0 .. size : Salsa!Power[c * i] \in Nat \ {0}
  /\ \A i \in 0 .. size - 1 : Salsa!Power[c * (i + 1)] = Salsa!Power[c * i] * Salsa!Power[c]
  /\ \A i \in 0 .. size - 1 :
       Salsa!Power[WordBits] = (Salsa!Power[c * i] * Salsa!Power[c]) * Salsa!Power[c * (size - 1 - i)]
(* Four bytes, or eight, make a word.                                      *)
LEMMA PowersOfBytes == Fills(4, Quarter) /\ Fills(8, Eighth)
<1>1. ASSUME NEW size \in Nat \ {0}, NEW c \in Nat \ {0}, size * c = WordBits
      PROVE  Fills(size, c)
  <2>0. WordBits \in Nat /\ c \in 0 .. WordBits
    <3>1. c * size >= c /\ c * size = size * c
      BY Multiple, SMT
    <3> QED BY <1>1, <3>1, Sizes
  <2>1. \A n \in 0 .. WordBits : Salsa!Power[n] \in Nat \ {0}
    BY PowerOfSum
  <2>2. ASSUME NEW i \in 0 .. size PROVE c * i \in 0 .. WordBits
    <3>1. c * (size - i) \in Nat /\ c * i \in Nat
      BY SMT
    <3>2. c * (size - i) = size * c - c * i
      BY SMT
    <3> QED BY <1>1, <3>1, <3>2
  <2>3. Salsa!Power[c] > 1
    <3>1. c - 1 \in 0 .. WordBits - 1 /\ (c - 1) + 1 = c /\ c - 1 \in 0 .. WordBits
      BY <2>0
    <3> DEFINE z == Salsa!Power[c - 1]
    <3>2. Salsa!Power[(c - 1) + 1] = 2 * z /\ z \in Nat \ {0}
      BY <3>1, <2>1, PowerDoubles
    <3> HIDE DEF z
    <3> QED BY <3>1, <3>2
  <2>4. c * 0 = 0 /\ c * size = WordBits
    BY <1>1, SMT
  <2>5. ASSUME NEW i \in 0 .. size - 1
        PROVE  Salsa!Power[c * (i + 1)] = Salsa!Power[c * i] * Salsa!Power[c]
    <3>1. c * (i + 1) = c * i + c
      BY SMT
    <3>2. i \in 0 .. size /\ i + 1 \in 0 .. size
      OBVIOUS
    <3> DEFINE m == c * i
    <3>3. m \in 0 .. WordBits /\ m + c <= WordBits
      BY <2>0, <2>2, <3>1, <3>2
    <3>4. Salsa!Power[c * (i + 1)] = Salsa!Power[m + c]
      BY <3>1
    <3> HIDE DEF m
    <3>5. Salsa!Power[m + c] = Salsa!Power[m] * Salsa!Power[c]
      BY <2>0, <3>3, PowerOfSum
    <3> QED BY <3>4, <3>5 DEF m
  <2>6. ASSUME NEW i \in 0 .. size - 1
        PROVE  Salsa!Power[WordBits] =
                 (Salsa!Power[c * i] * Salsa!Power[c]) * Salsa!Power[c * (size - 1 - i)]
    <3> DEFINE m == c * (i + 1)
               n == c * (size - 1 - i)
    <3>1. m + n = WordBits
      BY <1>1, SMT
    <3>2. m \in 0 .. WordBits /\ n \in 0 .. WordBits
      <4>1. i + 1 \in 0 .. size /\ size - 1 - i \in 0 .. size
        OBVIOUS
      <4> QED BY <2>2, <4>1
    <3>3. Salsa!Power[m] = Salsa!Power[c * i] * Salsa!Power[c]
      BY <2>5
    <3> HIDE DEF m, n
    <3>4. Salsa!Power[m + n] = Salsa!Power[m] * Salsa!Power[n]
      BY <3>1, <3>2, <2>0, PowerOfSum
    <3> QED BY <3>1, <3>3, <3>4 DEF n
  <2>7. Salsa!Power[c] \in Nat \ {0}
    BY <2>0, <2>1
  <2>8. ASSUME NEW i \in 0 .. size PROVE Salsa!Power[c * i] \in Nat \ {0}
    BY <2>1, <2>2
  <2> QED BY <2>3, <2>4, <2>5, <2>6, <2>7, <2>8, PowerDoubles DEF Fills
<1>2. /\ 4 \in Nat \ {0} /\ 8 \in Nat \ {0}
      /\ Quarter \in Nat \ {0} /\ Eighth \in Nat \ {0}
      /\ 4 * Quarter = WordBits /\ 8 * Eighth = WordBits
  BY Sizes
<1> QED BY <1>1, <1>2

-----------------------------------------------------------------------------
(* The stream, the words of its algorithms first *)

(* The table of exclusive or has words in it, none above the sum.          *)
Closed(t, s) == \A x, y \in 0 .. s - 1 : t[x][y] \in 0 .. s - 1 /\ t[x][y] <= x + y
(* A table of words stays one when a step doubles its width.               *)
LEMMA DoubledIsClosed ==
  ASSUME NEW t, NEW s \in Nat \ {0}, Closed(t, s)
  PROVE  Closed(Salsa!Doubled(t, s), s * s)
<1> DEFINE m == s * s
<1>1. m \in Nat \ {0}
  BY Multiple
<1> SUFFICES ASSUME NEW x \in 0 .. m - 1, NEW y \in 0 .. m - 1
             PROVE  /\ Salsa!Doubled(t, s)[x][y] \in 0 .. m - 1
                    /\ Salsa!Doubled(t, s)[x][y] <= x + y
  BY DEF Closed
<1>2. ASSUME NEW z \in 0 .. m - 1
      PROVE  z = s * (z \div s) + (z % s) /\ z \div s \in 0 .. s - 1 /\ z % s \in 0 .. s - 1
  <2> DEFINE q == z \div s
             r == z % s
  <2>0. z < m /\ z \in Nat /\ z \in Int
    BY <1>1
  <2>1. z = s * q + r /\ r \in 0 .. s - 1 /\ q \in Nat
    BY <2>0, Division
  <2> HIDE DEF q, r
  <2>2. ASSUME q >= s PROVE FALSE
    <3>1. s * (q - s) \in Nat /\ s * (q - s) = s * q - m
      BY <2>1, <2>2, SMT
    <3> HIDE DEF m
    <3> QED BY <1>1, <2>0, <2>1, <3>1
  <2>3. q \in 0 .. s - 1
    BY <2>1, <2>2
  <2> QED BY <2>1, <2>3 DEF q, r
<1> DEFINE x1 == x \div s
           x0 == x % s
           y1 == y \div s
           y0 == y % s
           hi == t[x1][y1]
           lo == t[x0][y0]
<1>3. /\ x = s * x1 + x0 /\ x1 \in 0 .. s - 1 /\ x0 \in 0 .. s - 1
      /\ y = s * y1 + y0 /\ y1 \in 0 .. s - 1 /\ y0 \in 0 .. s - 1
  BY <1>2
<1>4. Salsa!Doubled(t, s)[x][y] = s * hi + lo
  BY DEF Salsa!Doubled
<1> HIDE DEF x1, x0, y1, y0
<1>5. /\ hi \in 0 .. s - 1 /\ hi <= x1 + y1
      /\ lo \in 0 .. s - 1 /\ lo <= x0 + y0
  BY <1>3 DEF Closed
<1> HIDE DEF hi, lo
<1>6. s * hi + lo \in 0 .. m - 1
  <2>1. s * (s - 1 - hi) \in Nat /\ s * hi \in Nat
    BY <1>5, SMT
  <2>2. s * (s - 1 - hi) = m - s - s * hi
    BY <1>5, SMT
  <2> HIDE DEF m
  <2> QED BY <1>1, <1>5, <2>1, <2>2
<1>7. s * hi + lo <= x + y
  <2>1. s * (x1 + y1 - hi) \in Nat
    BY <1>3, <1>5, SMT
  <2>2. s * (x1 + y1 - hi) = s * x1 + s * y1 - s * hi /\ s * hi \in Nat
        /\ s * x1 \in Nat /\ s * y1 \in Nat
    BY <1>3, <1>5, SMT
  <2> QED BY <1>3, <1>5, <2>1, <2>2
<1> QED BY <1>4, <1>6, <1>7

(* The table for words of 8, 16, 32 or 64 bits is made by three, four,     *)
(* five or six doublings.                                                  *)
LEMMA XorTableIsClosed == Closed(Salsa!XorTable, Salsa!Power[WordBits])
<1> DEFINE bit == [x \in 0 .. 1 |-> [y \in 0 .. 1 |-> (x + y) % 2]]
           Eq(f) == f = [k \in 0 .. 6 |-> IF k = 0 THEN bit
                                          ELSE Salsa!Doubled(f[k - 1], Salsa!Power[2^(k - 1)])]
           top == CHOOSE k \in 0 .. 6 : 2^k >= WordBits /\ \A i \in 0 .. k - 1 : 2^i < WordBits
           table == CHOOSE f : Eq(f)
<1>1. Salsa!XorTable = table[top]
  BY DEF Salsa!XorTable
<1>2. Eq(table)
  <2> DEFINE t1 == Salsa!Doubled(bit, Salsa!Power[2^0])
             t2 == Salsa!Doubled(t1, Salsa!Power[2^1])
             t3 == Salsa!Doubled(t2, Salsa!Power[2^2])
             t4 == Salsa!Doubled(t3, Salsa!Power[2^3])
             t5 == Salsa!Doubled(t4, Salsa!Power[2^4])
             t6 == Salsa!Doubled(t5, Salsa!Power[2^5])
             g == [k \in 0 .. 6 |-> CASE k = 0 -> bit [] k = 1 -> t1 [] k = 2 -> t2 [] k = 3 -> t3
                                      [] k = 4 -> t4 [] k = 5 -> t5 [] k = 6 -> t6]
  <2> HIDE DEF bit
  <2>1. ASSUME NEW k \in 0 .. 6, k # 0 PROVE g[k] = Salsa!Doubled(g[k - 1], Salsa!Power[2^(k - 1)])
    <3>1. /\ t1 = Salsa!Doubled(bit, Salsa!Power[2^0]) /\ t2 = Salsa!Doubled(t1, Salsa!Power[2^1])
          /\ t3 = Salsa!Doubled(t2, Salsa!Power[2^2]) /\ t4 = Salsa!Doubled(t3, Salsa!Power[2^3])
          /\ t5 = Salsa!Doubled(t4, Salsa!Power[2^4]) /\ t6 = Salsa!Doubled(t5, Salsa!Power[2^5])
      OBVIOUS
    <3> HIDE DEF t1, t2, t3, t4, t5, t6
    <3>2. /\ g[0] = bit /\ g[1] = t1 /\ g[2] = t2 /\ g[3] = t3 /\ g[4] = t4 /\ g[5] = t5 /\ g[6] = t6
      OBVIOUS
    <3> HIDE DEF g
    <3>3. CASE k = 1
      <4>1. k - 1 = 0
        BY <3>3
      <4> QED BY <3>1, <3>2, <3>3, <4>1
    <3>4. CASE k = 2
      <4>1. k - 1 = 1
        BY <3>4
      <4> QED BY <3>1, <3>2, <3>4, <4>1
    <3>5. CASE k = 3
      <4>1. k - 1 = 2
        BY <3>5
      <4> QED BY <3>1, <3>2, <3>5, <4>1
    <3>6. CASE k = 4
      <4>1. k - 1 = 3
        BY <3>6
      <4> QED BY <3>1, <3>2, <3>6, <4>1
    <3>7. CASE k = 5
      <4>1. k - 1 = 4
        BY <3>7
      <4> QED BY <3>1, <3>2, <3>7, <4>1
    <3>8. CASE k = 6
      <4>1. k - 1 = 5
        BY <3>8
      <4> QED BY <3>1, <3>2, <3>8, <4>1
    <3> QED BY <2>1, <3>3, <3>4, <3>5, <3>6, <3>7, <3>8
  <2>2. g[0] = bit /\ g = [k \in 0 .. 6 |-> g[k]]
    <3> HIDE DEF t1, t2, t3, t4, t5, t6
    <3> QED OBVIOUS
  <2> HIDE DEF g
  <2>3. Eq(g)
    BY <2>1, <2>2
  <2> QED BY <2>3
<1>3. top \in 1 .. 6 /\ 2^top = WordBits
  <2>1. /\ 2^0 = 1 /\ 2^1 = 2 /\ 2^2 = 4 /\ 2^3 = 8 /\ 2^4 = 16 /\ 2^5 = 32 /\ 2^6 = 64
    OBVIOUS
  <2> DEFINE Least(k) == 2^k >= WordBits /\ \A i \in 0 .. k - 1 : 2^i < WordBits
  <2>2. top = CHOOSE k \in 0 .. 6 : Least(k)
    OBVIOUS
  <2> HIDE DEF top
  <2>3. ASSUME NEW n \in 1 .. 6, Least(n), \A k \in 0 .. 6 : Least(k) => k = n, 2^n = WordBits
        PROVE  top \in 1 .. 6 /\ 2^top = WordBits
    <3> HIDE DEF Least
    <3>1. top = n
      BY <2>2, <2>3
    <3> QED BY <2>3, <3>1
  <2>4. CASE WordBits = 8
    <3>1. Least(3) /\ 2^3 = WordBits /\ \A k \in 0 .. 6 : Least(k) => k = 3
      BY <2>1, <2>4
    <3> HIDE DEF Least
    <3>2. 3 \in 1 .. 6
      OBVIOUS
    <3> QED BY <2>3, <3>1, <3>2
  <2>5. CASE WordBits = 16
    <3>1. Least(4) /\ 2^4 = WordBits /\ \A k \in 0 .. 6 : Least(k) => k = 4
      BY <2>1, <2>5
    <3> HIDE DEF Least
    <3>2. 4 \in 1 .. 6
      OBVIOUS
    <3> QED BY <2>3, <3>1, <3>2
  <2>6. CASE WordBits = 32
    <3>1. Least(5) /\ 2^5 = WordBits /\ \A k \in 0 .. 6 : Least(k) => k = 5
      BY <2>1, <2>6
    <3> HIDE DEF Least
    <3>2. 5 \in 1 .. 6
      OBVIOUS
    <3> QED BY <2>3, <3>1, <3>2
  <2>7. CASE WordBits = 64
    <3>1. Least(6) /\ 2^6 = WordBits /\ \A k \in 0 .. 6 : Least(k) => k = 6
      BY <2>1, <2>7
    <3> HIDE DEF Least
    <3>2. 6 \in 1 .. 6
      OBVIOUS
    <3> QED BY <2>3, <3>1, <3>2
  <2> QED BY <2>4, <2>5, <2>6, <2>7, SizesAssumption
<1> HIDE DEF table, top
<1> DEFINE G == {k \in 0 .. 6 : 2^k <= WordBits => Closed(table[k], Salsa!Power[2^k])}
<1>4. 0 \in G
  <2>1. table[0] = bit /\ 2^0 = 1 /\ 0 + 1 = 1
    BY <1>2
  <2>2. Salsa!Power[0 + 1] = 2 * 1
    <3>1. 0 \in 0 .. WordBits - 1
      BY SizesAssumption
    <3> QED BY <3>1, PowerDoubles
  <2>3. Salsa!Power[2^0] = 2
    BY <2>1, <2>2
  <2>4. Closed(bit, 2)
    BY DEF Closed
  <2> QED BY <2>1, <2>3, <2>4
<1>5. ASSUME NEW k \in 0 .. 6 - 1, k \in G PROVE k + 1 \in G
  <2> SUFFICES ASSUME 2^(k + 1) <= WordBits PROVE Closed(table[k + 1], Salsa!Power[2^(k + 1)])
    OBVIOUS
  <2> HIDE DEF bit
  <2>1. 2^(k + 1) = 2^k + 2^k /\ 2^k \in Nat
    <3>1. /\ 2^0 = 1 /\ 2^1 = 2 /\ 2^2 = 4 /\ 2^3 = 8 /\ 2^4 = 16 /\ 2^5 = 32 /\ 2^6 = 64
      OBVIOUS
    <3>2. k = 0 \/ k = 1 \/ k = 2 \/ k = 3 \/ k = 4 \/ k = 5
      OBVIOUS
    <3>3. CASE k = 0
      <4>1. k + 1 = 1
        BY <3>3
      <4> QED BY <3>1, <3>3, <4>1
    <3>4. CASE k = 1
      <4>1. k + 1 = 2
        BY <3>4
      <4> QED BY <3>1, <3>4, <4>1
    <3>5. CASE k = 2
      <4>1. k + 1 = 3
        BY <3>5
      <4> QED BY <3>1, <3>5, <4>1
    <3>6. CASE k = 3
      <4>1. k + 1 = 4
        BY <3>6
      <4> QED BY <3>1, <3>6, <4>1
    <3>7. CASE k = 4
      <4>1. k + 1 = 5
        BY <3>7
      <4> QED BY <3>1, <3>7, <4>1
    <3>8. CASE k = 5
      <4>1. k + 1 = 6
        BY <3>8
      <4> QED BY <3>1, <3>8, <4>1
    <3> QED BY <3>2, <3>3, <3>4, <3>5, <3>6, <3>7, <3>8
  <2>2. table[k + 1] = Salsa!Doubled(table[k], Salsa!Power[2^k])
    <3>1. k + 1 \in 0 .. 6 /\ k + 1 # 0 /\ (k + 1) - 1 = k
      OBVIOUS
    <3>2. table[k + 1] = Salsa!Doubled(table[(k + 1) - 1], Salsa!Power[2^((k + 1) - 1)])
      BY <1>2, <3>1
    <3> QED BY <3>1, <3>2
  <2> DEFINE n == 2^k
  <2>3. n \in 0 .. WordBits /\ n + n <= WordBits /\ 2^(k + 1) = n + n
    BY <2>1, Sizes
  <2>4. Closed(table[k], Salsa!Power[n])
    BY <1>5, <2>3
  <2>5. table[k + 1] = Salsa!Doubled(table[k], Salsa!Power[n])
    BY <2>2
  <2> HIDE DEF n
  <2>6. Salsa!Power[n + n] = Salsa!Power[n] * Salsa!Power[n] /\ Salsa!Power[n] \in Nat \ {0}
    BY <2>3, PowerOfSum
  <2> QED BY <2>3, <2>4, <2>5, <2>6, DoubledIsClosed
<1>6. top \in G
  <2> HIDE DEF G
  <2>1. \A k \in 0 .. 6 : k \in G
    BY <1>4, <1>5, AllStepsUpTo
  <2> QED BY <1>3, <2>1
<1> QED BY <1>1, <1>3, <1>6, Sizes

(* The operations on words give words.                                     *)
LEMMA XorIsWord ==
  ASSUME NEW x \in Salsa!Word, NEW y \in Salsa!Word
  PROVE  Salsa!XOR(x, y) \in Salsa!Word
BY XorTableIsClosed DEF Closed, Salsa!XOR, Salsa!Word

(* Words are integers, and there is at least one.                          *)
LEMMA WordIsInt ==
  /\ Salsa!Power[WordBits] \in Nat \ {0}
  /\ Salsa!Word \subseteq Int
BY WordIsWide DEF Salsa!Word

(* The sum of two words is a word.                                         *)
LEMMA AddIsWord ==
  ASSUME NEW x \in Salsa!Word, NEW y \in Salsa!Word
  PROVE  Salsa!Add(x, y) \in Salsa!Word
<1> DEFINE M == Salsa!Power[WordBits]
<1>1. M \in Nat \ {0} /\ x \in Int /\ y \in Int
  BY WordIsInt
<1> HIDE DEF M
<1>2. (x + y) % M \in 0 .. M - 1
  BY <1>1
<1> QED BY <1>2 DEF Salsa!Add, Salsa!Word, M

(* What was added is subtracted again.                                     *)
LEMMA SubOfAdd ==
  ASSUME NEW x \in Salsa!Word, NEW y \in Salsa!Word
  PROVE  Salsa!Sub(Salsa!Add(x, y), y) = x
<1> DEFINE M == Salsa!Power[WordBits]
           z == x + y
<1>1. M \in Nat \ {0} /\ x \in 0 .. M - 1 /\ x \in Int /\ y \in Int
  BY WordIsInt DEF Salsa!Word
<1>2. z \in Int /\ z + (-y) = x /\ -y \in Int
  BY <1>1
<1> HIDE DEF M, z
<1>3. ((z % M) + (-y)) % M = (z + (-y)) % M
  BY <1>1, <1>2, ReducedBefore
<1>4. x % M = x
  BY <1>1, SmallRemainder
<1>5. z % M \in Int /\ (z % M) - y = (z % M) + (-y)
  BY <1>1, <1>2
<1>6. ((z % M) - y) % M = x
  BY <1>2, <1>3, <1>4, <1>5
<1> QED BY <1>6 DEF Salsa!Add, Salsa!Sub, M, z

(* A word rotated by any distance is a word.                               *)
LEMMA RotatedIsWord ==
  ASSUME NEW x \in Salsa!Word, NEW c \in Nat
  PROVE  Salsa!Rotl(x, c) \in Salsa!Word
<1> DEFINE M == Salsa!Power[WordBits]
           k == c % WordBits
           l == WordBits - k
           a == Salsa!Power[k]
           b == Salsa!Power[l]
<1>1. M \in Nat \ {0} /\ x \in 0 .. M - 1 /\ x \in Nat /\ x \in Int /\ x < M
  BY WordIsInt DEF Salsa!Word
<1>2. k \in 0 .. WordBits /\ l \in 0 .. WordBits /\ k + l = WordBits
  <2>1. WordBits \in Nat \ {0}
    BY Sizes
  <2> QED BY <2>1
<1> HIDE DEF k, l
<1>3. M = a * b /\ a \in Nat \ {0} /\ b \in Nat \ {0}
  <2>1. Salsa!Power[k + l] = Salsa!Power[k] * Salsa!Power[l] /\ k + l <= WordBits
    BY <1>2, PowerOfSum, Sizes
  <2> QED BY <1>2, <2>1, PowerOfSum
<1>4. Salsa!Rotl(x, c) = ((x * a) % M) + (x \div b)
  BY DEF Salsa!Rotl, k, l
<1> HIDE DEF M, a, b
<1> DEFINE q == x \div b
           r == x % b
<1>5. x = b * q + r /\ r \in 0 .. b - 1 /\ q \in Nat
  BY <1>1, <1>3, Division
<1> HIDE DEF q, r
<1>6. q \in 0 .. a - 1
  <2>1. ASSUME q >= a PROVE FALSE
    <3>1. b * (q - a) \in Nat
      BY <1>3, <1>5, <2>1, SMT
    <3>2. b * (q - a) = b * q - M /\ b * q \in Nat
      BY <1>3, <1>5, SMT
    <3> QED BY <1>1, <1>3, <1>5, <3>1, <3>2
  <2> QED BY <1>3, <1>5, <2>1
<1>7. (x * a) % M = a * r
  <2>1. x * a = M * q + a * r
    BY <1>3, <1>5, SMT
  <2>2. a * r \in 0 .. M - 1
    <3>1. a * r \in Nat /\ a * (b - 1 - r) \in Nat
      BY <1>3, <1>5, SMT
    <3>2. a * (b - 1 - r) = M - a - a * r
      BY <1>3, <1>5, SMT
    <3> QED BY <1>1, <1>3, <3>1, <3>2
  <2> DEFINE y == x * a
             z == a * r
  <2>3. y = M * q + z /\ z \in 0 .. M - 1 /\ q \in Int
    BY <1>5, <2>1, <2>2
  <2> HIDE DEF y, z
  <2>4. y % M = z
    BY <1>1, <2>3, QuotientIs
  <2> QED BY <2>4 DEF y, z
<1>8. a * r + q \in 0 .. M - 1
  <2>1. a * r \in Nat /\ a * (b - 1 - r) \in Nat
    BY <1>3, <1>5, SMT
  <2>2. a * (b - 1 - r) = M - a - a * r
    BY <1>3, <1>5, SMT
  <2> QED BY <1>1, <1>3, <1>6, <2>1, <2>2
<1> QED BY <1>4, <1>7, <1>8 DEF q, M, Salsa!Word

(* So is a word rotated by each of the four distances of core().           *)
LEMMA RotlIsWord ==
  ASSUME NEW x \in Salsa!Word
  PROVE  /\ Salsa!Rotl(x, 7) \in Salsa!Word /\ Salsa!Rotl(x, 9) \in Salsa!Word
         /\ Salsa!Rotl(x, 13) \in Salsa!Word /\ Salsa!Rotl(x, 18) \in Salsa!Word
BY RotatedIsWord

(* A quarter round of words gives words.                                   *)
LEMMA MixedIsWord ==
  ASSUME NEW t0 \in Salsa!Word, NEW t1 \in Salsa!Word, NEW t2 \in Salsa!Word, NEW t3 \in Salsa!Word
  PROVE  \A i \in 1 .. 4 : Mixed(t0, t1, t2, t3)[i] \in Salsa!Word
<1> DEFINE z1 == Salsa!XOR(t1, Salsa!Rotl(Salsa!Add(t0, t3), 7))
           z2 == Salsa!XOR(t2, Salsa!Rotl(Salsa!Add(z1, t0), 9))
           z3 == Salsa!XOR(t3, Salsa!Rotl(Salsa!Add(z2, z1), 13))
           z0 == Salsa!XOR(t0, Salsa!Rotl(Salsa!Add(z3, z2), 18))
<1>1. z1 \in Salsa!Word
  BY XorIsWord, AddIsWord, RotlIsWord
<1> HIDE DEF z1
<1>2. z2 \in Salsa!Word
  BY <1>1, XorIsWord, AddIsWord, RotlIsWord
<1> HIDE DEF z2
<1>3. z3 \in Salsa!Word
  BY <1>1, <1>2, XorIsWord, AddIsWord, RotlIsWord
<1> HIDE DEF z3
<1>4. z0 \in Salsa!Word
  BY <1>2, <1>3, XorIsWord, AddIsWord, RotlIsWord
<1> HIDE DEF z0
<1>5. Mixed(t0, t1, t2, t3) = <<z0, z1, z2, z3>>
  BY DEF Mixed, z0, z1, z2, z3
<1> QED BY <1>1, <1>2, <1>3, <1>4, <1>5

LoadStep(p, at, u, i) == u + p[at + i] * Salsa!Power[(WordBits \div 4) * i]
(* The loop of ld32. *)
LEMMA LoadChain ==
  ASSUME NEW p, NEW at
  PROVE  \E f : /\ f[0] = 0
                /\ \A i \in 0 .. 3 : f[i + 1] = LoadStep(p, at, f[i], i)
                /\ Salsa!LoadLE(p, at, 4) = f[4]
<1> DEFINE Eq(fn, top) == fn = [i \in 0 .. top |->
             IF i = 0 THEN 0
             ELSE LoadStep(p, at, fn[i - 1], i - 1)]
           G == {top \in Nat : \E fn : Eq(fn, top)}
<1>1. ASSUME NEW top \in Nat, \A low \in 0 .. top - 1 : low \in G PROVE top \in G
  <2>1. CASE top = 0
    <3>1. Eq([i \in 0 .. top |-> 0], top)
      BY <2>1
    <3> QED BY <3>1
  <2>2. CASE top # 0
    <3>1. PICK f : Eq(f, top - 1)
      <4>1. top - 1 \in 0 .. top - 1
        BY <2>2
      <4> HIDE DEF Eq, G
      <4>2. top - 1 \in G
        BY <1>1, <4>1
      <4> QED BY <4>2 DEF G
    <3> DEFINE g == [i \in 0 .. top |->
                     IF i = top THEN LoadStep(p, at, f[top - 1], top - 1) ELSE f[i]]
    <3>2. Eq(g, top)
      BY <2>2, <3>1
    <3> QED BY <3>2
  <2> QED BY <2>1, <2>2
<1>2. PICK f : Eq(f, 4)
  <2>1. 4 \in G
    BY <1>1, CompleteInduction
  <2> QED BY <2>1
<1> DEFINE h == CHOOSE fn : Eq(fn, 4)
<1>3. Eq(h, 4)
  BY <1>2
<1>4. Salsa!LoadLE(p, at, 4) = h[4]
  BY DEF LoadStep, Salsa!LoadLE, Salsa!Iterate, Salsa!Then
<1> HIDE DEF h
<1>5. h[0] = 0 /\ \A i \in 0 .. 3 : h[i + 1] = LoadStep(p, at, h[i], i)
  BY <1>3
<1> QED BY <1>4, <1>5

(* Four bytes are a word.                                                  *)
LEMMA LoadIsWord ==
  ASSUME NEW p, NEW at, \A i \in 0 .. 3 : p[at + i] \in 0 .. Salsa!Power[WordBits \div 4] - 1
  PROVE  Salsa!ld32(p, at) \in Salsa!Word
<1>1. PICK f : /\ f[0] = 0
               /\ \A i \in 0 .. 3 : f[i + 1] = LoadStep(p, at, f[i], i)
               /\ Salsa!LoadLE(p, at, 4) = f[4]
  BY LoadChain
<1> DEFINE B == Salsa!Power[Quarter]
           E(i) == Salsa!Power[Quarter * i]
           G == {i \in 0 .. 4 : f[i] \in 0 .. E(i) - 1}
<1>2. /\ B \in Nat \ {0} /\ E(0) = 1 /\ E(4) = Salsa!Power[WordBits]
      /\ \A i \in 0 .. 4 : E(i) \in Nat \ {0}
      /\ \A i \in 0 .. 4 - 1 : E(i + 1) = E(i) * B
  BY PowersOfBytes DEF Fills
<1>3. 0 \in G
  BY <1>1, <1>2
<1>4. ASSUME NEW i \in 0 .. 4 - 1, i \in G PROVE i + 1 \in G
  <2> DEFINE d == p[at + i]
             e == E(i)
             u == f[i]
  <2>1. f[i + 1] = u + d * e /\ d \in 0 .. B - 1
    BY <1>1 DEF LoadStep, Quarter
  <2>2. E(i + 1) = e * B /\ e \in Nat \ {0} /\ i + 1 \in 0 .. 4
    BY <1>2
  <2>3. u \in 0 .. e - 1
    BY <1>4
  <2> HIDE DEF B, E, d, e, u
  <2>4. u + d * e \in 0 .. e * B - 1
    <3>1. e * d \in Nat /\ e * (B - 1 - d) \in Nat
      BY <1>2, <2>1, <2>2, SMT
    <3>2. e * (B - 1 - d) = e * B - e - e * d /\ d * e = e * d /\ e * B \in Nat
      BY <1>2, <2>1, <2>2, SMT
    <3> QED BY <2>3, <3>1, <3>2, <2>2
  <2> QED BY <2>1, <2>2, <2>4
<1>5. 4 \in G
  <2> HIDE DEF G
  <2> QED BY <1>3, <1>4, StepsUpTo
<1> QED BY <1>1, <1>2, <1>5 DEF Salsa!Word, Salsa!ld32

(* The matrix that the rounds start from, and that after each round, has    *)
(* words in it.                                                            *)
IsWords(x) == \A p \in 0 .. 15 : x[p] \in Salsa!Word
IsBytes(p, n) == \A i \in 0 .. n - 1 : p[i] \in 0 .. Salsa!Power[WordBits \div 4] - 1
(* The matrix that core() loads has words in it.                           *)
LEMMA StartIsWords ==
  ASSUME NEW in, NEW k, IsBytes(in, 16), IsBytes(k, 32)
  PROVE  IsWords(Salsa!StartMatrix(in, k, Salsa!sigma))
<1>1. IsBytes(Salsa!sigma, 16)
  <2>1. ASSUME NEW i \in 0 .. 15 PROVE Salsa!sigma[i] \in 0 .. Salsa!Power[WordBits \div 4] - 1
    <3>1. Salsa!sigma[i] = (5 * i + 1) % Salsa!Power[WordBits \div 4]
      BY DEF Salsa!sigma
    <3>2. Salsa!Power[WordBits \div 4] \in Nat \ {0}
      BY PowersOfBytes DEF Fills, Quarter
    <3> DEFINE B == Salsa!Power[WordBits \div 4]
    <3> HIDE DEF B
    <3>3. B \in Nat \ {0}
      BY <3>2 DEF B
    <3>4. (5 * i + 1) % B \in 0 .. B - 1
      BY <3>3
    <3> QED BY <3>1, <3>4 DEF B
  <2> QED BY <2>1 DEF IsBytes
<1>2. ASSUME NEW p, NEW n \in Nat, IsBytes(p, n), NEW at \in Nat, at + 3 < n
      PROVE  Salsa!ld32(p, at) \in Salsa!Word
  <2>1. ASSUME NEW i \in 0 .. 3 PROVE p[at + i] \in 0 .. Salsa!Power[WordBits \div 4] - 1
    <3>1. at + i \in 0 .. n - 1
      BY <1>2
    <3> QED BY <1>2, <3>1 DEF IsBytes
  <2> QED BY <2>1, LoadIsWord
<1> DEFINE y == Salsa!StartMatrix(in, k, Salsa!sigma)
<1>3. ASSUME NEW p \in 0 .. 15 PROVE y[p] \in Salsa!Word
  <2>1. CASE p % 5 = 0
    <3>1. y[p] = Salsa!ld32(Salsa!sigma, 4 * (p \div 5))
      BY <2>1 DEF Salsa!StartMatrix
    <3>2. 4 * (p \div 5) \in Nat /\ 4 * (p \div 5) + 3 < 16
      BY <2>1
    <3> QED BY <1>1, <1>2, <3>1, <3>2
  <2>2. CASE p \in 1 .. 4
    <3>1. y[p] = Salsa!ld32(k, 4 * (p - 1))
      BY <2>2 DEF Salsa!StartMatrix
    <3>2. 4 * (p - 1) \in Nat /\ 4 * (p - 1) + 3 < 32
      BY <2>2
    <3> QED BY <1>2, <3>1, <3>2
  <2>3. CASE p \in 6 .. 9
    <3>1. y[p] = Salsa!ld32(in, 4 * (p - 6))
      BY <2>3 DEF Salsa!StartMatrix
    <3>2. 4 * (p - 6) \in Nat /\ 4 * (p - 6) + 3 < 16
      BY <2>3
    <3> QED BY <1>2, <3>1, <3>2
  <2>4. CASE p \in 11 .. 14
    <3>1. y[p] = Salsa!ld32(k, 16 + 4 * (p - 11))
      BY <2>4 DEF Salsa!StartMatrix
    <3>2. 16 + 4 * (p - 11) \in Nat /\ (16 + 4 * (p - 11)) + 3 < 32
      BY <2>4
    <3> QED BY <1>2, <3>1, <3>2
  <2>5. p % 5 = 0 \/ p \in 1 .. 4 \/ p \in 6 .. 9 \/ p \in 11 .. 14
    OBVIOUS
  <2> QED BY <2>1, <2>2, <2>3, <2>4, <2>5
<1> HIDE DEF y
<1> QED BY <1>3 DEF IsWords, y

(* The twenty rounds of core() keep words.                                 *)
LEMMA TurnsAreWords ==
  ASSUME NEW y, IsWords(y)
  PROVE  IsWords(Salsa!Turns(y))
<1>1. PICK f : /\ f[0] = y
               /\ \A i \in 0 .. 19 : f[i + 1] = Salsa!Turn(f[i], i)
               /\ Salsa!Turns(y) = f[20]
  BY TurnsChain
<1> DEFINE G == {i \in 0 .. 20 : IsWords(f[i])}
<1>2. 0 \in G
  BY <1>1
<1>3. ASSUME NEW i \in 0 .. 20 - 1, i \in G PROVE i + 1 \in G
  <2>1. i \in 0 .. 19 /\ i + 1 \in 0 .. 20
    OBVIOUS
  <2>2. IsWords(f[i]) /\ MixedInto(f[i + 1], Rows, f[i], Cols)
    BY <1>1, <1>3, <2>1, TurnMixes
  <2>3. ASSUME NEW p \in 0 .. 15 PROVE f[i + 1][p] \in Salsa!Word
    <3>1. PICK j \in 0 .. 3, m \in 0 .. 3 : p = Rows[j][m]
      BY ColsAndRows DEF AllPositions
    <3>2. f[i + 1][p] = MixedAt(f[i], Cols, j)[m + 1]
      BY <2>2, <3>1 DEF MixedInto
    <3>3. \A n \in 0 .. 3 : Cols[j][n] \in 0 .. 15
      BY ColsAndRows DEF Disjoint
    <3>4. /\ f[i][Cols[j][0]] \in Salsa!Word /\ f[i][Cols[j][1]] \in Salsa!Word
          /\ f[i][Cols[j][2]] \in Salsa!Word /\ f[i][Cols[j][3]] \in Salsa!Word
      BY <2>2, <3>3 DEF IsWords
    <3>5. m + 1 \in 1 .. 4
      OBVIOUS
    <3>6. MixedAt(f[i], Cols, j)[m + 1] \in Salsa!Word
      BY <3>4, <3>5, MixedIsWord DEF MixedAt
    <3> QED BY <3>2, <3>6
  <2> QED BY <2>1, <2>3 DEF IsWords
<1>4. 20 \in G
  <2> HIDE DEF G
  <2> QED BY <1>2, <1>3, StepsUpTo
<1> QED BY <1>1, <1>4

(* The core of the code is the hash of the definition.                     *)
LEMMA CoreIsSpec ==
  ASSUME NEW in, NEW k
  PROVE  Salsa!crypto_core_salsa20(in, k, Salsa!sigma) = Salsa!SpecSalsa20(in, k)
<1> DEFINE y == Salsa!StartMatrix(in, k, Salsa!sigma)
           x == Salsa!Turns(y)
           sum == [p \in 0 .. 15 |-> Salsa!Add(x[p], y[p])]
<1>1. Salsa!crypto_core_salsa20(in, k, Salsa!sigma) = [b \in 0 .. 63 |-> Salsa!st32(sum[b \div 4], b % 4)]
  BY DEF Salsa!crypto_core_salsa20, Salsa!core
<1>2. Salsa!SpecRounds(in, k) = x
  BY TurnsAreRounds
<1>3. Salsa!SpecSalsa20(in, k) = [b \in 0 .. 63 |-> Salsa!ByteLE(Salsa!Add(x[b \div 4], y[b \div 4]), b % 4, 4)]
  BY <1>2 DEF Salsa!SpecSalsa20
<1> HIDE DEF x, y
<1>4. ASSUME NEW b \in 0 .. 63
      PROVE  Salsa!st32(sum[b \div 4], b % 4) = Salsa!ByteLE(Salsa!Add(x[b \div 4], y[b \div 4]), b % 4, 4)
  <2>1. b \div 4 \in 0 .. 15
    OBVIOUS
  <2>2. sum[b \div 4] = Salsa!Add(x[b \div 4], y[b \div 4])
    BY <2>1
  <2> QED BY <2>2 DEF Salsa!st32
<1> HIDE DEF sum
<1> QED BY <1>1, <1>3, <1>4

(* So is the core that makes a key: it subtracts what it has added.        *)
LEMMA HCoreIsSpec ==
  ASSUME NEW in, NEW k, IsBytes(in, 16), IsBytes(k, 32)
  PROVE  Salsa!crypto_core_hsalsa20(in, k, Salsa!sigma) = Salsa!SpecHSalsa20(in, k)
<1> DEFINE c == Salsa!sigma
           y == Salsa!StartMatrix(in, k, c)
           x == Salsa!Turns(y)
           sum == [p \in 0 .. 15 |-> Salsa!Add(x[p], y[p])]
           diff == [p \in 0 .. 15 |->
                 CASE p % 5 = 0 -> Salsa!Sub(sum[p], Salsa!ld32(c, 4 * (p \div 5)))
                   [] p \in 6 .. 9 -> Salsa!Sub(sum[p], Salsa!ld32(in, 4 * (p - 6)))
                   [] OTHER -> sum[p]]
           at(b) == IF b < 16 THEN 5 * (b \div 4) ELSE 6 + (b - 16) \div 4
           order == <<0, 5, 10, 15, 6, 7, 8, 9>>
<1>1. Salsa!crypto_core_hsalsa20(in, k, c) = [b \in 0 .. 31 |-> Salsa!st32(diff[at(b)], b % 4)]
  BY DEF Salsa!crypto_core_hsalsa20, Salsa!core
<1>2. IsWords(x) /\ IsWords(y)
  BY StartIsWords, TurnsAreWords
<1>3. Salsa!SpecRounds(in, k) = x
  BY TurnsAreRounds
<1>4. Salsa!SpecHSalsa20(in, k) = [b \in 0 .. 31 |-> Salsa!ByteLE(x[order[b \div 4 + 1]], b % 4, 4)]
  BY <1>3 DEF Salsa!SpecHSalsa20
<1>5. ASSUME NEW p \in 0 .. 15
      PROVE  /\ p % 5 = 0 => y[p] = Salsa!ld32(c, 4 * (p \div 5))
             /\ p \in 6 .. 9 => y[p] = Salsa!ld32(in, 4 * (p - 6))
  BY DEF Salsa!StartMatrix
<1> HIDE DEF x, y, c
<1>6. ASSUME NEW p \in 0 .. 15, p % 5 = 0 \/ p \in 6 .. 9 PROVE diff[p] = x[p]
  <2>1. sum[p] = Salsa!Add(x[p], y[p]) /\ x[p] \in Salsa!Word /\ y[p] \in Salsa!Word
    BY <1>2 DEF IsWords
  <2>2. Salsa!Sub(sum[p], y[p]) = x[p]
    BY <2>1, SubOfAdd
  <2> HIDE DEF sum
  <2>3. diff[p] = Salsa!Sub(sum[p], y[p])
    <3>1. CASE p % 5 = 0
      BY <1>5, <3>1
    <3>2. CASE p % 5 # 0 /\ p \in 6 .. 9
      BY <1>5, <3>2
    <3> QED BY <1>6, <3>1, <3>2
  <2> QED BY <2>2, <2>3
<1> HIDE DEF diff, sum
<1>7. ASSUME NEW b \in 0 .. 31
      PROVE  Salsa!st32(diff[at(b)], b % 4) = Salsa!ByteLE(x[order[b \div 4 + 1]], b % 4, 4)
  <2>1. at(b) \in 0 .. 15 /\ (at(b) % 5 = 0 \/ at(b) \in 6 .. 9)
    OBVIOUS
  <2>2. order[b \div 4 + 1] = at(b)
    <3>1. \A d \in 0 .. 7 : order[d + 1] = IF d < 4 THEN 5 * d ELSE 6 + (d - 4)
      OBVIOUS
    <3>2. b \div 4 \in 0 .. 7 /\ (b \div 4 < 4 <=> b < 16) /\ (b - 16) \div 4 = b \div 4 - 4
      OBVIOUS
    <3> QED BY <3>1, <3>2
  <2>3. diff[at(b)] = x[at(b)]
    <3> HIDE DEF at
    <3> QED BY <1>6, <2>1
  <2> QED BY <2>2, <2>3 DEF Salsa!st32
<1> HIDE DEF at, order
<1> QED BY <1>1, <1>4, <1>7 DEF c

(* The digits of the block counter and what is left above them.            *)
Digit(j, i) == IF i < 4 THEN Salsa!ByteLE(j % Salsa!Power[WordBits], i, 4)
               ELSE Salsa!ByteLE(j \div Salsa!Power[WordBits], i - 4, 4)
Quot(j, i) == IF i < 4 THEN j \div Salsa!Power[(WordBits \div 4) * i]
              ELSE (j \div Salsa!Power[WordBits]) \div Salsa!Power[(WordBits \div 4) * (i - 4)]

(* The digits of the block counter are its remainders, one byte after      *)
(* another, when it is divided by the size of a byte.                      *)
LEMMA QuotDigit ==
  ASSUME NEW j \in Nat, NEW i \in 0 .. 7
  PROVE  /\ Quot(j, i) \in Nat
         /\ Quot(j + 1, i) \in {Quot(j, i), Quot(j, i) + 1}
         /\ Digit(j, i) = Quot(j, i) % Salsa!Power[WordBits \div 4]
         /\ Quot(j, i + 1) = Quot(j, i) \div Salsa!Power[WordBits \div 4]
<1> DEFINE B == Salsa!Power[Quarter]
           M == Salsa!Power[WordBits]
           E(k) == Salsa!Power[Quarter * k]
           Q(x, k) == x \div E(k)
<1>1. /\ B \in Nat \ {0} /\ M \in Nat \ {0} /\ E(0) = 1 /\ E(4) = M
      /\ \A k \in 0 .. 4 : E(k) \in Nat \ {0}
      /\ \A k \in 0 .. 4 - 1 : E(k + 1) = E(k) * B /\ M = (E(k) * B) * E(4 - 1 - k)
  BY PowersOfBytes, WordIsInt DEF Fills
<1>2. \A x, k : Salsa!ByteLE(x, k, 4) = Q(x, k) % B
  BY DEF Salsa!ByteLE, Salsa!Shr, Quarter
<1>3. \A x, k : Quot(x, k) = IF k < 4 THEN Q(x, k) ELSE Q(x \div M, k - 4)
  BY DEF Quot, Quarter
<1>4. Digit(j, i) = IF i < 4 THEN Q(j % M, i) % B ELSE Q(j \div M, i - 4) % B
  BY <1>2 DEF Digit
<1> HIDE DEF B, M, E
<1>5. ASSUME NEW x \in Nat, NEW k \in 0 .. 3
      PROVE  /\ Q(x, k) \in Nat /\ Q(x + 1, k) \in {Q(x, k), Q(x, k) + 1}
             /\ Q(x, k + 1) = Q(x, k) \div B /\ Q(x % M, k) % B = Q(x, k) % B
  <2> DEFINE a == E(k)
             c == E(4 - 1 - k)
             y == x \div a
             bc == B * c
  <2>1. /\ a \in Nat \ {0} /\ c \in Nat \ {0} /\ E(k + 1) = a * B /\ M = (a * B) * c
        /\ x \in Int
    <3>1. k \in 0 .. 4 /\ 4 - 1 - k \in 0 .. 4 /\ k \in 0 .. 4 - 1
      OBVIOUS
    <3> QED BY <1>1, <3>1
  <2> HIDE DEF a, c
  <2>2. y \in Nat /\ (x + 1) \div a \in {y, y + 1}
    BY <2>1, Division, NextQuotient
  <2>3. x \div (a * B) = y \div B
    BY <1>1, <2>1, DividedTwice
  <2>4. bc \in Nat \ {0} /\ M = a * bc
    <3>1. bc \in Nat \ {0}
      BY <1>1, <2>1, Multiple
    <3> QED BY <1>1, <2>1, <3>1, SMT
  <2> HIDE DEF y, bc
  <2>5. (x % M) \div a = y % bc
    <3>1. (x % (a * bc)) \div a = (x \div a) % bc
      BY <2>1, <2>4, DividedTwice
    <3> QED BY <2>4, <3>1 DEF y
  <2>6. (y % bc) % B = y % B
    <3>1. y \in Int
      BY <2>2
    <3> QED BY <1>1, <2>1, <3>1, DividedTwice DEF bc
  <2> QED BY <2>1, <2>2, <2>3, <2>5, <2>6 DEF a, y
<1>6. CASE i \in 0 .. 3
  <2>1. CASE i + 1 < 4
    <3>1. i < 4 /\ i \in 0 .. 3
      BY <1>6
    <3> HIDE DEF Q
    <3> QED BY <1>3, <1>4, <1>5, <2>1, <3>1 DEF B, Quarter
  <2>2. CASE i = 3
    <3> DEFINE h == j \div M
    <3>1. ~ (4 < 4) /\ 4 - 4 = 0 /\ 3 + 1 = 4 /\ 3 < 4 /\ 3 \in 0 .. 3
      OBVIOUS
    <3>2. Quot(j, 4) = Q(h, 0)
      <4> HIDE DEF h, Q
      <4> QED BY <1>3, <3>1 DEF h
    <3>3. h \in Nat
      <4>1. j \in Int
        OBVIOUS
      <4> QED BY <1>1, <4>1, Division
    <3>4. Q(h, 0) = Q(j, 4)
      <4>1. h \div 1 = h
        <5> HIDE DEF h
        <5> QED BY <3>3, SMT
      <4> QED BY <1>1, <4>1
    <3> HIDE DEF Q, h
    <3> QED BY <1>3, <1>4, <1>5, <2>2, <3>1, <3>2, <3>4 DEF B, Quarter
  <2> QED BY <1>6, <2>1, <2>2
<1>7. CASE i \in 4 .. 7
  <2> DEFINE h == j \div M
             g == (j + 1) \div M
             k == i - 4
  <2>1. k \in 0 .. 3 /\ (i + 1) - 4 = k + 1 /\ ~ (i < 4) /\ ~ (i + 1 < 4)
    BY <1>7
  <2>2. h \in Nat /\ g \in {h, h + 1}
    <3>1. j \in Int
      OBVIOUS
    <3> QED BY <1>1, <3>1, Division, NextQuotient
  <2>3. /\ Quot(j, i) = Q(h, k) /\ Quot(j + 1, i) = Q(g, k) /\ Quot(j, i + 1) = Q(h, k + 1)
        /\ Digit(j, i) = Q(h, k) % B
    <3> HIDE DEF Q
    <3> QED BY <1>3, <1>4, <2>1
  <2> HIDE DEF h, g, k, Q
  <2>4. /\ Q(h, k) \in Nat /\ Q(h + 1, k) \in {Q(h, k), Q(h, k) + 1}
        /\ Q(h, k + 1) = Q(h, k) \div B
    BY <1>5, <2>1, <2>2
  <2> QED BY <2>2, <2>3, <2>4 DEF B, Quarter
<1> QED BY <1>6, <1>7

(* Adding a carry to a digit gives the next digit and the next carry.      *)
LEMMA CarryDigit ==
  ASSUME NEW q \in Nat, NEW r \in {q, q + 1}
  PROVE  LET B == Salsa!Power[WordBits \div 4]
         IN  /\ ((r - q) + (q % B)) % B = r % B
             /\ ((r - q) + (q % B)) \div B = (r \div B) - (q \div B)
<1> DEFINE B == Salsa!Power[WordBits \div 4]
           h == q \div B
           l == q % B
           x == (r - q) + l
<1>1. B \in Nat \ {0}
  BY PowersOfBytes DEF Fills, Quarter
<1>2. q = B * h + l /\ l \in 0 .. B - 1 /\ h \in Int
  <2>1. q \in Int
    OBVIOUS
  <2> QED BY <1>1, <2>1, Division
<1> HIDE DEF B, h, l
<1>3. r = B * h + x /\ x \in Int
  <2>1. B * h \in Int /\ r \in Int
    BY <1>1, <1>2
  <2> QED BY <1>2, <2>1
<1> HIDE DEF x
<1>4. r % B = x % B /\ r \div B = h + (x \div B) /\ x \div B \in Int
  BY <1>1, <1>2, <1>3, RemainderOfSum, Division
<1>5. x % B = r % B /\ x \div B = (r \div B) - h
  BY <1>2, <1>4
<1> QED BY <1>5 DEF x, h, l, B

(* The loop that counts. *)
LEMMA RippleChain ==
  ASSUME NEW z
  PROVE  \E f : /\ f[0] = [z |-> z, u |-> 1]
                /\ \A i \in 0 .. 7 : f[i + 1] = Salsa!Ripple(f[i], i)
                /\ Salsa!Increment(z) = f[8].z
<1> DEFINE Eq(fn, top) == fn = [i \in 0 .. top |->
             IF i = 0 THEN [z |-> z, u |-> 1]
             ELSE Salsa!Ripple(fn[i - 1], i - 1)]
           G == {top \in Nat : \E fn : Eq(fn, top)}
<1>1. ASSUME NEW top \in Nat, \A low \in 0 .. top - 1 : low \in G PROVE top \in G
  <2>1. CASE top = 0
    <3>1. Eq([i \in 0 .. top |-> [z |-> z, u |-> 1]], top)
      BY <2>1
    <3> QED BY <3>1
  <2>2. CASE top # 0
    <3>1. PICK f : Eq(f, top - 1)
      <4>1. top - 1 \in 0 .. top - 1
        BY <2>2
      <4> HIDE DEF Eq, G
      <4>2. top - 1 \in G
        BY <1>1, <4>1
      <4> QED BY <4>2 DEF G
    <3> DEFINE g == [i \in 0 .. top |->
                     IF i = top THEN Salsa!Ripple(f[top - 1], top - 1) ELSE f[i]]
    <3>2. Eq(g, top)
      BY <2>2, <3>1
    <3> QED BY <3>2
  <2> QED BY <2>1, <2>2
<1>2. PICK f : Eq(f, 8)
  <2>1. 8 \in G
    BY <1>1, CompleteInduction
  <2> QED BY <2>1
<1> DEFINE h == CHOOSE fn : Eq(fn, 8)
<1>3. Eq(h, 8)
  BY <1>2
<1>4. Salsa!Increment(z) = h[8].z
  BY DEF Salsa!Increment, Salsa!Iterate, Salsa!Then
<1> HIDE DEF h
<1>5. h[0] = [z |-> z, u |-> 1] /\ \A i \in 0 .. 7 : h[i + 1] = Salsa!Ripple(h[i], i)
  BY <1>3
<1> QED BY <1>4, <1>5


(* Incremented, the input of one block is that of the next.                *)
LEMMA IncrementIsNext ==
  ASSUME NEW j \in Nat, NEW n
  PROVE  Salsa!Increment(Salsa!SpecInput(j, n)) = Salsa!SpecInput(j + 1, n)
<1> DEFINE B == Salsa!Power[WordBits \div 4]
           z == Salsa!SpecInput(j, n)
<1>1. PICK f : /\ f[0] = [z |-> z, u |-> 1]
               /\ \A i \in 0 .. 7 : f[i + 1] = Salsa!Ripple(f[i], i)
               /\ Salsa!Increment(z) = f[8].z
  BY RippleChain
<1> DEFINE Bytes(i) == [p \in 0 .. 15 |-> IF p < 8 THEN n[p]
                         ELSE Digit(IF p - 8 < i THEN j + 1 ELSE j, p - 8)]
           Upto(i) == f[i] = [z |-> Bytes(i), u |-> Quot(j + 1, i) - Quot(j, i)]
           G == {i \in 0 .. 8 : Upto(i)}
<1>2. ASSUME NEW l \in Nat
      PROVE  Salsa!SpecInput(l, n) = [p \in 0 .. 15 |-> IF p < 8 THEN n[p] ELSE Digit(l, p - 8)]
  <2> DEFINE S(p) == CASE p < 8 -> n[p]
                       [] p \in 8 .. 11 -> Salsa!ByteLE(l % Salsa!Power[WordBits], p - 8, 4)
                       [] OTHER -> Salsa!ByteLE(l \div Salsa!Power[WordBits], p - 12, 4)
  <2>1. ASSUME NEW p \in 0 .. 15 PROVE S(p) = IF p < 8 THEN n[p] ELSE Digit(l, p - 8)
    <3>1. CASE p < 8
      BY <3>1
    <3>2. CASE p \in 8 .. 11
      <4>1. ~(p < 8) /\ p - 8 < 4
        BY <3>2
      <4> QED BY <3>2, <4>1 DEF Digit
    <3>3. CASE p \in 12 .. 15
      <4>1. ~(p < 8) /\ ~(p - 8 < 4) /\ (p - 8) - 4 = p - 12 /\ p \notin 8 .. 11
        BY <3>3
      <4> QED BY <4>1 DEF Digit
    <3> QED BY <3>1, <3>2, <3>3
  <2>2. Salsa!SpecInput(l, n) = [p \in 0 .. 15 |-> S(p)]
    BY DEF Salsa!SpecInput
  <2> HIDE DEF S
  <2> QED BY <2>1, <2>2
<1>3. 0 \in G
  <2>1. Quot(j + 1, 0) = j + 1 /\ Quot(j, 0) = j
    <3>1. Salsa!Power[(WordBits \div 4) * 0] = 1
      BY PowersOfBytes DEF Fills, Quarter
    <3>2. ASSUME NEW l \in Nat PROVE Quot(l, 0) = l
      <4>1. Quot(l, 0) = l \div Salsa!Power[(WordBits \div 4) * 0]
        BY DEF Quot
      <4>2. l \div 1 = l
        BY SMT
      <4> QED BY <3>1, <4>1, <4>2
    <3>3. j + 1 \in Nat
      OBVIOUS
    <3> QED BY <3>2, <3>3
  <2>2. Bytes(0) = z
    <3>1. ASSUME NEW p \in 0 .. 15, ~(p < 8) PROVE ~(p - 8 < 0)
      BY <3>1
    <3> QED BY <1>2, <3>1
  <2> HIDE DEF Bytes, z
  <2> QED BY <1>1, <2>1, <2>2
<1>4. ASSUME NEW i \in 0 .. 8 - 1, i \in G PROVE i + 1 \in G
  <2>1. i \in 0 .. 7 /\ i + 1 \in 0 .. 8 /\ 8 + i \in 0 .. 15 /\ (8 + i) - 8 = i /\ ~(8 + i < 8)
        /\ ~(i < i) /\ i < i + 1
    OBVIOUS
  <2> DEFINE c == Quot(j + 1, i) - Quot(j, i)
             u == c + Bytes(i)[8 + i]
  <2>2. f[i] = [z |-> Bytes(i), u |-> c]
    BY <1>4
  <2>3. Bytes(i)[8 + i] = Digit(j, i)
    BY <2>1
  <2>4. /\ Quot(j, i) \in Nat /\ Quot(j + 1, i) \in {Quot(j, i), Quot(j, i) + 1}
        /\ Digit(j, i) = Quot(j, i) % B /\ Digit(j + 1, i) = Quot(j + 1, i) % B
        /\ Quot(j, i + 1) = Quot(j, i) \div B /\ Quot(j + 1, i + 1) = Quot(j + 1, i) \div B
    <3>1. j + 1 \in Nat
      OBVIOUS
    <3> HIDE DEF B
    <3> QED BY <2>1, <3>1, QuotDigit DEF B
  <2>5. u % B = Digit(j + 1, i) /\ u \div B = Quot(j + 1, i + 1) - Quot(j, i + 1)
    <3> DEFINE q == Quot(j, i)
               r == Quot(j + 1, i)
    <3>1. /\ ((r - q) + (q % B)) % B = r % B
          /\ ((r - q) + (q % B)) \div B = (r \div B) - (q \div B)
      <4>1. q \in Nat /\ r \in {q, q + 1}
        BY <2>4
      <4> HIDE DEF q, r
      <4> QED BY <4>1, CarryDigit
    <3> HIDE DEF B, Bytes
    <3> QED BY <2>3, <2>4, <3>1
  <2>6. f[i + 1] = [z |-> [Bytes(i) EXCEPT ![8 + i] = u % B], u |-> u \div B]
    <3>1. f[i + 1] = Salsa!Ripple(f[i], i)
      BY <1>1, <2>1
    <3> HIDE DEF Bytes, c
    <3> QED BY <2>2, <3>1 DEF Salsa!Ripple
  <2>7. [Bytes(i) EXCEPT ![8 + i] = Digit(j + 1, i)] = Bytes(i + 1)
    <3>1. ASSUME NEW p \in 0 .. 15, p # 8 + i PROVE p - 8 < i <=> p - 8 < i + 1
      BY <3>1
    <3>2. ASSUME NEW p \in 0 .. 15 PROVE [Bytes(i) EXCEPT ![8 + i] = Digit(j + 1, i)][p] = Bytes(i + 1)[p]
      <4>1. CASE p = 8 + i
        BY <2>1, <4>1
      <4>2. CASE p # 8 + i
        BY <3>1, <4>2
      <4> QED BY <4>1, <4>2
    <3> DEFINE L == [Bytes(i) EXCEPT ![8 + i] = Digit(j + 1, i)]
    <3>3. L = [p \in 0 .. 15 |-> L[p]] /\ Bytes(i + 1) = [p \in 0 .. 15 |-> Bytes(i + 1)[p]]
      OBVIOUS
    <3> HIDE DEF L, Bytes
    <3>4. \A p \in 0 .. 15 : L[p] = Bytes(i + 1)[p]
      BY <3>2 DEF L
    <3> QED BY <3>3, <3>4 DEF L
  <2> HIDE DEF u, B, Bytes
  <2>8. Upto(i + 1)
    BY <2>5, <2>6, <2>7
  <2> QED BY <2>1, <2>8
<1>5. Upto(8)
  <2> HIDE DEF Upto
  <2>1. 8 \in G
    <3> HIDE DEF G
    <3> QED BY <1>3, <1>4, StepsUpTo
  <2> QED BY <2>1
<1>6. Bytes(8) = Salsa!SpecInput(j + 1, n)
  <2>1. ASSUME NEW p \in 0 .. 15 PROVE p - 8 < 8
    OBVIOUS
  <2> QED BY <1>2, <2>1
<1> HIDE DEF Bytes, z
<1> QED BY <1>1, <1>5, <1>6 DEF z

(* The blocks of a stream of b bytes, and the record before the first.     *)
StreamSize(b) == (b + 63) \div 64
StreamStart(n) == [c |-> << >>, z |-> [p \in 0 .. 15 |-> IF p < 8 THEN n[p] ELSE 0]]
(* The blocks of the stream. *)
LEMMA StreamChain ==
  ASSUME NEW m, NEW b, NEW n, NEW k, StreamSize(b) \in Nat
  PROVE  \E f : /\ f[0] = StreamStart(n)
                /\ \A i \in 0 .. StreamSize(b) - 1 : f[i + 1] = Salsa!XorBlock(f[i], i, m, b, k)
                /\ Salsa!crypto_stream_salsa20_xor(m, b, n, k) = f[StreamSize(b)].c
<1> DEFINE Eq(fn, top) == fn = [i \in 0 .. top |->
             IF i = 0 THEN StreamStart(n)
             ELSE Salsa!XorBlock(fn[i - 1], i - 1, m, b, k)]
           G == {top \in Nat : \E fn : Eq(fn, top)}
<1>1. ASSUME NEW top \in Nat, \A low \in 0 .. top - 1 : low \in G PROVE top \in G
  <2>1. CASE top = 0
    <3>1. Eq([i \in 0 .. top |-> StreamStart(n)], top)
      BY <2>1
    <3> QED BY <3>1
  <2>2. CASE top # 0
    <3>1. PICK f : Eq(f, top - 1)
      <4>1. top - 1 \in 0 .. top - 1
        BY <2>2
      <4> HIDE DEF Eq, G
      <4>2. top - 1 \in G
        BY <1>1, <4>1
      <4> QED BY <4>2 DEF G
    <3> DEFINE g == [i \in 0 .. top |->
                     IF i = top THEN Salsa!XorBlock(f[top - 1], top - 1, m, b, k) ELSE f[i]]
    <3>2. Eq(g, top)
      BY <2>2, <3>1
    <3> QED BY <3>2
  <2> QED BY <2>1, <2>2
<1>2. PICK f : Eq(f, StreamSize(b))
  <2>1. StreamSize(b) \in G
    BY <1>1, CompleteInduction
  <2> QED BY <2>1
<1> DEFINE h == CHOOSE fn : Eq(fn, StreamSize(b))
<1>3. Eq(h, StreamSize(b))
  BY <1>2
<1>4. Salsa!crypto_stream_salsa20_xor(m, b, n, k) = h[StreamSize(b)].c
  BY DEF StreamStart, StreamSize, Salsa!crypto_stream_salsa20_xor, Salsa!Iterate, Salsa!Then
<1> HIDE DEF h
<1>5. h[0] = StreamStart(n) /\ \A i \in 0 .. StreamSize(b) - 1 : h[i + 1] = Salsa!XorBlock(h[i], i, m, b, k)
  BY <1>3
<1> QED BY <1>4, <1>5


(* The record of the stream before each of its blocks, and after the last. *)
IsStream(f, m, b, n, k) ==
  /\ f[0] = StreamStart(n)
  /\ \A i \in 0 .. StreamSize(b) - 1 : f[i + 1] = Salsa!XorBlock(f[i], i, m, b, k)
  /\ Salsa!crypto_stream_salsa20_xor(m, b, n, k) = f[StreamSize(b)].c
(* The stream is what its blocks make of the record.                       *)
LEMMA StreamBlocks ==
  ASSUME NEW m, NEW b, NEW n, NEW k, StreamSize(b) \in Nat
  PROVE  \E f : IsStream(f, m, b, n, k)
<1>1. PICK f : /\ f[0] = StreamStart(n)
               /\ \A i \in 0 .. StreamSize(b) - 1 : f[i + 1] = Salsa!XorBlock(f[i], i, m, b, k)
               /\ Salsa!crypto_stream_salsa20_xor(m, b, n, k) = f[StreamSize(b)].c
  BY StreamChain
<1> QED BY <1>1 DEF IsStream

(* Two functions of 1 .. l and 1 .. r, one after the other.                *)
LEMMA ConcatFunctions ==
  ASSUME NEW l \in Nat, NEW r \in Nat, NEW s, NEW t,
         s = [i \in 1 .. l |-> s[i]], t = [i \in 1 .. r |-> t[i]]
  PROVE  s \o t = [i \in 1 .. l + r |-> IF i <= l THEN s[i] ELSE t[i - l]]
<1> DEFINE S == {s[i] : i \in 1 .. l} \cup {t[i] : i \in 1 .. r}
<1>1. s \in [1 .. l -> S] /\ t \in [1 .. r -> S]
  BY Zenon
<1> HIDE DEF S
<1>2. s \in Seq(S) /\ Len(s) = l /\ t \in Seq(S) /\ Len(t) = r
  BY <1>1
<1>3. s \o t \in Seq(S) /\ Len(s \o t) = l + r
  BY <1>2
<1>4. \A i \in 1 .. l + r : (s \o t)[i] = IF i <= l THEN s[i] ELSE t[i - l]
  BY <1>2
<1>5. s \o t = [i \in 1 .. l + r |-> (s \o t)[i]]
  BY <1>3
<1> QED BY <1>4, <1>5

(* The counter of the first block is zero.                                 *)
LEMMA FirstInput ==
  ASSUME NEW n
  PROVE  Salsa!SpecInput(0, n) = [p \in 0 .. 15 |-> IF p < 8 THEN n[p] ELSE 0]
<1>1. ASSUME NEW i \in 0 .. 3
      PROVE  Salsa!ByteLE(0 % Salsa!Power[WordBits], i, 4) = 0 /\ Salsa!ByteLE(0 \div Salsa!Power[WordBits], i, 4) = 0
  <2>1. Salsa!Power[WordBits] \in Nat \ {0} /\ Salsa!Power[WordBits \div 4] \in Nat \ {0}
        /\ Salsa!Power[(WordBits \div 4) * i] \in Nat \ {0}
    <3>1. i \in 0 .. 4
      OBVIOUS
    <3> QED BY <3>1, PowersOfBytes, WordIsInt DEF Fills, Quarter
  <2> DEFINE M == Salsa!Power[WordBits]
             B == Salsa!Power[WordBits \div 4]
             E == Salsa!Power[(WordBits \div 4) * i]
  <2>2. M \in Nat \ {0} /\ B \in Nat \ {0} /\ E \in Nat \ {0}
    BY <2>1
  <2>3. Salsa!ByteLE(0 % M, i, 4) = ((0 % M) \div E) % B /\ Salsa!ByteLE(0 \div M, i, 4) = ((0 \div M) \div E) % B
    BY DEF Salsa!ByteLE, Salsa!Shr
  <2> HIDE DEF M, B, E
  <2>4. \A x \in Nat \ {0} : 0 % x = 0 /\ 0 \div x = 0
    OBVIOUS
  <2>5. Salsa!ByteLE(0 % M, i, 4) = 0 /\ Salsa!ByteLE(0 \div M, i, 4) = 0
    BY <2>2, <2>3, <2>4
  <2> QED BY <2>5 DEF M
<1>2. ASSUME NEW p \in 0 .. 15
      PROVE  (CASE p < 8 -> n[p]
                [] p \in 8 .. 11 -> Salsa!ByteLE(0 % Salsa!Power[WordBits], p - 8, 4)
                [] OTHER -> Salsa!ByteLE(0 \div Salsa!Power[WordBits], p - 12, 4)) = IF p < 8 THEN n[p] ELSE 0
  <2>1. CASE p < 8
    BY <2>1
  <2>2. CASE p \in 8 .. 11
    <3>1. p - 8 \in 0 .. 3 /\ ~(p < 8)
      BY <2>2
    <3> QED BY <2>2, <3>1, <1>1
  <2>3. CASE p \in 12 .. 15
    <3>1. p - 12 \in 0 .. 3 /\ ~(p < 8) /\ p \notin 8 .. 11
      BY <2>3
    <3> QED BY <3>1, <1>1
  <2> QED BY <2>1, <2>2, <2>3
<1> QED BY <1>2 DEF Salsa!SpecInput

(* The stream of the code is that of the definition.                       *)
Stream(m, b, n, k) ==
  [i \in 1 .. b |-> Salsa!XOR(m[i - 1], Salsa!SpecBlock((i - 1) \div 64, n, k)[(i - 1) % 64])]
(* crypto_stream_salsa20_xor() joins the blocks of the definition, for     *)
(* every length.                                                           *)
LEMMA StreamIsSpec ==
  ASSUME NEW m, m # << >>, NEW b \in Nat, NEW n, NEW k
  PROVE  Salsa!crypto_stream_salsa20_xor(m, b, n, k) = Stream(m, b, n, k)
<1> DEFINE blocks == (b + 63) \div 64
           X(i) == Salsa!XOR(m[i - 1], Salsa!SpecBlock((i - 1) \div 64, n, k)[(i - 1) % 64])
           done(j) == IF 64 * j <= b THEN 64 * j ELSE b
<1>1. blocks \in Nat /\ blocks = (b + 63) \div 64 /\ done(blocks) = b
      /\ \A j \in 0 .. blocks - 1 : 64 * j < b /\ j \in Nat
  OBVIOUS
<1> HIDE DEF blocks
<1>2. PICK f : /\ f[0] = StreamStart(n)
               /\ \A j \in 0 .. blocks - 1 : f[j + 1] = Salsa!XorBlock(f[j], j, m, b, k)
               /\ Salsa!crypto_stream_salsa20_xor(m, b, n, k) = f[blocks].c
  <2>1. blocks \in Nat /\ blocks = StreamSize(b)
    BY <1>1 DEF StreamSize
  <2>2. PICK f : IsStream(f, m, b, n, k)
    BY <2>1, StreamBlocks
  <2> QED BY <2>1, <2>2 DEF IsStream
<1> DEFINE Upto(j) == f[j] = [c |-> [i \in 1 .. done(j) |-> X(i)], z |-> Salsa!SpecInput(j, n)]
           G == {j \in 0 .. blocks : Upto(j)}
<1>3. 0 \in G
  <2>1. StreamStart(n) = [c |-> << >>, z |-> Salsa!SpecInput(0, n)]
    BY FirstInput DEF StreamStart
  <2>2. done(0) = 0 /\ 1 .. 0 = {}
    OBVIOUS
  <2> HIDE DEF X, done
  <2>3. [i \in 1 .. done(0) |-> X(i)] = << >>
    BY <2>2
  <2>4. Upto(0)
    BY <1>2, <2>1, <2>3
  <2>5. 0 \in 0 .. blocks
    BY <1>1
  <2> HIDE DEF Upto
  <2> QED BY <2>4, <2>5
<1>4. ASSUME NEW j \in 0 .. blocks - 1, j \in G PROVE j + 1 \in G
  <2>1. 64 * j < b /\ j \in Nat /\ j + 1 \in 0 .. blocks /\ done(j) = 64 * j
        /\ f[j + 1] = Salsa!XorBlock(f[j], j, m, b, k)
    BY <1>1, <1>2
  <2> DEFINE s == [i \in 1 .. 64 * j |-> X(i)]
             z == Salsa!SpecInput(j, n)
             x == Salsa!SpecBlock(j, n, k)
             left == b - 64 * j
             r == IF left >= 64 THEN 64 ELSE left
             part == [i \in 1 .. r |-> Salsa!XOR(m[64 * j + i - 1], x[i - 1])]
  <2>2. f[j] = [c |-> s, z |-> z]
    BY <1>4, <2>1
  <2>3. Salsa!crypto_core_salsa20(z, k, Salsa!sigma) = x
    BY CoreIsSpec DEF Salsa!SpecBlock
  <2>4. Salsa!Increment(z) = Salsa!SpecInput(j + 1, n)
    BY <2>1, IncrementIsNext
  <2> HIDE DEF z, s
  <2>5. f[j + 1] = [c |-> s \o part, z |-> Salsa!SpecInput(j + 1, n)]
    <3> HIDE DEF x
    <3> QED BY <2>1, <2>2, <2>3, <2>4 DEF Salsa!XorBlock
  <2>6. r \in 1 .. 64 /\ 64 * j + r = done(j + 1) /\ 64 * j \in Nat
    BY <2>1
  <2> HIDE DEF r
  <2>7. ASSUME NEW i \in 1 .. r PROVE part[i] = X(64 * j + i)
    <3>1. (64 * j + i - 1) \div 64 = j /\ (64 * j + i - 1) % 64 = i - 1
      BY <2>1, <2>6
    <3>2. part[i] = Salsa!XOR(m[64 * j + i - 1], x[i - 1])
      <4> HIDE DEF x
      <4> QED OBVIOUS
    <3>3. X(64 * j + i) = Salsa!XOR(m[64 * j + i - 1], x[i - 1])
      BY <3>1
    <3> HIDE DEF X, x, part
    <3> QED BY <3>2, <3>3
  <2>8. s \o part = [i \in 1 .. 64 * j + r |-> IF i <= 64 * j THEN s[i] ELSE part[i - 64 * j]]
    <3>1. s = [i \in 1 .. 64 * j |-> s[i]]
      BY DEF s
    <3> DEFINE p == part
               u == r
               w == 64 * j
    <3>2. p = [i \in 1 .. u |-> p[i]]
      <4> HIDE DEF x
      <4> QED OBVIOUS
    <3>3. u \in Nat /\ w \in Nat /\ s = [i \in 1 .. w |-> s[i]]
      <4>1. r \in Nat /\ 64 * j \in Nat
        BY <2>6
      <4> QED BY <3>1, <4>1, Zenon
    <3> HIDE DEF p, u, w
    <3>4. s \o p = [i \in 1 .. w + u |-> IF i <= w THEN s[i] ELSE p[i - w]]
      BY <3>2, <3>3, ConcatFunctions
    <3> QED BY <3>4 DEF p, u, w
  <2> HIDE DEF part
  <2>9. ASSUME NEW i \in 1 .. 64 * j + r
        PROVE  (IF i <= 64 * j THEN s[i] ELSE part[i - 64 * j]) = X(i)
    <3>1. CASE i <= 64 * j
      <4>1. i \in 1 .. 64 * j
        BY <2>6, <3>1
      <4> HIDE DEF X
      <4> QED BY <3>1, <4>1 DEF s
    <3>2. CASE ~(i <= 64 * j)
      <4>1. i - 64 * j \in 1 .. r /\ 64 * j + (i - 64 * j) = i
        BY <2>6, <3>2
      <4>2. part[i - 64 * j] = X(64 * j + (i - 64 * j))
        <5> HIDE DEF X
        <5> QED BY <2>7, <4>1
      <4> HIDE DEF X
      <4> QED BY <3>2, <4>1, <4>2
    <3> QED BY <3>1, <3>2
  <2> HIDE DEF X, done
  <2>10. s \o part = [i \in 1 .. done(j + 1) |-> X(i)]
    BY <2>6, <2>8, <2>9
  <2>11. Upto(j + 1)
    BY <2>5, <2>10
  <2> QED BY <2>1, <2>11
<1>5. Upto(blocks)
  <2> HIDE DEF Upto
  <2>1. blocks \in G
    <3> HIDE DEF G
    <3> QED BY <1>1, <1>3, <1>4, StepsUpTo
  <2> QED BY <2>1
<1> HIDE DEF done
<1>6. f[blocks].c = [i \in 1 .. b |-> X(i)]
  <2> HIDE DEF X
  <2> QED BY <1>1, <1>5
<1> QED BY <1>2, <1>6 DEF Stream

(* And so is XSalsa20, whose key the other core makes.                     *)
LEMMA XSalsa20IsSpec ==
  ASSUME NEW m, m # << >>, NEW b \in Nat, NEW n, NEW k, IsBytes(n, 16), IsBytes(k, 32)
  PROVE  Salsa!crypto_stream_xor(m, b, n, k) = Salsa!SpecXSalsa20(m, b, n, k)
<1> DEFINE s == Salsa!SpecHSalsa20(n, k)
           h == Salsa!Behind(n, 16)
           block == [j \in 0 .. b \div 64 |-> Salsa!SpecBlock(j, h, s)]
<1>1. Salsa!crypto_stream_xor(m, b, n, k) = Salsa!crypto_stream_salsa20_xor(m, b, h, s)
  BY HCoreIsSpec DEF Salsa!crypto_stream_xor
<1>2. Salsa!SpecXSalsa20(m, b, n, k) =
        [i \in 1 .. b |-> Salsa!XOR(m[i - 1], block[(i - 1) \div 64][(i - 1) % 64])]
  BY DEF Salsa!SpecXSalsa20
<1> HIDE DEF s, h
<1>3. ASSUME NEW i \in 1 .. b PROVE block[(i - 1) \div 64] = Salsa!SpecBlock((i - 1) \div 64, h, s)
  <2>1. (i - 1) \div 64 \in 0 .. b \div 64
    OBVIOUS
  <2> QED BY <2>1
<1> HIDE DEF block
<1>4. Salsa!crypto_stream_salsa20_xor(m, b, h, s) = Stream(m, b, h, s)
  BY StreamIsSpec
<1> QED BY <1>1, <1>2, <1>3, <1>4 DEF Stream

(* crypto_stream_xor() is XSalsa20 for every length.                       *)
LEMMA KeystreamIsSpec ==
  ASSUME NEW b \in Nat
  PROVE  Salsa!crypto_stream_xor(Pattern(WordBits \div 4), b, Nonce24, Key) =
           Salsa!SpecXSalsa20(Pattern(WordBits \div 4), b, Nonce24, Key)
<1> DEFINE m == Pattern(WordBits \div 4)
<1>1. m # << >>
  <2>1. 0 \in DOMAIN m
    BY SizesAssumption
  <2> HIDE DEF m
  <2> QED BY <2>1
<1>2. IsBytes(Nonce24, 16) /\ IsBytes(Key, 32)
  <2> DEFINE B == Salsa!Power[WordBits \div 4]
  <2>1. Nonce24 \in [0 .. 23 -> 0 .. B - 1] /\ Key \in [0 .. 31 -> 0 .. B - 1]
    BY SizesAssumption, SamePowers
  <2> HIDE DEF B
  <2>2. /\ \A i \in 0 .. 16 - 1 : Nonce24[i] \in 0 .. B - 1
        /\ \A i \in 0 .. 32 - 1 : Key[i] \in 0 .. B - 1
    BY <2>1
  <2> QED BY <2>2 DEF IsBytes, B
<1> HIDE DEF m
<1>3. Salsa!crypto_stream_xor(m, b, Nonce24, Key) = Salsa!SpecXSalsa20(m, b, Nonce24, Key)
  BY <1>1, <1>2, XSalsa20IsSpec
<1> QED BY <1>3 DEF m

(* What is known of a call of crypto_stream_xor. *)
StreamInv ==
  call # Idle /\ call.of = "crypto_stream_xor" =>
    /\ call.args \in StreamLengths
    /\ "result" \in DOMAIN call => call.result = Salsa!crypto_stream_xor(Pattern(WordBits \div 4), call.args, Nonce24, Key)

(* A call keeps its length and returns what the algorithm computes. *)
LEMMA StreamInvariance == Spec => []StreamInv
<1>1. Init => StreamInv
  BY DEF Init, StreamInv
<1>2. ASSUME StreamInv, [Next]_call PROVE StreamInv'
  <2>1. CASE CallStream
    <3>1. PICK n \in StreamLengths : call' = [of |-> "crypto_stream_xor", args |-> n]
      BY <2>1 DEF CallStream, Call
    <3> QED BY <3>1 DEF StreamInv
  <2>2. CASE ReturnStream
    <3>1. call.args \in StreamLengths
      BY <1>2, <2>2 DEF StreamInv, ReturnStream, Called
    <3>2. call' = [of |-> call.of, args |-> call.args,
                   result |-> Salsa!crypto_stream_xor(Pattern(WordBits \div 4), call.args, Nonce24, Key)]
      BY <2>2 DEF ReturnStream, Returns
    <3>3. /\ call'.args = call.args
          /\ call'.result = Salsa!crypto_stream_xor(Pattern(WordBits \div 4), call.args, Nonce24, Key)
      BY <3>2
    <3> QED BY <3>1, <3>3 DEF StreamInv
  <2>3. CASE NotOf("crypto_stream_xor")
    BY <2>3 DEF NotOf, StreamInv
  <2>4. CASE UNCHANGED call
    BY <1>2, <2>4 DEF StreamInv
  <2> QED BY <1>2, <2>1, <2>2, <2>3, <2>4, StepsOfOne
<1> QED BY <1>1, <1>2, PTL DEF Spec

(* The stream is the exclusive or of the message with the blocks of key,    *)
(* nonce and a counter of eight bytes, for messages of every length.        *)
THEOREM KeystreamIsXSalsa20 == Spec => []KeystreamCounts
<1>1. StreamInv => KeystreamCounts
  <2> SUFFICES ASSUME StreamInv, Returned("crypto_stream_xor") PROVE KeystreamCounts
    BY DEF KeystreamCounts
  <2>1. call.args \in StreamLengths /\ call.result = Salsa!crypto_stream_xor(Pattern(WordBits \div 4), call.args, Nonce24, Key)
    BY DEF StreamInv, Returned
  <2>2. call.args \in Nat
    BY <2>1, SizesAssumption
  <2> QED BY <2>1, <2>2, KeystreamIsSpec DEF KeystreamCounts
<1> QED BY <1>1, StreamInvariance, PTL

-----------------------------------------------------------------------------
(* blake2b.c *)

(* The rounds of compress() of blake2b.c, on the state S and message m.     *)
CompressRounds(S, m, f) ==
  /\ f[0] = B2!StartState(S)
  /\ \A i \in 0 .. 11 : f[i + 1] = B2!Round(f[i], m, i)
CompressResult(S, block, f) == B2!compress(S, block) = [S EXCEPT !.h = B2!Chained(@, f[12])]
(* compress() is twelve of them.                                            *)
LEMMA Blake2bRoundsChain ==
  ASSUME NEW S, NEW block
  PROVE  \E f : CompressRounds(S, B2!Message(block), f) /\ CompressResult(S, block, f)
<1> DEFINE Eq(fn, top) == fn = [i \in 0 .. top |->
             IF i = 0 THEN B2!StartState(S)
             ELSE B2!Round(fn[i - 1], B2!Message(block), i - 1)]
           G == {top \in Nat : \E fn : Eq(fn, top)}
<1>1. ASSUME NEW top \in Nat, \A low \in 0 .. top - 1 : low \in G PROVE top \in G
  <2>1. CASE top = 0
    <3>1. Eq([i \in 0 .. top |-> B2!StartState(S)], top)
      BY <2>1
    <3> QED BY <3>1
  <2>2. CASE top # 0
    <3>1. PICK f : Eq(f, top - 1)
      <4>1. top - 1 \in 0 .. top - 1
        BY <2>2
      <4> HIDE DEF Eq, G
      <4>2. top - 1 \in G
        BY <1>1, <4>1
      <4> QED BY <4>2 DEF G
    <3> DEFINE g == [i \in 0 .. top |->
                     IF i = top THEN B2!Round(f[top - 1], B2!Message(block), top - 1) ELSE f[i]]
    <3>2. Eq(g, top)
      BY <2>2, <3>1
    <3> QED BY <3>2
  <2> QED BY <2>1, <2>2
<1>2. PICK f : Eq(f, 12)
  <2>1. 12 \in G
    BY <1>1, CompleteInduction
  <2> QED BY <2>1
<1> DEFINE h == CHOOSE fn : Eq(fn, 12)
<1>3. Eq(h, 12)
  BY <1>2
<1>4. B2!compress(S, block) = [S EXCEPT !.h = B2!Chained(@, h[12])]
  BY DEF B2!compress, B2!Iterate, B2!Then
<1> HIDE DEF h
<1>5. h[0] = B2!StartState(S) /\ \A i \in 0 .. 11 : h[i + 1] = B2!Round(h[i], B2!Message(block), i)
  BY <1>3
<1>6. CompressRounds(S, B2!Message(block), h)
  BY <1>5 DEF CompressRounds
<1>7. CompressResult(S, block, h)
  BY <1>4 DEF CompressResult
<1> QED BY <1>6, <1>7

(* The eight calls of a round of blake2b.c. *)
LEMMA Blake2bCallsChain ==
  ASSUME NEW v, NEW m, NEW r
  PROVE  \E f : /\ f[0] = v
                /\ \A i \in 0 .. 7 : f[i + 1] = B2!Mix(f[i], m, r, i)
                /\ B2!Round(v, m, r) = f[8]
<1> DEFINE Eq(fn, top) == fn = [i \in 0 .. top |->
             IF i = 0 THEN v
             ELSE B2!Mix(fn[i - 1], m, r, i - 1)]
           G == {top \in Nat : \E fn : Eq(fn, top)}
<1>1. ASSUME NEW top \in Nat, \A low \in 0 .. top - 1 : low \in G PROVE top \in G
  <2>1. CASE top = 0
    <3>1. Eq([i \in 0 .. top |-> v], top)
      BY <2>1
    <3> QED BY <3>1
  <2>2. CASE top # 0
    <3>1. PICK f : Eq(f, top - 1)
      <4>1. top - 1 \in 0 .. top - 1
        BY <2>2
      <4> HIDE DEF Eq, G
      <4>2. top - 1 \in G
        BY <1>1, <4>1
      <4> QED BY <4>2 DEF G
    <3> DEFINE g == [i \in 0 .. top |->
                     IF i = top THEN B2!Mix(f[top - 1], m, r, top - 1) ELSE f[i]]
    <3>2. Eq(g, top)
      BY <2>2, <3>1
    <3> QED BY <3>2
  <2> QED BY <2>1, <2>2
<1>2. PICK f : Eq(f, 8)
  <2>1. 8 \in G
    BY <1>1, CompleteInduction
  <2> QED BY <2>1
<1> DEFINE h == CHOOSE fn : Eq(fn, 8)
<1>3. Eq(h, 8)
  BY <1>2
<1>4. B2!Round(v, m, r) = h[8]
  BY DEF B2!Round, B2!Iterate, B2!Then
<1> HIDE DEF h
<1>5. h[0] = v /\ \A i \in 0 .. 7 : h[i + 1] = B2!Mix(h[i], m, r, i)
  BY <1>3
<1> QED BY <1>4, <1>5

(* The columns of a round of BLAKE2b. *)
LEMMA Blake2bColumnsChain ==
  ASSUME NEW v, NEW m, NEW r
  PROVE  \E f : /\ f[0] = v
                /\ \A i \in 0 .. 3 : f[i + 1] = B2!Column(f[i], m, r, i)
                /\ B2!Columns(v, m, r) = f[4]
<1> DEFINE Eq(fn, top) == fn = [i \in 0 .. top |->
             IF i = 0 THEN v
             ELSE B2!Column(fn[i - 1], m, r, i - 1)]
           G == {top \in Nat : \E fn : Eq(fn, top)}
<1>1. ASSUME NEW top \in Nat, \A low \in 0 .. top - 1 : low \in G PROVE top \in G
  <2>1. CASE top = 0
    <3>1. Eq([i \in 0 .. top |-> v], top)
      BY <2>1
    <3> QED BY <3>1
  <2>2. CASE top # 0
    <3>1. PICK f : Eq(f, top - 1)
      <4>1. top - 1 \in 0 .. top - 1
        BY <2>2
      <4> HIDE DEF Eq, G
      <4>2. top - 1 \in G
        BY <1>1, <4>1
      <4> QED BY <4>2 DEF G
    <3> DEFINE g == [i \in 0 .. top |->
                     IF i = top THEN B2!Column(f[top - 1], m, r, top - 1) ELSE f[i]]
    <3>2. Eq(g, top)
      BY <2>2, <3>1
    <3> QED BY <3>2
  <2> QED BY <2>1, <2>2
<1>2. PICK f : Eq(f, 4)
  <2>1. 4 \in G
    BY <1>1, CompleteInduction
  <2> QED BY <2>1
<1> DEFINE h == CHOOSE fn : Eq(fn, 4)
<1>3. Eq(h, 4)
  BY <1>2
<1>4. B2!Columns(v, m, r) = h[4]
  BY DEF B2!Columns, B2!Iterate, B2!Then
<1> HIDE DEF h
<1>5. h[0] = v /\ \A i \in 0 .. 3 : h[i + 1] = B2!Column(h[i], m, r, i)
  BY <1>3
<1> QED BY <1>4, <1>5

(* The diagonals of a round of BLAKE2b. *)
LEMMA Blake2bDiagonalsChain ==
  ASSUME NEW v, NEW m, NEW r
  PROVE  \E f : /\ f[0] = v
                /\ \A i \in 0 .. 3 : f[i + 1] = B2!Diagonal(f[i], m, r, i)
                /\ B2!Diagonals(v, m, r) = f[4]
<1> DEFINE Eq(fn, top) == fn = [i \in 0 .. top |->
             IF i = 0 THEN v
             ELSE B2!Diagonal(fn[i - 1], m, r, i - 1)]
           G == {top \in Nat : \E fn : Eq(fn, top)}
<1>1. ASSUME NEW top \in Nat, \A low \in 0 .. top - 1 : low \in G PROVE top \in G
  <2>1. CASE top = 0
    <3>1. Eq([i \in 0 .. top |-> v], top)
      BY <2>1
    <3> QED BY <3>1
  <2>2. CASE top # 0
    <3>1. PICK f : Eq(f, top - 1)
      <4>1. top - 1 \in 0 .. top - 1
        BY <2>2
      <4> HIDE DEF Eq, G
      <4>2. top - 1 \in G
        BY <1>1, <4>1
      <4> QED BY <4>2 DEF G
    <3> DEFINE g == [i \in 0 .. top |->
                     IF i = top THEN B2!Diagonal(f[top - 1], m, r, top - 1) ELSE f[i]]
    <3>2. Eq(g, top)
      BY <2>2, <3>1
    <3> QED BY <3>2
  <2> QED BY <2>1, <2>2
<1>2. PICK f : Eq(f, 4)
  <2>1. 4 \in G
    BY <1>1, CompleteInduction
  <2> QED BY <2>1
<1> DEFINE h == CHOOSE fn : Eq(fn, 4)
<1>3. Eq(h, 4)
  BY <1>2
<1>4. B2!Diagonals(v, m, r) = h[4]
  BY DEF B2!Diagonals, B2!Iterate, B2!Then
<1> HIDE DEF h
<1>5. h[0] = v /\ \A i \in 0 .. 3 : h[i + 1] = B2!Diagonal(h[i], m, r, i)
  BY <1>3
<1> QED BY <1>4, <1>5

(* The rounds of F. *)
LEMMA FRoundsChain ==
  ASSUME NEW h0, NEW m, NEW t, NEW f0
  PROVE  \E f : /\ f[0] = B2!SpecStart(h0, t, f0)
                /\ \A i \in 0 .. 11 : f[i + 1] = B2!Mixed(f[i], m, i)
                /\ B2!F(h0, m, t, f0) = B2!Chained(h0, f[12])
<1> DEFINE Eq(fn, top) == fn = [i \in 0 .. top |->
             IF i = 0 THEN B2!SpecStart(h0, t, f0)
             ELSE B2!Mixed(fn[i - 1], m, i - 1)]
           G == {top \in Nat : \E fn : Eq(fn, top)}
<1>1. ASSUME NEW top \in Nat, \A low \in 0 .. top - 1 : low \in G PROVE top \in G
  <2>1. CASE top = 0
    <3>1. Eq([i \in 0 .. top |-> B2!SpecStart(h0, t, f0)], top)
      BY <2>1
    <3> QED BY <3>1
  <2>2. CASE top # 0
    <3>1. PICK f : Eq(f, top - 1)
      <4>1. top - 1 \in 0 .. top - 1
        BY <2>2
      <4> HIDE DEF Eq, G
      <4>2. top - 1 \in G
        BY <1>1, <4>1
      <4> QED BY <4>2 DEF G
    <3> DEFINE g == [i \in 0 .. top |->
                     IF i = top THEN B2!Mixed(f[top - 1], m, top - 1) ELSE f[i]]
    <3>2. Eq(g, top)
      BY <2>2, <3>1
    <3> QED BY <3>2
  <2> QED BY <2>1, <2>2
<1>2. PICK f : Eq(f, 12)
  <2>1. 12 \in G
    BY <1>1, CompleteInduction
  <2> QED BY <2>1
<1> DEFINE h == CHOOSE fn : Eq(fn, 12)
<1>3. Eq(h, 12)
  BY <1>2
<1>4. B2!F(h0, m, t, f0) = B2!Chained(h0, h[12])
  BY DEF B2!F, B2!Iterate, B2!Then
<1> HIDE DEF h
<1>5. h[0] = B2!SpecStart(h0, t, f0) /\ \A i \in 0 .. 11 : h[i + 1] = B2!Mixed(h[i], m, i)
  BY <1>3
<1> QED BY <1>4, <1>5

(* The schedule of a round is that of the round modulo ten.                *)
LEMMA SigmaRepeats ==
  ASSUME NEW r \in 0 .. 11
  PROVE  B2!SIGMA[r + 1] = B2!SIGMA[(r % 10) + 1]
<1>1. CASE r \in 0 .. 9
  <2>1. r % 10 = r
    BY <1>1
  <2> QED BY <2>1
<1>2. CASE r = 10
  <2>1. r % 10 = 0
    BY <1>2
  <2>2. B2!SIGMA[11] = B2!SIGMA[1]
    BY DEF B2!SIGMA
  <2> QED BY <1>2, <2>1, <2>2
<1>3. CASE r = 11
  <2>1. r % 10 = 1
    BY <1>3
  <2>2. B2!SIGMA[12] = B2!SIGMA[2]
    BY DEF B2!SIGMA
  <2> QED BY <1>3, <2>1, <2>2
<1> QED BY <1>1, <1>2, <1>3

(* A call of compress() mixes a column or a diagonal.                      *)
LEMMA Blake2bMixIsColumn ==
  ASSUME NEW u, NEW m, NEW r \in 0 .. 11, NEW i \in 0 .. 3
  PROVE  /\ B2!Mix(u, m, r, i) = B2!Column(u, m, r, i)
         /\ B2!Mix(u, m, r, i + 4) = B2!Diagonal(u, m, r, i)
<1>1. B2!SIGMA[r + 1] = B2!SIGMA[(r % 10) + 1]
  BY SigmaRepeats
<1>2. 2 * (i + 4) + 1 = 2 * i + 9 /\ 2 * (i + 4) + 2 = 2 * i + 10
  OBVIOUS
<1>3. /\ B2!Calls[i + 1][1] = i /\ B2!Calls[i + 1][2] = 4 + i
      /\ B2!Calls[i + 1][3] = 8 + i /\ B2!Calls[i + 1][4] = 12 + i
  <2>1. CASE i = 0
    BY <2>1 DEF B2!Calls
  <2>2. CASE i = 1
    BY <2>2 DEF B2!Calls
  <2>3. CASE i = 2
    BY <2>3 DEF B2!Calls
  <2>4. CASE i = 3
    BY <2>4 DEF B2!Calls
  <2> QED BY <2>1, <2>2, <2>3, <2>4
<1>4. /\ B2!Calls[(i + 4) + 1][1] = i /\ B2!Calls[(i + 4) + 1][2] = 4 + ((i + 1) % 4)
      /\ B2!Calls[(i + 4) + 1][3] = 8 + ((i + 2) % 4)
      /\ B2!Calls[(i + 4) + 1][4] = 12 + ((i + 3) % 4)
  <2>1. CASE i = 0
    BY <2>1 DEF B2!Calls
  <2>2. CASE i = 1
    BY <2>2 DEF B2!Calls
  <2>3. CASE i = 2
    BY <2>3 DEF B2!Calls
  <2>4. CASE i = 3
    BY <2>4 DEF B2!Calls
  <2> QED BY <2>1, <2>2, <2>3, <2>4
<1>5. B2!Mix(u, m, r, i) = B2!Column(u, m, r, i)
  BY <1>1, <1>3 DEF B2!Mix, B2!Column
<1>6. B2!Mix(u, m, r, i + 4) = B2!Diagonal(u, m, r, i)
  BY <1>1, <1>2, <1>4 DEF B2!Mix, B2!Diagonal
<1> QED BY <1>5, <1>6

(* A round of compress() is a round of BLAKE2b.                            *)
LEMMA Blake2bRoundIsSpec ==
  ASSUME NEW v, NEW m, NEW r \in 0 .. 11
  PROVE  B2!Round(v, m, r) = B2!Mixed(v, m, r)
<1>1. PICK f : /\ f[0] = v
               /\ \A i \in 0 .. 7 : f[i + 1] = B2!Mix(f[i], m, r, i)
               /\ B2!Round(v, m, r) = f[8]
  BY Blake2bCallsChain
<1>2. PICK c : /\ c[0] = v
               /\ \A i \in 0 .. 3 : c[i + 1] = B2!Column(c[i], m, r, i)
               /\ B2!Columns(v, m, r) = c[4]
  BY Blake2bColumnsChain
<1>3. PICK d : /\ d[0] = B2!Columns(v, m, r)
               /\ \A i \in 0 .. 3 : d[i + 1] = B2!Diagonal(d[i], m, r, i)
               /\ B2!Diagonals(B2!Columns(v, m, r), m, r) = d[4]
  BY Blake2bDiagonalsChain
<1>4. ASSUME NEW i \in 0 .. 3, f[i] = c[i] PROVE f[i + 1] = c[i + 1]
  BY <1>1, <1>2, <1>4, Blake2bMixIsColumn
<1>5. f[4] = c[4]
  <2>1. f[0] = c[0]
    BY <1>1, <1>2
  <2>2. f[1] = c[1]
    BY <1>4, <2>1
  <2>3. f[2] = c[2]
    BY <1>4, <2>2
  <2>4. f[3] = c[3]
    BY <1>4, <2>3
  <2> QED BY <1>4, <2>4
<1>6. ASSUME NEW i \in 0 .. 3, f[i + 4] = d[i] PROVE f[(i + 1) + 4] = d[i + 1]
  <2>1. i + 4 \in 0 .. 7 /\ (i + 4) + 1 = (i + 1) + 4
    OBVIOUS
  <2>2. f[(i + 4) + 1] = B2!Mix(f[i + 4], m, r, i + 4)
    BY <1>1, <2>1
  <2>3. B2!Mix(f[i + 4], m, r, i + 4) = B2!Diagonal(f[i + 4], m, r, i)
    BY Blake2bMixIsColumn
  <2> QED BY <1>3, <1>6, <2>1, <2>2, <2>3
<1>7. f[8] = d[4]
  <2>1. f[0 + 4] = d[0]
    BY <1>2, <1>3, <1>5
  <2>2. f[(0 + 1) + 4] = d[0 + 1]
    BY <1>6, <2>1
  <2>3. f[(1 + 1) + 4] = d[1 + 1]
    BY <1>6, <2>2
  <2>4. f[(2 + 1) + 4] = d[2 + 1]
    BY <1>6, <2>3
  <2>5. f[(3 + 1) + 4] = d[3 + 1]
    BY <1>6, <2>4
  <2> QED BY <2>5
<1> QED BY <1>1, <1>3, <1>7 DEF B2!Mixed

(* compress() is F, given the words of the counter.                        *)
LEMMA Blake2bCompressIsF ==
  ASSUME NEW S, NEW block, NEW t, NEW m, m = B2!Message(block),
         S.t0 = t % B2!Power[WordBits], S.t1 = (t \div B2!Power[WordBits]) % B2!Power[WordBits], S.last \in BOOLEAN
  PROVE  B2!compress(S, block) = [S EXCEPT !.h = B2!F(S.h, m, t, S.last)]
<1>1. PICK f : /\ f[0] = B2!StartState(S)
               /\ \A i \in 0 .. 11 : f[i + 1] = B2!Round(f[i], m, i)
               /\ B2!compress(S, block) = [S EXCEPT !.h = B2!Chained(@, f[12])]
  <2>1. PICK f : CompressRounds(S, m, f) /\ CompressResult(S, block, f)
    BY Blake2bRoundsChain
  <2> QED BY <2>1 DEF CompressRounds, CompressResult
<1>2. PICK g : /\ g[0] = B2!SpecStart(S.h, t, S.last)
               /\ \A i \in 0 .. 11 : g[i + 1] = B2!Mixed(g[i], m, i)
               /\ B2!F(S.h, m, t, S.last) = B2!Chained(S.h, g[12])
  BY FRoundsChain
<1>3. B2!StartState(S) = B2!SpecStart(S.h, t, S.last)
  <2> DEFINE a == B2!StartState(S)
             v == [i \in 0 .. 15 |-> IF i < 8 THEN S.h[i] ELSE B2!IV[i - 8]]
             b == [v EXCEPT ![12] = B2!XOR(@, t % B2!Power[WordBits]),
                            ![13] = B2!XOR(@, (t \div B2!Power[WordBits]) % B2!Power[WordBits]),
                            ![14] = IF S.last THEN B2!Complement(@) ELSE @]
             T0 == t % B2!Power[WordBits]
             T1 == (t \div B2!Power[WordBits]) % B2!Power[WordBits]
  <2>1. b = B2!SpecStart(S.h, t, S.last)
    BY DEF B2!SpecStart
  <2>2. v[12] = B2!IV[4] /\ v[13] = B2!IV[5] /\ v[14] = B2!IV[6]
    OBVIOUS
  <2>3. S.t0 = T0 /\ S.t1 = T1
    OBVIOUS
  <2>4. b = [v EXCEPT ![12] = B2!XOR(@, T0), ![13] = B2!XOR(@, T1),
                      ![14] = IF S.last THEN B2!Complement(@) ELSE @]
    OBVIOUS
  <2> HIDE DEF T0, T1, b
  <2>9. DOMAIN v = 0 .. 15 /\ v = [i \in 0 .. 15 |-> v[i]]
    OBVIOUS
  <2>5. ASSUME NEW i \in 0 .. 15 PROVE b[i] = a[i]
    <3>1. CASE i \in 0 .. 7
      <4>1. b[i] = v[i] /\ v[i] = S.h[i]
        <5> HIDE DEF v
        <5>1. b[i] = v[i]
          BY <2>4, <2>9, <3>1
        <5>2. v[i] = S.h[i]
          BY <3>1 DEF v
        <5> QED BY <5>1, <5>2
      <4>2. a[i] = S.h[i]
        BY <3>1 DEF B2!StartState
      <4> QED BY <4>1, <4>2
    <3>2. CASE i = 12
      BY <2>2, <2>3, <2>4, <3>2 DEF B2!StartState
    <3>3. CASE i = 13
      BY <2>2, <2>3, <2>4, <3>3 DEF B2!StartState
    <3>4. CASE i = 14
      BY <2>2, <2>4, <3>4 DEF B2!StartState
    <3>5. CASE i \in 8 .. 11 \/ i = 15
      <4>1. b[i] = v[i] /\ v[i] = B2!IV[i - 8]
        <5> HIDE DEF v
        <5>1. b[i] = v[i]
          BY <2>4, <2>9, <3>5
        <5>2. v[i] = B2!IV[i - 8]
          BY <3>5 DEF v
        <5> QED BY <5>1, <5>2
      <4>2. a[i] = B2!IV[i - 8]
        BY <3>5 DEF B2!StartState
      <4> QED BY <4>1, <4>2
    <3> QED BY <3>1, <3>2, <3>3, <3>4, <3>5
  <2>6. b = [i \in 0 .. 15 |-> b[i]]
    BY <2>4
  <2>7. a = [i \in 0 .. 15 |-> a[i]]
    BY DEF B2!StartState
  <2> HIDE DEF a
  <2>8. a = b
    BY <2>5, <2>6, <2>7
  <2> QED BY <2>1, <2>8 DEF a
<1>4. ASSUME NEW i \in 0 .. 11, f[i] = g[i] PROVE f[i + 1] = g[i + 1]
  BY <1>1, <1>2, <1>4, Blake2bRoundIsSpec
<1>5. f[0] = g[0]
  BY <1>1, <1>2, <1>3
<1>6. f[1] = g[1]
  <2>1. f[0 + 1] = g[0 + 1]
    BY <1>4, <1>5
  <2> QED BY <2>1
<1>7. f[2] = g[2]
  <2>1. f[1 + 1] = g[1 + 1]
    BY <1>4, <1>6
  <2> QED BY <2>1
<1>8. f[3] = g[3]
  <2>1. f[2 + 1] = g[2 + 1]
    BY <1>4, <1>7
  <2> QED BY <2>1
<1>9. f[4] = g[4]
  <2>1. f[3 + 1] = g[3 + 1]
    BY <1>4, <1>8
  <2> QED BY <2>1
<1>10. f[5] = g[5]
  <2>1. f[4 + 1] = g[4 + 1]
    BY <1>4, <1>9
  <2> QED BY <2>1
<1>11. f[6] = g[6]
  <2>1. f[5 + 1] = g[5 + 1]
    BY <1>4, <1>10
  <2> QED BY <2>1
<1>12. f[7] = g[7]
  <2>1. f[6 + 1] = g[6 + 1]
    BY <1>4, <1>11
  <2> QED BY <2>1
<1>13. f[8] = g[8]
  <2>1. f[7 + 1] = g[7 + 1]
    BY <1>4, <1>12
  <2> QED BY <2>1
<1>14. f[9] = g[9]
  <2>1. f[8 + 1] = g[8 + 1]
    BY <1>4, <1>13
  <2> QED BY <2>1
<1>15. f[10] = g[10]
  <2>1. f[9 + 1] = g[9 + 1]
    BY <1>4, <1>14
  <2> QED BY <2>1
<1>16. f[11] = g[11]
  <2>1. f[10 + 1] = g[10 + 1]
    BY <1>4, <1>15
  <2> QED BY <2>1
<1>17. f[12] = g[12]
  <2>1. f[11 + 1] = g[11 + 1]
    BY <1>4, <1>16
  <2> QED BY <2>1
<1>18. B2!compress(S, block) = [S EXCEPT !.h = B2!Chained(S.h, g[12])]
  BY <1>1, <1>17
<1> QED BY <1>2, <1>18

(* One byte more of a word that is loaded.                                 *)
Loaded(u, p, at, i) == u + p[at + i] * B2!Power[(WordBits \div 8) * i]

(* The bytes of a word of blake2b.c. *)
LEMMA Load64Chain ==
  ASSUME NEW p, NEW at
  PROVE  \E f : /\ f[0] = 0
                /\ \A i \in 0 .. 7 : f[i + 1] = Loaded(f[i], p, at, i)
                /\ B2!LoadLE(p, at, 8) = f[8]
<1> DEFINE Eq(fn, top) == fn = [i \in 0 .. top |->
             IF i = 0 THEN 0
             ELSE Loaded(fn[i - 1], p, at, i - 1)]
           G == {top \in Nat : \E fn : Eq(fn, top)}
<1>1. ASSUME NEW top \in Nat, \A low \in 0 .. top - 1 : low \in G PROVE top \in G
  <2>1. CASE top = 0
    <3>1. Eq([i \in 0 .. top |-> 0], top)
      BY <2>1
    <3> QED BY <3>1
  <2>2. CASE top # 0
    <3>1. PICK f : Eq(f, top - 1)
      <4>1. top - 1 \in 0 .. top - 1
        BY <2>2
      <4> HIDE DEF Eq, G
      <4>2. top - 1 \in G
        BY <1>1, <4>1
      <4> QED BY <4>2 DEF G
    <3> DEFINE g == [i \in 0 .. top |->
                     IF i = top THEN Loaded(f[top - 1], p, at, top - 1) ELSE f[i]]
    <3>2. Eq(g, top)
      BY <2>2, <3>1
    <3> QED BY <3>2
  <2> QED BY <2>1, <2>2
<1>2. PICK f : Eq(f, 8)
  <2>1. 8 \in G
    BY <1>1, CompleteInduction
  <2> QED BY <2>1
<1> DEFINE h == CHOOSE fn : Eq(fn, 8)
<1>3. Eq(h, 8)
  BY <1>2
<1>4. B2!LoadLE(p, at, 8) = h[8]
  BY DEF Loaded, B2!LoadLE, B2!Iterate, B2!Then
<1> HIDE DEF h
<1>5. h[0] = 0 /\ \A i \in 0 .. 7 : h[i + 1] = Loaded(h[i], p, at, i)
  BY <1>3
<1> QED BY <1>4, <1>5

(* The same bytes at two places make the same word.                        *)
LEMMA SameBytesLoaded ==
  ASSUME NEW p, NEW q, NEW at, NEW to, \A i \in 0 .. 7 : p[at + i] = q[to + i]
  PROVE  B2!LoadLE(p, at, 8) = B2!LoadLE(q, to, 8)
<1>1. PICK f : /\ f[0] = 0
               /\ \A i \in 0 .. 7 : f[i + 1] = Loaded(f[i], p, at, i)
               /\ B2!LoadLE(p, at, 8) = f[8]
  BY Load64Chain
<1>2. PICK g : /\ g[0] = 0
               /\ \A i \in 0 .. 7 : g[i + 1] = Loaded(g[i], q, to, i)
               /\ B2!LoadLE(q, to, 8) = g[8]
  BY Load64Chain
<1>3. ASSUME NEW i \in 0 .. 7, f[i] = g[i] PROVE f[i + 1] = g[i + 1]
  BY <1>1, <1>2, <1>3 DEF Loaded
<1>4. f[0] = g[0]
  BY <1>1, <1>2
<1>5. f[1] = g[1]
  <2>1. f[0 + 1] = g[0 + 1]
    BY <1>3, <1>4
  <2> QED BY <2>1
<1>6. f[2] = g[2]
  <2>1. f[1 + 1] = g[1 + 1]
    BY <1>3, <1>5
  <2> QED BY <2>1
<1>7. f[3] = g[3]
  <2>1. f[2 + 1] = g[2 + 1]
    BY <1>3, <1>6
  <2> QED BY <2>1
<1>8. f[4] = g[4]
  <2>1. f[3 + 1] = g[3 + 1]
    BY <1>3, <1>7
  <2> QED BY <2>1
<1>9. f[5] = g[5]
  <2>1. f[4 + 1] = g[4 + 1]
    BY <1>3, <1>8
  <2> QED BY <2>1
<1>10. f[6] = g[6]
  <2>1. f[5 + 1] = g[5 + 1]
    BY <1>3, <1>9
  <2> QED BY <2>1
<1>11. f[7] = g[7]
  <2>1. f[6 + 1] = g[6 + 1]
    BY <1>3, <1>10
  <2> QED BY <2>1
<1>12. f[8] = g[8]
  <2>1. f[7 + 1] = g[7 + 1]
    BY <1>3, <1>11
  <2> QED BY <2>1
<1> QED BY <1>1, <1>2, <1>12

(* The words of the counter carry: they are those of the sum.              *)
LEMMA WordsOfCount ==
  ASSUME NEW t \in Nat, NEW n \in Nat, n <= 128
  PROVE  LET lo == B2!Add(t % B2!Power[WordBits], n)
             hi == (t \div B2!Power[WordBits]) % B2!Power[WordBits]
         IN  /\ lo = (t + n) % B2!Power[WordBits]
             /\ (IF lo < n THEN B2!Add(hi, 1) ELSE hi) =
                  ((t + n) \div B2!Power[WordBits]) % B2!Power[WordBits]
<1> DEFINE M == B2!Power[WordBits]
           q == t \div M
           l == t % M
           x == t + n
<1>1. M \in Nat \ {0} /\ M >= 256
  BY WordIsWide, SamePowers
<1>2. \A a, b : B2!Add(a, b) = (a + b) % M
  BY DEF B2!Add
<1>3. t = M * q + l /\ l \in 0 .. M - 1 /\ q \in Int
  <2>1. t \in Int
    OBVIOUS
  <2> HIDE DEF M
  <2> QED BY <1>1, <2>1, Division
<1> HIDE DEF M, q, l
<1> SUFFICES /\ (l + n) % M = x % M
             /\ (IF (l + n) % M < n THEN ((q % M) + 1) % M ELSE q % M) = (x \div M) % M
  BY <1>2 DEF M, q, l
<1>4. M * q \in Int /\ M * (q + 1) = M * q + M
  BY <1>1, <1>3, SMT
<1>5. CASE l + n <= M - 1
  <2> DEFINE r == l + n
  <2>1. r \in 0 .. M - 1 /\ x = M * q + r /\ ~ (r < n)
    BY <1>1, <1>3, <1>4, <1>5
  <2> HIDE DEF r, x
  <2>2. x \div M = q /\ x % M = r /\ r % M = r
    BY <1>1, <1>3, <2>1, QuotientIs, SmallRemainder
  <2> QED BY <2>1, <2>2 DEF r
<1>6. CASE l + n > M - 1
  <2> DEFINE r == l + n - M
             s == q + 1
             y == l + n
  <2>1. r \in 0 .. M - 1 /\ x = M * s + r /\ r < n /\ s \in Int /\ y = M * 1 + r
    <3>1. M * 1 = M
      BY <1>1, SMT
    <3> QED BY <1>1, <1>3, <1>4, <1>6, <3>1
  <2>2. ((q % M) + 1) % M = (q + 1) % M
    <3>1. 1 \in Int
      OBVIOUS
    <3> QED BY <1>1, <1>3, <3>1, ReducedBefore
  <2> HIDE DEF r, s, x, y
  <2>3. x \div M = s /\ x % M = r
    BY <1>1, <2>1, QuotientIs
  <2>4. y % M = r
    <3>1. 1 \in Int
      OBVIOUS
    <3> QED BY <1>1, <2>1, <3>1, QuotientIs
  <2> QED BY <2>1, <2>2, <2>3, <2>4 DEF s, y
<1> QED BY <1>1, <1>3, <1>5, <1>6

(* The state of the hash of blake2b.c, with the counter at t bytes and n    *)
(* bytes in the buffer.                                                    *)
HashRecord(h, t0, t1, buf, n, last) ==
  [h |-> h, t0 |-> t0, t1 |-> t1, buf |-> buf, buflen |-> n, outlen |-> 32, last |-> last]
HashState(h, t, buf, n, last) ==
  HashRecord(h, t % B2!Power[WordBits], (t \div B2!Power[WordBits]) % B2!Power[WordBits], buf, n, last)

(* The assignments to its fields.                                          *)
SetHash(S, x) == [S EXCEPT !.h = x]
SetLength(S, x) == [S EXCEPT !.buflen = x]
SetLast(S, x) == [S EXCEPT !.last = x]
SetCount(S, x, y) == [S EXCEPT !.t0 = x, !.t1 = y]
SetBuffer(S, x, y) == [S EXCEPT !.buf = x, !.buflen = y]
SetBlock(S, x, y) == [S EXCEPT !.buf = x, !.last = y]

(* The fields of a state, and what an assignment makes of it.              *)
LEMMA HashRecordFields ==
  ASSUME NEW h, NEW t0, NEW t1, NEW buf, NEW n, NEW last,
         NEW S, S = HashRecord(h, t0, t1, buf, n, last)
  PROVE  /\ S.h = h /\ S.t0 = t0 /\ S.t1 = t1 /\ S.buf = buf /\ S.buflen = n
         /\ S.outlen = 32 /\ S.last = last
         /\ \A x : SetHash(S, x) = HashRecord(x, t0, t1, buf, n, last)
         /\ \A x : SetLength(S, x) = HashRecord(h, t0, t1, buf, x, last)
         /\ \A x : SetLast(S, x) = HashRecord(h, t0, t1, buf, n, x)
         /\ \A x, y : SetCount(S, x, y) = HashRecord(h, x, y, buf, n, last)
         /\ \A x, y : SetBuffer(S, x, y) = HashRecord(h, t0, t1, x, y, last)
         /\ \A x, y : SetBlock(S, x, y) = HashRecord(h, t0, t1, x, n, y)
<1>1. /\ S.h = h /\ S.t0 = t0 /\ S.t1 = t1 /\ S.buf = buf /\ S.buflen = n
      /\ S.outlen = 32 /\ S.last = last
  BY DEF HashRecord
<1>2. ASSUME NEW x PROVE SetHash(S, x) = HashRecord(x, t0, t1, buf, n, last)
  BY DEF SetHash, HashRecord
<1>3. ASSUME NEW x PROVE SetLength(S, x) = HashRecord(h, t0, t1, buf, x, last)
  BY DEF SetLength, HashRecord
<1>4. ASSUME NEW x PROVE SetLast(S, x) = HashRecord(h, t0, t1, buf, n, x)
  BY DEF SetLast, HashRecord
<1>5. ASSUME NEW x, NEW y PROVE SetCount(S, x, y) = HashRecord(h, x, y, buf, n, last)
  <2> DEFINE R == HashRecord(h, x, t1, buf, n, last)
  <2>1. [S EXCEPT !.t0 = x] = R
    BY DEF HashRecord
  <2>2. [R EXCEPT !.t1 = y] = HashRecord(h, x, y, buf, n, last)
    BY DEF HashRecord
  <2>3. [S EXCEPT !.t0 = x, !.t1 = y] = [[S EXCEPT !.t0 = x] EXCEPT !.t1 = y]
    BY DEF HashRecord
  <2> HIDE DEF R
  <2> QED BY <2>1, <2>2, <2>3 DEF SetCount
<1>6. ASSUME NEW x, NEW y PROVE SetBuffer(S, x, y) = HashRecord(h, t0, t1, x, y, last)
  <2> DEFINE R == HashRecord(h, t0, t1, x, n, last)
  <2>1. [S EXCEPT !.buf = x] = R
    BY DEF HashRecord
  <2>2. [R EXCEPT !.buflen = y] = HashRecord(h, t0, t1, x, y, last)
    BY DEF HashRecord
  <2>3. [S EXCEPT !.buf = x, !.buflen = y] = [[S EXCEPT !.buf = x] EXCEPT !.buflen = y]
    BY DEF HashRecord
  <2> HIDE DEF R
  <2> QED BY <2>1, <2>2, <2>3 DEF SetBuffer
<1>7. ASSUME NEW x, NEW y PROVE SetBlock(S, x, y) = HashRecord(h, t0, t1, x, n, y)
  <2> DEFINE R == HashRecord(h, t0, t1, x, n, last)
  <2>1. [S EXCEPT !.buf = x] = R
    BY DEF HashRecord
  <2>2. [R EXCEPT !.last = y] = HashRecord(h, t0, t1, x, n, y)
    BY DEF HashRecord
  <2>3. [S EXCEPT !.buf = x, !.last = y] = [[S EXCEPT !.buf = x] EXCEPT !.last = y]
    BY DEF HashRecord
  <2> HIDE DEF R
  <2> QED BY <2>1, <2>2, <2>3 DEF SetBlock
<1> QED BY <1>1, <1>2, <1>3, <1>4, <1>5, <1>6, <1>7

(* The same of a state whose counter is at t bytes.                        *)
LEMMA HashStateFields ==
  ASSUME NEW h, NEW t, NEW buf, NEW n, NEW last,
         NEW S, S = HashState(h, t, buf, n, last)
  PROVE  /\ S.h = h /\ S.t0 = t % B2!Power[WordBits] /\ S.t1 = (t \div B2!Power[WordBits]) % B2!Power[WordBits]
         /\ S.buf = buf /\ S.buflen = n /\ S.outlen = 32 /\ S.last = last
         /\ \A x : SetHash(S, x) = HashState(x, t, buf, n, last)
         /\ \A x : SetLength(S, x) = HashState(h, t, buf, x, last)
         /\ \A x : SetLast(S, x) = HashState(h, t, buf, n, x)
         /\ \A x, y : SetBuffer(S, x, y) = HashState(h, t, x, y, last)
         /\ \A x, y : SetBlock(S, x, y) = HashState(h, t, x, n, y)
<1> DEFINE t0 == t % B2!Power[WordBits]
           t1 == (t \div B2!Power[WordBits]) % B2!Power[WordBits]
<1>1. \A g, b, m, l : HashState(g, t, b, m, l) = HashRecord(g, t0, t1, b, m, l)
  BY DEF HashState
<1> HIDE DEF t0, t1
<1>2. S = HashRecord(h, t0, t1, buf, n, last)
  BY <1>1
<1>3. /\ S.h = h /\ S.t0 = t0 /\ S.t1 = t1 /\ S.buf = buf /\ S.buflen = n
      /\ S.outlen = 32 /\ S.last = last
      /\ \A x : SetHash(S, x) = HashRecord(x, t0, t1, buf, n, last)
      /\ \A x : SetLength(S, x) = HashRecord(h, t0, t1, buf, x, last)
      /\ \A x : SetLast(S, x) = HashRecord(h, t0, t1, buf, n, x)
      /\ \A x, y : SetBuffer(S, x, y) = HashRecord(h, t0, t1, x, y, last)
      /\ \A x, y : SetBlock(S, x, y) = HashRecord(h, t0, t1, x, n, y)
  BY <1>2, HashRecordFields
<1> QED BY <1>1, <1>3 DEF t0, t1

(* The counter of a state advances.                                        *)
LEMMA CountAdvances ==
  ASSUME NEW h, NEW t \in Nat, NEW buf, NEW m, NEW last, NEW n \in Nat, n <= 128
  PROVE  B2!Count(HashState(h, t, buf, m, last), n) = HashState(h, t + n, buf, m, last)
<1> DEFINE S == HashState(h, t, buf, m, last)
           lo == B2!Add(t % B2!Power[WordBits], n)
           hi == (t \div B2!Power[WordBits]) % B2!Power[WordBits]
           up == IF lo < n THEN B2!Add(hi, 1) ELSE hi
           lo2 == (t + n) % B2!Power[WordBits]
           hi2 == ((t + n) \div B2!Power[WordBits]) % B2!Power[WordBits]
<1>1. lo = lo2 /\ up = hi2
  BY WordsOfCount
<1>2. S.t0 = t % B2!Power[WordBits] /\ S.t1 = hi
  BY HashStateFields
<1>3. B2!Count(S, n) = [S EXCEPT !.t0 = lo, !.t1 = IF lo < n THEN B2!Add(@, 1) ELSE @]
  <2> HIDE DEF S
  <2> QED BY <1>2 DEF B2!Count
<1>4. B2!Count(S, n) = [S EXCEPT !.t0 = lo, !.t1 = up]
  <2> HIDE DEF S, lo, hi
  <2> QED BY <1>2, <1>3
<1>5. B2!Count(S, n) = [S EXCEPT !.t0 = lo2, !.t1 = hi2]
  <2> HIDE DEF S, lo, hi, up, lo2, hi2
  <2> QED BY <1>1, <1>4
<1>6. HashState(h, t + n, buf, m, last) = HashRecord(h, lo2, hi2, buf, m, last)
  BY DEF HashState
<1>7. S = HashRecord(h, t % B2!Power[WordBits], hi, buf, m, last)
  BY DEF HashState
<1> HIDE DEF lo, hi, up, lo2, hi2, S
<1>8. SetCount(S, lo2, hi2) = HashRecord(h, lo2, hi2, buf, m, last)
  BY <1>7, HashRecordFields
<1>9. B2!Count(S, n) = SetCount(S, lo2, hi2)
  BY <1>5 DEF SetCount
<1> QED BY <1>6, <1>8, <1>9 DEF S

(* compress() of a state is F of its parts.                                *)
LEMMA CompressState ==
  ASSUME NEW h, NEW t \in Nat, NEW buf, NEW n, NEW last \in BOOLEAN
  PROVE  B2!compress(HashState(h, t, buf, n, last), buf)
           = HashState(B2!F(h, B2!Message(buf), t, last), t, buf, n, last)
<1> DEFINE S == HashState(h, t, buf, n, last)
           c == B2!F(h, B2!Message(buf), t, last)
<1>1. /\ S.t0 = t % B2!Power[WordBits] /\ S.t1 = (t \div B2!Power[WordBits]) % B2!Power[WordBits]
      /\ S.last = last /\ S.h = h
  BY HashStateFields
<1>2. B2!compress(S, buf) = [S EXCEPT !.h = c]
  <2> HIDE DEF S
  <2> QED BY <1>1, Blake2bCompressIsF
<1> HIDE DEF c
<1>3. SetHash(S, c) = HashState(c, t, buf, n, last)
  BY HashStateFields
<1> HIDE DEF S
<1>4. B2!compress(S, buf) = SetHash(S, c)
  BY <1>2 DEF SetHash
<1> QED BY <1>3, <1>4 DEF S, c

(* The flag of a block that is not the last, and of the last.              *)
NotLast == FALSE
IsLast == TRUE

(* The state of the loop of blake2b_update.                                *)
FillState(h, t, buf, n, from, left) ==
  [S |-> HashState(h, t, buf, n, NotLast), from |-> from, left |-> left]

(* A buffer of 128 bytes.                                                  *)
IsBuffer(buf) == DOMAIN buf = 0 .. 127

(* A buffer whose first n bytes are those of the input from from on.       *)
Refilled(buf, in, from, n) == [i \in 0 .. 127 |-> IF i < n THEN in[from + i] ELSE buf[i]]

(* The bytes from from on come into an empty buffer.                       *)
LEMMA FilledState ==
  ASSUME NEW in, NEW h, NEW t, NEW buf, IsBuffer(buf),
         NEW from \in Nat, NEW fill \in Nat, fill <= 128, NEW last
  PROVE  B2!Filled(HashState(h, t, buf, 0, last), in, from, fill) =
           HashState(h, t, Refilled(buf, in, from, fill), fill, last)
<1> DEFINE new == Refilled(buf, in, from, fill)
           S == HashState(h, t, buf, 0, last)
<1>1. S.buflen = 0 /\ S.buf = buf
  BY HashStateFields
<1>2. SetBuffer(S, new, fill) = HashState(h, t, new, fill, last)
  <2> HIDE DEF new
  <2> QED BY HashStateFields
<1>3. new = [i \in DOMAIN buf |-> IF i \in 0 .. 0 + fill - 1 THEN in[from + i - 0] ELSE buf[i]]
  <2>1. ASSUME NEW i \in 0 .. 127
        PROVE  (i \in 0 .. 0 + fill - 1 <=> i < fill) /\ from + i - 0 = from + i
    OBVIOUS
  <2> QED BY <2>1 DEF Refilled, IsBuffer
<1>4. 0 + fill = fill
  OBVIOUS
<1> HIDE DEF S, new
<1>5. B2!Filled(S, in, from, fill) =
        [S EXCEPT !.buf = [i \in DOMAIN @ |-> IF i \in 0 .. 0 + fill - 1
                                              THEN in[from + i - 0] ELSE @[i]],
                  !.buflen = @ + fill]
  BY <1>1 DEF B2!Filled
<1>6. B2!Filled(S, in, from, fill) = [S EXCEPT !.buf = new, !.buflen = fill]
  BY <1>1, <1>3, <1>4, <1>5
<1> QED BY <1>2, <1>6 DEF SetBuffer, S, new

(* A full buffer is compressed and emptied.                                *)
LEMMA FlushedState ==
  ASSUME NEW h, NEW t \in Nat, NEW buf
  PROVE  B2!Flush(HashState(h, t, buf, 128, NotLast)) =
           HashState(B2!F(h, B2!Message(buf), t + 128, NotLast), t + 128, buf, 0, NotLast)
<1> DEFINE S == HashState(h, t, buf, 128, NotLast)
           counted == HashState(h, t + 128, buf, 128, NotLast)
           c == B2!F(h, B2!Message(buf), t + 128, NotLast)
<1>1. S.buf = buf
  BY HashStateFields
<1>2. B2!Count(S, 128) = counted
  <2>1. 128 \in Nat /\ 128 <= 128
    OBVIOUS
  <2> QED BY <2>1, CountAdvances
<1>3. SetLast(counted, NotLast) = counted
  BY HashStateFields
<1>4. B2!compress(counted, buf) = HashState(c, t + 128, buf, 128, NotLast)
  <2>1. t + 128 \in Nat
    OBVIOUS
  <2>2. NotLast \in BOOLEAN
    BY Zenon DEF NotLast
  <2> QED BY <2>1, <2>2, CompressState
<1>5. SetLength(HashState(c, t + 128, buf, 128, NotLast), 0) = HashState(c, t + 128, buf, 0, NotLast)
  <2> HIDE DEF c
  <2> QED BY HashStateFields
<1> HIDE DEF S, counted, c
<1>6. B2!Flush(S) = SetLength(B2!compress(SetLast(B2!Count(S, 128), NotLast), S.buf), 0)
  BY Zenon DEF B2!Flush, B2!BlockBytes, SetLength, SetLast, NotLast
<1> QED BY <1>1, <1>2, <1>3, <1>4, <1>5, <1>6 DEF S, c

(* A block that more input follows fills the buffer and is compressed.     *)
LEMMA FillFull ==
  ASSUME NEW in, NEW h, NEW t \in Nat, NEW buf, IsBuffer(buf),
         NEW from \in Nat, NEW left \in Nat, left > 128
  PROVE  LET full == [i \in 0 .. 127 |-> in[from + i]]
         IN  B2!Fill(FillState(h, t, buf, 0, from, left), in) =
               FillState(B2!F(h, B2!Message(full), t + 128, NotLast), t + 128, full, 0,
                         from + 128, left - 128)
<1> DEFINE full == [i \in 0 .. 127 |-> in[from + i]]
           s == FillState(h, t, buf, 0, from, left)
           S == HashState(h, t, buf, 0, NotLast)
           filled == HashState(h, t, full, 128, NotLast)
<1>1. s.S = S /\ s.from = from /\ s.left = left
  <2> HIDE DEF S
  <2> QED BY DEF FillState, S
<1>2. S.buflen = 0 /\ filled.buflen = 128
  BY HashStateFields
<1>3. B2!Filled(S, in, from, 128) = filled
  <2>1. full = Refilled(buf, in, from, 128)
    BY DEF Refilled
  <2>2. 128 \in Nat /\ 128 <= 128
    OBVIOUS
  <2> HIDE DEF full
  <2> QED BY <2>1, <2>2, FilledState
<1>4. (IF left < 128 - 0 THEN left ELSE 128 - 0) = 128 /\ left - 128 > 0
  OBVIOUS
<1> DEFINE done == B2!Flush(filled)
<1>5. done = HashState(B2!F(h, B2!Message(full), t + 128, NotLast), t + 128, full, 0, NotLast)
  BY FlushedState
<1> HIDE DEF s, S, filled, full, done
<1>6. B2!Fill(s, in) = [S |-> done, from |-> from + 128, left |-> left - 128]
  BY <1>1, <1>2, <1>3, <1>4 DEF B2!Fill, B2!BlockBytes, done
<1> QED BY <1>5, <1>6 DEF FillState, s, full

(* The last bytes stay in the buffer.                                      *)
LEMMA FillRest ==
  ASSUME NEW in, NEW h, NEW t \in Nat, NEW buf, IsBuffer(buf),
         NEW from \in Nat, NEW left \in Nat, left > 0, left <= 128
  PROVE  LET rest == Refilled(buf, in, from, left)
         IN  B2!Fill(FillState(h, t, buf, 0, from, left), in) =
               FillState(h, t, rest, left, from + left, 0)
<1> DEFINE rest == Refilled(buf, in, from, left)
           s == FillState(h, t, buf, 0, from, left)
           S == HashState(h, t, buf, 0, NotLast)
           filled == HashState(h, t, rest, left, NotLast)
<1>1. s.S = S /\ s.from = from /\ s.left = left
  <2> HIDE DEF S
  <2> QED BY DEF FillState, S
<1>2. S.buflen = 0 /\ filled.buflen = left
  <2> HIDE DEF rest
  <2> QED BY HashStateFields
<1>3. B2!Filled(S, in, from, left) = filled
  <2>1. left \in Nat /\ left <= 128
    OBVIOUS
  <2> QED BY <2>1, FilledState
<1>4. (IF left < 128 - 0 THEN left ELSE 128 - 0) = left /\ left - left = 0 /\ ~ (0 > 0)
  OBVIOUS
<1> HIDE DEF s, S, filled, rest
<1>5. B2!Fill(s, in) = [S |-> filled, from |-> from + left, left |-> 0]
  BY <1>1, <1>2, <1>3, <1>4 DEF B2!Fill, B2!BlockBytes
<1> QED BY <1>5 DEF FillState, s, filled, rest

(* A block of the padded message.                                          *)
IsBlock(block, in, n, k) ==
  \A j \in 0 .. 127 : block[j] = IF 128 * k + j < n THEN in[128 * k + j] ELSE 0

(* The words of a block of the code are those of the padded message.       *)
LEMMA MessageIsWords ==
  ASSUME NEW in, NEW n \in Nat, NEW k \in Nat, NEW block, IsBlock(block, in, n, k)
  PROVE  B2!Message(block) = B2!Words16(in, n, k)
<1> DEFINE At(j) == IF j < n THEN in[j] ELSE 0
           Eight(i) == [j \in 0 .. 7 |-> At(k * 128 + 8 * i + j)]
<1>1. ASSUME NEW i \in 0 .. 15 PROVE B2!LoadLE(block, i * 8, 8) = B2!LoadLE(Eight(i), 0, 8)
  <2>1. ASSUME NEW j \in 0 .. 7 PROVE block[i * 8 + j] = Eight(i)[0 + j]
    <3>1. i * 8 + j \in 0 .. 127 /\ 128 * k + (i * 8 + j) = k * 128 + 8 * i + j /\ 0 + j = j
      OBVIOUS
    <3>2. block[i * 8 + j] = At(128 * k + (i * 8 + j))
      BY <3>1 DEF IsBlock
    <3> HIDE DEF At
    <3> QED BY <3>1, <3>2
  <2> HIDE DEF Eight
  <2> QED BY <2>1, SameBytesLoaded
<1>2. B2!Message(block) = [i \in 0 .. 15 |-> B2!LoadLE(block, i * 8, 8)]
  BY DEF B2!Message, B2!load64_le, B2!WordBytes
<1>3. B2!Words16(in, n, k) = [i \in 0 .. 15 |-> B2!LoadLE(Eight(i), 0, 8)]
  BY DEF B2!Words16, B2!BlockBytes
<1> HIDE DEF Eight
<1> QED BY <1>1, <1>2, <1>3

(* Block q is the last of n bytes: a message that ends with a block has no *)
(* other, and the empty message has one.                                   *)
IsLastOf(q, n) ==
  /\ B2!Blocks(n) = q + 1 /\ 128 * q <= n /\ n - 128 * q <= 128
  /\ n > 0 => n - 128 * q > 0
  /\ n = 0 => q = 0
  /\ n \div 128 + 2 \in Nat /\ q + 1 <= n \div 128 + 2

(* Every message has a last block.                                         *)
LEMMA BlocksOfMessage ==
  ASSUME NEW n \in Nat
  PROVE  \E q \in Nat : IsLastOf(q, n)
<1>1. CASE n = 0
  <2>1. B2!Blocks(n) = 0 + 1 /\ n \div 128 = 0
    BY <1>1 DEF B2!Blocks
  <2> QED BY <1>1, <2>1 DEF IsLastOf
<1>2. CASE n # 0
  <2>1. PICK q \in Nat : q = (n - 1) \div 128
    BY <1>2
  <2>2. 128 * q <= n - 1 /\ n - 1 < 128 * q + 128
    BY <1>2, <2>1
  <2>3. (n + 128 - 1) \div 128 = q + 1 /\ q <= n \div 128
    BY <1>2, <2>2
  <2>4. B2!Blocks(n) = q + 1
    BY <1>2, <2>3 DEF B2!Blocks, B2!BlockBytes
  <2> QED BY <1>2, <2>2, <2>3, <2>4 DEF IsLastOf
<1> QED BY <1>1, <1>2

(* One turn of the while loop of blake2b_update.                           *)
FillIfLeft(s, in) == IF s.left > 0 THEN B2!Fill(s, in) ELSE s

(* The while loop of blake2b_update. *)
LEMMA UpdateChain ==
  ASSUME NEW S0, NEW in, NEW n, n \div 128 + 2 \in Nat
  PROVE  \E f : /\ f[0] = [S |-> S0, from |-> 0, left |-> n]
                /\ \A i \in 0 .. (n \div 128 + 2) - 1 : f[i + 1] = FillIfLeft(f[i], in)
                /\ B2!update(S0, in, n) = f[(n \div 128 + 2)].S
<1> DEFINE Eq(fn, top) == fn = [i \in 0 .. top |->
             IF i = 0 THEN [S |-> S0, from |-> 0, left |-> n]
             ELSE FillIfLeft(fn[i - 1], in)]
           G == {top \in Nat : \E fn : Eq(fn, top)}
<1>1. ASSUME NEW top \in Nat, \A low \in 0 .. top - 1 : low \in G PROVE top \in G
  <2>1. CASE top = 0
    <3>1. Eq([i \in 0 .. top |-> [S |-> S0, from |-> 0, left |-> n]], top)
      BY <2>1
    <3> QED BY <3>1
  <2>2. CASE top # 0
    <3>1. PICK f : Eq(f, top - 1)
      <4>1. top - 1 \in 0 .. top - 1
        BY <2>2
      <4> HIDE DEF Eq, G
      <4>2. top - 1 \in G
        BY <1>1, <4>1
      <4> QED BY <4>2 DEF G
    <3> DEFINE g == [i \in 0 .. top |->
                     IF i = top THEN FillIfLeft(f[top - 1], in) ELSE f[i]]
    <3>2. Eq(g, top)
      BY <2>2, <3>1
    <3> QED BY <3>2
  <2> QED BY <2>1, <2>2
<1>2. PICK f : Eq(f, (n \div 128 + 2))
  <2>1. (n \div 128 + 2) \in G
    BY <1>1, CompleteInduction
  <2> QED BY <2>1
<1> DEFINE h == CHOOSE fn : Eq(fn, (n \div 128 + 2))
<1>3. Eq(h, (n \div 128 + 2))
  BY <1>2
<1>4. B2!update(S0, in, n) = h[(n \div 128 + 2)].S
  BY DEF FillIfLeft, B2!update, B2!BlockBytes, B2!While, B2!Iterate, B2!Then
<1> HIDE DEF h
<1>5. h[0] = [S |-> S0, from |-> 0, left |-> n] /\ \A i \in 0 .. (n \div 128 + 2) - 1 : h[i + 1] = FillIfLeft(h[i], in)
  BY <1>3
<1> QED BY <1>4, <1>5

(* The blocks of BLAKE2b. *)
LEMMA RFC7693Chain ==
  ASSUME NEW in, NEW n, B2!Blocks(n) \in Nat
  PROVE  \E f : /\ f[0] = B2!init(32).h
                /\ \A i \in 0 .. B2!Blocks(n) - 1 : f[i + 1] = B2!SpecBlock(f[i], i, in, n)
                /\ B2!RFC7693(in, n) = [i \in 0 .. 31 |-> B2!ByteLE(f[B2!Blocks(n)][i \div 8], i % 8, 8)]
<1> DEFINE Eq(fn, top) == fn = [i \in 0 .. top |->
             IF i = 0 THEN B2!init(32).h
             ELSE B2!SpecBlock(fn[i - 1], i - 1, in, n)]
           G == {top \in Nat : \E fn : Eq(fn, top)}
<1>1. ASSUME NEW top \in Nat, \A low \in 0 .. top - 1 : low \in G PROVE top \in G
  <2>1. CASE top = 0
    <3>1. Eq([i \in 0 .. top |-> B2!init(32).h], top)
      BY <2>1
    <3> QED BY <3>1
  <2>2. CASE top # 0
    <3>1. PICK f : Eq(f, top - 1)
      <4>1. top - 1 \in 0 .. top - 1
        BY <2>2
      <4> HIDE DEF Eq, G
      <4>2. top - 1 \in G
        BY <1>1, <4>1
      <4> QED BY <4>2 DEF G
    <3> DEFINE g == [i \in 0 .. top |->
                     IF i = top THEN B2!SpecBlock(f[top - 1], top - 1, in, n) ELSE f[i]]
    <3>2. Eq(g, top)
      BY <2>2, <3>1
    <3> QED BY <3>2
  <2> QED BY <2>1, <2>2
<1>2. PICK f : Eq(f, B2!Blocks(n))
  <2>1. B2!Blocks(n) \in G
    BY <1>1, CompleteInduction
  <2> QED BY <2>1
<1> DEFINE h == CHOOSE fn : Eq(fn, B2!Blocks(n))
<1>3. Eq(h, B2!Blocks(n))
  BY <1>2
<1>4. B2!RFC7693(in, n) = [i \in 0 .. 31 |-> B2!ByteLE(h[B2!Blocks(n)][i \div 8], i % 8, 8)]
  BY DEF B2!RFC7693, B2!Iterate, B2!Then
<1> HIDE DEF h
<1>5. h[0] = B2!init(32).h /\ \A i \in 0 .. B2!Blocks(n) - 1 : h[i + 1] = B2!SpecBlock(h[i], i, in, n)
  BY <1>3
<1> QED BY <1>4, <1>5

(* The state before the first byte.                                        *)
LEMMA InitState ==
  B2!init(32) = HashState(B2!init(32).h, 0, [i \in 0 .. 127 |-> 0], 0, NotLast)
<1>1. 0 % B2!Power[WordBits] = 0 /\ (0 \div B2!Power[WordBits]) % B2!Power[WordBits] = 0
  <2> DEFINE M == B2!Power[WordBits]
  <2>1. M \in Nat \ {0}
    BY WordIsWide, SamePowers
  <2> HIDE DEF M
  <2>2. 0 \in 0 .. M - 1
    BY <2>1
  <2>3. 0 % M = 0 /\ 0 \div M = 0
    BY <2>1, <2>2, SmallRemainder
  <2> QED BY <2>3 DEF M
<1> DEFINE h0 == [B2!IV EXCEPT ![0] = B2!XOR(@, (32 + B2!Power[WordBits \div 4] + B2!Power[(3 * WordBits) \div 8]) % B2!Power[WordBits])]
           b0 == [i \in 0 .. 127 |-> 0]
<1>2. B2!init(32) = HashRecord(h0, 0, 0, b0, 0, NotLast)
  <2>1. B2!init(32) = [h |-> h0, t0 |-> 0, t1 |-> 0, buf |-> b0, buflen |-> 0, outlen |-> 32, last |-> NotLast]
    <3>1. b0 = [i \in 0 .. 128 - 1 |-> 0]
      OBVIOUS
    <3> HIDE DEF b0
    <3> QED BY <3>1 DEF B2!init, B2!BlockBytes, NotLast
  <2> HIDE DEF h0, b0
  <2> QED BY <2>1 DEF HashRecord
<1> HIDE DEF h0, b0
<1>3. B2!init(32).h = h0
  BY <1>2, HashRecordFields
<1> QED BY <1>1, <1>2, <1>3 DEF HashState, b0

(* The chaining values of the blocks before block q.                       *)
ChainsTo(g, q, in, n) ==
  /\ g[0] = B2!init(32).h
  /\ \A k \in 0 .. q - 1 : g[k + 1] = B2!SpecBlock(g[k], k, in, n)

(* A buffer with the bytes of block q.                                     *)
Keeps(buf, in, n, q) ==
  IsBuffer(buf) /\ \A j \in 0 .. 127 : 128 * q + j < n => buf[j] = in[128 * q + j]

(* What update() leaves: the hash of all blocks but the last, which is in  *)
(* the buffer.                                                             *)
LEMMA UpdateKeepsLastBlock ==
  ASSUME NEW in, NEW n \in Nat, NEW q \in Nat, NEW g,
         IsLastOf(q, n), ChainsTo(g, q, in, n)
  PROVE  \E buf : /\ Keeps(buf, in, n, q)
                  /\ B2!update(B2!init(32), in, n) = HashState(g[q], 128 * q, buf, n - 128 * q, NotLast)
<1> DEFINE turns == n \div 128 + 2
           b0 == [i \in 0 .. 127 |-> 0]
<1>0. /\ B2!Blocks(n) = q + 1 /\ 128 * q <= n /\ n - 128 * q <= 128
      /\ n > 0 => n - 128 * q > 0
      /\ n = 0 => q = 0
  BY DEF IsLastOf
<1>1. turns \in Nat /\ q + 1 <= turns
  BY DEF IsLastOf
<1>2. PICK f : /\ f[0] = [S |-> B2!init(32), from |-> 0, left |-> n]
               /\ \A i \in 0 .. turns - 1 : f[i + 1] = FillIfLeft(f[i], in)
               /\ B2!update(B2!init(32), in, n) = f[turns].S
  BY <1>1, UpdateChain
<1> HIDE DEF turns
<1> DEFINE Upto(k) == \E buf : /\ IsBuffer(buf)
                               /\ f[k] = FillState(g[k], 128 * k, buf, 0, 128 * k, n - 128 * k)
           G == {k \in 0 .. q : Upto(k)}
<1>3. IsBuffer(b0)
  BY DEF IsBuffer
<1>4. f[0] = FillState(g[0], 0, b0, 0, 0, n)
  BY <1>2, InitState DEF FillState, ChainsTo
<1>5. 0 \in G
  <2>1. 128 * 0 = 0 /\ n - 0 = n /\ 0 \in 0 .. q
    OBVIOUS
  <2> HIDE DEF b0
  <2> QED BY <1>3, <1>4, <2>1
<1> HIDE DEF b0
<1>6. ASSUME NEW k \in 0 .. q - 1, k \in G PROVE k + 1 \in G
  <2>1. PICK buf : IsBuffer(buf) /\ f[k] = FillState(g[k], 128 * k, buf, 0, 128 * k, n - 128 * k)
    BY <1>6
  <2> DEFINE t == 128 * k
             left == n - 128 * k
             full == [i \in 0 .. 127 |-> in[t + i]]
  <2>2. k \in Nat /\ t \in Nat /\ left \in Nat /\ left > 128 /\ k \in 0 .. turns - 1 /\ k # q
        /\ t + 128 = 128 * (k + 1) /\ left - 128 = n - 128 * (k + 1) /\ (k + 1) * 128 = 128 * (k + 1)
    BY <1>0, <1>1
  <2>3. IsBlock(full, in, n, k)
    BY <2>2 DEF IsBlock
  <2>4. B2!Message(full) = B2!Words16(in, n, k)
    <3> HIDE DEF full
    <3> QED BY <2>2, <2>3, MessageIsWords
  <2>5. IsBuffer(full)
    BY DEF IsBuffer
  <2>6. f[k].left = left
    <3> HIDE DEF t, left
    <3>1. f[k] = FillState(g[k], t, buf, 0, t, left)
      BY <2>1 DEF t, left
    <3> QED BY <3>1 DEF FillState
  <2> HIDE DEF full, t, left
  <2>7. f[k + 1] = B2!Fill(f[k], in)
    BY <1>2, <2>2, <2>6 DEF FillIfLeft
  <2>8. f[k + 1] = FillState(B2!F(g[k], B2!Message(full), t + 128, NotLast), t + 128, full, 0, t + 128, left - 128)
    <3>1. f[k] = FillState(g[k], t, buf, 0, t, left)
      BY <2>1 DEF t, left
    <3>2. B2!Fill(FillState(g[k], t, buf, 0, t, left), in) =
            FillState(B2!F(g[k], B2!Message(full), t + 128, NotLast), t + 128, full, 0, t + 128, left - 128)
      BY <2>1, <2>2, FillFull DEF full
    <3> QED BY <2>7, <3>1, <3>2
  <2>9. g[k + 1] = B2!F(g[k], B2!Words16(in, n, k), t + 128, NotLast)
    <3>1. g[k + 1] = B2!SpecBlock(g[k], k, in, n)
      BY DEF ChainsTo
    <3>2. (k = B2!Blocks(n) - 1) = NotLast
      BY <1>0, <2>2 DEF NotLast
    <3>3. (IF k = B2!Blocks(n) - 1 THEN n ELSE (k + 1) * B2!BlockBytes) = t + 128
      BY <1>0, <2>2 DEF B2!BlockBytes
    <3> QED BY <3>1, <3>2, <3>3, Zenon DEF B2!SpecBlock
  <2>10. f[k + 1] = FillState(g[k + 1], 128 * (k + 1), full, 0, 128 * (k + 1), n - 128 * (k + 1))
    BY <2>2, <2>4, <2>8, <2>9
  <2>11. k + 1 \in 0 .. q
    OBVIOUS
  <2> QED BY <2>5, <2>10, <2>11
<1>7. Upto(q)
  <2> HIDE DEF Upto
  <2>1. q \in G
    <3> HIDE DEF G
    <3> QED BY <1>5, <1>6, StepsUpTo
  <2> QED BY <2>1
<1>8. PICK buf : IsBuffer(buf) /\ f[q] = FillState(g[q], 128 * q, buf, 0, 128 * q, n - 128 * q)
  BY <1>7
<1> DEFINE t == 128 * q
           left == n - 128 * q
           rest == Refilled(buf, in, t, left)
<1>9. t \in Nat /\ left \in Nat /\ left <= 128 /\ t + left = n
  BY <1>0
<1>10. f[q] = FillState(g[q], t, buf, 0, t, left)
  BY <1>8
<1>11. n > 0 => left > 0
  BY <1>0
<1>12. IsBuffer(rest) /\ \A j \in 0 .. 127 : t + j < n => rest[j] = in[t + j]
  <2> HIDE DEF t, left
  <2>1. IsBuffer(rest)
    BY DEF Refilled, IsBuffer
  <2>2. ASSUME NEW j \in 0 .. 127, t + j < n PROVE rest[j] = in[t + j]
    <3>1. j < left
      BY <1>9, <2>2
    <3> QED BY <3>1 DEF Refilled
  <2> QED BY <2>1, <2>2
<1> HIDE DEF t, left, rest, G
<1>14. CASE n = 0
  <2> DEFINE Still == {k \in 0 .. turns : f[k] = f[0]}
  <2>1. 0 \in Still
    BY <1>1
  <2>2. f[0].left = 0 /\ f[0].S = B2!init(32)
    BY <1>2, <1>14
  <2>3. ASSUME NEW k \in 0 .. turns - 1, k \in Still PROVE k + 1 \in Still
    <3>1. f[k + 1] = FillIfLeft(f[0], in)
      BY <1>2, <2>3
    <3>2. ~ (f[0].left > 0)
      BY <2>2
    <3>3. f[k + 1] = f[0]
      BY <3>1, <3>2 DEF FillIfLeft
    <3>4. k + 1 \in 0 .. turns
      BY <1>1
    <3> QED BY <3>3, <3>4
  <2>4. turns \in Still
    <3> HIDE DEF Still
    <3> QED BY <1>1, <2>1, <2>3, StepsUpTo
  <2>5. B2!update(B2!init(32), in, n) = B2!init(32)
    BY <1>2, <2>2, <2>4
  <2>6. q = 0 /\ 128 * q = 0 /\ n - 128 * q = 0
    <3>1. q = 0
      BY <1>0, <1>14
    <3>2. 128 * 0 = 0 /\ 0 - 0 = 0
      OBVIOUS
    <3> QED BY <1>14, <3>1, <3>2
  <2>7. B2!init(32) = HashState(g[q], 128 * q, b0, n - 128 * q, NotLast)
    BY <2>6, InitState DEF b0, ChainsTo
  <2>8. \A j \in 0 .. 127 : 128 * q + j < n => b0[j] = in[128 * q + j]
    BY <1>14, <2>6
  <2>9. Keeps(b0, in, n, q)
    BY <1>3, <2>8 DEF Keeps
  <2> QED BY <2>5, <2>7, <2>9
<1>15. CASE n # 0
  <2>1. left > 0
    BY <1>11, <1>15
  <2>2. f[q].left = left
    BY <1>10 DEF FillState
  <2>3. f[q + 1] = B2!Fill(f[q], in)
    <3>1. q \in 0 .. turns - 1
      BY <1>1
    <3> QED BY <1>2, <2>1, <2>2, <3>1 DEF FillIfLeft
  <2>4. f[q + 1] = FillState(g[q], t, rest, left, t + left, 0)
    <3>2. B2!Fill(FillState(g[q], t, buf, 0, t, left), in) = FillState(g[q], t, rest, left, t + left, 0)
      BY <1>8, <1>9, <2>1, FillRest DEF rest
    <3> QED BY <1>10, <2>3, <3>2
  <2>5. f[q + 1].left = 0 /\ f[q + 1].S = HashState(g[q], t, rest, left, NotLast)
    BY <2>4 DEF FillState
  <2> DEFINE Still == {k \in Nat : q + 1 + k <= turns => f[q + 1 + k] = f[q + 1]}
             m == turns - (q + 1)
  <2>6. 0 \in Still
    BY <1>1
  <2>7. m \in Nat /\ q + 1 + m = turns
    BY <1>1
  <2>8. ASSUME NEW k \in 0 .. m - 1, k \in Still PROVE k + 1 \in Still
    <3>1. q + 1 + k \in 0 .. turns - 1 /\ q + 1 + (k + 1) = (q + 1 + k) + 1 /\ q + 1 + k <= turns
      BY <1>1
    <3>2. f[q + 1 + k] = f[q + 1]
      BY <2>8, <3>1
    <3>3. f[(q + 1 + k) + 1] = FillIfLeft(f[q + 1], in)
      BY <1>2, <3>1, <3>2
    <3>4. ~ (f[q + 1].left > 0)
      BY <2>5
    <3> QED BY <3>1, <3>3, <3>4 DEF FillIfLeft
  <2>9. m \in Still
    <3> HIDE DEF Still, m
    <3> QED BY <2>6, <2>7, <2>8, StepsUpTo
  <2>10. f[turns] = f[q + 1]
    BY <2>7, <2>9, <1>1
  <2>11. B2!update(B2!init(32), in, n) = HashState(g[q], t, rest, left, NotLast)
    BY <1>2, <2>5, <2>10
  <2>12. Keeps(rest, in, n, q)
    BY <1>12 DEF Keeps, t
  <2> QED BY <2>11, <2>12 DEF t, left
<1> QED BY <1>14, <1>15

(* A buffer of n bytes, padded with zeros.                                 *)
PaddedTo(buf, n) == [j \in 0 .. 127 |-> IF j < n THEN buf[j] ELSE 0]

(* The last block is padded with zeros, counted and flagged.               *)
LEMMA FinalState ==
  ASSUME NEW h, NEW t \in Nat, NEW buf, IsBuffer(buf), NEW m \in Nat, m <= 128
  PROVE  LET padded == PaddedTo(buf, m)
             end == B2!F(h, B2!Message(padded), t + m, IsLast)
         IN  B2!final(HashState(h, t, buf, m, NotLast)) =
               [i \in 0 .. 31 |-> B2!ByteLE(end[i \div 8], i % 8, 8)]
<1> DEFINE padded == PaddedTo(buf, m)
           end == B2!F(h, B2!Message(padded), t + m, IsLast)
           S == HashState(h, t, buf, m, NotLast)
           counted == HashState(h, t + m, buf, m, NotLast)
           flagged == HashState(h, t + m, padded, m, IsLast)
<1>1. S.buflen = m /\ S.outlen = 32 /\ counted.buf = buf /\ flagged.buf = padded
  <2> HIDE DEF padded
  <2> QED BY HashStateFields
<1>2. B2!Count(S, m) = counted
  BY CountAdvances
<1>3. SetBlock(counted, padded, IsLast) = flagged
  <2> HIDE DEF padded
  <2> QED BY HashStateFields
<1>4. padded = [j \in DOMAIN buf |-> IF j < m THEN buf[j] ELSE 0]
  BY DEF IsBuffer, PaddedTo
<1>5. B2!compress(flagged, padded) = HashState(end, t + m, padded, m, IsLast)
  <2>1. t + m \in Nat
    OBVIOUS
  <2>2. IsLast \in BOOLEAN
    BY Zenon DEF IsLast
  <2> HIDE DEF padded
  <2> QED BY <2>1, <2>2, CompressState
<1>6. HashState(end, t + m, padded, m, IsLast).h = end
  <2> HIDE DEF end, padded
  <2> QED BY HashStateFields
<1> HIDE DEF S, counted, flagged, padded, end
<1>7. B2!Padded(S) = [counted EXCEPT !.buf = padded, !.last = IsLast]
  <2>1. B2!Padded(S) = [counted EXCEPT !.buf = [j \in DOMAIN @ |-> IF j < m THEN @[j] ELSE 0],
                                       !.last = IsLast]
    BY <1>1, <1>2, Zenon DEF B2!Padded, IsLast
  <2>2. [counted EXCEPT !.buf = [j \in DOMAIN @ |-> IF j < m THEN @[j] ELSE 0], !.last = IsLast] =
          [counted EXCEPT !.buf = [j \in DOMAIN buf |-> IF j < m THEN buf[j] ELSE 0], !.last = IsLast]
    BY <1>1
  <2> QED BY <1>4, <2>1, <2>2
<1>8. B2!Padded(S) = flagged
  BY <1>3, <1>7 DEF SetBlock
<1>9. B2!final(S) = [i \in 0 .. 32 - 1 |-> B2!ByteLE(end[i \div 8], i % 8, 8)]
  BY <1>1, <1>5, <1>6, <1>8 DEF B2!final, B2!WordBytes
<1> QED BY <1>9 DEF S, end, padded

(* The buffered hash is BLAKE2b, for inputs of every length.               *)
LEMMA Blake2bIsSpec ==
  ASSUME NEW in, NEW n \in Nat
  PROVE  B2!blake2b256(in, n) = B2!RFC7693(in, n)
<1>0. PICK q \in Nat : IsLastOf(q, n)
  BY BlocksOfMessage
<1>1. B2!Blocks(n) = q + 1 /\ 128 * q <= n /\ n - 128 * q <= 128
  BY <1>0 DEF IsLastOf
<1>2. PICK g : /\ g[0] = B2!init(32).h
               /\ \A k \in 0 .. q : g[k + 1] = B2!SpecBlock(g[k], k, in, n)
               /\ B2!RFC7693(in, n) = [i \in 0 .. 31 |-> B2!ByteLE(g[q + 1][i \div 8], i % 8, 8)]
  <2>1. B2!Blocks(n) \in Nat /\ B2!Blocks(n) - 1 = q
    BY <1>1
  <2>2. PICK g : /\ g[0] = B2!init(32).h
                 /\ \A k \in 0 .. B2!Blocks(n) - 1 : g[k + 1] = B2!SpecBlock(g[k], k, in, n)
                 /\ B2!RFC7693(in, n) =
                      [i \in 0 .. 31 |-> B2!ByteLE(g[B2!Blocks(n)][i \div 8], i % 8, 8)]
    BY <2>1, RFC7693Chain
  <2> QED BY <1>1, <2>1, <2>2
<1> DEFINE t == 128 * q
           m == n - 128 * q
<1>3. PICK buf : /\ Keeps(buf, in, n, q)
                 /\ B2!update(B2!init(32), in, n) = HashState(g[q], 128 * q, buf, n - 128 * q, NotLast)
  <2>1. ChainsTo(g, q, in, n)
    BY <1>2 DEF ChainsTo
  <2> QED BY <1>0, <2>1, UpdateKeepsLastBlock
<1>4. t \in Nat /\ m \in Nat /\ m <= 128 /\ t + m = n
  BY <1>1
<1> DEFINE padded == PaddedTo(buf, m)
<1>5. B2!Message(padded) = B2!Words16(in, n, q)
  <2>1. ASSUME NEW j \in 0 .. 127
        PROVE  padded[j] = IF 128 * q + j < n THEN in[128 * q + j] ELSE 0
    <3>1. j < m <=> 128 * q + j < n
      BY <1>1
    <3> HIDE DEF m
    <3> QED BY <1>3, <3>1 DEF PaddedTo, Keeps
  <2>2. IsBlock(padded, in, n, q)
    <3> HIDE DEF padded
    <3> QED BY <2>1 DEF IsBlock
  <2> HIDE DEF padded
  <2> QED BY <2>2, MessageIsWords
<1>6. g[q + 1] = B2!F(g[q], B2!Words16(in, n, q), n, IsLast)
  <2>1. g[q + 1] = B2!SpecBlock(g[q], q, in, n)
    BY <1>2
  <2>2. (q = B2!Blocks(n) - 1) = IsLast
    BY <1>1 DEF IsLast
  <2>3. (IF q = B2!Blocks(n) - 1 THEN n ELSE (q + 1) * B2!BlockBytes) = n
    BY <1>1
  <2> QED BY <2>1, <2>2, <2>3, Zenon DEF B2!SpecBlock
<1> DEFINE end == B2!F(g[q], B2!Message(padded), t + m, IsLast)
<1>7. B2!final(HashState(g[q], t, buf, m, NotLast)) =
        [i \in 0 .. 31 |-> B2!ByteLE(end[i \div 8], i % 8, 8)]
  <2> HIDE DEF t, m
  <2>1. IsBuffer(buf)
    BY <1>3 DEF Keeps
  <2> QED BY <1>4, <2>1, FinalState
<1>8. end = g[q + 1]
  <2> HIDE DEF t, m, padded
  <2> QED BY <1>4, <1>5, <1>6
<1> HIDE DEF end
<1> QED BY <1>2, <1>3, <1>7, <1>8 DEF B2!blake2b256

(* What is known of a call of blake2b256. *)
Blake2bInv ==
  call # Idle /\ call.of = "blake2b256" =>
    /\ call.args \in Blake2bLengths
    /\ "result" \in DOMAIN call => call.result = B2!blake2b256(Pattern(WordBits \div 8), call.args)

(* A call keeps its length and returns what the algorithm computes. *)
LEMMA Blake2bInvariance == Spec => []Blake2bInv
<1>1. Init => Blake2bInv
  BY DEF Init, Blake2bInv
<1>2. ASSUME Blake2bInv, [Next]_call PROVE Blake2bInv'
  <2>1. CASE CallBlake2b
    <3>1. PICK n \in Blake2bLengths : call' = [of |-> "blake2b256", args |-> n]
      BY <2>1 DEF CallBlake2b, Call
    <3> QED BY <3>1 DEF Blake2bInv
  <2>2. CASE ReturnBlake2b
    <3>1. call.args \in Blake2bLengths
      BY <1>2, <2>2 DEF Blake2bInv, ReturnBlake2b, Called
    <3>2. call' = [of |-> call.of, args |-> call.args,
                   result |-> B2!blake2b256(Pattern(WordBits \div 8), call.args)]
      BY <2>2 DEF ReturnBlake2b, Returns
    <3>3. /\ call'.args = call.args
          /\ call'.result = B2!blake2b256(Pattern(WordBits \div 8), call.args)
      BY <3>2
    <3> QED BY <3>1, <3>3 DEF Blake2bInv
  <2>3. CASE NotOf("blake2b256")
    BY <2>3 DEF NotOf, Blake2bInv
  <2>4. CASE UNCHANGED call
    BY <1>2, <2>4 DEF Blake2bInv
  <2> QED BY <1>2, <2>1, <2>2, <2>3, <2>4, StepsOfOne
<1> QED BY <1>1, <1>2, PTL DEF Spec

(* The buffered calls compute the BLAKE2b of the padded message, for inputs *)
(* of every length.                                                        *)
THEOREM BufferedHashIsBlake2b == Spec => []Blake2bIsRFC7693
<1>1. Blake2bInv => Blake2bIsRFC7693
  <2> SUFFICES ASSUME Blake2bInv, Returned("blake2b256") PROVE Blake2bIsRFC7693
    BY DEF Blake2bIsRFC7693
  <2>1. call.args \in Blake2bLengths /\ call.result = B2!blake2b256(Pattern(WordBits \div 8), call.args)
    BY DEF Blake2bInv, Returned
  <2>2. call.args \in Nat
    BY <2>1, SizesAssumption
  <2> QED BY <2>1, <2>2, Blake2bIsSpec DEF Blake2bIsRFC7693
<1> QED BY <1>1, Blake2bInvariance, PTL

-----------------------------------------------------------------------------
(* The hash of tweetnacl.c *)

(* The words of SHA-512 are those of the stream.                           *)
LEMMA ShaWords ==
  /\ Sha!Word = Salsa!Word
  /\ \A x, y : Sha!XOR(x, y) = Salsa!XOR(x, y)
<1>1. Sha!XorTable = Salsa!XorTable
  BY SamePowers DEF Sha!XorTable, Salsa!XorTable, Sha!Doubled, Salsa!Doubled
<1>2. Sha!Word = Salsa!Word
  BY SamePowers DEF Sha!Word, Salsa!Word
<1> QED BY <1>1, <1>2 DEF Sha!XOR, Salsa!XOR

(* The bits of two words, and those not of one, make a word.               *)
LEMMA LogicIsWord ==
  ASSUME NEW x \in Sha!Word, NEW y \in Sha!Word
  PROVE  Sha!XOR(x, y) \in Sha!Word /\ Sha!AND(x, y) \in Sha!Word /\ Sha!Complement(x) \in Sha!Word
<1> DEFINE M == Sha!Power[WordBits]
           z == Sha!XOR(x, y)
<1>1. M \in Nat \ {0}
  BY WordIsInt, SamePowers
<1>2. x \in 0 .. M - 1 /\ y \in 0 .. M - 1
  BY DEF Sha!Word
<1>3. z \in 0 .. M - 1 /\ z <= x + y
  <2>1. z = Salsa!XorTable[x][y]
    BY ShaWords DEF Salsa!XOR
  <2> QED BY <1>2, <2>1, SamePowers, XorTableIsClosed DEF Closed
<1> HIDE DEF M, z
<1>4. (x + y - z) \div 2 \in 0 .. M - 1 /\ M - 1 - x \in 0 .. M - 1
  BY <1>1, <1>2, <1>3
<1> QED BY <1>3, <1>4 DEF Sha!Word, Sha!AND, Sha!Complement, M, z

(* A sum of two numbers is a word.                                         *)
LEMMA SumIsWord ==
  ASSUME NEW x \in Int, NEW y \in Int
  PROVE  Sha!Add(x, y) \in Sha!Word
<1> DEFINE M == Sha!Power[WordBits]
<1>1. M \in Nat \ {0}
  BY WordIsInt, SamePowers
<1> HIDE DEF M
<1>2. (x + y) % M \in 0 .. M - 1
  BY <1>1
<1> QED BY <1>2 DEF Sha!Add, Sha!Word, M

(* A summand may be reduced before.                                        *)
LEMMA SumOfReduced ==
  ASSUME NEW x \in Int, NEW y \in Int
  PROVE  Sha!Add(x % Sha!Power[WordBits], y) = Sha!Add(x, y)
<1> DEFINE M == Sha!Power[WordBits]
<1>1. M \in Nat \ {0}
  BY WordIsInt, SamePowers
<1>2. \A a, b : Sha!Add(a, b) = (a + b) % M
  BY DEF Sha!Add
<1> HIDE DEF M
<1>3. ((x % M) + y) % M = (x + y) % M
  BY <1>1, ReducedBefore
<1> QED BY <1>2, <1>3 DEF M

(* A word rotated or shifted by each of the distances is a word.           *)
LEMMA RotrIsWord ==
  ASSUME NEW x \in Sha!Word
  PROVE  /\ Sha!R(x, 28) \in Sha!Word
         /\ Sha!R(x, 34) \in Sha!Word
         /\ Sha!R(x, 39) \in Sha!Word
         /\ Sha!R(x, 14) \in Sha!Word
         /\ Sha!R(x, 18) \in Sha!Word
         /\ Sha!R(x, 41) \in Sha!Word
         /\ Sha!R(x, 1) \in Sha!Word
         /\ Sha!R(x, 8) \in Sha!Word
         /\ Sha!R(x, 19) \in Sha!Word
         /\ Sha!R(x, 61) \in Sha!Word
         /\ Sha!Shr(x, 6) \in Sha!Word /\ Sha!Shr(x, 7) \in Sha!Word
<1>1. ASSUME NEW c \in Nat PROVE Sha!R(x, c) \in Sha!Word
  <2> DEFINE k == WordBits - (c % WordBits)
  <2>1. k \in Nat
    <3>1. WordBits \in Nat \ {0}
      BY Sizes
    <3> QED BY <3>1
  <2>2. Sha!R(x, c) = Salsa!Rotl(x, k)
    BY SamePowers DEF Sha!R, Sha!Rotr, Sha!Rotl, Salsa!Rotl
  <2> HIDE DEF k
  <2> QED BY <2>1, <2>2, RotatedIsWord, ShaWords
<1>2. ASSUME NEW c \in 0 .. WordBits PROVE Sha!Shr(x, c) \in Sha!Word
  <2> DEFINE e == Sha!Power[c]
             M == Sha!Power[WordBits]
  <2>1. e \in Nat \ {0} /\ Sha!Shr(x, c) = x \div e
    BY PowerOfSum, SamePowers DEF Sha!Shr
  <2>2. x \in 0 .. M - 1 /\ M \in Nat /\ x \in Nat /\ x \in Int
    BY WordIsInt, SamePowers DEF Sha!Word
  <2> HIDE DEF e, M
  <2>3. x \div e \in Nat /\ x \div e <= x
    BY <2>1, <2>2, Division
  <2>4. x \div e \in 0 .. M - 1
    BY <2>2, <2>3
  <2> QED BY <2>1, <2>4 DEF M, Sha!Word
<1>3. 6 \in 0 .. WordBits /\ 7 \in 0 .. WordBits
  BY SizesAssumption
<1> QED BY <1>1, <1>2, <1>3

(* So are the functions of SHA-512 of words.                               *)
LEMMA SigmaIsWord ==
  ASSUME NEW x \in Sha!Word
  PROVE  /\ Sha!Sigma0(x) \in Sha!Word /\ Sha!Sigma1(x) \in Sha!Word
         /\ Sha!sigma0(x) \in Sha!Word /\ Sha!sigma1(x) \in Sha!Word
BY RotrIsWord, LogicIsWord DEF Sha!Sigma0, Sha!Sigma1, Sha!sigma0, Sha!sigma1

(* So are its choice and its majority.                                     *)
LEMMA ChoiceIsWord ==
  ASSUME NEW x \in Sha!Word, NEW y \in Sha!Word, NEW z \in Sha!Word
  PROVE  Sha!Ch(x, y, z) \in Sha!Word /\ Sha!Maj(x, y, z) \in Sha!Word
BY LogicIsWord DEF Sha!Ch, Sha!Maj

(* Its constants are numbers, and so are its words.                        *)
LEMMA ShaIntegers ==
  /\ Sha!Word \subseteq Int
  /\ \A i \in 0 .. 79 : Sha!K[i] \in Int
<1>1. Sha!Word \subseteq Int
  BY ShaWords, WordIsInt
<1>2. ASSUME NEW i \in 0 .. 79 PROVE Sha!K[i] \in Int
  <2> DEFINE M == Sha!Power[WordBits]
  <2>1. M \in Nat \ {0} /\ Sha!K[i] = (57 * i + 34) % M
    BY WordIsInt, SamePowers DEF Sha!K
  <2> HIDE DEF M
  <2> QED BY <2>1
<1> QED BY <1>1, <1>2

(* A function of 1 .. l, and one value more.                               *)
LEMMA AppendFunction ==
  ASSUME NEW l \in Nat, NEW s, s = [i \in 1 .. l |-> s[i]], NEW x
  PROVE  Append(s, x) = [i \in 1 .. l + 1 |-> IF i <= l THEN s[i] ELSE x]
<1> DEFINE S == {s[i] : i \in 1 .. l} \cup {x}
<1>1. s \in [1 .. l -> S] /\ x \in S
  BY Zenon
<1> HIDE DEF S
<1>2. s \in Seq(S) /\ Len(s) = l
  BY <1>1
<1>3. Append(s, x) \in Seq(S) /\ Len(Append(s, x)) = l + 1
  BY <1>1, <1>2
<1>4. \A i \in 1 .. l + 1 : Append(s, x)[i] = IF i <= l THEN s[i] ELSE x
  BY <1>1, <1>2
<1>5. Append(s, x) = [i \in 1 .. l + 1 |-> Append(s, x)[i]]
  BY <1>3
<1> QED BY <1>4, <1>5

(* One more word of the schedule.                                          *)
Scheduled(v, block, t) == Append(v, Sha!SpecWord(v, block, t))
(* The words of the schedule, one after another. *)
LEMMA ScheduleChain ==
  ASSUME NEW block
  PROVE  \E f : /\ f[0] = << >>
                /\ \A i \in 0 .. 79 : f[i + 1] = Scheduled(f[i], block, i)
                /\ Sha!SpecSchedule(block) = f[80]
<1> DEFINE Eq(fn, top) == fn = [i \in 0 .. top |->
             IF i = 0 THEN << >>
             ELSE Scheduled(fn[i - 1], block, i - 1)]
           G == {top \in Nat : \E fn : Eq(fn, top)}
<1>1. ASSUME NEW top \in Nat, \A low \in 0 .. top - 1 : low \in G PROVE top \in G
  <2>1. CASE top = 0
    <3>1. Eq([i \in 0 .. top |-> << >>], top)
      BY <2>1
    <3> QED BY <3>1
  <2>2. CASE top # 0
    <3>1. PICK f : Eq(f, top - 1)
      <4>1. top - 1 \in 0 .. top - 1
        BY <2>2
      <4> HIDE DEF Eq, G
      <4>2. top - 1 \in G
        BY <1>1, <4>1
      <4> QED BY <4>2 DEF G
    <3> DEFINE g == [i \in 0 .. top |->
                     IF i = top THEN Scheduled(f[top - 1], block, top - 1) ELSE f[i]]
    <3>2. Eq(g, top)
      BY <2>2, <3>1
    <3> QED BY <3>2
  <2> QED BY <2>1, <2>2
<1>2. PICK f : Eq(f, 80)
  <2>1. 80 \in G
    BY <1>1, CompleteInduction, Zenon
  <2> QED BY <2>1, Zenon
<1> DEFINE h == CHOOSE fn : Eq(fn, 80)
<1>3. Eq(h, 80)
  BY <1>2, Zenon
<1>4. Sha!SpecSchedule(block) = h[80]
  BY DEF Scheduled, Sha!SpecSchedule, Sha!Iterate, Sha!Then
<1> HIDE DEF h
<1>5. h[0] = << >> /\ \A i \in 0 .. 79 : h[i + 1] = Scheduled(h[i], block, i)
  BY <1>3
<1> QED BY <1>4, <1>5

(* The words of a block, and of its schedule: the function is of rounds.   *)
IsBlockWords(block) == \A i \in 0 .. 15 : block[i] \in Sha!Word
IsSchedule(S, block) ==
  /\ \A t \in 0 .. 79 : S[t] \in Sha!Word
  /\ \A t \in 0 .. 15 : S[t] = block[t]
  /\ \A t \in 16 .. 79 :
       S[t] = Sha!Add(Sha!sigma1(S[t - 2]) + S[t - 7], Sha!sigma0(S[t - 15]) + S[t - 16])

(* Each word of the schedule depends on words before it, all of them words *)
(* of the width.                                                           *)
LEMMA ScheduleWords ==
  ASSUME NEW block, IsBlockWords(block)
  PROVE  \E S : IsSchedule(S, block) /\ Sha!SpecSchedule(block) = [i \in 1 .. 80 |-> S[i - 1]]
<1>1. PICK f : /\ f[0] = << >>
               /\ \A i \in 0 .. 79 : f[i + 1] = Scheduled(f[i], block, i)
               /\ Sha!SpecSchedule(block) = f[80]
  BY ScheduleChain
<1> DEFINE Prefix(t) == f[t] = [i \in 1 .. t |-> f[i][i]]
           Words(t) == \A i \in 1 .. t : f[i][i] \in Sha!Word
           G == {t \in 0 .. 80 : Prefix(t) /\ Words(t)}
<1>2. 0 \in G
  <2>1. 1 .. 0 = {} /\ 0 \in 0 .. 80
    OBVIOUS
  <2>2. Prefix(0) /\ Words(0)
    BY <1>1, <2>1
  <2> HIDE DEF Prefix, Words
  <2> QED BY <2>1, <2>2
<1>3. ASSUME NEW t \in 0 .. 80 - 1, t \in G
      PROVE  /\ t + 1 \in G
             /\ f[t + 1][t + 1] = Sha!SpecWord(f[t], block, t)
  <2> DEFINE v == f[t]
             x == Sha!SpecWord(v, block, t)
  <2>1. t \in 0 .. 79 /\ t \in Nat /\ t + 1 \in 0 .. 80 /\ t + 1 \in 1 .. t + 1
        /\ Prefix(t) /\ Words(t)
    BY <1>3
  <2>2. f[t + 1] = Append(v, x)
    BY <1>1, <2>1, Zenon DEF Scheduled
  <2> HIDE DEF x
  <2>3. v = [i \in 1 .. t |-> v[i]] /\ \A i \in 1 .. t : v[i] = f[i][i]
    BY <2>1
  <2> HIDE DEF v
  <2>4. f[t + 1] = [i \in 1 .. t + 1 |-> IF i <= t THEN v[i] ELSE x]
    BY <2>1, <2>2, <2>3, AppendFunction
  <2>5. f[t + 1][t + 1] = x
    <3>1. ~(t + 1 <= t)
      BY <2>1
    <3> QED BY <2>1, <2>4, <3>1
  <2>6. \A i \in 1 .. t + 1 : f[i][i] = IF i <= t THEN v[i] ELSE x
    <3>1. \A i \in 1 .. t + 1 : i \in 1 .. t \/ i = t + 1
      BY <2>1
    <3>2. \A i \in 1 .. t : i <= t
      BY <2>1
    <3>3. ~(t + 1 <= t)
      BY <2>1
    <3> QED BY <2>3, <2>5, <3>1, <3>2, <3>3
  <2>7. Prefix(t + 1)
    BY <2>4, <2>6
  <2>8. x \in Sha!Word
    <3>1. CASE t < 16
      <4>1. t \in 0 .. 15 /\ x = block[t]
        BY <2>1, <3>1 DEF x, Sha!SpecWord
      <4> QED BY <4>1 DEF IsBlockWords
    <3>2. CASE ~(t < 16)
      <4>1. t - 1 \in 1 .. t /\ t - 6 \in 1 .. t /\ t - 14 \in 1 .. t /\ t - 15 \in 1 .. t
        BY <2>1, <3>2
      <4>2. /\ v[t - 1] \in Sha!Word /\ v[t - 6] \in Sha!Word
            /\ v[t - 14] \in Sha!Word /\ v[t - 15] \in Sha!Word
        BY <2>1, <2>3, <4>1
      <4>3. x = Sha!Add(Sha!sigma1(v[t - 1]) + v[t - 6], Sha!sigma0(v[t - 14]) + v[t - 15])
        BY <3>2 DEF x, Sha!SpecWord
      <4> DEFINE a == Sha!sigma1(v[t - 1])
                 b == v[t - 6]
                 c == Sha!sigma0(v[t - 14])
                 d == v[t - 15]
      <4>4. a \in Int /\ b \in Int /\ c \in Int /\ d \in Int
        BY <4>2, SigmaIsWord, ShaIntegers
      <4> HIDE DEF a, b, c, d
      <4>5. a + b \in Int /\ c + d \in Int
        BY <4>4
      <4>6. Sha!Add(a + b, c + d) \in Sha!Word
        BY <4>5, SumIsWord
      <4> QED BY <4>3, <4>6 DEF a, b, c, d
    <3> QED BY <3>1, <3>2
  <2>9. Words(t + 1)
    <3>1. \A i \in 1 .. t + 1 : i \in 1 .. t \/ i = t + 1
      BY <2>1
    <3> QED BY <2>1, <2>5, <2>8, <3>1
  <2> HIDE DEF Prefix, Words
  <2> QED BY <2>1, <2>5, <2>7, <2>9 DEF x, v
<1>4. ASSUME NEW t \in 0 .. 80 PROVE t \in G
  <2> HIDE DEF G
  <2>1. \A i \in 0 .. 80 : i \in G
    BY <1>2, <1>3, AllStepsUpTo
  <2> QED BY <2>1
<1> DEFINE S == [t \in 0 .. 79 |-> f[t + 1][t + 1]]
<1>5. ASSUME NEW t \in 0 .. 79 PROVE S[t] = Sha!SpecWord(f[t], block, t)
  <2>1. t \in 0 .. 80 - 1 /\ t \in 0 .. 80
    OBVIOUS
  <2> HIDE DEF G
  <2>2. f[t + 1][t + 1] = Sha!SpecWord(f[t], block, t)
    BY <1>3, <1>4, <2>1
  <2> QED BY <2>2
<1>6. ASSUME NEW t \in 0 .. 79 PROVE S[t] \in Sha!Word
  <2>1. t + 1 \in 0 .. 80 /\ t + 1 \in 1 .. t + 1
    OBVIOUS
  <2>2. Words(t + 1)
    BY <1>4, <2>1, Zenon
  <2>3. f[t + 1][t + 1] \in Sha!Word
    BY <2>1, <2>2
  <2> QED BY <2>3
<1>7. ASSUME NEW t \in 0 .. 79, NEW i \in 1 .. t PROVE f[t][i] = S[i - 1]
  <2>1. t \in 0 .. 80 /\ i - 1 \in 0 .. 79 /\ (i - 1) + 1 = i
    OBVIOUS
  <2>2. Prefix(t)
    BY <1>4, <2>1, Zenon
  <2>3. f[t][i] = f[i][i]
    BY <2>2
  <2>4. S[i - 1] = f[(i - 1) + 1][(i - 1) + 1]
    BY <2>1
  <2> QED BY <2>1, <2>3, <2>4
<1>8. Sha!SpecSchedule(block) = [i \in 1 .. 80 |-> S[i - 1]]
  <2>1. Prefix(80)
    <3>1. 80 \in G
      <4> HIDE DEF G
      <4> QED BY <1>4
    <3> QED BY <3>1
  <2>2. \A i \in 1 .. 80 : i - 1 \in 0 .. 79 /\ (i - 1) + 1 = i
    OBVIOUS
  <2>3. \A i \in 1 .. 80 : S[i - 1] = f[i][i]
    BY <2>2
  <2> HIDE DEF S
  <2> QED BY <1>1, <2>1, <2>3
<1> HIDE DEF S, G
<1>9. \A t \in 0 .. 15 : S[t] = block[t]
  <2>1. \A t \in 0 .. 15 : t \in 0 .. 79 /\ t < 16
    OBVIOUS
  <2> QED BY <1>5, <2>1 DEF Sha!SpecWord
<1>10. ASSUME NEW t \in 16 .. 79
       PROVE  S[t] = Sha!Add(Sha!sigma1(S[t - 2]) + S[t - 7], Sha!sigma0(S[t - 15]) + S[t - 16])
  <2>1. /\ t \in 0 .. 79 /\ ~(t < 16)
        /\ t - 1 \in 1 .. t /\ t - 6 \in 1 .. t /\ t - 14 \in 1 .. t /\ t - 15 \in 1 .. t
        /\ (t - 1) - 1 = t - 2 /\ (t - 6) - 1 = t - 7
        /\ (t - 14) - 1 = t - 15 /\ (t - 15) - 1 = t - 16
    OBVIOUS
  <2>2. /\ f[t][t - 1] = S[t - 2] /\ f[t][t - 6] = S[t - 7]
        /\ f[t][t - 14] = S[t - 15] /\ f[t][t - 15] = S[t - 16]
    BY <1>7, <2>1, Zenon
  <2> QED BY <1>5, <2>1, <2>2, Zenon DEF Sha!SpecWord
<1> QED BY <1>6, <1>8, <1>9, <1>10, Zenon DEF IsSchedule

(* The loop that makes the next sixteen words. *)
LEMMA RewriteChain ==
  ASSUME NEW w
  PROVE  \E f : /\ f[0] = w
                /\ \A i \in 0 .. 15 : f[i + 1] = Sha!Rewrite(f[i], i)
                /\ Sha!NextWords(w) = f[16]
<1> DEFINE Eq(fn, top) == fn = [i \in 0 .. top |->
             IF i = 0 THEN w
             ELSE Sha!Rewrite(fn[i - 1], i - 1)]
           G == {top \in Nat : \E fn : Eq(fn, top)}
<1>1. ASSUME NEW top \in Nat, \A low \in 0 .. top - 1 : low \in G PROVE top \in G
  <2>1. CASE top = 0
    <3>1. Eq([i \in 0 .. top |-> w], top)
      BY <2>1
    <3> QED BY <3>1
  <2>2. CASE top # 0
    <3>1. PICK f : Eq(f, top - 1)
      <4>1. top - 1 \in 0 .. top - 1
        BY <2>2
      <4> HIDE DEF Eq, G
      <4>2. top - 1 \in G
        BY <1>1, <4>1
      <4> QED BY <4>2 DEF G
    <3> DEFINE g == [i \in 0 .. top |->
                     IF i = top THEN Sha!Rewrite(f[top - 1], top - 1) ELSE f[i]]
    <3>2. Eq(g, top)
      BY <2>2, <3>1
    <3> QED BY <3>2
  <2> QED BY <2>1, <2>2
<1>2. PICK f : Eq(f, 16)
  <2>1. 16 \in G
    BY <1>1, CompleteInduction, Zenon
  <2> QED BY <2>1
<1> DEFINE h == CHOOSE fn : Eq(fn, 16)
<1>3. Eq(h, 16)
  BY <1>2, Zenon
<1>4. Sha!NextWords(w) = h[16]
  BY DEF Sha!NextWords, Sha!Iterate, Sha!Then
<1> HIDE DEF h
<1>5. h[0] = w /\ \A i \in 0 .. 15 : h[i + 1] = Sha!Rewrite(h[i], i)
  BY <1>3
<1> QED BY <1>4, <1>5

(* Sixteen words of the schedule.                                          *)
Window(S, k) == [p \in 0 .. 15 |-> S[16 * k + p]]

(* The loop that overwrites the sixteen words reads the words the schedule *)
(* names, replaced or not.                                                 *)
LEMMA NextWordsAreScheduled ==
  ASSUME NEW block, NEW S, IsSchedule(S, block), NEW k \in 0 .. 3
  PROVE  Sha!NextWords(Window(S, k)) = Window(S, k + 1)
<1>1. PICK g : /\ g[0] = Window(S, k)
               /\ \A j \in 0 .. 15 : g[j + 1] = Sha!Rewrite(g[j], j)
               /\ Sha!NextWords(Window(S, k)) = g[16]
  BY RewriteChain
<1> DEFINE Half(j) == [p \in 0 .. 15 |-> IF p < j THEN S[16 * k + 16 + p] ELSE S[16 * k + p]]
           G == {j \in 0 .. 16 : g[j] = Half(j)}
<1>2. 0 \in G
  <2>1. Half(0) = Window(S, k)
    BY DEF Window
  <2> HIDE DEF Half
  <2> QED BY <1>1, <2>1
<1>3. ASSUME NEW j \in 0 .. 16 - 1, j \in G PROVE j + 1 \in G
  <2> DEFINE v == Half(j)
             at == 16 * k + j
             x == Sha!Add(v[j] + v[(j + 9) % 16], Sha!sigma0(v[(j + 1) % 16]) + Sha!sigma1(v[(j + 14) % 16]))
  <2>1. j \in 0 .. 15 /\ j + 1 \in 0 .. 16 /\ g[j + 1] = Sha!Rewrite(v, j)
    BY <1>1, <1>3
  <2>2. /\ at + 16 \in 16 .. 79 /\ at \in 0 .. 79 /\ at + 1 \in 0 .. 79 /\ at + 9 \in 0 .. 79
        /\ at + 14 \in 0 .. 79
        /\ (at + 16) - 2 = at + 14 /\ (at + 16) - 7 = at + 9
        /\ (at + 16) - 15 = at + 1 /\ (at + 16) - 16 = at
    BY <2>1
  <2>3. v[j] = S[at]
    BY <2>1
  <2>4. v[(j + 9) % 16] = S[at + 9]
    <3>1. CASE j < 7
      <4>1. (j + 9) % 16 = j + 9 /\ ~(j + 9 < j) /\ 16 * k + (j + 9) = at + 9 /\ j + 9 \in 0 .. 15
        BY <2>1, <3>1
      <4> HIDE DEF at
      <4> QED BY <4>1
    <3>2. CASE ~(j < 7)
      <4>1. (j + 9) % 16 = j - 7 /\ j - 7 < j /\ 16 * k + 16 + (j - 7) = at + 9 /\ j - 7 \in 0 .. 15
        BY <2>1, <3>2
      <4> HIDE DEF at
      <4> QED BY <4>1
    <3> QED BY <3>1, <3>2
  <2>5. v[(j + 1) % 16] = S[at + 1]
    <3>1. CASE j < 15
      <4>1. (j + 1) % 16 = j + 1 /\ ~(j + 1 < j) /\ 16 * k + (j + 1) = at + 1 /\ j + 1 \in 0 .. 15
        BY <2>1, <3>1
      <4> HIDE DEF at
      <4> QED BY <4>1
    <3>2. CASE ~(j < 15)
      <4>1. (j + 1) % 16 = 0 /\ 0 < j /\ 16 * k + 16 + 0 = at + 1
        BY <2>1, <3>2
      <4> HIDE DEF at
      <4> QED BY <4>1
    <3> QED BY <3>1, <3>2
  <2>6. v[(j + 14) % 16] = S[at + 14]
    <3>1. CASE j < 2
      <4>1. (j + 14) % 16 = j + 14 /\ ~(j + 14 < j) /\ 16 * k + (j + 14) = at + 14 /\ j + 14 \in 0 .. 15
        BY <2>1, <3>1
      <4> HIDE DEF at
      <4> QED BY <4>1
    <3>2. CASE ~(j < 2)
      <4>1. (j + 14) % 16 = j - 2 /\ j - 2 < j /\ 16 * k + 16 + (j - 2) = at + 14 /\ j - 2 \in 0 .. 15
        BY <2>1, <3>2
      <4> HIDE DEF at
      <4> QED BY <4>1
    <3> QED BY <3>1, <3>2
  <2>7. Sha!Rewrite(v, j) = [v EXCEPT ![j] = x]
    <3>1. v = [p \in 0 .. 15 |-> v[p]]
      OBVIOUS
    <3> HIDE DEF v
    <3> QED BY <2>1, <3>1 DEF Sha!Rewrite
  <2> HIDE DEF at
  <2>8. S[at + 16] = Sha!Add(Sha!sigma1(S[at + 14]) + S[at + 9], Sha!sigma0(S[at + 1]) + S[at])
    BY <2>2 DEF IsSchedule
  <2>9. x = S[at + 16]
    <3> DEFINE a == S[at]
               b == S[at + 9]
               c == Sha!sigma0(S[at + 1])
               d == Sha!sigma1(S[at + 14])
    <3>1. a \in Int /\ b \in Int /\ c \in Int /\ d \in Int
      <4>1. S[at] \in Sha!Word /\ S[at + 9] \in Sha!Word /\ S[at + 1] \in Sha!Word /\ S[at + 14] \in Sha!Word
        BY <2>2 DEF IsSchedule
      <4> QED BY <4>1, SigmaIsWord, ShaIntegers
    <3>2. x = Sha!Add(a + b, c + d) /\ S[at + 16] = Sha!Add(d + b, c + a)
      <4> HIDE DEF v
      <4> QED BY <2>3, <2>4, <2>5, <2>6, <2>8
    <3> HIDE DEF a, b, c, d, x, v
    <3>3. (a + b) + (c + d) = (d + b) + (c + a)
      BY <3>1
    <3> QED BY <3>2, <3>3 DEF Sha!Add
  <2> HIDE DEF x
  <2>10. [v EXCEPT ![j] = x] = Half(j + 1)
    <3>1. \A p \in 0 .. 15 : p < j + 1 <=> p < j \/ p = j
      BY <2>1
    <3>2. 16 * k + 16 + j = at + 16
      BY <2>1 DEF at
    <3>3. ASSUME NEW p \in 0 .. 15 PROVE [v EXCEPT ![j] = x][p] = Half(j + 1)[p]
      <4>1. CASE p = j
        <5>1. [v EXCEPT ![j] = x][p] = x
          BY <2>1, <4>1
        <5>2. Half(j + 1)[p] = S[16 * k + 16 + j]
          BY <3>1, <4>1
        <5> QED BY <2>9, <3>2, <5>1, <5>2
      <4>2. CASE p # j
        <5>1. [v EXCEPT ![j] = x][p] = v[p]
          BY <2>1, <4>2
        <5>2. Half(j + 1)[p] = v[p]
          BY <3>1, <4>2
        <5> QED BY <5>1, <5>2
      <4> QED BY <4>1, <4>2
    <3> QED BY <3>3
  <2> HIDE DEF v, Half
  <2> QED BY <2>1, <2>7, <2>10
<1>4. 16 \in G
  <2> HIDE DEF G
  <2> QED BY <1>2, <1>3, StepsUpTo
<1>5. Half(16) = Window(S, k + 1)
  <2>1. \A p \in 0 .. 15 : p < 16 /\ 16 * k + 16 + p = 16 * (k + 1) + p
    OBVIOUS
  <2> QED BY <2>1 DEF Window
<1> HIDE DEF Half
<1> QED BY <1>1, <1>4, <1>5

(* What the rounds of crypto_hashblocks() and of the definition start from. *)
ShaStart(y, m, at) == [a |-> y, w |-> Sha!Load16(m, at)]
SpecShaStart(y) == [i \in 1 .. 8 |-> y[i - 1]]
(* The rounds of crypto_hashblocks(). *)
LEMMA HashRoundsChain ==
  ASSUME NEW y, NEW m, NEW at
  PROVE  \E f : /\ f[0] = ShaStart(y, m, at)
                /\ \A i \in 0 .. 79 : f[i + 1] = Sha!HashRound(f[i], i)
                /\ Sha!HashBlock(y, m, at) = [j \in 0 .. 7 |-> Sha!Add(f[80].a[j], y[j])]
<1> DEFINE Eq(fn, top) == fn = [i \in 0 .. top |->
             IF i = 0 THEN ShaStart(y, m, at)
             ELSE Sha!HashRound(fn[i - 1], i - 1)]
           G == {top \in Nat : \E fn : Eq(fn, top)}
<1>1. ASSUME NEW top \in Nat, \A low \in 0 .. top - 1 : low \in G PROVE top \in G
  <2>1. CASE top = 0
    <3>1. Eq([i \in 0 .. top |-> ShaStart(y, m, at)], top)
      BY <2>1
    <3> QED BY <3>1
  <2>2. CASE top # 0
    <3>1. PICK f : Eq(f, top - 1)
      <4>1. top - 1 \in 0 .. top - 1
        BY <2>2
      <4> HIDE DEF Eq, G
      <4>2. top - 1 \in G
        BY <1>1, <4>1
      <4> QED BY <4>2 DEF G
    <3> DEFINE g == [i \in 0 .. top |->
                     IF i = top THEN Sha!HashRound(f[top - 1], top - 1) ELSE f[i]]
    <3>2. Eq(g, top)
      BY <2>2, <3>1
    <3> QED BY <3>2
  <2> QED BY <2>1, <2>2
<1>2. PICK f : Eq(f, 80)
  <2>1. 80 \in G
    BY <1>1, CompleteInduction, Zenon
  <2> QED BY <2>1
<1> DEFINE h == CHOOSE fn : Eq(fn, 80)
<1>3. Eq(h, 80)
  BY <1>2, Zenon
<1>4. Sha!HashBlock(y, m, at) = [j \in 0 .. 7 |-> Sha!Add(h[80].a[j], y[j])]
  BY DEF ShaStart, Sha!HashBlock, Sha!Iterate, Sha!Then
<1> HIDE DEF h
<1>5. h[0] = ShaStart(y, m, at) /\ \A i \in 0 .. 79 : h[i + 1] = Sha!HashRound(h[i], i)
  BY <1>3
<1> QED BY <1>4, <1>5

(* The rounds of SHA-512. *)
LEMMA SpecShaRoundsChain ==
  ASSUME NEW y, NEW block
  PROVE  \E f : /\ f[0] = SpecShaStart(y)
                /\ \A i \in 0 .. 79 : f[i + 1] = Sha!SpecRound(f[i], Sha!SpecSchedule(block), i)
                /\ Sha!SpecBlock(y, block) = [j \in 0 .. 7 |-> Sha!Add(y[j], f[80][j + 1])]
<1> DEFINE Eq(fn, top) == fn = [i \in 0 .. top |->
             IF i = 0 THEN SpecShaStart(y)
             ELSE Sha!SpecRound(fn[i - 1], Sha!SpecSchedule(block), i - 1)]
           G == {top \in Nat : \E fn : Eq(fn, top)}
<1>1. ASSUME NEW top \in Nat, \A low \in 0 .. top - 1 : low \in G PROVE top \in G
  <2>1. CASE top = 0
    <3>1. Eq([i \in 0 .. top |-> SpecShaStart(y)], top)
      BY <2>1
    <3> QED BY <3>1
  <2>2. CASE top # 0
    <3>1. PICK f : Eq(f, top - 1)
      <4>1. top - 1 \in 0 .. top - 1
        BY <2>2
      <4> HIDE DEF Eq, G
      <4>2. top - 1 \in G
        BY <1>1, <4>1
      <4> QED BY <4>2 DEF G
    <3> DEFINE g == [i \in 0 .. top |->
                     IF i = top THEN Sha!SpecRound(f[top - 1], Sha!SpecSchedule(block), top - 1) ELSE f[i]]
    <3>2. Eq(g, top)
      BY <2>2, <3>1
    <3> QED BY <3>2
  <2> QED BY <2>1, <2>2
<1>2. PICK f : Eq(f, 80)
  <2>1. 80 \in G
    BY <1>1, CompleteInduction, Zenon
  <2> QED BY <2>1
<1> DEFINE h == CHOOSE fn : Eq(fn, 80)
<1>3. Eq(h, 80)
  BY <1>2, Zenon
<1>4. Sha!SpecBlock(y, block) = [j \in 0 .. 7 |-> Sha!Add(y[j], h[80][j + 1])]
  BY DEF SpecShaStart, Sha!SpecBlock, Sha!Iterate, Sha!Then
<1> HIDE DEF h
<1>5. h[0] = SpecShaStart(y) /\ \A i \in 0 .. 79 : h[i + 1] = Sha!SpecRound(h[i], Sha!SpecSchedule(block), i)
  BY <1>3
<1> QED BY <1>4, <1>5

(* The eight words of the code, from 0, and of the definition, from 1.     *)
IsHash(a) == a = [j \in 0 .. 7 |-> a[j]] /\ \A j \in 0 .. 7 : a[j] \in Sha!Word
SameWords(a, v) == IsHash(a) /\ \A j \in 0 .. 7 : a[j] = v[j + 1]

(* A round of crypto_hashblocks() is a round of SHA-512.                   *)
LEMMA HashRoundIsSpec ==
  ASSUME NEW s, NEW v, NEW w, NEW i \in 0 .. 79, SameWords(s.a, v),
         s.w[i % 16] \in Sha!Word, w[i + 1] = s.w[i % 16]
  PROVE  SameWords(Sha!HashRound(s, i).a, Sha!SpecRound(v, w, i))
<1> DEFINE a == s.a
           x == s.w[i % 16]
           A == a[7] + Sha!Sigma1(a[4]) + Sha!Ch(a[4], a[5], a[6])
           B == Sha!K[i] + x
           t == Sha!Add(A, B)
           M == Sha!Sigma0(a[0]) + Sha!Maj(a[0], a[1], a[2])
           p == Sha!Add(t, M)
           q == Sha!Add(a[3], t)
           b == [a EXCEPT ![7] = p, ![3] = Sha!Add(@, t)]
           T == v[8] + Sha!Sigma1(v[5]) + Sha!Ch(v[5], v[6], v[7]) + Sha!K[i] + w[i + 1]
<1>1. /\ a[0] \in Sha!Word /\ a[1] \in Sha!Word /\ a[2] \in Sha!Word /\ a[3] \in Sha!Word
      /\ a[4] \in Sha!Word /\ a[5] \in Sha!Word /\ a[6] \in Sha!Word /\ a[7] \in Sha!Word
      /\ a = [j \in 0 .. 7 |-> a[j]]
  BY DEF SameWords, IsHash
<1>2. /\ v[1] = a[0] /\ v[2] = a[1] /\ v[3] = a[2] /\ v[4] = a[3]
      /\ v[5] = a[4] /\ v[6] = a[5] /\ v[7] = a[6] /\ v[8] = a[7]
  <2>1. /\ a[0] = v[0 + 1] /\ a[1] = v[1 + 1] /\ a[2] = v[2 + 1] /\ a[3] = v[3 + 1]
        /\ a[4] = v[4 + 1] /\ a[5] = v[5 + 1] /\ a[6] = v[6 + 1] /\ a[7] = v[7 + 1]
    BY DEF SameWords
  <2> HIDE DEF a
  <2> QED BY <2>1
<1>3. A \in Int /\ B \in Int /\ M \in Int /\ a[3] \in Int
  <2> DEFINE c1 == Sha!Sigma1(a[4])
             c2 == Sha!Ch(a[4], a[5], a[6])
             c3 == Sha!Sigma0(a[0])
             c4 == Sha!Maj(a[0], a[1], a[2])
  <2>1. c1 \in Int /\ c2 \in Int /\ c3 \in Int /\ c4 \in Int
    <3> HIDE DEF a
    <3> QED BY <1>1, SigmaIsWord, ChoiceIsWord, ShaIntegers
  <2>2. Sha!K[i] \in Int /\ x \in Int /\ a[7] \in Int /\ a[3] \in Int
    BY <1>1, ShaIntegers
  <2> HIDE DEF a, x, c1, c2, c3, c4
  <2>3. (a[7] + c1) + c2 \in Int /\ Sha!K[i] + x \in Int /\ c3 + c4 \in Int
    BY <2>1, <2>2
  <2> QED BY <2>2, <2>3 DEF c1, c2, c3, c4
<1>4. T = A + B
  <2> DEFINE c == A
  <2>1. T = c + Sha!K[i] + x
    <3> HIDE DEF a
    <3> QED BY <1>2
  <2>2. c \in Int /\ Sha!K[i] \in Int /\ x \in Int
    BY <1>3, ShaIntegers
  <2> HIDE DEF c, x, T
  <2>3. T = c + (Sha!K[i] + x)
    BY <2>1, <2>2
  <2> QED BY <2>3 DEF c
<1>5. Sha!SpecRound(v, w, i) = <<Sha!Add(T, M), v[1], v[2], v[3], Sha!Add(v[4], T), v[5], v[6], v[7]>>
  <2>1. M = Sha!Sigma0(v[1]) + Sha!Maj(v[1], v[2], v[3])
    <3> HIDE DEF a
    <3> QED BY <1>2
  <2> HIDE DEF M
  <2> QED BY <2>1 DEF Sha!SpecRound
<1>6. Sha!HashRound(s, i).a = [j \in 0 .. 7 |-> b[(j + 7) % 8]]
  BY DEF Sha!HashRound
<1> HIDE DEF A, B, M, T, x
<1>7. Sha!Add(T, M) = p /\ Sha!Add(v[4], T) = q
  <2>1. t = (A + B) % Sha!Power[WordBits] /\ A + B \in Int
    BY <1>3 DEF Sha!Add
  <2> DEFINE C == A + B
  <2>2. C \in Int /\ t = C % Sha!Power[WordBits] /\ T = C
    BY <1>4, <2>1
  <2> HIDE DEF C, t
  <2>3. Sha!Add(C % Sha!Power[WordBits], M) = Sha!Add(C, M)
    BY <1>3, <2>2, SumOfReduced
  <2>4. Sha!Add(C % Sha!Power[WordBits], a[3]) = Sha!Add(C, a[3])
    BY <1>3, <2>2, SumOfReduced
  <2>5. t \in Int
    <3>1. Sha!Power[WordBits] \in Nat \ {0}
      BY WordIsInt, SamePowers
    <3> QED BY <2>2, <3>1
  <2>6. Sha!Add(a[3], t) = Sha!Add(t, a[3]) /\ Sha!Add(C, a[3]) = Sha!Add(a[3], C)
    <3>1. a[3] + t = t + a[3] /\ C + a[3] = a[3] + C
      BY <1>3, <2>2, <2>5
    <3> QED BY <3>1 DEF Sha!Add
  <2> HIDE DEF a
  <2> QED BY <1>2, <2>2, <2>3, <2>4, <2>6
<1>8. p \in Sha!Word /\ q \in Sha!Word
  <2>1. t \in Int
    BY <1>3, SumIsWord, ShaIntegers
  <2> HIDE DEF t
  <2> QED BY <1>3, <2>1, SumIsWord
<1> HIDE DEF t, p
<1>9. /\ b[7] = p /\ b[0] = a[0] /\ b[1] = a[1] /\ b[2] = a[2]
      /\ b[3] = q /\ b[4] = a[4] /\ b[5] = a[5] /\ b[6] = a[6]
  <2> HIDE DEF a
  <2> QED BY <1>1
<1> HIDE DEF b, q, a
<1> DEFINE r == [j \in 0 .. 7 |-> b[(j + 7) % 8]]
           u == <<p, a[0], a[1], a[2], q, a[4], a[5], a[6]>>
<1>10. Sha!SpecRound(v, w, i) = u
  BY <1>2, <1>5, <1>7
<1>11. /\ r[0] = p /\ r[1] = a[0] /\ r[2] = a[1] /\ r[3] = a[2]
       /\ r[4] = q /\ r[5] = a[4] /\ r[6] = a[5] /\ r[7] = a[6]
  BY <1>9
<1>12. r = [j \in 0 .. 7 |-> r[j]]
  OBVIOUS
<1> HIDE DEF r
<1>13. ASSUME NEW j \in 0 .. 7 PROVE r[j] \in Sha!Word /\ r[j] = u[j + 1]
  <2>1. \/ j = 0 \/ j = 1 \/ j = 2 \/ j = 3 \/ j = 4 \/ j = 5 \/ j = 6 \/ j = 7
    OBVIOUS
  <2>2. /\ u[0 + 1] = p /\ u[1 + 1] = a[0] /\ u[2 + 1] = a[1] /\ u[3 + 1] = a[2]
        /\ u[4 + 1] = q /\ u[5 + 1] = a[4] /\ u[6 + 1] = a[5] /\ u[7 + 1] = a[6]
    OBVIOUS
  <2> HIDE DEF u
  <2> QED BY <1>1, <1>8, <1>11, <2>1, <2>2, Zenon
<1> HIDE DEF u
<1> QED BY <1>6, <1>10, <1>12, <1>13 DEF SameWords, IsHash, r

(* A block of crypto_hashblocks() is hashed as the definition does, and    *)
(* words stay words.                                                       *)
LEMMA HashBlockIsSpec ==
  ASSUME NEW y, IsHash(y), NEW m, NEW at, IsBlockWords(Sha!Load16(m, at))
  PROVE  /\ Sha!HashBlock(y, m, at) = Sha!SpecBlock(y, Sha!Load16(m, at))
         /\ IsHash(Sha!HashBlock(y, m, at))
<1> DEFINE block == Sha!Load16(m, at)
           w == Sha!SpecSchedule(block)
<1>1. PICK S : IsSchedule(S, block) /\ w = [i \in 1 .. 80 |-> S[i - 1]]
  BY ScheduleWords
<1>2. PICK f : /\ f[0] = ShaStart(y, m, at)
               /\ \A i \in 0 .. 79 : f[i + 1] = Sha!HashRound(f[i], i)
               /\ Sha!HashBlock(y, m, at) = [j \in 0 .. 7 |-> Sha!Add(f[80].a[j], y[j])]
  BY HashRoundsChain
<1>3. PICK g : /\ g[0] = SpecShaStart(y)
               /\ \A i \in 0 .. 79 : g[i + 1] = Sha!SpecRound(g[i], w, i)
               /\ Sha!SpecBlock(y, block) = [j \in 0 .. 7 |-> Sha!Add(y[j], g[80][j + 1])]
  BY SpecShaRoundsChain
<1>4. block = [p \in 0 .. 15 |-> block[p]]
  BY DEF Sha!Load16
<1> HIDE DEF block
<1>5. \A i \in 0 .. 79 : w[i + 1] = S[i]
  <2>1. \A i \in 0 .. 79 : i + 1 \in 1 .. 80 /\ (i + 1) - 1 = i
    OBVIOUS
  <2> HIDE DEF w
  <2> QED BY <1>1, <2>1
<1> HIDE DEF w
<1> DEFINE Before(i) == SameWords(f[i].a, g[i]) /\ (i < 80 => f[i].w = Window(S, i \div 16))
           G == {i \in 0 .. 80 : Before(i)}
<1>6. 0 \in G
  <2>1. f[0].a = y /\ f[0].w = block
    BY <1>2 DEF ShaStart, block
  <2>2. SameWords(y, g[0])
    <3>1. \A j \in 0 .. 7 : j + 1 \in 1 .. 8 /\ (j + 1) - 1 = j
      OBVIOUS
    <3>2. \A j \in 0 .. 7 : g[0][j + 1] = y[j]
      BY <1>3, <3>1 DEF SpecShaStart
    <3> QED BY <3>2 DEF SameWords
  <2>3. block = Window(S, 0)
    <3>1. \A p \in 0 .. 15 : S[16 * 0 + p] = block[p]
      BY <1>1 DEF IsSchedule
    <3> QED BY <1>4, <3>1 DEF Window
  <2>4. 0 \div 16 = 0 /\ 0 \in 0 .. 80
    OBVIOUS
  <2> QED BY <2>1, <2>2, <2>3, <2>4
<1>7. ASSUME NEW i \in 0 .. 80 - 1, i \in G PROVE i + 1 \in G
  <2> DEFINE s == f[i]
             k == i \div 16
  <2>1. /\ i \in 0 .. 79 /\ i < 80 /\ i + 1 \in 0 .. 80 /\ i % 16 \in 0 .. 15 /\ 16 * k + (i % 16) = i
        /\ k \in 0 .. 4
    OBVIOUS
  <2>2. SameWords(s.a, g[i]) /\ s.w = Window(S, k) /\ f[i + 1] = Sha!HashRound(s, i)
        /\ g[i + 1] = Sha!SpecRound(g[i], w, i)
    BY <1>2, <1>3, <1>7, <2>1
  <2>3. s.w[i % 16] = S[i] /\ S[i] \in Sha!Word
    <3>1. Window(S, k)[i % 16] = S[16 * k + (i % 16)]
      BY <2>1 DEF Window
    <3> HIDE DEF s, k
    <3>2. S[i] \in Sha!Word
      BY <1>1, <2>1 DEF IsSchedule
    <3> QED BY <2>1, <2>2, <3>1, <3>2
  <2> HIDE DEF s
  <2>4. SameWords(f[i + 1].a, g[i + 1])
    <3>1. w[i + 1] = s.w[i % 16]
      BY <1>5, <2>1, <2>3
    <3>2. SameWords(Sha!HashRound(s, i).a, Sha!SpecRound(g[i], w, i))
      BY <2>1, <2>2, <2>3, <3>1, HashRoundIsSpec
    <3> QED BY <2>2, <3>2
  <2>5. Sha!HashRound(s, i).w = IF i % 16 = 15 THEN Sha!NextWords(s.w) ELSE s.w
    BY DEF Sha!HashRound
  <2>6. ASSUME i + 1 < 80 PROVE f[i + 1].w = Window(S, (i + 1) \div 16)
    <3>1. CASE i % 16 = 15
      <4>1. k \in 0 .. 3 /\ (i + 1) \div 16 = k + 1
        BY <2>1, <2>6, <3>1
      <4> HIDE DEF k
      <4>2. Sha!NextWords(Window(S, k)) = Window(S, k + 1)
        BY <1>1, <4>1, NextWordsAreScheduled
      <4> QED BY <2>2, <2>5, <3>1, <4>1, <4>2
    <3>2. CASE i % 16 # 15
      <4>1. (i + 1) \div 16 = k
        BY <2>1, <3>2
      <4> HIDE DEF k
      <4> QED BY <2>2, <2>5, <3>2, <4>1
    <3> QED BY <3>1, <3>2
  <2> QED BY <2>1, <2>4, <2>6
<1>8. SameWords(f[80].a, g[80])
  <2>1. 80 \in G
    <3> HIDE DEF G
    <3> QED BY <1>6, <1>7, StepsUpTo
  <2> QED BY <2>1
<1>9. ASSUME NEW j \in 0 .. 7
      PROVE  /\ Sha!Add(f[80].a[j], y[j]) = Sha!Add(y[j], g[80][j + 1])
             /\ Sha!Add(f[80].a[j], y[j]) \in Sha!Word
  <2> DEFINE c == f[80].a[j]
             d == y[j]
  <2>1. c \in Int /\ d \in Int /\ g[80][j + 1] = c
    BY <1>8, ShaIntegers DEF SameWords, IsHash
  <2> HIDE DEF c, d
  <2>2. c + d = d + c
    BY <2>1
  <2>3. Sha!Add(c, d) = Sha!Add(d, c) /\ Sha!Add(c, d) \in Sha!Word
    BY <2>1, <2>2, SumIsWord DEF Sha!Add
  <2> QED BY <2>1, <2>3 DEF c, d
<1>10. Sha!HashBlock(y, m, at) = Sha!SpecBlock(y, block)
  BY <1>2, <1>3, <1>9
<1>11. IsHash(Sha!HashBlock(y, m, at))
  BY <1>2, <1>9 DEF IsHash
<1> QED BY <1>10, <1>11 DEF block

(* The size of a byte of SHA-512 is a power of two, and half of it a byte. *)
LEMMA ByteBaseIsPositive ==
  /\ Sha!Power[WordBits \div 8] \in Nat \ {0} /\ Sha!Power[WordBits \div 8] > 1
  /\ \A i \in 0 .. 7 : Sha!Power[(WordBits \div 8) * i] \in Nat \ {0}
BY PowersOfBytes, SamePowers DEF Fills, Eighth

(* A byte more of a word that is loaded, the highest first.                *)
Shifted(u, p, at, i) == u * Sha!Power[WordBits \div 8] + p[at + i]
(* The loop of dl64(). *)
LEMMA Load64FirstHigh ==
  ASSUME NEW p, NEW at
  PROVE  \E f : /\ f[0] = 0
                /\ \A i \in 0 .. 7 : f[i + 1] = Shifted(f[i], p, at, i)
                /\ Sha!dl64(p, at) = f[8]
<1> DEFINE Eq(fn, top) == fn = [i \in 0 .. top |->
             IF i = 0 THEN 0
             ELSE Shifted(fn[i - 1], p, at, i - 1)]
           G == {top \in Nat : \E fn : Eq(fn, top)}
<1>1. ASSUME NEW top \in Nat, \A low \in 0 .. top - 1 : low \in G PROVE top \in G
  <2>1. CASE top = 0
    <3>1. Eq([i \in 0 .. top |-> 0], top)
      BY <2>1
    <3> QED BY <3>1
  <2>2. CASE top # 0
    <3>1. PICK f : Eq(f, top - 1)
      <4>1. top - 1 \in 0 .. top - 1
        BY <2>2
      <4> HIDE DEF Eq, G
      <4>2. top - 1 \in G
        BY <1>1, <4>1
      <4> QED BY <4>2 DEF G
    <3> DEFINE g == [i \in 0 .. top |->
                     IF i = top THEN Shifted(f[top - 1], p, at, top - 1) ELSE f[i]]
    <3>2. Eq(g, top)
      BY <2>2, <3>1
    <3> QED BY <3>2
  <2> QED BY <2>1, <2>2
<1>2. PICK f : Eq(f, 8)
  <2>1. 8 \in G
    BY <1>1, CompleteInduction
  <2> QED BY <2>1
<1> DEFINE h == CHOOSE fn : Eq(fn, 8)
<1>3. Eq(h, 8)
  BY <1>2
<1>4. Sha!dl64(p, at) = h[8]
  BY DEF Shifted, Sha!dl64, Sha!ByteBase, Sha!Iterate, Sha!Then
<1> HIDE DEF h
<1>5. h[0] = 0 /\ \A i \in 0 .. 7 : h[i + 1] = Shifted(h[i], p, at, i)
  BY <1>3
<1> QED BY <1>4, <1>5


(* Bytes of SHA-512: n of them in p, and eight alike at two places.        *)
AreBytes(p, n) == \A i \in 0 .. n - 1 : p[i] \in 0 .. Sha!Power[WordBits \div 8] - 1
AlikeAt(p, at, q, to, n) == \A i \in 0 .. n - 1 : p[at + i] = q[to + i]

(* The same bytes make the same word.                                      *)
LEMMA AlikeLoaded ==
  ASSUME NEW p, NEW at, NEW q, NEW to, AlikeAt(p, at, q, to, 8)
  PROVE  Sha!dl64(p, at) = Sha!dl64(q, to)
<1>1. PICK f : /\ f[0] = 0
               /\ \A i \in 0 .. 7 : f[i + 1] = Shifted(f[i], p, at, i)
               /\ Sha!dl64(p, at) = f[8]
  BY Load64FirstHigh
<1>2. PICK g : /\ g[0] = 0
               /\ \A i \in 0 .. 7 : g[i + 1] = Shifted(g[i], q, to, i)
               /\ Sha!dl64(q, to) = g[8]
  BY Load64FirstHigh
<1>3. ASSUME NEW i \in 0 .. 7, f[i] = g[i] PROVE f[i + 1] = g[i + 1]
  <2>1. p[at + i] = q[to + i]
    <3>1. i \in 0 .. 8 - 1
      OBVIOUS
    <3> QED BY <3>1 DEF AlikeAt
  <2> QED BY <1>1, <1>2, <1>3, <2>1 DEF Shifted
<1>4. f[0] = g[0]
  BY <1>1, <1>2
<1>5. f[1] = g[1]
  <2>1. f[0 + 1] = g[0 + 1]
    BY <1>3, <1>4
  <2> QED BY <2>1
<1>6. f[2] = g[2]
  <2>1. f[1 + 1] = g[1 + 1]
    BY <1>3, <1>5
  <2> QED BY <2>1
<1>7. f[3] = g[3]
  <2>1. f[2 + 1] = g[2 + 1]
    BY <1>3, <1>6
  <2> QED BY <2>1
<1>8. f[4] = g[4]
  <2>1. f[3 + 1] = g[3 + 1]
    BY <1>3, <1>7
  <2> QED BY <2>1
<1>9. f[5] = g[5]
  <2>1. f[4 + 1] = g[4 + 1]
    BY <1>3, <1>8
  <2> QED BY <2>1
<1>10. f[6] = g[6]
  <2>1. f[5 + 1] = g[5 + 1]
    BY <1>3, <1>9
  <2> QED BY <2>1
<1>11. f[7] = g[7]
  <2>1. f[6 + 1] = g[6 + 1]
    BY <1>3, <1>10
  <2> QED BY <2>1
<1>12. f[8] = g[8]
  <2>1. f[7 + 1] = g[7 + 1]
    BY <1>3, <1>11
  <2> QED BY <2>1
<1> QED BY <1>1, <1>2, <1>12

(* The weights of the bytes of a word of SHA-512.                          *)
ByteAt(i) == Sha!Power[(WordBits \div 8) * i]
(* Each is a byte more than the one before.                                *)
LEMMA BytePowers ==
  /\ ByteAt(0) = 1 /\ ByteAt(8) = Sha!Power[WordBits]
  /\ \A i \in 0 .. 8 : ByteAt(i) \in Nat \ {0}
  /\ \A i \in 0 .. 7 : ByteAt(i + 1) = ByteAt(i) * Sha!Power[WordBits \div 8]
<1>1. Fills(8, Eighth) /\ Sha!Power = Salsa!Power
  BY PowersOfBytes, SamePowers
<1>2. 8 - 1 = 7
  OBVIOUS
<1> QED BY <1>1, <1>2 DEF Fills, Eighth, ByteAt

(* Eight bytes make a word.                                                *)
LEMMA LoadedIsWord ==
  ASSUME NEW p, NEW at, \A i \in 0 .. 7 : p[at + i] \in 0 .. Sha!Power[WordBits \div 8] - 1
  PROVE  Sha!dl64(p, at) \in Sha!Word
<1>1. PICK f : /\ f[0] = 0
               /\ \A i \in 0 .. 7 : f[i + 1] = Shifted(f[i], p, at, i)
               /\ Sha!dl64(p, at) = f[8]
  BY Load64FirstHigh
<1> DEFINE B == Sha!Power[WordBits \div 8]
           G == {i \in 0 .. 8 : f[i] \in 0 .. ByteAt(i) - 1}
<1>2. 0 \in G
  BY <1>1, BytePowers
<1>3. ASSUME NEW i \in 0 .. 8 - 1, i \in G PROVE i + 1 \in G
  <2> DEFINE d == p[at + i]
             e == ByteAt(i)
             u == f[i]
  <2>1. f[i + 1] = u * B + d /\ d \in 0 .. B - 1
    BY <1>1 DEF Shifted
  <2>2. ByteAt(i + 1) = e * B /\ e \in Nat \ {0} /\ B \in Nat \ {0} /\ i + 1 \in 0 .. 8
    BY BytePowers, ByteBaseIsPositive
  <2>3. u \in 0 .. e - 1
    BY <1>3
  <2> HIDE DEF B, d, e, u
  <2>4. u * B + d \in 0 .. e * B - 1
    <3>1. u * B \in Nat /\ B * (e - 1 - u) \in Nat
      BY <2>2, <2>3, SMT
    <3>2. B * (e - 1 - u) = e * B - B - u * B /\ e * B \in Nat
      BY <2>2, <2>3, SMT
    <3> QED BY <2>1, <2>2, <3>1, <3>2
  <2> QED BY <2>1, <2>2, <2>4
<1>4. 8 \in G
  <2> HIDE DEF G
  <2> QED BY <1>2, <1>3, StepsUpTo
<1> QED BY <1>1, <1>4, BytePowers DEF Sha!Word

(* A word that was stored is loaded again.                                 *)
LEMMA StoredIsLoaded ==
  ASSUME NEW x \in Sha!Word, NEW p, NEW at, \A i \in 0 .. 7 : p[at + i] = Sha!ts64(x, i)
  PROVE  Sha!dl64(p, at) = x
<1>1. PICK f : /\ f[0] = 0
               /\ \A i \in 0 .. 7 : f[i + 1] = Shifted(f[i], p, at, i)
               /\ Sha!dl64(p, at) = f[8]
  BY Load64FirstHigh
<1> DEFINE B == Sha!Power[WordBits \div 8]
           G == {i \in 0 .. 8 : f[i] = x \div ByteAt(8 - i)}
<1>2. x \in 0 .. ByteAt(8) - 1 /\ x \in Int
  BY BytePowers, WordIsInt, SamePowers DEF Sha!Word
<1>3. 0 \in G
  <2>1. x \div ByteAt(8) = 0
    <3>1. ByteAt(8) \in Nat \ {0}
      BY BytePowers
    <3> QED BY <1>2, <3>1, SmallRemainder
  <2>2. 8 - 0 = 8
    OBVIOUS
  <2> QED BY <1>1, <2>1, <2>2
<1>4. ASSUME NEW i \in 0 .. 8 - 1, i \in G PROVE i + 1 \in G
  <2> DEFINE e == ByteAt(7 - i)
             y == x \div e
  <2>1. /\ 7 - i \in 0 .. 7 /\ 7 - i \in 0 .. 8 /\ (7 - i) + 1 = 8 - i /\ 8 - (i + 1) = 7 - i
        /\ i + 1 \in 0 .. 8 /\ i \in 0 .. 7
    OBVIOUS
  <2>2. p[at + i] = y % B
    BY <2>1 DEF Sha!ts64, Sha!ByteLE, Sha!Shr, ByteAt
  <2>3. f[i + 1] = f[i] * B + (y % B)
    <3>1. f[i + 1] = f[i] * B + p[at + i]
      BY <1>1, <2>1 DEF Shifted
    <3> QED BY <2>2, <3>1
  <2>4. ByteAt(8 - i) = e * B /\ e \in Nat \ {0} /\ B \in Nat \ {0}
    BY <2>1, BytePowers, ByteBaseIsPositive
  <2>5. f[i] = x \div ByteAt(8 - i)
    BY <1>4
  <2> HIDE DEF B, e
  <2>6. x \div (e * B) = y \div B /\ y \in Int
    BY <1>2, <2>4, DividedTwice, Division
  <2> HIDE DEF y
  <2>7. y = B * (y \div B) + (y % B) /\ y \div B \in Int
    BY <2>4, <2>6, Division
  <2>8. (y \div B) * B = B * (y \div B)
    BY <2>4, <2>7, SMT
  <2>9. f[i + 1] = y
    BY <2>3, <2>4, <2>5, <2>6, <2>7, <2>8
  <2> QED BY <2>1, <2>9 DEF y, e
<1>5. 8 \in G
  <2> HIDE DEF G
  <2> QED BY <1>3, <1>4, StepsUpTo
<1>6. f[8] = x \div 1
  <2>1. 8 - 8 = 0
    OBVIOUS
  <2> QED BY <1>5, <2>1, BytePowers
<1>7. x \div 1 = x
  BY <1>2, SMT
<1> QED BY <1>1, <1>6, <1>7

(* The chaining value survives being stored between the two calls.         *)
LEMMA Load8OfStore8 ==
  ASSUME NEW y, IsHash(y)
  PROVE  Sha!Load8(Sha!Store8(y)) = y
<1> DEFINE p == Sha!Store8(y)
<1>1. ASSUME NEW j \in 0 .. 7 PROVE Sha!dl64(p, 8 * j) = y[j]
  <2>1. ASSUME NEW i \in 0 .. 7 PROVE p[8 * j + i] = Sha!ts64(y[j], i)
    <3>1. 8 * j + i \in 0 .. 63 /\ (8 * j + i) \div 8 = j /\ (8 * j + i) % 8 = i
      OBVIOUS
    <3> QED BY <3>1 DEF Sha!Store8
  <2> HIDE DEF p
  <2>2. y[j] \in Sha!Word
    BY DEF IsHash
  <2> QED BY <2>1, <2>2, StoredIsLoaded
<1>2. Sha!Load8(p) = [j \in 0 .. 7 |-> Sha!dl64(p, 8 * j)]
  BY DEF Sha!Load8
<1> HIDE DEF p
<1> QED BY <1>1, <1>2 DEF IsHash, p

(* Bytes make a block of words, and those of the initial value a hash.     *)
LEMMA LoadedWords ==
  /\ \A p, n, at : n \in Nat /\ at \in Nat /\ AreBytes(p, n) /\ at + 128 <= n =>
       IsBlockWords(Sha!Load16(p, at))
  /\ IsHash(Sha!Load8(Sha!iv))
<1>1. ASSUME NEW p, NEW n \in Nat, NEW at \in Nat, AreBytes(p, n), at + 8 <= n
      PROVE  Sha!dl64(p, at) \in Sha!Word
  <2>1. ASSUME NEW i \in 0 .. 7 PROVE p[at + i] \in 0 .. Sha!Power[WordBits \div 8] - 1
    <3>1. at + i \in 0 .. n - 1
      BY <1>1
    <3> QED BY <1>1, <3>1 DEF AreBytes
  <2> QED BY <2>1, LoadedIsWord
<1>2. ASSUME NEW p, NEW n \in Nat, NEW at \in Nat, AreBytes(p, n), at + 128 <= n
      PROVE  IsBlockWords(Sha!Load16(p, at))
  <2>1. ASSUME NEW i \in 0 .. 15 PROVE Sha!Load16(p, at)[i] \in Sha!Word
    <3>1. at + 8 * i \in Nat /\ (at + 8 * i) + 8 <= n
      BY <1>2
    <3>2. Sha!Load16(p, at)[i] = Sha!dl64(p, at + 8 * i)
      BY DEF Sha!Load16
    <3> QED BY <1>1, <1>2, <3>1, <3>2
  <2> QED BY <2>1 DEF IsBlockWords
<1>3. AreBytes(Sha!iv, 64)
  <2>1. ASSUME NEW i \in 0 .. 63 PROVE Sha!iv[i] \in 0 .. Sha!Power[WordBits \div 8] - 1
    <3> DEFINE B == Sha!Power[WordBits \div 8]
    <3>1. B \in Nat \ {0} /\ Sha!iv[i] = (i * i + 1) % B
      BY ByteBaseIsPositive DEF Sha!iv, Sha!ByteBase
    <3> HIDE DEF B
    <3>2. i * i + 1 \in Int
      OBVIOUS
    <3>3. (i * i + 1) % B \in 0 .. B - 1
      BY <3>1, <3>2
    <3> QED BY <3>1, <3>3 DEF B
  <2>2. 64 - 1 = 63
    OBVIOUS
  <2> QED BY <2>1, <2>2 DEF AreBytes
<1>4. IsHash(Sha!Load8(Sha!iv))
  <2>1. ASSUME NEW j \in 0 .. 7 PROVE Sha!Load8(Sha!iv)[j] \in Sha!Word
    <3>1. 8 * j \in Nat /\ 8 * j + 8 <= 64 /\ 64 \in Nat
      OBVIOUS
    <3>2. Sha!Load8(Sha!iv)[j] = Sha!dl64(Sha!iv, 8 * j)
      BY DEF Sha!Load8
    <3> QED BY <1>1, <1>3, <3>1, <3>2
  <2>2. Sha!Load8(Sha!iv) = [j \in 0 .. 7 |-> Sha!Load8(Sha!iv)[j]]
    BY DEF Sha!Load8
  <2> QED BY <2>1, <2>2 DEF IsHash
<1> QED BY <1>2, <1>4

(* The bits of a byte.                                                     *)
LEMMA ByteBits == WordBits \div 8 \in Nat
BY Sizes DEF Eighth

(* A short number stored as a word has one byte, the last.                 *)
LEMMA ShortStored ==
  ASSUME NEW x \in Nat, x < Sha!Power[WordBits \div 8]
  PROVE  \A k \in 0 .. 7 : Sha!ts64(x, k) = IF k = 7 THEN x % Sha!Power[WordBits \div 8] ELSE 0
<1> SUFFICES ASSUME NEW k \in 0 .. 7
             PROVE  Sha!ts64(x, k) = IF k = 7 THEN x % Sha!Power[WordBits \div 8] ELSE 0
  OBVIOUS
<1> DEFINE B == Sha!Power[WordBits \div 8]
           e == ByteAt(7 - k)
<1>1. Sha!ts64(x, k) = (x \div e) % B
  BY DEF Sha!ts64, Sha!ByteLE, Sha!Shr, ByteAt
<1>2. B \in Nat \ {0} /\ x < B
  BY ByteBaseIsPositive
<1>3. CASE k = 7
  <2>1. e = 1
    <3>1. 7 - 7 = 0
      OBVIOUS
    <3> QED BY <1>3, <3>1, BytePowers
  <2> HIDE DEF B, e
  <2>2. x \div 1 = x
    BY SMT
  <2> QED BY <1>1, <1>3, <2>1, <2>2 DEF B
<1>4. CASE k # 7
  <2>1. e \in Nat \ {0} /\ x \in 0 .. e - 1
    <3> DEFINE d == ByteAt(6 - k)
    <3>1. 6 - k \in 0 .. 7 /\ 6 - k \in 0 .. 8 /\ (6 - k) + 1 = 7 - k /\ 7 - k \in 0 .. 8
      BY <1>4
    <3>2. e = d * B /\ d \in Nat \ {0} /\ e \in Nat \ {0}
      BY <3>1, BytePowers
    <3> HIDE DEF B, d, e
    <3>3. B * d >= B /\ d * B = B * d
      BY <1>2, <3>2, Multiple, SMT
    <3> QED BY <1>2, <3>2, <3>3
  <2> HIDE DEF B, e
  <2>2. x \div e = 0
    BY <2>1, SmallRemainder
  <2>3. 0 % B = 0
    BY <1>2, SmallRemainder
  <2> QED BY <1>1, <1>4, <2>2, <2>3
<1> QED BY <1>3, <1>4

(* The bytes of a number stored as a word.                                 *)
LEMMA StoredIsByte ==
  ASSUME NEW x \in Nat, NEW k \in 0 .. 7
  PROVE  Sha!ts64(x, k) \in 0 .. Sha!Power[WordBits \div 8] - 1
<1> DEFINE B == Sha!Power[WordBits \div 8]
           E == Sha!Power[(WordBits \div 8) * (7 - k)]
<1>1. B \in Nat \ {0} /\ E \in Nat \ {0}
  <2>1. 7 - k \in 0 .. 7
    OBVIOUS
  <2> QED BY <2>1, ByteBaseIsPositive
<1>2. Sha!ts64(x, k) = (x \div E) % B
  BY DEF Sha!ts64, Sha!ByteLE, Sha!Shr
<1> HIDE DEF B, E
<1>3. x \div E \in Nat
  BY <1>1
<1>4. (x \div E) % B \in 0 .. B - 1
  BY <1>1, <1>3
<1> QED BY <1>2, <1>4 DEF B

(* The last blocks of a message of n bytes: q blocks and r bytes, and what *)
(* follows them.                                                           *)
IsTail(n, q, r, left) ==
  /\ q \in Nat /\ r \in 0 .. 127 /\ n = 128 * q + r /\ n % 128 = r /\ n \div 128 = q
  /\ left \in {128, 256} /\ r < left - 16 /\ Sha!Rest(n) = left
  /\ Sha!SpecLength(n) = 128 * q + left

(* One or two blocks hold the rest of the message and the length.          *)
LEMMA PaddedLength ==
  ASSUME NEW n \in Nat
  PROVE  \E q, r, left : IsTail(n, q, r, left)
<1> DEFINE q == n \div 128
           r == n % 128
           left == IF r < 112 THEN 128 ELSE 256
           all == 128 * q + left
           fits(l) == l % 128 = 0
<1>1. q \in Nat /\ r \in 0 .. 127 /\ n = 128 * q + r /\ n % 128 = r /\ n \div 128 = q
  OBVIOUS
<1>2. Sha!Rest(n) = left
  BY DEF Sha!Rest, Sha!BlockBytes
<1> HIDE DEF q, r
<1>3. left \in {128, 256} /\ r < left - 16 /\ r + 17 <= left /\ left <= r + 144
  BY <1>1
<1>4. Sha!SpecLength(n) = CHOOSE l \in n + 17 .. n + 17 + 127 : fits(l)
  BY DEF Sha!SpecLength
<1>5. all \in n + 17 .. n + 17 + 127 /\ fits(all)
  <2>1. all \in n + 17 .. n + 17 + 127
    BY <1>1, <1>3
  <2>2. all % 128 = 0
    BY <1>1
  <2> QED BY <2>1, <2>2
<1> HIDE DEF left
<1>6. ASSUME NEW l \in n + 17 .. n + 17 + 127, fits(l) PROVE l = all
  <2> DEFINE k == l \div 128
  <2>1. k \in Int /\ l = 128 * k
    BY <1>6
  <2> HIDE DEF k
  <2>2. 128 * k <= 128 * q + r + 144 /\ 128 * q + r + 17 <= 128 * k
    BY <1>1, <1>6, <2>1
  <2>3. CASE left = 128
    <3>1. k = q + 1
      BY <1>1, <1>3, <2>1, <2>2, <2>3
    <3> QED BY <2>1, <2>3, <3>1, <1>1
  <2>4. CASE left = 256
    <3>1. r >= 112
      BY <2>4, <1>1 DEF left
    <3>2. k = q + 2
      BY <1>1, <1>3, <2>1, <2>2, <2>4, <3>1
    <3> QED BY <2>1, <2>4, <3>2, <1>1
  <2> QED BY <1>3, <2>3, <2>4
<1> HIDE DEF all, fits
<1>7. Sha!SpecLength(n) = all
  BY <1>4, <1>5, <1>6
<1>8. IsTail(n, q, r, left)
  BY <1>1, <1>2, <1>3, <1>7 DEF IsTail, all
<1> QED BY <1>8

(* A length in bits whose high word fits in a byte: that of crypto_hash()  *)
(* is eight times a number of 64 bits, in words of 64.                     *)
FitsInLength(n) == (n * (WordBits \div 8)) \div Sha!Power[WordBits] < Sha!Power[WordBits \div 8]

(* The length in bits in two words, the byte of the first that is used, and *)
(* the byte of the one bit.                                                *)
HighWord(n) == (n * (WordBits \div 8)) \div Sha!Power[WordBits]
LowWord(n) == (n * (WordBits \div 8)) % Sha!Power[WordBits]
TopByte(n) == HighWord(n) % Sha!Power[WordBits \div 8]
OneBit == Sha!Power[WordBits \div 8] \div 2

(* The words of the length are numbers.                                    *)
LEMMA LengthWords ==
  ASSUME NEW n \in Nat
  PROVE  HighWord(n) \in Nat /\ LowWord(n) \in Nat
<1> DEFINE bits == n * (WordBits \div 8)
           M == Sha!Power[WordBits]
<1>1. bits \in Nat /\ M \in Nat \ {0}
  BY ByteBits, WordIsInt, SamePowers
<1> HIDE DEF bits, M
<1>2. bits \div M \in Nat /\ bits % M \in Nat
  BY <1>1
<1> QED BY <1>2 DEF HighWord, LowWord, bits, M

(* The bytes of the last blocks of crypto_hash().                          *)
LEMMA LastByteIs ==
  ASSUME NEW m, NEW n \in Nat, NEW q, NEW r, NEW left, IsTail(n, q, r, left),
         NEW i \in 0 .. left - 1
  PROVE  /\ i < r => Sha!LastBlocks(m, n)[i] = m[n - r + i]
         /\ i = r => Sha!LastBlocks(m, n)[i] = OneBit
         /\ i > r /\ i < left - 9 => Sha!LastBlocks(m, n)[i] = 0
         /\ i = left - 9 => Sha!LastBlocks(m, n)[i] = TopByte(n)
         /\ i >= left - 8 => Sha!LastBlocks(m, n)[i] = Sha!ts64(LowWord(n), i - (left - 8))
<1> DEFINE rest == Sha!Rest(n)
           rem == n % 128
           Byte(j) == CASE j < rem -> m[n - rem + j]
                        [] j = rem -> OneBit
                        [] j = rest - 9 -> TopByte(n)
                        [] j >= rest - 8 -> Sha!ts64(LowWord(n), j - (rest - 8))
                        [] OTHER -> 0
           x == m[n - r + i]
           y == OneBit
           z == TopByte(n)
           u == Sha!ts64(LowWord(n), i - (left - 8))
<1>1. Sha!LastBlocks(m, n) = [j \in 0 .. rest - 1 |-> Byte(j)]
  BY DEF Sha!LastBlocks, Sha!ByteBase, Sha!BlockBytes, OneBit, TopByte, HighWord, LowWord
<1>2. rest = left /\ rem = r
  BY DEF IsTail
<1>3. r \in Nat /\ left \in Nat /\ r < left - 16
  BY DEF IsTail
<1> HIDE DEF rest, rem, y, z
<1>4. Byte(i) = CASE i < r -> x
                  [] i = r -> y
                  [] i = left - 9 -> z
                  [] i >= left - 8 -> u
                  [] OTHER -> 0
  BY <1>2 DEF y, z
<1>5. Sha!LastBlocks(m, n)[i] = Byte(i)
  <2> HIDE DEF Byte
  <2> QED BY <1>1, <1>2
<1> HIDE DEF Byte, x, u
<1>6. i < r => Byte(i) = x
  BY <1>3, <1>4
<1>7. i = r => Byte(i) = y
  BY <1>3, <1>4
<1>8. i > r /\ i < left - 9 => Byte(i) = 0
  BY <1>3, <1>4
<1>9. i = left - 9 => Byte(i) = z
  BY <1>3, <1>4
<1>10. i >= left - 8 => Byte(i) = u
  BY <1>3, <1>4
<1> QED BY <1>5, <1>6, <1>7, <1>8, <1>9, <1>10 DEF x, y, z, u

(* The bytes of the padded message.                                        *)
LEMMA PaddedByteIs ==
  ASSUME NEW m, NEW n \in Nat, NEW q, NEW r, NEW left, IsTail(n, q, r, left),
         NEW total, total = 128 * q + left, NEW i \in 0 .. total - 1
  PROVE  /\ i < n => Sha!SpecPadded(m, n)[i] = m[i]
         /\ i = n => Sha!SpecPadded(m, n)[i] = OneBit
         /\ i > n /\ i < total - 16 => Sha!SpecPadded(m, n)[i] = 0
         /\ i >= total - 16 /\ i < total - 8 =>
              Sha!SpecPadded(m, n)[i] = Sha!ts64(HighWord(n), i - (total - 16))
         /\ i >= total - 8 => Sha!SpecPadded(m, n)[i] = Sha!ts64(LowWord(n), i - (total - 8))
<1> DEFINE all == Sha!SpecLength(n)
           Byte(j) == CASE j < n -> m[j]
                        [] j = n -> OneBit
                        [] j > n /\ j < all - 16 -> 0
                        [] j >= all - 16 /\ j < all - 8 -> Sha!ts64(HighWord(n), j - (all - 16))
                        [] j >= all - 8 -> Sha!ts64(LowWord(n), j - (all - 8))
           x == m[i]
           y == OneBit
           z == Sha!ts64(HighWord(n), i - (total - 16))
           u == Sha!ts64(LowWord(n), i - (total - 8))
<1>1. Sha!SpecPadded(m, n) = [j \in 0 .. all - 1 |-> Byte(j)]
  BY DEF Sha!SpecPadded, Sha!ByteBase, OneBit, HighWord, LowWord
<1>2. all = total
  BY DEF IsTail
<1>3. total \in Nat /\ n < total - 16
  BY DEF IsTail
<1> HIDE DEF all, y
<1>4. Byte(i) = CASE i < n -> x
                  [] i = n -> y
                  [] i > n /\ i < total - 16 -> 0
                  [] i >= total - 16 /\ i < total - 8 -> z
                  [] i >= total - 8 -> u
  BY <1>2 DEF y
<1>5. Sha!SpecPadded(m, n)[i] = Byte(i)
  <2> HIDE DEF Byte
  <2> QED BY <1>1, <1>2
<1> HIDE DEF Byte, x, z, u
<1>6. i < n => Byte(i) = x
  BY <1>3, <1>4
<1>7. i = n => Byte(i) = y
  BY <1>3, <1>4
<1>8. i > n /\ i < total - 16 => Byte(i) = 0
  BY <1>3, <1>4
<1>9. i >= total - 16 /\ i < total - 8 => Byte(i) = z
  BY <1>3, <1>4
<1>10. i >= total - 8 => Byte(i) = u
  BY <1>3, <1>4
<1> QED BY <1>5, <1>6, <1>7, <1>8, <1>9, <1>10 DEF x, y, z, u

(* The padded message is the message, then the blocks of crypto_hash().    *)
LEMMA PaddedBytes ==
  ASSUME NEW m, NEW n \in Nat, FitsInLength(n), NEW q, NEW r, NEW left, IsTail(n, q, r, left)
  PROVE  /\ \A i \in 0 .. 128 * q - 1 : Sha!SpecPadded(m, n)[i] = m[i]
         /\ \A j \in 0 .. left - 1 :
              Sha!SpecPadded(m, n)[128 * q + j] = Sha!LastBlocks(m, n)[j]
<1> DEFINE total == 128 * q + left
           padded == Sha!SpecPadded(m, n)
           last == Sha!LastBlocks(m, n)
<1>1. /\ q \in Nat /\ r \in 0 .. 127 /\ n = 128 * q + r /\ left \in Nat /\ r < left - 16
      /\ total \in Nat
  BY DEF IsTail
<1>2. \A k \in 0 .. 7 : Sha!ts64(HighWord(n), k) = IF k = 7 THEN TopByte(n) ELSE 0
  <2>1. HighWord(n) \in Nat
    BY LengthWords
  <2>2. HighWord(n) < Sha!Power[WordBits \div 8]
    BY DEF FitsInLength, HighWord
  <2> QED BY <2>1, <2>2, ShortStored DEF TopByte
<1>3. ASSUME NEW i \in 0 .. 128 * q - 1 PROVE padded[i] = m[i]
  <2>1. i < n /\ i \in 0 .. total - 1
    BY <1>1
  <2> HIDE DEF total
  <2> QED BY <2>1, PaddedByteIs DEF total
<1>4. ASSUME NEW j \in 0 .. left - 1 PROVE padded[128 * q + j] = last[j]
  <2> DEFINE i == 128 * q + j
  <2>1. i \in 0 .. total - 1 /\ j \in Int /\ r \in Int /\ left \in Int
    BY <1>1
  <2>2. /\ (i < n <=> j < r) /\ (i = n <=> j = r) /\ (i > n <=> j > r)
        /\ (i < total - 16 <=> j < left - 16) /\ (i < total - 8 <=> j < left - 8)
        /\ (i >= total - 16 <=> j >= left - 16) /\ (i >= total - 8 <=> j >= left - 8)
        /\ i - (total - 16) = j - (left - 16) /\ i - (total - 8) = j - (left - 8)
        /\ (j < r => n - r + j = i)
    BY <1>1
  <2> DEFINE H(k) == Sha!ts64(HighWord(n), k)
             L(k) == Sha!ts64(LowWord(n), k)
             hi == TopByte(n)
             one == OneBit
             x == padded[i]
             y == last[j]
  <2>3. /\ i < n => x = m[i]
        /\ i = n => x = one
        /\ i > n /\ i < total - 16 => x = 0
        /\ i >= total - 16 /\ i < total - 8 => x = H(i - (total - 16))
        /\ i >= total - 8 => x = L(i - (total - 8))
    BY <2>1, PaddedByteIs
  <2>4. /\ j < r => y = m[n - r + j]
        /\ j = r => y = one
        /\ j > r /\ j < left - 9 => y = 0
        /\ j = left - 9 => y = hi
        /\ j >= left - 8 => y = L(j - (left - 8))
    BY LastByteIs
  <2>5. \A k \in 0 .. 7 : H(k) = IF k = 7 THEN hi ELSE 0
    BY <1>2
  <2> SUFFICES x = y
    OBVIOUS
  <2> HIDE DEF i, x, y, H, L, hi, one, total
  <2>6. CASE j < r
    BY <2>2, <2>3, <2>4, <2>6
  <2>7. CASE j = r
    BY <2>2, <2>3, <2>4, <2>7
  <2>8. CASE r < j /\ j < left - 16
    <3>1. j > r /\ j < left - 9
      BY <1>1, <2>1, <2>8
    <3> QED BY <2>2, <2>3, <2>4, <2>8, <3>1
  <2>9. CASE left - 16 <= j /\ j < left - 8
    <3>1. /\ j - (left - 16) \in 0 .. 7 /\ j >= left - 16 /\ j > r
          /\ (j - (left - 16) = 7 <=> j = left - 9) /\ (j # left - 9 => j < left - 9)
      BY <1>1, <2>1, <2>9
    <3>2. x = H(j - (left - 16))
      BY <2>2, <2>3, <2>9, <3>1
    <3>3. H(j - (left - 16)) = IF j = left - 9 THEN hi ELSE 0
      BY <2>5, <3>1
    <3>4. y = IF j = left - 9 THEN hi ELSE 0
      BY <2>4, <3>1
    <3> QED BY <3>2, <3>3, <3>4
  <2>10. CASE j >= left - 8
    BY <2>2, <2>3, <2>4, <2>10
  <2>11. j < r \/ j = r \/ (r < j /\ j < left - 16) \/ (left - 16 <= j /\ j < left - 8) \/ j >= left - 8
    BY <1>1
  <2> QED BY <2>6, <2>7, <2>8, <2>9, <2>10, <2>11
<1> QED BY <1>3, <1>4

(* What crypto_hash() appends are bytes.                                   *)
LEMMA LastBlocksAreBytes ==
  ASSUME NEW m, NEW n \in Nat, AreBytes(m, n), NEW q, NEW r, NEW left, IsTail(n, q, r, left)
  PROVE  AreBytes(Sha!LastBlocks(m, n), left)
<1> DEFINE B == Sha!Power[WordBits \div 8]
           last == Sha!LastBlocks(m, n)
<1>1. q \in Nat /\ r \in 0 .. 127 /\ n = 128 * q + r /\ left \in Nat /\ r < left - 16
  BY DEF IsTail
<1>2. B \in Nat \ {0} /\ B > 1 /\ HighWord(n) \in Nat /\ LowWord(n) \in Nat
  BY ByteBaseIsPositive, LengthWords
<1>3. \A k \in 0 .. 7 : Sha!ts64(LowWord(n), k) \in 0 .. B - 1
  BY <1>2, StoredIsByte
<1>4. \A i \in 0 .. n - 1 : m[i] \in 0 .. B - 1
  BY DEF AreBytes
<1>5. OneBit = B \div 2 /\ TopByte(n) = HighWord(n) % B
  BY DEF OneBit, TopByte
<1> HIDE DEF B
<1>6. B \div 2 \in 0 .. B - 1 /\ HighWord(n) % B \in 0 .. B - 1 /\ 0 \in 0 .. B - 1
  BY <1>2
<1>7. ASSUME NEW i \in 0 .. left - 1 PROVE last[i] \in 0 .. B - 1
  <2> DEFINE x == last[i]
             z == TopByte(n)
             one == OneBit
  <2>1. /\ i < r => x = m[n - r + i]
        /\ i = r => x = one
        /\ i > r /\ i < left - 9 => x = 0
        /\ i = left - 9 => x = z
        /\ i >= left - 8 => x = Sha!ts64(LowWord(n), i - (left - 8))
    BY LastByteIs
  <2>2. one \in 0 .. B - 1 /\ z \in 0 .. B - 1
    BY <1>5, <1>6
  <2> HIDE DEF x, one, z
  <2>3. CASE i < r
    <3>1. n - r + i \in 0 .. n - 1
      BY <1>1, <2>3
    <3> QED BY <1>4, <2>1, <2>3, <3>1 DEF x
  <2>4. CASE i >= left - 8
    <3>1. i - (left - 8) \in 0 .. 7
      BY <1>1, <2>4
    <3> QED BY <1>3, <2>1, <2>4, <3>1 DEF x
  <2>5. i < r \/ i = r \/ (i > r /\ i < left - 9) \/ i = left - 9 \/ i >= left - 8
    BY <1>1
  <2> QED BY <1>6, <2>1, <2>2, <2>3, <2>4, <2>5 DEF x
<1> QED BY <1>7 DEF AreBytes, B

(* The same bytes make the same block.                                     *)
LEMMA AlikeBlocks ==
  ASSUME NEW p, NEW at \in Nat, NEW q, NEW to \in Nat, AlikeAt(p, at, q, to, 128)
  PROVE  Sha!Load16(p, at) = Sha!Load16(q, to)
<1>1. ASSUME NEW i \in 0 .. 15 PROVE Sha!dl64(p, at + 8 * i) = Sha!dl64(q, to + 8 * i)
  <2>1. ASSUME NEW j \in 0 .. 8 - 1 PROVE p[at + 8 * i + j] = q[to + 8 * i + j]
    <3>1. 8 * i + j \in 0 .. 128 - 1 /\ at + 8 * i + j = at + (8 * i + j)
          /\ to + 8 * i + j = to + (8 * i + j)
      OBVIOUS
    <3>2. p[at + (8 * i + j)] = q[to + (8 * i + j)]
      BY <3>1 DEF AlikeAt
    <3> QED BY <3>1, <3>2
  <2>2. AlikeAt(p, at + 8 * i, q, to + 8 * i, 8)
    BY <2>1 DEF AlikeAt
  <2> QED BY <2>2, AlikeLoaded
<1> QED BY <1>1 DEF Sha!Load16

(* The blocks of crypto_hashblocks() and of the definition.                *)
BlocksOf(n) == n \div 128
SpecBlocksOf(n) == Sha!SpecLength(n) \div 128
HashedBlock(y, m, b) == Sha!HashBlock(y, m, b * 128)
SpecHashedBlock(y, m, n, b) == Sha!SpecBlock(y, Sha!Load16(Sha!SpecPadded(m, n), b * 128))

(* The chaining values of the code, and those of the definition.           *)
IsHashed(f, x, m, n) ==
  /\ f[0] = Sha!Load8(x)
  /\ \A i \in 0 .. BlocksOf(n) - 1 : f[i + 1] = HashedBlock(f[i], m, i)
  /\ Sha!crypto_hashblocks(x, m, n) = Sha!Store8(f[BlocksOf(n)])
IsSpecHashed(f, m, n) ==
  /\ f[0] = Sha!Load8(Sha!iv)
  /\ \A i \in 0 .. SpecBlocksOf(n) - 1 : f[i + 1] = SpecHashedBlock(f[i], m, n, i)
  /\ Sha!SpecHash(m, n) = Sha!Store8(f[SpecBlocksOf(n)])

(* The loop of crypto_hashblocks(). *)
LEMMA HashBlocksChain ==
  ASSUME NEW x, NEW m, NEW n, BlocksOf(n) \in Nat
  PROVE  \E f : IsHashed(f, x, m, n)
<1> DEFINE Eq(fn, top) == fn = [i \in 0 .. top |->
             IF i = 0 THEN Sha!Load8(x)
             ELSE HashedBlock(fn[i - 1], m, i - 1)]
           G == {top \in Nat : \E fn : Eq(fn, top)}
<1>1. ASSUME NEW top \in Nat, \A low \in 0 .. top - 1 : low \in G PROVE top \in G
  <2>1. CASE top = 0
    <3>1. Eq([i \in 0 .. top |-> Sha!Load8(x)], top)
      BY <2>1
    <3> QED BY <3>1
  <2>2. CASE top # 0
    <3>1. PICK f : Eq(f, top - 1)
      <4>1. top - 1 \in 0 .. top - 1
        BY <2>2
      <4> HIDE DEF Eq, G
      <4>2. top - 1 \in G
        BY <1>1, <4>1
      <4> QED BY <4>2 DEF G
    <3> DEFINE g == [i \in 0 .. top |->
                     IF i = top THEN HashedBlock(f[top - 1], m, top - 1) ELSE f[i]]
    <3>2. Eq(g, top)
      BY <2>2, <3>1
    <3> QED BY <3>2
  <2> QED BY <2>1, <2>2
<1>2. PICK f : Eq(f, BlocksOf(n))
  <2>1. BlocksOf(n) \in G
    BY <1>1, CompleteInduction
  <2> QED BY <2>1
<1> DEFINE h == CHOOSE fn : Eq(fn, BlocksOf(n))
<1>3. Eq(h, BlocksOf(n))
  BY <1>2
<1>4. Sha!crypto_hashblocks(x, m, n) = Sha!Store8(h[BlocksOf(n)])
  BY DEF BlocksOf, HashedBlock, Sha!crypto_hashblocks, Sha!BlockBytes, Sha!Iterate, Sha!Then
<1> HIDE DEF h
<1>5. h[0] = Sha!Load8(x) /\ \A i \in 0 .. BlocksOf(n) - 1 : h[i + 1] = HashedBlock(h[i], m, i)
  BY <1>3
<1> QED BY <1>4, <1>5 DEF IsHashed

(* The blocks of a padded message. *)
LEMMA SpecHashChain ==
  ASSUME NEW m, NEW n, SpecBlocksOf(n) \in Nat
  PROVE  \E f : IsSpecHashed(f, m, n)
<1> DEFINE Eq(fn, top) == fn = [i \in 0 .. top |->
             IF i = 0 THEN Sha!Load8(Sha!iv)
             ELSE SpecHashedBlock(fn[i - 1], m, n, i - 1)]
           G == {top \in Nat : \E fn : Eq(fn, top)}
<1>1. ASSUME NEW top \in Nat, \A low \in 0 .. top - 1 : low \in G PROVE top \in G
  <2>1. CASE top = 0
    <3>1. Eq([i \in 0 .. top |-> Sha!Load8(Sha!iv)], top)
      BY <2>1
    <3> QED BY <3>1
  <2>2. CASE top # 0
    <3>1. PICK f : Eq(f, top - 1)
      <4>1. top - 1 \in 0 .. top - 1
        BY <2>2
      <4> HIDE DEF Eq, G
      <4>2. top - 1 \in G
        BY <1>1, <4>1
      <4> QED BY <4>2 DEF G
    <3> DEFINE g == [i \in 0 .. top |->
                     IF i = top THEN SpecHashedBlock(f[top - 1], m, n, top - 1) ELSE f[i]]
    <3>2. Eq(g, top)
      BY <2>2, <3>1
    <3> QED BY <3>2
  <2> QED BY <2>1, <2>2
<1>2. PICK f : Eq(f, SpecBlocksOf(n))
  <2>1. SpecBlocksOf(n) \in G
    BY <1>1, CompleteInduction
  <2> QED BY <2>1
<1> DEFINE h == CHOOSE fn : Eq(fn, SpecBlocksOf(n))
<1>3. Eq(h, SpecBlocksOf(n))
  BY <1>2
<1>4. Sha!SpecHash(m, n) = Sha!Store8(h[SpecBlocksOf(n)])
  BY DEF SpecBlocksOf, SpecHashedBlock, Sha!SpecHash, Sha!Iterate, Sha!Then
<1> HIDE DEF h
<1>5. h[0] = Sha!Load8(Sha!iv) /\ \A i \in 0 .. SpecBlocksOf(n) - 1 : h[i + 1] = SpecHashedBlock(h[i], m, n, i)
  BY <1>3
<1> QED BY <1>4, <1>5 DEF IsSpecHashed

(* crypto_hash() is SHA-512, for bytes of every length.                    *)
LEMMA ShaIsSpec ==
  ASSUME NEW m, NEW n \in Nat, AreBytes(m, n), FitsInLength(n)
  PROVE  Sha!crypto_hash(m, n) = Sha!SpecHash(m, n)
<1>1. PICK q, r, left : IsTail(n, q, r, left)
  BY PaddedLength
<1> DEFINE c == left \div 128
           last == Sha!LastBlocks(m, n)
           byte == Sha!SpecPadded(m, n)
<1>2. /\ q \in Nat /\ r \in 0 .. 127 /\ n = 128 * q + r /\ BlocksOf(n) = q
      /\ Sha!Rest(n) = left /\ left \in Nat /\ c \in Nat /\ left = 128 * c
      /\ BlocksOf(left) = c /\ SpecBlocksOf(n) = q + c
  <2>1. /\ q \in Nat /\ r \in 0 .. 127 /\ n = 128 * q + r /\ n \div 128 = q
        /\ left \in {128, 256} /\ Sha!Rest(n) = left /\ Sha!SpecLength(n) = 128 * q + left
    BY <1>1 DEF IsTail
  <2>2. CASE left = 128
    <3>1. c = 1 /\ (128 * q + 128) \div 128 = q + 1
      BY <2>1, <2>2
    <3> QED BY <2>1, <2>2, <3>1 DEF BlocksOf, SpecBlocksOf
  <2>3. CASE left = 256
    <3>1. c = 2 /\ (128 * q + 256) \div 128 = q + 2
      BY <2>1, <2>3
    <3> QED BY <2>1, <2>3, <3>1 DEF BlocksOf, SpecBlocksOf
  <2> QED BY <2>1, <2>2, <2>3
<1> HIDE DEF c
<1>3. PICK f : IsHashed(f, Sha!iv, m, n)
  BY <1>2, HashBlocksChain
<1>4. PICK g : IsHashed(g, Sha!crypto_hashblocks(Sha!iv, m, n), last, left)
  <2> HIDE DEF last
  <2> QED BY <1>2, HashBlocksChain
<1>5. PICK t : IsSpecHashed(t, m, n)
  <2>1. SpecBlocksOf(n) \in Nat
    BY <1>2
  <2> QED BY <2>1, SpecHashChain
<1>6. /\ \A i \in 0 .. 128 * q - 1 : byte[i] = m[i]
      /\ \A j \in 0 .. left - 1 : byte[128 * q + j] = last[j]
      /\ AreBytes(last, left)
  BY <1>1, PaddedBytes, LastBlocksAreBytes
<1>7. /\ t[0] = Sha!Load8(Sha!iv)
      /\ \A i \in 0 .. q + c - 1 : t[i + 1] = Sha!SpecBlock(t[i], Sha!Load16(byte, i * 128))
      /\ Sha!SpecHash(m, n) = Sha!Store8(t[q + c])
  BY <1>2, <1>5 DEF IsSpecHashed, SpecHashedBlock
<1>8. /\ f[0] = Sha!Load8(Sha!iv)
      /\ \A i \in 0 .. q - 1 : f[i + 1] = Sha!HashBlock(f[i], m, i * 128)
      /\ Sha!crypto_hashblocks(Sha!iv, m, n) = Sha!Store8(f[q])
  BY <1>2, <1>3 DEF IsHashed, HashedBlock
<1>9. /\ g[0] = Sha!Load8(Sha!Store8(f[q]))
      /\ \A i \in 0 .. c - 1 : g[i + 1] = Sha!HashBlock(g[i], last, i * 128)
      /\ Sha!crypto_hash(m, n) = Sha!Store8(g[c])
  <2> HIDE DEF last
  <2>1. /\ g[0] = Sha!Load8(Sha!crypto_hashblocks(Sha!iv, m, n))
        /\ \A i \in 0 .. c - 1 : g[i + 1] = Sha!HashBlock(g[i], last, i * 128)
        /\ Sha!crypto_hashblocks(Sha!crypto_hashblocks(Sha!iv, m, n), last, left) = Sha!Store8(g[c])
    BY <1>2, <1>4 DEF IsHashed, HashedBlock
  <2>2. Sha!crypto_hash(m, n) =
          Sha!crypto_hashblocks(Sha!crypto_hashblocks(Sha!iv, m, n), last, left)
    BY <1>2 DEF Sha!crypto_hash, last
  <2> QED BY <1>8, <2>1, <2>2
<1> HIDE DEF last, byte
<1> DEFINE Both(i) == IsHash(f[i]) /\ f[i] = t[i]
           G == {i \in 0 .. q : Both(i)}
<1>10. ASSUME NEW i \in 0 .. q - 1, i \in G PROVE i + 1 \in G
  <2>1. /\ i \in Nat /\ i + 1 \in 0 .. q /\ i \in 0 .. q + c - 1 /\ i * 128 \in Nat
        /\ i * 128 + 128 <= n /\ i * 128 + 128 <= 128 * q
    BY <1>2
  <2>2. IsBlockWords(Sha!Load16(m, i * 128))
    <3> DEFINE at == i * 128
    <3>1. at \in Nat /\ at + 128 <= n
      BY <2>1
    <3> HIDE DEF at
    <3>2. IsBlockWords(Sha!Load16(m, at))
      BY <3>1, LoadedWords
    <3> QED BY <3>2 DEF at
  <2>3. Sha!Load16(byte, i * 128) = Sha!Load16(m, i * 128)
    <3> DEFINE at == i * 128
    <3>1. at \in Nat /\ at + 128 <= 128 * q
      BY <2>1
    <3> HIDE DEF at
    <3>2. ASSUME NEW j \in 0 .. 128 - 1 PROVE byte[at + j] = m[at + j]
      <4>1. at + j \in 0 .. 128 * q - 1
        BY <1>2, <3>1
      <4> QED BY <1>6, <4>1
    <3>3. AlikeAt(byte, at, m, at, 128)
      BY <3>2 DEF AlikeAt
    <3>4. Sha!Load16(byte, at) = Sha!Load16(m, at)
      BY <3>1, <3>3, AlikeBlocks
    <3> QED BY <3>4 DEF at
  <2>4. IsHash(f[i]) /\ f[i] = t[i]
    BY <1>10
  <2>5. /\ Sha!HashBlock(f[i], m, i * 128) = Sha!SpecBlock(f[i], Sha!Load16(m, i * 128))
        /\ IsHash(Sha!HashBlock(f[i], m, i * 128))
    BY <2>2, <2>4, HashBlockIsSpec
  <2>6. Both(i + 1)
    BY <1>7, <1>8, <2>1, <2>3, <2>4, <2>5
  <2> HIDE DEF Both
  <2> QED BY <2>1, <2>6
<1>11. IsHash(f[q]) /\ f[q] = t[q]
  <2>1. 0 \in G
    <3>1. 0 \in 0 .. q
      BY <1>2
    <3>2. Both(0)
      BY <1>7, <1>8, LoadedWords
    <3> HIDE DEF Both
    <3> QED BY <3>1, <3>2
  <2>2. q \in G
    <3> HIDE DEF G
    <3> QED BY <1>2, <1>10, <2>1, StepsUpTo
  <2> QED BY <2>2
<1> DEFINE After(i) == IsHash(g[i]) /\ g[i] = t[q + i]
           H == {i \in 0 .. c : After(i)}
<1>12. ASSUME NEW i \in 0 .. c - 1, i \in H PROVE i + 1 \in H
  <2>1. /\ i \in Nat /\ i + 1 \in 0 .. c /\ q + i \in 0 .. q + c - 1 /\ i * 128 \in Nat
        /\ i * 128 + 128 <= left /\ (q + i) * 128 = 128 * q + i * 128 /\ (q + i) + 1 = q + (i + 1)
    BY <1>2
  <2>2. IsBlockWords(Sha!Load16(last, i * 128))
    <3> DEFINE at == i * 128
    <3>1. at \in Nat /\ at + 128 <= left
      BY <2>1
    <3> HIDE DEF at
    <3>2. IsBlockWords(Sha!Load16(last, at))
      BY <1>2, <1>6, <3>1, LoadedWords
    <3> QED BY <3>2 DEF at
  <2>3. Sha!Load16(byte, (q + i) * 128) = Sha!Load16(last, i * 128)
    <3> DEFINE at == i * 128
               to == (q + i) * 128
    <3>1. at \in Nat /\ at + 128 <= left /\ to = 128 * q + at
      BY <2>1
    <3> HIDE DEF at, to
    <3>2. to \in Nat
      BY <1>2, <3>1
    <3>3. ASSUME NEW j \in 0 .. 128 - 1 PROVE byte[to + j] = last[at + j]
      <4>1. at + j \in 0 .. left - 1 /\ to + j = 128 * q + (at + j)
        BY <1>2, <3>1
      <4>2. byte[128 * q + (at + j)] = last[at + j]
        BY <1>6, <4>1
      <4> QED BY <4>1, <4>2
    <3>4. AlikeAt(byte, to, last, at, 128)
      BY <3>3 DEF AlikeAt
    <3>5. Sha!Load16(byte, to) = Sha!Load16(last, at)
      BY <3>1, <3>2, <3>4, AlikeBlocks
    <3> QED BY <3>5 DEF at, to
  <2>4. IsHash(g[i]) /\ g[i] = t[q + i]
    BY <1>12
  <2>5. /\ Sha!HashBlock(g[i], last, i * 128) = Sha!SpecBlock(g[i], Sha!Load16(last, i * 128))
        /\ IsHash(Sha!HashBlock(g[i], last, i * 128))
    BY <2>2, <2>4, HashBlockIsSpec
  <2>6. t[(q + i) + 1] = Sha!SpecBlock(t[q + i], Sha!Load16(byte, (q + i) * 128))
    BY <1>7, <2>1
  <2>7. g[i + 1] = Sha!HashBlock(g[i], last, i * 128)
    BY <1>9
  <2>8. After(i + 1)
    BY <2>1, <2>3, <2>4, <2>5, <2>6, <2>7
  <2> HIDE DEF After
  <2> QED BY <2>1, <2>8
<1>13. g[c] = t[q + c]
  <2>1. 0 \in H
    <3>1. 0 \in 0 .. c /\ q + 0 = q
      BY <1>2
    <3>2. g[0] = f[q]
      BY <1>9, <1>11, Load8OfStore8
    <3>3. After(0)
      BY <1>11, <3>1, <3>2
    <3> HIDE DEF After
    <3> QED BY <3>1, <3>3
  <2>2. c \in H
    <3> HIDE DEF H
    <3> QED BY <1>2, <1>12, <2>1, StepsUpTo
  <2> QED BY <2>2
<1> QED BY <1>7, <1>9, <1>13

(* The inputs of the calls are bytes, and their lengths fit the padding.   *)
LEMMA PatternIsHashed ==
  ASSUME NEW n \in Sha512Lengths
  PROVE  Sha!crypto_hash(Pattern(WordBits \div 8), n) = Sha!SpecHash(Pattern(WordBits \div 8), n)
<1> DEFINE m == Pattern(WordBits \div 8)
<1>1. n \in Nat /\ AreBytes(m, n) /\ FitsInLength(n)
  BY SizesAssumption DEF AreBytes, FitsInLength
<1> HIDE DEF m
<1>2. Sha!crypto_hash(m, n) = Sha!SpecHash(m, n)
  BY <1>1, ShaIsSpec
<1> QED BY <1>2 DEF m

(* What is known of a call of crypto_hash. *)
Sha512Inv ==
  call # Idle /\ call.of = "crypto_hash" =>
    /\ call.args \in Sha512Lengths
    /\ "result" \in DOMAIN call => call.result = Sha!crypto_hash(Pattern(WordBits \div 8), call.args)

(* A call keeps its length and returns what the algorithm computes. *)
LEMMA Sha512Invariance == Spec => []Sha512Inv
<1>1. Init => Sha512Inv
  BY DEF Init, Sha512Inv
<1>2. ASSUME Sha512Inv, [Next]_call PROVE Sha512Inv'
  <2>1. CASE CallSha512
    <3>1. PICK n \in Sha512Lengths : call' = [of |-> "crypto_hash", args |-> n]
      BY <2>1 DEF CallSha512, Call
    <3> QED BY <3>1 DEF Sha512Inv
  <2>2. CASE ReturnSha512
    <3>1. call.args \in Sha512Lengths
      BY <1>2, <2>2 DEF Sha512Inv, ReturnSha512, Called
    <3>2. call' = [of |-> call.of, args |-> call.args,
                   result |-> Sha!crypto_hash(Pattern(WordBits \div 8), call.args)]
      BY <2>2 DEF ReturnSha512, Returns
    <3>3. /\ call'.args = call.args
          /\ call'.result = Sha!crypto_hash(Pattern(WordBits \div 8), call.args)
      BY <3>2
    <3> QED BY <3>1, <3>3 DEF Sha512Inv
  <2>3. CASE NotOf("crypto_hash")
    BY <2>3 DEF NotOf, Sha512Inv
  <2>4. CASE UNCHANGED call
    BY <1>2, <2>4 DEF Sha512Inv
  <2> QED BY <1>2, <2>1, <2>2, <2>3, <2>4, StepsOfOne
<1> QED BY <1>1, <1>2, PTL DEF Spec

(* The schedule rewritten in sixteen words, the chaining value stored as *)
(* bytes between two calls and the padding in one block or two make the  *)
(* hash of the standard, for messages of every length.                    *)
THEOREM ScheduleInPlaceIsSha512 == Spec => []Sha512IsFIPS180
<1>1. Sha512Inv => Sha512IsFIPS180
  <2> SUFFICES ASSUME Sha512Inv, Returned("crypto_hash") PROVE Sha512IsFIPS180
    BY DEF Sha512IsFIPS180
  <2>1. call.args \in Sha512Lengths /\ call.result = Sha!crypto_hash(Pattern(WordBits \div 8), call.args)
    BY DEF Sha512Inv, Returned
  <2>2. call.args \in Nat
    BY <2>1, SizesAssumption
  <2> QED BY <2>1, <2>2, PatternIsHashed DEF Sha512IsFIPS180
<1> QED BY <1>1, Sha512Invariance, PTL

=================================================================================
