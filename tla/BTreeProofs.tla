---------------------------- MODULE BTreeProofs ----------------------------
(***************************************************************************)
(* Theorems about put and get of the B+tree, checked by TLAPS.             *)
(*                                                                         *)
(* Nodes first: the binary search, insertions and splits, each on a sorted *)
(* node.  Shape is what holds of the tree whatever is put.  Good is what   *)
(* makes lookups right; it holds as long as no key was put below the first *)
(* cell of the root, and says where keys are routed and which cells are    *)
(* found there.                                                            *)
(***************************************************************************)
EXTENDS BTree, SequenceTheorems, WellFoundedInduction, TLAPS

LeafCell == [key : Key, val : Value]
RootCell == [key : Key, page : Nat]

\* The nodes with cells in C: every offset is that of a cell.
NodeOf(C) ==
    {n \in [offsets : Seq(Nat), cells : Seq(C)] :
        \A i \in 1 .. Len(n.offsets) : n.offsets[i] \in 1 .. Len(n.cells)}

Keyed(C) == \A c \in C : c.key \in Int
-----------------------------------------------------------------------------
(* The binary search. *)

\* A non-empty set of natural numbers has a least element.
LEMMA MinFacts ==
    ASSUME NEW S \in SUBSET Nat, S # {}
    PROVE  Min(S) \in S /\ \A y \in S : Min(S) <= y
<1>1. PICK x \in S : \A y \in S : ~ (<<y, x>> \in OpToRel(<, Nat))
  BY NatLessThanWellFounded, WFMin
<1>2. OpToRel(<, Nat) = {ss \in Nat \X Nat : ss[1] < ss[2]}
  BY DEF OpToRel
<1>3. ASSUME NEW y \in S PROVE x <= y
  <2>1. x \in Nat /\ y \in Nat /\ <<y, x>> \in Nat \X Nat
    OBVIOUS
  <2>2. ~(y < x)
    BY <1>1, <1>2, <2>1
  <2> QED BY <2>1, <2>2
<1> QED BY <1>3 DEF Min

\* Induction, for a set of numbers instead of a predicate.
LEMMA Induction ==
    ASSUME NEW S \in SUBSET Nat, 0 \in S, \A k \in S : k + 1 \in S
    PROVE  S = Nat
<1> SUFFICES ASSUME Nat \ S # {} PROVE FALSE
  OBVIOUS
<1> DEFINE T == Nat \ S
           x == Min(T)
<1>1. T \in SUBSET Nat /\ T # {}
  OBVIOUS
<1>2. x \in T /\ \A y \in T : x <= y
  <2> HIDE DEF T
  <2> QED BY <1>1, MinFacts
<1> HIDE DEF x
<1>3. x \in Nat /\ x \notin S /\ x # 0
  BY <1>2
<1>4. x - 1 \in Nat /\ x - 1 \notin T
  BY <1>2, <1>3
<1>5. x - 1 \in S /\ (x - 1) + 1 = x
  BY <1>3, <1>4
<1> QED BY <1>3, <1>5

Ranges(n) == (1 .. Len(n.offsets) + 1) \X (0 .. Len(n.offsets))

middle(r) == r[1] + (r[2] - r[1]) \div 2

\* One round of the search, which goes on with f.
Narrow(f, n, key, r) ==
    IF r[1] > r[2] THEN r[1]
    ELSE IF key < keyAt(n, middle(r)) THEN f[<<r[1], middle(r) - 1>>]
    ELSE IF key > keyAt(n, middle(r)) THEN f[<<middle(r) + 1, r[2]>>]
    ELSE middle(r)

Solves(f, n, key) == f = [r \in Ranges(n) |-> Narrow(f, n, key, r)]

\* What findInsPointForKey computes, with its recursive function spelled out.
LEMMA SearchIsChosen ==
    ASSUME NEW n, NEW key
    PROVE  findInsPointForKey(n, key) = (CHOOSE f : Solves(f, n, key))[<<1, Len(n.offsets)>>]
BY DEF findInsPointForKey, Solves, Narrow, Ranges, middle

\* Both halves of a range are ranges, and shorter.
LEMMA Halves ==
    ASSUME NEW n, Len(n.offsets) \in Nat, NEW r \in Ranges(n), r[1] <= r[2]
    PROVE  /\ r[1] \in Nat /\ r[2] \in Nat /\ middle(r) \in Nat
           /\ middle(r) \in r[1] .. r[2] /\ middle(r) \in 1 .. Len(n.offsets)
           /\ <<r[1], middle(r) - 1>> \in Ranges(n) /\ (middle(r) - 1) - r[1] < r[2] - r[1]
           /\ <<middle(r) + 1, r[2]>> \in Ranges(n) /\ r[2] - (middle(r) + 1) < r[2] - r[1]
<1>1. r[1] \in 1 .. Len(n.offsets) + 1 /\ r[2] \in 0 .. Len(n.offsets)
  BY DEF Ranges
<1>2. \A a, b \in Nat : a <= b => a + (b - a) \div 2 \in a .. b
  OBVIOUS
<1>3. middle(r) \in r[1] .. r[2]
  BY <1>1, <1>2 DEF middle
<1>4. PICK L \in Nat : L = Len(n.offsets)
  OBVIOUS
<1>5. PICK lo \in Nat, hi \in Nat, mid \in Nat : lo = r[1] /\ hi = r[2] /\ mid = middle(r)
  BY <1>1, <1>3
<1>6. lo \in 1 .. L + 1 /\ hi \in 0 .. L /\ mid \in lo .. hi
  BY <1>1, <1>3, <1>4, <1>5
<1>7. /\ mid \in 1 .. L /\ mid - 1 \in 0 .. L /\ mid + 1 \in 1 .. L + 1
      /\ (mid - 1) - lo < hi - lo /\ hi - (mid + 1) < hi - lo
  BY <1>6
<1>8. <<lo, mid - 1>> \in Ranges(n) /\ <<mid + 1, hi>> \in Ranges(n)
  BY <1>4, <1>6, <1>7 DEF Ranges
<1> QED BY <1>4, <1>5, <1>6, <1>7, <1>8

\* The recursive definition of the search has a solution.
LEMMA SearchExists ==
    ASSUME NEW n, Len(n.offsets) \in Nat, NEW key
    PROVE  \E f : Solves(f, n, key)
<1> DEFINE L == Len(n.offsets)
           Short(k) == {r \in Ranges(n) : r[2] - r[1] < k}
           Upto(f, k) == \A r \in Short(k) : f[r] = Narrow(f, n, key, r)
           S == {k \in Nat : \E f : (\E g : f = [r \in Ranges(n) |-> g[r]]) /\ Upto(f, k)}
<1>1. \A r \in Ranges(n) : r[1] \in 1 .. L + 1 /\ r[2] \in 0 .. L
  BY DEF Ranges
<1>2. 0 \in S
  <2> DEFINE g == [r \in Ranges(n) |-> r[1]]
  <2>1. ASSUME NEW r \in Short(0) PROVE g[r] = Narrow(g, n, key, r)
    <3>1. r[1] > r[2] /\ r \in Ranges(n)
      BY <1>1
    <3> QED BY <3>1 DEF Narrow
  <2> QED BY <2>1
<1>3. ASSUME NEW k \in S PROVE k + 1 \in S
  <2>1. PICK f : Upto(f, k)
    BY <1>3
  <2> DEFINE g == [r \in Ranges(n) |-> Narrow(f, n, key, r)]
  <2>2. ASSUME NEW r \in Short(k) PROVE g[r] = f[r]
    BY <2>1
  <2>3. ASSUME NEW r \in Short(k + 1) PROVE Narrow(g, n, key, r) = Narrow(f, n, key, r)
    <3>1. CASE r[1] > r[2]
      BY <3>1 DEF Narrow
    <3>2. CASE r[1] <= r[2]
      <4>1. <<r[1], middle(r) - 1>> \in Short(k) /\ <<middle(r) + 1, r[2]>> \in Short(k)
        <5>1. PICK lo \in Nat, hi \in Nat, mid \in Nat : lo = r[1] /\ hi = r[2] /\ mid = middle(r)
          <6>1. r[1] \in Nat /\ r[2] \in Nat /\ middle(r) \in Nat
            BY <3>2, Halves
          <6> QED BY <6>1, Zenon
        <5>2. /\ <<lo, mid - 1>> \in Ranges(n) /\ (mid - 1) - lo < hi - lo
              /\ <<mid + 1, hi>> \in Ranges(n) /\ hi - (mid + 1) < hi - lo
          BY <3>2, <5>1, Halves
        <5>3. hi - lo < k + 1 /\ k \in Nat
          BY <5>1
        <5>4. (mid - 1) - lo < k /\ hi - (mid + 1) < k
          BY <5>2, <5>3
        <5> QED BY <5>1, <5>2, <5>4
      <4>2. /\ g[<<r[1], middle(r) - 1>>] = f[<<r[1], middle(r) - 1>>]
            /\ g[<<middle(r) + 1, r[2]>>] = f[<<middle(r) + 1, r[2]>>]
        BY <2>2, <4>1
      <4> HIDE DEF g
      <4> QED BY <4>2 DEF Narrow
    <3> QED BY <1>1, <3>1, <3>2
  <2>4. Upto(g, k + 1)
    BY <2>3
  <2>5. g = [r \in Ranges(n) |-> g[r]]
    OBVIOUS
  <2> HIDE DEF g
  <2> QED BY <2>4, <2>5
<1>4. S = Nat
  <2> HIDE DEF S
  <2>1. S \in SUBSET Nat
    BY DEF S
  <2> QED BY <1>2, <1>3, <2>1, Induction
<1>5. PICK f : (\E g : f = [r \in Ranges(n) |-> g[r]]) /\ Upto(f, L)
  BY <1>4
<1>6. ASSUME NEW r \in Ranges(n) PROVE f[r] = Narrow(f, n, key, r)
  BY <1>1, <1>5
<1> QED BY <1>5, <1>6 DEF Solves

\* What a round returns, if the rounds after it return what they should.
Ordered(n, key, i) ==
    /\ \A j \in 1 .. Len(n.offsets) : j < i => keyAt(n, j) <= key
    /\ \A j \in 1 .. Len(n.offsets) : i <= j => key <= keyAt(n, j)

\* The place is still to be found in the range.
Within(n, key, r) ==
    /\ \A j \in 1 .. Len(n.offsets) : j < r[1] => keyAt(n, j) <= key
    /\ \A j \in 1 .. Len(n.offsets) : r[2] < j => key <= keyAt(n, j)

\* The types of a node's parts.
LEMMA KeyTypes ==
    ASSUME NEW C, Keyed(C), NEW n \in NodeOf(C)
    PROVE  /\ Len(n.offsets) \in Nat /\ Len(n.cells) \in Nat
           /\ DOMAIN n.offsets = 1 .. Len(n.offsets) /\ DOMAIN n.cells = 1 .. Len(n.cells)
           /\ \A i \in 1 .. Len(n.offsets) : keyAt(n, i) \in Int
           /\ \A i \in 1 .. Len(n.offsets) : n.offsets[i] \in 1 .. Len(n.cells)
           /\ \A i \in 1 .. Len(n.cells) : n.cells[i] \in C
<1>1. n.offsets \in Seq(Nat) /\ n.cells \in Seq(C)
  BY DEF NodeOf
<1>2. \A i \in 1 .. Len(n.offsets) : n.offsets[i] \in 1 .. Len(n.cells)
  BY DEF NodeOf
<1>3. \A i \in 1 .. Len(n.cells) : n.cells[i] \in C
  BY <1>1, ElementOfSeq
<1>4. \A i \in 1 .. Len(n.offsets) : keyAt(n, i) \in Int
  BY <1>2, <1>3 DEF Keyed, keyAt
<1> QED BY <1>1, <1>2, <1>3, <1>4, LenProperties

\* The binary search finds a place for the key, also when it is there already.
LEMMA SearchFacts ==
    ASSUME NEW C, Keyed(C), NEW n \in NodeOf(C), Sorted(n), NEW key \in Int
    PROVE  /\ findInsPointForKey(n, key) \in 1 .. Len(n.offsets) + 1
           /\ Ordered(n, key, findInsPointForKey(n, key))
<1>1. PICK L \in Nat : L = Len(n.offsets)
  BY KeyTypes
<1>2. PICK f : Solves(f, n, key) /\ findInsPointForKey(n, key) = f[<<1, Len(n.offsets)>>]
  <2>1. Len(n.offsets) \in Nat
    BY <1>1
  <2>2. \E f : Solves(f, n, key)
    BY <2>1, SearchExists
  <2>3. Solves(CHOOSE f : Solves(f, n, key), n, key)
    BY <2>2
  <2> QED BY <2>3, SearchIsChosen
<1>3. \A r \in Ranges(n) : f[r] = Narrow(f, n, key, r)
  BY <1>2 DEF Solves
<1>4. \A r \in Ranges(n) : r[1] \in 1 .. L + 1 /\ r[2] \in 0 .. L
  BY <1>1 DEF Ranges
<1>5. \A i \in 1 .. L : keyAt(n, i) \in Int
  BY <1>1, KeyTypes
<1>6. \A i, j \in 1 .. L : i <= j => keyAt(n, i) <= keyAt(n, j)
  <2>1. DOMAIN n.offsets = 1 .. L
    BY <1>1, KeyTypes
  <2> QED BY <1>5, <2>1 DEF Sorted
<1> DEFINE Good(r) == f[r] \in 1 .. L + 1 /\ Ordered(n, key, f[r])
           S == {k \in Nat : \A r \in Ranges(n) :
                    r[2] - r[1] < k /\ r[1] <= r[2] + 1 /\ Within(n, key, r) => Good(r)}
<1>7. ASSUME NEW r \in Ranges(n), r[1] > r[2], r[1] <= r[2] + 1, Within(n, key, r) PROVE Good(r)
  <2>1. f[r] = r[1]
    BY <1>3, <1>7 DEF Narrow
  <2>2. PICK lo \in Nat, hi \in Nat : lo = r[1] /\ hi = r[2]
    BY <1>4
  <2>3. lo \in 1 .. L + 1 /\ lo > hi /\ lo <= hi + 1
    BY <1>4, <1>7, <2>2
  <2>4. /\ \A j \in 1 .. L : j < lo => keyAt(n, j) <= key
        /\ \A j \in 1 .. L : hi < j => key <= keyAt(n, j)
    BY <1>1, <1>7, <2>2 DEF Within
  <2>5. \A j \in 1 .. L : lo <= j => key <= keyAt(n, j)
    BY <2>3, <2>4
  <2> QED BY <1>1, <2>1, <2>2, <2>3, <2>4, <2>5 DEF Ordered
<1>8. 0 \in S
  <2> SUFFICES ASSUME NEW r \in Ranges(n), r[2] - r[1] < 0, r[1] <= r[2] + 1, Within(n, key, r)
               PROVE  Good(r)
    OBVIOUS
  <2>1. r[1] > r[2]
    BY <1>4
  <2> QED BY <1>7, <2>1
<1>9. ASSUME NEW k \in S PROVE k + 1 \in S
  <2> SUFFICES ASSUME NEW r \in Ranges(n), r[2] - r[1] < k + 1, r[1] <= r[2] + 1,
                      Within(n, key, r)
               PROVE  Good(r)
    OBVIOUS
  <2>1. CASE r[1] > r[2]
    BY <1>7, <2>1
  <2>2. CASE r[1] <= r[2]
    <3>1. PICK lo \in Nat, hi \in Nat, mid \in Nat : lo = r[1] /\ hi = r[2] /\ mid = middle(r)
      <4>1. r[1] \in Nat /\ r[2] \in Nat /\ middle(r) \in Nat
        BY <1>1, <2>2, Halves
      <4> QED BY <4>1, Zenon
    <3>2. /\ mid \in lo .. hi /\ mid \in 1 .. L
          /\ <<lo, mid - 1>> \in Ranges(n) /\ (mid - 1) - lo < hi - lo
          /\ <<mid + 1, hi>> \in Ranges(n) /\ hi - (mid + 1) < hi - lo
      BY <1>1, <2>2, <3>1, Halves
    <3>3. hi - lo < k + 1 /\ k \in Nat
      BY <3>1
    <3>4. (mid - 1) - lo < k /\ hi - (mid + 1) < k /\ lo <= (mid - 1) + 1 /\ mid + 1 <= hi + 1
      BY <3>2, <3>3
    <3>5. /\ \A j \in 1 .. L : j < lo => keyAt(n, j) <= key
          /\ \A j \in 1 .. L : hi < j => key <= keyAt(n, j)
      BY <1>1, <3>1 DEF Within
    <3>6. f[r] = IF key < keyAt(n, mid) THEN f[<<lo, mid - 1>>]
                 ELSE IF key > keyAt(n, mid) THEN f[<<mid + 1, hi>>]
                 ELSE mid
      BY <1>3, <1>4, <2>2, <3>1 DEF Narrow
    <3>7. keyAt(n, mid) \in Int
      BY <1>5, <3>2
    <3>8. CASE key < keyAt(n, mid)
      <4>1. \A j \in 1 .. L : mid - 1 < j => key <= keyAt(n, j)
        BY <1>5, <1>6, <3>2, <3>7, <3>8
      <4>2. Within(n, key, <<lo, mid - 1>>)
        BY <1>1, <3>5, <4>1 DEF Within
      <4>3. Good(<<lo, mid - 1>>)
        BY <1>9, <3>2, <3>4, <4>2
      <4> QED BY <3>6, <3>8, <4>3
    <3>9. CASE key > keyAt(n, mid)
      <4>1. \A j \in 1 .. L : j < mid + 1 => keyAt(n, j) <= key
        BY <1>5, <1>6, <3>2, <3>7, <3>9
      <4>2. Within(n, key, <<mid + 1, hi>>)
        BY <1>1, <3>5, <4>1 DEF Within
      <4>3. Good(<<mid + 1, hi>>)
        BY <1>9, <3>2, <3>4, <4>2
      <4>4. ~(key < keyAt(n, mid))
        BY <3>7, <3>9
      <4> QED BY <3>6, <3>9, <4>3, <4>4
    <3>10. CASE key = keyAt(n, mid)
      <4>1. f[r] = mid
        BY <3>6, <3>7, <3>10
      <4>2. \A j \in 1 .. L : j < mid => keyAt(n, j) <= key
        BY <1>6, <3>2, <3>10
      <4>3. \A j \in 1 .. L : mid <= j => key <= keyAt(n, j)
        BY <1>6, <3>2, <3>10
      <4> QED BY <1>1, <3>2, <4>1, <4>2, <4>3 DEF Ordered
    <3> QED BY <3>7, <3>8, <3>9, <3>10
  <2> QED BY <1>4, <2>1, <2>2
<1>10. S = Nat
  <2> HIDE DEF S
  <2>1. S \in SUBSET Nat
    BY DEF S
  <2> QED BY <1>8, <1>9, <2>1, Induction
<1>11. <<1, L>> \in Ranges(n) /\ Within(n, key, <<1, L>>)
  BY <1>1 DEF Ranges, Within
<1>12. Good(<<1, L>>)
  BY <1>10, <1>11
<1> QED BY <1>1, <1>2, <1>12
-----------------------------------------------------------------------------
(* Cells and offsets. *)

\* What InsertAt puts where.
LEMMA InsertAtFacts ==
    ASSUME NEW S, NEW s \in Seq(S), NEW i \in 1 .. Len(s) + 1, NEW e \in S
    PROVE  /\ InsertAt(s, i, e) \in Seq(S) /\ Len(InsertAt(s, i, e)) = Len(s) + 1
           /\ InsertAt(s, i, e)[i] = e
           /\ \A j \in 1 .. Len(s) : j < i => InsertAt(s, i, e)[j] = s[j]
           /\ \A j \in 1 .. Len(s) : i <= j => InsertAt(s, i, e)[j + 1] = s[j]
<1> DEFINE a == SubSeq(s, 1, i - 1)
           b == SubSeq(s, i, Len(s))
           u == a \o <<e>>
<1>1. PICK L \in Nat : L = Len(s)
  BY LenProperties
<1>2. \A j \in 1 .. L : s[j] \in S
  BY <1>1, ElementOfSeq
<1>3. a \in Seq(S) /\ Len(a) = i - 1 /\ \A j \in 1 .. i - 1 : a[j] = s[j]
  <2>1. \A j \in 1 .. i - 1 : s[j] \in S
    BY <1>1, <1>2
  <2>2. /\ a \in Seq(S) /\ Len(a) = IF 1 <= i - 1 THEN (i - 1) - 1 + 1 ELSE 0
        /\ \A j \in 1 .. (i - 1) - 1 + 1 : a[j] = s[1 + j - 1]
    BY <1>1, <2>1, SubSeqProperties
  <2> HIDE DEF a
  <2> QED BY <1>1, <2>2
<1>4. b \in Seq(S) /\ Len(b) = L - i + 1 /\ \A j \in 1 .. L - i + 1 : b[j] = s[i + j - 1]
  <2>1. \A j \in i .. L : s[j] \in S
    BY <1>1, <1>2
  <2>2. /\ b \in Seq(S) /\ Len(b) = IF i <= L THEN L - i + 1 ELSE 0
        /\ \A j \in 1 .. L - i + 1 : b[j] = s[i + j - 1]
    BY <1>1, <2>1, SubSeqProperties
  <2> HIDE DEF b
  <2> QED BY <1>1, <2>2
<1> HIDE DEF a, b
<1>5. <<e>> \in Seq(S) /\ Len(<<e>>) = 1 /\ <<e>>[1] = e
  OBVIOUS
<1>6. /\ u \in Seq(S) /\ Len(u) = i
      /\ \A j \in 1 .. i : u[j] = IF j < i THEN s[j] ELSE e
  <2>1. /\ u \in Seq(S) /\ Len(u) = Len(a) + 1
        /\ \A j \in 1 .. Len(a) + 1 : u[j] = IF j <= Len(a) THEN a[j] ELSE <<e>>[j - Len(a)]
    BY <1>3, <1>5, ConcatProperties
  <2> HIDE DEF u
  <2>2. \A j \in 1 .. i : j >= i => <<e>>[j - (i - 1)] = e
    BY <1>1, <1>5
  <2> QED BY <1>1, <1>3, <2>1, <2>2
<1> HIDE DEF u
<1>7. InsertAt(s, i, e) = u \o b
  BY DEF InsertAt, u, a, b
<1>8. /\ u \o b \in Seq(S) /\ Len(u \o b) = Len(u) + Len(b)
      /\ \A j \in 1 .. Len(u) + Len(b) :
            (u \o b)[j] = IF j <= Len(u) THEN u[j] ELSE b[j - Len(u)]
  BY <1>4, <1>6, ConcatProperties
<1>9. /\ Len(u) + Len(b) = L + 1
      /\ \A j \in 1 .. L + 1 : (u \o b)[j] = IF j <= i THEN u[j] ELSE b[j - i]
  <2>1. Len(u) + Len(b) = L + 1 /\ Len(u) = i
    BY <1>1, <1>4, <1>6
  <2> QED BY <1>8, <2>1
<1>10. i \in Nat /\ i \in 1 .. L + 1
  BY <1>1
<1>11. (u \o b)[i] = e
  BY <1>6, <1>9, <1>10
<1>12. \A j \in 1 .. L : j < i => (u \o b)[j] = s[j]
  BY <1>6, <1>9, <1>10
<1>13. ASSUME NEW j \in 1 .. L, i <= j PROVE (u \o b)[j + 1] = s[j]
  <2>1. j + 1 \in 1 .. L + 1 /\ ~(j + 1 <= i)
    BY <1>10, <1>13
  <2>2. (u \o b)[j + 1] = b[(j + 1) - i]
    BY <1>9, <2>1
  <2>3. (j + 1) - i \in 1 .. L - i + 1 /\ i + ((j + 1) - i) - 1 = j
    BY <1>10, <1>13
  <2> QED BY <1>4, <2>2, <2>3
<1> QED BY <1>1, <1>7, <1>8, <1>9, <1>11, <1>12, <1>13

\* A node after insertLeafCell or insertInternalCell.
LEMMA InsertFacts ==
    ASSUME NEW C, Keyed(C), NEW n \in NodeOf(C), NEW i \in 1 .. Len(n.offsets) + 1, NEW cell \in C,
           NEW m, m = insertCell(n, i, cell)
    PROVE  /\ m \in NodeOf(C) /\ Len(m.offsets) = Len(n.offsets) + 1
           /\ Len(m.cells) = Len(n.cells) + 1
           /\ m.cells[Len(n.cells) + 1] = cell
           /\ \A c \in 1 .. Len(n.cells) : m.cells[c] = n.cells[c]
           /\ m.offsets[i] = Len(n.cells) + 1
           /\ \A j \in 1 .. Len(n.offsets) : j < i => m.offsets[j] = n.offsets[j]
           /\ \A j \in 1 .. Len(n.offsets) : i <= j => m.offsets[j + 1] = n.offsets[j]
<1>1. PICK L \in Nat, D \in Nat : L = Len(n.offsets) /\ D = Len(n.cells)
  BY KeyTypes
<1>2. n.offsets \in Seq(Nat) /\ n.cells \in Seq(C)
  BY DEF NodeOf
<1>3. \A j \in 1 .. L : n.offsets[j] \in 1 .. D
  BY <1>1 DEF NodeOf
<1>4. m.offsets = InsertAt(n.offsets, i, D + 1) /\ m.cells = Append(n.cells, cell)
  BY <1>1 DEF insertCell
<1>5. PICK o, d : o = n.offsets /\ d = n.cells
  OBVIOUS
<1>6. o \in Seq(1 .. D + 1) /\ Len(o) = L
  <2>1. SubSeq(o, 1, L) \in Seq(1 .. D + 1)
    <3>1. \A j \in 1 .. L : o[j] \in 1 .. D + 1
      BY <1>3, <1>5
    <3> QED BY <3>1, SubSeqProperties
  <2>2. SubSeq(o, 1, L) = o
    BY <1>1, <1>2, <1>5, SubSeqFull
  <2> QED BY <1>1, <1>5, <2>1, <2>2
<1>7. PICK t : t = InsertAt(o, i, D + 1) /\ t = m.offsets
  BY <1>4, <1>5
<1>8. i \in 1 .. L + 1 /\ D + 1 \in 1 .. D + 1
  BY <1>1
<1>9. t \in Seq(1 .. D + 1) /\ Len(t) = L + 1
  <2>1. PICK S, e : S = 1 .. D + 1 /\ e = D + 1
    OBVIOUS
  <2>2. o \in Seq(S) /\ i \in 1 .. Len(o) + 1 /\ e \in S
    BY <1>6, <1>8, <2>1
  <2>3. InsertAt(o, i, e) \in Seq(S) /\ Len(InsertAt(o, i, e)) = Len(o) + 1
    BY <2>2, InsertAtFacts
  <2> QED BY <1>6, <1>7, <2>1, <2>3
<1>10. /\ t[i] = D + 1
       /\ \A j \in 1 .. L : j < i => t[j] = o[j]
       /\ \A j \in 1 .. L : i <= j => t[j + 1] = o[j]
  <2>1. PICK S, e : S = 1 .. D + 1 /\ e = D + 1
    OBVIOUS
  <2>2. o \in Seq(S) /\ i \in 1 .. Len(o) + 1 /\ e \in S
    BY <1>6, <1>8, <2>1
  <2>3. InsertAt(o, i, e)[i] = e
    BY <2>2, InsertAtFacts
  <2>4. \A j \in 1 .. Len(o) : j < i => InsertAt(o, i, e)[j] = o[j]
    BY <2>2, InsertAtFacts
  <2>5. \A j \in 1 .. Len(o) : i <= j => InsertAt(o, i, e)[j + 1] = o[j]
    BY <2>2, InsertAtFacts
  <2> QED BY <1>6, <1>7, <2>1, <2>3, <2>4, <2>5
<1>11. t \in Seq(Nat) /\ \A j \in 1 .. L + 1 : t[j] \in 1 .. D + 1
  <2>1. 1 .. D + 1 \subseteq Nat
    OBVIOUS
  <2> QED BY <1>9, <2>1, SeqMonotonic, ElementOfSeq
<1>12. /\ m.cells \in Seq(C) /\ Len(m.cells) = D + 1 /\ m.cells[D + 1] = cell
       /\ \A c \in 1 .. D : m.cells[c] = n.cells[c]
  BY <1>1, <1>2, <1>4, AppendProperties
<1>13. m = [offsets |-> m.offsets, cells |-> m.cells]
  BY DEF insertCell
<1>14. m \in NodeOf(C)
  <2>1. m \in [offsets : Seq(Nat), cells : Seq(C)]
    BY <1>7, <1>11, <1>12, <1>13
  <2>2. \A j \in 1 .. Len(m.offsets) : m.offsets[j] \in 1 .. Len(m.cells)
    BY <1>7, <1>9, <1>11, <1>12
  <2> QED BY <2>1, <2>2 DEF NodeOf
<1> QED BY <1>1, <1>5, <1>7, <1>9, <1>10, <1>12, <1>14

\* The keys, in order, after an insertion.
LEMMA InsertKeys ==
    ASSUME NEW C, Keyed(C), NEW n \in NodeOf(C), NEW i \in 1 .. Len(n.offsets) + 1, NEW cell \in C,
           NEW m, m = insertCell(n, i, cell)
    PROVE  \A j \in 1 .. Len(n.offsets) + 1 :
              keyAt(m, j) = IF j < i THEN keyAt(n, j) ELSE IF j = i THEN cell.key ELSE keyAt(n, j - 1)
<1>1. PICK L \in Nat, D \in Nat : L = Len(n.offsets) /\ D = Len(n.cells)
  BY KeyTypes
<1>2. /\ m.cells[D + 1] = cell /\ \A c \in 1 .. D : m.cells[c] = n.cells[c]
      /\ m.offsets[i] = D + 1
      /\ \A j \in 1 .. L : j < i => m.offsets[j] = n.offsets[j]
      /\ \A j \in 1 .. L : i <= j => m.offsets[j + 1] = n.offsets[j]
  <2>1. m.cells[D + 1] = cell /\ \A c \in 1 .. D : m.cells[c] = n.cells[c]
    BY <1>1, InsertFacts
  <2>2. m.offsets[i] = D + 1
    BY <1>1, InsertFacts
  <2>3. \A j \in 1 .. L : j < i => m.offsets[j] = n.offsets[j]
    BY <1>1, InsertFacts
  <2>4. \A j \in 1 .. L : i <= j => m.offsets[j + 1] = n.offsets[j]
    BY <1>1, InsertFacts
  <2> QED BY <2>1, <2>2, <2>3, <2>4
<1>3. \A j \in 1 .. L : n.offsets[j] \in 1 .. D
  BY <1>1, KeyTypes
<1>4. i \in 1 .. L + 1
  BY <1>1
<1> SUFFICES ASSUME NEW j \in 1 .. L + 1
             PROVE  keyAt(m, j) = IF j < i THEN keyAt(n, j) ELSE IF j = i THEN cell.key ELSE keyAt(n, j - 1)
  BY <1>1
<1>5. CASE j < i
  <2>1. j \in 1 .. L
    BY <1>4, <1>5
  <2>2. m.offsets[j] = n.offsets[j] /\ n.offsets[j] \in 1 .. D
    BY <1>2, <1>3, <1>5, <2>1
  <2> QED BY <1>2, <1>5, <2>2 DEF keyAt
<1>6. CASE j = i
  <2>1. keyAt(m, j) = cell.key
    BY <1>2, <1>6 DEF keyAt
  <2> QED BY <1>4, <1>6, <2>1
<1>7. CASE j > i
  <2>1. j - 1 \in 1 .. L /\ i <= j - 1 /\ (j - 1) + 1 = j
    BY <1>4, <1>7
  <2>2. m.offsets[j] = n.offsets[j - 1] /\ n.offsets[j - 1] \in 1 .. D
    BY <1>2, <1>3, <2>1
  <2>3. keyAt(m, j) = keyAt(n, j - 1)
    BY <1>2, <2>2 DEF keyAt
  <2> QED BY <1>4, <1>7, <2>3
<1> QED BY <1>4, <1>5, <1>6, <1>7

\* A cell that is put where it belongs leaves the keys in order.
LEMMA InsertSorted ==
    ASSUME NEW C, Keyed(C), NEW n \in NodeOf(C), NEW i \in 1 .. Len(n.offsets) + 1, NEW cell \in C,
           Sorted(n), Ordered(n, cell.key, i)
    PROVE  Sorted(insertCell(n, i, cell))
<1>1. PICK L \in Nat : L = Len(n.offsets)
  BY KeyTypes
<1>2. PICK m : m = insertCell(n, i, cell)
  OBVIOUS
<1>3. \A j \in 1 .. L + 1 :
         keyAt(m, j) = IF j < i THEN keyAt(n, j) ELSE IF j = i THEN cell.key ELSE keyAt(n, j - 1)
  BY <1>1, <1>2, InsertKeys
<1>4. \A j \in 1 .. L : keyAt(n, j) \in Int
  BY <1>1, KeyTypes
<1>5. DOMAIN m.offsets = 1 .. L + 1
  <2>1. m \in NodeOf(C) /\ Len(m.offsets) = L + 1
    BY <1>1, <1>2, InsertFacts
  <2> QED BY <2>1, KeyTypes
<1>6. cell.key \in Int /\ i \in 1 .. L + 1
  BY <1>1 DEF Keyed
<1>7. \A j, k \in 1 .. L : j < k => keyAt(n, j) <= keyAt(n, k)
  BY <1>1, KeyTypes DEF Sorted
<1>8. /\ \A j \in 1 .. L : j < i => keyAt(n, j) <= cell.key
      /\ \A j \in 1 .. L : i <= j => cell.key <= keyAt(n, j)
  BY <1>1 DEF Ordered
<1>9. ASSUME NEW j \in 1 .. L + 1, NEW k \in 1 .. L + 1, j < k PROVE keyAt(m, j) <= keyAt(m, k)
  <2>1. CASE k < i
    BY <1>3, <1>6, <1>7, <1>9, <2>1
  <2>2. CASE k = i
    BY <1>3, <1>6, <1>8, <1>9, <2>2
  <2>3. CASE k > i
    <3>1. k - 1 \in 1 .. L /\ i <= k - 1 /\ keyAt(m, k) = keyAt(n, k - 1)
      BY <1>3, <1>6, <2>3
    <3>2. CASE j < i
      <4>1. j \in 1 .. L /\ keyAt(m, j) = keyAt(n, j) /\ j < k - 1
        BY <1>3, <1>6, <2>3, <3>2
      <4> QED BY <1>7, <3>1, <4>1
    <3>3. CASE j = i
      BY <1>3, <1>8, <3>1, <3>3
    <3>4. CASE j > i
      <4>1. j - 1 \in 1 .. L /\ keyAt(m, j) = keyAt(n, j - 1) /\ j - 1 < k - 1
        BY <1>3, <1>6, <1>9, <3>4
      <4> QED BY <1>7, <3>1, <4>1
    <3> QED BY <1>6, <3>2, <3>3, <3>4
  <2> QED BY <1>6, <2>1, <2>2, <2>3
<1> QED BY <1>2, <1>5, <1>9 DEF Sorted

\* Both halves of a node that is split, and what they keep of it.
LEMMA SplitFacts ==
    ASSUME NEW C, Keyed(C), NEW n \in NodeOf(C), Len(n.offsets) >= 2
    PROVE  /\ splitpt(n) \in 1 .. Len(n.offsets) - 1
           /\ lower(n) \in NodeOf(C) /\ Len(lower(n).offsets) = splitpt(n)
           /\ lower(n).cells = n.cells
           /\ \A i \in 1 .. splitpt(n) : lower(n).offsets[i] = n.offsets[i]
           /\ upper(n) \in NodeOf(C) /\ Len(upper(n).offsets) = Len(n.offsets) - splitpt(n)
           /\ Len(upper(n).cells) = Len(n.offsets) - splitpt(n)
           /\ \A i \in 1 .. Len(n.offsets) - splitpt(n) :
                 upper(n).offsets[i] = i /\ upper(n).cells[i] = n.cells[n.offsets[splitpt(n) + i]]
<1>1. PICK L \in Nat, D \in Nat : L = Len(n.offsets) /\ D = Len(n.cells)
  BY KeyTypes
<1>2. PICK s \in 1 .. L - 1 : s = splitpt(n)
  <2>1. \A x \in Nat : x >= 2 => x \div 2 \in 1 .. x - 1
    OBVIOUS
  <2>2. splitpt(n) \in 1 .. L - 1
    BY <1>1, <2>1 DEF splitpt
  <2> QED BY <2>2
<1>3. PICK k \in Nat : k = L - s
  BY <1>2
<1>4. n.offsets \in Seq(Nat) /\ n.cells \in Seq(C) /\ \A j \in 1 .. L : n.offsets[j] \in 1 .. D
  BY <1>1 DEF NodeOf
<1>5. \A j \in 1 .. D : n.cells[j] \in C
  BY <1>1, KeyTypes
<1>6. lower(n) = [offsets |-> SubSeq(n.offsets, 1, s), cells |-> n.cells]
  <2>1. n = [offsets |-> n.offsets, cells |-> n.cells]
    BY DEF NodeOf
  <2>2. lower(n) = [n EXCEPT !.offsets = SubSeq(n.offsets, 1, s)]
    BY <1>2 DEF lower
  <2> QED BY <2>1, <2>2
<1>7. /\ SubSeq(n.offsets, 1, s) \in Seq(Nat) /\ Len(SubSeq(n.offsets, 1, s)) = s
      /\ \A j \in 1 .. s : SubSeq(n.offsets, 1, s)[j] = n.offsets[j]
  <2>1. \A j \in 1 .. s : n.offsets[j] \in Nat
    BY <1>2, <1>4
  <2>2. /\ SubSeq(n.offsets, 1, s) \in Seq(Nat)
        /\ Len(SubSeq(n.offsets, 1, s)) = IF 1 <= s THEN s - 1 + 1 ELSE 0
        /\ \A j \in 1 .. s - 1 + 1 : SubSeq(n.offsets, 1, s)[j] = n.offsets[1 + j - 1]
    BY <1>2, <2>1, SubSeqProperties
  <2> QED BY <1>2, <2>2
<1>8. lower(n) \in NodeOf(C)
  <2>1. \A j \in 1 .. s : SubSeq(n.offsets, 1, s)[j] \in 1 .. D
    BY <1>2, <1>4, <1>7
  <2>2. PICK t : t = SubSeq(n.offsets, 1, s)
    OBVIOUS
  <2>3. t \in Seq(Nat) /\ Len(t) = s /\ lower(n) = [offsets |-> t, cells |-> n.cells]
    BY <1>6, <1>7, <2>2
  <2>4. PICK d \in Seq(C) : d = n.cells
    BY <1>4
  <2>5. lower(n) \in [offsets : Seq(Nat), cells : Seq(C)]
    <3>1. \A x \in Seq(Nat), y \in Seq(C) :
             [offsets |-> x, cells |-> y] \in [offsets : Seq(Nat), cells : Seq(C)]
      OBVIOUS
    <3> QED BY <2>3, <2>4, <3>1, Zenon
  <2>6. lower(n).offsets = t /\ lower(n).cells = d
    BY <2>3, <2>4
  <2>7. \A j \in 1 .. Len(lower(n).offsets) : lower(n).offsets[j] \in 1 .. Len(lower(n).cells)
    BY <1>1, <2>1, <2>2, <2>3, <2>4, <2>6
  <2> QED BY <2>5, <2>7 DEF NodeOf
<1>9. upper(n) = [offsets |-> [i \in 1 .. k |-> i], cells |-> [i \in 1 .. k |-> n.cells[n.offsets[s + i]]]]
  BY <1>1, <1>2, <1>3 DEF upper
<1>10. \A i \in 1 .. k : i \in Nat /\ n.cells[n.offsets[s + i]] \in C
  <2>1. \A i \in 1 .. k : i \in Nat /\ s + i \in 1 .. L
    BY <1>2, <1>3
  <2> QED BY <1>4, <1>5, <2>1
<1>11. [i \in 1 .. k |-> i] \in Seq(Nat) /\ Len([i \in 1 .. k |-> i]) = k
  OBVIOUS
<1>12. /\ [i \in 1 .. k |-> n.cells[n.offsets[s + i]]] \in Seq(C)
       /\ Len([i \in 1 .. k |-> n.cells[n.offsets[s + i]]]) = k
  <2>1. \A f \in [1 .. k -> C] : f \in Seq(C) /\ Len(f) = k
    OBVIOUS
  <2>2. [i \in 1 .. k |-> n.cells[n.offsets[s + i]]] \in [1 .. k -> C]
    BY <1>10, Zenon
  <2> QED BY <2>1, <2>2, Zenon
<1>13. upper(n) \in NodeOf(C)
  BY <1>9, <1>11, <1>12 DEF NodeOf
<1> QED BY <1>1, <1>2, <1>3, <1>6, <1>7, <1>8, <1>9, <1>11, <1>12, <1>13

\* The keys, in order, of both halves.
LEMMA SplitKeys ==
    ASSUME NEW C, Keyed(C), NEW n \in NodeOf(C), Len(n.offsets) >= 2
    PROVE  /\ \A i \in 1 .. splitpt(n) : keyAt(lower(n), i) = keyAt(n, i)
           /\ \A i \in 1 .. Len(n.offsets) - splitpt(n) :
                 keyAt(upper(n), i) = keyAt(n, splitpt(n) + i)
<1>1. PICK L \in Nat : L = Len(n.offsets)
  BY KeyTypes
<1>2. PICK s \in 1 .. L - 1 : s = splitpt(n)
  BY <1>1, SplitFacts
<1>3. /\ lower(n).cells = n.cells
      /\ \A i \in 1 .. s : lower(n).offsets[i] = n.offsets[i]
  BY <1>1, <1>2, SplitFacts
<1>4. \A i \in 1 .. L - s :
         upper(n).offsets[i] = i /\ upper(n).cells[i] = n.cells[n.offsets[s + i]]
  BY <1>1, <1>2, SplitFacts
<1> QED BY <1>1, <1>2, <1>3, <1>4 DEF keyAt

\* Both halves of a sorted node are sorted.
LEMMA SplitSorted ==
    ASSUME NEW C, Keyed(C), NEW n \in NodeOf(C), Len(n.offsets) >= 2, Sorted(n)
    PROVE  Sorted(lower(n)) /\ Sorted(upper(n))
<1>1. PICK L \in Nat : L = Len(n.offsets)
  BY KeyTypes
<1>2. PICK s \in 1 .. L - 1 : s = splitpt(n)
  BY <1>1, SplitFacts
<1>3. DOMAIN lower(n).offsets = 1 .. s /\ DOMAIN upper(n).offsets = 1 .. L - s
  <2>1. /\ lower(n) \in NodeOf(C) /\ Len(lower(n).offsets) = s
        /\ upper(n) \in NodeOf(C) /\ Len(upper(n).offsets) = L - s
    BY <1>1, <1>2, SplitFacts
  <2> QED BY <2>1, KeyTypes
<1>4. /\ \A i \in 1 .. s : keyAt(lower(n), i) = keyAt(n, i)
      /\ \A i \in 1 .. L - s : keyAt(upper(n), i) = keyAt(n, s + i)
  BY <1>1, <1>2, SplitKeys
<1>5. \A i, j \in 1 .. L : i < j => keyAt(n, i) <= keyAt(n, j)
  BY <1>1, KeyTypes DEF Sorted
<1>6. Sorted(lower(n))
  BY <1>1, <1>2, <1>3, <1>4, <1>5 DEF Sorted
<1>7. Sorted(upper(n))
  <2>1. ASSUME NEW i \in 1 .. L - s, NEW j \in 1 .. L - s, i < j
        PROVE  keyAt(upper(n), i) <= keyAt(upper(n), j)
    <3>1. s + i \in 1 .. L /\ s + j \in 1 .. L /\ s + i < s + j
      BY <1>2, <2>1
    <3> QED BY <1>4, <1>5, <3>1
  <2> QED BY <1>3, <2>1 DEF Sorted
<1> QED BY <1>6, <1>7

\* The child for a key: the last separator that is not greater, if there is one.
LEMMA ChildFacts ==
    ASSUME NEW C, Keyed(C), NEW n \in NodeOf(C), Sorted(n), Len(n.offsets) >= 1, NEW key \in Int
    PROVE  /\ findChildPage(n, key) \in 1 .. Len(n.cells)
           /\ \/ /\ findChildPage(n, key) = 1
                 /\ \A j \in 1 .. Len(n.offsets) : key < keyAt(n, j)
              \/ \E i \in 1 .. Len(n.offsets) :
                    /\ findChildPage(n, key) = n.offsets[i] /\ keyAt(n, i) <= key
                    /\ \A j \in 1 .. Len(n.offsets) : i < j => key < keyAt(n, j)
<1>1. PICK L \in Nat, D \in Nat : L = Len(n.offsets) /\ D = Len(n.cells)
  BY KeyTypes
<1> DEFINE I == {i \in 1 .. L : keyAt(n, i) > key}
           g == IF I # {} THEN Min(I) ELSE 0
<1>2. findChildPage(n, key) = CASE g = 1 -> 1
                                [] g > 1 -> n.offsets[g - 1]
                                [] g = 0 -> Last(n.offsets)
  BY <1>1 DEF findChildPage, SelectInSeq, keyAt
<1>3. /\ \A j \in 1 .. L : keyAt(n, j) \in Int /\ n.offsets[j] \in 1 .. D
      /\ L >= 1
  BY <1>1, KeyTypes
<1>4. \A i, j \in 1 .. L : i < j => keyAt(n, i) <= keyAt(n, j)
  BY <1>1, KeyTypes DEF Sorted
<1>5. CASE I = {}
  <2>1. findChildPage(n, key) = n.offsets[L]
    BY <1>1, <1>2, <1>5 DEF Last
  <2>2. L \in 1 .. L /\ keyAt(n, L) <= key
    BY <1>3, <1>5
  <2> QED BY <1>1, <1>3, <2>1, <2>2
<1>6. CASE I # {}
  <2>1. I \in SUBSET Nat
    OBVIOUS
  <2>2. PICK k : k = Min(I) /\ k \in I /\ \A y \in I : k <= y
    <3> HIDE DEF I
    <3> QED BY <1>6, <2>1, MinFacts
  <2>3. g = k /\ k \in 1 .. L /\ keyAt(n, k) > key
    BY <1>6, <2>2
  <2>4. \A j \in 1 .. L : k <= j => key < keyAt(n, j)
    BY <1>3, <1>4, <2>3
  <2> HIDE DEF g
  <2>5. CASE k = 1
    <3>1. findChildPage(n, key) = 1
      BY <1>2, <2>3, <2>5
    <3>2. 1 \in 1 .. D
      BY <1>3
    <3> QED BY <1>1, <2>4, <2>5, <3>1, <3>2
  <2>6. CASE k > 1
    <3>1. k - 1 \in 1 .. L /\ k - 1 \notin I
      BY <2>2, <2>3, <2>6
    <3>2. findChildPage(n, key) = n.offsets[k - 1]
      BY <1>2, <2>3, <2>6
    <3>3. keyAt(n, k - 1) <= key
      BY <1>3, <3>1
    <3>4. \A j \in 1 .. L : k - 1 < j => key < keyAt(n, j)
      BY <2>3, <2>4
    <3> QED BY <1>1, <1>3, <3>1, <3>2, <3>3, <3>4
  <2> QED BY <2>3, <2>5, <2>6
<1> QED BY <1>5, <1>6

\* findLeafCell finds a cell with the key if there is one.
LEMMA CellFacts ==
    ASSUME NEW C, NEW n \in NodeOf(C), NEW key
    PROVE  \/ findLeafCell(n, key) = 0 /\ \A c \in 1 .. Len(n.cells) : n.cells[c].key # key
           \/ findLeafCell(n, key) \in 1 .. Len(n.cells) /\ n.cells[findLeafCell(n, key)].key = key
<1> DEFINE I == {i \in 1 .. Len(n.cells) : n.cells[i].key = key}
<1>1. findLeafCell(n, key) = IF I # {} THEN Min(I) ELSE 0
  BY DEF findLeafCell, SelectInSeq
<1>2. I \in SUBSET Nat
  BY LenProperties DEF NodeOf
<1>3. CASE I # {}
  <2>1. Min(I) \in I
    <3> HIDE DEF I
    <3> QED BY <1>2, <1>3, MinFacts
  <2> QED BY <1>1, <1>3, <2>1
<1>4. CASE I = {}
  BY <1>1, <1>4
<1> QED BY <1>3, <1>4

\* An update in place.
LEMMA UpdateFacts ==
    ASSUME NEW n \in NodeOf(LeafCell), NEW c \in 1 .. Len(n.cells), NEW val \in Value,
           NEW m, m = [n EXCEPT !.cells[c].val = val]
    PROVE  /\ m \in NodeOf(LeafCell) /\ m.offsets = n.offsets /\ Len(m.cells) = Len(n.cells)
           /\ m.cells[c].key = n.cells[c].key /\ m.cells[c].val = val
           /\ \A d \in 1 .. Len(n.cells) : d # c => m.cells[d] = n.cells[d]
<1> DEFINE cell == [n.cells[c] EXCEPT !.val = val]
<1>1. /\ n.offsets \in Seq(Nat) /\ n.cells \in Seq(LeafCell)
      /\ n = [offsets |-> n.offsets, cells |-> n.cells]
      /\ \A i \in 1 .. Len(n.offsets) : n.offsets[i] \in 1 .. Len(n.cells)
  BY DEF NodeOf
<1>2. n.cells[c] \in LeafCell
  BY <1>1, ElementOfSeq
<1>3. cell \in LeafCell /\ cell.key = n.cells[c].key /\ cell.val = val
  BY <1>2 DEF LeafCell
<1>4. m = [n EXCEPT !.cells = [n.cells EXCEPT ![c] = cell]]
  OBVIOUS
<1> HIDE DEF cell
<1>5. PICK d : d = [n.cells EXCEPT ![c] = cell]
  OBVIOUS
<1>6. /\ d \in Seq(LeafCell) /\ Len(d) = Len(n.cells)
      /\ \A j \in 1 .. Len(n.cells) : d[j] = IF j = c THEN cell ELSE n.cells[j]
  BY <1>1, <1>3, <1>5, ExceptSeq
<1>7. m = [offsets |-> n.offsets, cells |-> d]
  BY <1>1, <1>4, <1>5
<1>8. m \in NodeOf(LeafCell)
  <2>1. m.offsets = n.offsets /\ m.cells = d
    BY <1>7
  <2>2. m \in [offsets : Seq(Nat), cells : Seq(LeafCell)]
    <3>1. PICK o : o = n.offsets /\ o \in Seq(Nat)
      BY <1>1
    <3>2. m = [offsets |-> o, cells |-> d]
      BY <1>7, <3>1
    <3>3. \A x \in Seq(Nat), y \in Seq(LeafCell) :
             [offsets |-> x, cells |-> y] \in [offsets : Seq(Nat), cells : Seq(LeafCell)]
      OBVIOUS
    <3>4. d \in Seq(LeafCell)
      BY <1>6
    <3> QED BY <3>1, <3>2, <3>3, <3>4, Zenon
  <2>3. \A i \in 1 .. Len(m.offsets) : m.offsets[i] \in 1 .. Len(m.cells)
    BY <1>1, <1>6, <2>1
  <2> QED BY <2>2, <2>3 DEF NodeOf
<1> QED BY <1>3, <1>6, <1>7, <1>8
-----------------------------------------------------------------------------
(* The shape of the tree. *)

\* The page a root sends a key to.
route(r, key) == IF r = Empty THEN 1 ELSE r.cells[findChildPage(r, key)].page

\* Leaves that are not full and a root over them, each in order.
Tree(lf, rt) ==
    /\ lf \in Seq(NodeOf(LeafCell)) /\ Len(lf) > 0
    /\ \A p \in 1 .. Len(lf) : Len(lf[p].offsets) < maxLeafNodeCells /\ Sorted(lf[p])
    /\ rt \in NodeOf(RootCell) /\ Sorted(rt) /\ Len(rt.offsets) = Len(rt.cells)
    /\ rt # Empty => Len(rt.offsets) > 0
    /\ \A c \in 1 .. Len(rt.cells) : rt.cells[c].page \in 1 .. Len(lf)

Shape == Tree(leaf, root) /\ panicked \in BOOLEAN /\ stored \in [Key -> Value \cup {None}]

\* No two of a node's keys are the same.
Strict(n) == \A i, j \in 1 .. Len(n.offsets) : i < j => keyAt(n, i) < keyAt(n, j)

pageAt(n, i) == n.cells[n.offsets[i]].page

\* The separators of different pages, the first cell's below the others.
Separates(rt) ==
    rt # Empty =>
        /\ Strict(rt) /\ rt.offsets[1] = 1
        /\ \A i, j \in 1 .. Len(rt.offsets) : i # j => pageAt(rt, i) # pageAt(rt, j)

\* Every key listed in a leaf is routed to that leaf.
Routed(lf, rt) ==
    \A p \in 1 .. Len(lf) :
       Strict(lf[p]) /\ \A i \in 1 .. Len(lf[p].offsets) : route(rt, keyAt(lf[p], i)) = p

\* The cells of a key in a node are listed and have the key's value, if it has one.
Holds(n, key, v) ==
    /\ \A c \in 1 .. Len(n.cells) :
          n.cells[c].key = key => n.cells[c].val = v /\ \E i \in 1 .. Len(n.offsets) : n.offsets[i] = c
    /\ v # None => \E c \in 1 .. Len(n.cells) : n.cells[c].key = key

\* The leaf that a key is routed to holds it.
Live(lf, rt, st) == \A key \in Key : Holds(lf[route(rt, key)], key, st[key])

Lowest(rt, st) == rt # Empty => \A key \in Key : st[key] # None => key >= rt.cells[1].key

Good(lf, rt, st) == Lowest(rt, st) => Separates(rt) /\ Routed(lf, rt) /\ Live(lf, rt, st)

BTreeInv == Shape /\ Good(leaf, root, stored)

\* Keys are integers.
LEMMA CellKeys == Keyed(LeafCell) /\ Keyed(RootCell)
BY BTreeAssumption DEF Keyed, LeafCell, RootCell

\* The node without cells.
LEMMA EmptyNode ==
    ASSUME NEW C
    PROVE  Empty \in NodeOf(C) /\ Sorted(Empty) /\ Len(Empty.offsets) = 0 /\ Len(Empty.cells) = 0
<1>1. << >> \in Seq(Nat) /\ << >> \in Seq(C) /\ Len(<< >>) = 0 /\ DOMAIN << >> = {}
  OBVIOUS
<1> QED BY <1>1 DEF Empty, NodeOf, Sorted

\* A key is routed to a leaf.
LEMMA RouteInTree ==
    ASSUME NEW lf, NEW rt, Tree(lf, rt), NEW key \in Key
    PROVE  /\ route(rt, key) \in 1 .. Len(lf) /\ lf[route(rt, key)] \in NodeOf(LeafCell)
           /\ Len(lf) \in Nat
<1>1. Len(lf) \in Nat /\ \A p \in 1 .. Len(lf) : lf[p] \in NodeOf(LeafCell)
  BY LenProperties, ElementOfSeq DEF Tree
<1>2. CASE rt = Empty
  BY <1>1, <1>2 DEF Tree, route
<1>3. CASE rt # Empty
  <2>1. key \in Int
    BY BTreeAssumption
  <2>2. Len(rt.offsets) >= 1
    BY <1>3, CellKeys, KeyTypes DEF Tree
  <2>3. findChildPage(rt, key) \in 1 .. Len(rt.cells)
    BY <2>1, <2>2, CellKeys, ChildFacts DEF Tree
  <2> QED BY <1>1, <1>3, <2>3 DEF Tree, route
<1> QED BY <1>2, <1>3

\* An update changes no key.
LEMMA UpdateKeys ==
    ASSUME NEW n \in NodeOf(LeafCell), NEW c \in 1 .. Len(n.cells), NEW val \in Value,
           NEW m, m = [n EXCEPT !.cells[c].val = val]
    PROVE  /\ \A j \in 1 .. Len(n.offsets) : keyAt(m, j) = keyAt(n, j)
           /\ \A d \in 1 .. Len(n.cells) : m.cells[d].key = n.cells[d].key
           /\ Sorted(n) => Sorted(m)
<1>1. m.offsets = n.offsets /\ m.cells[c].key = n.cells[c].key
  BY UpdateFacts
<1>2. \A d \in 1 .. Len(n.cells) : d # c => m.cells[d] = n.cells[d]
  BY UpdateFacts
<1>3. \A d \in 1 .. Len(n.cells) : m.cells[d].key = n.cells[d].key
  BY <1>1, <1>2
<1>4. \A j \in 1 .. Len(n.offsets) : n.offsets[j] \in 1 .. Len(n.cells)
  BY CellKeys, KeyTypes
<1>5. \A j \in 1 .. Len(n.offsets) : keyAt(m, j) = keyAt(n, j)
  BY <1>1, <1>3, <1>4 DEF keyAt
<1>6. Sorted(n) => Sorted(m)
  <2>1. DOMAIN n.offsets = 1 .. Len(n.offsets)
    BY CellKeys, KeyTypes
  <2> QED BY <1>1, <1>5, <2>1 DEF Sorted
<1> QED BY <1>3, <1>5, <1>6

\* One leaf changed.
LEMMA LeafReplaced ==
    ASSUME NEW lf, NEW rt, Tree(lf, rt), NEW p \in 1 .. Len(lf), NEW m \in NodeOf(LeafCell),
           Len(m.offsets) < maxLeafNodeCells, Sorted(m), NEW l2, l2 = [lf EXCEPT ![p] = m]
    PROVE  /\ Tree(l2, rt) /\ Len(l2) = Len(lf)
           /\ \A q \in 1 .. Len(lf) : l2[q] = IF q = p THEN m ELSE lf[q]
<1>1. lf \in Seq(NodeOf(LeafCell))
  BY DEF Tree
<1>2. /\ l2 \in Seq(NodeOf(LeafCell)) /\ Len(l2) = Len(lf)
      /\ \A q \in 1 .. Len(lf) : l2[q] = IF q = p THEN m ELSE lf[q]
  BY <1>1, ExceptSeq
<1>3. \A q \in 1 .. Len(l2) : Len(l2[q].offsets) < maxLeafNodeCells /\ Sorted(l2[q])
  BY <1>2 DEF Tree
<1> QED BY <1>2, <1>3 DEF Tree

\* One leaf split into two, with a root over them.
LEMMA LeafSplit ==
    ASSUME NEW lf, NEW rt, Tree(lf, rt), NEW p \in 1 .. Len(lf), NEW n \in NodeOf(LeafCell), Sorted(n),
           Len(n.offsets) >= 2, Len(n.offsets) <= maxLeafNodeCells,
           NEW r2 \in NodeOf(RootCell), Sorted(r2), Len(r2.offsets) = Len(r2.cells), Len(r2.offsets) > 0,
           \A c \in 1 .. Len(r2.cells) : r2.cells[c].page \in 1 .. Len(lf) + 1,
           NEW l2, l2 = Append([lf EXCEPT ![p] = lower(n)], upper(n))
    PROVE  /\ Tree(l2, r2) /\ Len(l2) = Len(lf) + 1 /\ l2[Len(lf) + 1] = upper(n)
           /\ \A q \in 1 .. Len(lf) : l2[q] = IF q = p THEN lower(n) ELSE lf[q]
<1>1. lf \in Seq(NodeOf(LeafCell)) /\ Len(lf) \in Nat /\ maxLeafNodeCells \in Nat
  BY LenProperties, BTreeAssumption DEF Tree
<1>2. /\ splitpt(n) \in 1 .. Len(n.offsets) - 1 /\ lower(n) \in NodeOf(LeafCell)
      /\ Len(lower(n).offsets) = splitpt(n)
      /\ upper(n) \in NodeOf(LeafCell) /\ Len(upper(n).offsets) = Len(n.offsets) - splitpt(n)
  BY CellKeys, SplitFacts
<1>3. Sorted(lower(n)) /\ Sorted(upper(n))
  BY CellKeys, SplitSorted
<1>4. PICK lo, up : lo = lower(n) /\ up = upper(n)
  OBVIOUS
<1>5. Len(n.offsets) \in Nat
  BY CellKeys, KeyTypes
<1>6. Len(lo.offsets) < maxLeafNodeCells /\ Len(up.offsets) < maxLeafNodeCells
  BY <1>1, <1>2, <1>4, <1>5
<1>7. PICK l1 : l1 = [lf EXCEPT ![p] = lo]
  OBVIOUS
<1>8. /\ l1 \in Seq(NodeOf(LeafCell)) /\ Len(l1) = Len(lf)
      /\ \A q \in 1 .. Len(lf) : l1[q] = IF q = p THEN lo ELSE lf[q]
  BY <1>1, <1>2, <1>4, <1>7, ExceptSeq
<1>9. l2 = Append(l1, up)
  BY <1>4, <1>7
<1>10. /\ l2 \in Seq(NodeOf(LeafCell)) /\ Len(l2) = Len(lf) + 1 /\ l2[Len(lf) + 1] = up
       /\ \A q \in 1 .. Len(lf) : l2[q] = l1[q]
  <2>1. PICK S : S = NodeOf(LeafCell)
    OBVIOUS
  <2>2. l1 \in Seq(S) /\ up \in S
    BY <1>2, <1>4, <1>8, <2>1
  <2>3. l2 \in Seq(S) /\ Len(l2) = Len(l1) + 1 /\ l2[Len(l1) + 1] = up
    <3>1. l2 \in Seq(S)
      <4>1. \A x \in Seq(S), e \in S : Append(x, e) \in Seq(S)
        BY AppendProperties
      <4> QED BY <1>9, <2>2, <4>1, Zenon
    <3>2. Len(l2) = Len(l1) + 1
      <4>1. \A x \in Seq(S), e \in S : Len(Append(x, e)) = Len(x) + 1
        BY AppendProperties
      <4> QED BY <1>9, <2>2, <4>1, Zenon
    <3>3. l2[Len(l1) + 1] = up
      <4>1. \A x \in Seq(S), e \in S : Append(x, e)[Len(x) + 1] = e
        BY AppendProperties
      <4> QED BY <1>9, <2>2, <4>1, Zenon
    <3> QED BY <3>1, <3>2, <3>3
  <2>4. \A q \in 1 .. Len(l1) : l2[q] = l1[q]
    <3>1. \A x \in Seq(S), e \in S : \A q \in 1 .. Len(x) : Append(x, e)[q] = x[q]
      BY AppendProperties
    <3> QED BY <1>9, <2>2, <3>1, Zenon
  <2> QED BY <1>8, <2>1, <2>3, <2>4
<1>11. \A q \in 1 .. Len(lf) : l2[q] = IF q = p THEN lo ELSE lf[q]
  BY <1>8, <1>10
<1>12. \A q \in 1 .. Len(l2) : Len(l2[q].offsets) < maxLeafNodeCells /\ Sorted(l2[q])
  <2>1. \A q \in 1 .. Len(lf) + 1 : q = Len(lf) + 1 \/ q \in 1 .. Len(lf)
    BY <1>1
  <2>2. \A q \in 1 .. Len(lf) : Len(lf[q].offsets) < maxLeafNodeCells /\ Sorted(lf[q])
    BY DEF Tree
  <2> QED BY <1>3, <1>4, <1>6, <1>10, <1>11, <2>1, <2>2
<1>13. Len(l2) > 0
  BY <1>1, <1>10
<1>14. Tree(l2, r2)
  BY <1>10, <1>12, <1>13 DEF Tree
<1> QED BY <1>4, <1>10, <1>11, <1>14

\* As many offsets as cells: the cell appended is the cell inserted at the end.
LEMMA AppendedIsInserted ==
    ASSUME NEW C, Keyed(C), NEW n \in NodeOf(C), Len(n.offsets) = Len(n.cells), NEW cell \in C
    PROVE  appendCell(n, cell) = insertCell(n, Len(n.offsets) + 1, cell)
<1>1. PICK L \in Nat : L = Len(n.offsets) /\ L = Len(n.cells)
  BY KeyTypes
<1>2. PICK m : m = insertCell(n, L + 1, cell)
  OBVIOUS
<1>3. L + 1 \in 1 .. Len(n.offsets) + 1
  BY <1>1
<1>4. m \in NodeOf(C) /\ Len(m.offsets) = L + 1 /\ m.offsets[L + 1] = L + 1
  BY <1>1, <1>2, <1>3, InsertFacts
<1>5. \A j \in 1 .. L : m.offsets[j] = n.offsets[j]
  <2>1. \A j \in 1 .. Len(n.offsets) : j < L + 1 => m.offsets[j] = n.offsets[j]
    BY <1>2, <1>3, InsertFacts
  <2> QED BY <1>1, <2>1
<1>6. PICK o, t : o = n.offsets /\ t = m.offsets
  OBVIOUS
<1>7. o \in Seq(Nat) /\ t \in Seq(Nat)
  BY <1>4, <1>6 DEF NodeOf
<1>8. /\ Append(o, L + 1) \in Seq(Nat) /\ Len(Append(o, L + 1)) = L + 1
      /\ Append(o, L + 1)[L + 1] = L + 1 /\ \A j \in 1 .. L : Append(o, L + 1)[j] = o[j]
  BY <1>1, <1>6, <1>7, AppendProperties
<1>9. Append(o, L + 1) = t
  <2>1. PICK a : a = Append(o, L + 1)
    OBVIOUS
  <2>2. a \in Seq(Nat) /\ Len(a) = L + 1 /\ Len(t) = L + 1
    BY <1>4, <1>6, <1>8, <2>1
  <2>3. \A j \in 1 .. L + 1 : j = L + 1 \/ j \in 1 .. L
    OBVIOUS
  <2>4. \A j \in 1 .. L + 1 : a[j] = t[j]
    BY <1>4, <1>5, <1>6, <1>8, <2>1, <2>3
  <2> QED BY <1>7, <2>1, <2>2, <2>4, SeqEqual
<1>10. m = [offsets |-> m.offsets, cells |-> Append(n.cells, cell)]
  BY <1>2 DEF insertCell
<1> QED BY <1>1, <1>2, <1>6, <1>9, <1>10 DEF appendCell

\* The root after a separator was added.
LEMMA SeparatorAdded ==
    ASSUME NEW lf, NEW rt, Tree(lf, rt), NEW sep \in Key, NEW i, i = findInsPointForKey(rt, sep),
           NEW cell, cell = [key |-> sep, page |-> Len(lf) + 1],
           NEW r2, r2 = insertCell(rt, i, cell)
    PROVE  /\ i \in 1 .. Len(rt.offsets) + 1 /\ Ordered(rt, sep, i) /\ cell \in RootCell
           /\ r2 \in NodeOf(RootCell) /\ Sorted(r2) /\ Len(r2.offsets) = Len(r2.cells)
           /\ Len(r2.offsets) = Len(rt.offsets) + 1
           /\ \A c \in 1 .. Len(r2.cells) : r2.cells[c].page \in 1 .. Len(lf) + 1
<1>1. Len(lf) \in Nat /\ sep \in Int
  BY LenProperties, BTreeAssumption DEF Tree
<1>2. rt \in NodeOf(RootCell) /\ Sorted(rt) /\ Len(rt.offsets) = Len(rt.cells)
  BY DEF Tree
<1>3. i \in 1 .. Len(rt.offsets) + 1 /\ Ordered(rt, sep, i)
  BY <1>1, <1>2, CellKeys, SearchFacts
<1>4. cell \in RootCell /\ cell.key = sep /\ cell.page = Len(lf) + 1
  BY <1>1 DEF RootCell
<1>5. /\ r2 \in NodeOf(RootCell) /\ Len(r2.offsets) = Len(rt.offsets) + 1
      /\ Len(r2.cells) = Len(rt.cells) + 1 /\ r2.cells[Len(rt.cells) + 1] = cell
  BY <1>2, <1>3, <1>4, CellKeys, InsertFacts
<1>6. \A c \in 1 .. Len(rt.cells) : r2.cells[c] = rt.cells[c]
  BY <1>2, <1>3, <1>4, CellKeys, InsertFacts
<1>7. Sorted(r2)
  BY <1>2, <1>3, <1>4, CellKeys, InsertSorted
<1>8. \A c \in 1 .. Len(r2.cells) : r2.cells[c].page \in 1 .. Len(lf) + 1
  <2>1. Len(rt.cells) \in Nat
    BY <1>2, CellKeys, KeyTypes
  <2>2. \A c \in 1 .. Len(rt.cells) + 1 : c = Len(rt.cells) + 1 \/ c \in 1 .. Len(rt.cells)
    BY <2>1
  <2>3. \A x \in 1 .. Len(lf) : x \in 1 .. Len(lf) + 1
    BY <1>1
  <2>4. \A c \in 1 .. Len(rt.cells) : rt.cells[c].page \in 1 .. Len(lf)
    BY DEF Tree
  <2>5. Len(lf) + 1 \in 1 .. Len(lf) + 1
    BY <1>1
  <2> QED BY <1>4, <1>5, <1>6, <2>2, <2>3, <2>4, <2>5
<1> QED BY <1>2, <1>3, <1>4, <1>5, <1>7, <1>8

\* Appending to a sequence of one.
LEMMA Pairs ==
    Len(<<1>>) + 1 = 2 /\ \A a, b : Append(<<a>>, b) = <<a, b>>
<1>1. Len(<<1>>) + 1 = 2
  OBVIOUS
<1>2. ASSUME NEW a, NEW b PROVE Append(<<a>>, b) = <<a, b>>
  <2>1. PICK S : S = {a, b}
    OBVIOUS
  <2>2. PICK s, t : s = Append(<<a>>, b) /\ t = <<a, b>>
    OBVIOUS
  <2>3. <<a>> \in Seq(S) /\ Len(<<a>>) = 1 /\ <<a>>[1] = a
    BY <2>1
  <2>4. t \in Seq(S) /\ Len(t) = 2 /\ t[1] = a /\ t[2] = b
    BY <2>1, <2>2
  <2>5. s \in Seq(S) /\ Len(s) = 2
    BY <2>1, <2>2, <2>3, AppendProperties
  <2>6. s[1] = a /\ s[2] = b
    BY <2>2, <2>3
  <2>7. \A i \in 1 .. Len(s) : s[i] = t[i]
    BY <2>4, <2>5, <2>6
  <2> QED BY <2>2, <2>4, <2>5, <2>7, SeqEqual
<1> QED BY <1>1, <1>2

\* The root that the split of the first leaf makes.
LEMMA FirstRoot ==
    ASSUME NEW low \in Key, NEW sep \in Key, low <= sep, NEW p \in Nat, NEW q \in Nat,
           NEW r2, r2 = appendCell(appendCell(Empty, [key |-> low, page |-> p]), [key |-> sep, page |-> q])
    PROVE  /\ r2 \in NodeOf(RootCell) /\ Sorted(r2)
           /\ Len(r2.offsets) = 2 /\ Len(r2.cells) = 2
           /\ r2.offsets[1] = 1 /\ r2.offsets[2] = 2
           /\ r2.cells[1] = [key |-> low, page |-> p] /\ r2.cells[2] = [key |-> sep, page |-> q]
<1>1. PICK c1, c2 : c1 = [key |-> low, page |-> p] /\ c2 = [key |-> sep, page |-> q]
  OBVIOUS
<1>2. c1 \in RootCell /\ c2 \in RootCell /\ c1.key = low /\ c2.key = sep
  BY <1>1 DEF RootCell
<1>3. appendCell(Empty, c1) = [offsets |-> <<1>>, cells |-> <<c1>>]
  <2>1. Len(<< >>) + 1 = 1 /\ Append(<< >>, 1) = <<1>> /\ Append(<< >>, c1) = <<c1>>
    OBVIOUS
  <2> QED BY <2>1 DEF appendCell, Empty
<1>4. r2 = [offsets |-> <<1, 2>>, cells |-> <<c1, c2>>]
  <2>1. Len(<<1>>) + 1 = 2 /\ Append(<<1>>, 2) = <<1, 2>> /\ Append(<<c1>>, c2) = <<c1, c2>>
    BY Pairs
  <2>2. r2 = appendCell([offsets |-> <<1>>, cells |-> <<c1>>], c2)
    BY <1>1, <1>3
  <2> QED BY <2>1, <2>2 DEF appendCell
<1>5. PICK o, d : o = <<1, 2>> /\ d = <<c1, c2>> /\ r2.offsets = o /\ r2.cells = d
  BY <1>4
<1>6. /\ o \in Seq(Nat) /\ d \in Seq(RootCell) /\ Len(o) = 2 /\ Len(d) = 2
      /\ o[1] = 1 /\ o[2] = 2 /\ d[1] = c1 /\ d[2] = c2 /\ DOMAIN o = 1 .. 2
  BY <1>2, <1>5
<1>7. r2 \in NodeOf(RootCell)
  <2>1. r2 \in [offsets : Seq(Nat), cells : Seq(RootCell)]
    <3>1. \A x \in Seq(Nat), y \in Seq(RootCell) :
             [offsets |-> x, cells |-> y] \in [offsets : Seq(Nat), cells : Seq(RootCell)]
      OBVIOUS
    <3> QED BY <1>4, <1>5, <1>6, <3>1, Zenon
  <2>2. \A i \in 1 .. 2 : o[i] \in 1 .. 2
    BY <1>6
  <2> QED BY <1>5, <1>6, <2>1, <2>2 DEF NodeOf
<1>8. Sorted(r2)
  <2>1. keyAt(r2, 1) = low /\ keyAt(r2, 2) = sep
    BY <1>2, <1>5, <1>6 DEF keyAt
  <2>2. \A i, j \in 1 .. 2 : i < j => i = 1 /\ j = 2
    OBVIOUS
  <2> QED BY <1>5, <1>6, <2>1, <2>2 DEF Sorted
<1> QED BY <1>1, <1>5, <1>6, <1>7, <1>8

\* A leaf with a new cell.
LEMMA CellAdded ==
    ASSUME NEW lf, NEW rt, Tree(lf, rt), NEW key \in Key, NEW val \in Value,
           NEW p, p = route(rt, key), NEW n, n = lf[p], NEW i, i = findInsPointForKey(n, key),
           NEW cell, cell = [key |-> key, val |-> val], NEW new, new = insertCell(n, i, cell)
    PROVE  /\ p \in 1 .. Len(lf) /\ n \in NodeOf(LeafCell) /\ Sorted(n) /\ cell \in LeafCell
           /\ i \in 1 .. Len(n.offsets) + 1 /\ Ordered(n, key, i)
           /\ new \in NodeOf(LeafCell) /\ Sorted(new) /\ Len(new.offsets) = Len(n.offsets) + 1
           /\ Len(n.offsets) \in Nat /\ Len(new.offsets) <= maxLeafNodeCells
           /\ \A j \in 1 .. Len(new.offsets) : keyAt(new, j) \in Key
<1>1. p \in 1 .. Len(lf) /\ n \in NodeOf(LeafCell)
  BY RouteInTree
<1>2. Sorted(n) /\ Len(n.offsets) < maxLeafNodeCells
  BY <1>1 DEF Tree
<1>3. key \in Int /\ maxLeafNodeCells \in Nat
  BY BTreeAssumption
<1>4. i \in 1 .. Len(n.offsets) + 1 /\ Ordered(n, key, i)
  BY <1>1, <1>2, <1>3, CellKeys, SearchFacts
<1>5. cell \in LeafCell /\ cell.key = key
  BY DEF LeafCell
<1>6. new \in NodeOf(LeafCell) /\ Len(new.offsets) = Len(n.offsets) + 1
  BY <1>1, <1>4, <1>5, CellKeys, InsertFacts
<1>7. Sorted(new)
  BY <1>1, <1>2, <1>4, <1>5, CellKeys, InsertSorted
<1>8. Len(n.offsets) \in Nat
  BY <1>1, CellKeys, KeyTypes
<1>9. \A j \in 1 .. Len(new.offsets) : keyAt(new, j) \in Key
  <2>1. \A j \in 1 .. Len(new.offsets) : new.offsets[j] \in 1 .. Len(new.cells)
    BY <1>6, CellKeys, KeyTypes
  <2>2. \A c \in 1 .. Len(new.cells) : new.cells[c] \in LeafCell
    BY <1>6, CellKeys, KeyTypes
  <2> QED BY <2>1, <2>2 DEF keyAt, LeafCell
<1> QED BY <1>1, <1>2, <1>3, <1>4, <1>5, <1>6, <1>7, <1>8, <1>9

\* The root after a split of page p; the new page has the separator sep.
newRoot(rt, low, p, sep, page) ==
    IF rt = Empty
    THEN appendCell(appendCell(Empty, [key |-> low, page |-> p]), [key |-> sep, page |-> page])
    ELSE insertCell(rt, findInsPointForKey(rt, sep), [key |-> sep, page |-> page])

\* Both branches of addSeparator are insertions at the place of the search.
LEMMA SeparatorIsInserted ==
    ASSUME Tree(leaf, root), NEW sep \in Key
    PROVE  addSeparator(sep, Len(leaf) + 1)
             = insertCell(root, findInsPointForKey(root, sep), [key |-> sep, page |-> Len(leaf) + 1])
<1>1. PICK cell : cell = [key |-> sep, page |-> Len(leaf) + 1]
  OBVIOUS
<1>2. Len(leaf) + 1 \in Nat
  BY LenProperties DEF Tree
<1>3. cell \in RootCell
  BY <1>1, <1>2 DEF RootCell
<1>4. root \in NodeOf(RootCell) /\ Len(root.offsets) = Len(root.cells)
  BY DEF Tree
<1>5. appendCell(root, cell) = insertCell(root, Len(root.offsets) + 1, cell)
  BY <1>3, <1>4, CellKeys, AppendedIsInserted
<1> QED BY <1>1, <1>5 DEF addSeparator

\* The keys at the split, and the new root.
LEMMA SplitRoot ==
    ASSUME NEW lf, NEW rt, Tree(lf, rt), NEW p \in 1 .. Len(lf), NEW n \in NodeOf(LeafCell), Sorted(n),
           Len(n.offsets) >= 2, Len(n.offsets) <= maxLeafNodeCells,
           \A j \in 1 .. Len(n.offsets) : keyAt(n, j) \in Key,
           NEW low, low = keyAt(lower(n), 1), NEW sep, sep = keyAt(upper(n), 1),
           NEW r2, r2 = newRoot(rt, low, p, sep, Len(lf) + 1)
    PROVE  /\ splitpt(n) \in 1 .. Len(n.offsets) - 1
           /\ low = keyAt(n, 1) /\ sep = keyAt(n, splitpt(n) + 1) /\ low \in Key /\ sep \in Key
           /\ low <= sep
           /\ r2 \in NodeOf(RootCell) /\ Sorted(r2) /\ Len(r2.offsets) = Len(r2.cells)
           /\ Len(r2.offsets) > 0
           /\ \A c \in 1 .. Len(r2.cells) : r2.cells[c].page \in 1 .. Len(lf) + 1
<1>1. Len(n.offsets) \in Nat /\ Len(lf) \in Nat
  BY CellKeys, KeyTypes, LenProperties DEF Tree
<1>2. splitpt(n) \in 1 .. Len(n.offsets) - 1
  BY CellKeys, SplitFacts
<1>3. low = keyAt(n, 1)
  <2>1. 1 \in 1 .. splitpt(n)
    BY <1>1, <1>2
  <2> QED BY <2>1, CellKeys, SplitKeys
<1>4. sep = keyAt(n, splitpt(n) + 1)
  <2>1. 1 \in 1 .. Len(n.offsets) - splitpt(n)
    BY <1>1, <1>2
  <2> QED BY <2>1, CellKeys, SplitKeys
<1>5. 1 \in 1 .. Len(n.offsets) /\ splitpt(n) + 1 \in 1 .. Len(n.offsets) /\ 1 < splitpt(n) + 1
  BY <1>1, <1>2
<1>6. low \in Key /\ sep \in Key
  BY <1>3, <1>4, <1>5
<1>7. low <= sep
  <2>1. DOMAIN n.offsets = 1 .. Len(n.offsets)
    BY CellKeys, KeyTypes
  <2> QED BY <1>3, <1>4, <1>5, <2>1 DEF Sorted
<1>8. /\ r2 \in NodeOf(RootCell) /\ Sorted(r2) /\ Len(r2.offsets) = Len(r2.cells)
      /\ Len(r2.offsets) > 0
      /\ \A c \in 1 .. Len(r2.cells) : r2.cells[c].page \in 1 .. Len(lf) + 1
  <2>1. CASE rt = Empty
    <3>1. p \in Nat /\ Len(lf) + 1 \in Nat /\ p \in 1 .. Len(lf) + 1 /\ Len(lf) + 1 \in 1 .. Len(lf) + 1
      BY <1>1
    <3>2. r2 = appendCell(appendCell(Empty, [key |-> low, page |-> p]),
                          [key |-> sep, page |-> Len(lf) + 1])
      BY <2>1 DEF newRoot
    <3>3. r2 \in NodeOf(RootCell) /\ Sorted(r2) /\ Len(r2.offsets) = 2 /\ Len(r2.cells) = 2
      BY <1>6, <1>7, <3>1, <3>2, FirstRoot
    <3>4. r2.cells[1] = [key |-> low, page |-> p] /\ r2.cells[2] = [key |-> sep, page |-> Len(lf) + 1]
      BY <1>6, <1>7, <3>1, <3>2, FirstRoot
    <3>5. \A c \in 1 .. 2 : c = 1 \/ c = 2
      OBVIOUS
    <3>6. \A c \in 1 .. 2 : r2.cells[c].page \in 1 .. Len(lf) + 1
      <4>1. r2.cells[1].page = p /\ r2.cells[2].page = Len(lf) + 1
        BY <3>4
      <4>2. p \in 1 .. Len(lf) + 1 /\ Len(lf) + 1 \in 1 .. Len(lf) + 1
        BY <3>1
      <4> QED BY <3>5, <4>1, <4>2, Zenon
    <3>7. Len(r2.offsets) = Len(r2.cells) /\ Len(r2.offsets) > 0
      <4>1. Len(r2.offsets) = 2 /\ Len(r2.cells) = 2 /\ 2 > 0
        BY <3>3
      <4> QED BY <4>1, Zenon
    <3>8. \A c \in 1 .. Len(r2.cells) : r2.cells[c].page \in 1 .. Len(lf) + 1
      <4>1. Len(r2.cells) = 2
        BY <3>3
      <4> QED BY <3>6, <4>1, Zenon
    <3> QED BY <3>3, <3>7, <3>8, Zenon
  <2>2. CASE rt # Empty
    <3>1. PICK i, cell : i = findInsPointForKey(rt, sep) /\ cell = [key |-> sep, page |-> Len(lf) + 1]
      OBVIOUS
    <3>2. r2 = insertCell(rt, i, cell)
      BY <2>2, <3>1 DEF newRoot
    <3>3. /\ r2 \in NodeOf(RootCell) /\ Sorted(r2) /\ Len(r2.offsets) = Len(r2.cells)
          /\ Len(r2.offsets) = Len(rt.offsets) + 1
      BY <1>6, <3>1, <3>2, SeparatorAdded
    <3>4. \A c \in 1 .. Len(r2.cells) : r2.cells[c].page \in 1 .. Len(lf) + 1
      BY <1>6, <3>1, <3>2, SeparatorAdded
    <3>5. Len(rt.offsets) \in Nat
      BY CellKeys, KeyTypes DEF Tree
    <3>6. Len(r2.offsets) > 0
      BY <3>3, <3>5
    <3> QED BY <3>3, <3>4, <3>6
  <2> QED BY <2>1, <2>2
<1> QED BY <1>2, <1>3, <1>4, <1>6, <1>7, <1>8

\* The tree after a split.
LEMMA SplitTree ==
    ASSUME NEW lf, NEW rt, Tree(lf, rt), NEW p \in 1 .. Len(lf), NEW n \in NodeOf(LeafCell), Sorted(n),
           Len(n.offsets) >= 2, Len(n.offsets) <= maxLeafNodeCells,
           \A j \in 1 .. Len(n.offsets) : keyAt(n, j) \in Key,
           NEW low, low = keyAt(lower(n), 1), NEW sep, sep = keyAt(upper(n), 1),
           NEW l2, l2 = Append([lf EXCEPT ![p] = lower(n)], upper(n)),
           NEW r2, r2 = newRoot(rt, low, p, sep, Len(lf) + 1)
    PROVE  Tree(l2, r2)
<1>1. /\ r2 \in NodeOf(RootCell) /\ Sorted(r2) /\ Len(r2.offsets) = Len(r2.cells)
      /\ Len(r2.offsets) > 0
  BY SplitRoot
<1>2. \A c \in 1 .. Len(r2.cells) : r2.cells[c].page \in 1 .. Len(lf) + 1
  BY SplitRoot
<1> QED BY <1>1, <1>2, LeafSplit

\* And its leaves.
LEMMA SplitLeaves ==
    ASSUME NEW lf, NEW rt, Tree(lf, rt), NEW p \in 1 .. Len(lf), NEW n \in NodeOf(LeafCell), Sorted(n),
           Len(n.offsets) >= 2, Len(n.offsets) <= maxLeafNodeCells,
           \A j \in 1 .. Len(n.offsets) : keyAt(n, j) \in Key,
           NEW low, low = keyAt(lower(n), 1), NEW sep, sep = keyAt(upper(n), 1),
           NEW l2, l2 = Append([lf EXCEPT ![p] = lower(n)], upper(n)),
           NEW r2, r2 = newRoot(rt, low, p, sep, Len(lf) + 1)
    PROVE  /\ Len(l2) = Len(lf) + 1 /\ l2[Len(lf) + 1] = upper(n)
           /\ \A q \in 1 .. Len(lf) : l2[q] = IF q = p THEN lower(n) ELSE lf[q]
<1>1. /\ r2 \in NodeOf(RootCell) /\ Sorted(r2) /\ Len(r2.offsets) = Len(r2.cells)
      /\ Len(r2.offsets) > 0
  BY SplitRoot
<1>2. \A c \in 1 .. Len(r2.cells) : r2.cells[c].page \in 1 .. Len(lf) + 1
  BY SplitRoot
<1>3. Len(l2) = Len(lf) + 1 /\ l2[Len(lf) + 1] = upper(n)
  BY <1>1, <1>2, LeafSplit
<1>4. \A q \in 1 .. Len(lf) : l2[q] = IF q = p THEN lower(n) ELSE lf[q]
  BY <1>1, <1>2, LeafSplit
<1> QED BY <1>3, <1>4
-----------------------------------------------------------------------------
(* The steps of a put, on the leaves lf and the root rt. *)

Updates(lf, rt, key, val, l2, r2) ==
    LET p == route(rt, key)
        c == findLeafCell(lf[p], key)
    IN  c # 0 /\ l2 = [lf EXCEPT ![p] = [lf[p] EXCEPT !.cells[c].val = val]] /\ r2 = rt

withCell(lf, rt, key, val) ==
    LET n == lf[route(rt, key)]
    IN  insertCell(n, findInsPointForKey(n, key), [key |-> key, val |-> val])

Inserts(lf, rt, key, val, l2, r2) ==
    LET p == route(rt, key) IN
    /\ findLeafCell(lf[p], key) = 0 /\ ~leafFull(withCell(lf, rt, key, val))
    /\ l2 = [lf EXCEPT ![p] = withCell(lf, rt, key, val)] /\ r2 = rt

Splits(lf, rt, key, val, l2, r2) ==
    LET p == route(rt, key)
        n == withCell(lf, rt, key, val)
    IN
    /\ findLeafCell(lf[p], key) = 0 /\ leafFull(n)
    /\ l2 = Append([lf EXCEPT ![p] = lower(n)], upper(n))
    /\ r2 = newRoot(rt, keyAt(lower(n), 1), p, keyAt(upper(n), 1), Len(lf) + 1)

\* A put takes one of the three steps.
LEMMA PutSteps ==
    ASSUME Shape, NEW key \in Key, NEW val \in Value, Put(key, val)
    PROVE  /\ \/ Updates(leaf, root, key, val, leaf', root')
              \/ Inserts(leaf, root, key, val, leaf', root')
              \/ Splits(leaf, root, key, val, leaf', root')
           /\ panicked' \in BOOLEAN /\ stored' = [stored EXCEPT ![key] = val]
<1>1. child(key) = route(root, key)
  BY DEF child, route
<1>2. PICK p, n : p = route(root, key) /\ n = leaf[p]
  OBVIOUS
<1>3. PICK new : new = insertCell(n, findInsPointForKey(n, key), [key |-> key, val |-> val])
  OBVIOUS
<1>4. new = withCell(leaf, root, key, val)
  BY <1>2, <1>3 DEF withCell
<1>5. stored' = [stored EXCEPT ![key] = val]
  BY DEF Put
<1>6. \/ /\ findLeafCell(n, key) # 0
         /\ leaf' = [leaf EXCEPT ![p].cells[findLeafCell(n, key)].val = val]
         /\ root' = root /\ panicked' = panicked
      \/ /\ findLeafCell(n, key) = 0 /\ ~leafFull(new) /\ leaf' = [leaf EXCEPT ![p] = new]
         /\ root' = root /\ panicked' = panicked
      \/ /\ findLeafCell(n, key) = 0 /\ leafFull(new) /\ Split(p, new)
  BY <1>1, <1>2, <1>3 DEF Put
<1>7. CASE /\ findLeafCell(n, key) # 0
           /\ leaf' = [leaf EXCEPT ![p].cells[findLeafCell(n, key)].val = val]
           /\ root' = root /\ panicked' = panicked
  <2>1. leaf' = [leaf EXCEPT ![p] = [leaf[p] EXCEPT !.cells[findLeafCell(n, key)].val = val]]
    BY <1>7
  <2>2. Updates(leaf, root, key, val, leaf', root')
    BY <1>2, <1>7, <2>1 DEF Updates
  <2> QED BY <1>5, <1>7, <2>2 DEF Shape
<1>8. CASE /\ findLeafCell(n, key) = 0 /\ ~leafFull(new) /\ leaf' = [leaf EXCEPT ![p] = new]
           /\ root' = root /\ panicked' = panicked
  <2>1. Inserts(leaf, root, key, val, leaf', root')
    BY <1>2, <1>4, <1>8 DEF Inserts
  <2> QED BY <1>5, <1>8, <2>1 DEF Shape
<1>9. CASE findLeafCell(n, key) = 0 /\ leafFull(new) /\ Split(p, new)
  <2>1. PICK low, sep : low = keyAt(lower(new), 1) /\ sep = keyAt(upper(new), 1)
    OBVIOUS
  <2>2. /\ leaf' = Append([leaf EXCEPT ![p] = lower(new)], upper(new))
        /\ root' = IF root = Empty
                   THEN appendCell(appendCell(Empty, [key |-> low, page |-> p]),
                                   [key |-> sep, page |-> Len(leaf) + 1])
                   ELSE addSeparator(sep, Len(leaf) + 1)
        /\ panicked' \in BOOLEAN
    BY <1>9, <2>1 DEF Split, internalFull
  <2>3. sep \in Key
    <3>1. Tree(leaf, root)
      BY DEF Shape
    <3>2. PICK i, cell : i = findInsPointForKey(n, key) /\ cell = [key |-> key, val |-> val]
      OBVIOUS
    <3>3. new = insertCell(n, i, cell)
      BY <1>3, <3>2
    <3>4. /\ p \in 1 .. Len(leaf) /\ new \in NodeOf(LeafCell) /\ Len(new.offsets) \in Nat
      BY <1>2, <3>1, <3>2, <3>3, CellAdded, CellKeys, KeyTypes
    <3>5. \A j \in 1 .. Len(new.offsets) : keyAt(new, j) \in Key
      BY <1>2, <3>1, <3>2, <3>3, CellAdded
    <3>6. Len(new.offsets) >= 2
      BY <1>9, <3>4, BTreeAssumption DEF leafFull
    <3>7. splitpt(new) \in 1 .. Len(new.offsets) - 1
      BY <3>4, <3>6, CellKeys, SplitFacts
    <3>8. 1 \in 1 .. Len(new.offsets) - splitpt(new) /\ splitpt(new) + 1 \in 1 .. Len(new.offsets)
      BY <3>4, <3>7
    <3>9. keyAt(upper(new), 1) = keyAt(new, splitpt(new) + 1)
      BY <3>4, <3>6, <3>8, CellKeys, SplitKeys
    <3> QED BY <2>1, <3>5, <3>8, <3>9
  <2>4. root' = newRoot(root, low, p, sep, Len(leaf) + 1)
    BY <2>2, <2>3, SeparatorIsInserted DEF newRoot, Shape
  <2>5. Splits(leaf, root, key, val, leaf', root')
    BY <1>2, <1>4, <1>9, <2>1, <2>2, <2>4 DEF Splits
  <2> QED BY <1>5, <2>2, <2>5
<1> QED BY <1>6, <1>7, <1>8, <1>9

\* What each step leaves of the leaves.
LEMMA UpdateStep ==
    ASSUME NEW lf, NEW rt, Tree(lf, rt), NEW key \in Key, NEW val \in Value,
           NEW l2, NEW r2, Updates(lf, rt, key, val, l2, r2),
           NEW p, p = route(rt, key), NEW n, n = lf[p], NEW c, c = findLeafCell(n, key),
           NEW m, m = [n EXCEPT !.cells[c].val = val]
    PROVE  /\ Tree(l2, r2) /\ r2 = rt /\ Len(l2) = Len(lf) /\ p \in 1 .. Len(lf)
           /\ n \in NodeOf(LeafCell) /\ c \in 1 .. Len(n.cells) /\ n.cells[c].key = key
           /\ \A q \in 1 .. Len(lf) : l2[q] = IF q = p THEN m ELSE lf[q]
<1>1. p \in 1 .. Len(lf) /\ n \in NodeOf(LeafCell)
  BY RouteInTree
<1>2. c # 0 /\ r2 = rt /\ l2 = [lf EXCEPT ![p] = m]
  BY DEF Updates
<1>3. c \in 1 .. Len(n.cells) /\ n.cells[c].key = key
  BY <1>1, <1>2, CellFacts
<1>4. Sorted(n) /\ Len(n.offsets) < maxLeafNodeCells
  BY <1>1 DEF Tree
<1>5. m \in NodeOf(LeafCell) /\ m.offsets = n.offsets
  BY <1>1, <1>3, UpdateFacts
<1>6. Sorted(m)
  BY <1>1, <1>3, <1>4, UpdateKeys
<1>7. Tree(l2, rt) /\ Len(l2) = Len(lf)
  <2>1. Tree(l2, rt)
    BY <1>1, <1>2, <1>4, <1>5, <1>6, LeafReplaced
  <2>2. Len(l2) = Len(lf)
    BY <1>1, <1>2, <1>4, <1>5, <1>6, LeafReplaced
  <2> QED BY <2>1, <2>2
<1>8. \A q \in 1 .. Len(lf) : l2[q] = IF q = p THEN m ELSE lf[q]
  BY <1>1, <1>2, <1>4, <1>5, <1>6, LeafReplaced
<1> QED BY <1>1, <1>2, <1>3, <1>7, <1>8

\* And after an insertion.
LEMMA InsertStep ==
    ASSUME NEW lf, NEW rt, Tree(lf, rt), NEW key \in Key, NEW val \in Value,
           NEW l2, NEW r2, Inserts(lf, rt, key, val, l2, r2),
           NEW p, p = route(rt, key), NEW m, m = withCell(lf, rt, key, val)
    PROVE  /\ Tree(l2, r2) /\ r2 = rt /\ Len(l2) = Len(lf) /\ p \in 1 .. Len(lf)
           /\ \A q \in 1 .. Len(lf) : l2[q] = IF q = p THEN m ELSE lf[q]
<1>1. PICK n : n = lf[p]
  OBVIOUS
<1>2. PICK i, cell : i = findInsPointForKey(n, key) /\ cell = [key |-> key, val |-> val]
  OBVIOUS
<1>3. m = insertCell(n, i, cell)
  BY <1>1, <1>2 DEF withCell
<1>4. p \in 1 .. Len(lf) /\ m \in NodeOf(LeafCell) /\ Sorted(m)
  BY <1>1, <1>2, <1>3, CellAdded
<1>5. ~leafFull(m) /\ r2 = rt /\ l2 = [lf EXCEPT ![p] = m]
  BY DEF Inserts
<1>6. Len(m.offsets) < maxLeafNodeCells
  BY <1>4, <1>5, CellKeys, KeyTypes, BTreeAssumption DEF leafFull
<1>7. Tree(l2, rt) /\ Len(l2) = Len(lf)
  <2>1. Tree(l2, rt)
    BY <1>4, <1>5, <1>6, LeafReplaced
  <2>2. Len(l2) = Len(lf)
    BY <1>4, <1>5, <1>6, LeafReplaced
  <2> QED BY <2>1, <2>2
<1>8. \A q \in 1 .. Len(lf) : l2[q] = IF q = p THEN m ELSE lf[q]
  BY <1>4, <1>5, <1>6, LeafReplaced
<1> QED BY <1>4, <1>5, <1>7, <1>8

\* And after a split.
LEMMA SplitStep ==
    ASSUME NEW lf, NEW rt, Tree(lf, rt), NEW key \in Key, NEW val \in Value,
           NEW l2, NEW r2, Splits(lf, rt, key, val, l2, r2),
           NEW p, p = route(rt, key), NEW m, m = withCell(lf, rt, key, val),
           NEW low, low = keyAt(lower(m), 1), NEW sep, sep = keyAt(upper(m), 1)
    PROVE  /\ Tree(l2, r2) /\ Len(l2) = Len(lf) + 1 /\ l2[Len(lf) + 1] = upper(m)
           /\ p \in 1 .. Len(lf) /\ m \in NodeOf(LeafCell) /\ Sorted(m) /\ Len(m.offsets) >= 2
           /\ r2 = newRoot(rt, low, p, sep, Len(lf) + 1)
           /\ splitpt(m) \in 1 .. Len(m.offsets) - 1
           /\ low = keyAt(m, 1) /\ sep = keyAt(m, splitpt(m) + 1) /\ low \in Key /\ sep \in Key
           /\ low <= sep
           /\ \A q \in 1 .. Len(lf) : l2[q] = IF q = p THEN lower(m) ELSE lf[q]
<1>1. PICK n : n = lf[p]
  OBVIOUS
<1>2. PICK i, cell : i = findInsPointForKey(n, key) /\ cell = [key |-> key, val |-> val]
  OBVIOUS
<1>3. m = insertCell(n, i, cell)
  BY <1>1, <1>2 DEF withCell
<1>4. p \in 1 .. Len(lf) /\ m \in NodeOf(LeafCell) /\ Sorted(m) /\ Len(m.offsets) <= maxLeafNodeCells
  BY <1>1, <1>2, <1>3, CellAdded
<1>5. \A j \in 1 .. Len(m.offsets) : keyAt(m, j) \in Key
  BY <1>1, <1>2, <1>3, CellAdded
<1>6. /\ leafFull(m) /\ l2 = Append([lf EXCEPT ![p] = lower(m)], upper(m))
      /\ r2 = newRoot(rt, low, p, sep, Len(lf) + 1)
  BY DEF Splits
<1>7. Len(m.offsets) >= 2
  BY <1>4, <1>6, CellKeys, KeyTypes, BTreeAssumption DEF leafFull
<1>8. /\ splitpt(m) \in 1 .. Len(m.offsets) - 1
      /\ low = keyAt(m, 1) /\ sep = keyAt(m, splitpt(m) + 1) /\ low \in Key /\ sep \in Key
      /\ low <= sep
  BY <1>4, <1>5, <1>6, <1>7, SplitRoot
<1>9. Tree(l2, r2) /\ Len(l2) = Len(lf) + 1 /\ l2[Len(lf) + 1] = upper(m)
  <2>1. Tree(l2, r2)
    BY <1>4, <1>5, <1>6, <1>7, SplitTree
  <2>2. Len(l2) = Len(lf) + 1 /\ l2[Len(lf) + 1] = upper(m)
    BY <1>4, <1>5, <1>6, <1>7, SplitLeaves
  <2> QED BY <2>1, <2>2
<1>10. \A q \in 1 .. Len(lf) : l2[q] = IF q = p THEN lower(m) ELSE lf[q]
  BY <1>4, <1>5, <1>6, <1>7, SplitLeaves
<1> QED BY <1>4, <1>6, <1>7, <1>8, <1>9, <1>10

\* Shape holds at first,
LEMMA InitShape == Init => Shape
<1> SUFFICES ASSUME Init PROVE Shape
  OBVIOUS
<1>1. Empty \in NodeOf(LeafCell) /\ Empty \in NodeOf(RootCell) /\ Sorted(Empty)
  BY EmptyNode
<1>2. Len(Empty.offsets) = 0 /\ Len(Empty.cells) = 0
  BY EmptyNode
<1>3. leaf = <<Empty>> /\ root = Empty
  BY DEF Init
<1>4. /\ leaf \in Seq(NodeOf(LeafCell)) /\ Len(leaf) = 1 /\ leaf[1] = Empty
  BY <1>1, <1>3
<1>5. \A p \in 1 .. Len(leaf) : leaf[p] = Empty
  BY <1>4
<1>6. Tree(leaf, root)
  BY <1>1, <1>2, <1>3, <1>4, <1>5, BTreeAssumption DEF Tree
<1> QED BY <1>6 DEF Init, Shape

\* every put keeps it,
LEMMA ShapeStep == Shape /\ [Next]_vars => Shape'
<1> SUFFICES ASSUME Shape, [Next]_vars PROVE Shape'
  OBVIOUS
<1>1. CASE UNCHANGED vars
  BY <1>1 DEF Shape, Tree, vars
<1>2. ASSUME NEW key \in Key, NEW val \in Value, Put(key, val) PROVE Shape'
  <2>1. PICK lf, rt, l2, r2 : lf = leaf /\ rt = root /\ l2 = leaf' /\ r2 = root'
    OBVIOUS
  <2>2. Tree(lf, rt)
    BY <2>1 DEF Shape
  <2>3. \/ Updates(lf, rt, key, val, l2, r2) \/ Inserts(lf, rt, key, val, l2, r2)
        \/ Splits(lf, rt, key, val, l2, r2)
    BY <1>2, <2>1, PutSteps
  <2>4. Tree(l2, r2)
    <3>1. CASE Updates(lf, rt, key, val, l2, r2)
      <4>1. PICK p, n : p = route(rt, key) /\ n = lf[p]
        OBVIOUS
      <4>2. PICK c, m : c = findLeafCell(n, key) /\ m = [n EXCEPT !.cells[c].val = val]
        OBVIOUS
      <4> QED BY <2>2, <3>1, <4>1, <4>2, UpdateStep
    <3>2. CASE Inserts(lf, rt, key, val, l2, r2)
      <4>1. PICK p, m : p = route(rt, key) /\ m = withCell(lf, rt, key, val)
        OBVIOUS
      <4> QED BY <2>2, <3>2, <4>1, InsertStep
    <3>3. CASE Splits(lf, rt, key, val, l2, r2)
      <4>1. PICK p, m : p = route(rt, key) /\ m = withCell(lf, rt, key, val)
        OBVIOUS
      <4>2. PICK low, sep : low = keyAt(lower(m), 1) /\ sep = keyAt(upper(m), 1)
        OBVIOUS
      <4> QED BY <2>2, <3>3, <4>1, <4>2, SplitStep
    <3> QED BY <2>3, <3>1, <3>2, <3>3
  <2>5. Tree(leaf, root)'
    BY <2>1, <2>4 DEF Tree
  <2>6. panicked' \in BOOLEAN /\ stored' \in [Key -> Value \cup {None}]
    BY <1>2, PutSteps DEF Shape
  <2> QED BY <2>5, <2>6 DEF Shape
<1> QED BY <1>1, <1>2 DEF Next

\* and it implies both invariants.
LEMMA ShapeImplies == Shape => TypeOK /\ OffsetsSorted
<1> SUFFICES ASSUME Shape PROVE TypeOK /\ OffsetsSorted
  OBVIOUS
<1>1. DOMAIN leaf = 1 .. Len(leaf) /\ \A p \in 1 .. Len(leaf) : leaf[p] \in NodeOf(LeafCell)
  BY LenProperties, ElementOfSeq DEF Shape, Tree
<1>2. \A p \in 1 .. Len(leaf) : Len(leaf[p].offsets) < maxLeafNodeCells /\ Sorted(leaf[p])
  BY DEF Shape, Tree
<1>3. ASSUME NEW p \in DOMAIN leaf
      PROVE  /\ Len(leaf[p].offsets) \in 0 .. maxLeafNodeCells - 1
             /\ ToSet(leaf[p].offsets) \subseteq DOMAIN leaf[p].cells
  <2>1. PICK n \in NodeOf(LeafCell) : n = leaf[p]
    BY <1>1, <1>3
  <2>2. /\ Len(n.offsets) \in Nat /\ DOMAIN n.offsets = 1 .. Len(n.offsets)
        /\ DOMAIN n.cells = 1 .. Len(n.cells)
        /\ \A i \in 1 .. Len(n.offsets) : n.offsets[i] \in 1 .. Len(n.cells)
    BY CellKeys, KeyTypes
  <2>3. Len(n.offsets) \in 0 .. maxLeafNodeCells - 1
    BY <1>1, <1>2, <1>3, <2>1, <2>2, BTreeAssumption
  <2>4. ToSet(n.offsets) \subseteq DOMAIN n.cells
    BY <2>2 DEF ToSet
  <2> QED BY <2>1, <2>3, <2>4
<1>4. DOMAIN root.cells = 1 .. Len(root.cells)
  BY CellKeys, KeyTypes DEF Shape, Tree
<1>5. {root.cells[c].page : c \in DOMAIN root.cells} \subseteq DOMAIN leaf
  BY <1>1, <1>4 DEF Shape, Tree
<1>6. TypeOK
  BY <1>3, <1>5 DEF TypeOK, Shape
<1>7. OffsetsSorted
  BY <1>1, <1>2 DEF OffsetsSorted, Shape, Tree
<1> QED BY <1>6, <1>7

\* The leaves are never full, and every offset and every page is that of a cell
\* and of a leaf (insertLeaf splits a leaf as soon as it is full).
THEOREM TypeCorrect == Spec => []TypeOK
BY InitShape, ShapeStep, ShapeImplies, PTL DEF Spec

\* The offsets of every leaf and of the root list the keys in order, after any
\* puts and splits: what findInsPointForKey and findChildPage rest on.
THEOREM OffsetsStaySorted == Spec => []OffsetsSorted
BY InitShape, ShapeStep, ShapeImplies, PTL DEF Spec
-----------------------------------------------------------------------------
(* Routing. *)

\* The page for a key: the last separator that is not greater, or the first cell.
LEMMA RouteCases ==
    ASSUME NEW rt \in NodeOf(RootCell), Sorted(rt), rt # Empty, Len(rt.offsets) > 0, NEW key \in Int
    PROVE  \/ /\ route(rt, key) = rt.cells[1].page
              /\ \A j \in 1 .. Len(rt.offsets) : key < keyAt(rt, j)
           \/ \E i \in 1 .. Len(rt.offsets) :
                 /\ route(rt, key) = pageAt(rt, i) /\ keyAt(rt, i) <= key
                 /\ \A j \in 1 .. Len(rt.offsets) : i < j => key < keyAt(rt, j)
<1>1. route(rt, key) = rt.cells[findChildPage(rt, key)].page
  BY DEF route
<1>2. Len(rt.offsets) >= 1
  BY CellKeys, KeyTypes
<1>3. \/ /\ findChildPage(rt, key) = 1
         /\ \A j \in 1 .. Len(rt.offsets) : key < keyAt(rt, j)
      \/ \E i \in 1 .. Len(rt.offsets) :
            /\ findChildPage(rt, key) = rt.offsets[i] /\ keyAt(rt, i) <= key
            /\ \A j \in 1 .. Len(rt.offsets) : i < j => key < keyAt(rt, j)
  BY <1>2, CellKeys, ChildFacts
<1>4. CASE findChildPage(rt, key) = 1 /\ \A j \in 1 .. Len(rt.offsets) : key < keyAt(rt, j)
  BY <1>1, <1>4
<1>5. CASE \E i \in 1 .. Len(rt.offsets) :
              /\ findChildPage(rt, key) = rt.offsets[i] /\ keyAt(rt, i) <= key
              /\ \A j \in 1 .. Len(rt.offsets) : i < j => key < keyAt(rt, j)
  BY <1>1, <1>5 DEF pageAt
<1> QED BY <1>3, <1>4, <1>5

\* A separator that is the last one not greater decides.
LEMMA RouteAt ==
    ASSUME NEW rt \in NodeOf(RootCell), Sorted(rt), rt # Empty, NEW key \in Int,
           NEW i \in 1 .. Len(rt.offsets), keyAt(rt, i) <= key,
           \A j \in 1 .. Len(rt.offsets) : i < j => key < keyAt(rt, j)
    PROVE  route(rt, key) = pageAt(rt, i)
<1>1. PICK L \in Nat : L = Len(rt.offsets) /\ L > 0
  BY CellKeys, KeyTypes
<1>2. \A j \in 1 .. L : keyAt(rt, j) \in Int
  BY <1>1, CellKeys, KeyTypes
<1>3. \/ \A j \in 1 .. L : key < keyAt(rt, j)
      \/ \E k \in 1 .. L : /\ route(rt, key) = pageAt(rt, k) /\ keyAt(rt, k) <= key
                           /\ \A j \in 1 .. L : k < j => key < keyAt(rt, j)
  BY <1>1, RouteCases
<1>4. i \in 1 .. L /\ ~(key < keyAt(rt, i))
  BY <1>1, <1>2
<1>5. PICK k \in 1 .. L : /\ route(rt, key) = pageAt(rt, k) /\ keyAt(rt, k) <= key
                          /\ \A j \in 1 .. L : k < j => key < keyAt(rt, j)
  BY <1>3, <1>4
<1>6. ~(k < i)
  BY <1>4, <1>5
<1>7. ~(i < k)
  BY <1>1, <1>2, <1>5
<1>8. k = i
  BY <1>4, <1>6, <1>7
<1> QED BY <1>5, <1>8

\* A key below all separators goes to the first cell.
LEMMA RouteBelow ==
    ASSUME NEW rt \in NodeOf(RootCell), Sorted(rt), rt # Empty, Len(rt.offsets) > 0, NEW key \in Int,
           \A j \in 1 .. Len(rt.offsets) : key < keyAt(rt, j)
    PROVE  route(rt, key) = rt.cells[1].page
<1>1. \A j \in 1 .. Len(rt.offsets) : keyAt(rt, j) \in Int
  BY CellKeys, KeyTypes
<1>2. \A i \in 1 .. Len(rt.offsets) : ~(keyAt(rt, i) <= key)
  BY <1>1
<1> QED BY <1>2, RouteCases

\* The split of the first leaf: keys from the separator on go to the new page.
LEMMA FirstRootRoutes ==
    ASSUME NEW low \in Key, NEW sep \in Key, low < sep, NEW page \in Nat, page # 1,
           NEW r2, r2 = newRoot(Empty, low, 1, sep, page), NEW key \in Key
    PROVE  Separates(r2) /\ route(r2, key) = IF key >= sep THEN page ELSE 1
<1>1. low \in Int /\ sep \in Int /\ key \in Int /\ low <= sep
  BY BTreeAssumption
<1>2. r2 = appendCell(appendCell(Empty, [key |-> low, page |-> 1]), [key |-> sep, page |-> page])
  BY DEF newRoot
<1>3. /\ r2 \in NodeOf(RootCell) /\ Sorted(r2) /\ Len(r2.offsets) = 2 /\ Len(r2.cells) = 2
      /\ r2.offsets[1] = 1 /\ r2.offsets[2] = 2
  BY <1>1, <1>2, FirstRoot
<1>4. r2.cells[1] = [key |-> low, page |-> 1] /\ r2.cells[2] = [key |-> sep, page |-> page]
  BY <1>1, <1>2, FirstRoot
<1>5. /\ keyAt(r2, 1) = low /\ keyAt(r2, 2) = sep /\ pageAt(r2, 1) = 1 /\ pageAt(r2, 2) = page
      /\ r2.cells[1].page = 1
  BY <1>3, <1>4 DEF keyAt, pageAt
<1>6. r2 # Empty
  BY <1>3, EmptyNode
<1>7. \A i \in 1 .. 2 : i = 1 \/ i = 2
  OBVIOUS
<1>8. Separates(r2)
  <2>1. \A i, j \in 1 .. 2 : i < j => i = 1 /\ j = 2
    OBVIOUS
  <2>2. Strict(r2)
    BY <1>3, <1>5, <2>1 DEF Strict
  <2>3. \A i, j \in 1 .. 2 : i # j => pageAt(r2, i) # pageAt(r2, j)
    BY <1>5, <1>7
  <2> QED BY <1>3, <2>2, <2>3 DEF Separates
<1>9. \/ /\ route(r2, key) = 1 /\ \A j \in 1 .. 2 : key < keyAt(r2, j)
      \/ \E i \in 1 .. 2 : /\ route(r2, key) = pageAt(r2, i) /\ keyAt(r2, i) <= key
                           /\ \A j \in 1 .. 2 : i < j => key < keyAt(r2, j)
  <2>1. Len(r2.offsets) > 0
    BY <1>3
  <2>2. \/ /\ route(r2, key) = r2.cells[1].page
           /\ \A j \in 1 .. Len(r2.offsets) : key < keyAt(r2, j)
        \/ \E i \in 1 .. Len(r2.offsets) :
              /\ route(r2, key) = pageAt(r2, i) /\ keyAt(r2, i) <= key
              /\ \A j \in 1 .. Len(r2.offsets) : i < j => key < keyAt(r2, j)
    BY <1>1, <1>3, <1>6, <2>1, RouteCases
  <2>3. Len(r2.offsets) = 2 /\ r2.cells[1].page = 1
    BY <1>3, <1>5
  <2> QED BY <2>2, <2>3, Zenon
<1>10. CASE route(r2, key) = 1 /\ \A j \in 1 .. 2 : key < keyAt(r2, j)
  <2>1. key < sep
    BY <1>5, <1>10
  <2> QED BY <1>1, <1>8, <1>10, <2>1
<1>11. ASSUME NEW i \in 1 .. 2, route(r2, key) = pageAt(r2, i), keyAt(r2, i) <= key,
              \A j \in 1 .. 2 : i < j => key < keyAt(r2, j)
       PROVE  route(r2, key) = IF key >= sep THEN page ELSE 1
  <2>1. CASE i = 1
    <3>1. key < sep
      BY <1>5, <1>11, <2>1
    <3> QED BY <1>1, <1>5, <1>11, <2>1, <3>1
  <2>2. CASE i = 2
    BY <1>1, <1>5, <1>11, <2>2
  <2> QED BY <1>7, <2>1, <2>2
<1> QED BY <1>8, <1>9, <1>10, <1>11

\* A root after an insertion.
LEMMA RootInserted ==
    ASSUME NEW rt \in NodeOf(RootCell), NEW i \in 1 .. Len(rt.offsets) + 1, NEW cell \in RootCell,
           NEW r2, r2 = insertCell(rt, i, cell)
    PROVE  /\ r2 \in NodeOf(RootCell) /\ Len(r2.offsets) = Len(rt.offsets) + 1
           /\ r2.cells[Len(rt.cells) + 1] = cell /\ r2.offsets[i] = Len(rt.cells) + 1
           /\ \A c \in 1 .. Len(rt.cells) : r2.cells[c] = rt.cells[c]
           /\ \A j \in 1 .. Len(rt.offsets) : j < i => r2.offsets[j] = rt.offsets[j]
           /\ \A j \in 1 .. Len(rt.offsets) : i <= j => r2.offsets[j + 1] = rt.offsets[j]
BY CellKeys, InsertFacts

\* The split of a later leaf p, whose first key is low: of the keys that were
\* routed to p those from the separator on go to the new page.
LEMMA SeparatorRoutes ==
    ASSUME NEW lf, NEW rt, Tree(lf, rt), rt # Empty, Separates(rt),
           NEW low \in Key, NEW sep \in Key, low < sep, rt.cells[1].key <= low,
           NEW p, route(rt, low) = p, route(rt, sep) = p,
           NEW page, page = Len(lf) + 1, NEW r2, r2 = newRoot(rt, low, p, sep, page)
    PROVE  /\ Separates(r2) /\ r2 # Empty /\ r2.cells[1] = rt.cells[1]
           /\ \A key \in Key :
                 route(r2, key) = IF key >= sep /\ route(rt, key) = p THEN page ELSE route(rt, key)
<1>1. low \in Int /\ sep \in Int /\ Len(lf) \in Nat /\ page \in Nat /\ \A key \in Key : key \in Int
  BY BTreeAssumption, LenProperties DEF Tree
<1>2. rt \in NodeOf(RootCell) /\ Sorted(rt) /\ Len(rt.offsets) = Len(rt.cells) /\ Len(rt.offsets) > 0
  BY DEF Tree
<1>3. PICK L \in Nat : L = Len(rt.offsets) /\ L = Len(rt.cells) /\ L > 0
  BY <1>2, CellKeys, KeyTypes
<1>4. /\ \A j \in 1 .. L : keyAt(rt, j) \in Int /\ rt.offsets[j] \in 1 .. L
      /\ \A j, k \in 1 .. L : j < k => keyAt(rt, j) < keyAt(rt, k)
  <2>1. \A j \in 1 .. L : keyAt(rt, j) \in Int /\ rt.offsets[j] \in 1 .. L
    BY <1>2, <1>3, CellKeys, KeyTypes
  <2>2. \A j, k \in 1 .. L : j < k => keyAt(rt, j) < keyAt(rt, k)
    BY <1>3 DEF Separates, Strict
  <2> QED BY <2>1, <2>2
<1>5. rt.offsets[1] = 1 /\ \A j, k \in 1 .. L : j # k => pageAt(rt, j) # pageAt(rt, k)
  BY <1>3 DEF Separates
<1>6. keyAt(rt, 1) <= low /\ 1 \in 1 .. L
  BY <1>3, <1>5 DEF keyAt
<1>7. PICK f \in 1 .. L : p = pageAt(rt, f) /\ keyAt(rt, f) <= low
  <2>1. ~(low < keyAt(rt, 1))
    BY <1>1, <1>4, <1>6
  <2> QED BY <1>1, <1>2, <1>3, <1>6, <2>1, RouteCases
<1>8. PICK g \in 1 .. L : /\ p = pageAt(rt, g) /\ keyAt(rt, g) <= sep
                          /\ \A j \in 1 .. L : g < j => sep < keyAt(rt, j)
  <2>1. ~(sep < keyAt(rt, 1))
    BY <1>1, <1>4, <1>6
  <2>2. \/ \A j \in 1 .. L : sep < keyAt(rt, j)
        \/ \E i \in 1 .. L : /\ route(rt, sep) = pageAt(rt, i) /\ keyAt(rt, i) <= sep
                             /\ \A j \in 1 .. L : i < j => sep < keyAt(rt, j)
    BY <1>1, <1>2, <1>3, RouteCases
  <2> QED BY <1>6, <2>1, <2>2
<1>9. keyAt(rt, g) < sep
  <2>1. f = g
    BY <1>5, <1>7, <1>8
  <2> QED BY <1>1, <1>4, <1>7, <2>1
<1>10. PICK i, cell : i = findInsPointForKey(rt, sep) /\ cell = [key |-> sep, page |-> page]
  OBVIOUS
<1>11. cell.key = sep /\ cell.page = page
  BY <1>10
<1>12. r2 = insertCell(rt, i, cell)
  BY <1>10 DEF newRoot
<1>13. i \in 1 .. L + 1 /\ Ordered(rt, sep, i) /\ cell \in RootCell
  <2>1. i \in 1 .. Len(rt.offsets) + 1 /\ Ordered(rt, sep, i)
    BY <1>1, <1>2, <1>10, CellKeys, SearchFacts
  <2>2. cell \in RootCell
    BY <1>1, <1>10 DEF RootCell
  <2> QED BY <1>3, <2>1, <2>2
<1>14. r2 \in NodeOf(RootCell) /\ Sorted(r2) /\ Len(r2.offsets) = L + 1
  <2>1. i \in 1 .. Len(rt.offsets) + 1
    BY <1>3, <1>13
  <2>2. rt \in NodeOf(RootCell) /\ cell \in RootCell
    BY <1>2, <1>13
  <2>3. r2 \in NodeOf(RootCell)
    BY <1>12, <2>1, <2>2, RootInserted
  <2>4. Len(r2.offsets) = Len(rt.offsets) + 1
    BY <1>12, <2>1, <2>2, RootInserted
  <2>5. Sorted(r2)
    BY <1>2, <1>11, <1>12, <1>13, <2>1, CellKeys, InsertSorted
  <2> QED BY <1>3, <2>3, <2>4, <2>5
<1>15. i = g + 1
  <2>1. ~(i <= g)
    BY <1>1, <1>3, <1>4, <1>8, <1>9, <1>13 DEF Ordered
  <2>2. ~(g + 1 < i)
    <3>1. SUFFICES ASSUME g + 1 < i PROVE FALSE
      OBVIOUS
    <3>2. g + 1 \in 1 .. L
      BY <1>13, <3>1
    <3>3. sep < keyAt(rt, g + 1) /\ keyAt(rt, g + 1) <= sep
      BY <1>3, <1>8, <1>13, <3>1, <3>2 DEF Ordered
    <3> QED BY <1>1, <1>4, <3>2, <3>3
  <2> QED BY <1>13, <2>1, <2>2
<1>16. /\ r2.cells[L + 1] = cell /\ r2.offsets[g + 1] = L + 1
       /\ \A c \in 1 .. L : r2.cells[c] = rt.cells[c]
       /\ \A j \in 1 .. L : j < i => r2.offsets[j] = rt.offsets[j]
       /\ \A j \in 1 .. L : i <= j => r2.offsets[j + 1] = rt.offsets[j]
  <2>1. i \in 1 .. Len(rt.offsets) + 1
    BY <1>3, <1>13
  <2>2. r2.cells[Len(rt.cells) + 1] = cell /\ r2.offsets[i] = Len(rt.cells) + 1
    BY <1>2, <1>12, <1>13, <2>1, RootInserted
  <2>3. \A c \in 1 .. Len(rt.cells) : r2.cells[c] = rt.cells[c]
    BY <1>2, <1>12, <1>13, <2>1, RootInserted
  <2>4. \A j \in 1 .. Len(rt.offsets) : j < i => r2.offsets[j] = rt.offsets[j]
    BY <1>2, <1>12, <1>13, <2>1, RootInserted
  <2>5. \A j \in 1 .. Len(rt.offsets) : i <= j => r2.offsets[j + 1] = rt.offsets[j]
    BY <1>2, <1>12, <1>13, <2>1, RootInserted
  <2> QED BY <1>3, <1>15, <2>2, <2>3, <2>4, <2>5
<1>18. \A j \in 1 .. L : j <= g => r2.offsets[j] = rt.offsets[j]
  BY <1>15, <1>16
<1>19. \A j \in 1 .. L : g < j => r2.offsets[j + 1] = rt.offsets[j]
  BY <1>15, <1>16
<1>20. /\ keyAt(r2, g + 1) = sep /\ pageAt(r2, g + 1) = page
       /\ \A j \in 1 .. L : j <= g => keyAt(r2, j) = keyAt(rt, j) /\ pageAt(r2, j) = pageAt(rt, j)
       /\ \A j \in 1 .. L : g < j => keyAt(r2, j + 1) = keyAt(rt, j) /\ pageAt(r2, j + 1) = pageAt(rt, j)
  <2>1. keyAt(r2, g + 1) = sep /\ pageAt(r2, g + 1) = page
    BY <1>11, <1>16 DEF keyAt, pageAt
  <2>2. ASSUME NEW j \in 1 .. L, j <= g
        PROVE  keyAt(r2, j) = keyAt(rt, j) /\ pageAt(r2, j) = pageAt(rt, j)
    <3>1. r2.offsets[j] = rt.offsets[j] /\ rt.offsets[j] \in 1 .. L
      BY <1>4, <1>18, <2>2
    <3> QED BY <1>16, <3>1 DEF keyAt, pageAt
  <2>3. ASSUME NEW j \in 1 .. L, g < j
        PROVE  keyAt(r2, j + 1) = keyAt(rt, j) /\ pageAt(r2, j + 1) = pageAt(rt, j)
    <3>1. r2.offsets[j + 1] = rt.offsets[j] /\ rt.offsets[j] \in 1 .. L
      BY <1>4, <1>19, <2>3
    <3> QED BY <1>16, <3>1 DEF keyAt, pageAt
  <2> QED BY <2>1, <2>2, <2>3
<1>21. r2 # Empty /\ r2.cells[1] = rt.cells[1] /\ r2.offsets[1] = 1 /\ Len(r2.offsets) > 0
  <2>1. r2 # Empty /\ Len(r2.offsets) > 0
    BY <1>14, EmptyNode
  <2>2. r2.cells[1] = rt.cells[1] /\ r2.offsets[1] = 1
    BY <1>5, <1>6, <1>8, <1>16, <1>18
  <2> QED BY <2>1, <2>2
\* A position of the new root is one of the old root or the new one.
<1>22. ASSUME NEW j \in 1 .. L + 1
       PROVE  \/ j = g + 1
              \/ j \in 1 .. L /\ j <= g
              \/ j - 1 \in 1 .. L /\ g < j - 1 /\ (j - 1) + 1 = j
  OBVIOUS
<1>23. \A j \in 1 .. L : pageAt(rt, j) \in 1 .. Len(lf)
  BY <1>3, <1>4 DEF Tree, pageAt
<1>24. Separates(r2)
  <2>1. Strict(r2)
    <3>1. ASSUME NEW j \in 1 .. L + 1, NEW k \in 1 .. L + 1, j < k PROVE keyAt(r2, j) < keyAt(r2, k)
      <4>1. CASE j = g + 1
        <5>1. k - 1 \in 1 .. L /\ g < k - 1 /\ (k - 1) + 1 = k
          BY <3>1, <4>1
        <5> QED BY <1>8, <1>20, <4>1, <5>1
      <4>2. CASE j \in 1 .. L /\ j <= g
        <5>1. keyAt(r2, j) = keyAt(rt, j) /\ keyAt(rt, j) <= keyAt(rt, g)
          BY <1>4, <1>20, <4>2
        <5>2. CASE k = g + 1
          BY <1>1, <1>4, <1>9, <1>20, <4>2, <5>1, <5>2
        <5>3. CASE k \in 1 .. L /\ k <= g
          BY <1>4, <1>20, <3>1, <4>2, <5>1, <5>3
        <5>4. CASE k - 1 \in 1 .. L /\ g < k - 1 /\ (k - 1) + 1 = k
          <6>1. keyAt(r2, k) = keyAt(rt, k - 1) /\ j < k - 1
            BY <1>20, <4>2, <5>4
          <6> QED BY <1>4, <4>2, <5>1, <5>4, <6>1
        <5> QED BY <1>22, <5>2, <5>3, <5>4
      <4>3. CASE j - 1 \in 1 .. L /\ g < j - 1 /\ (j - 1) + 1 = j
        <5>1. k - 1 \in 1 .. L /\ g < k - 1 /\ (k - 1) + 1 = k /\ j - 1 < k - 1
          BY <3>1, <4>3
        <5>2. keyAt(r2, j) = keyAt(rt, j - 1) /\ keyAt(r2, k) = keyAt(rt, k - 1)
          BY <1>20, <4>3, <5>1
        <5> QED BY <1>4, <4>3, <5>1, <5>2
      <4> QED BY <1>22, <4>1, <4>2, <4>3
    <3> QED BY <1>14, <3>1 DEF Strict
  <2>2. ASSUME NEW j \in 1 .. L + 1, NEW k \in 1 .. L + 1, j < k PROVE pageAt(r2, j) # pageAt(r2, k)
    <3>1. \A x \in 1 .. L : pageAt(rt, x) # page
      BY <1>1, <1>23
    <3>2. CASE j = g + 1
      <4>1. k - 1 \in 1 .. L /\ g < k - 1 /\ (k - 1) + 1 = k
        BY <2>2, <3>2
      <4> QED BY <1>20, <3>1, <3>2, <4>1
    <3>3. CASE j \in 1 .. L /\ j <= g
      <4>1. CASE k = g + 1
        BY <1>20, <3>1, <3>3, <4>1
      <4>2. CASE k \in 1 .. L /\ k <= g
        BY <1>5, <1>20, <2>2, <3>3, <4>2
      <4>3. CASE k - 1 \in 1 .. L /\ g < k - 1 /\ (k - 1) + 1 = k
        <5>1. pageAt(r2, k) = pageAt(rt, k - 1) /\ j # k - 1
          BY <1>20, <3>3, <4>3
        <5> QED BY <1>5, <1>20, <3>3, <4>3, <5>1
      <4> QED BY <1>22, <4>1, <4>2, <4>3
    <3>4. CASE j - 1 \in 1 .. L /\ g < j - 1 /\ (j - 1) + 1 = j
      <4>1. k - 1 \in 1 .. L /\ g < k - 1 /\ (k - 1) + 1 = k /\ j - 1 # k - 1
        BY <2>2, <3>4
      <4>2. pageAt(r2, j) = pageAt(rt, j - 1) /\ pageAt(r2, k) = pageAt(rt, k - 1)
        BY <1>20, <3>4, <4>1
      <4> QED BY <1>5, <3>4, <4>1, <4>2
    <3> QED BY <1>22, <3>2, <3>3, <3>4
  <2>3. \A j, k \in 1 .. L + 1 : j # k => pageAt(r2, j) # pageAt(r2, k)
    <3>1. \A j, k \in 1 .. L + 1 : j # k => j < k \/ k < j
      OBVIOUS
    <3> QED BY <2>2, <3>1
  <2> QED BY <1>14, <1>21, <2>1, <2>3 DEF Separates
<1>25. ASSUME NEW key \in Key
       PROVE  route(r2, key) = IF key >= sep /\ route(rt, key) = p THEN page ELSE route(rt, key)
  <2>1. key \in Int
    BY <1>1
  <2>2. \/ /\ route(r2, key) = r2.cells[1].page /\ \A j \in 1 .. L + 1 : key < keyAt(r2, j)
        \/ \E k \in 1 .. L + 1 : /\ route(r2, key) = pageAt(r2, k) /\ keyAt(r2, k) <= key
                                 /\ \A j \in 1 .. L + 1 : k < j => key < keyAt(r2, j)
    <3>1. \/ /\ route(r2, key) = r2.cells[1].page /\ \A j \in 1 .. Len(r2.offsets) : key < keyAt(r2, j)
          \/ \E k \in 1 .. Len(r2.offsets) :
                /\ route(r2, key) = pageAt(r2, k) /\ keyAt(r2, k) <= key
                /\ \A j \in 1 .. Len(r2.offsets) : k < j => key < keyAt(r2, j)
      BY <1>14, <1>21, <2>1, RouteCases
    <3>2. Len(r2.offsets) = L + 1
      BY <1>14
    <3> QED BY <3>1, <3>2, Zenon
  <2>3. CASE route(r2, key) = r2.cells[1].page /\ \A j \in 1 .. L + 1 : key < keyAt(r2, j)
    <3>1. g + 1 \in 1 .. L + 1 /\ key < sep
      BY <1>20, <2>3
    <3>2. ASSUME NEW j \in 1 .. L PROVE key < keyAt(rt, j)
      <4>1. j \in 1 .. L + 1 /\ j + 1 \in 1 .. L + 1
        OBVIOUS
      <4>2. CASE j <= g
        BY <1>20, <2>3, <4>1, <4>2
      <4>3. CASE g < j
        BY <1>20, <2>3, <4>1, <4>3
      <4> QED BY <4>2, <4>3
    <3>3. route(rt, key) = rt.cells[1].page
      BY <1>2, <1>3, <2>1, <3>2, RouteBelow
    <3> QED BY <1>1, <1>21, <2>1, <2>3, <3>1, <3>3
  <2>4. ASSUME NEW k \in 1 .. L + 1, route(r2, key) = pageAt(r2, k), keyAt(r2, k) <= key,
               \A j \in 1 .. L + 1 : k < j => key < keyAt(r2, j)
        PROVE  route(r2, key) = IF key >= sep /\ route(rt, key) = p THEN page ELSE route(rt, key)
    <3>1. CASE k = g + 1
      <4>1. key >= sep /\ keyAt(rt, g) <= key
        BY <1>1, <1>4, <1>9, <1>20, <2>1, <2>4, <3>1
      <4>2. ASSUME NEW j \in 1 .. L, g < j PROVE key < keyAt(rt, j)
        <5>1. j + 1 \in 1 .. L + 1 /\ k < j + 1
          BY <3>1, <4>2
        <5> QED BY <1>20, <2>4, <4>2, <5>1
      <4>3. route(rt, key) = pageAt(rt, g)
        BY <1>2, <1>3, <2>1, <4>1, <4>2, RouteAt
      <4> QED BY <1>8, <1>20, <2>4, <3>1, <4>1, <4>3
    <3>2. CASE k \in 1 .. L /\ k <= g
      <4>1. g + 1 \in 1 .. L + 1 /\ key < sep
        BY <1>20, <2>4, <3>2
      <4>2. ASSUME NEW j \in 1 .. L, k < j PROVE key < keyAt(rt, j)
        <5>1. j \in 1 .. L + 1 /\ j + 1 \in 1 .. L + 1 /\ k < j + 1
          BY <4>2
        <5>2. CASE j <= g
          BY <1>20, <2>4, <4>2, <5>1, <5>2
        <5>3. CASE g < j
          BY <1>20, <2>4, <5>1, <5>3
        <5> QED BY <5>2, <5>3
      <4>3. keyAt(rt, k) <= key
        BY <1>20, <2>4, <3>2
      <4>4. route(rt, key) = pageAt(rt, k)
        BY <1>2, <1>3, <2>1, <3>2, <4>2, <4>3, RouteAt
      <4> QED BY <1>1, <1>20, <2>1, <2>4, <3>2, <4>1, <4>4
    <3>3. CASE k - 1 \in 1 .. L /\ g < k - 1 /\ (k - 1) + 1 = k
      <4>1. PICK h \in 1 .. L : h = k - 1 /\ g < h /\ h + 1 = k
        BY <3>3
      <4>2. keyAt(rt, h) <= key /\ pageAt(r2, k) = pageAt(rt, h)
        BY <1>20, <2>4, <4>1
      <4>3. ASSUME NEW j \in 1 .. L, h < j PROVE key < keyAt(rt, j)
        <5>1. j + 1 \in 1 .. L + 1 /\ k < j + 1 /\ g < j
          BY <4>1, <4>3
        <5> QED BY <1>20, <2>4, <5>1
      <4>4. route(rt, key) = pageAt(rt, h)
        BY <1>2, <1>3, <2>1, <4>2, <4>3, RouteAt
      <4>5. pageAt(rt, h) # p
        BY <1>5, <1>8, <4>1
      <4> QED BY <2>4, <4>2, <4>4, <4>5
    <3> QED BY <1>22, <3>1, <3>2, <3>3
  <2> QED BY <2>2, <2>3, <2>4
<1> QED BY <1>21, <1>24, <1>25

\* Both cases of a split.
LEMMA SplitRoutes ==
    ASSUME NEW lf, NEW rt, Tree(lf, rt), Separates(rt),
           NEW low \in Key, NEW sep \in Key, low < sep, rt # Empty => rt.cells[1].key <= low,
           NEW p, route(rt, low) = p, route(rt, sep) = p,
           NEW page, page = Len(lf) + 1, NEW r2, r2 = newRoot(rt, low, p, sep, page)
    PROVE  /\ Separates(r2)
           /\ \A key \in Key :
                 route(r2, key) = IF key >= sep /\ route(rt, key) = p THEN page ELSE route(rt, key)
<1>1. CASE rt = Empty
  <2>1. \A key : route(rt, key) = 1
    BY <1>1 DEF route
  <2>2. p = 1 /\ page \in Nat /\ page # 1
    BY <2>1, LenProperties DEF Tree
  <2>3. r2 = newRoot(Empty, low, 1, sep, page)
    BY <1>1, <2>2
  <2>4. Separates(r2)
    BY <2>2, <2>3, FirstRootRoutes
  <2>5. \A key \in Key : route(r2, key) = IF key >= sep THEN page ELSE 1
    BY <2>2, <2>3, FirstRootRoutes
  <2> QED BY <2>1, <2>2, <2>4, <2>5
<1>2. CASE rt # Empty
  <2>1. Separates(r2)
    BY <1>2, SeparatorRoutes
  <2>2. \A key \in Key :
           route(r2, key) = IF key >= sep /\ route(rt, key) = p THEN page ELSE route(rt, key)
    BY <1>2, SeparatorRoutes
  <2> QED BY <2>1, <2>2
<1> QED BY <1>1, <1>2

\* The first cell of the root stays what it is.
LEMMA FirstCellKept ==
    ASSUME NEW lf, NEW rt, Tree(lf, rt), rt # Empty, NEW low, NEW p, NEW sep \in Key,
           NEW r2, r2 = newRoot(rt, low, p, sep, Len(lf) + 1)
    PROVE  r2 # Empty /\ r2.cells[1] = rt.cells[1]
<1>1. PICK i, cell : i = findInsPointForKey(rt, sep) /\ cell = [key |-> sep, page |-> Len(lf) + 1]
  OBVIOUS
<1>2. r2 = insertCell(rt, i, cell)
  BY <1>1 DEF newRoot
<1>3. /\ i \in 1 .. Len(rt.offsets) + 1 /\ cell \in RootCell
      /\ Len(r2.offsets) = Len(rt.offsets) + 1
  BY <1>1, <1>2, SeparatorAdded
<1>4. rt \in NodeOf(RootCell) /\ Len(rt.cells) \in Nat /\ Len(rt.cells) > 0 /\ Len(rt.offsets) = Len(rt.cells)
  BY CellKeys, KeyTypes DEF Tree
<1>5. \A c \in 1 .. Len(rt.cells) : r2.cells[c] = rt.cells[c]
  BY <1>2, <1>3, <1>4, CellKeys, InsertFacts
<1>6. r2.cells[1] = rt.cells[1]
  BY <1>4, <1>5
<1>7. r2 # Empty
  BY <1>3, <1>4, EmptyNode
<1> QED BY <1>6, <1>7
-----------------------------------------------------------------------------
(* What a node holds. *)

\* Of a key there is at most one cell that is listed.
LEMMA OneCell ==
    ASSUME NEW n \in NodeOf(LeafCell), Strict(n), NEW key, NEW v, Holds(n, key, v),
           NEW c \in 1 .. Len(n.cells), NEW d \in 1 .. Len(n.cells),
           n.cells[c].key = key, n.cells[d].key = key
    PROVE  c = d
<1>1. PICK i \in 1 .. Len(n.offsets) : n.offsets[i] = c
  BY DEF Holds
<1>2. PICK j \in 1 .. Len(n.offsets) : n.offsets[j] = d
  BY DEF Holds
<1>3. keyAt(n, i) = key /\ keyAt(n, j) = key
  BY <1>1, <1>2 DEF keyAt
<1>4. \A x \in 1 .. Len(n.offsets) : keyAt(n, x) \in Int
  BY CellKeys, KeyTypes
<1>5. Len(n.offsets) \in Nat
  BY CellKeys, KeyTypes
<1>6. ~(i < j) /\ ~(j < i)
  <2>1. i < j => keyAt(n, i) < keyAt(n, j)
    BY DEF Strict
  <2>2. j < i => keyAt(n, j) < keyAt(n, i)
    BY DEF Strict
  <2> QED BY <1>3, <1>4, <2>1, <2>2
<1>7. i = j
  BY <1>5, <1>6
<1> QED BY <1>1, <1>2, <1>7

\* The node an update leaves.
setValue(n, c, val) == [n EXCEPT !.cells[c].val = val]

\* What a node holds after an update.
LEMMA UpdateHolds ==
    ASSUME NEW n \in NodeOf(LeafCell), Strict(n), NEW c \in 1 .. Len(n.cells), NEW val \in Value,
           NEW m, m = setValue(n, c, val), NEW k, NEW v, Holds(n, k, v)
    PROVE  /\ n.cells[c].key = k => Holds(m, k, val)
           /\ n.cells[c].key # k => Holds(m, k, v)
<1>1. m.offsets = n.offsets /\ Len(m.cells) = Len(n.cells) /\ m.cells[c].val = val
  BY UpdateFacts DEF setValue
<1>2. \A d \in 1 .. Len(n.cells) : d # c => m.cells[d] = n.cells[d]
  BY UpdateFacts DEF setValue
<1>3. \A d \in 1 .. Len(n.cells) : m.cells[d].key = n.cells[d].key
  BY UpdateKeys DEF setValue
<1>4. CASE n.cells[c].key = k
  <2>1. \A d \in 1 .. Len(n.cells) : n.cells[d].key = k => d = c
    BY <1>4, OneCell
  <2>2. \A d \in 1 .. Len(m.cells) :
           m.cells[d].key = k => m.cells[d].val = val /\ \E i \in 1 .. Len(m.offsets) : m.offsets[i] = d
    BY <1>1, <1>3, <2>1 DEF Holds
  <2>3. \E d \in 1 .. Len(m.cells) : m.cells[d].key = k
    BY <1>1, <1>3, <1>4
  <2> QED BY <1>4, <2>2, <2>3 DEF Holds
<1>5. CASE n.cells[c].key # k
  <2>1. \A d \in 1 .. Len(m.cells) :
           m.cells[d].key = k => m.cells[d].val = v /\ \E i \in 1 .. Len(m.offsets) : m.offsets[i] = d
    BY <1>1, <1>2, <1>3, <1>5 DEF Holds
  <2>2. v # None => \E d \in 1 .. Len(m.cells) : m.cells[d].key = k
    BY <1>1, <1>3 DEF Holds
  <2> QED BY <1>5, <2>1, <2>2 DEF Holds
<1> QED BY <1>4, <1>5

\* What a node holds after an insertion.
LEMMA InsertHolds ==
    ASSUME NEW n \in NodeOf(LeafCell), NEW i \in 1 .. Len(n.offsets) + 1, NEW cell \in LeafCell,
           \A c \in 1 .. Len(n.cells) : n.cells[c].key # cell.key,
           NEW m, m = insertCell(n, i, cell), NEW k, NEW v, Holds(n, k, v)
    PROVE  Holds(m, k, IF cell.key = k THEN cell.val ELSE v)
<1>1. PICK L \in Nat, D \in Nat : L = Len(n.offsets) /\ D = Len(n.cells)
  BY CellKeys, KeyTypes
<1>2. /\ Len(m.offsets) = L + 1 /\ Len(m.cells) = D + 1 /\ m.cells[D + 1] = cell
      /\ m.offsets[i] = D + 1
  BY <1>1, CellKeys, InsertFacts
<1>3. \A c \in 1 .. D : m.cells[c] = n.cells[c]
  BY <1>1, CellKeys, InsertFacts
<1>4. \A j \in 1 .. L : j < i => m.offsets[j] = n.offsets[j]
  BY <1>1, CellKeys, InsertFacts
<1>5. \A j \in 1 .. L : i <= j => m.offsets[j + 1] = n.offsets[j]
  BY <1>1, CellKeys, InsertFacts
<1>6. \A c \in 1 .. D + 1 : c = D + 1 \/ c \in 1 .. D
  OBVIOUS
<1>7. i \in 1 .. L + 1 /\ D + 1 \in 1 .. D + 1
  BY <1>1
<1>8. ASSUME NEW c \in 1 .. D, n.cells[c].key = k
      PROVE  n.cells[c].val = v /\ \E j \in 1 .. L + 1 : m.offsets[j] = c
  <2>1. n.cells[c].val = v
    BY <1>1, <1>8 DEF Holds
  <2>2. PICK j \in 1 .. L : n.offsets[j] = c
    BY <1>1, <1>8 DEF Holds
  <2>3. j \in 1 .. L + 1 /\ j + 1 \in 1 .. L + 1 /\ (j < i \/ i <= j)
    BY <1>7
  <2> QED BY <1>4, <1>5, <2>1, <2>2, <2>3
<1>9. CASE cell.key = k
  <2>1. \A c \in 1 .. D + 1 : m.cells[c].key = k => c = D + 1
    BY <1>1, <1>3, <1>6, <1>9
  <2>2. \A c \in 1 .. Len(m.cells) :
           m.cells[c].key = k => m.cells[c].val = cell.val /\ \E j \in 1 .. Len(m.offsets) : m.offsets[j] = c
    BY <1>2, <1>7, <2>1
  <2>3. \E c \in 1 .. Len(m.cells) : m.cells[c].key = k
    BY <1>2, <1>7, <1>9
  <2> QED BY <1>9, <2>2, <2>3 DEF Holds
<1>10. CASE cell.key # k
  <2>1. \A c \in 1 .. D + 1 : m.cells[c].key = k => c \in 1 .. D /\ n.cells[c].key = k
    BY <1>2, <1>3, <1>6, <1>10
  <2>2. \A c \in 1 .. Len(m.cells) :
           m.cells[c].key = k => m.cells[c].val = v /\ \E j \in 1 .. Len(m.offsets) : m.offsets[j] = c
    BY <1>2, <1>3, <1>8, <2>1
  <2>3. v # None => \E c \in 1 .. Len(m.cells) : m.cells[c].key = k
    <3>1. ASSUME v # None PROVE \E c \in 1 .. D + 1 : m.cells[c].key = k
      <4>1. PICK c \in 1 .. D : n.cells[c].key = k
        BY <1>1, <3>1 DEF Holds
      <4>2. c \in 1 .. D + 1
        OBVIOUS
      <4> QED BY <1>3, <4>1, <4>2
    <3> QED BY <1>2, <3>1
  <2> QED BY <1>10, <2>2, <2>3 DEF Holds
<1> QED BY <1>9, <1>10

\* A new key leaves the keys strictly in order, and is the only new one.
LEMMA InsertStrict ==
    ASSUME NEW n \in NodeOf(LeafCell), Strict(n), NEW i \in 1 .. Len(n.offsets) + 1,
           NEW cell \in LeafCell, Ordered(n, cell.key, i),
           \A c \in 1 .. Len(n.cells) : n.cells[c].key # cell.key,
           NEW m, m = insertCell(n, i, cell)
    PROVE  /\ Strict(m)
           /\ \A j \in 1 .. Len(m.offsets) :
                 \/ keyAt(m, j) = cell.key
                 \/ \E k \in 1 .. Len(n.offsets) : keyAt(m, j) = keyAt(n, k)
<1>1. PICK L \in Nat : L = Len(n.offsets)
  BY CellKeys, KeyTypes
<1>2. Len(m.offsets) = L + 1
  BY <1>1, CellKeys, InsertFacts
<1>3. \A j \in 1 .. L + 1 :
         keyAt(m, j) = IF j < i THEN keyAt(n, j) ELSE IF j = i THEN cell.key ELSE keyAt(n, j - 1)
  BY <1>1, CellKeys, InsertKeys
<1>4. \A j \in 1 .. L : keyAt(n, j) \in Int /\ keyAt(n, j) # cell.key
  <2>1. \A j \in 1 .. L : keyAt(n, j) \in Int /\ n.offsets[j] \in 1 .. Len(n.cells)
    BY <1>1, CellKeys, KeyTypes
  <2> QED BY <2>1 DEF keyAt
<1>5. cell.key \in Int /\ i \in 1 .. L + 1
  BY <1>1, CellKeys DEF Keyed
<1>6. \A j, k \in 1 .. L : j < k => keyAt(n, j) < keyAt(n, k)
  BY <1>1 DEF Strict
<1>7. /\ \A j \in 1 .. L : j < i => keyAt(n, j) < cell.key
      /\ \A j \in 1 .. L : i <= j => cell.key < keyAt(n, j)
  BY <1>1, <1>4, <1>5 DEF Ordered
\* A position below i, i itself, or one above.
<1>8. ASSUME NEW j \in 1 .. L + 1
      PROVE  \/ j \in 1 .. L /\ j < i /\ keyAt(m, j) = keyAt(n, j)
             \/ j = i /\ keyAt(m, j) = cell.key
             \/ j - 1 \in 1 .. L /\ i <= j - 1 /\ keyAt(m, j) = keyAt(n, j - 1)
  BY <1>3, <1>5
<1>9. ASSUME NEW j \in 1 .. L + 1, NEW k \in 1 .. L + 1, j < k PROVE keyAt(m, j) < keyAt(m, k)
  <2>1. CASE j \in 1 .. L /\ j < i /\ keyAt(m, j) = keyAt(n, j)
    <3>1. CASE k \in 1 .. L /\ k < i /\ keyAt(m, k) = keyAt(n, k)
      BY <1>6, <1>9, <2>1, <3>1
    <3>2. CASE k = i /\ keyAt(m, k) = cell.key
      BY <1>7, <2>1, <3>2
    <3>3. CASE k - 1 \in 1 .. L /\ i <= k - 1 /\ keyAt(m, k) = keyAt(n, k - 1)
      <4>1. j < k - 1
        BY <1>5, <2>1, <3>3
      <4> QED BY <1>6, <2>1, <3>3, <4>1
    <3> QED BY <1>8, <3>1, <3>2, <3>3
  <2>2. CASE j = i /\ keyAt(m, j) = cell.key
    <3>1. k - 1 \in 1 .. L /\ i <= k - 1 /\ keyAt(m, k) = keyAt(n, k - 1)
      BY <1>5, <1>8, <1>9, <2>2
    <3> QED BY <1>7, <2>2, <3>1
  <2>3. CASE j - 1 \in 1 .. L /\ i <= j - 1 /\ keyAt(m, j) = keyAt(n, j - 1)
    <3>1. k - 1 \in 1 .. L /\ keyAt(m, k) = keyAt(n, k - 1) /\ j - 1 < k - 1
      BY <1>5, <1>8, <1>9, <2>3
    <3> QED BY <1>6, <2>3, <3>1
  <2> QED BY <1>8, <2>1, <2>2, <2>3
<1>10. Strict(m)
  BY <1>2, <1>9 DEF Strict
<1>11. \A j \in 1 .. L + 1 : keyAt(m, j) = cell.key \/ \E k \in 1 .. L : keyAt(m, j) = keyAt(n, k)
  BY <1>8
<1> QED BY <1>1, <1>2, <1>10, <1>11

\* The halves of a node: the keys of the lower one are below the first of the
\* upper one.
LEMMA SplitStrict ==
    ASSUME NEW m \in NodeOf(LeafCell), Len(m.offsets) >= 2, Strict(m),
           NEW sep, sep = keyAt(m, splitpt(m) + 1)
    PROVE  /\ Strict(lower(m)) /\ Strict(upper(m))
           /\ \A i \in 1 .. Len(lower(m).offsets) :
                 keyAt(lower(m), i) < sep /\ \E j \in 1 .. Len(m.offsets) : keyAt(lower(m), i) = keyAt(m, j)
           /\ \A i \in 1 .. Len(upper(m).offsets) :
                 keyAt(upper(m), i) >= sep /\ \E j \in 1 .. Len(m.offsets) : keyAt(upper(m), i) = keyAt(m, j)
<1>1. PICK L \in Nat : L = Len(m.offsets)
  BY CellKeys, KeyTypes
<1>2. PICK s \in 1 .. L - 1 : s = splitpt(m)
  BY <1>1, CellKeys, SplitFacts
<1>3. Len(lower(m).offsets) = s /\ Len(upper(m).offsets) = L - s
  BY <1>1, <1>2, CellKeys, SplitFacts
<1>4. \A i \in 1 .. s : keyAt(lower(m), i) = keyAt(m, i)
  BY <1>1, <1>2, CellKeys, SplitKeys
<1>5. \A i \in 1 .. L - s : keyAt(upper(m), i) = keyAt(m, s + i)
  BY <1>1, <1>2, CellKeys, SplitKeys
<1>6. \A i \in 1 .. L : keyAt(m, i) \in Int
  BY <1>1, CellKeys, KeyTypes
<1>7. \A i, j \in 1 .. L : i < j => keyAt(m, i) < keyAt(m, j)
  BY <1>1 DEF Strict
<1>8. /\ s + 1 \in 1 .. L /\ \A i \in 1 .. s : i \in 1 .. L /\ i < s + 1
      /\ \A i \in 1 .. L - s : s + i \in 1 .. L /\ (s + i = s + 1 \/ s + 1 < s + i)
      /\ \A i, j \in 1 .. L - s : i < j => s + i < s + j
  BY <1>2
<1>9. \A i \in 1 .. s : keyAt(lower(m), i) < sep /\ \E j \in 1 .. L : keyAt(lower(m), i) = keyAt(m, j)
  BY <1>2, <1>4, <1>7, <1>8
<1>10. \A i \in 1 .. L - s : keyAt(upper(m), i) >= sep /\ \E j \in 1 .. L : keyAt(upper(m), i) = keyAt(m, j)
  <2>1. ASSUME NEW i \in 1 .. L - s PROVE keyAt(m, s + i) >= sep
    <3>1. PICK j \in 1 .. L : j = s + i /\ (j = s + 1 \/ s + 1 < j)
      BY <1>8
    <3>2. sep = keyAt(m, s + 1) /\ sep \in Int /\ keyAt(m, j) \in Int
      BY <1>2, <1>6, <1>8
    <3>3. j = s + 1 \/ sep < keyAt(m, j)
      BY <1>7, <1>8, <3>1, <3>2
    <3> QED BY <3>1, <3>2, <3>3
  <2> QED BY <1>5, <1>8, <2>1
<1>11. \A i, j \in 1 .. s : i < j => keyAt(lower(m), i) < keyAt(lower(m), j)
  BY <1>4, <1>7, <1>8
<1>12. \A i, j \in 1 .. L - s : i < j => keyAt(upper(m), i) < keyAt(upper(m), j)
  BY <1>5, <1>7, <1>8
<1> QED BY <1>1, <1>3, <1>9, <1>10, <1>11, <1>12 DEF Strict

\* Each half holds the keys on its side of the separator.
LEMMA SplitHolds ==
    ASSUME NEW m \in NodeOf(LeafCell), Len(m.offsets) >= 2, Strict(m),
           NEW sep, sep = keyAt(m, splitpt(m) + 1), NEW k \in Int, NEW v, Holds(m, k, v)
    PROVE  /\ k < sep => Holds(lower(m), k, v)
           /\ k >= sep => Holds(upper(m), k, v)
<1>1. PICK L \in Nat, D \in Nat : L = Len(m.offsets) /\ D = Len(m.cells)
  BY CellKeys, KeyTypes
<1>2. PICK s \in 1 .. L - 1 : s = splitpt(m)
  BY <1>1, CellKeys, SplitFacts
<1>3. /\ lower(m).cells = m.cells /\ Len(lower(m).offsets) = s
      /\ Len(upper(m).offsets) = L - s /\ Len(upper(m).cells) = L - s
  BY <1>1, <1>2, CellKeys, SplitFacts
<1>4. \A i \in 1 .. s : lower(m).offsets[i] = m.offsets[i]
  BY <1>1, <1>2, CellKeys, SplitFacts
<1>5. \A i \in 1 .. L - s : upper(m).offsets[i] = i /\ upper(m).cells[i] = m.cells[m.offsets[s + i]]
  <2>1. \A i \in 1 .. Len(m.offsets) - splitpt(m) :
           upper(m).offsets[i] = i /\ upper(m).cells[i] = m.cells[m.offsets[splitpt(m) + i]]
    BY CellKeys, SplitFacts
  <2> QED BY <1>1, <1>2, <2>1
<1>6. \A i \in 1 .. L : keyAt(m, i) \in Int /\ m.offsets[i] \in 1 .. D
  BY <1>1, CellKeys, KeyTypes
<1>7. \A i, j \in 1 .. L : i < j => keyAt(m, i) < keyAt(m, j)
  BY <1>1 DEF Strict
<1>8. s + 1 \in 1 .. L /\ sep \in Int /\ sep = keyAt(m, s + 1)
  BY <1>2, <1>6
<1>9. ASSUME NEW c \in 1 .. D, m.cells[c].key = k
      PROVE  m.cells[c].val = v /\ \E i \in 1 .. L : m.offsets[i] = c /\ keyAt(m, i) = k
  BY <1>1, <1>9 DEF Holds, keyAt
<1>10. ASSUME k < sep PROVE Holds(lower(m), k, v)
  <2>1. ASSUME NEW c \in 1 .. D, m.cells[c].key = k PROVE \E i \in 1 .. s : lower(m).offsets[i] = c
    <3>1. PICK i \in 1 .. L : m.offsets[i] = c /\ keyAt(m, i) = k
      BY <1>9, <2>1
    <3>2. ~(s + 1 <= i)
      BY <1>6, <1>7, <1>8, <1>10, <3>1
    <3>3. i \in 1 .. s
      BY <1>2, <3>2
    <3> QED BY <1>4, <3>1, <3>3
  <2>2. v # None => \E c \in 1 .. D : m.cells[c].key = k
    BY <1>1 DEF Holds
  <2> QED BY <1>1, <1>3, <1>9, <2>1, <2>2 DEF Holds
<1>11. ASSUME k >= sep PROVE Holds(upper(m), k, v)
  <2>1. ASSUME NEW i \in 1 .. L - s, upper(m).cells[i].key = k
        PROVE  upper(m).cells[i].val = v /\ upper(m).offsets[i] = i
    <3>1. s + i \in 1 .. L
      BY <1>2
    <3>2. m.offsets[s + i] \in 1 .. D /\ m.cells[m.offsets[s + i]].key = k
      BY <1>5, <1>6, <2>1, <3>1
    <3>3. m.cells[m.offsets[s + i]].val = v
      BY <1>9, <3>2
    <3> QED BY <1>5, <3>3
  <2>2. ASSUME v # None PROVE \E i \in 1 .. L - s : upper(m).cells[i].key = k
    <3>1. PICK c \in 1 .. D : m.cells[c].key = k
      BY <1>1, <2>2 DEF Holds
    <3>2. PICK i \in 1 .. L : m.offsets[i] = c /\ keyAt(m, i) = k
      BY <1>9, <3>1
    <3>3. ~(i < s + 1)
      BY <1>6, <1>7, <1>8, <1>11, <3>2
    <3>4. i - s \in 1 .. L - s /\ s + (i - s) = i
      BY <1>2, <3>3
    <3>5. upper(m).cells[i - s] = m.cells[m.offsets[i]]
      BY <1>5, <3>4
    <3> QED BY <3>1, <3>2, <3>4, <3>5
  <2> QED BY <1>3, <2>1, <2>2 DEF Holds
<1> QED BY <1>10, <1>11
-----------------------------------------------------------------------------
(* The steps of a put keep every key where it is looked up. *)

\* The leaf with the new cell, before it is stored or split.
LEMMA CellAddedGood ==
    ASSUME NEW lf, NEW rt, Tree(lf, rt), Routed(lf, rt), NEW st \in [Key -> Value \cup {None}],
           Live(lf, rt, st), NEW key \in Key, NEW val \in Value, NEW p, p = route(rt, key),
           findLeafCell(lf[p], key) = 0, NEW m, m = withCell(lf, rt, key, val),
           NEW s2, s2 = [st EXCEPT ![key] = val]
    PROVE  /\ Strict(m) /\ \A j \in 1 .. Len(m.offsets) : route(rt, keyAt(m, j)) = p
           /\ \A k \in Key : route(rt, k) = p => Holds(m, k, s2[k])
           /\ \A k \in Key : route(rt, k) # p => Holds(lf[route(rt, k)], k, s2[k])
<1>1. PICK n : n = lf[p]
  OBVIOUS
<1>2. PICK i, cell : i = findInsPointForKey(n, key) /\ cell = [key |-> key, val |-> val]
  OBVIOUS
<1>3. m = insertCell(n, i, cell) /\ cell.key = key /\ cell.val = val
  BY <1>1, <1>2 DEF withCell
<1>4. p \in 1 .. Len(lf) /\ n \in NodeOf(LeafCell) /\ cell \in LeafCell
  BY <1>1, <1>2, <1>3, CellAdded
<1>5. i \in 1 .. Len(n.offsets) + 1 /\ Ordered(n, cell.key, i)
  BY <1>1, <1>2, <1>3, CellAdded
<1>6. \A c \in 1 .. Len(n.cells) : n.cells[c].key # cell.key
  <2>1. findLeafCell(n, key) = 0
    BY <1>1
  <2>2. 0 \notin 1 .. Len(n.cells)
    OBVIOUS
  <2> QED BY <1>3, <1>4, <2>1, <2>2, CellFacts
<1>7. Strict(n) /\ \A j \in 1 .. Len(n.offsets) : route(rt, keyAt(n, j)) = p
  BY <1>1, <1>4 DEF Routed
<1>8. Strict(m)
  BY <1>3, <1>4, <1>5, <1>6, <1>7, InsertStrict
<1>9. \A j \in 1 .. Len(m.offsets) :
         keyAt(m, j) = cell.key \/ \E k \in 1 .. Len(n.offsets) : keyAt(m, j) = keyAt(n, k)
  BY <1>3, <1>4, <1>5, <1>6, <1>7, InsertStrict
<1>10. \A j \in 1 .. Len(m.offsets) : route(rt, keyAt(m, j)) = p
  BY <1>3, <1>7, <1>9
<1>11. \A k \in Key : s2[k] = IF k = key THEN val ELSE st[k]
  OBVIOUS
<1>12. ASSUME NEW k \in Key, route(rt, k) = p PROVE Holds(m, k, s2[k])
  <2>1. Holds(n, k, st[k])
    BY <1>1, <1>12 DEF Live
  <2>2. Holds(m, k, IF cell.key = k THEN cell.val ELSE st[k])
    BY <1>3, <1>4, <1>5, <1>6, <2>1, InsertHolds
  <2> QED BY <1>3, <1>11, <2>2
<1>13. ASSUME NEW k \in Key, route(rt, k) # p PROVE Holds(lf[route(rt, k)], k, s2[k])
  <2>1. s2[k] = st[k]
    BY <1>11, <1>13
  <2> QED BY <2>1 DEF Live
<1> QED BY <1>8, <1>10, <1>12, <1>13

\* An update in place.
LEMMA UpdateGood ==
    ASSUME NEW lf, NEW rt, Tree(lf, rt), Routed(lf, rt), NEW st \in [Key -> Value \cup {None}],
           Live(lf, rt, st), NEW key \in Key, NEW val \in Value,
           NEW l2, NEW r2, Updates(lf, rt, key, val, l2, r2), NEW s2, s2 = [st EXCEPT ![key] = val]
    PROVE  Routed(l2, r2) /\ Live(l2, r2, s2)
<1>1. PICK p, n : p = route(rt, key) /\ n = lf[p]
  OBVIOUS
<1>2. PICK c, m : c = findLeafCell(n, key) /\ m = [n EXCEPT !.cells[c].val = val]
  OBVIOUS
<1>3. /\ r2 = rt /\ Len(l2) = Len(lf) /\ p \in 1 .. Len(lf)
      /\ n \in NodeOf(LeafCell) /\ c \in 1 .. Len(n.cells) /\ n.cells[c].key = key
  BY <1>1, <1>2, UpdateStep
<1>4. \A q \in 1 .. Len(lf) : l2[q] = IF q = p THEN m ELSE lf[q]
  BY <1>1, <1>2, UpdateStep
<1>5. m.offsets = n.offsets
  BY <1>2, <1>3, UpdateFacts
<1>6. \A j \in 1 .. Len(n.offsets) : keyAt(m, j) = keyAt(n, j)
  BY <1>2, <1>3, UpdateKeys
<1>7. Strict(n) /\ \A j \in 1 .. Len(n.offsets) : route(rt, keyAt(n, j)) = p
  BY <1>1, <1>3 DEF Routed
<1>8. Strict(m) /\ \A j \in 1 .. Len(m.offsets) : route(rt, keyAt(m, j)) = p
  BY <1>5, <1>6, <1>7 DEF Strict
<1>9. Routed(l2, r2)
  BY <1>3, <1>4, <1>8 DEF Routed
<1>10. \A k \in Key : s2[k] = IF k = key THEN val ELSE st[k]
  OBVIOUS
<1>11. ASSUME NEW k, NEW v, Holds(n, k, v)
       PROVE  /\ n.cells[c].key = k => Holds(m, k, val)
              /\ n.cells[c].key # k => Holds(m, k, v)
  <2>1. n \in NodeOf(LeafCell) /\ Strict(n) /\ c \in 1 .. Len(n.cells)
    BY <1>3, <1>7
  <2>2. m = setValue(n, c, val)
    BY <1>2 DEF setValue
  <2> QED BY <1>11, <2>1, <2>2, UpdateHolds
<1>12. ASSUME NEW k \in Key PROVE Holds(l2[route(rt, k)], k, s2[k])
  <2>1. route(rt, k) \in 1 .. Len(lf)
    BY RouteInTree
  <2>2. Holds(lf[route(rt, k)], k, st[k])
    BY DEF Live
  <2>3. CASE route(rt, k) = p
    <3>1. Holds(n, k, st[k])
      BY <1>1, <2>2, <2>3
    <3>2. Holds(m, k, IF n.cells[c].key = k THEN val ELSE st[k])
      BY <1>11, <3>1
    <3>3. l2[route(rt, k)] = m
      BY <1>4, <2>1, <2>3
    <3>4. s2[k] = IF n.cells[c].key = k THEN val ELSE st[k]
      BY <1>3, <1>10
    <3> QED BY <3>2, <3>3, <3>4, Zenon
  <2>4. CASE route(rt, k) # p
    <3>1. s2[k] = st[k]
      BY <1>1, <1>10, <2>4
    <3> QED BY <1>4, <2>1, <2>2, <2>4, <3>1
  <2> QED BY <2>3, <2>4
<1> QED BY <1>3, <1>9, <1>12 DEF Live

\* An insertion into a leaf that is not full.
LEMMA InsertGood ==
    ASSUME NEW lf, NEW rt, Tree(lf, rt), Routed(lf, rt), NEW st \in [Key -> Value \cup {None}],
           Live(lf, rt, st), NEW key \in Key, NEW val \in Value,
           NEW l2, NEW r2, Inserts(lf, rt, key, val, l2, r2), NEW s2, s2 = [st EXCEPT ![key] = val]
    PROVE  Routed(l2, r2) /\ Live(l2, r2, s2)
<1>1. PICK p, m : p = route(rt, key) /\ m = withCell(lf, rt, key, val)
  OBVIOUS
<1>2. r2 = rt /\ Len(l2) = Len(lf)
  BY <1>1, InsertStep
<1>3. \A q \in 1 .. Len(lf) : l2[q] = IF q = p THEN m ELSE lf[q]
  BY <1>1, InsertStep
<1>4. findLeafCell(lf[p], key) = 0
  BY <1>1 DEF Inserts
<1>5. Strict(m) /\ \A j \in 1 .. Len(m.offsets) : route(rt, keyAt(m, j)) = p
  BY <1>1, <1>4, CellAddedGood
<1>6. \A k \in Key : route(rt, k) = p => Holds(m, k, s2[k])
  BY <1>1, <1>4, CellAddedGood
<1>7. \A k \in Key : route(rt, k) # p => Holds(lf[route(rt, k)], k, s2[k])
  BY <1>1, <1>4, CellAddedGood
<1>8. Routed(l2, r2)
  BY <1>2, <1>3, <1>5 DEF Routed
<1>9. ASSUME NEW k \in Key PROVE Holds(l2[route(rt, k)], k, s2[k])
  <2>1. route(rt, k) \in 1 .. Len(lf)
    BY RouteInTree
  <2> QED BY <1>3, <1>6, <1>7, <2>1
<1> QED BY <1>2, <1>8, <1>9 DEF Live

\* A split: the halves of the leaf, and the routing by the new separator.
LEMMA SplitGood ==
    ASSUME NEW lf, NEW rt, Tree(lf, rt), Separates(rt), Routed(lf, rt),
           NEW st \in [Key -> Value \cup {None}], Live(lf, rt, st), NEW key \in Key, NEW val \in Value,
           NEW l2, NEW r2, Splits(lf, rt, key, val, l2, r2), NEW s2, s2 = [st EXCEPT ![key] = val],
           Lowest(r2, s2)
    PROVE  Separates(r2) /\ Routed(l2, r2) /\ Live(l2, r2, s2)
<1>1. PICK p, m : p = route(rt, key) /\ m = withCell(lf, rt, key, val)
  OBVIOUS
<1>2. PICK low, sep : low = keyAt(lower(m), 1) /\ sep = keyAt(upper(m), 1)
  OBVIOUS
<1>3. PICK page : page = Len(lf) + 1
  OBVIOUS
<1>4. /\ p \in 1 .. Len(lf) /\ m \in NodeOf(LeafCell) /\ Len(m.offsets) >= 2
      /\ r2 = newRoot(rt, low, p, sep, page) /\ splitpt(m) \in 1 .. Len(m.offsets) - 1
  BY <1>1, <1>2, <1>3, SplitStep
<1>5. low = keyAt(m, 1) /\ sep = keyAt(m, splitpt(m) + 1) /\ low \in Key /\ sep \in Key
  BY <1>1, <1>2, SplitStep
<1>6. Len(l2) = page /\ l2[page] = upper(m)
  BY <1>1, <1>2, <1>3, SplitStep
<1>7. \A q \in 1 .. Len(lf) : l2[q] = IF q = p THEN lower(m) ELSE lf[q]
  BY <1>1, <1>2, SplitStep
<1>8. findLeafCell(lf[p], key) = 0
  BY <1>1 DEF Splits
<1>9. Strict(m) /\ \A j \in 1 .. Len(m.offsets) : route(rt, keyAt(m, j)) = p
  BY <1>1, <1>8, CellAddedGood
<1>10. \A k \in Key : route(rt, k) = p => Holds(m, k, s2[k])
  BY <1>1, <1>8, CellAddedGood
<1>11. \A k \in Key : route(rt, k) # p => Holds(lf[route(rt, k)], k, s2[k])
  BY <1>1, <1>8, CellAddedGood
<1>12. /\ Len(m.offsets) \in Nat /\ 1 \in 1 .. Len(m.offsets) /\ splitpt(m) + 1 \in 1 .. Len(m.offsets)
       /\ 1 < splitpt(m) + 1
  BY <1>4, CellKeys, KeyTypes
<1>13. low < sep /\ route(rt, low) = p /\ route(rt, sep) = p
  BY <1>5, <1>9, <1>12 DEF Strict
<1>14. s2[low] # None
  <2>1. m.offsets[1] \in 1 .. Len(m.cells) /\ \A c \in 1 .. Len(m.cells) : m.cells[c] \in LeafCell
    BY <1>4, <1>12, CellKeys, KeyTypes
  <2>2. m.cells[m.offsets[1]].key = low
    BY <1>5 DEF keyAt
  <2>3. m.cells[m.offsets[1]].val = s2[low]
    BY <1>5, <1>10, <1>13, <2>1, <2>2 DEF Holds
  <2>4. m.cells[m.offsets[1]].val \in Value
    BY <2>1 DEF LeafCell
  <2> QED BY <2>3, <2>4, BTreeAssumption
<1>15. rt # Empty => rt.cells[1].key <= low
  <2>1. ASSUME rt # Empty PROVE rt.cells[1].key <= low
    <3>1. r2 # Empty /\ r2.cells[1] = rt.cells[1]
      BY <1>3, <1>4, <1>5, <2>1, FirstCellKept
    <3>2. low >= r2.cells[1].key
      BY <1>5, <1>14, <3>1 DEF Lowest
    <3> QED BY <3>1, <3>2
  <2> QED BY <2>1
<1>16. Separates(r2)
  BY <1>3, <1>4, <1>5, <1>13, <1>15, SplitRoutes
<1>17. \A k \in Key : route(r2, k) = IF k >= sep /\ route(rt, k) = p THEN page ELSE route(rt, k)
  BY <1>3, <1>4, <1>5, <1>13, <1>15, SplitRoutes
<1>18. \A k \in Key : k \in Int
  BY BTreeAssumption
<1>19. Len(lf) \in Nat /\ page \in Nat /\ page \notin 1 .. Len(lf)
       /\ \A q \in 1 .. page : q = page \/ q \in 1 .. Len(lf)
  BY <1>3, LenProperties DEF Tree
<1>20. Strict(lower(m)) /\ Strict(upper(m))
  BY <1>4, <1>5, <1>9, SplitStrict
<1>21. \A q \in 1 .. Len(lf) : lf[q] \in NodeOf(LeafCell)
  BY ElementOfSeq DEF Tree
<1>22. \A n \in NodeOf(LeafCell) : \A i \in 1 .. Len(n.offsets) : keyAt(n, i) \in Key
  <2>1. ASSUME NEW n \in NodeOf(LeafCell), NEW i \in 1 .. Len(n.offsets) PROVE keyAt(n, i) \in Key
    <3>1. n.offsets[i] \in 1 .. Len(n.cells)
      BY CellKeys, KeyTypes
    <3>2. n.cells[n.offsets[i]] \in LeafCell
      BY <3>1, CellKeys, KeyTypes
    <3> QED BY <3>2 DEF keyAt, LeafCell
  <2> QED BY <2>1
<1>23. ASSUME NEW i \in 1 .. Len(lower(m).offsets) PROVE route(r2, keyAt(lower(m), i)) = p
  <2>1. PICK k : k = keyAt(lower(m), i)
    OBVIOUS
  <2>2. k < sep /\ \E j \in 1 .. Len(m.offsets) : k = keyAt(m, j)
    BY <1>4, <1>5, <1>9, <2>1, SplitStrict
  <2>3. k \in Key /\ route(rt, k) = p
    BY <1>4, <1>9, <1>22, <2>2
  <2>4. ~(k >= sep)
    BY <1>5, <1>18, <2>2, <2>3
  <2> QED BY <1>17, <2>1, <2>3, <2>4
<1>24. ASSUME NEW i \in 1 .. Len(upper(m).offsets) PROVE route(r2, keyAt(upper(m), i)) = page
  <2>1. PICK k : k = keyAt(upper(m), i)
    OBVIOUS
  <2>2. k >= sep /\ \E j \in 1 .. Len(m.offsets) : k = keyAt(m, j)
    BY <1>4, <1>5, <1>9, <2>1, SplitStrict
  <2>3. k \in Key /\ route(rt, k) = p
    BY <1>4, <1>9, <1>22, <2>2
  <2> QED BY <1>17, <2>1, <2>2, <2>3
<1>25. ASSUME NEW q \in 1 .. Len(l2)
       PROVE  Strict(l2[q]) /\ \A i \in 1 .. Len(l2[q].offsets) : route(r2, keyAt(l2[q], i)) = q
  <2>1. CASE q = page
    BY <1>6, <1>20, <1>24, <2>1
  <2>2. CASE q = p
    <3>1. l2[q] = lower(m)
      BY <1>4, <1>7, <2>2
    <3> QED BY <1>20, <1>23, <2>2, <3>1
  <2>3. CASE q \in 1 .. Len(lf) /\ q # p
    <3>1. l2[q] = lf[q]
      BY <1>7, <2>3
    <3>2. Strict(lf[q]) /\ \A i \in 1 .. Len(lf[q].offsets) : route(rt, keyAt(lf[q], i)) = q
      BY <2>3 DEF Routed
    <3>3. \A i \in 1 .. Len(lf[q].offsets) : keyAt(lf[q], i) \in Key
      BY <1>21, <1>22, <2>3
    <3>4. \A i \in 1 .. Len(lf[q].offsets) : route(r2, keyAt(lf[q], i)) = q
      BY <1>17, <2>3, <3>2, <3>3
    <3> QED BY <3>1, <3>2, <3>4
  <2> QED BY <1>6, <1>19, <2>1, <2>2, <2>3
<1>26. ASSUME NEW k \in Key PROVE Holds(l2[route(r2, k)], k, s2[k])
  <2>1. route(rt, k) \in 1 .. Len(lf)
    BY RouteInTree
  <2>2. CASE route(rt, k) # p
    <3>1. route(r2, k) = route(rt, k)
      BY <1>17, <2>2
    <3>2. l2[route(rt, k)] = lf[route(rt, k)]
      BY <1>7, <2>1, <2>2
    <3> QED BY <1>11, <2>2, <3>1, <3>2
  <2>3. CASE route(rt, k) = p /\ k >= sep
    <3>1. route(r2, k) = page
      BY <1>17, <2>3
    <3>2. Holds(upper(m), k, s2[k])
      BY <1>4, <1>5, <1>9, <1>10, <1>18, <2>3, SplitHolds
    <3> QED BY <1>6, <3>1, <3>2
  <2>4. CASE route(rt, k) = p /\ ~(k >= sep)
    <3>1. route(r2, k) = p
      BY <1>17, <2>4
    <3>2. k < sep
      BY <1>5, <1>18, <2>4
    <3>3. Holds(lower(m), k, s2[k])
      BY <1>4, <1>5, <1>9, <1>10, <1>18, <2>4, <3>2, SplitHolds
    <3>4. l2[p] = lower(m)
      BY <1>4, <1>7
    <3> QED BY <3>1, <3>3, <3>4
  <2> QED BY <2>2, <2>3, <2>4
<1> QED BY <1>16, <1>25, <1>26 DEF Routed, Live

\* If no key lies below the root's first cell after a step, none did before.
LEMMA LowestBefore ==
    ASSUME NEW rt, NEW r2, NEW st \in [Key -> Value \cup {None}], NEW key \in Key, NEW val \in Value,
           NEW s2, s2 = [st EXCEPT ![key] = val],
           rt # Empty => r2 # Empty /\ r2.cells[1] = rt.cells[1], Lowest(r2, s2)
    PROVE  Lowest(rt, st)
<1>1. \A k \in Key : st[k] # None => s2[k] # None
  BY BTreeAssumption
<1> QED BY <1>1 DEF Lowest

\* Every put keeps Good.
LEMMA GoodStep ==
    ASSUME NEW lf, NEW rt, Tree(lf, rt), NEW st \in [Key -> Value \cup {None}], Good(lf, rt, st),
           NEW key \in Key, NEW val \in Value, NEW l2, NEW r2,
           \/ Updates(lf, rt, key, val, l2, r2) \/ Inserts(lf, rt, key, val, l2, r2)
           \/ Splits(lf, rt, key, val, l2, r2),
           NEW s2, s2 = [st EXCEPT ![key] = val]
    PROVE  Good(l2, r2, s2)
<1> SUFFICES ASSUME Lowest(r2, s2) PROVE Separates(r2) /\ Routed(l2, r2) /\ Live(l2, r2, s2)
  BY DEF Good
<1>1. CASE Updates(lf, rt, key, val, l2, r2)
  <2>1. r2 = rt
    BY <1>1 DEF Updates
  <2>2. Lowest(rt, st)
    BY <2>1, LowestBefore
  <2>3. Separates(rt) /\ Routed(lf, rt) /\ Live(lf, rt, st)
    BY <2>2 DEF Good
  <2> QED BY <1>1, <2>1, <2>3, UpdateGood
<1>2. CASE Inserts(lf, rt, key, val, l2, r2)
  <2>1. r2 = rt
    BY <1>2 DEF Inserts
  <2>2. Lowest(rt, st)
    BY <2>1, LowestBefore
  <2>3. Separates(rt) /\ Routed(lf, rt) /\ Live(lf, rt, st)
    BY <2>2 DEF Good
  <2> QED BY <1>2, <2>1, <2>3, InsertGood
<1>3. CASE Splits(lf, rt, key, val, l2, r2)
  <2>1. PICK p, m : p = route(rt, key) /\ m = withCell(lf, rt, key, val)
    OBVIOUS
  <2>2. PICK low, sep : low = keyAt(lower(m), 1) /\ sep = keyAt(upper(m), 1)
    OBVIOUS
  <2>3. sep \in Key /\ r2 = newRoot(rt, low, p, sep, Len(lf) + 1)
    BY <1>3, <2>1, <2>2, SplitStep
  <2>4. rt # Empty => r2 # Empty /\ r2.cells[1] = rt.cells[1]
    BY <2>3, FirstCellKept
  <2>5. Lowest(rt, st)
    BY <2>4, LowestBefore
  <2>6. Separates(rt) /\ Routed(lf, rt) /\ Live(lf, rt, st)
    BY <2>5 DEF Good
  <2> QED BY <1>3, <2>6, SplitGood
<1> QED BY <1>1, <1>2, <1>3

\* The invariant holds at first,
LEMMA InitGood == Init => BTreeInv
<1> SUFFICES ASSUME Init PROVE BTreeInv
  OBVIOUS
<1>1. Shape
  BY InitShape
<1>2. leaf = <<Empty>> /\ root = Empty /\ \A k \in Key : stored[k] = None
  BY DEF Init
<1>3. Len(leaf) = 1 /\ leaf[1] = Empty /\ Len(Empty.offsets) = 0 /\ Len(Empty.cells) = 0
  BY <1>2, EmptyNode
<1>4. \A k : route(root, k) = 1
  BY <1>2 DEF route
<1>5. Separates(root)
  BY <1>2 DEF Separates
<1>6. Routed(leaf, root)
  BY <1>3 DEF Routed, Strict
<1>7. Live(leaf, root, stored)
  BY <1>2, <1>3, <1>4 DEF Live, Holds
<1> QED BY <1>1, <1>5, <1>6, <1>7 DEF BTreeInv, Good

\* and every put keeps it.
LEMMA InvStep == BTreeInv /\ [Next]_vars => BTreeInv'
<1> SUFFICES ASSUME BTreeInv, [Next]_vars PROVE BTreeInv'
  OBVIOUS
<1>1. Shape'
  BY ShapeStep DEF BTreeInv
<1>2. CASE UNCHANGED vars
  <2>1. Good(leaf, root, stored)'
    BY <1>2 DEF BTreeInv, Good, Lowest, Separates, Routed, Live, vars
  <2> QED BY <1>1, <2>1 DEF BTreeInv
<1>3. ASSUME NEW key \in Key, NEW val \in Value, Put(key, val) PROVE BTreeInv'
  <2>1. PICK lf, rt, st : lf = leaf /\ rt = root /\ st = stored
    OBVIOUS
  <2>2. PICK l2, r2, s2 : l2 = leaf' /\ r2 = root' /\ s2 = stored'
    OBVIOUS
  <2>3. Tree(lf, rt) /\ st \in [Key -> Value \cup {None}] /\ Good(lf, rt, st)
    BY <2>1 DEF BTreeInv, Shape
  <2>4. \/ Updates(lf, rt, key, val, l2, r2) \/ Inserts(lf, rt, key, val, l2, r2)
        \/ Splits(lf, rt, key, val, l2, r2)
    BY <1>3, <2>1, <2>2, PutSteps DEF BTreeInv
  <2>5. s2 = [st EXCEPT ![key] = val]
    BY <1>3, <2>1, <2>2, PutSteps DEF BTreeInv
  <2>6. Good(l2, r2, s2)
    BY <2>3, <2>4, <2>5, GoodStep
  <2>7. Good(leaf, root, stored)'
    BY <2>2, <2>6 DEF Good, Lowest, Separates, Routed, Live
  <2> QED BY <1>1, <2>7 DEF BTreeInv
<1> QED BY <1>2, <1>3 DEF Next

\* What the leaf of a key holds is what a Get returns.
LEMMA InvGets == BTreeInv => GetsLastPutAboveFirst
<1> SUFFICES ASSUME BTreeInv, firstCellLowest
             PROVE  \A key \in Key : /\ get(key) = stored[key]
                                     /\ LET n == leaf[child(key)]
                                            c == findLeafCell(n, key)
                                        IN  c # 0 => c \in ToSet(n.offsets)
  BY DEF GetsLastPutAboveFirst, GetsLastPut
<1>1. Live(leaf, root, stored)
  BY DEF BTreeInv, Good, Lowest, firstCellLowest
<1> TAKE key \in Key
<1>2. PICK n, c : n = leaf[route(root, key)] /\ c = findLeafCell(n, key)
  OBVIOUS
<1>3. child(key) = route(root, key)
  BY DEF child, route
<1>4. n \in NodeOf(LeafCell)
  BY <1>2, RouteInTree DEF BTreeInv, Shape
<1>5. Holds(n, key, stored[key])
  BY <1>1, <1>2 DEF Live
<1>6. \/ c = 0 /\ \A d \in 1 .. Len(n.cells) : n.cells[d].key # key
      \/ c \in 1 .. Len(n.cells) /\ n.cells[c].key = key
  BY <1>2, <1>4, CellFacts
<1>7. get(key) = IF c = 0 THEN None ELSE n.cells[c].val
  BY <1>2, <1>3 DEF get
<1>8. CASE c = 0 /\ \A d \in 1 .. Len(n.cells) : n.cells[d].key # key
  <2>1. stored[key] = None
    BY <1>5, <1>8 DEF Holds
  <2> QED BY <1>2, <1>3, <1>7, <1>8, <2>1
<1>9. CASE c \in 1 .. Len(n.cells) /\ n.cells[c].key = key
  <2>1. c # 0
    BY <1>9
  <2>2. n.cells[c].val = stored[key] /\ \E i \in 1 .. Len(n.offsets) : n.offsets[i] = c
    BY <1>5, <1>9 DEF Holds
  <2>3. DOMAIN n.offsets = 1 .. Len(n.offsets)
    BY <1>4, CellKeys, KeyTypes
  <2>4. c \in ToSet(n.offsets)
    BY <2>2, <2>3 DEF ToSet
  <2> QED BY <1>2, <1>3, <1>7, <2>1, <2>2, <2>4
<1> QED BY <1>6, <1>8, <1>9

\* As long as no key was put below the root's first cell, every Get returns what
\* the last Put of its key stored and finds no cell left behind by a split, for
\* every set of keys, page size and order of puts, updates and splits.
THEOREM GetsReturnLastPut == Spec => []GetsLastPutAboveFirst
BY InitGood, InvStep, InvGets, PTL DEF Spec
=============================================================================
