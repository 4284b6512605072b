---------------------------- MODULE DeviceProofs ----------------------------
(***************************************************************************)
(* Device, for any offers of libwebrtc and any capabilities of routers.    *)
(*                                                                         *)
(* The negotiation goes through lists, so that most of the lemmas are      *)
(* about a fold, and are proved by way of the least index for which they   *)
(* would fail.                                                             *)
(***************************************************************************)
EXTENDS Device, FiniteSetTheorems, WellFoundedInduction, TLAPS

-----------------------------------------------------------------------------
(***************************************************************************)
(* Indices and lists.                                                      *)
(***************************************************************************)

\* Every set of indices that is not empty has a least one.
LEMMA LeastIndex ==
    ASSUME NEW T, T \subseteq Nat, T # {}
    PROVE  \E i \in T : \A j \in T : i <= j
<1>1. PICK i \in T : \A j \in T : ~ (<<j, i>> \in OpToRel(<, Nat))
  BY NatLessThanWellFounded, WFMin, Zenon
<1>2. ASSUME NEW j \in T, j < i PROVE FALSE
  <2>1. <<j, i>> \in Nat \X Nat
    BY SMT
  <2>2. <<j, i>>[1] < <<j, i>>[2]
    BY <1>2
  <2>3. <<j, i>> \in OpToRel(<, Nat)
    BY <2>1, <2>2, Zenon DEF OpToRel
  <2> QED  BY <1>1, <2>3
<1> QED  BY <1>2

\* What is so for 0, and for a number whenever it is for the one before, is so
\* for all: the set of the numbers for which it is so is all of Nat.
LEMMA AllNumbers ==
    ASSUME NEW T, T \subseteq Nat, 0 \in T, \A k \in T : k + 1 \in T
    PROVE  T = Nat
<1> SUFFICES ASSUME Nat \ T # {} PROVE FALSE
  OBVIOUS
<1>1. PICK k \in Nat \ T : \A j \in Nat \ T : k <= j
  BY LeastIndex
<1>2. k # 0 /\ k - 1 \in Nat
  BY <1>1
<1>3. k - 1 \in T
  BY <1>1, <1>2
<1> QED  BY <1>1, <1>2, <1>3

\* The recursive function behind FlattenSeq has a value at every index.
LEMMA FlattenExists ==
    ASSUME NEW s, NEW n \in Nat
    PROVE  \E f : f = [i \in 1..n |-> IF i = 1 THEN s[i] ELSE f[i - 1] \o s[i]]
<1> DEFINE Step(f, i) == IF i = 1 THEN s[i] ELSE f[i - 1] \o s[i]
           T == {k \in Nat : \E f : f = [i \in 1..k |-> Step(f, i)]}
<1>1. 0 \in T
  <2>1. [i \in 1..0 |-> 0] = [i \in 1..0 |-> Step([j \in 1..0 |-> 0], i)]
    OBVIOUS
  <2> QED  BY <2>1
<1>2. ASSUME NEW k \in T PROVE k + 1 \in T
  <2>1. PICK f : f = [i \in 1..k |-> Step(f, i)]
    OBVIOUS
  <2> DEFINE g == [i \in 1..k + 1 |-> IF i = k + 1 THEN Step(f, i) ELSE f[i]]
  <2>2. ASSUME NEW i \in 1..k + 1 PROVE g[i] = Step(g, i)
    <3>1. CASE i = 1
      BY <2>1, <3>1
    <3>2. CASE i # 1
      <4>1. i - 1 \in 1..k /\ i - 1 # k + 1 /\ i - 1 \in 1..k + 1
        BY <3>2
      <4>2. g[i - 1] = f[i - 1]
        BY <4>1
      <4>3. g[i] = Step(f, i)
        <5>1. CASE i = k + 1
          BY <5>1
        <5>2. CASE i # k + 1
          <6>1. i \in 1..k
            BY <5>2
          <6>2. f[i] = Step(f, i)
            <7> HIDE DEF Step
            <7> QED  BY <2>1, <6>1
          <6> QED  BY <5>2, <6>2
        <5> QED  BY <5>1, <5>2
      <4> QED  BY <3>2, <4>2, <4>3
    <3> QED  BY <3>1, <3>2
  <2>3. g = [i \in 1..k + 1 |-> Step(g, i)]
    <3> HIDE DEF Step
    <3> QED  BY <2>2
  <2>4. \E h : h = [i \in 1..k + 1 |-> Step(h, i)]
    <3> HIDE DEF g, Step
    <3> QED  BY <2>3
  <2> HIDE DEF Step
  <2> QED  BY <2>4
<1>3. T = Nat
  <2> HIDE DEF Step
  <2> QED  BY <1>1, <1>2, AllNumbers
<1>4. n \in T
  BY <1>3
<1> QED  BY <1>4

\* A list that consists of the lists in D, one behind the other: element i is
\* element nth[i] of list at[i].
PlacesOver(flat, lists, D, at, nth) ==
    /\ DOMAIN flat = 1..Len(flat) /\ Len(flat) \in Nat
    /\ \A i \in DOMAIN flat :
         /\ at[i] \in D /\ nth[i] \in 1..Len(lists[at[i]])
         /\ flat[i] = lists[at[i]][nth[i]]
         /\ nth[i] # 1 => i # 1 /\ at[i - 1] = at[i] /\ nth[i - 1] = nth[i] - 1
         /\ nth[i] # Len(lists[at[i]]) =>
              i # Len(flat) /\ at[i + 1] = at[i] /\ nth[i + 1] = nth[i] + 1
    /\ \A i, j \in DOMAIN flat : at[i] = at[j] /\ nth[i] = nth[j] => i = j
    /\ \A x \in D : \A n \in 1..Len(lists[x]) : \E i \in DOMAIN flat : at[i] = x /\ nth[i] = n

Places(flat, lists, k, at, nth) == PlacesOver(flat, lists, 1..k, at, nth)

\* One more list behind the others.
LEMMA PlacesAppend ==
    ASSUME NEW k \in Nat, NEW lists, NEW flat, NEW at, NEW nth, Places(flat, lists, k, at, nth),
           NEW S, flat \in Seq(S), lists[k + 1] \in Seq(S)
    PROVE  \E at2, nth2 : Places(flat \o lists[k + 1], lists, k + 1, at2, nth2)
<1> DEFINE l == Len(flat)
           last == lists[k + 1]
           m == Len(last)
           both == flat \o last
           at2 == [i \in 1..l + m |-> IF i <= l THEN at[i] ELSE k + 1]
           nth2 == [i \in 1..l + m |-> IF i <= l THEN nth[i] ELSE i - l]
<1>1. /\ l \in Nat /\ m \in Nat /\ DOMAIN flat = 1..l
      /\ Len(both) = l + m /\ DOMAIN both = 1..l + m
      /\ \A i \in 1..l : both[i] = flat[i]
      /\ \A i \in l + 1..l + m : both[i] = last[i - l]
  OBVIOUS
<1>2. /\ \A i \in 1..l : i \in 1..l + m /\ at2[i] = at[i] /\ nth2[i] = nth[i]
      /\ \A i \in l + 1..l + m : i \in 1..l + m /\ at2[i] = k + 1 /\ nth2[i] = i - l
  BY <1>1
<1>3. 1..l + m = (1..l) \cup (l + 1..l + m)
  BY <1>1
<1>4. \A i \in 1..l :
        /\ at[i] \in 1..k /\ nth[i] \in 1..Len(lists[at[i]])
        /\ flat[i] = lists[at[i]][nth[i]]
        /\ nth[i] # 1 => i # 1 /\ at[i - 1] = at[i] /\ nth[i - 1] = nth[i] - 1
        /\ nth[i] # Len(lists[at[i]]) =>
             i # l /\ at[i + 1] = at[i] /\ nth[i + 1] = nth[i] + 1
  BY <1>1 DEF Places, PlacesOver
<1>5. /\ \A i, j \in 1..l : at[i] = at[j] /\ nth[i] = nth[j] => i = j
      /\ \A x \in 1..k : \A n \in 1..Len(lists[x]) : \E i \in 1..l : at[i] = x /\ nth[i] = n
  <2>1. /\ \A i, j \in DOMAIN flat : at[i] = at[j] /\ nth[i] = nth[j] => i = j
        /\ \A x \in 1..k : \A n \in 1..Len(lists[x]) :
             \E i \in DOMAIN flat : at[i] = x /\ nth[i] = n
    BY Zenon DEF Places, PlacesOver
  <2>2. DOMAIN flat = 1..l
    BY <1>1
  <2>3. ASSUME NEW D, D = DOMAIN flat
        PROVE  /\ \A i, j \in D : at[i] = at[j] /\ nth[i] = nth[j] => i = j
               /\ \A x \in 1..k : \A n \in 1..Len(lists[x]) : \E i \in D : at[i] = x /\ nth[i] = n
    BY <2>1, <2>3, Zenon
  <2> HIDE DEF l
  <2> QED  BY <2>2, <2>3, Zenon
<1> HIDE DEF l, m, both, at2, nth2
<1>6. ASSUME NEW i \in 1..l + m
      PROVE  /\ at2[i] \in 1..k + 1 /\ nth2[i] \in 1..Len(lists[at2[i]])
             /\ both[i] = lists[at2[i]][nth2[i]]
             /\ nth2[i] # 1 => i # 1 /\ at2[i - 1] = at2[i] /\ nth2[i - 1] = nth2[i] - 1
             /\ nth2[i] # Len(lists[at2[i]]) =>
                  i # l + m /\ at2[i + 1] = at2[i] /\ nth2[i + 1] = nth2[i] + 1
  <2>1. CASE i \in 1..l
    <3>1. /\ at2[i] = at[i] /\ nth2[i] = nth[i] /\ both[i] = flat[i]
          /\ at[i] \in 1..k + 1
      BY <1>1, <1>2, <1>4, <2>1
    <3>2. nth[i] # 1 => i # 1 /\ at2[i - 1] = at[i] /\ nth2[i - 1] = nth[i] - 1
      <4>1. i # 1 => i - 1 \in 1..l
        BY <1>1, <2>1
      <4> QED  BY <1>2, <1>4, <2>1, <4>1
    <3>3. nth[i] # Len(lists[at[i]]) =>
            i # l + m /\ at2[i + 1] = at[i] /\ nth2[i + 1] = nth[i] + 1
      <4>1. i # l => i + 1 \in 1..l /\ i # l + m
        BY <1>1, <2>1
      <4> QED  BY <1>2, <1>4, <2>1, <4>1
    <3> QED  BY <1>4, <2>1, <3>1, <3>2, <3>3
  <2>2. CASE i \in l + 1..l + m
    <3>1. at2[i] = k + 1 /\ nth2[i] = i - l /\ both[i] = last[i - l] /\ i - l \in 1..m
          /\ Len(lists[at2[i]]) = m
      BY <1>1, <1>2, <2>2 DEF m
    <3>2. i - l # 1 => i # 1 /\ i - 1 \in l + 1..l + m /\ (i - 1) - l = (i - l) - 1
      BY <1>1, <2>2
    <3>3. i - l # m => i # l + m /\ i + 1 \in l + 1..l + m /\ (i + 1) - l = (i - l) + 1
      BY <1>1, <2>2
    <3> QED  BY <1>2, <3>1, <3>2, <3>3
  <2> QED  BY <1>3, <2>1, <2>2
<1>7. ASSUME NEW i \in 1..l + m, NEW j \in 1..l + m, at2[i] = at2[j], nth2[i] = nth2[j]
      PROVE  i = j
  <2>1. CASE i \in 1..l /\ j \in 1..l
    BY <1>2, <1>5, <1>7, <2>1
  <2>2. CASE i \in l + 1..l + m /\ j \in l + 1..l + m
    BY <1>1, <1>2, <1>7, <2>2
  <2>3. k + 1 \notin 1..k
    OBVIOUS
  <2>4. ~ (i \in 1..l /\ j \in l + 1..l + m) /\ ~ (j \in 1..l /\ i \in l + 1..l + m)
    BY <1>2, <1>4, <1>7, <2>3
  <2> QED  BY <1>3, <2>1, <2>2, <2>4
<1>8. ASSUME NEW x \in 1..k + 1, NEW n \in 1..Len(lists[x])
      PROVE  \E i \in 1..l + m : at2[i] = x /\ nth2[i] = n
  <2>1. CASE x = k + 1
    <3>1. n \in 1..m
      BY <2>1 DEF m
    <3>2. l + n \in l + 1..l + m /\ (l + n) - l = n
      BY <1>1, <3>1
    <3> QED  BY <1>2, <2>1, <3>2
  <2>2. CASE x # k + 1
    <3>1. x \in 1..k
      BY <2>2
    <3> QED  BY <1>2, <1>5, <3>1
  <2> QED  BY <2>1, <2>2
<1>9. Places(both, lists, k + 1, at2, nth2)
  <2>1. DOMAIN both = 1..l + m /\ Len(both) = l + m /\ l + m \in Nat
    BY <1>1
  <2>2. \A i, j \in DOMAIN both : at2[i] = at2[j] /\ nth2[i] = nth2[j] => i = j
    BY <1>7, <2>1
  <2>3. \A x \in 1..k + 1 : \A n \in 1..Len(lists[x]) :
          \E i \in DOMAIN both : at2[i] = x /\ nth2[i] = n
    BY <1>8, <2>1
  <2>4. \A i \in DOMAIN both :
          /\ at2[i] \in 1..k + 1 /\ nth2[i] \in 1..Len(lists[at2[i]])
          /\ both[i] = lists[at2[i]][nth2[i]]
          /\ nth2[i] # 1 => i # 1 /\ at2[i - 1] = at2[i] /\ nth2[i - 1] = nth2[i] - 1
          /\ nth2[i] # Len(lists[at2[i]]) =>
               i # Len(both) /\ at2[i + 1] = at2[i] /\ nth2[i + 1] = nth2[i] + 1
    BY <1>6, <2>1
  <2> QED  BY <2>1, <2>2, <2>3, <2>4, Zenon DEF Places, PlacesOver
<1> QED  BY <1>9 DEF both

\* A list of lists is flattened to the lists one behind the other.
LEMMA FlattenPlaces ==
    ASSUME NEW S, NEW s \in Seq(Seq(S))
    PROVE  \E at, nth : Places(FlattenSeq(s), s, Len(s), at, nth)
<1>1. CASE Len(s) = 0
  <2>1. FlattenSeq(s) = s /\ DOMAIN s = {} /\ 1..0 = {}
    BY <1>1 DEF FlattenSeq
  <2>2. \A at, nth : Places(s, s, Len(s), at, nth)
    BY <1>1, <2>1 DEF Places, PlacesOver
  <2> QED  BY <2>1, <2>2
<1>2. CASE Len(s) # 0
  <2> DEFINE n == Len(s)
             Recursive(f) == f = [i \in 1..n |-> IF i = 1 THEN s[i] ELSE f[i - 1] \o s[i]]
             flatten == CHOOSE f : Recursive(f)
  <2>1. n \in Nat /\ \E f : Recursive(f)
    <3>1. n \in Nat
      OBVIOUS
    <3> HIDE DEF n
    <3> QED  BY <3>1, FlattenExists
  <2>2. Recursive(flatten)
    <3> HIDE DEF Recursive
    <3> QED  BY <2>1, Zenon
  <2>3. FlattenSeq(s) = flatten[n]
    BY <1>2, Zenon DEF FlattenSeq
  <2> HIDE DEF flatten
  <2> DEFINE Good(k) == flatten[k] \in Seq(S) /\ \E at, nth : Places(flatten[k], s, k, at, nth)
             T == {k \in Nat : k + 1 \in 1..n => Good(k + 1)}
  <2>4. \A k \in 1..n : s[k] \in Seq(S)
    OBVIOUS
  <2>5. 0 \in T
    <3> SUFFICES ASSUME 1 \in 1..n PROVE Good(1)
      OBVIOUS
    <3>1. flatten[1] = s[1]
      BY <2>2
    <3>2. PICK first : first = s[1]
      OBVIOUS
    <3>3. first \in Seq(S) /\ <<>> \o first = first /\ <<>> \in Seq(S)
      BY <2>4, <3>2
    <3>4. Places(<<>>, s, 0, <<>>, <<>>)
      BY DEF Places, PlacesOver
    <3>5. \E at, nth : Places(<<>> \o s[1], s, 1, at, nth)
      <4>1. 0 + 1 = 1
        OBVIOUS
      <4> QED  BY <3>2, <3>3, <3>4, <4>1, PlacesAppend
    <3> QED  BY <3>1, <3>2, <3>3, <3>5
  <2>6. ASSUME NEW k \in T PROVE k + 1 \in T
    <3> SUFFICES ASSUME (k + 1) + 1 \in 1..n PROVE Good((k + 1) + 1)
      OBVIOUS
    <3>1. PICK i \in 1..n : i = (k + 1) + 1
      OBVIOUS
    <3>2. k + 1 \in 1..n /\ k + 1 \in Nat /\ i # 1 /\ i - 1 = k + 1
      BY <3>1, <2>1
    <3>3. Good(k + 1)
      BY <3>2
    <3>4. flatten[i] = flatten[k + 1] \o s[i]
      <4>1. flatten[i] = flatten[i - 1] \o s[i]
        <5> HIDE DEF n, T
        <5> QED  BY <2>2, <3>2
      <4> QED  BY <3>2, <4>1
    <3>5. s[i] \in Seq(S)
      BY <2>4
    <3>6. PICK at, nth : Places(flatten[k + 1], s, k + 1, at, nth)
      BY <3>3
    <3>7. \E at2, nth2 : Places(flatten[k + 1] \o s[(k + 1) + 1], s, (k + 1) + 1, at2, nth2)
      BY <3>1, <3>2, <3>3, <3>5, <3>6, PlacesAppend
    <3> QED  BY <3>1, <3>3, <3>4, <3>5, <3>7
  <2>7. T = Nat
    <3> HIDE DEF Good
    <3> QED  BY <2>5, <2>6, AllNumbers
  <2>8. Good(n)
    <3>1. n - 1 \in Nat /\ (n - 1) + 1 = n /\ n \in 1..n
      BY <1>2, <2>1
    <3> HIDE DEF Good, n
    <3>2. n - 1 \in T
      BY <2>7, <3>1
    <3>3. (n - 1) + 1 \in 1..n => Good((n - 1) + 1)
      BY <3>2
    <3> QED  BY <3>1, <3>3
  <2> QED  BY <2>3, <2>8
<1> QED  BY <1>1, <1>2

\* A list that is finite has its elements at 1, 2, ... up to its length.
LEMMA FiniteIndices ==
    ASSUME NEW s, Finite(s)
    PROVE  Len(s) \in Nat /\ DOMAIN s = 1..Len(s) /\ \A i \in DOMAIN s : s[i] \in ToSet(s)
<1>1. s \in Seq(ToSet(s))
  BY DEF Finite
<1> QED  BY <1>1

\* A function from 1..n is a finite list.
LEMMA IndexedIsFinite ==
    ASSUME NEW n \in Nat, NEW s, s = [i \in 1..n |-> s[i]]
    PROVE  Finite(s) /\ Len(s) = n
<1>1. s \in [1..n -> ToSet(s)]
  <2>1. \A i \in 1..n : s[i] \in ToSet(s)
    BY DEF ToSet
  <2> HIDE DEF ToSet
  <2> QED  BY <2>1
<1>2. s \in Seq(ToSet(s)) /\ Len(s) = n
  BY <1>1
<1> QED  BY <1>2 DEF Finite

\* The values of a function with a finite domain are finitely many.
LEMMA FiniteImage ==
    ASSUME NEW f, IsFiniteSet(DOMAIN f)
    PROVE  IsFiniteSet({f[x] : x \in DOMAIN f})
<1> DEFINE T == {f[x] : x \in DOMAIN f}
           g == [x \in DOMAIN f |-> f[x]]
<1>1. g \in Surjection(DOMAIN f, T)
  BY DEF Surjection
<1> HIDE DEF T, g
<1> QED  BY <1>1, FS_Surjection DEF T

\* Min is the least of some indices.
LEMMA MinOfIndices ==
    ASSUME NEW I, I \subseteq Nat, I # {}
    PROVE  Min(I) \in I /\ \A j \in I : Min(I) <= j
<1>1. \E i \in I : \A j \in I : i <= j
  BY LeastIndex
<1> QED  BY <1>1, Zenon DEF Min

\* Max is the greatest of finitely many.
LEMMA MaxOfBounded ==
    ASSUME NEW n \in Nat, NEW I, I \subseteq 1..n, I # {}
    PROVE  Max(I) \in I /\ \A j \in I : Max(I) >= j
<1> DEFINE T == {n - i : i \in I}
<1>1. PICK d \in T : \A e \in T : d <= e
  <2>1. \A i \in I : n - i \in Nat
    OBVIOUS
  <2>2. T \subseteq Nat /\ T # {}
    BY <2>1
  <2> HIDE DEF T
  <2> QED  BY <2>2, LeastIndex
<1>2. PICK i \in I : d = n - i
  OBVIOUS
<1>3. \A j \in I : i >= j
  <2> SUFFICES ASSUME NEW j \in I PROVE i >= j
    OBVIOUS
  <2>1. n - j \in T
    OBVIOUS
  <2>2. n - i <= n - j
    BY <1>1, <1>2, <2>1
  <2> QED  BY <2>2
<1> QED  BY <1>3, Zenon DEF Max

\* The greatest of the indices up to k, if k is one of them.
LEMMA MaxOfIndices ==
    ASSUME NEW k \in Nat, NEW t \in SUBSET (1..k), k \in t
    PROVE  Max(t) = k
<1>2. Max(t) \in t /\ \A y \in t : Max(t) >= y
  BY MaxOfBounded
<1>3. Max(t) \in 1..k /\ Max(t) >= k
  BY <1>2
<1> QED  BY <1>3

-----------------------------------------------------------------------------
(***************************************************************************)
(* The codecs of an offer.                                                 *)
(***************************************************************************)

\* In a finite set, each codec has a place of its own in the order of the
\* payload types, and each place has a codec.
LEMMA OrderedByPt ==
    ASSUME NEW codecs, IsFiniteSet(codecs),
           \A c \in codecs : c.pt \in Nat,
           \A c, d \in codecs : c.pt = d.pt => c = d
    PROVE  /\ Finite(InOrderOfPt(codecs))
           /\ \A i \in DOMAIN InOrderOfPt(codecs) : InOrderOfPt(codecs)[i] \in codecs
           /\ \A c \in codecs : \E i \in DOMAIN InOrderOfPt(codecs) : InOrderOfPt(codecs)[i] = c
<1> DEFINE n == Cardinality(codecs)
           Below(c) == {d \in codecs : d.pt < c.pt}
           place == [c \in codecs |-> Cardinality(Below(c)) + 1]
<1>1. n \in Nat
  BY FS_CardinalityType
<1>2. ASSUME NEW c \in codecs
      PROVE  /\ IsFiniteSet(Below(c)) /\ Cardinality(Below(c)) \in Nat
             /\ place[c] = Cardinality(Below(c)) + 1 /\ place[c] \in 1..n
  <2>1. IsFiniteSet(Below(c)) /\ Cardinality(Below(c)) <= n
    BY FS_Subset
  <2>2. Cardinality(Below(c)) \in Nat
    BY <2>1, FS_CardinalityType
  <2>3. Cardinality(Below(c)) # n
    <3>1. c \notin Below(c)
      OBVIOUS
    <3>2. n = Cardinality(Below(c)) => codecs = Below(c)
      BY FS_Subset
    <3> QED  BY <3>1, <3>2
  <2> QED  BY <1>1, <2>1, <2>2, <2>3
<1>3. ASSUME NEW c \in codecs, NEW d \in codecs, c.pt < d.pt PROVE place[c] < place[d]
  <2>1. Below(c) \subseteq Below(d) /\ c \in Below(d) \ Below(c)
    <3>1. ASSUME NEW e \in codecs, e.pt < c.pt PROVE e.pt < d.pt
      BY <1>3, <3>1
    <3> QED  BY <1>3, <3>1
  <2>2. /\ Cardinality(Below(c)) <= Cardinality(Below(d))
        /\ Cardinality(Below(c)) # Cardinality(Below(d))
    <3> HIDE DEF Below
    <3> QED  BY <1>2, <2>1, FS_Subset
  <2> HIDE DEF Below, place
  <2> QED  BY <1>2, <2>2
<1>4. place \in Injection(codecs, 1..n)
  <2>1. ASSUME NEW c \in codecs, NEW d \in codecs, place[c] = place[d] PROVE c = d
    <3>1. c.pt \in Nat /\ d.pt \in Nat /\ place[c] \in 1..n /\ place[d] \in 1..n
      BY <1>2
    <3>2. ~ c.pt < d.pt /\ ~ d.pt < c.pt
      <4> HIDE DEF place
      <4> QED  BY <1>3, <2>1, <3>1
    <3> QED  BY <3>1, <3>2
  <2>2. place \in [codecs -> 1..n]
    BY <1>2
  <2> HIDE DEF place
  <2> QED  BY <2>1, <2>2 DEF Injection, IsInjective
<1>5. place \in Surjection(codecs, 1..n)
  <2>1. IsFiniteSet(1..n) /\ Cardinality(1..n) = n
    BY <1>1, FS_Interval
  <2> HIDE DEF place
  <2> QED  BY <1>4, <2>1, FS_Injection
<1>6. ASSUME NEW i \in 1..n PROVE InOrderOfPt(codecs)[i] \in codecs
  <2>1. PICK c \in codecs : place[c] = i
    <3> HIDE DEF place
    <3> QED  BY <1>5 DEF Surjection
  <2>2. Cardinality(Below(c)) = i - 1
    <3> HIDE DEF Below, place
    <3> QED  BY <1>2, <2>1
  <2>3. (CHOOSE codec \in codecs : Cardinality(Below(codec)) = i - 1) \in codecs
    <3> HIDE DEF Below
    <3> QED  BY <2>2, Zenon
  <2> QED  BY <2>3 DEF InOrderOfPt
<1>7. InOrderOfPt(codecs) = [i \in 1..n |-> InOrderOfPt(codecs)[i]]
  <2> DEFINE At(i) == CHOOSE codec \in codecs : Cardinality(Below(codec)) = i - 1
  <2>1. InOrderOfPt(codecs) = [i \in 1..n |-> At(i)]
    BY DEF InOrderOfPt
  <2> HIDE DEF At, n
  <2> QED  BY <2>1
<1>8. Finite(InOrderOfPt(codecs))
  <2> HIDE DEF n
  <2> QED  BY <1>1, <1>7, IndexedIsFinite
<1>9. DOMAIN InOrderOfPt(codecs) = 1..n
  BY DEF InOrderOfPt
<1>10. ASSUME NEW c \in codecs PROVE InOrderOfPt(codecs)[place[c]] = c
  <2> DEFINE found == CHOOSE codec \in codecs : Cardinality(Below(codec)) = place[c] - 1
  <2>1. place[c] \in 1..n /\ Cardinality(Below(c)) = place[c] - 1
    <3> HIDE DEF Below, place
    <3> QED  BY <1>2
  <2>2. InOrderOfPt(codecs)[place[c]] = found
    <3> HIDE DEF place
    <3> QED  BY <2>1 DEF InOrderOfPt
  <2>3. found \in codecs /\ Cardinality(Below(found)) = place[c] - 1
    <3> HIDE DEF Below, place
    <3> QED  BY <2>1, Zenon
  <2>4. place[found] = place[c]
    <3> HIDE DEF Below, place, found
    <3> QED  BY <1>2, <2>1, <2>3
  <2>5. found = c
    <3> HIDE DEF Below, place, found
    <3> QED  BY <1>4, <2>3, <2>4 DEF Injection, IsInjective
  <2> QED  BY <2>2, <2>5
<1> QED  BY <1>2, <1>6, <1>8, <1>9, <1>10

\* The section that is read for a kind is one of the offer.
LEMMA SectionOfOffer ==
    ASSUME NEW offer \in NativeOffers, NEW kind \in KindsOf(offer)
    PROVE  \E i \in DOMAIN offer : FirstSection(offer, kind) = offer[i] /\ offer[i].type = kind
<1> DEFINE I == {i \in 1..Len(offer) : offer[i].type = kind}
<1>1. Finite(offer) /\ DOMAIN offer = 1..Len(offer) /\ Len(offer) \in Nat
  BY DeviceAssumption, FiniteIndices DEF IsOffer
<1>2. I # {} /\ I \subseteq Nat
  BY <1>1 DEF KindsOf
<1>3. Min(I) \in I
  <2> HIDE DEF I
  <2> QED  BY <1>2, MinOfIndices
<1>4. SelectInSeq(offer, LAMBDA m : m.type = kind) = Min(I)
  BY <1>2 DEF SelectInSeq
<1> QED  BY <1>1, <1>3, <1>4 DEF FirstSection

IsCodec(c) == DOMAIN c = CodecMembers /\ c.level \in Nat

\* The parameters of a codec are those of a line for its payload type, if
\* there is one.
LEMMA FmtpOfCodec ==
    ASSUME NEW m, Finite(m.fmtp), NEW n
    PROVE  \/ /\ Fmtp(m, n) = NoFmtp
              /\ \A j \in DOMAIN m.fmtp : m.fmtp[j].pt # m.rtp[n].pt
           \/ \E j \in DOMAIN m.fmtp :
                Fmtp(m, n) = m.fmtp[j] /\ m.fmtp[j].pt = m.rtp[n].pt
<1> DEFINE I == {i \in 1..Len(m.fmtp) : m.fmtp[i].pt = m.rtp[n].pt}
<1>1. Len(m.fmtp) \in Nat /\ DOMAIN m.fmtp = 1..Len(m.fmtp)
  BY FiniteIndices
<1>2. CASE I = {}
  <2>1. Fmtp(m, n) = NoFmtp
    BY <1>2 DEF Fmtp, SelectLastInSeq
  <2> QED  BY <1>1, <1>2, <2>1
<1>3. CASE I # {}
  <2>1. Max(I) \in I
    <3>1. I \subseteq 1..Len(m.fmtp)
      OBVIOUS
    <3> HIDE DEF I
    <3> QED  BY <1>1, <1>3, <3>1, MaxOfBounded
  <2>2. Max(I) # 0
    BY <1>1, <2>1
  <2>3. Fmtp(m, n) = m.fmtp[Max(I)]
    BY <1>3, <2>2 DEF Fmtp, SelectLastInSeq
  <2> QED  BY <1>1, <2>1, <2>3
<1> QED  BY <1>2, <1>3

SectionsRead(offer) == {FirstSection(offer, kind) : kind \in KindsOf(offer)}

CodecsRead(offer) ==
    UNION {{ExtractedCodec(m, n) : n \in DOMAIN m.rtp} : m \in SectionsRead(offer)}

\* The codecs that are read are finitely many, with the members of a codec and
\* a payload type of their own.
LEMMA CodecsOfOffer ==
    ASSUME NEW offer \in NativeOffers
    PROVE  /\ IsFiniteSet(CodecsRead(offer))
           /\ \A c \in CodecsRead(offer) : c.pt \in Nat /\ IsCodec(c)
           /\ \A c, d \in CodecsRead(offer) : c.pt = d.pt => c = d
<1> DEFINE Of(m) == {ExtractedCodec(m, n) : n \in DOMAIN m.rtp}
<1>1. \A m \in SectionsRead(offer) : \E i \in DOMAIN offer : m = offer[i]
  BY SectionOfOffer DEF SectionsRead
<1>2. \A c \in CodecsRead(offer) :
        \E i \in DOMAIN offer : \E n \in DOMAIN offer[i].rtp : c = ExtractedCodec(offer[i], n)
  <2>1. ASSUME NEW c \in CodecsRead(offer)
        PROVE \E m \in SectionsRead(offer) : \E n \in DOMAIN m.rtp : c = ExtractedCodec(m, n)
    BY Zenon DEF CodecsRead
  <2> QED  BY <1>1, <2>1
<1>3. ASSUME NEW m, NEW n
      PROVE  ExtractedCodec(m, n).pt = m.rtp[n].pt /\ DOMAIN ExtractedCodec(m, n) = CodecMembers
  BY DEF ExtractedCodec, CodecMembers
<1>4. \A c \in CodecsRead(offer) : c.pt \in Nat /\ IsCodec(c)
  <2>1. ASSUME NEW c \in CodecsRead(offer) PROVE c.pt \in Nat /\ IsCodec(c)
    <3>1. PICK i \in DOMAIN offer : \E n \in DOMAIN offer[i].rtp : c = ExtractedCodec(offer[i], n)
      BY <1>2
    <3>2. PICK n \in DOMAIN offer[i].rtp : c = ExtractedCodec(offer[i], n)
      BY <3>1
    <3>3. offer[i].rtp[n].pt \in Nat
      BY DeviceAssumption
    <3>4. c.level = Fmtp(offer[i], n).level
      BY <3>2 DEF ExtractedCodec
    <3>5. Finite(offer[i].fmtp) /\ \A j \in DOMAIN offer[i].fmtp : offer[i].fmtp[j].level \in Nat
      BY DeviceAssumption DEF IsOffer
    <3>6. Fmtp(offer[i], n).level \in Nat
      <4>1. NoFmtp.level \in Nat
        BY DEF NoFmtp
      <4> QED  BY <3>5, <4>1, FmtpOfCodec
    <3> QED  BY <1>3, <3>2, <3>3, <3>4, <3>6 DEF IsCodec
  <2> QED  BY <2>1
<1>5. ASSUME NEW c \in CodecsRead(offer), NEW d \in CodecsRead(offer), c.pt = d.pt
      PROVE  c = d
  <2>1. PICK i \in DOMAIN offer, j \in DOMAIN offer :
          \E m \in DOMAIN offer[i].rtp, n \in DOMAIN offer[j].rtp :
            c = ExtractedCodec(offer[i], m) /\ d = ExtractedCodec(offer[j], n)
    BY <1>2, Zenon
  <2>2. PICK m \in DOMAIN offer[i].rtp, n \in DOMAIN offer[j].rtp :
          c = ExtractedCodec(offer[i], m) /\ d = ExtractedCodec(offer[j], n)
    BY <2>1
  <2>3. offer[i].rtp[m].pt = offer[j].rtp[n].pt
    BY <1>3, <1>5, <2>2, Zenon
  <2>4. i = j /\ m = n
    <3>1. \A k, l \in DOMAIN offer : \A m1 \in DOMAIN offer[k].rtp, n1 \in DOMAIN offer[l].rtp :
            offer[k].rtp[m1].pt = offer[l].rtp[n1].pt => k = l /\ m1 = n1
      BY DeviceAssumption
    <3> QED  BY <2>3, <3>1
  <2>5. offer[i] = offer[j]
    BY <2>4
  <2> QED  BY <2>2, <2>4, <2>5
<1>6. IsFiniteSet(CodecsRead(offer))
  <2>1. ASSUME NEW m \in SectionsRead(offer) PROVE IsFiniteSet(Of(m))
    <3>1. DOMAIN m.rtp = 1..Len(m.rtp) /\ Len(m.rtp) \in Nat
      <4>1. Finite(m.rtp)
        BY <1>1, DeviceAssumption DEF IsOffer
      <4> QED  BY <4>1, FiniteIndices
    <3> DEFINE f == [n \in DOMAIN m.rtp |-> ExtractedCodec(m, n)]
    <3>2. IsFiniteSet(DOMAIN f) /\ DOMAIN f = DOMAIN m.rtp
      BY <3>1, FS_Interval
    <3>3. Of(m) = {f[n] : n \in DOMAIN f}
      OBVIOUS
    <3> HIDE DEF f, Of
    <3> QED  BY <3>2, <3>3, FiniteImage
  <2>2. IsFiniteSet(SectionsRead(offer)) /\ IsFiniteSet({Of(m) : m \in SectionsRead(offer)})
    <3> DEFINE f == [kind \in KindsOf(offer) |-> FirstSection(offer, kind)]
               g == [m \in SectionsRead(offer) |-> Of(m)]
    <3>1. IsFiniteSet(KindsOf(offer))
      <4>1. IsFiniteSet({"audio"} \cup {"video"})
        BY FS_Singleton, FS_AddElement
      <4>2. KindsOf(offer) \subseteq {"audio"} \cup {"video"}
        BY DEF KindsOf
      <4> QED  BY <4>1, <4>2, FS_Subset
    <3>2. DOMAIN f = KindsOf(offer) /\ SectionsRead(offer) = {f[kind] : kind \in DOMAIN f}
      BY DEF SectionsRead
    <3>3. IsFiniteSet(SectionsRead(offer))
      <4> HIDE DEF f
      <4> QED  BY <3>1, <3>2, FiniteImage
    <3>4. DOMAIN g = SectionsRead(offer)
          /\ {Of(m) : m \in SectionsRead(offer)} = {g[m] : m \in DOMAIN g}
      <4> HIDE DEF Of
      <4> QED  OBVIOUS
    <3>5. IsFiniteSet({g[m] : m \in DOMAIN g})
      <4> HIDE DEF g
      <4> QED  BY <3>3, <3>4, FiniteImage
    <3> QED  BY <3>3, <3>4, <3>5
  <2>3. \A T \in {Of(m) : m \in SectionsRead(offer)} : IsFiniteSet(T)
    <3> HIDE DEF Of
    <3> QED  BY <2>1
  <2>4. CodecsRead(offer) = UNION {Of(m) : m \in SectionsRead(offer)}
    BY Zenon DEF CodecsRead
  <2> HIDE DEF Of
  <2> QED  BY <2>2, <2>3, <2>4, FS_UNION
<1> QED  BY <1>4, <1>5, <1>6

-----------------------------------------------------------------------------
(***************************************************************************)
(* The fold over the codecs of the router.                                 *)
(***************************************************************************)

\* A fold over the indices in D, the greatest of which comes last.
Folds(f, base, s, D) ==
    f = [t \in SUBSET D |-> IF t = {} THEN base ELSE ExtendCodec(f[t \ {Max(t)}], s[Max(t)])]

\* The recursive function behind FoldLeft has a value for every set of indices.
LEMMA FoldExists ==
    ASSUME NEW base, NEW s, NEW n \in Nat
    PROVE  \E f : Folds(f, base, s, 1..n)
<1> DEFINE Step(f, t) == IF t = {} THEN base ELSE ExtendCodec(f[t \ {Max(t)}], s[Max(t)])
           T == {k \in Nat : \E f : f = [t \in SUBSET (1..k) |-> Step(f, t)]}
<1>1. 0 \in T
  <2>1. SUBSET (1..0) = {{}}
    OBVIOUS
  <2> DEFINE f == [t \in SUBSET (1..0) |-> base]
  <2>2. \A t \in SUBSET (1..0) : f[t] = Step(f, t)
    BY <2>1
  <2>3. f = [t \in SUBSET (1..0) |-> Step(f, t)]
    <3> HIDE DEF Step
    <3> QED  BY <2>2
  <2>4. \E g : g = [t \in SUBSET (1..0) |-> Step(g, t)]
    <3> HIDE DEF Step, f
    <3> QED  BY <2>3
  <2> HIDE DEF Step
  <2> QED  BY <2>4
<1>2. ASSUME NEW k \in T PROVE k + 1 \in T
  <2>1. PICK f : f = [t \in SUBSET (1..k) |-> Step(f, t)]
    OBVIOUS
  <2> DEFINE g == [t \in SUBSET (1..k + 1) |->
                     IF k + 1 \in t THEN ExtendCodec(f[t \ {k + 1}], s[k + 1]) ELSE f[t]]
  <2>2. ASSUME NEW t \in SUBSET (1..k + 1) PROVE g[t] = Step(g, t)
    <3>1. CASE k + 1 \in t
      <4>1. Max(t) = k + 1
        BY <3>1, MaxOfIndices
      <4>2. t \ {k + 1} \in SUBSET (1..k + 1) /\ k + 1 \notin t \ {k + 1} /\ t # {}
        BY <3>1
      <4>3. g[t \ {k + 1}] = f[t \ {k + 1}]
        BY <4>2
      <4>4. g[t] = ExtendCodec(f[t \ {k + 1}], s[k + 1])
        BY <3>1
      <4> HIDE DEF g
      <4> QED  BY <4>1, <4>2, <4>3, <4>4
    <3>2. CASE k + 1 \notin t
      <4>1. t \in SUBSET (1..k)
        BY <3>2
      <4>2. f[t] = Step(f, t)
        <5> HIDE DEF Step
        <5> QED  BY <2>1, <4>1
      <4>3. t \ {Max(t)} \in SUBSET (1..k + 1) /\ k + 1 \notin t \ {Max(t)}
        BY <3>2
      <4>4. g[t \ {Max(t)}] = f[t \ {Max(t)}]
        BY <4>3
      <4>5. g[t] = f[t]
        BY <3>2
      <4> HIDE DEF g
      <4> QED  BY <4>2, <4>4, <4>5
    <3> QED  BY <3>1, <3>2
  <2>3. g = [t \in SUBSET (1..k + 1) |-> Step(g, t)]
    <3> HIDE DEF Step
    <3> QED  BY <2>2
  <2>4. \E h : h = [t \in SUBSET (1..k + 1) |-> Step(h, t)]
    <3> HIDE DEF g, Step
    <3> QED  BY <2>3
  <2> HIDE DEF Step
  <2> QED  BY <2>4
<1>3. T = Nat
  <2> HIDE DEF Step
  <2> QED  BY <1>1, <1>2, AllNumbers
<1>4. n \in T
  BY <1>3
<1>5. PICK f : f = [t \in SUBSET (1..n) |-> Step(f, t)]
  <2> HIDE DEF Step
  <2> QED  BY <1>4
<1>6. Folds(f, base, s, 1..n)
  BY <1>5, Zenon DEF Folds
<1> QED  BY <1>6

\* The codecs of the router are gone through one after the other.
LEMMA FoldUnfolds ==
    ASSUME NEW base, NEW remote, Finite(remote)
    PROVE  \E m : /\ m[0] = base
                  /\ \A k \in DOMAIN remote : m[k] = ExtendCodec(m[k - 1], remote[k])
                  /\ FoldLeft(ExtendCodec, base, remote) = m[Len(remote)]
<1> DEFINE n == Len(remote)
           iter == CHOOSE f : Folds(f, base, remote, DOMAIN remote)
           m == [k \in 0..n |-> iter[1..k]]
<1>1. n \in Nat /\ DOMAIN remote = 1..n
  BY FiniteIndices
<1>2. Folds(iter, base, remote, DOMAIN remote)
  <2>1. \E f : Folds(f, base, remote, DOMAIN remote)
    <3> HIDE DEF n
    <3> QED  BY <1>1, FoldExists
  <2> QED  BY <2>1, Zenon
<1>3. FoldLeft(ExtendCodec, base, remote) = iter[DOMAIN remote]
  BY Zenon DEF FoldLeft, MapThenFoldSet, Folds
<1> HIDE DEF iter, n
<1>4. m[0] = base
  <2>1. 1..0 = {} /\ {} \in SUBSET (DOMAIN remote) /\ 0 \in 0..n
    BY <1>1
  <2>2. iter[{}] = base
    BY <1>2, <2>1 DEF Folds
  <2> QED  BY <2>1, <2>2
<1>5. ASSUME NEW k \in DOMAIN remote PROVE m[k] = ExtendCodec(m[k - 1], remote[k])
  <2>1. k \in 1..n /\ k - 1 \in 0..n /\ k \in 0..n /\ k \in Nat
    BY <1>1
  <2>2. 1..k \in SUBSET (DOMAIN remote) /\ 1..k # {} /\ k \in 1..k
    BY <1>1, <2>1
  <2>3. Max(1..k) = k
    BY <2>1, <2>2, MaxOfIndices
  <2>4. (1..k) \ {k} = 1..k - 1
    BY <2>1
  <2>5. iter[1..k] = ExtendCodec(iter[(1..k) \ {Max(1..k)}], remote[Max(1..k)])
    <3>1. PICK t : t = 1..k
      OBVIOUS
    <3>2. iter[t] = ExtendCodec(iter[t \ {Max(t)}], remote[Max(t)])
      BY <1>2, <2>2, <3>1 DEF Folds
    <3> QED  BY <3>1, <3>2, Zenon
  <2>6. m[k] = iter[1..k] /\ m[k - 1] = iter[1..k - 1]
    BY <2>1
  <2> HIDE DEF m
  <2> QED  BY <2>3, <2>4, <2>5, <2>6
<1>6. m[n] = iter[DOMAIN remote]
  <2>1. n \in 0..n
    BY <1>1
  <2> QED  BY <1>1, <2>1
<1> HIDE DEF m
<1> QED  BY <1>3, <1>4, <1>5, <1>6 DEF n

-----------------------------------------------------------------------------
(***************************************************************************)
(* What is negotiated.                                                     *)
(***************************************************************************)
IsCodecs(codecs) == Finite(codecs) /\ \A i \in DOMAIN codecs : IsCodec(codecs[i])

\* Validation changes neither the order of the codecs nor what they are known by.
LEMMA ValidatedCodecs ==
    ASSUME NEW caps, IsCodecs(caps.codecs)
    PROVE  LET valid == ValidateRtpCapabilities(caps).codecs
           IN  /\ IsCodecs(valid) /\ DOMAIN valid = DOMAIN caps.codecs
               /\ \A i \in DOMAIN valid :
                    /\ valid[i].pt = caps.codecs[i].pt /\ valid[i].mime = caps.codecs[i].mime
                    /\ valid[i].apt = caps.codecs[i].apt
<1> DEFINE codecs == caps.codecs
           valid == ValidateRtpCapabilities(caps).codecs
<1>1. valid = [i \in DOMAIN codecs |-> ValidateRtpCodecCapability(codecs[i])]
  BY DEF ValidateRtpCapabilities
<1>2. Len(codecs) \in Nat /\ DOMAIN codecs = 1..Len(codecs)
  BY FiniteIndices DEF IsCodecs
<1>3. ASSUME NEW c, IsCodec(c)
      PROVE  LET v == ValidateRtpCodecCapability(c)
             IN  IsCodec(v) /\ v.pt = c.pt /\ v.mime = c.mime /\ v.apt = c.apt
  BY <1>3 DEF IsCodec, CodecMembers, ValidateRtpCodecCapability
<1> HIDE DEF valid
<1>4. Finite(valid)
  <2>1. valid = [i \in 1..Len(codecs) |-> valid[i]]
    <3> HIDE DEF codecs
    <3> QED  BY <1>1, <1>2
  <2> QED  BY <1>2, <2>1, IndexedIsFinite
<1>5. \A i \in DOMAIN codecs : IsCodec(codecs[i])
  BY DEF IsCodecs
<1>6. DOMAIN valid = DOMAIN codecs
      /\ \A i \in DOMAIN codecs : valid[i] = ValidateRtpCodecCapability(codecs[i])
  BY <1>1
<1> HIDE DEF codecs
<1>7. \A i \in DOMAIN valid :
        /\ IsCodec(valid[i])
        /\ valid[i].pt = codecs[i].pt /\ valid[i].mime = codecs[i].mime
        /\ valid[i].apt = codecs[i].apt
  BY <1>3, <1>5, <1>6
<1> QED  BY <1>4, <1>6, <1>7 DEF IsCodecs, codecs, valid

ExtendedMembers ==
    {"mime", "kind", "channels", "localPt", "localRtxPt", "remotePt", "remoteRtxPt",
     "localParameters", "remoteParameters", "rtcpFeedback"}

\* A codec that both sides have, its level no higher than our own.
Agreed(codec, own, theirs) ==
    /\ DOMAIN codec = ExtendedMembers
    /\ MatchCodecs(own, theirs, TRUE) /\ ~IsRtxCodec(theirs)
    /\ codec.mime = theirs.mime /\ codec.kind = theirs.kind
    /\ codec.localPt = own.pt /\ codec.remotePt = PayloadTypeOf(theirs)
    /\ codec.localParameters.level = codec.remoteParameters.level
    /\ codec.localParameters.level <= own.level

\* Our codec, perhaps with a lower level.
Lowered(codec, own) ==
    /\ IsCodec(codec)
    /\ codec.mime = own.mime /\ codec.kind = own.kind /\ codec.channels = own.channels
    /\ codec.profile = own.profile /\ codec.pt = own.pt
    /\ codec.level <= own.level

\* A codec that has no RTX codec yet.
Bare(codec) == codec.localRtxPt = Null /\ codec.remoteRtxPt = Null

\* The state of the fold after the first k codecs of the router.
Negotiated(m, k, local, remote) ==
    /\ Finite(m.local) /\ DOMAIN m.local = DOMAIN local
    /\ \A i \in DOMAIN local : Lowered(m.local[i], local[i])
    /\ Finite(m.codecs)
    /\ \A x \in DOMAIN m.codecs : Bare(m.codecs[x]) /\ \E i \in DOMAIN local, j \in 1..k :
         Agreed(m.codecs[x], local[i], remote[j])
    /\ \A x, y \in DOMAIN m.codecs : m.codecs[x].remotePt = m.codecs[y].remotePt => x = y
    /\ \A i \in DOMAIN local, j \in 1..k :
         MatchCodecs(local[i], remote[j], TRUE) /\ ~IsRtxCodec(remote[j])
           => \E x \in DOMAIN m.codecs : m.codecs[x].remotePt = PayloadTypeOf(remote[j])

\* Codecs of a router, each at a payload type of its own.
IsRouter(remote) ==
    /\ IsCodecs(remote)
    /\ \A i, j \in DOMAIN remote : PayloadTypeOf(remote[i]) = PayloadTypeOf(remote[j]) => i = j

\* The level of the answer is a level, and no higher than our own.
LEMMA AnswerLevelIsLower ==
    ASSUME NEW own, NEW theirs, own.level \in Nat, theirs.level \in Nat
    PROVE  AnswerLevel(own, theirs) \in Nat /\ AnswerLevel(own, theirs) <= own.level
BY DEF AnswerLevel

\* An element more at the end of a list.
LEMMA AppendedElement ==
    ASSUME NEW s, Finite(s), NEW e
    PROVE  /\ Finite(Append(s, e)) /\ DOMAIN Append(s, e) = DOMAIN s \cup {Len(s) + 1}
           /\ \A i \in DOMAIN s : Append(s, e)[i] = s[i] /\ i # Len(s) + 1
           /\ Append(s, e)[Len(s) + 1] = e
<1> DEFINE t == Append(s, e)
<1>1. s \in Seq(ToSet(s) \cup {e}) /\ Len(s) \in Nat /\ DOMAIN s = 1..Len(s)
  <2>1. s \in Seq(ToSet(s))
    BY DEF Finite
  <2> HIDE DEF t
  <2> QED  BY <2>1
<1>2. t \in Seq(ToSet(s) \cup {e}) /\ Len(t) = Len(s) + 1 /\ DOMAIN t = 1..Len(s) + 1
      /\ (\A i \in 1..Len(s) : t[i] = s[i]) /\ t[Len(s) + 1] = e
  BY <1>1
<1>3. t = [i \in 1..Len(s) + 1 |-> t[i]]
  <2> HIDE DEF t
  <2> QED  BY <1>2
<1>4. Finite(t)
  <2>1. Len(s) + 1 \in Nat
    BY <1>1
  <2> HIDE DEF t
  <2> QED  BY <1>3, <2>1, IndexedIsFinite
<1>5. 1..Len(s) + 1 = (1..Len(s)) \cup {Len(s) + 1}
  BY <1>1
<1> HIDE DEF t
<1>6. \A i \in 1..Len(s) : i # Len(s) + 1
  BY <1>1
<1> QED  BY <1>1, <1>2, <1>4, <1>5, <1>6 DEF t

\* One codec of the router is negotiated.
LEMMA ExtendStep ==
    ASSUME NEW local, IsCodecs(local), NEW remote, IsRouter(remote),
           NEW k \in Nat, k + 1 \in DOMAIN remote, NEW m, Negotiated(m, k, local, remote)
    PROVE  Negotiated(ExtendCodec(m, remote[k + 1]), k + 1, local, remote)
<1> DEFINE theirs == remote[k + 1]
           I == {i \in 1..Len(m.local) : MatchCodecs(m.local[i], theirs, TRUE)}
<1>1. /\ Len(m.local) \in Nat /\ DOMAIN m.local = 1..Len(m.local) /\ DOMAIN m.local = DOMAIN local
      /\ \A i \in DOMAIN local : Lowered(m.local[i], local[i])
  BY FiniteIndices DEF Negotiated
<1>2. \A i \in DOMAIN local, j \in DOMAIN remote :
        MatchCodecs(m.local[i], remote[j], TRUE) <=> MatchCodecs(local[i], remote[j], TRUE)
  BY <1>1 DEF Lowered, MatchCodecs
<1>3. \A j : j \in 1..k + 1 <=> j \in 1..k \/ j = k + 1
  OBVIOUS
<1>4. CASE IsRtxCodec(theirs) \/ I = {}
  <2>1. ExtendCodec(m, theirs) = m
    BY <1>4, Zenon DEF ExtendCodec, SelectInSeq
  <2>2. \A i \in DOMAIN local : ~ (MatchCodecs(local[i], theirs, TRUE) /\ ~IsRtxCodec(theirs))
    BY <1>1, <1>2, <1>4
  <2> HIDE DEF theirs
  <2>3. Negotiated(m, k + 1, local, remote)
    BY <1>3, <2>2 DEF Negotiated, theirs
  <2> QED  BY <2>1, <2>3 DEF theirs
<1>5. CASE ~IsRtxCodec(theirs) /\ I # {}
  <2> DEFINE i == Min(I)
             own == m.local[i]
             level == AnswerLevel(own, theirs)
             lowered == [own EXCEPT !.level = level]
             codec == [mime |-> lowered.mime, kind |-> lowered.kind, channels |-> lowered.channels,
                       localPt |-> lowered.pt, localRtxPt |-> Null,
                       remotePt |-> PayloadTypeOf(theirs), remoteRtxPt |-> Null,
                       localParameters |-> [profile |-> lowered.profile, level |-> level],
                       remoteParameters |-> [profile |-> theirs.profile, level |-> level],
                       rtcpFeedback |-> ReduceRtcpFeedback(lowered, theirs)]
             after == ExtendCodec(m, theirs)
  <2>1. i \in I /\ i # 0
    <3>1. I \subseteq Nat /\ 0 \notin I
      <4>1. I \subseteq 1..Len(m.local)
        OBVIOUS
      <4> HIDE DEF I
      <4> QED  BY <1>1, <4>1
    <3>2. i \in I
      <4> HIDE DEF I
      <4> QED  BY <1>5, <3>1, MinOfIndices
    <3> HIDE DEF I, i
    <3> QED  BY <3>1, <3>2
  <2>2. after = [local |-> [m.local EXCEPT ![i] = lowered], codecs |-> Append(m.codecs, codec)]
    <3>1. SelectInSeq(m.local, LAMBDA c : MatchCodecs(c, theirs, TRUE)) = i
      BY <1>5, Zenon DEF SelectInSeq
    <3> HIDE DEF I, i
    <3> QED  BY <1>5, <2>1, <3>1, Zenon DEF ExtendCodec
  <2>3. i \in DOMAIN local /\ Lowered(own, local[i]) /\ IsCodec(local[i]) /\ IsCodec(theirs)
        /\ MatchCodecs(local[i], theirs, TRUE)
    BY <1>1, <1>2, <2>1 DEF IsCodecs, IsRouter
  <2> HIDE DEF I, i, theirs
  <2>4. level \in Nat /\ level <= own.level /\ own.level <= local[i].level /\ level <= local[i].level
    <3>1. own.level \in Nat /\ theirs.level \in Nat /\ local[i].level \in Nat
          /\ own.level <= local[i].level
      BY <2>3 DEF Lowered, IsCodec
    <3>2. level \in Nat /\ level <= own.level
      <4> HIDE DEF own
      <4> QED  BY <3>1, AnswerLevelIsLower
    <3> HIDE DEF level, own
    <3> QED  BY <3>1, <3>2
  <2> HIDE DEF level
  <2>5. Lowered(lowered, local[i])
    BY <2>3, <2>4 DEF Lowered, IsCodec, CodecMembers
  <2>6. Agreed(codec, local[i], theirs) /\ Bare(codec)
    <3>1. lowered.mime = local[i].mime /\ lowered.kind = local[i].kind /\ lowered.pt = local[i].pt
      BY <2>5 DEF Lowered
    <3>2. local[i].mime = theirs.mime /\ local[i].kind = theirs.kind
      BY <2>3 DEF MatchCodecs
    <3> HIDE DEF lowered
    <3> QED  BY <1>5, <2>3, <2>4, <3>1, <3>2 DEF Agreed, ExtendedMembers, Bare
  <2> HIDE DEF own, lowered, codec, after
  <2>7. Finite(after.local) /\ DOMAIN after.local = DOMAIN local
        /\ \A n \in DOMAIN local : Lowered(after.local[n], local[n])
    <3>1. after.local = [m.local EXCEPT ![i] = lowered]
      BY <2>2
    <3>2. after.local = [n \in 1..Len(m.local) |-> after.local[n]] /\ DOMAIN after.local = DOMAIN local
      <4>1. m.local = [n \in 1..Len(m.local) |-> m.local[n]]
        <5>1. m.local \in Seq(ToSet(m.local))
          BY DEF Negotiated, Finite
        <5> QED  BY <5>1
      <4> QED  BY <1>1, <3>1, <4>1
    <3>3. Finite(after.local)
      BY <1>1, <3>2, IndexedIsFinite
    <3> QED  BY <1>1, <2>5, <3>1, <3>2, <3>3
  <2>8. after.codecs = Append(m.codecs, codec) /\ Finite(m.codecs)
    BY <2>2 DEF Negotiated
  <2> DEFINE last == Len(m.codecs) + 1
  <2>9. /\ Finite(after.codecs) /\ DOMAIN after.codecs = DOMAIN m.codecs \cup {last}
        /\ (\A x \in DOMAIN m.codecs : after.codecs[x] = m.codecs[x] /\ x # last)
        /\ after.codecs[last] = codec
    BY <2>8, AppendedElement
  <2> HIDE DEF last
  <2>10. /\ \A x \in DOMAIN m.codecs : Bare(m.codecs[x]) /\ \E n \in DOMAIN local, j \in 1..k :
              Agreed(m.codecs[x], local[n], remote[j])
         /\ \A x, y \in DOMAIN m.codecs : m.codecs[x].remotePt = m.codecs[y].remotePt => x = y
         /\ \A n \in DOMAIN local, j \in 1..k :
              MatchCodecs(local[n], remote[j], TRUE) /\ ~IsRtxCodec(remote[j])
                => \E x \in DOMAIN m.codecs : m.codecs[x].remotePt = PayloadTypeOf(remote[j])
    BY DEF Negotiated
  <2>11. \A x \in DOMAIN after.codecs :
           Bare(after.codecs[x]) /\ \E n \in DOMAIN local, j \in 1..k + 1 :
             Agreed(after.codecs[x], local[n], remote[j])
    BY <1>3, <2>3, <2>6, <2>9, <2>10 DEF theirs
  <2>12. codec.remotePt = PayloadTypeOf(theirs)
    BY <2>6 DEF Agreed
  <2>13. \A x \in DOMAIN m.codecs : m.codecs[x].remotePt # PayloadTypeOf(theirs)
    <3> SUFFICES ASSUME NEW x \in DOMAIN m.codecs PROVE m.codecs[x].remotePt # PayloadTypeOf(theirs)
      OBVIOUS
    <3>1. PICK j \in 1..k : m.codecs[x].remotePt = PayloadTypeOf(remote[j])
      BY <2>10 DEF Agreed
    <3>2. j \in DOMAIN remote /\ j # k + 1
      <4>1. DOMAIN remote = 1..Len(remote) /\ Len(remote) \in Nat
        BY FiniteIndices DEF IsRouter, IsCodecs
      <4> QED  BY <4>1
    <3> QED  BY <3>1, <3>2 DEF IsRouter, theirs
  <2>14. \A x, y \in DOMAIN after.codecs :
           after.codecs[x].remotePt = after.codecs[y].remotePt => x = y
    BY <2>9, <2>10, <2>12, <2>13
  <2>15. \A n \in DOMAIN local, j \in 1..k + 1 :
           MatchCodecs(local[n], remote[j], TRUE) /\ ~IsRtxCodec(remote[j])
             => \E x \in DOMAIN after.codecs : after.codecs[x].remotePt = PayloadTypeOf(remote[j])
    BY <1>3, <2>9, <2>10, <2>12 DEF theirs
  <2>16. Negotiated(after, k + 1, local, remote)
    BY <2>7, <2>9, <2>11, <2>14, <2>15, Zenon DEF Negotiated
  <2> QED  BY <2>16 DEF after, theirs
<1> QED  BY <1>4, <1>5

\* All codecs of the router are negotiated.
LEMMA FoldNegotiates ==
    ASSUME NEW local, IsCodecs(local), NEW remote, IsRouter(remote)
    PROVE  Negotiated(FoldLeft(ExtendCodec, [local |-> local, codecs |-> <<>>], remote),
                      Len(remote), local, remote)
<1> DEFINE base == [local |-> local, codecs |-> <<>>]
           n == Len(remote)
<1>1. Finite(remote) /\ n \in Nat /\ DOMAIN remote = 1..n
  BY FiniteIndices DEF IsRouter, IsCodecs
<1>2. Negotiated(base, 0, local, remote)
  <2>1. Finite(<<>>) /\ DOMAIN <<>> = {}
    BY DEF Finite
  <2>2. base.local = local /\ base.codecs = <<>>
    OBVIOUS
  <2>3. \A i \in DOMAIN local : Lowered(local[i], local[i])
    BY DEF IsCodecs, Lowered, IsCodec
  <2>4. Finite(local)
    BY DEF IsCodecs
  <2>5. 1..0 = {}
    OBVIOUS
  <2> HIDE DEF base
  <2> QED  BY <2>1, <2>2, <2>3, <2>4, <2>5 DEF Negotiated
<1> HIDE DEF base, n
<1>3. PICK m : /\ m[0] = base
               /\ \A k \in DOMAIN remote : m[k] = ExtendCodec(m[k - 1], remote[k])
               /\ FoldLeft(ExtendCodec, base, remote) = m[n]
  BY <1>1, FoldUnfolds DEF n
<1> DEFINE T == {k \in Nat : k \in 0..n => Negotiated(m[k], k, local, remote)}
<1>4. 0 \in T
  BY <1>2, <1>3
<1>5. ASSUME NEW k \in T PROVE k + 1 \in T
  <2> SUFFICES ASSUME k + 1 \in 0..n PROVE Negotiated(m[k + 1], k + 1, local, remote)
    OBVIOUS
  <2>1. k \in Nat /\ k \in 0..n /\ k + 1 \in DOMAIN remote
    BY <1>1
  <2>2. Negotiated(m[k], k, local, remote)
    BY <2>1
  <2>3. m[k + 1] = ExtendCodec(m[k], remote[k + 1])
    <3>1. PICK j \in DOMAIN remote : j = k + 1
      BY <2>1
    <3>2. j - 1 = k
      BY <2>1, <3>1
    <3>3. m[j] = ExtendCodec(m[j - 1], remote[j])
      BY <1>3
    <3> QED  BY <3>1, <3>2, <3>3, Zenon
  <2> QED  BY <2>1, <2>2, <2>3, ExtendStep
<1>6. T = Nat
  BY <1>4, <1>5, AllNumbers
<1>7. Negotiated(m[n], n, local, remote)
  BY <1>1, <1>6
<1> QED  BY <1>3, <1>7 DEF base, n

\* What is known of the RTX codecs of a negotiated codec: it has one if each
\* side has one for it, and the payload types of both.
RtxAgreed(codec, local, remote) ==
    \/ /\ Bare(codec)
       /\ \A i \in DOMAIN local, j \in DOMAIN remote :
            ~ /\ IsRtxCodec(local[i]) /\ local[i].apt = codec.localPt
              /\ IsRtxCodec(remote[j]) /\ remote[j].apt = codec.remotePt
    \/ \E i \in DOMAIN local, j \in DOMAIN remote :
         /\ IsRtxCodec(local[i]) /\ local[i].apt = codec.localPt
         /\ IsRtxCodec(remote[j]) /\ remote[j].apt = codec.remotePt
         /\ codec.localRtxPt = local[i].pt /\ codec.remoteRtxPt = PayloadTypeOf(remote[j])

NegotiatedCodecs(codecs, local, remote) ==
    /\ Finite(codecs)
    /\ \A x \in DOMAIN codecs :
         /\ \E i \in DOMAIN local, j \in DOMAIN remote : Agreed(codecs[x], local[i], remote[j])
         /\ RtxAgreed(codecs[x], local, remote)
    /\ \A x, y \in DOMAIN codecs : codecs[x].remotePt = codecs[y].remotePt => x = y
    /\ \A i \in DOMAIN local, j \in DOMAIN remote :
         MatchCodecs(local[i], remote[j], TRUE) /\ ~IsRtxCodec(remote[j])
           => \E x \in DOMAIN codecs : codecs[x].remotePt = PayloadTypeOf(remote[j])

\* The first RTX codec for a payload type.
LEMMA RtxForFinds ==
    ASSUME NEW codecs, Finite(codecs), NEW pt
    PROVE  \/ /\ RtxFor(codecs, pt) = 0
              /\ \A i \in DOMAIN codecs : ~ (IsRtxCodec(codecs[i]) /\ codecs[i].apt = pt)
           \/ /\ RtxFor(codecs, pt) \in DOMAIN codecs /\ RtxFor(codecs, pt) # 0
              /\ IsRtxCodec(codecs[RtxFor(codecs, pt)]) /\ codecs[RtxFor(codecs, pt)].apt = pt
<1> DEFINE I == {i \in 1..Len(codecs) : IsRtxCodec(codecs[i]) /\ codecs[i].apt = pt}
<1>1. Len(codecs) \in Nat /\ DOMAIN codecs = 1..Len(codecs)
  BY FiniteIndices
<1>2. CASE I = {}
  <2>1. RtxFor(codecs, pt) = 0
    BY <1>2, Zenon DEF RtxFor, SelectInSeq
  <2> QED  BY <1>1, <1>2, <2>1
<1>3. CASE I # {}
  <2>1. RtxFor(codecs, pt) = Min(I)
    BY <1>3, Zenon DEF RtxFor, SelectInSeq
  <2>2. I \subseteq 1..Len(codecs)
    OBVIOUS
  <2>3. Min(I) \in I
    <3> HIDE DEF I
    <3>1. I \subseteq Nat
      BY <1>1, <2>2
    <3> QED  BY <1>3, <3>1, MinOfIndices
  <2>4. Min(I) # 0
    BY <1>1, <2>3
  <2> QED  BY <1>1, <2>1, <2>3, <2>4
<1> QED  BY <1>2, <1>3

\* A codec gets its RTX codecs, and is the same otherwise.
LEMMA AddRtxAgrees ==
    ASSUME NEW local, Finite(local), NEW remote, Finite(remote),
           NEW codec, DOMAIN codec = ExtendedMembers, Bare(codec)
    PROVE  /\ RtxAgreed(AddRtx(codec, local, remote), local, remote)
           /\ AddRtx(codec, local, remote).remotePt = codec.remotePt
           /\ \A own, theirs : Agreed(codec, own, theirs)
                => Agreed(AddRtx(codec, local, remote), own, theirs)
<1> DEFINE i == RtxFor(local, codec.localPt)
           j == RtxFor(remote, codec.remotePt)
           after == AddRtx(codec, local, remote)
<1>1. CASE i = 0 \/ j = 0
  <2>1. after = codec
    BY <1>1 DEF AddRtx
  <2> QED  BY <1>1, <2>1, RtxForFinds DEF RtxAgreed
<1>2. CASE ~ (i = 0 \/ j = 0)
  <2>1. after = [codec EXCEPT !.localRtxPt = local[i].pt, !.remoteRtxPt = PayloadTypeOf(remote[j])]
    BY <1>2 DEF AddRtx
  <2>2. /\ i \in DOMAIN local /\ IsRtxCodec(local[i]) /\ local[i].apt = codec.localPt
        /\ j \in DOMAIN remote /\ IsRtxCodec(remote[j]) /\ remote[j].apt = codec.remotePt
    BY <1>2, RtxForFinds
  <2> HIDE DEF i, j, after
  <2>3. /\ DOMAIN after = ExtendedMembers
        /\ after.localRtxPt = local[i].pt /\ after.remoteRtxPt = PayloadTypeOf(remote[j])
        /\ after.mime = codec.mime /\ after.kind = codec.kind
        /\ after.localPt = codec.localPt /\ after.remotePt = codec.remotePt
        /\ after.localParameters = codec.localParameters
        /\ after.remoteParameters = codec.remoteParameters
    BY <2>1 DEF ExtendedMembers
  <2>4. RtxAgreed(after, local, remote)
    BY <2>2, <2>3 DEF RtxAgreed
  <2>5. \A own, theirs : Agreed(codec, own, theirs) => Agreed(after, own, theirs)
    BY <2>3 DEF Agreed
  <2> QED  BY <2>3, <2>4, <2>5 DEF after
<1> QED  BY <1>1, <1>2

OwnCodecs(offer) == ValidateRtpCapabilities(ExtractRtpCapabilities(offer)).codecs
TheirCodecs(caps) == ValidateRtpCapabilities(caps).codecs
Extended(offer, caps) == GetExtendedRtpCapabilities(ExtractRtpCapabilities(offer), caps)

\* The codecs of our offer, read and validated.
LEMMA OwnCodecsRead ==
    ASSUME NEW offer \in NativeOffers
    PROVE  /\ IsCodecs(OwnCodecs(offer))
           /\ ValidCaps(ExtractRtpCapabilities(offer)) =>
                \A i \in DOMAIN OwnCodecs(offer) : OwnCodecs(offer)[i].pt # Null
<1>1. ExtractRtpCapabilities(offer).codecs = InOrderOfPt(CodecsRead(offer))
  BY DEF ExtractRtpCapabilities, CodecsRead, SectionsRead
<1>2. IsCodecs(InOrderOfPt(CodecsRead(offer)))
  BY CodecsOfOffer, OrderedByPt, Zenon DEF IsCodecs
<1> QED  BY <1>1, <1>2, ValidatedCodecs DEF OwnCodecs, ValidCaps, ValidCodec

\* The codecs of the router, validated.
LEMMA TheirCodecsRead ==
    ASSUME NEW caps \in RouterCaps, ValidCaps(caps)
    PROVE  /\ IsRouter(TheirCodecs(caps))
           /\ \A j \in DOMAIN TheirCodecs(caps) :
                /\ PayloadTypeOf(TheirCodecs(caps)[j]) \in Nat \cup {Null}
                /\ TheirCodecs(caps)[j].pt # Null
<1> DEFINE codecs == TheirCodecs(caps)
<1>1. IsCodecs(caps.codecs)
  BY DeviceAssumption DEF IsCaps, IsCodecs, IsCodec
<1>2. /\ IsCodecs(codecs) /\ DOMAIN codecs = DOMAIN caps.codecs
      /\ \A i \in DOMAIN codecs : codecs[i].pt = caps.codecs[i].pt
  BY <1>1, ValidatedCodecs DEF TheirCodecs
<1>3. \A i \in DOMAIN codecs : codecs[i].pt \in Nat \cup {Absent} /\ codecs[i].pt # Null
  BY <1>2, DeviceAssumption DEF ValidCaps, ValidCodec
<1>4. \A i, j \in DOMAIN codecs : codecs[i].pt = codecs[j].pt => i = j
  BY <1>2, DeviceAssumption
<1> HIDE DEF codecs
<1>5. \A i, j \in DOMAIN codecs : PayloadTypeOf(codecs[i]) = PayloadTypeOf(codecs[j]) => i = j
  BY <1>3, <1>4 DEF PayloadTypeOf
<1>6. \A i \in DOMAIN codecs : PayloadTypeOf(codecs[i]) \in Nat \cup {Null}
  BY <1>3 DEF PayloadTypeOf
<1> QED  BY <1>2, <1>3, <1>5, <1>6 DEF IsRouter, codecs

\* Whoever offers an RTX codec for a payload type has it read so.
LEMMA OfferedRtxIsRead ==
    ASSUME NEW offer \in NativeOffers, NEW k \in DOMAIN offer, NEW j \in DOMAIN offer[k].fmtp,
           offer[k].fmtp[j].apt # Null
    PROVE  \E i \in DOMAIN OwnCodecs(offer) :
             /\ IsRtxCodec(OwnCodecs(offer)[i])
             /\ OwnCodecs(offer)[i].apt = offer[k].fmtp[j].apt
<1> DEFINE m == offer[k]
           read == ExtractRtpCapabilities(offer).codecs
<1>1. /\ Finite(m.fmtp) /\ m.type \in {"audio", "video"}
      /\ \A x \in DOMAIN m.fmtp : m.fmtp[j].pt = m.fmtp[x].pt => j = x
      /\ \A x, y \in DOMAIN offer : offer[x].type = offer[y].type => x = y
  BY DeviceAssumption DEF IsOffer
<1>2. PICK n \in DOMAIN m.rtp : m.rtp[n].pt = m.fmtp[j].pt /\ m.rtp[n].mime = "rtx"
  BY DeviceAssumption DEF IsOffer
<1>3. Fmtp(m, n) = m.fmtp[j]
  <2>1. \/ /\ Fmtp(m, n) = NoFmtp
           /\ \A x \in DOMAIN m.fmtp : m.fmtp[x].pt # m.rtp[n].pt
        \/ \E x \in DOMAIN m.fmtp : Fmtp(m, n) = m.fmtp[x] /\ m.fmtp[x].pt = m.rtp[n].pt
    BY <1>1, FmtpOfCodec
  <2> QED  BY <1>1, <1>2, <2>1
<1>4. m \in SectionsRead(offer)
  <2>1. m.type \in KindsOf(offer)
    BY <1>1 DEF KindsOf
  <2>2. PICK i \in DOMAIN offer : FirstSection(offer, m.type) = offer[i] /\ offer[i].type = m.type
    BY <2>1, SectionOfOffer
  <2>3. FirstSection(offer, m.type) = m
    BY <1>1, <2>2
  <2> QED  BY <2>1, <2>3, Zenon DEF SectionsRead
<1>5. ExtractedCodec(m, n) \in CodecsRead(offer)
  <2> DEFINE of == {ExtractedCodec(m, x) : x \in DOMAIN m.rtp}
  <2>1. ExtractedCodec(m, n) \in of
    BY <1>2
  <2>2. of \in {{ExtractedCodec(section, x) : x \in DOMAIN section.rtp} : section \in SectionsRead(offer)}
    <3> HIDE DEF m
    <3> QED  BY <1>4, Zenon DEF of
  <2> HIDE DEF of
  <2> QED  BY <2>1, <2>2, Zenon DEF CodecsRead
<1>6. ExtractedCodec(m, n).mime = "rtx" /\ ExtractedCodec(m, n).apt = m.fmtp[j].apt
  BY <1>2, <1>3 DEF ExtractedCodec
<1>7. read = InOrderOfPt(CodecsRead(offer))
  BY DEF ExtractRtpCapabilities, CodecsRead, SectionsRead
<1>8. PICK i \in DOMAIN read : read[i] = ExtractedCodec(m, n)
  <2> HIDE DEF m, read
  <2>1. \A c \in CodecsRead(offer) : \E x \in DOMAIN InOrderOfPt(CodecsRead(offer)) :
          InOrderOfPt(CodecsRead(offer))[x] = c
    BY CodecsOfOffer, OrderedByPt
  <2> QED  BY <1>5, <1>7, <2>1
<1>9. IsCodecs(read)
  BY <1>7, CodecsOfOffer, OrderedByPt, Zenon DEF IsCodecs
<1> HIDE DEF m, read
<1>10. /\ i \in DOMAIN OwnCodecs(offer)
       /\ OwnCodecs(offer)[i].mime = read[i].mime /\ OwnCodecs(offer)[i].apt = read[i].apt
  BY <1>9, ValidatedCodecs DEF OwnCodecs, read
<1> QED  BY <1>6, <1>8, <1>10 DEF IsRtxCodec, m

\* What is negotiated between the two.
LEMMA ExtendedNegotiated ==
    ASSUME NEW offer \in NativeOffers, NEW caps \in RouterCaps, ValidCaps(caps)
    PROVE  NegotiatedCodecs(Extended(offer, caps).codecs, OwnCodecs(offer), TheirCodecs(caps))
<1> DEFINE local == OwnCodecs(offer)
           remote == TheirCodecs(caps)
           matched == FoldLeft(ExtendCodec, [local |-> local, codecs |-> <<>>], remote)
           codecs == Extended(offer, caps).codecs
<1>1. IsCodecs(local) /\ IsRouter(remote)
  BY OwnCodecsRead, TheirCodecsRead
<1>2. codecs = [x \in DOMAIN matched.codecs |-> AddRtx(matched.codecs[x], local, remote)]
  BY DEF Extended, GetExtendedRtpCapabilities, OwnCodecs, TheirCodecs
<1> HIDE DEF local, remote, codecs
<1>3. Negotiated(matched, Len(remote), local, remote)
  BY <1>1, FoldNegotiates
<1> HIDE DEF matched
<1>4. /\ Finite(matched.codecs) /\ Finite(local) /\ Finite(remote)
      /\ Len(remote) \in Nat /\ DOMAIN remote = 1..Len(remote)
      /\ Len(matched.codecs) \in Nat /\ DOMAIN matched.codecs = 1..Len(matched.codecs)
  BY <1>1, <1>3, FiniteIndices DEF Negotiated, IsCodecs, IsRouter
<1>5. DOMAIN codecs = DOMAIN matched.codecs /\ Finite(codecs)
  <2>1. DOMAIN codecs = DOMAIN matched.codecs
    BY <1>2
  <2>2. codecs = [x \in 1..Len(matched.codecs) |-> codecs[x]]
    BY <1>2, <1>4
  <2> QED  BY <1>4, <2>1, <2>2, IndexedIsFinite
<1>6. ASSUME NEW x \in DOMAIN codecs
      PROVE  /\ RtxAgreed(codecs[x], local, remote)
             /\ codecs[x].remotePt = matched.codecs[x].remotePt
             /\ \E i \in DOMAIN local, j \in DOMAIN remote : Agreed(codecs[x], local[i], remote[j])
  <2>1. PICK i \in DOMAIN local, j \in DOMAIN remote : Agreed(matched.codecs[x], local[i], remote[j])
    BY <1>3, <1>4, <1>5 DEF Negotiated
  <2>2. Bare(matched.codecs[x]) /\ DOMAIN matched.codecs[x] = ExtendedMembers
    BY <1>3, <1>5, <2>1 DEF Negotiated, Agreed
  <2>3. codecs[x] = AddRtx(matched.codecs[x], local, remote)
    BY <1>2, <1>5
  <2> QED  BY <1>4, <2>1, <2>2, <2>3, AddRtxAgrees
<1>7. \A x, y \in DOMAIN codecs : codecs[x].remotePt = codecs[y].remotePt => x = y
  BY <1>3, <1>5, <1>6 DEF Negotiated
<1>8. \A i \in DOMAIN local, j \in DOMAIN remote :
        MatchCodecs(local[i], remote[j], TRUE) /\ ~IsRtxCodec(remote[j])
          => \E x \in DOMAIN codecs : codecs[x].remotePt = PayloadTypeOf(remote[j])
  BY <1>3, <1>4, <1>5, <1>6 DEF Negotiated
<1> QED  BY <1>5, <1>6, <1>7, <1>8 DEF NegotiatedCodecs, codecs, local, remote

-----------------------------------------------------------------------------
(***************************************************************************)
(* The inductive invariant: what a device has is what the last Load has    *)
(* negotiated, and what a transport has is taken from that.                *)
(***************************************************************************)
NeverLoaded ==
    /\ loaded = FALSE /\ canProduceByKind = [kind \in Kinds |-> FALSE]
    /\ <<extendedRtpCapabilities, native, router>> = <<Null, Null, Null>>

LastLoad ==
    /\ native \in NativeOffers /\ router \in RouterCaps
    /\ ValidCaps(router) /\ ValidCaps(ExtractRtpCapabilities(native))
    /\ extendedRtpCapabilities = Extended(native, router)
    /\ canProduceByKind = [kind \in Kinds |-> CanSend(kind, extendedRtpCapabilities)]
    /\ recvRtpCapabilities = GetRecvRtpCapabilities(extendedRtpCapabilities)
    /\ loaded = ValidCaps(recvRtpCapabilities)

TransportOf(extended) ==
    [sending |-> [kind \in Kinds |-> GetSendingRtpParameters(kind, extended)],
     sendingRemote |-> [kind \in Kinds |-> GetSendingRemoteRtpParameters(kind, extended)]]

IInv ==
    /\ NeverLoaded \/ LastLoad
    /\ sendTransport = Null \/ (loaded /\ sendTransport = TransportOf(extendedRtpCapabilities))

\* Load begins anew, and once it has succeeded there is no other.
THEOREM Invariance == Spec => []IInv
<1>1. Init => IInv
  BY DEF Init, IInv, NeverLoaded
<1>2. IInv /\ [Next]_vars => IInv'
  <2> SUFFICES ASSUME IInv, [Next]_vars PROVE IInv'
    OBVIOUS
  <2>1. CASE UNCHANGED vars
    BY <2>1 DEF vars, device, IInv, NeverLoaded, LastLoad
  <2>2. ASSUME NEW offer \in NativeOffers, NEW routerCaps \in RouterCaps, Load(offer, routerCaps)
        PROVE  IInv'
    <3>1. ~loaded /\ UNCHANGED sendTransport
      BY <2>2, Zenon DEF Load
    <3>2. LastLoad'
      BY <2>2, Zenon DEF Load, LastLoad, Extended
    <3> QED  BY <3>1, <3>2 DEF IInv
  <2>3. CASE CreateSendTransport
    <3>1. loaded /\ UNCHANGED <<device, native, router>>
          /\ sendTransport' = TransportOf(extendedRtpCapabilities)
      BY <2>3, Zenon DEF CreateSendTransport, TransportOf
    <3>2. (NeverLoaded \/ LastLoad)'
      BY <3>1 DEF device, IInv, NeverLoaded, LastLoad
    <3> QED  BY <3>1, <3>2 DEF device, IInv
  <2> QED  BY <2>1, <2>2, <2>3 DEF Next
<1> QED  BY <1>1, <1>2, PTL DEF Spec

\* What a loaded device has comes from the last Load.
LEMMA LoadedLast ==
    ASSUME IInv, loaded
    PROVE  LastLoad
BY DEF IInv, NeverLoaded

-----------------------------------------------------------------------------
(***************************************************************************)
(* What the device announces that it receives.                             *)
(***************************************************************************)
RecvList(extended) == [x \in DOMAIN extended.codecs |-> RecvCodecs(extended.codecs[x])]

\* The codecs that are announced are those lists, one behind the other.
LEMMA RecvPlaces ==
    ASSUME NEW local, NEW remote, NEW extended,
           NegotiatedCodecs(extended.codecs, local, remote)
    PROVE  \E at, nth : Places(GetRecvRtpCapabilities(extended).codecs, RecvList(extended),
                               Len(extended.codecs), at, nth)
<1> DEFINE codecs == extended.codecs
           lists == RecvList(extended)
           S == UNION {ToSet(RecvCodecs(codecs[x])) : x \in DOMAIN codecs}
<1>1. Len(codecs) \in Nat /\ DOMAIN codecs = 1..Len(codecs)
  BY FiniteIndices DEF NegotiatedCodecs
<1>2. \A x \in DOMAIN codecs : RecvCodecs(codecs[x]) \in Seq(S)
  <2>1. ASSUME NEW x \in DOMAIN codecs, NEW a, NEW b
        PROVE  /\ <<a>> \in Seq(ToSet(<<a>>)) /\ <<a, b>> \in Seq(ToSet(<<a, b>>))
    BY DEF ToSet
  <2>2. ASSUME NEW x \in DOMAIN codecs
        PROVE  RecvCodecs(codecs[x]) \in Seq(ToSet(RecvCodecs(codecs[x])))
    BY <2>1 DEF RecvCodecs, WithRtx
  <2>3. ASSUME NEW x \in DOMAIN codecs PROVE ToSet(RecvCodecs(codecs[x])) \subseteq S
    OBVIOUS
  <2> HIDE DEF S
  <2> QED  BY <2>2, <2>3
<1>3. lists = [x \in 1..Len(codecs) |-> RecvCodecs(codecs[x])]
  BY <1>1 DEF RecvList
<1>4. lists \in Seq(Seq(S)) /\ Len(lists) = Len(codecs)
  <2> HIDE DEF S, codecs, lists
  <2> QED  BY <1>1, <1>2, <1>3
<1>5. GetRecvRtpCapabilities(extended).codecs = FlattenSeq(lists)
  BY DEF GetRecvRtpCapabilities, RecvList
<1>6. \E at, nth : Places(FlattenSeq(lists), lists, Len(lists), at, nth)
  <2> HIDE DEF S, lists
  <2> QED  BY <1>4, FlattenPlaces
<1> QED  BY <1>4, <1>5, <1>6, Zenon

Media(codec) == MediaCodec(codec, codec.remotePt, codec.localParameters)
Rtx(codec) == RtxCodec(codec, codec.remoteRtxPt, codec.remotePt)

\* What is announced: codec at[i], or its RTX codec behind it.
AnnouncedAt(announced, codecs, at, nth) ==
    /\ DOMAIN announced = 1..Len(announced) /\ Len(announced) \in Nat
    /\ \A i \in DOMAIN announced :
         /\ at[i] \in DOMAIN codecs
         /\ \/ /\ nth[i] = 1 /\ announced[i] = Media(codecs[at[i]])
               /\ codecs[at[i]].remoteRtxPt # Null =>
                    i + 1 \in DOMAIN announced /\ at[i + 1] = at[i] /\ nth[i + 1] = 2
            \/ /\ nth[i] = 2 /\ announced[i] = Rtx(codecs[at[i]])
               /\ codecs[at[i]].remoteRtxPt # Null
               /\ i - 1 \in DOMAIN announced /\ at[i - 1] = at[i] /\ nth[i - 1] = 1
    /\ \A i, j \in DOMAIN announced : at[i] = at[j] /\ nth[i] = nth[j] => i = j
    /\ \A x \in DOMAIN codecs : \E i \in DOMAIN announced : at[i] = x /\ nth[i] = 1

AnnouncedOf(announced, codecs) == \E at, nth : AnnouncedAt(announced, codecs, at, nth)

\* Every negotiated codec is announced once, with its RTX codec behind it.
LEMMA Announced ==
    ASSUME NEW local, NEW remote, NEW extended,
           NegotiatedCodecs(extended.codecs, local, remote)
    PROVE  AnnouncedOf(GetRecvRtpCapabilities(extended).codecs, extended.codecs)
<1>1. PICK announced : announced = GetRecvRtpCapabilities(extended).codecs
  OBVIOUS
<1>2. PICK codecs : codecs = extended.codecs
  OBVIOUS
<1>3. PICK lists : lists = RecvList(extended)
  OBVIOUS
<1>4. PICK at, nth : Places(announced, lists, Len(codecs), at, nth)
  BY <1>1, <1>2, <1>3, RecvPlaces, Zenon
<1>5. Len(codecs) \in Nat /\ DOMAIN codecs = 1..Len(codecs)
  BY <1>2, FiniteIndices DEF NegotiatedCodecs
<1>6. ASSUME NEW x \in DOMAIN codecs
      PROVE  /\ lists[x][1] = Media(codecs[x])
             /\ Len(lists[x]) = IF codecs[x].remoteRtxPt = Null THEN 1 ELSE 2
             /\ codecs[x].remoteRtxPt # Null => lists[x][2] = Rtx(codecs[x])
  <2>1. lists[x] = RecvCodecs(codecs[x])
    BY <1>2, <1>3 DEF RecvList
  <2>2. RtxCodec(Media(codecs[x]), codecs[x].remoteRtxPt, Media(codecs[x]).pt) = Rtx(codecs[x])
    BY DEF Media, MediaCodec, Rtx, RtxCodec
  <2>3. RecvCodecs(codecs[x]) = IF codecs[x].remoteRtxPt = Null THEN <<Media(codecs[x])>>
                                ELSE <<Media(codecs[x]), Rtx(codecs[x])>>
    BY <2>2 DEF RecvCodecs, WithRtx, Media
  <2>4. \A a, b : /\ Len(<<a>>) = 1 /\ <<a>>[1] = a
                  /\ Len(<<a, b>>) = 2 /\ <<a, b>>[1] = a /\ <<a, b>>[2] = b
    OBVIOUS
  <2> QED  BY <2>1, <2>3, <2>4
<1>7. /\ DOMAIN announced = 1..Len(announced) /\ Len(announced) \in Nat
      /\ \A i \in DOMAIN announced :
           /\ at[i] \in DOMAIN codecs /\ nth[i] \in 1..Len(lists[at[i]])
           /\ announced[i] = lists[at[i]][nth[i]]
           /\ nth[i] # 1 => i # 1 /\ at[i - 1] = at[i] /\ nth[i - 1] = nth[i] - 1
           /\ nth[i] # Len(lists[at[i]]) =>
                i # Len(announced) /\ at[i + 1] = at[i] /\ nth[i + 1] = nth[i] + 1
      /\ \A i, j \in DOMAIN announced : at[i] = at[j] /\ nth[i] = nth[j] => i = j
      /\ \A x \in DOMAIN codecs : \A n \in 1..Len(lists[x]) :
           \E i \in DOMAIN announced : at[i] = x /\ nth[i] = n
  <2>1. PlacesOver(announced, lists, DOMAIN codecs, at, nth)
    BY <1>4, <1>5, Zenon DEF Places
  <2> QED  BY <2>1, Zenon DEF PlacesOver
<1>8. ASSUME NEW i \in DOMAIN announced
      PROVE  \/ /\ nth[i] = 1 /\ announced[i] = Media(codecs[at[i]])
                /\ codecs[at[i]].remoteRtxPt # Null =>
                     i + 1 \in DOMAIN announced /\ at[i + 1] = at[i] /\ nth[i + 1] = 2
             \/ /\ nth[i] = 2 /\ announced[i] = Rtx(codecs[at[i]])
                /\ codecs[at[i]].remoteRtxPt # Null
                /\ i - 1 \in DOMAIN announced /\ at[i - 1] = at[i] /\ nth[i - 1] = 1
  <2>1. /\ at[i] \in DOMAIN codecs /\ nth[i] \in 1..Len(lists[at[i]])
        /\ announced[i] = lists[at[i]][nth[i]]
        /\ nth[i] # 1 => i # 1 /\ at[i - 1] = at[i] /\ nth[i - 1] = nth[i] - 1
        /\ nth[i] # Len(lists[at[i]]) =>
             i # Len(announced) /\ at[i + 1] = at[i] /\ nth[i + 1] = nth[i] + 1
    BY <1>7
  <2>2. /\ i # 1 => i - 1 \in DOMAIN announced
        /\ i # Len(announced) => i + 1 \in DOMAIN announced
    BY <1>7
  <2>3. nth[i] = 1 \/ (nth[i] = 2 /\ codecs[at[i]].remoteRtxPt # Null)
    BY <1>6, <2>1
  <2>4. CASE nth[i] = 1
    BY <1>6, <2>1, <2>2, <2>4
  <2>5. CASE nth[i] = 2 /\ codecs[at[i]].remoteRtxPt # Null
    BY <1>6, <2>1, <2>2, <2>5
  <2> QED  BY <2>3, <2>4, <2>5
<1>9. \A x \in DOMAIN codecs : \E i \in DOMAIN announced : at[i] = x /\ nth[i] = 1
  <2>1. \A x \in DOMAIN codecs : 1 \in 1..Len(lists[x])
    BY <1>6
  <2> QED  BY <1>7, <2>1
<1>10. AnnouncedAt(announced, codecs, at, nth)
  BY <1>7, <1>8, <1>9, Zenon DEF AnnouncedAt
<1> QED  BY <1>1, <1>2, <1>10, Zenon DEF AnnouncedOf

\* In particular all codecs are announced, and nothing but these and their RTX codecs.
LEMMA AnnouncedElements ==
    ASSUME NEW announced, NEW codecs, AnnouncedOf(announced, codecs)
    PROVE  /\ \A i \in DOMAIN announced : \E x \in DOMAIN codecs :
                \/ announced[i] = Media(codecs[x])
                \/ announced[i] = Rtx(codecs[x]) /\ codecs[x].remoteRtxPt # Null
           /\ \A x \in DOMAIN codecs : \E i \in DOMAIN announced : announced[i] = Media(codecs[x])
<1>1. PICK at, nth : AnnouncedAt(announced, codecs, at, nth)
  BY DEF AnnouncedOf
<1>2. \A i \in DOMAIN announced :
        /\ at[i] \in DOMAIN codecs
        /\ \/ nth[i] = 1 /\ announced[i] = Media(codecs[at[i]])
           \/ /\ nth[i] = 2 /\ announced[i] = Rtx(codecs[at[i]])
              /\ codecs[at[i]].remoteRtxPt # Null
  BY <1>1, Zenon DEF AnnouncedAt
<1>3. \A x \in DOMAIN codecs : \E i \in DOMAIN announced : at[i] = x /\ nth[i] = 1
  BY <1>1, Zenon DEF AnnouncedAt
<1>4. 1 # 2
  OBVIOUS
<1> QED  BY <1>2, <1>3, <1>4

\* The types of what is announced: payload types are numbers, of which those of
\* the router consist, because what is announced has been validated.
THEOREM TypeCorrect == Spec => []TypeOK
<1>1. IInv => TypeOK
  <2> SUFFICES ASSUME IInv PROVE TypeOK
    OBVIOUS
  <2>1. loaded \in BOOLEAN /\ canProduceByKind \in [Kinds -> BOOLEAN]
    <3>1. CASE NeverLoaded
      BY <3>1 DEF NeverLoaded
    <3>2. CASE LastLoad
      BY <3>2 DEF LastLoad, ValidCaps, CanSend
    <3> QED  BY <3>1, <3>2 DEF IInv
  <2>2. \/ <<extendedRtpCapabilities, native, router>> = <<Null, Null, Null>>
        \/ IsOffer(native) /\ IsCaps(router)
    BY DeviceAssumption DEF IInv, NeverLoaded, LastLoad
  <2>3. ASSUME loaded, NEW i \in DOMAIN RecvCaps
        PROVE  RecvCaps[i].pt \in Nat /\ RecvCaps[i].apt \in Nat \cup {Null}
    <3> DEFINE codecs == extendedRtpCapabilities.codecs
               local == OwnCodecs(native)
               remote == TheirCodecs(router)
    <3>1. /\ LastLoad /\ NegotiatedCodecs(codecs, local, remote)
          /\ \A j \in DOMAIN remote : PayloadTypeOf(remote[j]) \in Nat \cup {Null}
      BY <2>3, LoadedLast, ExtendedNegotiated, TheirCodecsRead DEF LastLoad
    <3>2. /\ RecvCaps = GetRecvRtpCapabilities(extendedRtpCapabilities).codecs
          /\ \A k \in DOMAIN RecvCaps : RecvCaps[k].pt # Null
      BY <2>3, <3>1 DEF LastLoad, RecvCaps, ValidCaps, ValidCodec
    <3> HIDE DEF codecs, local, remote
    <3>3. /\ \E x \in DOMAIN codecs :
               \/ RecvCaps[i] = Media(codecs[x])
               \/ RecvCaps[i] = Rtx(codecs[x]) /\ codecs[x].remoteRtxPt # Null
          /\ \A x \in DOMAIN codecs : \E k \in DOMAIN RecvCaps : RecvCaps[k] = Media(codecs[x])
      <4>1. AnnouncedOf(RecvCaps, codecs)
        BY <3>1, <3>2, Announced DEF codecs
      <4> QED  BY <4>1, AnnouncedElements
    <3>4. PICK x \in DOMAIN codecs :
               \/ RecvCaps[i] = Media(codecs[x])
               \/ RecvCaps[i] = Rtx(codecs[x]) /\ codecs[x].remoteRtxPt # Null
      BY <3>3
    <3>5. codecs[x].remotePt \in Nat
      <4>1. codecs[x].remotePt \in Nat \cup {Null}
        <5>1. PICK j \in DOMAIN remote : codecs[x].remotePt = PayloadTypeOf(remote[j])
          BY <3>1 DEF NegotiatedCodecs, Agreed
        <5> QED  BY <3>1, <5>1
      <4>2. PICK k \in DOMAIN RecvCaps : RecvCaps[k] = Media(codecs[x])
        BY <3>3
      <4>3. codecs[x].remotePt # Null
        BY <3>2, <4>2 DEF Media, MediaCodec
      <4> QED  BY <4>1, <4>3
    <3>6. CASE RecvCaps[i] = Media(codecs[x])
      BY <3>5, <3>6 DEF Media, MediaCodec
    <3>7. CASE RecvCaps[i] = Rtx(codecs[x]) /\ codecs[x].remoteRtxPt # Null
      <4>1. codecs[x].remoteRtxPt \in Nat
        BY <3>1, <3>7 DEF NegotiatedCodecs, RtxAgreed, Bare
      <4> QED  BY <3>5, <3>7, <4>1 DEF Rtx, RtxCodec
    <3> QED  BY <3>4, <3>6, <3>7
  <2>4. sendTransport = Null \/ loaded
    BY DEF IInv
  <2> QED  BY <2>1, <2>2, <2>3, <2>4 DEF TypeOK
<1> QED  BY <1>1, Invariance, PTL

\* A codec can be consumed exactly if it is announced: every negotiated codec
\* is announced at the payload type that Consume compares, and what is
\* announced beside them are RTX codecs.
THEOREM AlwaysConsumableIffAnnounced == Spec => []ConsumableIffAnnounced
<1>1. IInv => ConsumableIffAnnounced
  <2> SUFFICES ASSUME IInv, loaded, NEW codec
               PROVE  CanReceive(<<codec>>, extendedRtpCapabilities) <=>
                        \E i \in DOMAIN RecvCaps : ~IsRtxCodec(RecvCaps[i]) /\ RecvCaps[i].pt = codec.pt
    BY Zenon DEF ConsumableIffAnnounced
  <2> DEFINE codecs == extendedRtpCapabilities.codecs
             local == OwnCodecs(native)
             remote == TheirCodecs(router)
  <2>1. LastLoad /\ NegotiatedCodecs(codecs, local, remote)
    BY LoadedLast, ExtendedNegotiated DEF LastLoad
  <2>2. RecvCaps = GetRecvRtpCapabilities(extendedRtpCapabilities).codecs
    BY <2>1 DEF LastLoad, RecvCaps
  <2>3. CanReceive(<<codec>>, extendedRtpCapabilities)
          <=> \E x \in DOMAIN codecs : codecs[x].remotePt = codec.pt
    BY DEF CanReceive
  <2> HIDE DEF codecs, local, remote
  <2>4. /\ \A i \in DOMAIN RecvCaps : \E x \in DOMAIN codecs :
             RecvCaps[i] = Media(codecs[x]) \/ RecvCaps[i] = Rtx(codecs[x])
        /\ \A x \in DOMAIN codecs : \E i \in DOMAIN RecvCaps : RecvCaps[i] = Media(codecs[x])
    <3>1. AnnouncedOf(RecvCaps, codecs)
      BY <2>1, <2>2, Announced DEF codecs
    <3> QED  BY <3>1, AnnouncedElements
  <2>5. ASSUME NEW x \in DOMAIN codecs
        PROVE  /\ Media(codecs[x]).pt = codecs[x].remotePt
               /\ ~IsRtxCodec(Media(codecs[x])) /\ IsRtxCodec(Rtx(codecs[x]))
    <3>1. codecs[x].mime # "rtx"
      BY <2>1 DEF NegotiatedCodecs, Agreed, IsRtxCodec
    <3> QED  BY <3>1 DEF Media, Rtx, MediaCodec, RtxCodec, IsRtxCodec
  <2>6. (\E x \in DOMAIN codecs : codecs[x].remotePt = codec.pt)
          <=> \E i \in DOMAIN RecvCaps : ~IsRtxCodec(RecvCaps[i]) /\ RecvCaps[i].pt = codec.pt
    BY <2>4, <2>5
  <2> QED  BY <2>3, <2>6
<1> QED  BY <1>1, Invariance, PTL

\* What a loaded device announces matches the router: each codec of the list
\* stands for a negotiated codec, whose payload types are those of codecs of the
\* router, and a codec without a payload type would not have been loaded.
THEOREM RecvCapsAlwaysMatchRouter == Spec => []RecvCapsMatchRouter
<1>1. IInv => RecvCapsMatchRouter
  <2> SUFFICES ASSUME IInv, loaded = TRUE PROVE RecvCapsMatchRouter
    BY DEF RecvCapsMatchRouter, IInv, NeverLoaded
  <2>1. LastLoad
    BY LoadedLast
  <2>2. PICK codecs : codecs = extendedRtpCapabilities.codecs
    OBVIOUS
  <2>3. PICK local : local = OwnCodecs(native)
    OBVIOUS
  <2>4. PICK remote : remote = TheirCodecs(router)
    OBVIOUS
  <2>5. RecvCaps = GetRecvRtpCapabilities(extendedRtpCapabilities).codecs
    BY <2>1 DEF LastLoad, RecvCaps
  <2>6. /\ NegotiatedCodecs(codecs, local, remote) /\ IsRouter(remote)
        /\ \A j \in DOMAIN remote :
             PayloadTypeOf(remote[j]) \in Nat \cup {Null} /\ remote[j].pt # Null
    BY <2>1, <2>2, <2>3, <2>4, ExtendedNegotiated, TheirCodecsRead DEF LastLoad
  <2>7. PICK at, nth : AnnouncedAt(RecvCaps, codecs, at, nth)
    <3>1. NegotiatedCodecs(extendedRtpCapabilities.codecs, local, remote)
      BY <2>2, <2>6
    <3> QED  BY <2>2, <2>5, <3>1, Announced DEF AnnouncedOf
  <2>8. \A i \in DOMAIN RecvCaps : RecvCaps[i].pt # Null
    BY <2>1 DEF LastLoad, RecvCaps, ValidCaps, ValidCodec
  <2>9. /\ DOMAIN RecvCaps = 1..Len(RecvCaps) /\ Len(RecvCaps) \in Nat
        /\ \A i \in DOMAIN RecvCaps :
             /\ at[i] \in DOMAIN codecs
             /\ \/ /\ nth[i] = 1 /\ RecvCaps[i] = Media(codecs[at[i]])
                   /\ codecs[at[i]].remoteRtxPt # Null =>
                        i + 1 \in DOMAIN RecvCaps /\ at[i + 1] = at[i] /\ nth[i + 1] = 2
                \/ /\ nth[i] = 2 /\ RecvCaps[i] = Rtx(codecs[at[i]])
                   /\ codecs[at[i]].remoteRtxPt # Null
                   /\ i - 1 \in DOMAIN RecvCaps /\ at[i - 1] = at[i] /\ nth[i - 1] = 1
        /\ \A i, j \in DOMAIN RecvCaps : at[i] = at[j] /\ nth[i] = nth[j] => i = j
        /\ \A x \in DOMAIN codecs : \E i \in DOMAIN RecvCaps : at[i] = x /\ nth[i] = 1
    BY <2>7, Zenon DEF AnnouncedAt
  <2>10. ASSUME NEW x \in DOMAIN codecs
         PROVE  /\ codecs[x].remotePt \in Nat
                /\ \E i \in DOMAIN local, j \in DOMAIN remote :
                     /\ Agreed(codecs[x], local[i], remote[j]) /\ remote[j].pt = codecs[x].remotePt
                /\ RtxAgreed(codecs[x], local, remote)
    <3>1. PICK i \in DOMAIN local, j \in DOMAIN remote : Agreed(codecs[x], local[i], remote[j])
      BY <2>6 DEF NegotiatedCodecs
    <3>2. PICK k \in DOMAIN RecvCaps : RecvCaps[k] = Media(codecs[x])
      BY <2>9
    <3>3. codecs[x].remotePt # Null
      BY <2>8, <3>2 DEF Media, MediaCodec
    <3>4. codecs[x].remotePt = PayloadTypeOf(remote[j])
      BY <3>1 DEF Agreed
    <3>5. codecs[x].remotePt \in Nat
      BY <2>6, <3>3, <3>4
    <3>6. remote[j].pt = codecs[x].remotePt
      BY <3>3, <3>4 DEF PayloadTypeOf
    <3>7. RtxAgreed(codecs[x], local, remote)
      BY <2>6 DEF NegotiatedCodecs
    <3> QED  BY <3>1, <3>5, <3>6, <3>7
  <2>11. ASSUME NEW x \in DOMAIN codecs, codecs[x].remoteRtxPt # Null
         PROVE  \E j \in DOMAIN remote :
                  /\ IsRtxCodec(remote[j]) /\ remote[j].apt = codecs[x].remotePt
                  /\ remote[j].pt = codecs[x].remoteRtxPt
                  /\ PayloadTypeOf(remote[j]) = codecs[x].remoteRtxPt
    BY <2>10, <2>11 DEF RtxAgreed, Bare, PayloadTypeOf
  <2>12. ASSUME NEW i \in DOMAIN RecvCaps
         PROVE  \/ /\ nth[i] = 1 /\ RecvCaps[i].pt = codecs[at[i]].remotePt
                   /\ RecvCaps[i].mime = codecs[at[i]].mime
                   /\ RecvCaps[i].parameters = codecs[at[i]].localParameters
                \/ /\ nth[i] = 2 /\ RecvCaps[i].pt = codecs[at[i]].remoteRtxPt
                   /\ RecvCaps[i].mime = "rtx" /\ RecvCaps[i].apt = codecs[at[i]].remotePt
    BY <2>9 DEF Media, Rtx, MediaCodec, RtxCodec
  <2>13. ToSet(remote) = RouterCodecs /\ ToSet(local) = NativeCodecs
    BY <2>3, <2>4 DEF RouterCodecs, NativeCodecs, OwnCodecs, TheirCodecs
  <2>14. /\ \A j \in DOMAIN remote : remote[j] \in RouterCodecs
         /\ \A i \in DOMAIN local : local[i] \in NativeCodecs
         /\ \A c \in RouterCodecs : \E j \in DOMAIN remote : c = remote[j]
         /\ \A own \in NativeCodecs : \E i \in DOMAIN local : own = local[i]
    BY <2>13, Zenon DEF ToSet
  <2>15. 1 # 2
    OBVIOUS
  \* A codec of the router for each that is announced.
  <2>16. ASSUME NEW i \in DOMAIN RecvCaps
         PROVE  \E codec \in RouterCodecs :
                  /\ codec.pt = RecvCaps[i].pt
                  /\ codec.mime = RecvCaps[i].mime
                  /\ IF IsRtxCodec(codec)
                     THEN i > 1 /\ codec.apt = RecvCaps[i].apt /\ codec.apt = RecvCaps[i - 1].pt
                     ELSE \E own \in NativeCodecs :
                            /\ MatchCodecs(own, codec, TRUE)
                            /\ RecvCaps[i].parameters.level <= own.level
    <3>1. at[i] \in DOMAIN codecs
      BY <2>9
    <3>2. CASE nth[i] = 1
      <4>1. PICK k \in DOMAIN local, j \in DOMAIN remote :
              Agreed(codecs[at[i]], local[k], remote[j]) /\ remote[j].pt = codecs[at[i]].remotePt
        BY <2>10, <3>1
      <4>2. /\ MatchCodecs(local[k], remote[j], TRUE) /\ ~IsRtxCodec(remote[j])
            /\ codecs[at[i]].mime = remote[j].mime
            /\ codecs[at[i]].localParameters.level <= local[k].level
        BY <4>1, Zenon DEF Agreed
      <4>3. /\ RecvCaps[i].pt = codecs[at[i]].remotePt
            /\ RecvCaps[i].mime = codecs[at[i]].mime
            /\ RecvCaps[i].parameters = codecs[at[i]].localParameters
        BY <2>12, <2>15, <3>2
      <4> QED  BY <2>14, <4>1, <4>2, <4>3
    <3>3. CASE nth[i] = 2
      <4>1. /\ codecs[at[i]].remoteRtxPt # Null
            /\ i - 1 \in DOMAIN RecvCaps /\ at[i - 1] = at[i] /\ nth[i - 1] = 1
        BY <2>9, <2>15, <3>3
      <4>2. PICK j \in DOMAIN remote :
                  /\ IsRtxCodec(remote[j]) /\ remote[j].apt = codecs[at[i]].remotePt
                  /\ remote[j].pt = codecs[at[i]].remoteRtxPt
        BY <2>11, <3>1, <4>1
      <4>3. RecvCaps[i - 1].pt = codecs[at[i]].remotePt
        BY <2>12, <2>15, <4>1
      <4>4. i > 1
        BY <2>9, <4>1
      <4>5. /\ RecvCaps[i].pt = codecs[at[i]].remoteRtxPt
            /\ RecvCaps[i].mime = "rtx" /\ RecvCaps[i].apt = codecs[at[i]].remotePt
        BY <2>12, <2>15, <3>3
      <4> QED  BY <2>14, <4>2, <4>3, <4>4, <4>5 DEF IsRtxCodec
    <3> QED  BY <2>9, <3>2, <3>3
  \* None is announced twice.
  <2>17. ASSUME NEW i \in DOMAIN RecvCaps, NEW j \in DOMAIN RecvCaps,
                RecvCaps[j].pt = RecvCaps[i].pt
         PROVE  i = j
    <3>1. ASSUME NEW k \in DOMAIN RecvCaps
          PROVE  /\ at[k] \in DOMAIN codecs
                 /\ \/ nth[k] = 1 /\ RecvCaps[k].pt = codecs[at[k]].remotePt
                    \/ /\ nth[k] = 2 /\ RecvCaps[k].pt = codecs[at[k]].remoteRtxPt
                       /\ codecs[at[k]].remoteRtxPt # Null
      BY <2>9, <2>12, <2>15
    <3>2. \A x, y \in DOMAIN codecs : codecs[x].remotePt = codecs[y].remotePt => x = y
      BY <2>6 DEF NegotiatedCodecs
    <3>3. \A x, y \in DOMAIN remote : PayloadTypeOf(remote[x]) = PayloadTypeOf(remote[y]) => x = y
      BY <2>6 DEF IsRouter
    <3>4. ASSUME NEW x \in DOMAIN codecs, NEW y \in DOMAIN codecs,
                 codecs[y].remoteRtxPt # Null
          PROVE  codecs[x].remotePt # codecs[y].remoteRtxPt
      <4>1. PICK k \in DOMAIN remote : ~IsRtxCodec(remote[k]) /\ codecs[x].remotePt = PayloadTypeOf(remote[k])
        BY <2>10 DEF Agreed
      <4>2. PICK l \in DOMAIN remote :
              IsRtxCodec(remote[l]) /\ PayloadTypeOf(remote[l]) = codecs[y].remoteRtxPt
        BY <2>11, <3>4
      <4> QED  BY <3>3, <4>1, <4>2
    <3>5. ASSUME NEW x \in DOMAIN codecs, NEW y \in DOMAIN codecs,
                 codecs[x].remoteRtxPt # Null, codecs[x].remoteRtxPt = codecs[y].remoteRtxPt
          PROVE  x = y
      <4>1. PICK k \in DOMAIN remote :
              /\ PayloadTypeOf(remote[k]) = codecs[x].remoteRtxPt
              /\ remote[k].apt = codecs[x].remotePt
        BY <2>11, <3>5
      <4>2. PICK l \in DOMAIN remote :
              /\ PayloadTypeOf(remote[l]) = codecs[y].remoteRtxPt
              /\ remote[l].apt = codecs[y].remotePt
        BY <2>11, <3>5
      <4>3. k = l
        BY <3>3, <3>5, <4>1, <4>2
      <4> QED  BY <3>2, <4>1, <4>2, <4>3
    <3>6. at[i] = at[j] /\ nth[i] = nth[j]
      <4>1. CASE nth[i] = 1 /\ nth[j] = 1
        BY <2>15, <2>17, <3>1, <3>2, <4>1
      <4>2. CASE nth[i] = 2 /\ nth[j] = 2
        BY <2>15, <2>17, <3>1, <3>5, <4>2
      <4>3. CASE nth[i] # nth[j]
        BY <2>15, <2>17, <3>1, <3>4, <4>3
      <4> QED  BY <3>1, <4>1, <4>2, <4>3
    <3> QED  BY <2>9, <3>6
  \* None that both sides have is left out.
  <2>18. ASSUME NEW codec \in RouterCodecs, ~IsRtxCodec(codec),
                NEW own \in NativeCodecs, MatchCodecs(own, codec, TRUE)
         PROVE  \E i \in DOMAIN RecvCaps : RecvCaps[i].pt = codec.pt
    <3>1. PICK j \in DOMAIN remote, k \in DOMAIN local : codec = remote[j] /\ own = local[k]
      BY <2>14
    <3>2. PICK x \in DOMAIN codecs : codecs[x].remotePt = PayloadTypeOf(remote[j])
      BY <2>6, <2>18, <3>1 DEF NegotiatedCodecs
    <3>3. PICK i \in DOMAIN RecvCaps : at[i] = x /\ nth[i] = 1
      BY <2>9
    <3>4. RecvCaps[i].pt = PayloadTypeOf(remote[j]) /\ RecvCaps[i].pt # Null
      BY <2>8, <2>12, <2>15, <3>2, <3>3
    <3> QED  BY <3>1, <3>4 DEF PayloadTypeOf
  \* Nor an RTX codec.
  <2>19. ASSUME NEW i \in DOMAIN RecvCaps, ~IsRtxCodec(RecvCaps[i]),
                NEW rtx \in RouterCodecs, IsRtxCodec(rtx), rtx.apt = RecvCaps[i].pt,
                \A c \in RouterCodecs : IsRtxCodec(c) /\ c.apt = RecvCaps[i].pt => c.pt # Absent,
                \A own \in NativeCodecs : own.mime = RecvCaps[i].mime => OffersRtx(own.pt)
         PROVE  i < Len(RecvCaps) /\ IsRtxCodec(RecvCaps[i + 1])
    <3>1. /\ at[i] \in DOMAIN codecs /\ nth[i] = 1
          /\ RecvCaps[i].pt = codecs[at[i]].remotePt /\ RecvCaps[i].mime = codecs[at[i]].mime
      BY <2>9, <2>12, <2>19 DEF IsRtxCodec
    <3>2. PICK k \in DOMAIN local, j \in DOMAIN remote : Agreed(codecs[at[i]], local[k], remote[j])
      BY <2>10, <3>1
    <3>3. local[k].pt = codecs[at[i]].localPt /\ local[k].mime = codecs[at[i]].mime
      BY <3>2, Zenon DEF Agreed, MatchCodecs
    <3>4. OffersRtx(codecs[at[i]].localPt)
      BY <2>14, <2>19, <3>1, <3>3
    <3>5. codecs[at[i]].localPt # Null
      <4>1. native \in NativeOffers /\ ValidCaps(ExtractRtpCapabilities(native))
        BY <2>1 DEF LastLoad
      <4> QED  BY <2>3, <3>3, <4>1, OwnCodecsRead
    <3>6. \E l \in DOMAIN local : IsRtxCodec(local[l]) /\ local[l].apt = codecs[at[i]].localPt
      <4>1. PICK n \in DOMAIN native : \E m \in DOMAIN native[n].fmtp :
              native[n].fmtp[m].apt = codecs[at[i]].localPt
        BY <3>4 DEF OffersRtx
      <4>2. native \in NativeOffers
        BY <2>1 DEF LastLoad
      <4> QED  BY <2>3, <3>5, <4>1, <4>2, OfferedRtxIsRead
    <3>7. \E m \in DOMAIN remote : IsRtxCodec(remote[m]) /\ remote[m].apt = codecs[at[i]].remotePt
      BY <2>14, <2>19, <3>1
    <3>8. RtxAgreed(codecs[at[i]], local, remote)
      BY <2>10, <3>1
    <3>9. PICK m \in DOMAIN remote :
            /\ IsRtxCodec(remote[m]) /\ remote[m].apt = codecs[at[i]].remotePt
            /\ codecs[at[i]].remoteRtxPt = PayloadTypeOf(remote[m])
      BY <3>6, <3>7, <3>8 DEF RtxAgreed
    <3>10. codecs[at[i]].remoteRtxPt # Null
      <4>1. remote[m].pt # Absent /\ remote[m].pt # Null
        BY <2>14, <2>19, <3>1, <3>9, <2>6
      <4> QED  BY <3>9, <4>1 DEF PayloadTypeOf
    <3>11. i + 1 \in DOMAIN RecvCaps /\ nth[i + 1] = 2
      BY <2>9, <2>15, <3>1, <3>10
    <3>12. RecvCaps[i + 1].mime = "rtx"
      BY <2>12, <2>15, <3>11
    <3> QED  BY <2>9, <3>11, <3>12 DEF IsRtxCodec
  <2>20. ASSUME NEW i \in DOMAIN RecvCaps
         PROVE  LET theirs == {rtx \in RouterCodecs : IsRtxCodec(rtx) /\ rtx.apt = RecvCaps[i].pt}
                IN  (/\ ~IsRtxCodec(RecvCaps[i])
                     /\ theirs # {} /\ \A rtx \in theirs : rtx.pt # Absent
                     /\ \A own \in NativeCodecs : own.mime = RecvCaps[i].mime => OffersRtx(own.pt))
                      => i < Len(RecvCaps) /\ IsRtxCodec(RecvCaps[i + 1])
    BY <2>19
  <2>21. \A codec \in RouterCodecs :
           ~IsRtxCodec(codec) /\ (\E own \in NativeCodecs : MatchCodecs(own, codec, TRUE))
             => \E i \in DOMAIN RecvCaps : RecvCaps[i].pt = codec.pt
    BY <2>18
  <2>22. \A i, j \in DOMAIN RecvCaps : RecvCaps[j].pt = RecvCaps[i].pt => i = j
    BY <2>17
  <2> QED  BY <2>16, <2>20, <2>21, <2>22, Zenon DEF RecvCapsMatchRouter
<1> QED  BY <1>1, Invariance, PTL

-----------------------------------------------------------------------------
(***************************************************************************)
(* What a transport sends, and what it answers in the name of the server.  *)
(***************************************************************************)

\* The first codec of a kind is one of the negotiated codecs.
LEMMA FirstOfKindFinds ==
    ASSUME NEW extended, Finite(extended.codecs), NEW kind
    PROVE  LET i == FirstOfKind(kind, extended)
           IN  i = 0 \/ (i # 0 /\ i \in DOMAIN extended.codecs /\ extended.codecs[i].kind = kind)
<1> DEFINE codecs == extended.codecs
           I == {i \in 1..Len(codecs) : codecs[i].kind = kind}
<1>1. Len(codecs) \in Nat /\ DOMAIN codecs = 1..Len(codecs)
  BY FiniteIndices
<1>2. FirstOfKind(kind, extended) = IF I # {} THEN Min(I) ELSE 0
  BY DEF FirstOfKind, SelectInSeq
<1>3. CASE I # {}
  <2>1. I \subseteq Nat /\ I \subseteq 1..Len(codecs)
    BY <1>1
  <2>2. Min(I) \in I
    <3> HIDE DEF I
    <3> QED  BY <1>3, <2>1, MinOfIndices
  <2>3. Min(I) # 0 /\ Min(I) \in DOMAIN codecs /\ codecs[Min(I)].kind = kind
    BY <1>1, <2>2
  <2> QED  BY <1>2, <1>3, <2>3
<1> QED  BY <1>2, <1>3

\* The answer asks for no bandwidth estimation but the one its header
\* extensions support, whatever was negotiated.
THEOREM FeedbackAlwaysHasItsExtension == Spec => []FeedbackHasItsExtension
<1>1. IInv => FeedbackHasItsExtension
  <2> SUFFICES ASSUME IInv, sendTransport # Null, NEW kind \in Kinds,
                      NEW codec \in ToSet(sendTransport.sendingRemote[kind].codecs)
               PROVE  LET uris == {ext.uri : ext \in sendTransport.sendingRemote[kind].headerExtensions}
                      IN  /\ "transport-cc" \in codec.rtcpFeedback => "transport-wide-cc" \in uris
                          /\ "goog-remb" \in codec.rtcpFeedback =>
                               "abs-send-time" \in uris /\ "transport-cc" \notin codec.rtcpFeedback
    BY Zenon DEF FeedbackHasItsExtension
  <2> DEFINE extended == extendedRtpCapabilities
             first == extended.codecs[FirstOfKind(kind, extended)]
             exts == SendExtensions(kind, extended)
             uris == {ext.uri : ext \in exts}
             dropped == {"transport-cc", "goog-remb"} \ BweFeedback(uris)
             media == MediaCodec(first, first.localPt, first.remoteParameters)
             codecs == IF FirstOfKind(kind, extended) = 0 THEN <<>> ELSE WithRtx(media, first.localRtxPt)
             remote == sendTransport.sendingRemote[kind]
  <2>1. remote = [codecs |-> [j \in DOMAIN codecs |-> WithoutFeedback(codecs[j], dropped)],
                  headerExtensions |-> exts]
    <3>1. sendTransport = TransportOf(extended)
      BY DEF IInv
    <3>2. remote = GetSendingRemoteRtpParameters(kind, extended)
      BY <3>1 DEF TransportOf
    <3> QED  BY <3>2, Zenon DEF GetSendingRemoteRtpParameters
  <2>2. \A j \in DOMAIN codecs : "rtcpFeedback" \in DOMAIN codecs[j]
    BY DEF WithRtx, MediaCodec, RtxCodec
  <2> HIDE DEF codecs, remote, dropped, exts
  <2>3. PICK j \in DOMAIN codecs : codec = WithoutFeedback(codecs[j], dropped)
    BY <2>1 DEF ToSet, remote
  <2>4. codec.rtcpFeedback = codecs[j].rtcpFeedback \ dropped
    BY <2>2, <2>3 DEF WithoutFeedback
  <2>5. remote.headerExtensions = exts
    BY <2>1
  <2> HIDE DEF uris
  <2>6. /\ "transport-cc" \in codec.rtcpFeedback => "transport-wide-cc" \in uris
        /\ "goog-remb" \in codec.rtcpFeedback =>
             "abs-send-time" \in uris /\ "transport-cc" \notin codec.rtcpFeedback
    BY <2>4 DEF dropped, BweFeedback
  <2> QED  BY <2>5, <2>6 DEF uris, remote
<1> QED  BY <1>1, Invariance, PTL

\* A list and a copy of it that differ in nothing a codec is selected by.
Alike(a, b) ==
    /\ DOMAIN a = DOMAIN b /\ DOMAIN a = 1..Len(a) /\ Len(a) \in Nat /\ Len(a) = Len(b)
    /\ \A i \in DOMAIN a :
         /\ a[i].mime = b[i].mime /\ a[i].kind = b[i].kind /\ a[i].channels = b[i].channels
         /\ a[i].pt = b[i].pt

PtsOf(codecs) == [i \in DOMAIN codecs |-> codecs[i].pt]

\* From lists that are alike the same codecs are selected.
LEMMA ReducedAlike ==
    ASSUME NEW a, NEW b, Alike(a, b), a # <<>>, b # <<>>, NEW capCodec
    PROVE  PtsOf(ReduceCodecs(a, capCodec)) = PtsOf(ReduceCodecs(b, capCodec))
<1> DEFINE n == Len(a)
           Matches(s) == {i \in 1..n : MatchCodecs(s[i], capCodec, FALSE)}
<1>1. Len(a) = n /\ Len(b) = n /\ n \in Nat /\ DOMAIN a = 1..n /\ DOMAIN b = 1..n
  BY DEF Alike
<1>2. Matches(a) = Matches(b)
  BY <1>1 DEF Alike, MatchCodecs
<1>3. FirstMatching(a, capCodec) = FirstMatching(b, capCodec)
  <2>1. FirstMatching(a, capCodec) = IF Matches(a) # {} THEN Min(Matches(a)) ELSE 0
    BY DEF FirstMatching, SelectInSeq
  <2>2. FirstMatching(b, capCodec) = IF Matches(b) # {} THEN Min(Matches(b)) ELSE 0
    BY <1>1, Zenon DEF FirstMatching, SelectInSeq
  <2> HIDE DEF Matches
  <2> QED  BY <1>2, <2>1, <2>2
<1>4. FirstMatching(a, capCodec) = 0 \/ FirstMatching(a, capCodec) \in 1..n
  <2>1. FirstMatching(a, capCodec) = IF Matches(a) # {} THEN Min(Matches(a)) ELSE 0
    BY DEF FirstMatching, SelectInSeq
  <2>2. Matches(a) \subseteq 1..n
    OBVIOUS
  <2> HIDE DEF Matches
  <2>3. Matches(a) \subseteq Nat
    BY <1>1, <2>2
  <2> QED  BY <2>1, <2>2, <2>3, MinOfIndices
<1>5. 1 \in 1..n
  <2>1. n # 0
    BY <1>1 DEF Alike
  <2> QED  BY <1>1, <2>1
<1>6. ASSUME NEW i \in 1..n
      PROVE  PtsOf(CodecAndRtx(a, i)) = PtsOf(CodecAndRtx(b, i))
  <2>1. a[i].pt = b[i].pt
    BY <1>1 DEF Alike
  <2>2. (i + 1 \in DOMAIN a /\ IsRtxCodec(a[i + 1])) <=> (i + 1 \in DOMAIN b /\ IsRtxCodec(b[i + 1]))
    BY <1>1 DEF Alike, IsRtxCodec
  <2>3. i + 1 \in DOMAIN a => a[i + 1].pt = b[i + 1].pt
    BY <1>1 DEF Alike
  <2>4. CASE i + 1 \in DOMAIN a /\ IsRtxCodec(a[i + 1])
    BY <2>1, <2>2, <2>3, <2>4 DEF CodecAndRtx, PtsOf
  <2>5. CASE ~ (i + 1 \in DOMAIN a /\ IsRtxCodec(a[i + 1]))
    BY <2>1, <2>2, <2>5 DEF CodecAndRtx, PtsOf
  <2> QED  BY <2>4, <2>5
<1> HIDE DEF n
<1>7. CASE capCodec = NoCodec
  BY <1>5, <1>6, <1>7 DEF ReduceCodecs
<1>8. CASE capCodec # NoCodec /\ FirstMatching(a, capCodec) \in {0, n}
  BY <1>1, <1>3, <1>8 DEF ReduceCodecs
<1>9. CASE capCodec # NoCodec /\ FirstMatching(a, capCodec) \notin {0, n}
  BY <1>1, <1>3, <1>4, <1>6, <1>9 DEF ReduceCodecs
<1> QED  BY <1>7, <1>8, <1>9

SentCodecs(codec, parameters) ==
    WithRtx(MediaCodec(codec, codec.localPt, parameters), codec.localRtxPt)

\* What is sent and what is answered: codec and its RTX codec, with the same
\* payload types.
SentAsAnswered(codec, sent, answered) ==
    /\ Alike(sent, answered) /\ sent # <<>> /\ answered # <<>>
    /\ \A j \in DOMAIN sent :
         /\ sent[j].apt = answered[j].apt
         /\ \/ j = 1 /\ sent[j].pt = codec.localPt /\ sent[j].mime = codec.mime
            \/ /\ j = 2 /\ codec.localRtxPt # Null
               /\ sent[j].pt = codec.localRtxPt /\ sent[j].mime = "rtx"
    /\ sent[1].parameters = codec.localParameters
    /\ answered[1].parameters = codec.remoteParameters

\* A codec and its RTX codec, as they are sent and as they are answered.
LEMMA SentAndAnswered ==
    ASSUME NEW codec, NEW dropped,
           NEW sent, sent = SentCodecs(codec, codec.localParameters),
           NEW listed, listed = SentCodecs(codec, codec.remoteParameters),
           NEW answered, answered = [j \in DOMAIN listed |-> WithoutFeedback(listed[j], dropped)]
    PROVE  SentAsAnswered(codec, sent, answered)
<1> SUFFICES /\ Alike(sent, answered) /\ sent # <<>> /\ answered # <<>>
             /\ \A j \in DOMAIN sent :
                  /\ sent[j].apt = answered[j].apt
                  /\ \/ j = 1 /\ sent[j].pt = codec.localPt /\ sent[j].mime = codec.mime
                     \/ /\ j = 2 /\ codec.localRtxPt # Null
                        /\ sent[j].pt = codec.localRtxPt /\ sent[j].mime = "rtx"
             /\ sent[1].parameters = codec.localParameters
             /\ answered[1].parameters = codec.remoteParameters
  BY DEF SentAsAnswered
<1> DEFINE rtx == RtxCodec(codec, codec.localRtxPt, codec.localPt)
           media == MediaCodec(codec, codec.localPt, codec.localParameters)
           theirs == MediaCodec(codec, codec.localPt, codec.remoteParameters)
           Sent(s, parameters) == s.mime = codec.mime /\ s.kind = codec.kind
                                  /\ s.channels = codec.channels /\ s.pt = codec.localPt
                                  /\ s.apt = Null /\ s.parameters = parameters
           SentRtx(s) == s.mime = "rtx" /\ s.kind = codec.kind /\ s.channels = Absent
                         /\ s.pt = codec.localRtxPt /\ s.apt = codec.localPt
<1>1. /\ Sent(media, codec.localParameters)
      /\ Sent(theirs, codec.remoteParameters)
      /\ Sent(WithoutFeedback(theirs, dropped), codec.remoteParameters)
  BY DEF MediaCodec, WithoutFeedback
<1>2. SentRtx(rtx) /\ SentRtx(WithoutFeedback(rtx, dropped))
  BY DEF RtxCodec, WithoutFeedback
<1>3. /\ SentCodecs(codec, codec.localParameters)
           = IF codec.localRtxPt = Null THEN <<media>> ELSE <<media, rtx>>
      /\ SentCodecs(codec, codec.remoteParameters)
           = IF codec.localRtxPt = Null THEN <<theirs>> ELSE <<theirs, rtx>>
  <2>1. RtxCodec(media, codec.localRtxPt, media.pt) = rtx
        /\ RtxCodec(theirs, codec.localRtxPt, theirs.pt) = rtx
    BY DEF RtxCodec, MediaCodec
  <2> QED  BY <2>1 DEF SentCodecs, WithRtx
<1> HIDE DEF rtx, media, theirs
<1>4. CASE codec.localRtxPt = Null
  <2>1. sent = <<media>> /\ listed = <<theirs>>
    BY <1>3, <1>4
  <2>2. DOMAIN answered = {1} /\ answered[1] = WithoutFeedback(theirs, dropped)
    BY <2>1
  <2>3. answered \in [1..1 -> {answered[1]}]
    <3>1. answered \in [DOMAIN answered -> {answered[1]}] /\ 1..1 = {1}
      BY <2>1, <2>2
    <3> QED  BY <2>2, <3>1
  <2>4. Len(answered) = 1 /\ Len(sent) = 1 /\ DOMAIN sent = {1} /\ sent[1] = media
        /\ sent # <<>> /\ answered # <<>>
    BY <2>1, <2>2, <2>3
  <2>5. 1..1 = {1}
    OBVIOUS
  <2>6. Alike(sent, answered)
    BY <1>1, <2>2, <2>4, <2>5 DEF Alike
  <2> QED  BY <1>1, <2>2, <2>4, <2>6
<1>5. CASE codec.localRtxPt # Null
  <2>1. sent = <<media, rtx>> /\ listed = <<theirs, rtx>>
    BY <1>3, <1>5
  <2>2. DOMAIN answered = {1, 2} /\ answered[1] = WithoutFeedback(theirs, dropped)
        /\ answered[2] = WithoutFeedback(rtx, dropped)
    BY <2>1
  <2>3. answered \in [1..2 -> {answered[1], answered[2]}]
    <3>1. 1..2 = {1, 2}
      OBVIOUS
    <3>2. answered = [j \in {1, 2} |-> answered[j]]
      BY <2>1
    <3> QED  BY <3>1, <3>2
  <2>4. Len(answered) = 2 /\ Len(sent) = 2 /\ DOMAIN sent = {1, 2}
        /\ sent[1] = media /\ sent[2] = rtx /\ sent # <<>> /\ answered # <<>>
    BY <2>1, <2>2, <2>3
  <2>5. 1..2 = {1, 2}
    OBVIOUS
  <2>6. Alike(sent, answered)
    BY <1>1, <1>2, <2>2, <2>4, <2>5 DEF Alike
  <2> QED  BY <1>1, <1>2, <1>5, <2>2, <2>4, <2>6
<1> QED  BY <1>4, <1>5

\* The remote parameters: what is listed, without the feedback that is dropped.
AnswerListed(kind, extended) ==
    IF FirstOfKind(kind, extended) = 0 THEN <<>>
    ELSE SentCodecs(extended.codecs[FirstOfKind(kind, extended)],
                    extended.codecs[FirstOfKind(kind, extended)].remoteParameters)

\* Nothing else changes on the way into the parameters.
LEMMA AnswerDrops ==
    ASSUME NEW kind, NEW extended
    PROVE  \E dropped :
             GetSendingRemoteRtpParameters(kind, extended).codecs
               = [j \in DOMAIN AnswerListed(kind, extended)
                    |-> WithoutFeedback(AnswerListed(kind, extended)[j], dropped)]
<1> DEFINE exts == SendExtensions(kind, extended)
           dropped == {"transport-cc", "goog-remb"} \ BweFeedback({ext.uri : ext \in exts})
           listed == AnswerListed(kind, extended)
<1>1. GetSendingRemoteRtpParameters(kind, extended)
        = [codecs |-> [j \in DOMAIN listed |-> WithoutFeedback(listed[j], dropped)],
           headerExtensions |-> exts]
  BY Zenon DEF GetSendingRemoteRtpParameters, AnswerListed, SentCodecs
<1> HIDE DEF exts, dropped, listed
<1>2. GetSendingRemoteRtpParameters(kind, extended).codecs
        = [j \in DOMAIN listed |-> WithoutFeedback(listed[j], dropped)]
  BY <1>1
<1> QED  BY <1>2, Zenon DEF listed

\* What is told to the server agrees with the answer in its name: both begin
\* with the same negotiated codec, at our payload types and a level that is the
\* same on both sides, and no selection tells them apart.
THEOREM SendParamsAlwaysAgree == Spec => []SendParamsAgree
<1>1. IInv => SendParamsAgree
  <2> DEFINE extended == extendedRtpCapabilities
             Sending(kind) == sendTransport.sending[kind]
             Remote(kind) == sendTransport.sendingRemote[kind]
             Codec(kind) == extended.codecs[FirstOfKind(kind, extended)]
             local == OwnCodecs(native)
  <2> SUFFICES ASSUME IInv, sendTransport # Null, NEW kind \in Kinds
               PROVE  /\ canProduceByKind[kind] <=> Sending(kind).codecs # <<>>
                      /\ PtsOf(Sending(kind).codecs) = PtsOf(Remote(kind).codecs)
                      /\ Sending(kind).headerExtensions = Remote(kind).headerExtensions
                      /\ \A i \in DOMAIN Sending(kind).codecs :
                           /\ \E own \in NativeCodecs :
                                /\ own.pt = Sending(kind).codecs[i].pt
                                /\ own.mime = Sending(kind).codecs[i].mime
                           /\ Sending(kind).codecs[i].apt = Remote(kind).codecs[i].apt
                           /\ i = 1 => Sending(kind).codecs[1].parameters.level
                                         = Remote(kind).codecs[1].parameters.level
                      /\ Sending(kind).codecs # <<>> =>
                           \A capCodec \in NativeCodecs \cup {NoCodec} :
                             PtsOf(CodecsToSend(kind, capCodec)) = PtsOf(CodecsOfAnswer(kind, capCodec))
    BY Zenon DEF SendParamsAgree, PtsOf
  <2>1. loaded /\ sendTransport = TransportOf(extended)
    BY DEF IInv
  <2>2. LastLoad /\ NegotiatedCodecs(extended.codecs, local, TheirCodecs(router))
    BY <2>1, LoadedLast, ExtendedNegotiated DEF LastLoad
  <2>3. Sending(kind) = GetSendingRtpParameters(kind, extended)
        /\ Remote(kind) = GetSendingRemoteRtpParameters(kind, extended)
    BY <2>1 DEF TransportOf
  <2>4. canProduceByKind[kind] <=> FirstOfKind(kind, extended) # 0
    BY <2>2 DEF LastLoad, CanSend
  <2>5. \A capCodec : /\ CodecsToSend(kind, capCodec) = ReduceCodecs(Sending(kind).codecs, capCodec)
                      /\ CodecsOfAnswer(kind, capCodec) = ReduceCodecs(Remote(kind).codecs, capCodec)
    BY DEF CodecsToSend, CodecsOfAnswer
  <2>6. Sending(kind).headerExtensions = Remote(kind).headerExtensions
    BY <2>3 DEF GetSendingRtpParameters, GetSendingRemoteRtpParameters
  <2>7. PICK dropped : Remote(kind).codecs
                         = [j \in DOMAIN AnswerListed(kind, extended)
                              |-> WithoutFeedback(AnswerListed(kind, extended)[j], dropped)]
    BY <2>3, AnswerDrops
  <2>8. CASE FirstOfKind(kind, extended) = 0
    <3>1. Sending(kind).codecs = <<>>
      BY <2>3, <2>8 DEF GetSendingRtpParameters
    <3>2. AnswerListed(kind, extended) = <<>>
      BY <2>8 DEF AnswerListed
    <3>3. DOMAIN <<>> = {} /\ DOMAIN Remote(kind).codecs = {}
      BY <2>7, <3>2
    <3>4. PtsOf(Sending(kind).codecs) = PtsOf(Remote(kind).codecs)
      BY <3>1, <3>3 DEF PtsOf
    <3> HIDE DEF Sending, Remote
    <3> QED  BY <2>4, <2>6, <2>8, <3>1, <3>3, <3>4
  <2>9. CASE FirstOfKind(kind, extended) # 0
    <3> DEFINE codec == Codec(kind)
               listed == SentCodecs(codec, codec.remoteParameters)
    <3>1. /\ Sending(kind).codecs = SentCodecs(codec, codec.localParameters)
          /\ AnswerListed(kind, extended) = listed
      BY <2>3, <2>9 DEF GetSendingRtpParameters, SentCodecs, AnswerListed
    <3>2. FirstOfKind(kind, extended) \in DOMAIN extended.codecs
      BY <2>2, <2>9, FirstOfKindFinds DEF NegotiatedCodecs
    <3>3. PICK i \in DOMAIN local, m \in DOMAIN TheirCodecs(router) :
            Agreed(codec, local[i], TheirCodecs(router)[m])
      BY <2>2, <3>2 DEF NegotiatedCodecs
    <3>4. RtxAgreed(codec, local, TheirCodecs(router))
      BY <2>2, <3>2 DEF NegotiatedCodecs
    <3>5. \A n \in DOMAIN local : local[n] \in NativeCodecs
      BY Zenon DEF NativeCodecs, OwnCodecs, ToSet
    <3> HIDE DEF codec, local, Sending, Remote
    <3>6. SentAsAnswered(codec, Sending(kind).codecs, Remote(kind).codecs)
      <4>1. Remote(kind).codecs = [j \in DOMAIN listed |-> WithoutFeedback(listed[j], dropped)]
        BY <2>7, <3>1
      <4> HIDE DEF listed
      <4>2. PICK sent : sent = Sending(kind).codecs
        OBVIOUS
      <4>3. PICK theirs : theirs = listed
        OBVIOUS
      <4>4. PICK answered : answered = Remote(kind).codecs
        OBVIOUS
      <4>5. /\ sent = SentCodecs(codec, codec.localParameters)
            /\ theirs = SentCodecs(codec, codec.remoteParameters)
            /\ answered = [j \in DOMAIN theirs |-> WithoutFeedback(theirs[j], dropped)]
        BY <3>1, <4>1, <4>2, <4>3, <4>4, Zenon DEF listed
      <4>6. SentAsAnswered(codec, sent, answered)
        BY <4>5, SentAndAnswered
      <4> QED  BY <4>2, <4>4, <4>6, Zenon
    <3>7. \E own \in NativeCodecs : own.pt = codec.localPt /\ own.mime = codec.mime
      <4>1. /\ local[i] \in NativeCodecs /\ local[i].pt = codec.localPt
            /\ local[i].mime = TheirCodecs(router)[m].mime /\ codec.mime = TheirCodecs(router)[m].mime
        BY <3>3, <3>5, Zenon DEF Agreed, MatchCodecs
      <4> QED  BY <4>1
    <3>8. codec.localRtxPt # Null =>
            \E own \in NativeCodecs : own.pt = codec.localRtxPt /\ own.mime = "rtx"
      BY <3>4, <3>5 DEF RtxAgreed, Bare, IsRtxCodec
    <3>9. codec.localParameters.level = codec.remoteParameters.level
      BY <3>3 DEF Agreed
    <3>10. \A capCodec : PtsOf(CodecsToSend(kind, capCodec)) = PtsOf(CodecsOfAnswer(kind, capCodec))
      BY <2>5, <3>6, ReducedAlike DEF SentAsAnswered
    <3>11. PtsOf(Sending(kind).codecs) = PtsOf(Remote(kind).codecs)
      BY <3>6 DEF SentAsAnswered, Alike, PtsOf
    <3>12. ASSUME NEW n \in DOMAIN Sending(kind).codecs
           PROVE  \E own \in NativeCodecs :
                    own.pt = Sending(kind).codecs[n].pt /\ own.mime = Sending(kind).codecs[n].mime
      BY <3>6, <3>7, <3>8 DEF SentAsAnswered
    <3> QED  BY <2>4, <2>6, <2>9, <3>6, <3>9, <3>10, <3>11, <3>12 DEF SentAsAnswered
  <2> QED  BY <2>8, <2>9
<1> QED  BY <1>1, Invariance, PTL
=============================================================================
