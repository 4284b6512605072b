----------------------------- MODULE JsepProofs -----------------------------
(***************************************************************************)
(* What an offer of Jsep looks like, for any number of transceivers and    *)
(* m= lines: the facts SendHandlerProofs needs.  The m= lines of before    *)
(* keep their places, a line is given away only if its transceiver is      *)
(* gone, to the first one first, and no mid is offered twice.              *)
(***************************************************************************)
EXTENDS Jsep, FiniteSetTheorems, WellFoundedInduction, TLAPS

\* Every set of numbers that is not empty has a least one.
LEMMA LeastNumber ==
  ASSUME NEW T, T \subseteq Nat, T # {}
  PROVE  \E i \in T : \A j \in T : i <= j
<1>1. PICK i \in T : \A j \in T : ~ (<<j, i>> \in OpToRel(<, Nat))
  BY NatLessThanWellFounded, WFMin, Zenon
<1>2. ASSUME NEW j \in T, j < i PROVE FALSE
  <2>1. <<j, i>> \in Nat \X Nat
    BY i \in T, j \in T, SMT
  <2>2. <<j, i>>[1] < <<j, i>>[2]
    BY <1>2
  <2>3. <<j, i>> \in OpToRel(<, Nat)
    BY <2>1, <2>2, Zenon DEF OpToRel
  <2> QED BY <1>1, <2>3
<1> QED BY <1>2

\* A subset of an interval is finite.
LEMMA IntervalSubset ==
  ASSUME NEW n \in Nat, NEW S, S \subseteq 1..n
  PROVE  IsFiniteSet(S)
<1>1. IsFiniteSet(1..n)
  BY 1 \in Int, n \in Int, FS_Interval
<1> QED  BY <1>1, FS_Subset

Enumerates(s, S) ==
    /\ s \in [1..Cardinality(S) -> S]
    /\ \A n \in S : \E k \in DOMAIN s : s[k] = n
    /\ \A j, k \in DOMAIN s : j < k => s[j] < s[k]

\* A subset of 1..n has an enumeration in increasing order: the least n for
\* which one has none is not 0, and its set has n and, without n, is no exception.
LEMMA SubsetOfInterval ==
  ASSUME NEW n \in Nat, NEW S, S \subseteq 1..n
  PROVE  \E s : Enumerates(s, S)
<1> DEFINE Bad == {m \in Nat : \E R \in SUBSET (1..m) : ~ \E s : Enumerates(s, R)}
<1> SUFFICES ASSUME Bad # {} PROVE FALSE
  OBVIOUS
<1>1. PICK m \in Bad : \A j \in Bad : m <= j
  <2>1. Bad \subseteq Nat
    OBVIOUS
  <2> QED  BY <2>1, LeastNumber
<1>2. PICK R \in SUBSET (1..m) : ~ \E s : Enumerates(s, R)
  OBVIOUS
<1>3. \A j \in Nat : j < m => \A Q \in SUBSET (1..j) : \E s : Enumerates(s, Q)
  BY <1>1
<1> HIDE DEF Bad
<1>4. m \in Nat
  BY DEF Bad
<1>5. m # 0
  <2> SUFFICES ASSUME m = 0 PROVE FALSE
    OBVIOUS
  <2> DEFINE e == [k \in {} |-> 0]
  <2>1. R = {} /\ Cardinality(R) = 0 /\ 1..0 = {}
    <3>1. 1..0 = {}
      OBVIOUS
    <3>2. R = {}
      BY <3>1
    <3> QED  BY <3>1, <3>2, FS_EmptySet, Zenon
  <2>2. e \in [{} -> {}] /\ DOMAIN e = {}
    OBVIOUS
  <2> HIDE DEF e
  <2>3. Enumerates(e, R)
    BY <2>1, <2>2 DEF Enumerates
  <2> QED  BY <2>3, <1>2
<1>6. m \in R
  <2> SUFFICES ASSUME m \notin R PROVE FALSE
    OBVIOUS
  <2>1. m - 1 \in Nat /\ m - 1 < m /\ R \subseteq 1..(m - 1)
    BY <1>4, <1>5
  <2> QED  BY <2>1, <1>2, <1>3
<1> DEFINE Q == R \ {m}
           c == Cardinality(Q)
<1>7. PICK s : Enumerates(s, Q)
  <2>1. m - 1 \in Nat /\ m - 1 < m /\ Q \subseteq 1..(m - 1)
    BY <1>4, <1>5
  <2> QED  BY <2>1, <1>3
<1>8. c \in Nat /\ Cardinality(R) = c + 1
  <2>1. IsFiniteSet(R)
    BY <1>4, IntervalSubset
  <2>2. IsFiniteSet(Q) /\ c = Cardinality(R) - 1
    BY <2>1, <1>6, FS_RemoveElement
  <2>3. c \in Nat /\ Cardinality(R) \in Nat
    BY <2>1, <2>2, FS_CardinalityType
  <2> QED  BY <2>2, <2>3
<1> DEFINE t == [k \in 1..(c + 1) |-> IF k = c + 1 THEN m ELSE s[k]]
<1>9. /\ s \in [1..c -> Q] /\ DOMAIN s = 1..c
      /\ \A x \in Q : \E k \in 1..c : s[k] = x
      /\ \A j, k \in 1..c : j < k => s[j] < s[k]
  BY <1>7 DEF Enumerates
<1>10. \A k \in 1..c : s[k] \in R /\ s[k] < m
  <2> SUFFICES ASSUME NEW k \in 1..c PROVE s[k] \in R /\ s[k] < m
    OBVIOUS
  <2>1. s[k] \in R /\ s[k] # m
    BY <1>9
  <2>2. s[k] \in 1..m
    BY <2>1
  <2> QED  BY <2>1, <2>2, <1>4
<1> HIDE DEF c
<1>11. t \in [1..(c + 1) -> R] /\ DOMAIN t = 1..(c + 1)
  BY <1>6, <1>8, <1>10
<1>12. \A x \in R : \E k \in 1..(c + 1) : t[k] = x
  <2> SUFFICES ASSUME NEW x \in R PROVE \E k \in 1..(c + 1) : t[k] = x
    OBVIOUS
  <2>1. CASE x = m
    BY <2>1, <1>8
  <2>2. CASE x # m
    <3>1. PICK k \in 1..c : s[k] = x
      BY <2>2, <1>9
    <3>2. k \in 1..(c + 1) /\ t[k] = x
      BY <3>1, <1>8
    <3> QED  BY <3>2
  <2> QED  BY <2>1, <2>2
<1>13. \A j, k \in 1..(c + 1) : j < k => t[j] < t[k]
  BY <1>8, <1>9, <1>10
<1>14. Enumerates(t, R)
  BY <1>8, <1>11, <1>12, <1>13 DEF Enumerates
<1> QED  BY <1>2, <1>14

\* What CreateOffer makes of the recyclable lines and of the new transceivers.
LEMMA InOrderEnumerates ==
  ASSUME NEW n \in Nat, NEW S, S \subseteq 1..n
  PROVE  /\ Enumerates(InOrder(S), S)
         /\ Cardinality(S) \in Nat
<1>1. \E s : Enumerates(s, S)
  BY SubsetOfInterval
<1>2. InOrder(S) = CHOOSE s \in [1..Cardinality(S) -> S] :
                     /\ \A x \in S : \E k \in DOMAIN s : s[k] = x
                     /\ \A j, k \in DOMAIN s : j < k => s[j] < s[k]
  BY DEF InOrder
<1>3. Enumerates(InOrder(S), S)
  BY <1>1, <1>2 DEF Enumerates
<1>4. IsFiniteSet(S)
  BY IntervalSubset
<1> QED  BY <1>3, <1>4, FS_CardinalityType

-----------------------------------------------------------------------------
(* Offers.                                                                 *)

\* Sequences as functions.
LEMMA SeqFacts ==
  ASSUME NEW S, NEW s \in Seq(S)
  PROVE  /\ DOMAIN s = 1..Len(s) /\ Len(s) \in Nat
         /\ \A i \in 1..Len(s) : s[i] \in S
OBVIOUS

\* A function on 1..n is a sequence of length n.
LEMMA FunctionIsSeq ==
  ASSUME NEW S, NEW n \in Nat, NEW f \in [1..n -> S]
  PROVE  f \in Seq(S) /\ Len(f) = n
OBVIOUS

\* Where the elements of a concatenation come from.
LEMMA ConcatenationOfTwo ==
  ASSUME NEW S, NEW a \in Seq(S), NEW b \in Seq(S)
  PROVE  /\ a \o b \in Seq(S)
         /\ Len(a \o b) = Len(a) + Len(b)
         /\ \A i \in 1..Len(a) : (a \o b)[i] = a[i]
         /\ \A k \in 1..Len(b) : (a \o b)[Len(a) + k] = b[k]
OBVIOUS

Joins(S, a, b, c, abc) ==
    /\ abc \in Seq(S)
    /\ Len(abc) = Len(a) + Len(b) + Len(c)
    /\ \A i \in 1..Len(a) : abc[i] = a[i]
    /\ \A k \in 1..Len(b) : abc[Len(a) + k] = b[k]
    /\ \A k \in 1..Len(c) : abc[Len(a) + Len(b) + k] = c[k]

\* The same for the three parts of an offer.
LEMMA Concatenation ==
  ASSUME NEW S, NEW a \in Seq(S), NEW b \in Seq(S), NEW c \in Seq(S)
  PROVE  Joins(S, a, b, c, a \o b \o c)
<1>1. PICK ab \in Seq(S) : ab = a \o b
  BY ConcatenationOfTwo
<1>2. /\ Len(ab) = Len(a) + Len(b)
      /\ \A i \in 1..Len(a) : ab[i] = a[i]
      /\ \A k \in 1..Len(b) : ab[Len(a) + k] = b[k]
  BY <1>1, ConcatenationOfTwo
<1>3. PICK abc : abc = ab \o c
  OBVIOUS
<1>4. /\ abc \in Seq(S) /\ Len(abc) = Len(ab) + Len(c)
      /\ \A i \in 1..Len(ab) : abc[i] = ab[i]
      /\ \A k \in 1..Len(c) : abc[Len(ab) + k] = c[k]
  BY <1>3, ConcatenationOfTwo
<1>5. Len(a) \in Nat /\ Len(b) \in Nat
  OBVIOUS
<1>6. /\ \A i \in 1..Len(a) : i \in 1..Len(ab)
      /\ \A k \in 1..Len(b) : Len(a) + k \in 1..Len(ab)
  BY <1>2, <1>5
<1>7. Joins(S, a, b, c, abc)
  BY <1>2, <1>4, <1>6 DEF Joins
<1> QED  BY <1>1, <1>3, <1>7

\* What increases is not repeated.
LEMMA IncreasingIsInjective ==
  ASSUME NEW n \in Nat, NEW m \in Nat, NEW s \in [1..n -> 1..m],
         \A j, k \in 1..n : j < k => s[j] < s[k]
  PROVE  \A j, k \in 1..n : s[j] = s[k] => j = k
<1> SUFFICES ASSUME NEW j \in 1..n, NEW k \in 1..n, s[j] = s[k], j # k PROVE FALSE
  OBVIOUS
<1>1. s[j] \in Nat /\ s[k] \in Nat
  OBVIOUS
<1>2. j < k \/ k < j
  OBVIOUS
<1> QED  BY <1>1, <1>2

UniqueMids(lines) == \A i, j \in DOMAIN lines : lines[i].mid = lines[j].mid => i = j

\* The n-th transceiver has the mid n as long as an m= line of the local
\* description has it and the transceiver was not stopped, and none otherwise.
WellFormed(p) ==
    /\ \A t \in DOMAIN p.transceivers :
         p.transceivers[t].mid = IF t \in MidsOf(p.local) /\ ~p.transceivers[t].stopped
                                 THEN t ELSE NoMid
    /\ MidsOf(p.local) \subseteq DOMAIN p.transceivers \cup {DataMid}
    /\ UniqueMids(p.local)

\* What every offer of p has in common, until the next one is set.
OfferOf(p, offer) ==
    /\ Len(p.local) <= Len(offer)
    /\ UniqueMids(offer)
    /\ \A i \in DOMAIN offer :
         \/ i \in DOMAIN p.local /\ offer[i].mid = p.local[i].mid
         \/ offer[i].mid \in NewTransceivers(p)
         \/ i \notin DOMAIN p.local /\ offer[i].mid = DataMid /\ DataMid \notin MidsOf(p.local)
    /\ \A i \in DOMAIN p.local : i \notin RecyclableLines(p) => offer[i].mid = p.local[i].mid
    /\ NewTransceivers(p) \subseteq MidsOf(offer)
    /\ \A i \in DOMAIN offer, j \in RecyclableLines(p) :
         /\ offer[i].mid \in NewTransceivers(p)
         /\ i \in DOMAIN p.local => j < i
         => offer[j].mid # p.local[j].mid

\* A new transceiver has no m= line yet.
LEMMA NewHasNoLine ==
  ASSUME NEW p, WellFormed(p), NEW t \in NewTransceivers(p),
         NoMid \notin DOMAIN p.transceivers
  PROVE  t \in DOMAIN p.transceivers /\ t \notin MidsOf(p.local)
BY DEF WellFormed, NewTransceivers

\* CreateOffer makes such an offer; it has a new line for the data channels
\* exactly if there are any and they had none.
LEMMA OfferOfPeer ==
  ASSUME NEW M, NEW p, NEW n \in Nat, 1..n \subseteq M, DataMid \in M,
         p.local \in Seq([mid : M, rejected : BOOLEAN]),
         DOMAIN p.transceivers = 1..n, WellFormed(p),
         NoMid \notin 1..n, DataMid \notin 1..n
  PROVE  /\ CreateOffer(p) \in Seq([mid : M, rejected : BOOLEAN])
         /\ OfferOf(p, CreateOffer(p))
         /\ DataMid \in MidsOf(CreateOffer(p)) <=> p.channels # {} \/ DataMid \in MidsOf(p.local)
<1> DEFINE Line == [mid : M, rejected : BOOLEAN]
           F == RecyclableLines(p)
           N == NewTransceivers(p)
           free == InOrder(F)
           new == InOrder(N)
           reused == IF Len(free) < Len(new) THEN Len(free) ELSE Len(new)
           kept == [i \in DOMAIN p.local |->
                      IF \E k \in 1..reused : free[k] = i
                      THEN [mid |-> new[CHOOSE k \in 1..reused : free[k] = i], rejected |-> FALSE]
                      ELSE [mid |-> p.local[i].mid, rejected |-> \E k \in DOMAIN free : free[k] = i]]
           added == [k \in 1..Len(new) - reused |-> [mid |-> new[reused + k], rejected |-> FALSE]]
           data == IF p.channels # {} /\ DataMid \notin MidsOf(p.local)
                   THEN <<[mid |-> DataMid, rejected |-> FALSE]>> ELSE <<>>
           nl == Len(p.local)
           nn == Cardinality(N)
           nf == Cardinality(F)
           o == CreateOffer(p)
<1>1. o = kept \o added \o data
  BY DEF CreateOffer
<1>2. DOMAIN p.local = 1..nl /\ nl \in Nat /\ \A i \in 1..nl : p.local[i] \in Line
  BY SeqFacts
<1>3. F \subseteq 1..nl /\ N \subseteq 1..n
  BY <1>2 DEF RecyclableLines, NewTransceivers
<1>4. /\ nf \in Nat /\ free \in [1..nf -> F]
      /\ \A i \in F : \E k \in 1..nf : free[k] = i
      /\ \A j, k \in 1..nf : j < k => free[j] < free[k]
  <2>1. Enumerates(free, F) /\ nf \in Nat
    BY <1>2, <1>3, InOrderEnumerates
  <2> QED  BY <2>1 DEF Enumerates
<1>5. /\ nn \in Nat /\ new \in [1..nn -> N]
      /\ \A i \in N : \E k \in 1..nn : new[k] = i
      /\ \A j, k \in 1..nn : j < k => new[j] < new[k]
  <2>1. Enumerates(new, N) /\ nn \in Nat
    BY <1>3, InOrderEnumerates
  <2> QED  BY <2>1 DEF Enumerates
<1>6. /\ \A t \in N : t \notin MidsOf(p.local) /\ t # DataMid /\ t \in M
      /\ \A i \in 1..nl : p.local[i].mid \in MidsOf(p.local) /\ p.local[i].mid \in M
      /\ \A i, j \in 1..nl : p.local[i].mid = p.local[j].mid => i = j
  <2>1. \A t \in N : t \notin MidsOf(p.local)
    BY NewHasNoLine
  <2>2. \A i \in 1..nl : p.local[i].mid \in MidsOf(p.local) /\ p.local[i].mid \in M
    BY <1>2 DEF MidsOf
  <2>3. \A i, j \in 1..nl : p.local[i].mid = p.local[j].mid => i = j
    BY <1>2 DEF WellFormed, UniqueMids
  <2> QED  BY <2>1, <2>2, <2>3, <1>3
<1> HIDE DEF F, N, free, new, nl, nn, nf, o
<1>7. Len(free) = nf /\ Len(new) = nn
  BY <1>4, <1>5
<1>8. /\ reused \in 0..nn /\ reused <= nf
      /\ reused < nn => reused = nf
  BY <1>4, <1>5, <1>7
<1> HIDE DEF reused
<1>9. \A j, k \in 1..nf : free[j] = free[k] => j = k
  <2>1. free \in [1..nf -> 1..nl] /\ nl \in Nat
    BY <1>2, <1>3, <1>4
  <2> QED  BY <2>1, <1>4, IncreasingIsInjective
<1>10. \A j, k \in 1..nn : new[j] = new[k] => j = k
  <2>1. new \in [1..nn -> 1..n]
    BY <1>3, <1>5
  <2> QED  BY <2>1, <1>5, IncreasingIsInjective
\* The lines of kept.
<1>11. /\ DOMAIN kept = 1..nl /\ kept = [i \in 1..nl |-> kept[i]]
       /\ \A i \in 1..nl :
            IF \E k \in 1..reused : free[k] = i
            THEN kept[i] = [mid |-> new[CHOOSE k \in 1..reused : free[k] = i], rejected |-> FALSE]
            ELSE kept[i] = [mid |-> p.local[i].mid, rejected |-> \E k \in DOMAIN free : free[k] = i]
  BY <1>2
<1> HIDE DEF kept
<1>12. ASSUME NEW k \in 1..reused
       PROVE  free[k] \in F /\ kept[free[k]] = [mid |-> new[k], rejected |-> FALSE] /\ new[k] \in N
  <2>1. k \in 1..nf /\ \A j \in 1..reused : j \in 1..nf
    BY <1>4, <1>5, <1>8
  <2>2. free[k] \in F /\ free[k] \in 1..nl
    BY <2>1, <1>3, <1>4
  <2>3. (CHOOSE j \in 1..reused : free[j] = free[k]) = k
    BY <2>1, <1>9
  <2>4. new[k] \in N
    BY <1>5, <1>8
  <2> QED  BY <2>2, <2>3, <2>4, <1>11
<1>13. ASSUME NEW i \in 1..nl, \A k \in 1..reused : free[k] # i
       PROVE  kept[i].mid = p.local[i].mid /\ kept[i].rejected \in BOOLEAN /\ kept[i] \in Line
  <2>1. kept[i] = [mid |-> p.local[i].mid, rejected |-> \E k \in DOMAIN free : free[k] = i]
    BY <1>11, <1>13
  <2> QED  BY <2>1, <1>6
<1>14. kept \in [1..nl -> Line]
  <2> SUFFICES ASSUME NEW i \in 1..nl PROVE kept[i] \in Line
    BY <1>11
  <2>1. CASE \E k \in 1..reused : free[k] = i
    <3>1. PICK k \in 1..reused : free[k] = i
      BY <2>1
    <3>2. kept[i] = [mid |-> new[k], rejected |-> FALSE] /\ new[k] \in M
      BY <3>1, <1>6, <1>12
    <3> QED  BY <3>2
  <2> QED  BY <2>1, <1>13
<1> DEFINE na == nn - reused
<1>15. na \in Nat /\ \A k \in 1..na : reused + k \in 1..nn /\ reused + k > reused
  BY <1>5, <1>8
<1>16. /\ added \in [1..na -> Line]
       /\ \A k \in 1..na : added[k].mid = new[reused + k]
  <2> SUFFICES ASSUME NEW k \in 1..na PROVE new[reused + k] \in M
    BY <1>7
  <2> QED  BY <1>5, <1>6, <1>15
<1> HIDE DEF na, added
<1>17. /\ kept \in Seq(Line) /\ Len(kept) = nl
       /\ added \in Seq(Line) /\ Len(added) = na
  BY <1>2, <1>14, <1>15, <1>16, FunctionIsSeq
<1>18. /\ data \in Seq(Line) /\ Len(data) \in {0, 1}
       /\ Len(data) = 1 => p.channels # {} /\ DataMid \notin MidsOf(p.local) /\ data[1].mid = DataMid
       /\ Len(data) = 0 => p.channels = {} \/ DataMid \in MidsOf(p.local)
  <2>1. CASE p.channels # {} /\ DataMid \notin MidsOf(p.local)
    <3>1. data = <<[mid |-> DataMid, rejected |-> FALSE]>>
      BY <2>1
    <3>2. [mid |-> DataMid, rejected |-> FALSE] \in Line
      OBVIOUS
    <3> HIDE DEF data, Line
    <3> QED  BY <2>1, <3>1, <3>2
  <2>2. CASE ~ (p.channels # {} /\ DataMid \notin MidsOf(p.local))
    <3>1. data = <<>>
      BY <2>2
    <3> HIDE DEF data, Line
    <3> QED  BY <2>2, <3>1
  <2> QED  BY <2>1, <2>2
<1> HIDE DEF data
<1> DEFINE nd == Len(data)
<1>joins. Joins(Line, kept, added, data, o)
  <2> HIDE DEF Line
  <2>1. kept \in Seq(Line) /\ added \in Seq(Line) /\ data \in Seq(Line)
    BY <1>17, <1>18
  <2> QED  BY <1>1, <2>1, Concatenation, Zenon
<1>19. o \in Seq(Line) /\ DOMAIN o = 1..(nl + na + nd) /\ Len(o) = nl + na + nd
  <2>1. o \in Seq(Line) /\ Len(o) = Len(kept) + Len(added) + Len(data)
    BY <1>joins DEF Joins
  <2> QED  BY <2>1, <1>17, SeqFacts
<1>20. /\ \A i \in 1..nl : o[i] = kept[i]
       /\ \A k \in 1..na : o[nl + k] = added[k]
       /\ nd = 1 => o[nl + na + 1] = data[1]
  <2>1. /\ \A i \in 1..Len(kept) : o[i] = kept[i]
        /\ \A k \in 1..Len(added) : o[Len(kept) + k] = added[k]
        /\ \A k \in 1..Len(data) : o[Len(kept) + Len(added) + k] = data[k]
    BY <1>joins DEF Joins
  <2> QED  BY <2>1, <1>17, <1>18
<1> HIDE DEF nd
<1> DEFINE New(i) == \E k \in 1..nn : /\ o[i].mid = new[k]
                                     /\ \/ k \in 1..reused /\ i = free[k] /\ i \in 1..nl
                                        \/ k > reused /\ i = nl + k - reused
           Old(i) == /\ i \in 1..nl /\ o[i].mid = p.local[i].mid
                     /\ \A k \in 1..reused : free[k] # i
           Data(i) == /\ i = nl + na + 1 /\ o[i].mid = DataMid
                      /\ p.channels # {} /\ DataMid \notin MidsOf(p.local)
<1>21. ASSUME NEW i \in DOMAIN o PROVE New(i) \/ Old(i) \/ Data(i)
  <2>1. i \in 1..nl \/ (\E k \in 1..na : i = nl + k) \/ (i = nl + na + 1 /\ nd = 1)
    <3>1. i \in 1..(nl + na + nd) /\ nl \in Nat /\ na \in Nat /\ nd \in {0, 1}
      BY <1>2, <1>15, <1>18, <1>19 DEF nd
    <3>2. i > nl /\ i <= nl + na => i - nl \in 1..na /\ i = nl + (i - nl)
      BY <3>1
    <3>3. i \in 1..nl \/ (i > nl /\ i <= nl + na) \/ (i = nl + na + 1 /\ nd = 1)
      BY <3>1
    <3> QED  BY <3>2, <3>3
  <2>2. CASE i \in 1..nl
    <3>1. CASE \E k \in 1..reused : free[k] = i
      <4>1. PICK k \in 1..reused : free[k] = i
        BY <3>1
      <4>2. o[i].mid = new[k] /\ k \in 1..nn
        <5>1. kept[i] = [mid |-> new[k], rejected |-> FALSE] /\ o[i] = kept[i]
          BY <4>1, <2>2, <1>12, <1>20
        <5> QED  BY <5>1, <4>1, <1>5, <1>8
      <4> QED  BY <4>1, <4>2, <2>2
    <3>2. CASE \A k \in 1..reused : free[k] # i
      BY <3>2, <2>2, <1>13, <1>20
    <3> QED  BY <3>1, <3>2
  <2>3. CASE \E k \in 1..na : i = nl + k
    <3>1. PICK k \in 1..na : i = nl + k
      BY <2>3
    <3>2. o[i].mid = new[reused + k] /\ reused + k \in 1..nn /\ reused + k > reused
      BY <3>1, <1>15, <1>16, <1>20
    <3>3. i = nl + (reused + k) - reused
      BY <3>1, <1>2, <1>8
    <3> QED  BY <3>2, <3>3
  <2>4. CASE i = nl + na + 1 /\ nd = 1
    BY <2>4, <1>18, <1>20 DEF nd
  <2> QED  BY <2>1, <2>2, <2>3, <2>4
<1>22. ASSUME NEW k \in 1..nn PROVE \E i \in DOMAIN o : o[i].mid = new[k]
  <2>1. CASE k <= reused
    <3>1. k \in 1..reused
      BY <2>1, <1>8
    <3>2. free[k] \in 1..nl /\ o[free[k]].mid = new[k]
      <4>1. free[k] \in 1..nl /\ kept[free[k]] = [mid |-> new[k], rejected |-> FALSE]
        BY <3>1, <1>3, <1>12
      <4> QED  BY <4>1, <1>20
    <3>3. free[k] \in DOMAIN o
      BY <3>2, <1>2, <1>15, <1>18, <1>19 DEF nd
    <3> QED  BY <3>2, <3>3
  <2>2. CASE k > reused
    <3>1. k - reused \in 1..na /\ reused + (k - reused) = k
      BY <2>2, <1>5, <1>8 DEF na
    <3>2. o[nl + (k - reused)].mid = new[k]
      BY <3>1, <1>16, <1>20
    <3>3. nl + (k - reused) \in DOMAIN o
      BY <3>1, <1>2, <1>15, <1>18, <1>19 DEF nd
    <3> QED  BY <3>2, <3>3
  <2> QED  BY <2>1, <2>2, <1>8
<1> HIDE DEF New, Old, Data
<1>23. UniqueMids(o)
  <2> SUFFICES ASSUME NEW i \in DOMAIN o, NEW j \in DOMAIN o, o[i].mid = o[j].mid PROVE i = j
    BY DEF UniqueMids
  <2>1. \A k \in 1..nn : new[k] \in N
    BY <1>5
  <2>2. CASE New(i) /\ New(j)
    <3>1. PICK k \in 1..nn : /\ o[i].mid = new[k]
                            /\ \/ k \in 1..reused /\ i = free[k]
                               \/ k > reused /\ i = nl + k - reused
      BY <2>2 DEF New
    <3>2. PICK l \in 1..nn : /\ o[j].mid = new[l]
                            /\ \/ l \in 1..reused /\ j = free[l]
                               \/ l > reused /\ j = nl + l - reused
      BY <2>2 DEF New
    <3>3. k = l
      BY <3>1, <3>2, <1>10
    <3> QED  BY <3>1, <3>2, <3>3, <1>8
  <2>3. CASE Old(i) /\ Old(j)
    BY <2>3, <1>6 DEF Old
  <2>4. CASE Data(i) /\ Data(j)
    BY <2>4 DEF Data
  <2>5. CASE (New(i) /\ Old(j)) \/ (Old(i) /\ New(j))
    BY <2>1, <2>5, <1>6 DEF New, Old
  <2>6. CASE (New(i) /\ Data(j)) \/ (Data(i) /\ New(j))
    BY <2>1, <2>6, <1>6 DEF New, Data
  <2>7. CASE (Old(i) /\ Data(j)) \/ (Data(i) /\ Old(j))
    BY <2>7, <1>6 DEF Old, Data
  <2> QED  BY <1>21, <2>2, <2>3, <2>4, <2>5, <2>6, <2>7
<1>24. \A i \in 1..nl : i \in DOMAIN o
  BY <1>2, <1>15, <1>18, <1>19 DEF nd
<1>25. \A i \in DOMAIN o :
         \/ i \in DOMAIN p.local /\ o[i].mid = p.local[i].mid
         \/ o[i].mid \in N
         \/ i \notin DOMAIN p.local /\ o[i].mid = DataMid /\ DataMid \notin MidsOf(p.local)
  <2> SUFFICES ASSUME NEW i \in DOMAIN o
               PROVE \/ i \in DOMAIN p.local /\ o[i].mid = p.local[i].mid
                     \/ o[i].mid \in N
                     \/ i \notin DOMAIN p.local /\ o[i].mid = DataMid /\ DataMid \notin MidsOf(p.local)
    OBVIOUS
  <2>1. CASE New(i)
    BY <2>1, <1>5 DEF New
  <2>2. CASE Old(i)
    BY <2>2, <1>2 DEF Old
  <2>3. CASE Data(i)
    <3>1. i \notin DOMAIN p.local
      BY <2>3, <1>2, <1>15 DEF Data
    <3> QED  BY <2>3, <3>1 DEF Data
  <2> QED  BY <1>21, <2>1, <2>2, <2>3
<1>26. \A i \in DOMAIN p.local : i \notin F => o[i].mid = p.local[i].mid
  <2> SUFFICES ASSUME NEW i \in 1..nl, i \notin F PROVE o[i].mid = p.local[i].mid
    BY <1>2
  <2>1. \A k \in 1..reused : free[k] # i
    BY <1>12
  <2> QED  BY <2>1, <1>13, <1>20
<1>27. N \subseteq MidsOf(o)
  BY <1>5, <1>22 DEF MidsOf
<1>28. \A i \in DOMAIN o, j \in F :
         /\ o[i].mid \in N
         /\ i \in DOMAIN p.local => j < i
         => o[j].mid # p.local[j].mid
  <2> SUFFICES ASSUME NEW i \in DOMAIN o, NEW j \in F, o[i].mid \in N,
                      i \in DOMAIN p.local => j < i
               PROVE  o[j].mid # p.local[j].mid
    OBVIOUS
  <2>1. PICK l \in 1..nf : free[l] = j
    BY <1>4
  <2>2. l \in 1..reused
    <3>0. New(i)
      BY <1>2, <1>6, <1>21 DEF Old, Data
    <3>1. PICK k \in 1..nn : (k \in 1..reused /\ i = free[k] /\ i \in 1..nl) \/ k > reused
      BY <3>0 DEF New
    <3>2. CASE k \in 1..reused /\ i = free[k] /\ i \in 1..nl
      <4>1. free[l] < free[k] /\ k \in 1..nf
        BY <2>1, <3>2, <1>2, <1>4, <1>8
      <4>2. \A m \in 1..nf : free[m] \in Nat
        <5>1. free \in [1..nf -> 1..nl]
          BY <1>3, <1>4
        <5> QED  BY <5>1
      <4>3. ~ (k < l) /\ k # l
        BY <2>1, <4>1, <4>2, <1>4
      <4>4. l < k /\ k <= reused
        BY <2>1, <3>2, <4>1, <4>3, <1>8
      <4> QED  BY <4>4, <2>1, <3>2, <1>8
    <3>3. CASE k > reused
      BY <3>3, <1>5, <1>8
    <3> QED  BY <3>1, <3>2, <3>3
  <2>3. kept[j] = [mid |-> new[l], rejected |-> FALSE] /\ new[l] \in N
    BY <2>1, <2>2, <1>12
  <2>4. j \in 1..nl
    BY <1>3
  <2>5. o[j].mid = new[l]
    BY <2>3, <2>4, <1>20
  <2> QED  BY <2>3, <2>4, <2>5, <1>6
<1>29. OfferOf(p, o)
  <2>1. Len(p.local) <= Len(o)
    BY <1>2, <1>15, <1>18, <1>19 DEF nl, nd
  <2> QED  BY <2>1, <1>23, <1>25, <1>26, <1>27, <1>28 DEF OfferOf, F, N
<1>30. DataMid \in MidsOf(o) <=> p.channels # {} \/ DataMid \in MidsOf(p.local)
  <2>1. ASSUME DataMid \in MidsOf(o)
        PROVE  p.channels # {} \/ DataMid \in MidsOf(p.local)
    <3>1. PICK i \in DOMAIN o : o[i].mid = DataMid
      BY <2>1 DEF MidsOf
    <3>2. ~New(i)
      <4>1. \A k \in 1..nn : new[k] # DataMid
        BY <1>5, <1>6
      <4> QED  BY <3>1, <4>1 DEF New
    <3> QED  BY <3>1, <3>2, <1>6, <1>21 DEF Old, Data
  <2>2. ASSUME DataMid \in MidsOf(p.local)
        PROVE  DataMid \in MidsOf(o)
    <3>1. PICK i \in 1..nl : p.local[i].mid = DataMid
      BY <2>2, <1>2 DEF MidsOf
    <3>2. i \notin F
      BY <3>1 DEF F, RecyclableLines
    <3>3. o[i].mid = DataMid /\ i \in DOMAIN o
      BY <3>1, <3>2, <1>2, <1>24, <1>26
    <3> QED  BY <3>3 DEF MidsOf
  <2>3. ASSUME p.channels # {}, DataMid \notin MidsOf(p.local)
        PROVE  DataMid \in MidsOf(o)
    <3>1. nd = 1
      BY <2>3, <1>18 DEF nd
    <3>2. o[nl + na + 1].mid = DataMid /\ nl + na + 1 \in DOMAIN o
      BY <3>1, <1>2, <1>15, <1>18, <1>19, <1>20 DEF nd
    <3> QED  BY <3>2 DEF MidsOf
  <2> QED  BY <2>1, <2>2, <2>3
<1> QED  BY <1>19, <1>29, <1>30 DEF o

-----------------------------------------------------------------------------
(* Peers.                                                                  *)

Lines(M) == Seq([mid : M, rejected : BOOLEAN])

Transceiver(M) == [mid : M \cup {NoMid}, sending : BOOLEAN, stopped : BOOLEAN]

Peers(M) == [closed : BOOLEAN, signaling : {"stable", "have-local-offer"},
             transceivers : Seq(Transceiver(M)), local : Lines(M), remote : Lines(M),
             channels : SUBSET Nat]

\* Associated and StopRejected one transceiver at a time.
LEMMA AssociatedTransceivers ==
  ASSUME NEW M, NEW n \in Nat, 1..n \subseteq M, NEW ts \in Seq(Transceiver(M)),
         DOMAIN ts = 1..n, NEW offer
  PROVE  /\ Associated(ts, offer) \in Seq(Transceiver(M))
         /\ DOMAIN Associated(ts, offer) = 1..n
         /\ \A t \in 1..n :
              /\ Associated(ts, offer)[t].sending = ts[t].sending
              /\ Associated(ts, offer)[t].stopped = ts[t].stopped
              /\ Associated(ts, offer)[t].mid = IF t \in MidsOf(offer) /\ ~ts[t].stopped
                                                THEN t ELSE ts[t].mid
<1> DEFINE a == Associated(ts, offer)
           T == Transceiver(M)
<1>1. \A t \in 1..n : ts[t] \in T
  BY SeqFacts
<1>2. /\ DOMAIN a = 1..n
      /\ a = [t \in 1..n |-> a[t]]
      /\ \A t \in 1..n : a[t] = IF t \in MidsOf(offer) /\ ~ts[t].stopped
                                THEN [ts[t] EXCEPT !.mid = t] ELSE ts[t]
  BY Zenon DEF Associated
<1>3. \A x \in T : \A t \in M : /\ [x EXCEPT !.mid = t] \in T
                              /\ [x EXCEPT !.mid = t].mid = t
                              /\ [x EXCEPT !.mid = t].sending = x.sending
                              /\ [x EXCEPT !.mid = t].stopped = x.stopped
  BY DEF Transceiver
<1> HIDE DEF a, T
<1>4. ASSUME NEW t \in 1..n
      PROVE  /\ a[t] \in T /\ a[t].sending = ts[t].sending /\ a[t].stopped = ts[t].stopped
             /\ a[t].mid = IF t \in MidsOf(offer) /\ ~ts[t].stopped THEN t ELSE ts[t].mid
  <2>1. t \in M /\ ts[t] \in T
    BY <1>1
  <2>2. CASE t \in MidsOf(offer) /\ ~ts[t].stopped
    <3>1. a[t] = [ts[t] EXCEPT !.mid = t]
      BY <2>2, <1>2
    <3> QED  BY <3>1, <2>1, <2>2, <1>3
  <2>3. CASE ~ (t \in MidsOf(offer) /\ ~ts[t].stopped)
    <3>1. a[t] = ts[t]
      BY <2>3, <1>2
    <3> QED  BY <3>1, <2>1, <2>3
  <2> QED  BY <2>2, <2>3
<1>5. a \in [1..n -> T]
  BY <1>2, <1>4
<1>6. a \in Seq(T)
  BY <1>5, FunctionIsSeq
<1> QED  BY <1>2, <1>4, <1>6 DEF a, T

\* A rejected line stops the transceiver that has its mid, and no other one.
LEMMA StopRejectedTransceivers ==
  ASSUME NEW M, NEW n \in Nat, NEW ts \in Seq(Transceiver(M)), DOMAIN ts = 1..n, NEW lines
  PROVE  /\ StopRejected(ts, lines) \in Seq(Transceiver(M))
         /\ DOMAIN StopRejected(ts, lines) = 1..n
         /\ \A t \in 1..n :
              /\ StopRejected(ts, lines)[t].sending = ts[t].sending
              /\ ts[t].mid \in RejectedMids(lines) =>
                   StopRejected(ts, lines)[t].stopped /\ StopRejected(ts, lines)[t].mid = NoMid
              /\ ts[t].mid \notin RejectedMids(lines) => StopRejected(ts, lines)[t] = ts[t]
<1> DEFINE a == StopRejected(ts, lines)
           T == Transceiver(M)
<1>1. \A t \in 1..n : ts[t] \in T
  BY SeqFacts
<1>2. /\ DOMAIN a = 1..n
      /\ a = [t \in 1..n |-> a[t]]
      /\ \A t \in 1..n : a[t] = IF ts[t].mid \in RejectedMids(lines)
                                THEN [ts[t] EXCEPT !.stopped = TRUE, !.mid = NoMid] ELSE ts[t]
  BY Zenon DEF StopRejected
<1>3. \A x \in T : /\ [x EXCEPT !.stopped = TRUE, !.mid = NoMid] \in T
                 /\ [x EXCEPT !.stopped = TRUE, !.mid = NoMid].mid = NoMid
                 /\ [x EXCEPT !.stopped = TRUE, !.mid = NoMid].sending = x.sending
                 /\ [x EXCEPT !.stopped = TRUE, !.mid = NoMid].stopped
  BY DEF Transceiver
<1> HIDE DEF a, T
<1>4. ASSUME NEW t \in 1..n
      PROVE  /\ a[t] \in T /\ a[t].sending = ts[t].sending
             /\ ts[t].mid \in RejectedMids(lines) => a[t].stopped /\ a[t].mid = NoMid
             /\ ts[t].mid \notin RejectedMids(lines) => a[t] = ts[t]
  <2>1. ts[t] \in T
    BY <1>1
  <2>2. CASE ts[t].mid \in RejectedMids(lines)
    <3>1. a[t] = [ts[t] EXCEPT !.stopped = TRUE, !.mid = NoMid]
      BY <2>2, <1>2
    <3> QED  BY <3>1, <2>1, <2>2, <1>3
  <2>3. CASE ts[t].mid \notin RejectedMids(lines)
    <3>1. a[t] = ts[t]
      BY <2>3, <1>2
    <3> QED  BY <3>1, <2>1, <2>3
  <2> QED  BY <2>2, <2>3
<1>5. a \in [1..n -> T]
  BY <1>2, <1>4
<1>6. a \in Seq(T)
  BY <1>5, FunctionIsSeq
<1> QED  BY <1>2, <1>4, <1>6 DEF a, T

\* Once an offer is set, every transceiver that was not stopped and is in it
\* has its mid, and none is new any more.
LEMMA SetLocalOfferKeeps ==
  ASSUME NEW M, NEW n \in Nat, 1..n \subseteq M, NoMid \notin M, DataMid \notin 1..n,
         NEW p \in Peers(M), DOMAIN p.transceivers = 1..n, WellFormed(p),
         NEW offer \in Lines(M), OfferOf(p, offer),
         NEW q, q = SetLocalOffer(p, offer)
  PROVE  /\ q \in Peers(M)
         /\ q.closed = p.closed /\ q.signaling = "have-local-offer" /\ q.local = offer
         /\ q.remote = p.remote /\ q.channels = p.channels
         /\ DOMAIN q.transceivers = 1..n
         /\ WellFormed(q)
         /\ NewTransceivers(q) = {}
         /\ \A t \in 1..n :
              /\ q.transceivers[t].sending = p.transceivers[t].sending
              /\ q.transceivers[t].stopped = p.transceivers[t].stopped
              /\ p.transceivers[t].mid = t => q.transceivers[t].mid = t
         /\ NewTransceivers(p) \subseteq MidsOf(offer)
<1> DEFINE ts == p.transceivers
           us == Associated(ts, offer)
<1>1. /\ ts \in Seq(Transceiver(M))
      /\ p.closed \in BOOLEAN /\ p.remote \in Lines(M) /\ p.channels \in SUBSET Nat
  BY DEF Peers
<1>2. /\ us \in Seq(Transceiver(M)) /\ DOMAIN us = 1..n
      /\ \A t \in 1..n :
           /\ us[t].sending = ts[t].sending
           /\ us[t].stopped = ts[t].stopped
           /\ us[t].mid = IF t \in MidsOf(offer) /\ ~ts[t].stopped THEN t ELSE ts[t].mid
  BY <1>1, AssociatedTransceivers
<1>3. q = [closed |-> p.closed, signaling |-> "have-local-offer", transceivers |-> us,
           local |-> offer, remote |-> p.remote, channels |-> p.channels]
  BY DEF SetLocalOffer, Peers
<1> HIDE DEF us
<1>4. q \in Peers(M)
  BY <1>1, <1>2, <1>3 DEF Peers
<1>5. /\ q.closed = p.closed /\ q.signaling = "have-local-offer" /\ q.local = offer
      /\ q.remote = p.remote /\ q.channels = p.channels /\ q.transceivers = us
  BY <1>3
<1>6. DOMAIN p.local = 1..Len(p.local) /\ DOMAIN offer = 1..Len(offer)
      /\ Len(p.local) \in Nat /\ Len(offer) \in Nat
  BY SeqFacts DEF Peers, Lines
<1>7. \A i \in DOMAIN p.local : i \in DOMAIN offer
  BY <1>6 DEF OfferOf
<1>8. NewTransceivers(p) \subseteq MidsOf(offer) /\ NewTransceivers(p) \subseteq 1..n
  BY DEF OfferOf, NewTransceivers
<1>9. ASSUME NEW t \in 1..n, ~ts[t].stopped, t \in MidsOf(p.local)
      PROVE  t \in MidsOf(offer)
  <2>1. PICK i \in DOMAIN p.local : p.local[i].mid = t
    BY <1>9 DEF MidsOf
  <2>2. ts[t].mid = t /\ t # NoMid
    BY <1>9 DEF WellFormed
  <2>3. t \in AssociatedMids(p)
    BY <2>2 DEF AssociatedMids
  <2>4. i \notin RecyclableLines(p)
    BY <2>1, <2>3 DEF RecyclableLines
  <2>5. offer[i].mid = t /\ i \in DOMAIN offer
    BY <2>1, <2>4, <1>7 DEF OfferOf
  <2> QED  BY <2>5 DEF MidsOf
<1>10. \A t \in 1..n : us[t].mid = IF t \in MidsOf(offer) /\ ~us[t].stopped THEN t ELSE NoMid
  BY <1>2, <1>9 DEF WellFormed
<1>11. MidsOf(offer) \subseteq 1..n \cup {DataMid}
  <2> SUFFICES ASSUME NEW i \in DOMAIN offer PROVE offer[i].mid \in 1..n \cup {DataMid}
    BY DEF MidsOf
  <2>1. i \in DOMAIN p.local => p.local[i].mid \in 1..n \cup {DataMid}
    BY DEF WellFormed, MidsOf
  <2> QED  BY <2>1, <1>8 DEF OfferOf
<1>12. WellFormed(q)
  BY <1>2, <1>5, <1>10, <1>11 DEF WellFormed, OfferOf
<1>13. NewTransceivers(q) = {}
  <2> SUFFICES ASSUME NEW t \in 1..n, us[t].mid = NoMid, ~us[t].stopped PROVE FALSE
    BY <1>2, <1>5 DEF NewTransceivers
  <2>1. t \notin MidsOf(offer) /\ ~ts[t].stopped /\ t # NoMid
    BY <1>2, <1>10
  <2>2. ts[t].mid = NoMid
    BY <2>1, <1>9 DEF WellFormed
  <2>3. t \in NewTransceivers(p)
    BY <2>1, <2>2 DEF NewTransceivers
  <2> QED  BY <2>1, <2>3, <1>8
<1>14. \A t \in 1..n : ts[t].mid = t => us[t].mid = t
  BY <1>9, <1>10, <1>2 DEF WellFormed
<1> QED  BY <1>2, <1>4, <1>5, <1>8, <1>12, <1>13, <1>14

\* An answer stops the transceivers of the lines that it rejects, and no other.
LEMMA SetRemoteAnswerKeeps ==
  ASSUME NEW M, NEW n \in Nat, 1..n \subseteq M, NoMid \notin M, DataMid \notin 1..n,
         NEW p \in Peers(M), DOMAIN p.transceivers = 1..n, WellFormed(p),
         NEW answer \in Lines(M),
         NEW q, q = SetRemoteAnswer(p, answer)
  PROVE  /\ q \in Peers(M)
         /\ q.closed = p.closed /\ q.signaling = "stable" /\ q.local = p.local
         /\ q.remote = answer /\ q.channels = p.channels
         /\ DOMAIN q.transceivers = 1..n
         /\ WellFormed(q)
         /\ NewTransceivers(q) \subseteq NewTransceivers(p)
         /\ \A t \in 1..n :
              /\ q.transceivers[t].sending = p.transceivers[t].sending
              /\ p.transceivers[t].mid \in RejectedMids(answer) =>
                   q.transceivers[t].stopped /\ q.transceivers[t].mid = NoMid
              /\ p.transceivers[t].mid \notin RejectedMids(answer) =>
                   q.transceivers[t] = p.transceivers[t]
<1> DEFINE ts == p.transceivers
           us == StopRejected(ts, answer)
<1>1. /\ ts \in Seq(Transceiver(M)) /\ p.local \in Lines(M)
      /\ p.closed \in BOOLEAN /\ p.channels \in SUBSET Nat
  BY DEF Peers
<1>2. /\ us \in Seq(Transceiver(M)) /\ DOMAIN us = 1..n
      /\ \A t \in 1..n :
           /\ us[t].sending = ts[t].sending
           /\ ts[t].mid \in RejectedMids(answer) => us[t].stopped /\ us[t].mid = NoMid
           /\ ts[t].mid \notin RejectedMids(answer) => us[t] = ts[t]
  BY <1>1, StopRejectedTransceivers
<1>3. q = [closed |-> p.closed, signaling |-> "stable", transceivers |-> us,
           local |-> p.local, remote |-> answer, channels |-> p.channels]
  BY DEF SetRemoteAnswer, Peers
<1> HIDE DEF us
<1>4. q \in Peers(M)
  BY <1>1, <1>2, <1>3 DEF Peers
<1>5. /\ q.closed = p.closed /\ q.signaling = "stable" /\ q.local = p.local
      /\ q.remote = answer /\ q.channels = p.channels /\ q.transceivers = us
  BY <1>3
<1>6. WellFormed(q)
  BY <1>2, <1>5 DEF WellFormed
<1>7. NewTransceivers(q) \subseteq NewTransceivers(p)
  BY <1>2, <1>5 DEF NewTransceivers
<1> QED  BY <1>2, <1>4, <1>5, <1>6, <1>7

\* A peer that differs in neither transceivers nor m= lines: Close, and the
\* calls that open and close data channels.
LEMMA OtherFieldsChange ==
  ASSUME NEW p, NEW q, q.transceivers = p.transceivers, q.local = p.local
  PROVE  /\ WellFormed(p) => WellFormed(q)
         /\ NewTransceivers(q) = NewTransceivers(p)
         /\ \A offer : OfferOf(p, offer) => OfferOf(q, offer)
<1>1. /\ NewTransceivers(q) = NewTransceivers(p)
      /\ RecyclableLines(q) = RecyclableLines(p)
  BY Zenon DEF NewTransceivers, RecyclableLines, AssociatedMids
<1>2. WellFormed(p) => WellFormed(q)
  BY Zenon DEF WellFormed
<1>3. \A offer : OfferOf(p, offer) => OfferOf(q, offer)
  BY <1>1, Zenon DEF OfferOf
<1> QED  BY <1>1, <1>2, <1>3

\* Closing the connection changes nothing else.
LEMMA CloseKeeps ==
  ASSUME NEW M, NEW p \in Peers(M)
  PROVE  /\ Close(p) \in Peers(M)
         /\ Close(p).closed
         /\ Close(p).transceivers = p.transceivers /\ Close(p).local = p.local
         /\ Close(p).signaling = p.signaling /\ Close(p).remote = p.remote
         /\ Close(p).channels = p.channels
BY DEF Close, Peers

\* So does a change of its data channels.
LEMMA ChannelsKeep ==
  ASSUME NEW M, NEW p \in Peers(M), NEW ids \in SUBSET Nat,
         NEW q, q = [p EXCEPT !.channels = ids]
  PROVE  /\ q \in Peers(M)
         /\ q.channels = ids
         /\ q.transceivers = p.transceivers /\ q.local = p.local
         /\ q.signaling = p.signaling /\ q.remote = p.remote /\ q.closed = p.closed
BY DEF Peers

\* A transceiver that was added is new; the m= lines stay as they are.
LEMMA AddTransceiverKeeps ==
  ASSUME NEW M, NEW n \in Nat, 1..(n + 1) \subseteq M, NoMid \notin M, DataMid \notin 1..(n + 1),
         NEW p \in Peers(M), DOMAIN p.transceivers = 1..n, WellFormed(p),
         NEW q, q = AddTransceiver(p)
  PROVE  /\ q \in Peers(M)
         /\ q.closed = p.closed /\ q.signaling = p.signaling /\ q.local = p.local
         /\ q.remote = p.remote /\ q.channels = p.channels
         /\ DOMAIN q.transceivers = 1..(n + 1)
         /\ \A t \in 1..n : q.transceivers[t] = p.transceivers[t]
         /\ q.transceivers[n + 1].mid = NoMid
         /\ q.transceivers[n + 1].sending /\ ~q.transceivers[n + 1].stopped
         /\ WellFormed(q)
         /\ NewTransceivers(q) = NewTransceivers(p) \cup {n + 1}
<1> DEFINE ts == p.transceivers
           new == [mid |-> NoMid, sending |-> TRUE, stopped |-> FALSE]
           us == Append(ts, new)
<1>1. /\ ts \in Seq(Transceiver(M)) /\ p.local \in Lines(M) /\ p.remote \in Lines(M)
      /\ p.closed \in BOOLEAN /\ p.channels \in SUBSET Nat
      /\ p.signaling \in {"stable", "have-local-offer"}
  BY DEF Peers
<1>2. new \in Transceiver(M)
  BY DEF Transceiver
<1>3. Len(ts) = n
  BY <1>1, SeqFacts
<1>4. /\ us \in Seq(Transceiver(M)) /\ DOMAIN us = 1..(n + 1)
      /\ \A t \in 1..n : us[t] = ts[t]
      /\ us[n + 1] = new
  BY <1>1, <1>2, <1>3
<1>5. q = [closed |-> p.closed, signaling |-> p.signaling, transceivers |-> us,
           local |-> p.local, remote |-> p.remote, channels |-> p.channels]
  BY DEF AddTransceiver, Peers
<1> HIDE DEF us
<1>6. q \in Peers(M)
  BY <1>1, <1>4, <1>5 DEF Peers
<1>7. /\ q.closed = p.closed /\ q.signaling = p.signaling /\ q.local = p.local
      /\ q.remote = p.remote /\ q.channels = p.channels /\ q.transceivers = us
  BY <1>5
<1>8. WellFormed(q)
  <2>1. n + 1 \notin MidsOf(p.local) /\ n + 1 \in 1..(n + 1) /\ 1..n \subseteq 1..(n + 1)
    BY DEF WellFormed
  <2>2. ASSUME NEW t \in 1..(n + 1)
        PROVE us[t].mid = IF t \in MidsOf(p.local) /\ ~us[t].stopped THEN t ELSE NoMid
    <3>1. CASE t = n + 1
      BY <3>1, <2>1, <1>4
    <3>2. CASE t # n + 1
      <4>1. t \in 1..n
        BY <3>2
      <4> QED  BY <4>1, <1>4 DEF WellFormed
    <3> QED  BY <3>1, <3>2
  <2>3. MidsOf(p.local) \subseteq 1..(n + 1) \cup {DataMid}
    BY <2>1 DEF WellFormed
  <2> QED  BY <2>2, <2>3, <1>4, <1>7 DEF WellFormed
<1>9. NewTransceivers(q) = NewTransceivers(p) \cup {n + 1}
  <2>1. \A t \in 1..(n + 1) : t \in 1..n \/ t = n + 1
    OBVIOUS
  <2>2. n + 1 \in 1..(n + 1) /\ 1..n \subseteq 1..(n + 1)
    OBVIOUS
  <2>3. us[n + 1].mid = NoMid /\ ~us[n + 1].stopped
    BY <1>4
  <2> QED  BY <2>1, <2>2, <2>3, <1>4, <1>7 DEF NewTransceivers
<1> QED  BY <1>4, <1>6, <1>7, <1>8, <1>9

\* A sender that is stopped keeps its mid and its m= line.
LEMMA StopSenderKeeps ==
  ASSUME NEW M, NEW n \in Nat, NEW p \in Peers(M), DOMAIN p.transceivers = 1..n, WellFormed(p),
         NEW t \in 1..n, NEW q, q = StopSender(p, t)
  PROVE  /\ q \in Peers(M)
         /\ q.closed = p.closed /\ q.signaling = p.signaling /\ q.local = p.local
         /\ q.remote = p.remote /\ q.channels = p.channels
         /\ DOMAIN q.transceivers = 1..n
         /\ \A u \in 1..n : /\ q.transceivers[u].mid = p.transceivers[u].mid
                            /\ q.transceivers[u].stopped = p.transceivers[u].stopped
                            /\ u # t => q.transceivers[u].sending = p.transceivers[u].sending
         /\ ~q.transceivers[t].sending
         /\ WellFormed(q)
         /\ NewTransceivers(q) = NewTransceivers(p)
<1> DEFINE ts == p.transceivers
           us == [ts EXCEPT ![t].sending = FALSE]
<1>1. /\ ts \in Seq(Transceiver(M)) /\ p.local \in Lines(M) /\ p.remote \in Lines(M)
      /\ p.closed \in BOOLEAN /\ p.channels \in SUBSET Nat
      /\ p.signaling \in {"stable", "have-local-offer"}
  BY DEF Peers
<1>2. \A u \in 1..n : ts[u] \in Transceiver(M)
  BY <1>1, SeqFacts
<1>3. \A x \in Transceiver(M) : /\ [x EXCEPT !.sending = FALSE] \in Transceiver(M)
                              /\ [x EXCEPT !.sending = FALSE].mid = x.mid
                              /\ [x EXCEPT !.sending = FALSE].stopped = x.stopped
                              /\ ~[x EXCEPT !.sending = FALSE].sending
  BY DEF Transceiver
<1>4. DOMAIN us = 1..n /\ us = [u \in 1..n |-> us[u]]
  OBVIOUS
<1>5. \A u \in 1..n : us[u] = IF u = t THEN [ts[u] EXCEPT !.sending = FALSE] ELSE ts[u]
  OBVIOUS
<1>6. q = [closed |-> p.closed, signaling |-> p.signaling, transceivers |-> us,
           local |-> p.local, remote |-> p.remote, channels |-> p.channels]
  BY DEF StopSender, Peers
<1> HIDE DEF us
<1>7. /\ \A u \in 1..n : us[u] \in Transceiver(M)
      /\ \A u \in 1..n : us[u].mid = ts[u].mid
      /\ \A u \in 1..n : us[u].stopped = ts[u].stopped
      /\ \A u \in 1..n : u # t => us[u].sending = ts[u].sending
      /\ ~us[t].sending
  BY <1>2, <1>3, <1>5
<1>8. us \in Seq(Transceiver(M))
  <2>1. us \in [1..n -> Transceiver(M)]
    BY <1>4, <1>7
  <2> QED  BY <2>1, FunctionIsSeq
<1>9. q \in Peers(M)
  BY <1>1, <1>6, <1>8 DEF Peers
<1>10. /\ q.closed = p.closed /\ q.signaling = p.signaling /\ q.local = p.local
      /\ q.remote = p.remote /\ q.channels = p.channels /\ q.transceivers = us
  BY <1>6
<1>11. WellFormed(q)
  BY <1>4, <1>7, <1>10 DEF WellFormed
<1>12. NewTransceivers(q) = NewTransceivers(p)
  BY <1>4, <1>7, <1>10 DEF NewTransceivers
<1> QED  BY <1>4, <1>7, <1>9, <1>10, <1>11, <1>12
=============================================================================
