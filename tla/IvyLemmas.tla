----------------------------- MODULE IvyLemmas -----------------------------
(***************************************************************************)
(* Facts about numbers and sequences that the proofs of several components *)
(* need and the library does not state.                                    *)
(***************************************************************************)
EXTENDS Sublists, SequenceTheorems, FiniteSetTheorems, TLAPS

(* A set of numbers that is not empty has a least element: what induction  *)
(* over the numbers rests on.                                              *)
LEMMA LeastNat ==
  ASSUME NEW T \in SUBSET Nat, T # {}
  PROVE  \E x \in T : \A y \in T : x =< y
<1> DEFINE R == OpToRel(<, Nat)
<1>1. IsWellFoundedOn(R, Nat)
  BY NatLessThanWellFounded
<1>3. ASSUME NEW x \in Nat, NEW y \in Nat, y < x PROVE <<y, x>> \in R
  BY <1>3 DEF OpToRel
<1> HIDE DEF R
<1>2. \E x \in T : \A y \in T : ~ (<<y, x>> \in R)
  BY <1>1, WFMin
<1>4. PICK x \in T : \A y \in T : ~ (<<y, x>> \in R)
  BY <1>2
<1>5. ASSUME NEW y \in T PROVE x =< y
  <2>1. x \in Nat /\ y \in Nat
    OBVIOUS
  <2>2. ~ (y < x)
    BY <1>3, <1>4, <2>1
  <2> QED
    BY <2>1, <2>2
<1> QED
  BY <1>5

(* A set of numbers with a bound has a greatest element. *)
LEMMA GreatestNat ==
  ASSUME NEW n \in Nat, NEW T \in SUBSET (0 .. n), T # {}
  PROVE  \E x \in T : \A y \in T : y =< x
<1> DEFINE D == {k \in 0 .. n : n - k \in T}
<1>1. D \in SUBSET Nat
  OBVIOUS
<1>2. \A y \in T : n - y \in D
  OBVIOUS
<1>3. D # {}
  BY <1>2
<1>4. PICK k \in D : \A m \in D : k =< m
  BY <1>1, <1>3, LeastNat
<1>5. k \in 0 .. n /\ n - k \in T
  OBVIOUS
<1>6. ASSUME NEW y \in T PROVE y =< n - k
  <2>1. y \in 0 .. n /\ k =< n - y
    BY <1>2, <1>4
  <2> QED
    BY <1>5, <2>1
<1> QED
  BY <1>5, <1>6

(* The first n and the remaining elements of a sequence, element by element. *)
LEMMA Halves ==
  ASSUME NEW S, NEW s \in Seq(S), NEW n \in 0 .. Len(s)
  PROVE  /\ SubSeq(s, 1, n) \in Seq(S)
         /\ Len(SubSeq(s, 1, n)) = n
         /\ \A i \in 1 .. n : SubSeq(s, 1, n)[i] = s[i]
         /\ SubSeq(s, n + 1, Len(s)) \in Seq(S)
         /\ Len(SubSeq(s, n + 1, Len(s))) = Len(s) - n
         /\ \A i \in 1 .. Len(s) - n : SubSeq(s, n + 1, Len(s))[i] = s[n + i]
<1>1. Len(s) \in Nat /\ \A i \in 1 .. Len(s) : s[i] \in S
  BY LenProperties, ElementOfSeq
<1>2. \A i \in 1 .. n : s[i] \in S
  BY <1>1
<1>3. /\ SubSeq(s, 1, n) \in Seq(S)
      /\ Len(SubSeq(s, 1, n)) = IF 1 <= n THEN n - 1 + 1 ELSE 0
      /\ \A i \in 1 .. n - 1 + 1 : SubSeq(s, 1, n)[i] = s[1 + i - 1]
  BY <1>1, <1>2, SubSeqProperties
<1>4. \A i \in n + 1 .. Len(s) : s[i] \in S
  BY <1>1
<1>5. /\ SubSeq(s, n + 1, Len(s)) \in Seq(S)
      /\ Len(SubSeq(s, n + 1, Len(s))) = IF n + 1 <= Len(s) THEN Len(s) - (n + 1) + 1 ELSE 0
      /\ \A i \in 1 .. Len(s) - (n + 1) + 1 : SubSeq(s, n + 1, Len(s))[i] = s[(n + 1) + i - 1]
  BY <1>1, <1>4, SubSeqProperties
<1> QED
  BY <1>1, <1>3, <1>5

(* Taking a elements and then b of what is left takes a + b elements. *)
LEMMA TakeTwice ==
  ASSUME NEW S, NEW s \in Seq(S), NEW a \in 0 .. Len(s), NEW b \in 0 .. Len(s) - a
  PROVE  LET t == SubSeq(s, a + 1, Len(s))
         IN  /\ SubSeq(s, 1, a) \o SubSeq(t, 1, b) = SubSeq(s, 1, a + b)
             /\ SubSeq(t, b + 1, Len(t)) = SubSeq(s, (a + b) + 1, Len(s))
<1> DEFINE t == SubSeq(s, a + 1, Len(s))
           h == SubSeq(s, 1, a)
           m == SubSeq(t, 1, b)
           r == SubSeq(t, b + 1, Len(t))
           hm == SubSeq(s, 1, a + b)
           rr == SubSeq(s, (a + b) + 1, Len(s))
           L == Len(s)
<1>1. L \in Nat /\ a + b \in 0 .. L /\ a \in Nat /\ b \in Nat
  BY LenProperties
<1>2. /\ t \in Seq(S) /\ Len(t) = L - a /\ \A i \in 1 .. L - a : t[i] = s[a + i]
      /\ h \in Seq(S) /\ Len(h) = a /\ \A i \in 1 .. a : h[i] = s[i]
  BY <1>1, Halves
<1>3. /\ hm \in Seq(S) /\ Len(hm) = a + b /\ \A i \in 1 .. a + b : hm[i] = s[i]
      /\ rr \in Seq(S) /\ Len(rr) = L - (a + b)
      /\ \A i \in 1 .. L - (a + b) : rr[i] = s[(a + b) + i]
  BY <1>1, Halves
<1> HIDE DEF t
<1>4. b \in 0 .. Len(t)
  BY <1>1, <1>2
<1>5. /\ m \in Seq(S) /\ Len(m) = b /\ \A i \in 1 .. b : m[i] = t[i]
      /\ r \in Seq(S) /\ Len(r) = Len(t) - b
      /\ \A i \in 1 .. Len(t) - b : r[i] = t[b + i]
  BY <1>2, <1>4, Halves
<1> HIDE DEF h, m, r, hm, rr, L
<1>6. h \o m = hm
  <2>1. /\ h \o m \in Seq(S) /\ Len(h \o m) = a + b
        /\ \A i \in 1 .. a + b : (h \o m)[i] = IF i <= a THEN h[i] ELSE m[i - a]
    <3>1. h \in Seq(S) /\ m \in Seq(S) /\ Len(h) = a /\ Len(m) = b
      BY <1>2, <1>5
    <3>2. /\ h \o m \in Seq(S)
          /\ Len(h \o m) = Len(h) + Len(m)
          /\ \A i \in 1 .. Len(h) + Len(m) : (h \o m)[i] =
                   IF i <= Len(h) THEN h[i] ELSE m[i - Len(h)]
      BY <3>1, ConcatProperties
    <3> QED
      BY <3>1, <3>2
  <2>2. ASSUME NEW i \in 1 .. a + b
        PROVE  (h \o m)[i] = hm[i]
    <3>1. CASE i <= a
      <4>1. i \in 1 .. a
        BY <3>1, <1>1
      <4> QED
        BY <3>1, <4>1, <2>1, <1>2, <1>3
    <3>2. CASE ~ (i <= a)
      <4>1. i - a \in 1 .. b /\ i - a \in 1 .. L - a /\ a + (i - a) = i
        BY <3>2, <1>1
      <4>2. (h \o m)[i] = m[i - a]
        BY <3>2, <2>1
      <4>3. m[i - a] = t[i - a]
        BY <4>1, <1>5
      <4>4. t[i - a] = s[i]
        BY <4>1, <1>2
      <4> QED
        BY <4>2, <4>3, <4>4, <1>3
    <3> QED
      BY <3>1, <3>2
  <2> QED
    BY <2>1, <2>2, <1>3, SeqEqual
<1>7. r = rr
  <2>1. Len(r) = L - (a + b)
    BY <1>1, <1>2, <1>5
  <2>2. ASSUME NEW i \in 1 .. L - (a + b)
        PROVE  r[i] = rr[i]
    <3>1. i \in 1 .. Len(t) - b /\ b + i \in 1 .. L - a /\ a + (b + i) = (a + b) + i
      BY <1>1, <1>2
    <3> QED
      BY <3>1, <1>2, <1>3, <1>5, SMTT(30)
  <2> QED
    BY <2>1, <2>2, <1>3, <1>5, SeqEqual
<1> QED
  BY <1>6, <1>7 DEF t, h, m, r, hm, rr, L

-----------------------------------------------------------------------------
(* Sublists. *)

(* In a finite set that R orders, an element has as many before it as its *)
(* place says, and every place is taken.                                  *)
LEMMA OrderOK ==
  ASSUME NEW P, IsFiniteSet(P), NEW R,
         \A x \in P : <<x, x>> \notin R,
         \A x, y \in P : x # y => <<x, y>> \in R \/ <<y, x>> \in R,
         \A x, y, z \in P : <<x, y>> \in R /\ <<y, z>> \in R => <<x, z>> \in R
  PROVE  /\ Cardinality(P) \in Nat
         /\ \A x \in P : Cardinality({y \in P : <<y, x>> \in R}) \in 0 .. Cardinality(P) - 1
         /\ \A x, y \in P : <<x, y>> \in R => Cardinality({z \in P : <<z, x>> \in R})
                                             < Cardinality({z \in P : <<z, y>> \in R})
         /\ \A n \in 1 .. Cardinality(P) :
              \E x \in P : Cardinality({y \in P : <<y, x>> \in R}) = n - 1
<1> DEFINE Below(x) == {y \in P : <<y, x>> \in R}
           Place(x) == Cardinality(Below(x))
           C == Cardinality(P)
<1>1. C \in Nat
  BY FS_CardinalityType
<1>2. \A x \in P : IsFiniteSet(Below(x)) /\ Place(x) \in Nat
  <2> SUFFICES ASSUME NEW x \in P PROVE IsFiniteSet(Below(x)) /\ Place(x) \in Nat
    OBVIOUS
  <2>1. Below(x) \in SUBSET P
    OBVIOUS
  <2>2. IsFiniteSet(Below(x))
    BY <2>1, FS_Subset
  <2> QED
    BY <2>2, FS_CardinalityType
<1>3. ASSUME NEW x \in P, NEW T \in SUBSET P, Below(x) \subseteq T, x \in T
      PROVE  Place(x) < Cardinality(T)
  <2>1. IsFiniteSet(T)
    BY FS_Subset
  <2>2. Below(x) \in SUBSET T /\ Below(x) # T
    BY <1>3
  <2>3. /\ Cardinality(Below(x)) <= Cardinality(T)
        /\ Cardinality(T) = Cardinality(Below(x)) => T = Below(x)
    BY <2>1, <2>2, FS_Subset
  <2>4. Cardinality(T) \in Nat /\ Cardinality(Below(x)) \in Nat
    BY <1>2, <2>1, FS_CardinalityType
  <2>5. Cardinality(T) # Cardinality(Below(x))
    BY <2>2, <2>3
  <2> HIDE DEF Below
  <2> QED
    BY <2>3, <2>4, <2>5
<1>4. \A x \in P : Place(x) \in 0 .. C - 1
  <2> SUFFICES ASSUME NEW x \in P PROVE Place(x) \in 0 .. C - 1
    OBVIOUS
  <2>1. Below(x) \subseteq P
    OBVIOUS
  <2>2. Place(x) < C
    BY <2>1, <1>3
  <2>3. Place(x) \in Nat
    BY <1>2
  <2> HIDE DEF C, Place
  <2> QED
    BY <2>2, <2>3, <1>1
<1>5. \A x, y \in P : <<x, y>> \in R => Place(x) < Place(y)
  <2> SUFFICES ASSUME NEW x \in P, NEW y \in P, <<x, y>> \in R PROVE Place(x) < Place(y)
    OBVIOUS
  <2>1. Below(y) \in SUBSET P /\ Below(x) \subseteq Below(y) /\ x \in Below(y)
    OBVIOUS
  <2> QED
    BY <2>1, <1>3
<1>6. \A n \in 1 .. C : \E x \in P : Place(x) = n - 1
  <2> DEFINE f == [x \in P |-> Place(x)]
             T == 0 .. C - 1
  <2> HIDE DEF Place
  <2>1. f \in [P -> T]
    BY <1>4
  <2>2. \A x, y \in P : f[x] = f[y] => x = y
    <3> SUFFICES ASSUME NEW x \in P, NEW y \in P, f[x] = f[y], x # y PROVE FALSE
      OBVIOUS
    <3>1. Place(x) = Place(y)
      OBVIOUS
    <3>2. <<x, y>> \in R \/ <<y, x>> \in R
      OBVIOUS
    <3>3. Place(x) < Place(y) \/ Place(y) < Place(x)
      BY <3>2, <1>5
    <3>4. Place(x) \in Nat
      BY <1>2
    <3> HIDE DEF f, T, Below
    <3> QED
      BY <3>1, <3>3, <3>4
  <2>3. f \in Injection(P, T)
    BY <2>1, <2>2 DEF Injection, IsInjective
  <2>4. IsFiniteSet(T) /\ Cardinality(T) = C
    <3>1. 0 \in Int /\ C - 1 \in Int
      BY <1>1
    <3>2. IsFiniteSet(T) /\ Cardinality(T) = IF 0 > C - 1 THEN 0 ELSE C - 1 - 0 + 1
      BY <3>1, FS_Interval
    <3> QED
      BY <3>2, <1>1
  <2>5. f \in Surjection(P, T)
    BY <2>3, <2>4, FS_Injection
  <2>6. ASSUME NEW n \in 1 .. C PROVE \E x \in P : Place(x) = n - 1
    <3>1. n - 1 \in T
      BY <1>1
    <3> QED
      BY <2>5, <3>1 DEF Surjection
  <2> QED
    BY <2>6
<1> QED
  BY <1>1, <1>4, <1>5, <1>6

(* The ranks of the positions K are 0, 1, ... in the order of the positions. *)
LEMMA RankOK ==
  ASSUME NEW m \in Nat, NEW K \in SUBSET (1 .. m)
  PROVE  /\ Cardinality(K) \in Nat
         /\ \A i \in K : Rank(K, i) \in 0 .. Cardinality(K) - 1
         /\ \A i, j \in K : i < j => Rank(K, i) < Rank(K, j)
         /\ \A n \in 1 .. Cardinality(K) : \E i \in K : Rank(K, i) = n - 1
<1> DEFINE R == {pq \in K \X K : pq[1] < pq[2]}
<1>1. IsFiniteSet(K)
  <2>1. IsFiniteSet(1 .. m)
    BY FS_Interval
  <2> QED
    BY <2>1, FS_Subset
<1>2. \A i, j \in K : <<i, j>> \in R <=> i < j
  OBVIOUS
<1>3. \A i \in K : i \in Nat
  OBVIOUS
<1>4. \A i \in K : Rank(K, i) = Cardinality({j \in K : <<j, i>> \in R})
  <2> SUFFICES ASSUME NEW i \in K
               PROVE  Rank(K, i) = Cardinality({j \in K : <<j, i>> \in R})
    OBVIOUS
  <2>1. {j \in K : j < i} = {j \in K : <<j, i>> \in R}
    BY <1>2
  <2> QED
    BY <2>1 DEF Rank
<1> HIDE DEF R
<1>5. /\ \A x \in K : <<x, x>> \notin R
      /\ \A x, y \in K : x # y => <<x, y>> \in R \/ <<y, x>> \in R
      /\ \A x, y, z \in K : <<x, y>> \in R /\ <<y, z>> \in R => <<x, z>> \in R
  BY <1>2, <1>3
<1>6. /\ Cardinality(K) \in Nat
      /\ \A x \in K : Cardinality({y \in K : <<y, x>> \in R}) \in 0 .. Cardinality(K) - 1
      /\ \A x, y \in K : <<x, y>> \in R => Cardinality({z \in K : <<z, x>> \in R})
                                          < Cardinality({z \in K : <<z, y>> \in R})
      /\ \A n \in 1 .. Cardinality(K) :
           \E x \in K : Cardinality({y \in K : <<y, x>> \in R}) = n - 1
  BY <1>1, <1>5, OrderOK
<1>7. \A i \in K : Rank(K, i) \in 0 .. Cardinality(K) - 1
  BY <1>4, <1>6
<1>8. ASSUME NEW i \in K, NEW j \in K, i < j PROVE Rank(K, i) < Rank(K, j)
  <2>1. <<i, j>> \in R
    BY <1>2, <1>8
  <2>2. Cardinality({z \in K : <<z, i>> \in R}) < Cardinality({z \in K : <<z, j>> \in R})
    BY <1>6, <2>1
  <2> QED
    BY <1>4, <2>2
<1>9. ASSUME NEW n \in 1 .. Cardinality(K) PROVE \E i \in K : Rank(K, i) = n - 1
  <2>1. PICK x \in K : Cardinality({y \in K : <<y, x>> \in R}) = n - 1
    BY <1>6
  <2>2. Rank(K, x) = n - 1
    BY <1>4, <2>1
  <2> QED
    BY <2>2
<1> QED
  BY <1>6, <1>7, <1>8, <1>9

(* The pairs of a finite set in order: each comes, and no other. *)
LEMMA InOrderOK ==
  ASSUME NEW P, IsFiniteSet(P), P \subseteq Nat \X Nat
  PROVE  /\ InOrder(P) \in Seq(P)
         /\ \A p \in P : \E n \in DOMAIN InOrder(P) : InOrder(P)[n] = p
<1> DEFINE R == {pq \in P \X P : Earlier(pq[1], pq[2])}
           C == Cardinality(P)
<1>1. \A p, q \in P : <<p, q>> \in R <=> Earlier(p, q)
  OBVIOUS
<1>2. \A p \in P : PairRank(P, p) = Cardinality({q \in P : <<q, p>> \in R})
  <2> SUFFICES ASSUME NEW p \in P
               PROVE  PairRank(P, p) = Cardinality({q \in P : <<q, p>> \in R})
    OBVIOUS
  <2>1. {q \in P : Earlier(q, p)} = {q \in P : <<q, p>> \in R}
    BY <1>1
  <2> QED
    BY <2>1 DEF PairRank
<1> HIDE DEF R
<1>3. \A p \in P : p[1] \in Nat /\ p[2] \in Nat /\ p = <<p[1], p[2]>>
  OBVIOUS
<1>4. /\ \A x \in P : <<x, x>> \notin R
      /\ \A x, y \in P : x # y => <<x, y>> \in R \/ <<y, x>> \in R
      /\ \A x, y, z \in P : <<x, y>> \in R /\ <<y, z>> \in R => <<x, z>> \in R
  <2>1. \A x \in P : ~ Earlier(x, x)
    BY <1>3 DEF Earlier
  <2>2. \A x, y \in P : x # y => Earlier(x, y) \/ Earlier(y, x)
    <3> SUFFICES ASSUME NEW x \in P, NEW y \in P, x # y PROVE Earlier(x, y) \/ Earlier(y, x)
      OBVIOUS
    <3>1. x[1] # y[1] \/ x[2] # y[2]
      BY <1>3
    <3> QED
      BY <1>3, <3>1 DEF Earlier
  <2>3. \A x, y, z \in P : Earlier(x, y) /\ Earlier(y, z) => Earlier(x, z)
    BY <1>3 DEF Earlier
  <2> QED
    BY <1>1, <2>1, <2>2, <2>3
<1>5. /\ C \in Nat
      /\ \A x \in P : PairRank(P, x) \in 0 .. C - 1
      /\ \A x, y \in P : <<x, y>> \in R => PairRank(P, x) < PairRank(P, y)
      /\ \A n \in 1 .. C : \E x \in P : PairRank(P, x) = n - 1
  <2>1. /\ C \in Nat
        /\ \A x \in P : Cardinality({y \in P : <<y, x>> \in R}) \in 0 .. C - 1
        /\ \A x, y \in P : <<x, y>> \in R => Cardinality({z \in P : <<z, x>> \in R})
                                            < Cardinality({z \in P : <<z, y>> \in R})
        /\ \A n \in 1 .. C : \E x \in P : Cardinality({y \in P : <<y, x>> \in R}) = n - 1
    BY <1>4, OrderOK
  <2> QED
    BY <1>2, <2>1
<1>6. \A n \in 1 .. C : InOrder(P)[n] \in P /\ PairRank(P, InOrder(P)[n]) = n - 1
  BY <1>5 DEF InOrder
<1>7. InOrder(P) = [n \in 1 .. C |-> InOrder(P)[n]]
  BY DEF InOrder
<1>8. InOrder(P) \in [1 .. C -> P]
  BY <1>6, <1>7
<1>9. InOrder(P) \in Seq(P)
  BY <1>5, <1>8, SeqDef
<1>10. ASSUME NEW p \in P PROVE \E n \in DOMAIN InOrder(P) : InOrder(P)[n] = p
  <2> DEFINE n == PairRank(P, p) + 1
  <2>1. n \in 1 .. C /\ n - 1 = PairRank(P, p)
    BY <1>5
  <2> HIDE DEF n
  <2>2. InOrder(P)[n] \in P /\ PairRank(P, InOrder(P)[n]) = PairRank(P, p)
    BY <1>6, <2>1
  <2>3. InOrder(P)[n] = p
    <3> DEFINE q == InOrder(P)[n]
    <3> HIDE DEF q
    <3>1. q \in P /\ PairRank(P, q) = PairRank(P, p) /\ PairRank(P, p) \in Nat
      BY <2>2, <1>5 DEF q
    <3>2. ASSUME q # p PROVE FALSE
      <4>1. <<q, p>> \in R \/ <<p, q>> \in R
        BY <3>1, <3>2, <1>4
      <4>2. PairRank(P, q) < PairRank(P, p) \/ PairRank(P, p) < PairRank(P, q)
        BY <3>1, <4>1, <1>5
      <4> QED
        BY <3>1, <4>2
    <3> QED
      BY <3>2 DEF q
  <2> QED
    BY <2>1, <2>3, <1>8
<1> QED
  BY <1>9, <1>10

(* p gives the position in s of every element of the sublist, in order. *)
Positions(p, s, K) ==
  /\ p \in [1 .. Cardinality(K) -> K]
  /\ \A n \in 1 .. Cardinality(K) : Sublist(s, K)[n] = s[p[n]]
  /\ \A i \in K : \E n \in 1 .. Cardinality(K) : p[n] = i
  /\ \A a, b \in 1 .. Cardinality(K) : a < b <=> p[a] < p[b]
  /\ \A a, b \in 1 .. Cardinality(K) : p[a] = p[b] => a = b

(* The elements of a sublist are those at the positions kept, each once, in order. *)
LEMMA SublistOK ==
  ASSUME NEW S, NEW s \in Seq(S), NEW K \in SUBSET (1 .. Len(s))
  PROVE  /\ Sublist(s, K) \in Seq(S)
         /\ Len(Sublist(s, K)) = Cardinality(K)
         /\ Cardinality(K) \in Nat
         /\ \E p : Positions(p, s, K)
<1> DEFINE C == Cardinality(K)
           p == [n \in 1 .. C |-> CHOOSE i \in K : Rank(K, i) = n - 1]
           t == Sublist(s, K)
<1>1. /\ C \in Nat
      /\ \A i \in K : Rank(K, i) \in 0 .. C - 1
      /\ \A i, j \in K : i < j => Rank(K, i) < Rank(K, j)
      /\ \A n \in 1 .. C : \E i \in K : Rank(K, i) = n - 1
  <2>1. Len(s) \in Nat
    BY LenProperties
  <2> QED
    BY <2>1, RankOK
<1>2. \A n \in 1 .. C : p[n] \in K /\ Rank(K, p[n]) = n - 1
  BY <1>1
<1>3. p \in [1 .. C -> K]
  BY <1>2
<1>4. t = [n \in 1 .. C |-> s[p[n]]]
  BY DEF Sublist
<1> HIDE DEF p, C, t
<1>5. \A i \in K : i \in 1 .. Len(s) /\ i \in Nat /\ s[i] \in S
  BY ElementOfSeq
<1>6. t \in [1 .. C -> S]
  BY <1>2, <1>4, <1>5
<1>7. t \in Seq(S)
  BY <1>1, <1>6, SeqDef
<1>8. Len(t) = C
  BY <1>1, <1>6, <1>7, LenProperties
<1>9. ASSUME NEW i \in K, NEW j \in K, Rank(K, i) = Rank(K, j) PROVE i = j
  <2>1. i \in Nat /\ j \in Nat /\ Rank(K, i) \in Nat
    BY <1>1, <1>5
  <2>2. ~ (i < j) /\ ~ (j < i)
    BY <1>1, <1>9, <2>1
  <2> QED
    BY <2>1, <2>2
<1>10. \A i \in K : \E n \in 1 .. C : p[n] = i
  <2> SUFFICES ASSUME NEW i \in K PROVE \E n \in 1 .. C : p[n] = i
    OBVIOUS
  <2>1. Rank(K, i) + 1 \in 1 .. C /\ (Rank(K, i) + 1) - 1 = Rank(K, i)
    BY <1>1
  <2>2. p[Rank(K, i) + 1] = i
    BY <2>1, <1>2, <1>9
  <2> QED
    BY <2>1, <2>2
<1>11. \A a, b \in 1 .. C : p[a] = p[b] => a = b
  <2> SUFFICES ASSUME NEW a \in 1 .. C, NEW b \in 1 .. C, p[a] = p[b] PROVE a = b
    OBVIOUS
  <2>1. a - 1 = b - 1
    BY <1>2
  <2> QED
    BY <2>1, <1>1
<1>12. \A a, b \in 1 .. C : a < b <=> p[a] < p[b]
  <2> SUFFICES ASSUME NEW a \in 1 .. C, NEW b \in 1 .. C PROVE a < b <=> p[a] < p[b]
    OBVIOUS
  <2>1. /\ Rank(K, p[a]) = a - 1 /\ Rank(K, p[b]) = b - 1
        /\ p[a] \in K /\ p[b] \in K
    BY <1>2
  <2>2. p[a] \in Nat /\ p[b] \in Nat
    BY <2>1, <1>5
  <2>3. p[a] < p[b] => a - 1 < b - 1
    BY <2>1, <1>1
  <2>4. p[b] < p[a] => b - 1 < a - 1
    BY <2>1, <1>1
  <2>5. p[a] = p[b] => a = b
    BY <1>11
  <2> QED
    BY <2>2, <2>3, <2>4, <2>5, <1>1
<1>13. \A n \in 1 .. C : t[n] = s[p[n]]
  BY <1>4
<1>14. Positions(p, s, K)
  BY <1>3, <1>10, <1>11, <1>12, <1>13 DEF Positions, C, t
<1> QED
  BY <1>1, <1>7, <1>8, <1>14 DEF C, t

(* A sublist of a list without repetitions has none, and its elements are  *)
(* those at the positions kept.                                            *)
LEMMA SublistElements ==
  ASSUME NEW S, NEW s \in Seq(S), NEW K \in SUBSET (1 .. Len(s))
  PROVE  /\ {Sublist(s, K)[n] : n \in DOMAIN Sublist(s, K)} = {s[i] : i \in K}
         /\ IsInjective(s) => IsInjective(Sublist(s, K))
<1> DEFINE C == Cardinality(K)
           t == Sublist(s, K)
<1>1. t \in Seq(S) /\ Len(t) = C /\ C \in Nat
  BY SublistOK
<1>2. DOMAIN t = 1 .. C /\ DOMAIN s = 1 .. Len(s)
  BY <1>1, LenProperties
<1>p. PICK p : Positions(p, s, K)
  BY SublistOK
<1>3. /\ p \in [1 .. C -> K]
      /\ \A n \in 1 .. C : t[n] = s[p[n]]
      /\ \A i \in K : \E n \in 1 .. C : p[n] = i
      /\ \A a, b \in 1 .. C : p[a] = p[b] => a = b
  BY <1>p DEF Positions
<1> HIDE DEF t, C
<1>4. {t[n] : n \in DOMAIN t} = {s[i] : i \in K}
  <2>1. ASSUME NEW n \in DOMAIN t PROVE \E i \in K : t[n] = s[i]
    BY <1>2, <1>3
  <2>2. ASSUME NEW i \in K PROVE \E n \in DOMAIN t : t[n] = s[i]
    BY <1>2, <1>3
  <2> QED
    BY <2>1, <2>2
<1>5. IsInjective(s) => IsInjective(t)
  <2> SUFFICES ASSUME IsInjective(s), NEW a \in DOMAIN t, NEW b \in DOMAIN t, t[a] = t[b]
               PROVE  a = b
    BY DEF IsInjective
  <2>1. a \in 1 .. C /\ b \in 1 .. C /\ p[a] \in DOMAIN s /\ p[b] \in DOMAIN s
    BY <1>2, <1>3
  <2>2. s[p[a]] = s[p[b]]
    BY <2>1, <1>3
  <2>3. p[a] = p[b]
    BY <2>1, <2>2 DEF IsInjective
  <2> QED
    BY <2>1, <2>3, <1>3
<1> QED
  BY <1>4, <1>5 DEF t

(* An element put in front of a list that does not have it. *)
LEMMA PrependOK ==
  ASSUME NEW S, NEW s \in Seq(S), IsInjective(s), NEW t \in S,
         \A i \in 1 .. Len(s) : s[i] # t
  PROVE  LET u == <<t>> \o s
         IN  /\ u \in Seq(S) /\ Len(u) = Len(s) + 1 /\ DOMAIN u = 1 .. Len(s) + 1
             /\ u[1] = t /\ \A i \in 1 .. Len(s) : u[i + 1] = s[i]
             /\ \A i \in 2 .. Len(s) + 1 : i - 1 \in 1 .. Len(s) /\ u[i] = s[i - 1]
             /\ IsInjective(u)
<1> DEFINE u == <<t>> \o s
<1>1. <<t>> \in Seq(S) /\ Len(<<t>>) = 1 /\ <<t>>[1] = t
  OBVIOUS
<1>2. /\ u \in Seq(S) /\ Len(u) = Len(<<t>>) + Len(s)
      /\ \A i \in 1 .. Len(<<t>>) + Len(s) :
           u[i] = IF i <= Len(<<t>>) THEN <<t>>[i] ELSE s[i - Len(<<t>>)]
  BY <1>1, ConcatProperties
<1>3. Len(s) \in Nat /\ DOMAIN s = 1 .. Len(s)
  BY LenProperties
<1>4. /\ Len(u) = Len(s) + 1
      /\ \A i \in 1 .. Len(s) + 1 : u[i] = IF i <= 1 THEN <<t>>[i] ELSE s[i - 1]
  BY <1>1, <1>2, <1>3
<1>5. DOMAIN u = 1 .. Len(s) + 1
  BY <1>2, <1>4, LenProperties
<1> HIDE DEF u
<1>6. u[1] = t
  BY <1>1, <1>3, <1>4
<1>7. \A i \in 2 .. Len(s) + 1 : i - 1 \in 1 .. Len(s) /\ u[i] = s[i - 1]
  BY <1>3, <1>4
<1>8. \A i \in 1 .. Len(s) : u[i + 1] = s[i]
  <2> SUFFICES ASSUME NEW i \in 1 .. Len(s) PROVE u[i + 1] = s[i]
    OBVIOUS
  <2>1. i + 1 \in 2 .. Len(s) + 1 /\ (i + 1) - 1 = i
    BY <1>3
  <2> QED
    BY <2>1, <1>7
<1>9. IsInjective(u)
  <2> SUFFICES ASSUME NEW a \in 1 .. Len(s) + 1, NEW b \in 1 .. Len(s) + 1, u[a] = u[b]
               PROVE  a = b
    BY <1>5 DEF IsInjective
  <2>1. a = 1 \/ a \in 2 .. Len(s) + 1
    BY <1>3
  <2>2. b = 1 \/ b \in 2 .. Len(s) + 1
    BY <1>3
  <2>3. CASE a = 1 /\ b \in 2 .. Len(s) + 1
    BY <2>3, <1>6, <1>7
  <2>4. CASE b = 1 /\ a \in 2 .. Len(s) + 1
    BY <2>4, <1>6, <1>7
  <2>5. CASE a \in 2 .. Len(s) + 1 /\ b \in 2 .. Len(s) + 1
    <3>1. a - 1 \in DOMAIN s /\ b - 1 \in DOMAIN s /\ s[a - 1] = s[b - 1]
      BY <2>5, <1>3, <1>7
    <3>2. a - 1 = b - 1
      BY <3>1 DEF IsInjective
    <3> QED
      BY <3>2, <1>3
  <2> QED
    BY <2>1, <2>2, <2>3, <2>4, <2>5
<1> QED
  BY <1>2, <1>4, <1>5, <1>6, <1>7, <1>8, <1>9 DEF u

Elems(s) == {s[i] : i \in DOMAIN s}

LEMMA PrependElements ==
  ASSUME NEW S, NEW s \in Seq(S), IsInjective(s), NEW t \in S, t \notin Elems(s)
  PROVE  /\ <<t>> \o s \in Seq(S) /\ IsInjective(<<t>> \o s)
         /\ Elems(<<t>> \o s) = Elems(s) \union {t}
<1> DEFINE u == <<t>> \o s
           E == Elems(s)
<1>0. \A i \in DOMAIN s : s[i] # t
  BY DEF Elems
<1>1. Len(s) \in Nat /\ DOMAIN s = 1 .. Len(s)
  BY LenProperties
<1>2. /\ u \in Seq(S) /\ DOMAIN u = 1 .. Len(s) + 1
      /\ u[1] = t /\ \A i \in 1 .. Len(s) : u[i + 1] = s[i]
      /\ \A i \in 2 .. Len(s) + 1 : i - 1 \in 1 .. Len(s) /\ u[i] = s[i - 1]
      /\ IsInjective(u)
  BY <1>0, <1>1, PrependOK
<1> HIDE DEF u
<1>3. ASSUME NEW i \in DOMAIN u PROVE u[i] \in E \union {t}
  <2>1. i = 1 \/ i \in 2 .. Len(s) + 1
    BY <1>1, <1>2
  <2> QED
    BY <1>1, <1>2, <2>1 DEF Elems
<1>4. t \in Elems(u)
  <2>1. 1 \in DOMAIN u
    BY <1>1, <1>2
  <2> QED
    BY <1>2, <2>1 DEF Elems
<1>5. ASSUME NEW i \in DOMAIN s PROVE s[i] \in Elems(u)
  <2>1. i + 1 \in DOMAIN u /\ u[i + 1] = s[i]
    BY <1>1, <1>2
  <2> QED
    BY <2>1 DEF Elems
<1>6. Elems(u) = E \union {t}
  BY <1>3, <1>4, <1>5 DEF Elems
<1> QED
  BY <1>2, <1>6 DEF u
(* The elements of sequences put together, and of the rest of one. *)
LEMMA ConcatElems ==
  ASSUME NEW S, NEW s \in Seq(S), NEW t \in Seq(S)
  PROVE  /\ s \o t \in Seq(S) /\ Len(s \o t) = Len(s) + Len(t)
         /\ \A i \in 1 .. Len(s) : (s \o t)[i] = s[i]
         /\ \A i \in 1 .. Len(t) : (s \o t)[Len(s) + i] = t[i]
         /\ Elems(s \o t) = Elems(s) \cup Elems(t)
<1> DEFINE u == s \o t
           m == Len(s)
           n == Len(t)
<1>1. m \in Nat /\ n \in Nat /\ DOMAIN s = 1 .. m /\ DOMAIN t = 1 .. n
  BY LenProperties
<1>2. /\ u \in Seq(S) /\ Len(u) = m + n
      /\ \A i \in 1 .. m + n : u[i] = IF i <= m THEN s[i] ELSE t[i - m]
  BY ConcatProperties
<1>3. DOMAIN u = 1 .. m + n
  BY <1>2, LenProperties
<1> HIDE DEF u, m, n
<1>4. \A i \in 1 .. m : i \in 1 .. m + n /\ u[i] = s[i]
  BY <1>1, <1>2
<1>5. ASSUME NEW i \in 1 .. n PROVE m + i \in 1 .. m + n /\ u[m + i] = t[i]
  <2>1. m + i \in 1 .. m + n /\ ~ (m + i <= m) /\ (m + i) - m = i
    BY <1>1
  <2> QED
    BY <1>2, <2>1
<1>6. ASSUME NEW i \in DOMAIN u PROVE u[i] \in Elems(s) \cup Elems(t)
  <2>1. CASE i <= m
    <3>1. i \in DOMAIN s /\ u[i] = s[i]
      BY <1>1, <1>3, <1>4, <2>1
    <3> QED
      BY <3>1 DEF Elems
  <2>2. CASE ~ (i <= m)
    <3>1. i - m \in DOMAIN t /\ u[i] = t[i - m]
      BY <1>1, <1>2, <1>3, <2>2
    <3> QED
      BY <3>1 DEF Elems
  <2> QED
    BY <2>1, <2>2
<1>7. \A i \in DOMAIN s : s[i] \in Elems(u)
  BY <1>1, <1>3, <1>4 DEF Elems
<1>8. \A i \in DOMAIN t : t[i] \in Elems(u)
  BY <1>1, <1>3, <1>5 DEF Elems
<1>9. Elems(u) = Elems(s) \cup Elems(t)
  BY <1>6, <1>7, <1>8 DEF Elems
<1> QED
  BY <1>2, <1>4, <1>5, <1>9 DEF u, m, n

LEMMA SingleElems ==
  ASSUME NEW S, NEW x \in S
  PROVE  <<x>> \in Seq(S) /\ Len(<<x>>) = 1 /\ Elems(<<x>>) = {x}
<1>1. DOMAIN <<x>> = {1} /\ <<x>>[1] = x
  OBVIOUS
<1> QED
  BY <1>1 DEF Elems

LEMMA FrontElems ==
  ASSUME NEW S, NEW x \in S, NEW s \in Seq(S)
  PROVE  <<x>> \o s \in Seq(S) /\ Elems(<<x>> \o s) = {x} \cup Elems(s)
<1> DEFINE t == <<x>>
<1>1. t \in Seq(S) /\ Elems(t) = {x}
  BY SingleElems
<1> HIDE DEF t
<1>2. t \o s \in Seq(S) /\ Elems(t \o s) = Elems(t) \cup Elems(s)
  BY <1>1, ConcatElems
<1> QED
  BY <1>1, <1>2 DEF t

LEMMA AppendElems ==
  ASSUME NEW S, NEW x \in S, NEW s \in Seq(S)
  PROVE  /\ Append(s, x) \in Seq(S) /\ Len(Append(s, x)) = Len(s) + 1
         /\ \A i \in 1 .. Len(s) : Append(s, x)[i] = s[i]
         /\ Append(s, x)[Len(s) + 1] = x
         /\ Elems(Append(s, x)) = Elems(s) \cup {x}
<1> DEFINE u == Append(s, x)
<1>1. Len(s) \in Nat /\ DOMAIN s = 1 .. Len(s)
  BY LenProperties
<1>2. /\ u \in Seq(S) /\ Len(u) = Len(s) + 1
      /\ \A i \in 1 .. Len(s) : u[i] = s[i]
      /\ u[Len(s) + 1] = x
  BY AppendProperties
<1>3. DOMAIN u = 1 .. Len(s) + 1
  BY <1>2, LenProperties
<1> HIDE DEF u
<1>4. ASSUME NEW i \in DOMAIN u PROVE u[i] \in Elems(s) \cup {x}
  <2>1. i \in DOMAIN s \/ i = Len(s) + 1
    BY <1>1, <1>3
  <2> QED
    BY <1>1, <1>2, <2>1 DEF Elems
<1>5. \A i \in DOMAIN s : s[i] \in Elems(u)
  <2> SUFFICES ASSUME NEW i \in DOMAIN s PROVE s[i] \in Elems(u)
    OBVIOUS
  <2>1. i \in DOMAIN u /\ u[i] = s[i]
    BY <1>1, <1>2, <1>3
  <2> QED
    BY <2>1 DEF Elems
<1>6. x \in Elems(u)
  <2>1. Len(s) + 1 \in DOMAIN u
    BY <1>1, <1>3
  <2> QED
    BY <1>2, <2>1 DEF Elems
<1>7. Elems(u) = Elems(s) \cup {x}
  BY <1>4, <1>5, <1>6 DEF Elems
<1> QED
  BY <1>2, <1>7 DEF u
=============================================================================
