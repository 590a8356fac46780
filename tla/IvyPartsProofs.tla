--------------------------- MODULE IvyPartsProofs ---------------------------
(***************************************************************************)
(* The smaller parts, which share nothing with one another: the parser of  *)
(* announcements, the parts of the library that IvyLibrary names, the      *)
(* programs of IvyPrograms and the loops of IvyToolkits.  The flags are    *)
(* fixed there; every other constant is left open, with what a theorem     *)
(* asks of it in its statement.                                            *)
(***************************************************************************)
EXTENDS IvyDiscovery, IvyLemmas, IvyLibrary, IvyPrograms, IvyToolkits

-----------------------------------------------------------------------------
(* The parser: the unsigned int of IvyDiscoveryNumber never wraps, for     *)
(* every line and every limit of at least 9 below the modulus.             *)

(* The test before a digit is taken, number > (limit - digit) / 10, is the *)
(* test on the sum it stands for.  A limit below the digit would make the  *)
(* unsigned difference of the code wrap: hence 9 <= limit.                 *)
LEMMA FitsExact ==
  ASSUME NEW n \in Nat, NEW d \in 0 .. 9, NEW limit \in Nat, 9 <= limit
  PROVE  n <= (limit - d) \div 10 <=> n * 10 + d <= limit
  OBVIOUS

LEMMA DigitRange == \A c \in Digits : DigitValue[c] \in 0 .. 9
  BY DEF Digits, DigitValue

LEMMA LimitRange == Limit \in Nat /\ 9 <= Limit /\ Limit < Modulus /\ Modulus \in Nat
  BY DiscoveryAssumption DEF Limit

(* While a number is read it stays within the limit of its field.          *)
THEOREM NumberNeverWraps == Spec => []NoWrap
<1>1. Init => NoWrap
  BY DEF Init, NoWrap
<1>2. NoWrap /\ [Next]_vars => NoWrap'
  <2> SUFFICES ASSUME NoWrap, [Next]_vars PROVE NoWrap'
    OBVIOUS
  <2>1. CASE NumberStart
    <3>1. at' = "refused" \/ number' = 0
      BY <2>1 DEF NumberStart, Refuse
    <3>2. Limit' \in Nat
      BY DiscoveryAssumption DEF Limit
    <3>3. CASE at' = "refused"
      BY <3>3 DEF NoWrap
    <3>4. CASE number' = 0
      <4>1. number' \in 0 .. Limit'
        BY <3>2, <3>4
      <4> QED
        BY <4>1 DEF NoWrap
    <3> QED
      BY <3>1, <3>3, <3>4
  <2>2. CASE NumberDigit
    <3>1. CASE at' = "refused"
      BY <3>1 DEF NoWrap
    <3>2. CASE at' # "refused"
      <4> DEFINE d == DigitValue[At(p)]
      <4>1. /\ Fits(d) /\ number' = (number * 10 + d) % Modulus /\ at' = at
            /\ At(p) \in Digits /\ at \in {"version digits", "port digits"}
        BY <2>2, <3>2 DEF NumberDigit, Refuse
      <4>2. d \in 0 .. 9
        BY <4>1, DigitRange
      <4>3. number \in 0 .. Limit
        BY <4>1 DEF NoWrap
      <4> HIDE DEF d
      <4>4. number * 10 + d <= Limit
        <5>1. number <= (Limit - d) \div 10
          BY <4>1 DEF Fits
        <5>2. number \in Nat /\ Limit \in Nat /\ 9 <= Limit
          BY <4>3, LimitRange
        <5> QED
          BY <4>2, <5>1, <5>2, FitsExact
      <4>5. number' = number * 10 + d
        <5>1. number * 10 + d \in Nat /\ number * 10 + d < Modulus
          BY <4>2, <4>3, <4>4, LimitRange
        <5>2. Modulus \in Nat \ {0}
          BY <5>1, LimitRange
        <5>3. \A x \in Nat, m \in Nat \ {0} : x < m => x % m = x
          OBVIOUS
        <5> QED
          BY <4>1, <5>1, <5>2, <5>3
      <4>6. Limit' = Limit
        BY <4>1 DEF Limit
      <4>7. number' \in 0 .. Limit
        BY <4>2, <4>3, <4>4, <4>5, LimitRange
      <4> QED
        BY <4>6, <4>7 DEF NoWrap
    <3> QED
      BY <3>1, <3>2
  <2>3. CASE NumberEnd
    BY <2>3 DEF NumberEnd, NoWrap, Refuse
  <2>4. CASE Id
    BY <2>4 DEF Id, NoWrap, Refuse
  <2>5. CASE Name
    BY <2>5 DEF Name, NoWrap, Refuse
  <2>6. CASE UNCHANGED vars
    BY <2>6 DEF vars, NoWrap, Limit
  <2> QED
    BY <2>1, <2>2, <2>3, <2>4, <2>5, <2>6 DEF Next
<1> QED
  BY <1>1, <1>2, PTL DEF Spec

-----------------------------------------------------------------------------
(* The parser: it accepts exactly the announcements.  What it accepts is   *)
(* found field by field (Found); a line that is an announcement is         *)
(* followed from position to position (Stands), so it is not refused.      *)

(* The number that the digits k .. m of a line denote, computed along the  *)
(* digits.                                                                 *)
Reads(L, k, m, f) == f = [i \in k - 1 .. m |-> IF i < k THEN 0 ELSE f[i - 1] * 10 + DigitValue[L[i]]]
ValueOf(L, k, m) == (CHOOSE f : Reads(L, k, m, f))[m]

LEMMA ReadsExists ==
  ASSUME NEW L, NEW k \in Nat \ {0}, NEW m \in Nat, k - 1 <= m
  PROVE  \E f : Reads(L, k, m, f)
<1> DEFINE D(x) == DigitValue[L[x]]
           T == {j \in Nat : k - 1 <= j /\ ~ \E f : Reads(L, k, j, f)}
<1> SUFFICES ASSUME ~ \E f : Reads(L, k, m, f) PROVE FALSE
  OBVIOUS
<1>1. PICK j \in T : \A i \in T : j <= i
  <2>1. m \in T /\ T \in SUBSET Nat
    OBVIOUS
  <2> HIDE DEF T
  <2> QED
    BY <2>1, LeastNat
<1>2. j \in Nat /\ k - 1 <= j /\ ~ \E f : Reads(L, k, j, f)
  OBVIOUS
<1> HIDE DEF D
<1>3. CASE j < k
  <2> DEFINE f == [i \in k - 1 .. j |-> 0]
  <2>1. f = [i \in k - 1 .. j |-> IF i < k THEN 0 ELSE f[i - 1] * 10 + D(i)]
    BY <1>2, <1>3
  <2> HIDE DEF f
  <2> QED
    BY <1>2, <2>1 DEF Reads, D
<1>4. CASE ~ (j < k)
  <2>1. j - 1 \in Nat /\ k - 1 <= j - 1 /\ ~ (j <= j - 1)
    BY <1>2, <1>4
  <2>2. j - 1 \notin T
    BY <1>1, <2>1
  <2>3. PICK g : Reads(L, k, j - 1, g)
    BY <2>1, <2>2
  <2>4. g = [i \in k - 1 .. j - 1 |-> IF i < k THEN 0 ELSE g[i - 1] * 10 + D(i)]
    BY <2>3 DEF Reads, D
  <2> DEFINE f == [i \in k - 1 .. j |-> IF i = j THEN g[j - 1] * 10 + D(j) ELSE g[i]]
  <2>5. ASSUME NEW i \in k - 1 .. j
        PROVE  f[i] = IF i < k THEN 0 ELSE f[i - 1] * 10 + D(i)
    <3>1. i - 1 # j /\ (i # j => i \in k - 1 .. j - 1) /\ (~ (i < k) => i - 1 \in k - 1 .. j)
      BY <1>2
    <3>2. CASE i = j
      <4>1. ~ (i < k) /\ f[i] = g[j - 1] * 10 + D(j) /\ f[i - 1] = g[i - 1]
        BY <1>4, <3>1, <3>2
      <4> QED
        BY <3>2, <4>1
    <3>3. CASE i # j
      <4>1. f[i] = g[i] /\ (~ (i < k) => f[i - 1] = g[i - 1])
        BY <3>1, <3>3
      <4>2. g[i] = IF i < k THEN 0 ELSE g[i - 1] * 10 + D(i)
        BY <2>4, <3>1, <3>3
      <4> QED
        BY <4>1, <4>2
    <3> QED
      BY <3>2, <3>3
  <2>6. f = [i \in k - 1 .. j |-> IF i < k THEN 0 ELSE f[i - 1] * 10 + D(i)]
    BY <2>5
  <2> HIDE DEF f
  <2> QED
    BY <1>2, <2>6 DEF Reads, D
<1> QED
  BY <1>3, <1>4

LEMMA ReadsSame ==
  ASSUME NEW L, NEW k \in Nat \ {0}, NEW m \in Nat, NEW n \in Nat, n <= m,
         NEW f, Reads(L, k, m, f), NEW g, Reads(L, k, n, g)
  PROVE  \A i \in Nat : k - 1 <= i /\ i <= n => f[i] = g[i]
<1> DEFINE D(x) == DigitValue[L[x]]
           T == {i \in Nat : k - 1 <= i /\ i <= n /\ f[i] # g[i]}
<1>1. /\ f = [i \in k - 1 .. m |-> IF i < k THEN 0 ELSE f[i - 1] * 10 + D(i)]
      /\ g = [i \in k - 1 .. n |-> IF i < k THEN 0 ELSE g[i - 1] * 10 + D(i)]
  BY DEF Reads
<1> HIDE DEF D
<1>2. ASSUME NEW e \in T PROVE FALSE
  <2>1. PICK i \in T : \A j \in T : i <= j
    <3>1. T \in SUBSET Nat /\ T # {}
      OBVIOUS
    <3> HIDE DEF T
    <3> QED
      BY <3>1, LeastNat
  <2>2. i \in Nat /\ k - 1 <= i /\ i <= n /\ f[i] # g[i] /\ i \in k - 1 .. m /\ i \in k - 1 .. n
    OBVIOUS
  <2>3. /\ f[i] = IF i < k THEN 0 ELSE f[i - 1] * 10 + D(i)
        /\ g[i] = IF i < k THEN 0 ELSE g[i - 1] * 10 + D(i)
    BY <1>1, <2>2
  <2>4. ~ (i < k) => i - 1 \in Nat /\ k - 1 <= i - 1 /\ i - 1 <= n /\ ~ (i <= i - 1)
    BY <2>2
  <2>5. ~ (i < k) => i - 1 \notin T
    BY <2>1, <2>2, <2>4
  <2>6. ~ (i < k) => f[i - 1] = g[i - 1]
    BY <2>4, <2>5
  <2> QED
    BY <2>2, <2>3, <2>6
<1> QED
  BY <1>2

(* No digit denotes 0; one more digit multiplies by ten and adds.          *)
LEMMA ValueStep ==
  ASSUME NEW L, NEW k \in Nat \ {0}
  PROVE  /\ ValueOf(L, k, k - 1) = 0
         /\ \A m \in Nat : k <= m => ValueOf(L, k, m) = ValueOf(L, k, m - 1) * 10 + DigitValue[L[m]]
<1> DEFINE F(m) == CHOOSE f : Reads(L, k, m, f)
<1>1. \A m \in Nat : k - 1 <= m => Reads(L, k, m, F(m))
  BY ReadsExists
<1>2. \A m \in Nat : k - 1 <= m =>
        F(m) = [i \in k - 1 .. m |-> IF i < k THEN 0 ELSE F(m)[i - 1] * 10 + DigitValue[L[i]]]
  BY <1>1 DEF Reads
<1>3. \A m : ValueOf(L, k, m) = F(m)[m]
  BY DEF ValueOf
<1> HIDE DEF F
<1>4. ValueOf(L, k, k - 1) = 0
  <2>1. k - 1 \in Nat /\ k - 1 <= k - 1 /\ k - 1 \in k - 1 .. k - 1 /\ k - 1 < k
    OBVIOUS
  <2> QED
    BY <1>2, <1>3, <2>1
<1>5. ASSUME NEW m \in Nat, k <= m
      PROVE  ValueOf(L, k, m) = ValueOf(L, k, m - 1) * 10 + DigitValue[L[m]]
  <2>1. m - 1 \in Nat /\ k - 1 <= m - 1 /\ k - 1 <= m /\ m - 1 <= m /\ m \in k - 1 .. m /\ ~ (m < k)
    BY <1>5
  <2>2. F(m)[m] = F(m)[m - 1] * 10 + DigitValue[L[m]]
    BY <1>2, <2>1
  <2>3. Reads(L, k, m, F(m)) /\ Reads(L, k, m - 1, F(m - 1))
    BY <1>1, <2>1
  <2>4. \A i \in Nat : k - 1 <= i /\ i <= m - 1 => F(m)[i] = F(m - 1)[i]
    BY <2>1, <2>3, ReadsSame
  <2>5. F(m)[m - 1] = F(m - 1)[m - 1]
    BY <2>1, <2>4
  <2> QED
    BY <1>3, <2>2, <2>5
<1> QED
  BY <1>4, <1>5

LEMMA ValueIs == \A k, m : Value(k, m) = ValueOf(line, k, m)
  BY DEF Value, ValueOf, Reads

AllOf(L, k, m, S) == \A i \in k .. m : L[i] \in S

(* The digits read denote a number, and not a smaller one than fewer.      *)
LEMMA ValueGrows ==
  ASSUME NEW L, NEW k \in Nat \ {0}, NEW m \in Nat, k - 1 <= m, AllOf(L, k, m, Digits)
  PROVE  \A j \in Nat : k - 1 <= j /\ j <= m =>
           ValueOf(L, k, j) \in Nat /\ ValueOf(L, k, k - 1) = 0
           /\ \A i \in Nat : k - 1 <= i /\ i <= j => ValueOf(L, k, i) <= ValueOf(L, k, j)
<1> DEFINE V(j) == ValueOf(L, k, j)
           Ok(j) == V(j) \in Nat /\ \A i \in Nat : k - 1 <= i /\ i <= j => V(i) <= V(j)
           T == {j \in Nat : k - 1 <= j /\ j <= m /\ ~ Ok(j)}
<1>1. V(k - 1) = 0 /\ \A j \in Nat : k <= j => V(j) = V(j - 1) * 10 + DigitValue[L[j]]
  BY ValueStep
<1>2. \A j \in Nat : k <= j /\ j <= m => DigitValue[L[j]] \in 0 .. 9
  BY DigitRange DEF AllOf
<1> HIDE DEF V
<1>3. ASSUME NEW e \in T PROVE FALSE
  <2>1. PICK j \in T : \A i \in T : j <= i
    <3>1. T \in SUBSET Nat /\ T # {}
      OBVIOUS
    <3> HIDE DEF T
    <3> QED
      BY <3>1, LeastNat
  <2>2. j \in Nat /\ k - 1 <= j /\ j <= m /\ ~ Ok(j)
    OBVIOUS
  <2>3. \A i \in Nat : k - 1 <= i /\ i < j => Ok(i)
    BY <2>1, <2>2
  <2> HIDE DEF T
  <2>4. CASE j = k - 1
    <3>1. V(j) = 0
      BY <1>1, <2>4
    <3>2. \A i \in Nat : k - 1 <= i /\ i <= j => i = j
      BY <2>2, <2>4
    <3> QED
      BY <2>2, <3>1, <3>2
  <2>5. CASE j # k - 1
    <3>1. k <= j /\ j - 1 \in Nat /\ k - 1 <= j - 1 /\ j - 1 < j
      BY <2>2, <2>5
    <3>2. Ok(j - 1)
      BY <2>3, <3>1
    <3>3. V(j) = V(j - 1) * 10 + DigitValue[L[j]] /\ DigitValue[L[j]] \in 0 .. 9
      BY <1>1, <1>2, <2>2, <3>1
    <3>4. V(j) \in Nat /\ V(j - 1) <= V(j) /\ V(j - 1) \in Nat
      BY <3>2, <3>3
    <3>5. ASSUME NEW i \in Nat, k - 1 <= i, i <= j PROVE V(i) <= V(j)
      <4>1. CASE i = j
        BY <3>4, <4>1
      <4>2. CASE i # j
        <5>1. i <= j - 1 /\ i < j
          BY <2>2, <3>5, <4>2
        <5>2. V(i) \in Nat
          BY <2>3, <3>5, <5>1
        <5>3. V(i) <= V(j - 1)
          BY <3>2, <3>5, <5>1
        <5> QED
          BY <3>4, <5>2, <5>3
      <4> QED
        BY <4>1, <4>2
    <3> QED
      BY <2>2, <3>4, <3>5
  <2> QED
    BY <2>4, <2>5
<1>4. ASSUME NEW j \in Nat, k - 1 <= j, j <= m PROVE Ok(j)
  BY <1>3, <1>4
<1> QED
  BY <1>1, <1>4 DEF V

(* A line as the string that the parser sees: no character is its end.     *)
Line(L) == L \in Seq({L[k] : k \in DOMAIN L}) /\ \A k \in DOMAIN L : L[k] # End

LEMMA LineAt ==
  ASSUME Line(line)
  PROVE  /\ Len(line) \in Nat /\ DOMAIN line = 1 .. Len(line)
         /\ \A k \in 1 .. Len(line) : At(k) = line[k] /\ At(k) # End
         /\ At(Len(line) + 1) = End
         /\ \A k \in 1 .. Len(line) + 1 : At(k) = End => k = Len(line) + 1
<1>1. Len(line) \in Nat /\ DOMAIN line = 1 .. Len(line)
  BY LenProperties DEF Line
<1>2. \A k \in 1 .. Len(line) : k <= Len(line) /\ line[k] # End
  BY <1>1 DEF Line
<1>3. \A k \in 1 .. Len(line) : At(k) = line[k] /\ At(k) # End
  BY <1>2 DEF At
<1>4. At(Len(line) + 1) = End
  <2>1. ~ (Len(line) + 1 <= Len(line))
    BY <1>1
  <2> QED
    BY <2>1 DEF At
<1>5. ASSUME NEW k \in 1 .. Len(line) + 1, At(k) = End PROVE k = Len(line) + 1
  <2>1. k \notin 1 .. Len(line)
    BY <1>3, <1>5
  <2> QED
    BY <1>1, <2>1
<1> QED
  BY <1>1, <1>3, <1>4, <1>5

LEMMA EndIsNone == End \notin Digits /\ End \notin Blanks /\ End \notin LineEnds
                   /\ \A c \in Digits : c \notin Blanks /\ c \notin LineEnds
  BY DEF End, Digits, Blanks, LineEnds, DigitValue

(* The first position from k on that satisfies a condition the end does.   *)
LEMMA FirstAt ==
  ASSUME NEW N \in Nat, NEW k \in 1 .. N + 1, NEW T \in SUBSET (k .. N + 1), N + 1 \in T
  PROVE  \E j \in T : \A i \in k .. j - 1 : i \notin T
<1>1. T \in SUBSET Nat /\ T # {}
  OBVIOUS
<1>2. PICK j \in T : \A i \in T : j <= i
  BY <1>1, LeastNat
<1>3. \A i \in k .. j - 1 : ~ (j <= i)
  <2>1. j \in Nat /\ k \in Nat
    OBVIOUS
  <2> QED
    BY <2>1
<1> QED
  BY <1>2, <1>3

LEMMA SkipOverOK ==
  ASSUME Line(line), NEW k \in 1 .. Len(line) + 1, NEW S, End \notin S
  PROVE  /\ SkipOver(k, S) \in k .. Len(line) + 1 /\ At(SkipOver(k, S)) \notin S
         /\ \A i \in k .. SkipOver(k, S) - 1 : At(i) \in S
<1> DEFINE N == Len(line)
           T == {j \in k .. N + 1 : At(j) \notin S}
<1>1. N \in Nat /\ At(N + 1) = End
  BY LineAt
<1>2. N + 1 \in T /\ T \in SUBSET (k .. N + 1) /\ k \in 1 .. N + 1
  BY <1>1
<1>3. PICK j \in T : \A i \in k .. j - 1 : i \notin T
  <2> HIDE DEF N, T
  <2> QED
    BY <1>1, <1>2, FirstAt
<1>4. \A i \in k .. j - 1 : i \in k .. N + 1
  BY <1>1
<1>5. j \in k .. N + 1 /\ At(j) \notin S /\ \A i \in k .. j - 1 : At(i) \in S
  BY <1>3, <1>4
<1> QED
  BY <1>5 DEF SkipOver

LEMMA SkipToOK ==
  ASSUME Line(line), NEW k \in 1 .. Len(line) + 1, NEW S
  PROVE  /\ SkipTo(k, S) \in k .. Len(line) + 1 /\ At(SkipTo(k, S)) \in S \union {End}
         /\ \A i \in k .. SkipTo(k, S) - 1 : At(i) \notin S
<1> DEFINE N == Len(line)
           T == {j \in k .. N + 1 : At(j) \in S \union {End}}
<1>1. N \in Nat /\ At(N + 1) = End
  BY LineAt
<1>2. N + 1 \in T /\ T \in SUBSET (k .. N + 1) /\ k \in 1 .. N + 1
  BY <1>1
<1>3. PICK j \in T : \A i \in k .. j - 1 : i \notin T
  <2> HIDE DEF N, T
  <2> QED
    BY <1>1, <1>2, FirstAt
<1>4. \A i \in k .. j - 1 : i \in k .. N + 1
  BY <1>1
<1>5. j \in k .. N + 1 /\ At(j) \in S \union {End} /\ \A i \in k .. j - 1 : At(i) \notin S
  BY <1>3, <1>4
<1> QED
  BY <1>5 DEF SkipTo

(* There is one such position. *)
LEMMA SkipOverIs ==
  ASSUME Line(line), NEW k \in 1 .. Len(line) + 1, NEW S, End \notin S,
         NEW j \in k .. Len(line) + 1, At(j) \notin S, \A i \in k .. j - 1 : At(i) \in S
  PROVE  SkipOver(k, S) = j
<1> DEFINE q == SkipOver(k, S)
<1>1. /\ q \in k .. Len(line) + 1 /\ At(q) \notin S /\ \A i \in k .. q - 1 : At(i) \in S
  BY SkipOverOK
<1>2. Len(line) \in Nat
  BY LineAt
<1> HIDE DEF q
<1>3. ~ (j < q) /\ ~ (q < j)
  <2>1. j < q => j \in k .. q - 1
    BY <1>1, <1>2
  <2>2. q < j => q \in k .. j - 1
    BY <1>1, <1>2
  <2> QED
    BY <1>1, <2>1, <2>2
<1>4. q = j
  BY <1>1, <1>2, <1>3
<1> QED
  BY <1>4 DEF q

LEMMA SkipToIs ==
  ASSUME Line(line), NEW k \in 1 .. Len(line) + 1, NEW S,
         NEW j \in k .. Len(line) + 1, At(j) \in S \union {End}, \A i \in k .. j - 1 : At(i) \notin S
  PROVE  SkipTo(k, S) = j
<1> DEFINE q == SkipTo(k, S)
<1>1. /\ q \in k .. Len(line) + 1 /\ At(q) \in S \union {End} /\ \A i \in k .. q - 1 : At(i) \notin S
  BY SkipToOK
<1>2. Len(line) \in Nat
  BY LineAt
<1> HIDE DEF q
<1>3. \A i \in 1 .. Len(line) : At(i) # End
  BY LineAt
<1>4. ~ (j < q)
  <2> SUFFICES ASSUME j < q PROVE FALSE
    OBVIOUS
  <2>1. j \in k .. q - 1 /\ j \in 1 .. Len(line)
    BY <1>1, <1>2
  <2> QED
    BY <1>1, <1>3, <2>1
<1>5. ~ (q < j)
  <2> SUFFICES ASSUME q < j PROVE FALSE
    OBVIOUS
  <2>1. q \in k .. j - 1 /\ q \in 1 .. Len(line)
    BY <1>1, <1>2
  <2> QED
    BY <1>1, <1>3, <2>1
<1>6. q = j
  BY <1>1, <1>2, <1>4, <1>5
<1> QED
  BY <1>6 DEF q

(* Where the pieces of an announcement end, named as IsAnnouncement does.  *)
Cuts == [a : Nat, v : Nat, b : Nat, q : Nat, c : Nat, i : Nat, d : Nat, n : Nat]

Cut(L, z) ==
  /\ z \in Cuts /\ z.v <= Len(L)
  /\ z.a < z.v /\ z.v < z.b /\ z.b < z.q /\ z.q < z.c /\ z.c < z.i /\ z.i < z.d /\ z.d < z.n
  /\ z.n <= Len(L)
  /\ AllOf(L, 1, z.a, Blanks) /\ AllOf(L, z.a + 1, z.v, Digits)
  /\ AllOf(L, z.v + 1, z.b, Blanks) /\ AllOf(L, z.b + 1, z.q, Digits)
  /\ AllOf(L, z.q + 1, z.c, Blanks) /\ AllOf(L, z.i + 1, z.d, Blanks)
  /\ SubSeq(L, z.n + 1, Len(L)) \in Endings

Fields(L, z) ==
  [version |-> ValueOf(L, z.a + 1, z.v), port |-> ValueOf(L, z.b + 1, z.q),
   id |-> SubSeq(L, z.c + 1, z.i), name |-> SubSeq(L, z.d + 1, z.n)]

LEMMA AnnouncementIs ==
  ASSUME Line(line)
  PROVE  /\ IsAnnouncement(Proper) => \E z : Cut(line, z) /\ Proper(Fields(line, z))
         /\ \A z : Cut(line, z) /\ Proper(Fields(line, z)) /\ Fields(line, z) = out
              => IsAnnouncement(LAMBDA o : Proper(o) /\ o = out)
<1> DEFINE N == Len(line)
<1>1. N \in Nat
  BY LineAt
<1>2. ASSUME IsAnnouncement(Proper)
      PROVE  \E z : Cut(line, z) /\ Proper(Fields(line, z))
  <2> DEFINE
    Of(a, v, b, q, c, i, d, n) ==
      [version |-> Value(a + 1, v), port |-> Value(b + 1, q),
       id |-> SubSeq(line, c + 1, i), name |-> SubSeq(line, d + 1, n)]
    FromD(a, v, b, q, c, i, d) ==
      \E n \in d + 1 .. N :
        SubSeq(line, n + 1, N) \in Endings /\ Proper(Of(a, v, b, q, c, i, d, n))
    FromC(a, v, b, q, c) ==
      \E i \in c + 1 .. N, d \in c + 2 .. N :
        i < d /\ All(i + 1, d, Blanks) /\ FromD(a, v, b, q, c, i, d)
    FromQ(a, v, b, q) ==
      \E c \in q + 1 .. N : All(q + 1, c, Blanks) /\ FromC(a, v, b, q, c)
    FromB(a, v, b) ==
      \E q \in b + 1 .. N : All(b + 1, q, Digits) /\ FromQ(a, v, b, q)
    FromV(a, v) ==
      \E b \in v + 1 .. N : All(v + 1, b, Blanks) /\ FromB(a, v, b)
    FromA(a) ==
      \E v \in a + 1 .. N : All(a + 1, v, Digits) /\ FromV(a, v)
  <2>a. \E a \in 0 .. N : All(1, a, Blanks) /\ FromA(a)
    BY <1>2 DEF IsAnnouncement
  <2> HIDE DEF FromA
  <2>b. PICK a \in 0 .. N : All(1, a, Blanks) /\ FromA(a)
    BY <2>a
  <2> USE DEF FromA
  <2> HIDE DEF FromV
  <2>c. PICK v \in a + 1 .. N : All(a + 1, v, Digits) /\ FromV(a, v)
    BY <2>b
  <2> USE DEF FromV
  <2> HIDE DEF FromB
  <2>d. PICK b \in v + 1 .. N : All(v + 1, b, Blanks) /\ FromB(a, v, b)
    BY <2>c
  <2> USE DEF FromB
  <2> HIDE DEF FromQ
  <2>e. PICK q \in b + 1 .. N : All(b + 1, q, Digits) /\ FromQ(a, v, b, q)
    BY <2>d
  <2> USE DEF FromQ
  <2> HIDE DEF FromC
  <2>f. PICK c \in q + 1 .. N : All(q + 1, c, Blanks) /\ FromC(a, v, b, q, c)
    BY <2>e
  <2> USE DEF FromC
  <2> HIDE DEF FromD
  <2>g. PICK i \in c + 1 .. N, d \in c + 2 .. N :
          i < d /\ All(i + 1, d, Blanks) /\ FromD(a, v, b, q, c, i, d)
    BY <2>f
  <2>h. PICK n \in d + 1 .. N :
          SubSeq(line, n + 1, N) \in Endings /\ Proper(Of(a, v, b, q, c, i, d, n))
    BY <2>g DEF FromD
  <2> DEFINE z == [a |-> a, v |-> v, b |-> b, q |-> q, c |-> c, i |-> i, d |-> d, n |-> n]
  <2>2. z.a = a /\ z.v = v /\ z.b = b /\ z.q = q /\ z.c = c /\ z.i = i /\ z.d = d /\ z.n = n
    OBVIOUS
  <2>3. a \in Nat /\ v \in Nat /\ b \in Nat /\ q \in Nat /\ c \in Nat /\ i \in Nat /\ d \in Nat /\ n \in Nat
    BY <1>1, <2>b, <2>c, <2>d, <2>e, <2>f, <2>g, <2>h
  <2>4. z \in Cuts
    BY <2>3 DEF Cuts
  <2>5. /\ a < v /\ v < b /\ b < q /\ q < c /\ c < i /\ i < d /\ d < n /\ n <= N /\ v <= N
    BY <1>1, <2>3, <2>b, <2>c, <2>d, <2>e, <2>f, <2>g, <2>h
  <2>6. /\ AllOf(line, 1, a, Blanks) /\ AllOf(line, a + 1, v, Digits)
        /\ AllOf(line, v + 1, b, Blanks) /\ AllOf(line, b + 1, q, Digits)
        /\ AllOf(line, q + 1, c, Blanks) /\ AllOf(line, i + 1, d, Blanks)
    BY <2>b, <2>c, <2>d, <2>e, <2>f, <2>g DEF All, AllOf
  <2> HIDE DEF z
  <2>7. Cut(line, z)
    BY <2>2, <2>4, <2>5, <2>6, <2>h DEF Cut
  <2>8. Fields(line, z) = Of(a, v, b, q, c, i, d, n)
    BY <2>2, ValueIs DEF Fields
  <2> HIDE DEF Of
  <2> QED
    BY <2>7, <2>8, <2>h
<1>3. ASSUME NEW z, Cut(line, z), Proper(Fields(line, z)), Fields(line, z) = out
      PROVE  IsAnnouncement(LAMBDA o : Proper(o) /\ o = out)
  <2>1. PICK a \in Nat, v \in Nat, b \in Nat, q \in Nat, c \in Nat, i \in Nat, d \in Nat, n \in Nat :
          z = [a |-> a, v |-> v, b |-> b, q |-> q, c |-> c, i |-> i, d |-> d, n |-> n]
    BY <1>3 DEF Cut, Cuts
  <2>2. z.a = a /\ z.v = v /\ z.b = b /\ z.q = q /\ z.c = c /\ z.i = i /\ z.d = d /\ z.n = n
    BY <2>1
  <2>3. /\ a < v /\ v < b /\ b < q /\ q < c /\ c < i /\ i < d /\ d < n /\ n <= N
        /\ SubSeq(line, n + 1, N) \in Endings
    BY <1>3, <2>2 DEF Cut
  <2>4. /\ All(1, a, Blanks) /\ All(a + 1, v, Digits) /\ All(v + 1, b, Blanks)
        /\ All(b + 1, q, Digits) /\ All(q + 1, c, Blanks) /\ All(i + 1, d, Blanks)
    BY <1>3, <2>2 DEF Cut, All, AllOf
  <2> DEFINE f == [version |-> Value(a + 1, v), port |-> Value(b + 1, q),
                   id |-> SubSeq(line, c + 1, i), name |-> SubSeq(line, d + 1, n)]
  <2>5. Fields(line, z) = f
    BY <2>2, ValueIs DEF Fields
  <2>6. Proper(f) /\ f = out
    BY <1>3, <2>5
  <2>7. /\ a \in 0 .. N /\ v \in a + 1 .. N /\ b \in v + 1 .. N /\ q \in b + 1 .. N /\ c \in q + 1 .. N
        /\ i \in c + 1 .. N /\ d \in c + 2 .. N /\ n \in d + 1 .. N
    BY <1>1, <2>3
  <2> QED
    BY <2>3, <2>4, <2>6, <2>7 DEF IsAnnouncement
<1> QED
  BY <1>2, <1>3

LEMMA ShortSeqs ==
  ASSUME NEW S, NEW s \in Seq(S)
  PROVE  /\ Len(s) = 1 => s = <<s[1]>>
         /\ Len(s) = 2 => s = <<s[1], s[2]>>
<1>1. ASSUME Len(s) = 1 PROVE s = <<s[1]>>
  <2>1. s[1] \in S
    BY <1>1, ElementOfSeq
  <2> DEFINE t == <<s[1]>>
  <2>2. t \in Seq(S) /\ Len(t) = 1 /\ t[1] = s[1]
    BY <2>1
  <2> HIDE DEF t
  <2>3. \A k \in 1 .. Len(s) : s[k] = t[k]
    BY <1>1, <2>2
  <2>4. s = t
    BY <1>1, <2>2, <2>3, SeqEqual
  <2> QED
    BY <2>4 DEF t
<1>2. ASSUME Len(s) = 2 PROVE s = <<s[1], s[2]>>
  <2>1. s[1] \in S /\ s[2] \in S
    BY <1>2, ElementOfSeq
  <2> DEFINE t == <<s[1], s[2]>>
  <2>2. t \in Seq(S) /\ Len(t) = 2 /\ t[1] = s[1] /\ t[2] = s[2]
    BY <2>1
  <2> HIDE DEF t
  <2>3. \A k \in 1 .. Len(s) : k = 1 \/ k = 2
    BY <1>2
  <2>4. \A k \in 1 .. Len(s) : s[k] = t[k]
    BY <2>2, <2>3
  <2>5. s = t
    BY <1>2, <2>2, <2>4, SeqEqual
  <2> QED
    BY <2>5 DEF t
<1> QED
  BY <1>1, <1>2

(* What is left of the line is one of the endings just when the cursor,    *)
(* moved over \r and \n, is at its end.                                    *)
LEMMA EndingIs ==
  ASSUME Line(line), NEW n \in Nat, n <= Len(line)
  PROVE  SubSeq(line, n + 1, Len(line)) \in Endings
           <=> /\ At(n + 1) \in LineEnds \union {End}
               /\ At(After(After(n + 1, "\r"), "\n")) = End
<1> DEFINE N == Len(line)
           C == {line[k] : k \in DOMAIN line}
           s == SubSeq(line, n + 1, N)
           e == After(After(n + 1, "\r"), "\n")
<1>1. /\ N \in Nat /\ \A k \in 1 .. N : At(k) = line[k] /\ At(k) # End
      /\ At(N + 1) = End /\ \A k \in 1 .. N + 1 : At(k) = End => k = N + 1
  BY LineAt
<1>2. s \in Seq(C) /\ Len(s) = N - n /\ \A k \in 1 .. N - n : s[k] = line[n + k]
  <2>1. line \in Seq(C) /\ n \in 0 .. Len(line)
    BY <1>1 DEF Line
  <2> HIDE DEF C
  <2> QED
    BY <2>1, Halves
<1>3. End # "\r" /\ End # "\n" /\ End \notin LineEnds /\ "\r" # "\n"
      /\ \A x : x \in LineEnds <=> x = "\r" \/ x = "\n"
  BY DEF End, LineEnds
<1>4. \A x : x \in Endings <=> x = <<>> \/ x = <<"\n">> \/ x = <<"\r">> \/ x = <<"\r", "\n">>
  BY DEF Endings
<1>5. /\ Len(<<>>) = 0 /\ Len(<<"\n">>) = 1 /\ Len(<<"\r">>) = 1 /\ Len(<<"\r", "\n">>) = 2
      /\ <<"\n">>[1] = "\n" /\ <<"\r">>[1] = "\r"
      /\ <<"\r", "\n">>[1] = "\r" /\ <<"\r", "\n">>[2] = "\n"
  OBVIOUS
<1>6. \A k, x : After(k, x) = IF At(k) = x THEN k + 1 ELSE k
  BY DEF After
<1> HIDE DEF N, C, s
<1>7. CASE N - n = 0
  <2>1. n + 1 = N + 1 /\ At(n + 1) = End
    BY <1>1, <1>7
  <2>2. e = n + 1
    BY <1>3, <1>6, <2>1
  <2>3. s = <<>>
    BY <1>2, <1>7, EmptySeq
  <2> HIDE DEF e
  <2> QED
    BY <1>4, <2>1, <2>2, <2>3 DEF e, s, N
<1>8. CASE N - n = 1
  <2>1. n + 1 = N /\ N \in 1 .. N /\ n + 1 + 1 = N + 1 /\ 1 \in 1 .. N - n
    BY <1>1, <1>8
  <2>2. At(n + 1) = line[N] /\ At(n + 1) # End /\ At(n + 1 + 1) = End /\ s[1] = line[N]
    BY <1>1, <1>2, <2>1
  <2>3. s = <<line[N]>>
    BY <1>2, <1>8, <2>2, ShortSeqs
  <2>4. s \in Endings <=> line[N] = "\r" \/ line[N] = "\n"
    <3>1. s # <<>> /\ s # <<"\r", "\n">>
      BY <1>2, <1>5, <1>8
    <3> QED
      BY <1>4, <1>5, <2>3, <3>1
  <2>5. At(n + 1) = "\r" => e = n + 1 + 1
    BY <1>3, <1>6, <2>2
  <2>6. At(n + 1) = "\n" => e = n + 1 + 1
    BY <1>3, <1>6, <2>2
  <2> HIDE DEF e
  <2> QED
    BY <1>3, <2>2, <2>4, <2>5, <2>6 DEF e, s, N
<1>9. CASE N - n = 2
  <2>1. /\ n + 1 \in 1 .. N /\ n + 1 + 1 = N /\ N \in 1 .. N /\ n + 1 + 1 + 1 = N + 1
        /\ 1 \in 1 .. N - n /\ 2 \in 1 .. N - n /\ n + 2 = N
    BY <1>1, <1>9
  <2>2. /\ At(n + 1) = line[n + 1] /\ At(n + 1) # End /\ At(n + 1 + 1) = line[N] /\ At(N) # End
        /\ At(n + 1 + 1 + 1) = End /\ s[1] = line[n + 1] /\ s[2] = line[N]
    BY <1>1, <1>2, <2>1
  <2>3. s = <<line[n + 1], line[N]>>
    BY <1>2, <1>9, <2>2, ShortSeqs
  <2>4. s \in Endings <=> line[n + 1] = "\r" /\ line[N] = "\n"
    <3>1. s # <<>> /\ s # <<"\n">> /\ s # <<"\r">>
      BY <1>2, <1>5, <1>9
    <3> QED
      BY <1>4, <1>5, <2>2, <2>3, <3>1
  <2>5. At(n + 1) = "\r" /\ At(n + 1 + 1) = "\n" => e = n + 1 + 1 + 1
    BY <1>3, <1>6
  <2>6. At(n + 1) = "\r" /\ At(n + 1 + 1) # "\n" => e = n + 1 + 1
    BY <1>3, <1>6
  <2>7. At(n + 1) = "\n" => e = n + 1 + 1
    BY <1>3, <1>6
  <2>8. At(n + 1 + 1) # End
    BY <2>1, <2>2
  <2> HIDE DEF e
  <2> QED
    BY <1>3, <2>2, <2>4, <2>5, <2>6, <2>7, <2>8 DEF e, s, N
<1>10. CASE N - n > 2
  <2>1. n + 1 \in 1 .. N /\ n + 1 + 1 \in 1 .. N /\ n + 1 + 1 + 1 \in 1 .. N
    BY <1>1, <1>10
  <2>2. s \notin Endings
    <3>1. Len(s) # 0 /\ Len(s) # 1 /\ Len(s) # 2
      BY <1>1, <1>2, <1>10
    <3> QED
      BY <1>4, <1>5, <3>1
  <2>3. e = n + 1 \/ e = n + 1 + 1 \/ e = n + 1 + 1 + 1
    BY <1>6
  <2>4. At(e) # End
    <3> HIDE DEF e
    <3> QED
      BY <1>1, <2>1, <2>3
  <2> QED
    BY <2>2, <2>4 DEF s, N
<1>11. N - n = 0 \/ N - n = 1 \/ N - n = 2 \/ N - n > 2
  BY <1>1 DEF N
<1> QED
  BY <1>7, <1>8, <1>9, <1>10, <1>11

(* A piece of the line holds its characters.                               *)
LEMMA PieceIs ==
  ASSUME Line(line), NEW g \in Nat, NEW h \in Nat, g < h, h <= Len(line)
  PROVE  LET s == SubSeq(line, g + 1, h)
         IN  /\ Len(s) = h - g /\ DOMAIN s = 1 .. h - g
             /\ \A k \in g + 1 .. h : k - g \in 1 .. h - g /\ s[k - g] = At(k)
<1> DEFINE N == Len(line)
           C == {line[k] : k \in DOMAIN line}
           s == SubSeq(line, g + 1, h)
<1>0. /\ N \in Nat /\ \A k \in 1 .. N : At(k) = line[k] /\ At(k) # End
  BY LineAt
<1>1. \A k \in g + 1 .. h : k \in 1 .. N
  BY <1>0
<1>2. \A k \in g + 1 .. h : line[k] \in C
  BY <1>1, LineAt
<1>3. /\ s \in Seq(C) /\ Len(s) = IF g + 1 <= h THEN h - (g + 1) + 1 ELSE 0
      /\ \A k \in 1 .. h - (g + 1) + 1 : s[k] = line[g + 1 + k - 1]
  <2> HIDE DEF C
  <2>1. g + 1 \in Int /\ h \in Int
    OBVIOUS
  <2> QED
    BY <1>2, <2>1, SubSeqProperties
<1> HIDE DEF s
<1>4. Len(s) = h - g /\ h - (g + 1) + 1 = h - g
  BY <1>3
<1>5. DOMAIN s = 1 .. h - g
  BY <1>3, <1>4, LenProperties
<1>6. ASSUME NEW k \in g + 1 .. h PROVE k - g \in 1 .. h - g /\ s[k - g] = At(k)
  <2>1. k - g \in 1 .. h - g /\ g + 1 + (k - g) - 1 = k
    OBVIOUS
  <2>2. s[k - g] = line[g + 1 + (k - g) - 1]
    BY <1>3, <1>4, <2>1
  <2>3. s[k - g] = line[k]
    BY <2>1, <2>2
  <2> QED
    BY <1>0, <1>1, <2>1, <2>3
<1> QED
  BY <1>4, <1>5, <1>6 DEF s

(* What the parser finds at each position of an announcement whose fields  *)
(* are proper.                                                             *)
LEMMA CutFacts ==
  ASSUME Line(line), NEW z, Cut(line, z), Proper(Fields(line, z))
  PROVE  /\ z \in Cuts /\ Len(line) \in Nat
         /\ z.a < z.v /\ z.v < z.b /\ z.b < z.q /\ z.q < z.c /\ z.c < z.i /\ z.i < z.d /\ z.d < z.n
         /\ z.n <= Len(line)
         /\ \A k \in 1 .. z.a : At(k) \in Blanks
         /\ \A k \in z.a + 1 .. z.v : At(k) \in Digits
         /\ \A k \in z.v + 1 .. z.b : At(k) \in Blanks
         /\ \A k \in z.b + 1 .. z.q : At(k) \in Digits
         /\ \A k \in z.q + 1 .. z.c : At(k) \in Blanks
         /\ \A k \in z.c + 1 .. z.i : At(k) \notin Blanks \union LineEnds
         /\ \A k \in z.i + 1 .. z.d : At(k) \in Blanks
         /\ At(z.d + 1) \notin Blanks
         /\ \A k \in z.d + 1 .. z.n : At(k) \notin LineEnds
         /\ At(z.n + 1) \in LineEnds \union {End}
         /\ At(After(After(z.n + 1, "\r"), "\n")) = End
         /\ z.i - z.c < IdSize /\ z.n - z.d < NameSize
         /\ \A k \in Nat : z.a <= k /\ k <= z.v =>
              ValueOf(line, z.a + 1, k) \in Nat /\ ValueOf(line, z.a + 1, k) <= VersionMax
         /\ \A k \in Nat : z.b <= k /\ k <= z.q =>
              ValueOf(line, z.b + 1, k) \in Nat /\ ValueOf(line, z.b + 1, k) <= PortMax
         /\ ValueOf(line, z.b + 1, z.q) # 0
<1> DEFINE N == Len(line)
           f == Fields(line, z)
<1>1. /\ N \in Nat /\ \A k \in 1 .. N : At(k) = line[k] /\ At(k) # End
  BY LineAt
<1>2. /\ z \in Cuts
      /\ z.a < z.v /\ z.v < z.b /\ z.b < z.q /\ z.q < z.c /\ z.c < z.i /\ z.i < z.d /\ z.d < z.n
      /\ z.n <= N
  BY DEF Cut
<1>3. /\ z.a \in Nat /\ z.v \in Nat /\ z.b \in Nat /\ z.q \in Nat
      /\ z.c \in Nat /\ z.i \in Nat /\ z.d \in Nat /\ z.n \in Nat
  BY <1>2 DEF Cuts
<1>4. /\ AllOf(line, 1, z.a, Blanks) /\ AllOf(line, z.a + 1, z.v, Digits)
      /\ AllOf(line, z.v + 1, z.b, Blanks) /\ AllOf(line, z.b + 1, z.q, Digits)
      /\ AllOf(line, z.q + 1, z.c, Blanks) /\ AllOf(line, z.i + 1, z.d, Blanks)
      /\ SubSeq(line, z.n + 1, N) \in Endings
  BY DEF Cut
<1>5. ASSUME NEW S, NEW k \in Nat, NEW m \in Nat, m <= N, k # 0, AllOf(line, k, m, S)
      PROVE  \A j \in k .. m : At(j) \in S
  <2> SUFFICES ASSUME NEW j \in k .. m PROVE At(j) \in S
    OBVIOUS
  <2>1. j \in 1 .. N
    BY <1>1, <1>5
  <2> QED
    BY <1>1, <1>5, <2>1 DEF AllOf
<1>6. /\ z.a <= N /\ z.v <= N /\ z.b <= N /\ z.q <= N /\ z.c <= N /\ z.i <= N /\ z.d <= N
      /\ z.a + 1 \in Nat /\ z.v + 1 \in Nat /\ z.b + 1 \in Nat /\ z.q + 1 \in Nat /\ z.i + 1 \in Nat
      /\ z.a + 1 # 0 /\ z.v + 1 # 0 /\ z.b + 1 # 0 /\ z.q + 1 # 0 /\ z.i + 1 # 0
      /\ 1 \in Nat /\ 1 # 0
  <2> HIDE DEF N
  <2>1. z.d <= N /\ z.i <= N /\ z.c <= N /\ z.q <= N
    BY <1>1, <1>2, <1>3
  <2>2. z.b <= N /\ z.v <= N /\ z.a <= N
    BY <1>1, <1>2, <1>3, <2>1
  <2>3. \A x \in Nat : x + 1 \in Nat /\ x + 1 # 0
    OBVIOUS
  <2> QED
    BY <1>3, <2>1, <2>2, <2>3
<1>7. /\ \A k \in 1 .. z.a : At(k) \in Blanks
      /\ \A k \in z.a + 1 .. z.v : At(k) \in Digits
      /\ \A k \in z.v + 1 .. z.b : At(k) \in Blanks
  <2>1. \A k \in 1 .. z.a : At(k) \in Blanks
    BY <1>3, <1>4, <1>5, <1>6
  <2>2. \A k \in z.a + 1 .. z.v : At(k) \in Digits
    BY <1>3, <1>4, <1>5, <1>6
  <2>3. \A k \in z.v + 1 .. z.b : At(k) \in Blanks
    BY <1>3, <1>4, <1>5, <1>6
  <2> QED
    BY <2>1, <2>2, <2>3
<1>8. /\ \A k \in z.b + 1 .. z.q : At(k) \in Digits
      /\ \A k \in z.q + 1 .. z.c : At(k) \in Blanks
      /\ \A k \in z.i + 1 .. z.d : At(k) \in Blanks
  <2>1. \A k \in z.b + 1 .. z.q : At(k) \in Digits
    BY <1>3, <1>4, <1>5, <1>6
  <2>2. \A k \in z.q + 1 .. z.c : At(k) \in Blanks
    BY <1>3, <1>4, <1>5, <1>6
  <2>3. \A k \in z.i + 1 .. z.d : At(k) \in Blanks
    BY <1>3, <1>4, <1>5, <1>6
  <2> QED
    BY <2>1, <2>2, <2>3
<1>9. /\ f.version = ValueOf(line, z.a + 1, z.v) /\ f.port = ValueOf(line, z.b + 1, z.q)
      /\ f.id = SubSeq(line, z.c + 1, z.i) /\ f.name = SubSeq(line, z.d + 1, z.n)
  BY DEF Fields
<1>10. /\ f.version <= VersionMax /\ f.port \in 1 .. PortMax
       /\ Len(f.id) \in 1 .. IdSize - 1 /\ Len(f.name) \in 1 .. NameSize - 1
       /\ \A k \in DOMAIN f.id : f.id[k] \notin Blanks \union LineEnds
       /\ \A k \in DOMAIN f.name : f.name[k] \notin LineEnds
       /\ f.name[1] \notin Blanks
  BY DEF Proper
<1> HIDE DEF f
<1>11. /\ \A k \in z.c + 1 .. z.i : At(k) \notin Blanks \union LineEnds
       /\ z.i - z.c < IdSize
  <2> DEFINE s == SubSeq(line, z.c + 1, z.i)
  <2>1. /\ Len(s) = z.i - z.c /\ DOMAIN s = 1 .. z.i - z.c
        /\ \A k \in z.c + 1 .. z.i : k - z.c \in 1 .. z.i - z.c /\ s[k - z.c] = At(k)
    BY <1>2, <1>3, <1>6, PieceIs
  <2>2. f.id = s
    BY <1>9
  <2> HIDE DEF s
  <2>3. IdSize \in Nat
    BY DiscoveryAssumption
  <2>4. z.i - z.c < IdSize
    BY <1>3, <1>10, <2>1, <2>2, <2>3
  <2>5. \A k \in z.c + 1 .. z.i : At(k) \notin Blanks \union LineEnds
    BY <1>10, <2>1, <2>2
  <2> QED
    BY <2>4, <2>5
<1>12. /\ \A k \in z.d + 1 .. z.n : At(k) \notin LineEnds
       /\ At(z.d + 1) \notin Blanks
       /\ z.n - z.d < NameSize
  <2> DEFINE s == SubSeq(line, z.d + 1, z.n)
  <2>1. /\ Len(s) = z.n - z.d /\ DOMAIN s = 1 .. z.n - z.d
        /\ \A k \in z.d + 1 .. z.n : k - z.d \in 1 .. z.n - z.d /\ s[k - z.d] = At(k)
    BY <1>2, <1>3, PieceIs
  <2>2. f.name = s
    BY <1>9
  <2> HIDE DEF s
  <2>3. NameSize \in Nat
    BY DiscoveryAssumption
  <2>4. z.n - z.d < NameSize
    BY <1>3, <1>10, <2>1, <2>2, <2>3
  <2>5. \A k \in z.d + 1 .. z.n : At(k) \notin LineEnds
    BY <1>10, <2>1, <2>2
  <2>6. z.d + 1 \in z.d + 1 .. z.n /\ (z.d + 1) - z.d = 1
    BY <1>2, <1>3
  <2>7. s[1] = At(z.d + 1)
    BY <2>1, <2>6
  <2> QED
    BY <1>10, <2>2, <2>4, <2>5, <2>7
<1>13. At(z.n + 1) \in LineEnds \union {End} /\ At(After(After(z.n + 1, "\r"), "\n")) = End
  BY <1>2, <1>3, <1>4, EndingIs
<1>14. ASSUME NEW g \in Nat, NEW h \in Nat, g < h, AllOf(line, g + 1, h, Digits), NEW m \in Nat,
              ValueOf(line, g + 1, h) <= m
       PROVE  \A k \in Nat : g <= k /\ k <= h =>
                ValueOf(line, g + 1, k) \in Nat /\ ValueOf(line, g + 1, k) <= m
  <2>1. g + 1 \in Nat \ {0} /\ (g + 1) - 1 <= h /\ (g + 1) - 1 = g
    BY <1>14
  <2>2. \A j \in Nat : g <= j /\ j <= h =>
           ValueOf(line, g + 1, j) \in Nat
           /\ \A i \in Nat : g <= i /\ i <= j => ValueOf(line, g + 1, i) <= ValueOf(line, g + 1, j)
    BY <1>14, <2>1, ValueGrows
  <2>3. g <= h /\ h <= h
    BY <1>14
  <2>4. ASSUME NEW k \in Nat, g <= k, k <= h
        PROVE  ValueOf(line, g + 1, k) \in Nat /\ ValueOf(line, g + 1, k) <= m
    <3>1. /\ ValueOf(line, g + 1, k) \in Nat /\ ValueOf(line, g + 1, h) \in Nat
          /\ ValueOf(line, g + 1, k) <= ValueOf(line, g + 1, h)
      BY <2>2, <2>3, <2>4
    <3> QED
      BY <1>14, <3>1
  <2> QED
    BY <2>4
<1>15. VersionMax \in Nat /\ PortMax \in Nat
  BY DiscoveryAssumption
<1>16. \A k \in Nat : z.a <= k /\ k <= z.v =>
         ValueOf(line, z.a + 1, k) \in Nat /\ ValueOf(line, z.a + 1, k) <= VersionMax
  BY <1>2, <1>3, <1>4, <1>9, <1>10, <1>14, <1>15
<1>17. /\ ValueOf(line, z.b + 1, z.q) \in 1 .. PortMax
       /\ \A k \in Nat : z.b <= k /\ k <= z.q =>
            ValueOf(line, z.b + 1, k) \in Nat /\ ValueOf(line, z.b + 1, k) <= PortMax
  <2>1. ValueOf(line, z.b + 1, z.q) \in 1 .. PortMax
    BY <1>9, <1>10
  <2>2. ValueOf(line, z.b + 1, z.q) <= PortMax
    BY <1>15, <2>1
  <2> QED
    BY <1>2, <1>3, <1>4, <1>14, <1>15, <2>1, <2>2
<1>18. ValueOf(line, z.b + 1, z.q) # 0
  BY <1>17
<1> QED
  BY <1>1, <1>2, <1>7, <1>8, <1>11, <1>12, <1>13, <1>16, <1>17, <1>18

(* Where the parser of a line that is cut at z may stand.                  *)
Stands(z) ==
  /\ at # "refused"
  /\ at = "version" => p = 1
  /\ at = "version digits" => p \in z.a + 1 .. z.v + 1 /\ number = ValueOf(line, z.a + 1, p - 1)
  /\ at = "port" => p = z.b + 1
  /\ at = "port digits" => p \in z.b + 1 .. z.q + 1 /\ number = ValueOf(line, z.b + 1, p - 1)
  /\ at = "id" => p = z.c + 1
  /\ at = "name" => p = z.d + 1

(* A digit of a number that stays within its limit is taken.               *)
LEMMA DigitTaken ==
  ASSUME Line(line), NumberDigit, NEW g \in Nat, NEW h \in Nat, h < Len(line), At(h + 1) \notin Digits,
         \A k \in Nat : g <= k /\ k <= h =>
           ValueOf(line, g + 1, k) \in Nat /\ ValueOf(line, g + 1, k) <= Limit,
         p \in g + 1 .. h + 1, number = ValueOf(line, g + 1, p - 1)
  PROVE  /\ p' \in g + 1 .. h + 1 /\ number' = ValueOf(line, g + 1, p' - 1)
         /\ line' = line /\ at' = at
<1> DEFINE d == DigitValue[At(p)]
<1>1. Len(line) \in Nat /\ \A k \in 1 .. Len(line) : At(k) = line[k]
  BY LineAt
<1>2. At(p) \in Digits
  BY DEF NumberDigit
<1>3. p # h + 1
  BY <1>2
<1>4. p \in Nat /\ g + 1 <= p /\ p <= h
  BY <1>3
<1>5. p \in 1 .. Len(line)
  BY <1>1, <1>4
<1>6. At(p) = line[p]
  BY <1>1, <1>5
<1>7. d \in 0 .. 9
  BY <1>2, DigitRange
<1>8. ValueOf(line, g + 1, p) = ValueOf(line, g + 1, p - 1) * 10 + DigitValue[line[p]]
  <2>1. g + 1 \in Nat \ {0}
    OBVIOUS
  <2> QED
    BY <1>4, <2>1, ValueStep
<1>9. ValueOf(line, g + 1, p) \in Nat /\ ValueOf(line, g + 1, p) <= Limit
  BY <1>4
<1>10. number \in Nat
  <2>1. p - 1 \in Nat /\ g <= p - 1 /\ p - 1 <= h
    BY <1>4
  <2> QED
    BY <2>1
<1>11. ValueOf(line, g + 1, p) = number * 10 + d
  BY <1>6, <1>8
<1>12. Limit \in Nat /\ 9 <= Limit /\ Limit < Modulus /\ Modulus \in Nat
  BY LimitRange
<1>13. Fits(d)
  <2>1. number * 10 + d <= Limit
    BY <1>9, <1>11
  <2> HIDE DEF d
  <2> QED
    BY <1>7, <1>10, <1>12, <2>1, FitsExact DEF Fits
<1>14. number' = (number * 10 + d) % Modulus /\ p' = p + 1 /\ line' = line /\ at' = at
  BY <1>13 DEF NumberDigit
<1> HIDE DEF d
<1>15. number' = number * 10 + d
  <2>1. number * 10 + d \in Nat /\ number * 10 + d < Modulus
    BY <1>9, <1>11, <1>12
  <2>2. \A x \in Nat : \A y \in Nat : x < y => x % y = x
    OBVIOUS
  <2> QED
    BY <1>12, <1>14, <2>1, <2>2
<1>16. p' - 1 = p /\ p' \in g + 1 .. h + 1
  BY <1>4, <1>14
<1> QED
  BY <1>11, <1>14, <1>15, <1>16

(* An announcement is followed to its end.                                 *)
LEMMA Followed ==
  ASSUME Line(line), NEW z, Cut(line, z), Proper(Fields(line, z)), Stands(z), Next
  PROVE  line' = line /\ Stands(z)'
<1> DEFINE N == Len(line)
<1>1. /\ z \in Cuts /\ N \in Nat
      /\ z.a < z.v /\ z.v < z.b /\ z.b < z.q /\ z.q < z.c /\ z.c < z.i /\ z.i < z.d /\ z.d < z.n
      /\ z.n <= N
  BY CutFacts
<1>2. /\ \A k \in 1 .. z.a : At(k) \in Blanks
      /\ \A k \in z.a + 1 .. z.v : At(k) \in Digits
      /\ \A k \in z.v + 1 .. z.b : At(k) \in Blanks
      /\ \A k \in z.b + 1 .. z.q : At(k) \in Digits
      /\ \A k \in z.q + 1 .. z.c : At(k) \in Blanks
  BY CutFacts
<1>3. /\ \A k \in z.c + 1 .. z.i : At(k) \notin Blanks \union LineEnds
      /\ \A k \in z.i + 1 .. z.d : At(k) \in Blanks
      /\ At(z.d + 1) \notin Blanks
      /\ \A k \in z.d + 1 .. z.n : At(k) \notin LineEnds
      /\ At(z.n + 1) \in LineEnds \union {End}
      /\ At(After(After(z.n + 1, "\r"), "\n")) = End
      /\ z.i - z.c < IdSize /\ z.n - z.d < NameSize
  BY CutFacts
<1>4. /\ \A k \in Nat : z.a <= k /\ k <= z.v =>
           ValueOf(line, z.a + 1, k) \in Nat /\ ValueOf(line, z.a + 1, k) <= VersionMax
      /\ \A k \in Nat : z.b <= k /\ k <= z.q =>
           ValueOf(line, z.b + 1, k) \in Nat /\ ValueOf(line, z.b + 1, k) <= PortMax
      /\ ValueOf(line, z.b + 1, z.q) # 0
  BY CutFacts
<1>5. /\ z.a \in Nat /\ z.v \in Nat /\ z.b \in Nat /\ z.q \in Nat
      /\ z.c \in Nat /\ z.i \in Nat /\ z.d \in Nat /\ z.n \in Nat
  BY <1>1 DEF Cuts
<1>6. /\ z.a < N /\ z.v < N /\ z.b < N /\ z.q < N /\ z.c < N /\ z.i < N /\ z.d < N
  <2> HIDE DEF N
  <2>1. z.d < N /\ z.i < N /\ z.c < N /\ z.q < N
    BY <1>1, <1>5
  <2> QED
    BY <1>1, <1>5, <2>1
<1>7. /\ z.v + 1 \in z.v + 1 .. z.b /\ z.q + 1 \in z.q + 1 .. z.c /\ z.i + 1 \in z.i + 1 .. z.d
      /\ z.a + 1 \in z.a + 1 .. z.v /\ z.b + 1 \in z.b + 1 .. z.q /\ z.c + 1 \in z.c + 1 .. z.i
  <2>1. \A x \in Nat : \A y \in Nat : x < y => x + 1 \in x + 1 .. y
    OBVIOUS
  <2> HIDE DEF N
  <2> QED
    BY <1>1, <1>5, <2>1
<1>8. /\ At(z.v + 1) \in Blanks /\ At(z.q + 1) \in Blanks /\ At(z.i + 1) \in Blanks
      /\ At(z.a + 1) \in Digits /\ At(z.b + 1) \in Digits /\ At(z.c + 1) \notin Blanks \union LineEnds
  BY <1>2, <1>3, <1>7
<1>9. /\ At(z.a + 1) \notin Blanks /\ At(z.b + 1) \notin Blanks
      /\ At(z.v + 1) \notin Digits /\ At(z.q + 1) \notin Digits /\ End \notin Blanks
  BY <1>8, EndIsNone
<1>10. \A g \in Nat, h \in Nat : g <= h /\ h < N =>
         /\ g + 1 \in 1 .. N + 1 /\ h + 1 \in g + 1 .. N + 1 /\ (h + 1) - 1 = h
  BY <1>1
<1> HIDE DEF N
<1>11. CASE NumberStart /\ at = "version"
  <2>1. SkipOver(1, Blanks) = z.a + 1
    <3>1. 1 \in 1 .. N + 1 /\ z.a + 1 \in 1 .. N + 1 /\ (z.a + 1) - 1 = z.a
      BY <1>1, <1>5, <1>6
    <3> QED
      BY <1>2, <1>9, <3>1, SkipOverIs DEF N
  <2>2. p = 1
    BY <1>11 DEF Stands
  <2>3. /\ p' = z.a + 1 /\ number' = 0 /\ at' = "version digits" /\ line' = line
    BY <1>8, <1>11, <2>1, <2>2 DEF NumberStart
  <2>4. z.a + 1 \in z.a + 1 .. z.v + 1 /\ (z.a + 1) - 1 = z.a /\ z.a + 1 \in Nat \ {0}
    BY <1>1, <1>5
  <2>5. ValueOf(line, z.a + 1, (z.a + 1) - 1) = 0
    BY <2>4, ValueStep
  <2> QED
    BY <2>3, <2>4, <2>5 DEF Stands
<1>12. CASE NumberStart /\ at = "port"
  <2>1. p = z.b + 1
    BY <1>12 DEF Stands
  <2>2. SkipOver(p, Blanks) = z.b + 1
    <3>1. z.b + 1 \in 1 .. N + 1 /\ z.b + 1 \in z.b + 1 .. N + 1
      BY <1>5, <1>6, <1>10
    <3>2. \A k \in z.b + 1 .. (z.b + 1) - 1 : At(k) \in Blanks
      BY <1>5
    <3> QED
      BY <1>9, <2>1, <3>1, <3>2, SkipOverIs DEF N
  <2>3. /\ p' = z.b + 1 /\ number' = 0 /\ at' = "port digits" /\ line' = line
    BY <1>8, <1>12, <2>2 DEF NumberStart
  <2>4. z.b + 1 \in z.b + 1 .. z.q + 1 /\ (z.b + 1) - 1 = z.b /\ z.b + 1 \in Nat \ {0}
    BY <1>1, <1>5
  <2>5. ValueOf(line, z.b + 1, (z.b + 1) - 1) = 0
    BY <2>4, ValueStep
  <2> QED
    BY <2>3, <2>4, <2>5 DEF Stands
<1>13. CASE NumberDigit /\ at = "version digits"
  <2>1. p \in z.a + 1 .. z.v + 1 /\ number = ValueOf(line, z.a + 1, p - 1) /\ Limit = VersionMax
    BY <1>13 DEF Stands, Limit
  <2>2. /\ p' \in z.a + 1 .. z.v + 1 /\ number' = ValueOf(line, z.a + 1, p' - 1)
        /\ line' = line /\ at' = at
    BY <1>4, <1>5, <1>6, <1>9, <1>13, <2>1, DigitTaken DEF N
  <2> QED
    BY <1>13, <2>2 DEF Stands
<1>14. CASE NumberDigit /\ at = "port digits"
  <2>1. p \in z.b + 1 .. z.q + 1 /\ number = ValueOf(line, z.b + 1, p - 1) /\ Limit = PortMax
    BY <1>14 DEF Stands, Limit
  <2>2. /\ p' \in z.b + 1 .. z.q + 1 /\ number' = ValueOf(line, z.b + 1, p' - 1)
        /\ line' = line /\ at' = at
    BY <1>4, <1>5, <1>6, <1>9, <1>14, <2>1, DigitTaken DEF N
  <2> QED
    BY <1>14, <2>2 DEF Stands
<1>15. CASE NumberEnd /\ at = "version digits"
  <2>1. p \in z.a + 1 .. z.v + 1 /\ At(p) \notin Digits
    BY <1>15 DEF Stands, NumberEnd
  <2>2. p = z.v + 1
    <3>1. p \notin z.a + 1 .. z.v
      BY <1>2, <2>1
    <3> QED
      BY <1>5, <2>1, <3>1
  <2>3. SkipOver(p, Blanks) = z.b + 1
    <3>1. z.v + 1 \in 1 .. N + 1 /\ z.b + 1 \in z.v + 1 .. N + 1 /\ (z.b + 1) - 1 = z.b
      BY <1>1, <1>5, <1>6, <1>10
    <3> QED
      BY <1>2, <1>9, <2>2, <3>1, SkipOverIs DEF N
  <2>4. p' = z.b + 1 /\ at' = "port" /\ line' = line
    BY <1>8, <1>15, <2>2, <2>3 DEF NumberEnd
  <2> QED
    BY <2>4 DEF Stands
<1>16. CASE NumberEnd /\ at = "port digits"
  <2>1. p \in z.b + 1 .. z.q + 1 /\ At(p) \notin Digits /\ number = ValueOf(line, z.b + 1, p - 1)
    BY <1>16 DEF Stands, NumberEnd
  <2>2. p = z.q + 1 /\ p - 1 = z.q
    <3>1. p \notin z.b + 1 .. z.q
      BY <1>2, <2>1
    <3> QED
      BY <1>5, <2>1, <3>1
  <2>3. number # 0
    BY <1>4, <2>1, <2>2
  <2>4. At(z.c + 1) \notin Blanks
    BY <1>8
  <2>5. SkipOver(p, Blanks) = z.c + 1
    <3>1. z.q + 1 \in 1 .. N + 1 /\ z.c + 1 \in z.q + 1 .. N + 1 /\ (z.c + 1) - 1 = z.c
      BY <1>1, <1>5, <1>6, <1>10
    <3> QED
      BY <1>2, <1>9, <2>2, <2>4, <3>1, SkipOverIs DEF N
  <2>6. p' = z.c + 1 /\ at' = "id" /\ line' = line
    BY <1>8, <1>16, <2>2, <2>3, <2>5 DEF NumberEnd
  <2> QED
    BY <2>6 DEF Stands
<1>17. CASE Id
  <2>1. p = z.c + 1 /\ at = "id"
    BY <1>17 DEF Stands, Id
  <2>2. SkipTo(p, Blanks \union LineEnds) = z.i + 1
    <3>1. z.c + 1 \in 1 .. N + 1 /\ z.i + 1 \in z.c + 1 .. N + 1 /\ (z.i + 1) - 1 = z.i
      BY <1>1, <1>5, <1>6, <1>10
    <3>2. At(z.i + 1) \in (Blanks \union LineEnds) \union {End}
      BY <1>8
    <3> QED
      BY <1>3, <2>1, <3>1, <3>2, SkipToIs DEF N
  <2>3. SkipOver(z.i + 1, Blanks) = z.d + 1
    <3>1. z.i + 1 \in 1 .. N + 1 /\ z.d + 1 \in z.i + 1 .. N + 1 /\ (z.d + 1) - 1 = z.d
      BY <1>1, <1>5, <1>6, <1>10
    <3> QED
      BY <1>3, <1>9, <3>1, SkipOverIs DEF N
  <2>4. IdSize \in Nat
    BY DiscoveryAssumption
  <2>5. z.i + 1 # z.c + 1 /\ ~ ((z.i + 1) - (z.c + 1) >= IdSize)
    BY <1>1, <1>3, <1>5, <2>4
  <2>6. p' = z.d + 1 /\ at' = "name" /\ line' = line
    BY <1>8, <1>17, <2>1, <2>2, <2>3, <2>5 DEF Id
  <2> QED
    BY <2>6 DEF Stands
<1>18. CASE Name
  <2>1. p = z.d + 1 /\ at = "name"
    BY <1>18 DEF Stands, Name
  <2>2. SkipTo(p, LineEnds) = z.n + 1
    <3>1. z.d + 1 \in 1 .. N + 1 /\ z.n + 1 \in z.d + 1 .. N + 1 /\ (z.n + 1) - 1 = z.n
      BY <1>1, <1>5, <1>6
    <3> QED
      BY <1>3, <2>1, <3>1, SkipToIs DEF N
  <2>3. NameSize \in Nat
    BY DiscoveryAssumption
  <2>4. z.n + 1 # z.d + 1 /\ ~ ((z.n + 1) - (z.d + 1) >= NameSize)
    BY <1>1, <1>3, <1>5, <2>3
  <2>5. at' = "accepted" /\ line' = line
    BY <1>3, <1>18, <2>1, <2>2, <2>4 DEF Name
  <2> QED
    BY <2>5 DEF Stands
<1> QED
  <2>1. /\ NumberStart => at \in {"version", "port"}
        /\ NumberDigit => at \in {"version digits", "port digits"}
        /\ NumberEnd => at \in {"version digits", "port digits"}
    BY DEF NumberStart, NumberDigit, NumberEnd
  <2> QED
    BY <1>11, <1>12, <1>13, <1>14, <1>15, <1>16, <1>17, <1>18, <2>1 DEF Next

(* What has been read when the parser is past the version, the port, the   *)
(* identity and the name of the announcement that z cuts.                  *)
Between(k, m, S) == \A i \in k .. m : At(i) \in S
NotIn(k, m, S) == \A i \in k .. m : At(i) \notin S

PastVersion(z) ==
  /\ z.a < z.v /\ z.v < z.b /\ z.b <= Len(line)
  /\ Between(1, z.a, Blanks) /\ Between(z.a + 1, z.v, Digits) /\ Between(z.v + 1, z.b, Blanks)
  /\ out.version = ValueOf(line, z.a + 1, z.v) /\ out.version <= VersionMax

PastPort(z) ==
  /\ z.b < z.q /\ z.q < z.c /\ z.c <= Len(line)
  /\ Between(z.b + 1, z.q, Digits) /\ Between(z.q + 1, z.c, Blanks)
  /\ out.port = ValueOf(line, z.b + 1, z.q) /\ out.port \in 1 .. PortMax

PastId(z) ==
  /\ z.c < z.i /\ z.i < z.d /\ z.d <= Len(line) /\ z.i - z.c < IdSize
  /\ NotIn(z.c + 1, z.i, Blanks \union LineEnds) /\ Between(z.i + 1, z.d, Blanks)
  /\ At(z.d + 1) \notin Blanks
  /\ out.id = SubSeq(line, z.c + 1, z.i)

PastName(z) ==
  /\ z.d < z.n /\ z.n <= Len(line) /\ z.n - z.d < NameSize
  /\ NotIn(z.d + 1, z.n, LineEnds)
  /\ SubSeq(line, z.n + 1, Len(line)) \in Endings
  /\ out.name = SubSeq(line, z.d + 1, z.n)

(* The digits read since position g.                                       *)
DigitsFrom(g) ==
  /\ p \in g + 1 .. Len(line) + 1 /\ Between(g + 1, p - 1, Digits)
  /\ p = g + 1 => At(p) \in Digits
  /\ number = ValueOf(line, g + 1, p - 1)

Reached(z) ==
  /\ at = "version" => p = 1
  /\ at = "version digits" => Between(1, z.a, Blanks) /\ DigitsFrom(z.a)
  /\ at = "port" => PastVersion(z) /\ p = z.b + 1 /\ At(p) \notin Blanks
  /\ at = "port digits" => PastVersion(z) /\ DigitsFrom(z.b)
  /\ at = "id" => PastVersion(z) /\ PastPort(z) /\ p = z.c + 1
  /\ at = "name" => PastVersion(z) /\ PastPort(z) /\ PastId(z) /\ p = z.d + 1
  /\ at = "accepted" => PastVersion(z) /\ PastPort(z) /\ PastId(z) /\ PastName(z)

Shaped == out = [version |-> out.version, port |-> out.port, id |-> out.id, name |-> out.name]

Found == Shaped /\ \E z \in Cuts : Reached(z)

LEMMA FieldSet ==
  ASSUME Shaped, NEW x
  PROVE  /\ [out EXCEPT !.version = x] = [version |-> x, port |-> out.port, id |-> out.id, name |-> out.name]
         /\ [out EXCEPT !.port = x] = [version |-> out.version, port |-> x, id |-> out.id, name |-> out.name]
         /\ [out EXCEPT !.id = x] = [version |-> out.version, port |-> out.port, id |-> x, name |-> out.name]
         /\ [out EXCEPT !.name = x] = [version |-> out.version, port |-> out.port, id |-> out.id, name |-> x]
<1> DEFINE v == out.version
           r == out.port
           i == out.id
           n == out.name
<1>1. out = [version |-> v, port |-> r, id |-> i, name |-> n]
  BY DEF Shaped
<1> HIDE DEF v, r, i, n
<1> QED
  BY <1>1 DEF v, r, i, n

(* The fields of an accepted line are those of an announcement.            *)
LEMMA FoundIs ==
  ASSUME Line(line), Shaped, NEW z \in Cuts,
         PastVersion(z), PastPort(z), PastId(z), PastName(z)
  PROVE  Cut(line, z) /\ Proper(Fields(line, z)) /\ Fields(line, z) = out
<1> DEFINE N == Len(line)
           f == Fields(line, z)
<1>1. N \in Nat /\ \A k \in 1 .. N : At(k) = line[k]
  BY LineAt
<1>2. /\ z.a \in Nat /\ z.v \in Nat /\ z.b \in Nat /\ z.q \in Nat
      /\ z.c \in Nat /\ z.i \in Nat /\ z.d \in Nat /\ z.n \in Nat
  BY DEF Cuts
<1>3. /\ z.a < z.v /\ z.v < z.b /\ z.b < z.q /\ z.q < z.c /\ z.c < z.i /\ z.i < z.d /\ z.d < z.n
      /\ z.n <= N
  BY DEF PastVersion, PastPort, PastId, PastName
<1>4. /\ z.a <= N /\ z.v <= N /\ z.b <= N /\ z.q <= N /\ z.c <= N /\ z.i <= N /\ z.d <= N
  <2> HIDE DEF N
  <2>1. z.d <= N /\ z.i <= N /\ z.c <= N /\ z.q <= N
    BY <1>1, <1>2, <1>3
  <2> QED
    BY <1>1, <1>2, <1>3, <2>1
<1>5. ASSUME NEW S, NEW k \in Nat, NEW m \in Nat, m <= N, k # 0, Between(k, m, S)
      PROVE  AllOf(line, k, m, S)
  <2> SUFFICES ASSUME NEW j \in k .. m PROVE line[j] \in S
    BY DEF AllOf
  <2>1. j \in 1 .. N
    BY <1>1, <1>5
  <2> QED
    BY <1>1, <1>5, <2>1 DEF Between
<1>6. /\ \A x \in Nat : x + 1 \in Nat /\ x + 1 # 0
      /\ 1 \in Nat /\ 1 # 0
  OBVIOUS
<1>7. AllOf(line, 1, z.a, Blanks) /\ AllOf(line, z.a + 1, z.v, Digits) /\ AllOf(line, z.v + 1, z.b, Blanks)
  <2>1. AllOf(line, 1, z.a, Blanks)
    BY <1>2, <1>4, <1>5, <1>6 DEF PastVersion
  <2>2. AllOf(line, z.a + 1, z.v, Digits)
    BY <1>2, <1>4, <1>5, <1>6 DEF PastVersion
  <2>3. AllOf(line, z.v + 1, z.b, Blanks)
    BY <1>2, <1>4, <1>5, <1>6 DEF PastVersion
  <2> QED
    BY <2>1, <2>2, <2>3
<1>8. AllOf(line, z.b + 1, z.q, Digits) /\ AllOf(line, z.q + 1, z.c, Blanks) /\ AllOf(line, z.i + 1, z.d, Blanks)
  <2>1. AllOf(line, z.b + 1, z.q, Digits)
    BY <1>2, <1>4, <1>5, <1>6 DEF PastPort
  <2>2. AllOf(line, z.q + 1, z.c, Blanks)
    BY <1>2, <1>4, <1>5, <1>6 DEF PastPort
  <2>3. AllOf(line, z.i + 1, z.d, Blanks)
    BY <1>2, <1>4, <1>5, <1>6 DEF PastId
  <2> QED
    BY <2>1, <2>2, <2>3
<1>9. Cut(line, z)
  BY <1>3, <1>4, <1>7, <1>8 DEF Cut, PastName
<1>10. f = out
  BY DEF Fields, Shaped, PastVersion, PastPort, PastId, PastName
<1> HIDE DEF f
<1>11. /\ Len(out.id) \in 1 .. IdSize - 1
       /\ \A k \in DOMAIN out.id : out.id[k] \notin Blanks \union LineEnds
  <2> DEFINE s == SubSeq(line, z.c + 1, z.i)
  <2>1. /\ Len(s) = z.i - z.c /\ DOMAIN s = 1 .. z.i - z.c
        /\ \A k \in z.c + 1 .. z.i : k - z.c \in 1 .. z.i - z.c /\ s[k - z.c] = At(k)
    BY <1>2, <1>3, <1>4, PieceIs
  <2>2. out.id = s /\ z.i - z.c < IdSize /\ NotIn(z.c + 1, z.i, Blanks \union LineEnds)
    BY DEF PastId
  <2> HIDE DEF s
  <2>3. IdSize \in Nat
    BY DiscoveryAssumption
  <2>4. Len(s) \in 1 .. IdSize - 1
    <3>1. z.c \in Nat /\ z.i \in Nat /\ z.c < z.i
      BY <1>2, <1>3
    <3>2. Len(s) = z.i - z.c /\ z.i - z.c < IdSize
      BY <2>1, <2>2
    <3> QED
      BY <2>3, <3>1, <3>2
  <2>5. ASSUME NEW k \in 1 .. z.i - z.c PROVE s[k] \notin Blanks \union LineEnds
    <3>1. k + z.c \in z.c + 1 .. z.i /\ (k + z.c) - z.c = k
      BY <1>2
    <3>2. s[k] = At(k + z.c)
      BY <2>1, <3>1
    <3> QED
      BY <2>2, <3>1, <3>2 DEF NotIn
  <2> QED
    BY <2>1, <2>2, <2>4, <2>5
<1>12. /\ Len(out.name) \in 1 .. NameSize - 1 /\ out.name[1] \notin Blanks
       /\ \A k \in DOMAIN out.name : out.name[k] \notin LineEnds
  <2> DEFINE s == SubSeq(line, z.d + 1, z.n)
  <2>1. /\ Len(s) = z.n - z.d /\ DOMAIN s = 1 .. z.n - z.d
        /\ \A k \in z.d + 1 .. z.n : k - z.d \in 1 .. z.n - z.d /\ s[k - z.d] = At(k)
    BY <1>2, <1>3, <1>4, PieceIs
  <2>2. out.name = s /\ z.n - z.d < NameSize /\ NotIn(z.d + 1, z.n, LineEnds)
    BY DEF PastName
  <2> HIDE DEF s
  <2>3. NameSize \in Nat
    BY DiscoveryAssumption
  <2>4. Len(s) \in 1 .. NameSize - 1
    <3>1. z.d \in Nat /\ z.n \in Nat /\ z.d < z.n
      BY <1>2, <1>3
    <3>2. Len(s) = z.n - z.d /\ z.n - z.d < NameSize
      BY <2>1, <2>2
    <3> QED
      BY <2>3, <3>1, <3>2
  <2>5. ASSUME NEW k \in 1 .. z.n - z.d PROVE s[k] \notin LineEnds
    <3>1. k + z.d \in z.d + 1 .. z.n /\ (k + z.d) - z.d = k
      BY <1>2
    <3>2. s[k] = At(k + z.d)
      BY <2>1, <3>1
    <3> QED
      BY <2>2, <3>1, <3>2 DEF NotIn
  <2>6. s[1] \notin Blanks
    <3>1. z.d + 1 \in z.d + 1 .. z.n /\ (z.d + 1) - z.d = 1
      BY <1>2, <1>3
    <3>2. s[1] = At(z.d + 1)
      BY <2>1, <3>1
    <3> QED
      BY <3>2 DEF PastId
  <2> QED
    BY <2>1, <2>2, <2>4, <2>5, <2>6
<1>13. out.version <= VersionMax /\ out.port \in 1 .. PortMax
  BY DEF PastVersion, PastPort
<1>14. Proper(out)
  BY <1>11, <1>12, <1>13 DEF Proper
<1> QED
  BY <1>9, <1>10, <1>14 DEF f

LEMMA SameLine ==
  ASSUME line' = line
  PROVE  /\ \A k : At(k)' = At(k)
         /\ \A k, m, S : Between(k, m, S)' <=> Between(k, m, S)
         /\ \A k, m, S : NotIn(k, m, S)' <=> NotIn(k, m, S)
<1>1. \A k : At(k)' = At(k)
  BY DEF At
<1>2. \A k, m, S : Between(k, m, S)' <=> Between(k, m, S)
  BY DEF Between, At
<1>3. \A k, m, S : NotIn(k, m, S)' <=> NotIn(k, m, S)
  BY DEF NotIn, At
<1> QED
  BY <1>1, <1>2, <1>3

(* What was read stays read, and so under a cut with the same positions.   *)
LEMMA StaysPast ==
  ASSUME line' = line, NEW z, NEW y
  PROVE  /\ PastVersion(z) /\ out'.version = out.version /\ y.a = z.a /\ y.v = z.v /\ y.b = z.b
            => PastVersion(y)'
         /\ PastPort(z) /\ out'.port = out.port /\ y.b = z.b /\ y.q = z.q /\ y.c = z.c
            => PastPort(y)'
         /\ PastId(z) /\ out'.id = out.id /\ y.c = z.c /\ y.i = z.i /\ y.d = z.d
            => PastId(y)'
         /\ PastName(z) /\ out'.name = out.name /\ y.d = z.d /\ y.n = z.n
            => PastName(y)'
<1>1. ASSUME PastVersion(z), out'.version = out.version, y.a = z.a, y.v = z.v, y.b = z.b
      PROVE  PastVersion(y)'
  BY <1>1, SameLine DEF PastVersion
<1>2. ASSUME PastPort(z), out'.port = out.port, y.b = z.b, y.q = z.q, y.c = z.c
      PROVE  PastPort(y)'
  BY <1>2, SameLine DEF PastPort
<1>3. ASSUME PastId(z), out'.id = out.id, y.c = z.c, y.i = z.i, y.d = z.d
      PROVE  PastId(y)'
  BY <1>3, SameLine DEF PastId
<1>4. ASSUME PastName(z), out'.name = out.name, y.d = z.d, y.n = z.n
      PROVE  PastName(y)'
  BY <1>4, SameLine DEF PastName
<1> QED
  BY <1>1, <1>2, <1>3, <1>4

(* A number and the blanks after it.                                       *)
LEMMA NumberIs ==
  ASSUME Line(line), NEW g \in Nat, DigitsFrom(g), At(p) \in Blanks
  PROVE  LET q == SkipOver(p, Blanks)
         IN  /\ p - 1 \in Nat /\ q - 1 \in Nat /\ (p - 1) + 1 = p /\ (q - 1) + 1 = q
             /\ g < p - 1 /\ p - 1 < q - 1 /\ q - 1 <= Len(line)
             /\ Between(g + 1, p - 1, Digits) /\ Between(p, q - 1, Blanks) /\ At(q) \notin Blanks
             /\ number = ValueOf(line, g + 1, p - 1)
<1> DEFINE N == Len(line)
           q == SkipOver(p, Blanks)
<1>1. N \in Nat
  BY LineAt
<1>2. /\ p \in g + 1 .. N + 1 /\ Between(g + 1, p - 1, Digits) /\ (p = g + 1 => At(p) \in Digits)
      /\ number = ValueOf(line, g + 1, p - 1)
  BY DEF DigitsFrom
<1>3. p # g + 1
  BY <1>2, EndIsNone
<1>4. p \in 1 .. N + 1 /\ End \notin Blanks
  BY <1>1, <1>2, EndIsNone
<1>5. q \in p .. N + 1 /\ At(q) \notin Blanks /\ \A i \in p .. q - 1 : At(i) \in Blanks
  BY <1>4, SkipOverOK
<1>6. q # p
  BY <1>5
<1>7. Between(p, q - 1, Blanks)
  BY <1>5 DEF Between
<1> HIDE DEF q, N
<1>8. /\ p - 1 \in Nat /\ q - 1 \in Nat /\ (p - 1) + 1 = p /\ (q - 1) + 1 = q
      /\ g < p - 1 /\ p - 1 < q - 1 /\ q - 1 <= N
  BY <1>1, <1>2, <1>3, <1>4, <1>5, <1>6
<1> QED
  BY <1>2, <1>5, <1>7, <1>8 DEF q, N

LEMMA DigitsNext ==
  ASSUME line' = line, NEW g, NEW k, p' = k, k \in g + 1 .. Len(line) + 1,
         \A i \in g + 1 .. k - 1 : At(i) \in Digits, k = g + 1 => At(k) \in Digits,
         number' = ValueOf(line, g + 1, k - 1)
  PROVE  DigitsFrom(g)'
<1>1. \A i \in g + 1 .. p' - 1 : (IF i <= Len(line') THEN line'[i] ELSE End) \in Digits
  BY DEF At
<1>2. p' = g + 1 => (IF p' <= Len(line') THEN line'[p'] ELSE End) \in Digits
  BY DEF At
<1>3. p' \in g + 1 .. Len(line') + 1 /\ number' = ValueOf(line', g + 1, p' - 1)
  OBVIOUS
<1> QED
  BY <1>1, <1>2, <1>3 DEF DigitsFrom, Between, At

(* A number begun, and one digit more.                                     *)
LEMMA NumberBegun ==
  ASSUME Line(line), NEW g \in Nat, line' = line, p' = g + 1, number' = 0, At(g + 1) \in Digits,
         g + 1 \in 1 .. Len(line) + 1
  PROVE  DigitsFrom(g)'
<1>1. g + 1 \in Nat \ {0} /\ g + 1 \in g + 1 .. Len(line) + 1 /\ (g + 1) - 1 = g
  BY LineAt
<1>2. ValueOf(line, g + 1, (g + 1) - 1) = 0
  BY <1>1, ValueStep
<1>3. \A i : i \notin g + 1 .. (g + 1) - 1
  OBVIOUS
<1> QED
  BY <1>1, <1>2, <1>3, DigitsNext

LEMMA DigitFrom ==
  ASSUME Line(line), NoWrap, NEW g \in Nat, DigitsFrom(g), NumberDigit, at' # "refused"
  PROVE  DigitsFrom(g)' /\ line' = line /\ at' = at /\ out' = out
<1> DEFINE d == DigitValue[At(p)]
           N == Len(line)
<1>1. N \in Nat /\ At(N + 1) = End /\ \A k \in 1 .. N : At(k) = line[k]
  BY LineAt
<1>2. /\ p \in g + 1 .. N + 1 /\ Between(g + 1, p - 1, Digits)
      /\ number = ValueOf(line, g + 1, p - 1)
  BY DEF DigitsFrom
<1>3. At(p) \in Digits /\ at \in {"version digits", "port digits"}
  BY DEF NumberDigit
<1>4. p # N + 1
  BY <1>1, <1>3, EndIsNone
<1>5. Fits(d) /\ number' = (number * 10 + d) % Modulus /\ p' = p + 1 /\ UNCHANGED <<line, at, out>>
  BY DEF NumberDigit, Refuse
<1>6. d \in 0 .. 9
  BY <1>3, DigitRange
<1>7. number \in Nat
  <2>1. number \in 0 .. Limit
    BY <1>3 DEF NoWrap
  <2> QED
    BY <2>1, LimitRange
<1>8. number' = number * 10 + d
  <2> HIDE DEF d
  <2>1. number * 10 + d <= Limit /\ Limit < Modulus /\ Limit \in Nat /\ Modulus \in Nat
    BY <1>5, <1>6, <1>7, LimitRange, FitsExact DEF Fits
  <2>2. number * 10 + d \in Nat
    BY <1>6, <1>7
  <2>3. number * 10 + d < Modulus
    BY <2>1, <2>2
  <2>4. \A x \in Nat : \A y \in Nat : x < y => x % y = x
    OBVIOUS
  <2> QED
    BY <1>5, <2>1, <2>2, <2>3, <2>4
<1>9. g + 1 \in Nat \ {0} /\ p \in Nat /\ g + 1 <= p /\ p \in 1 .. N
  BY <1>1, <1>2, <1>4
<1>10. number' = ValueOf(line, g + 1, p)
  <2>1. ValueOf(line, g + 1, p) = ValueOf(line, g + 1, p - 1) * 10 + DigitValue[line[p]]
    BY <1>9, ValueStep
  <2>2. At(p) = line[p]
    BY <1>1, <1>9
  <2> QED
    BY <1>2, <1>8, <2>1, <2>2
<1>11. Between(g + 1, p, Digits)
  <2> SUFFICES ASSUME NEW j \in g + 1 .. p PROVE At(j) \in Digits
    BY DEF Between
  <2>1. j = p \/ j \in g + 1 .. p - 1
    BY <1>9
  <2> QED
    BY <1>2, <1>3, <2>1 DEF Between
<1>12. PICK k : k = p + 1
  OBVIOUS
<1>13. k - 1 = p /\ k \in g + 1 .. N + 1 /\ k # g + 1
  BY <1>9, <1>12
<1>14. \A i \in g + 1 .. k - 1 : At(i) \in Digits
  BY <1>11, <1>13 DEF Between
<1> HIDE DEF d
<1> QED
  BY <1>5, <1>10, <1>12, <1>13, <1>14, DigitsNext

LEMMA FoundStep ==
  ASSUME Line(line), NoWrap, Found, Next
  PROVE  line' = line /\ Found'
<1> DEFINE N == Len(line)
<1>1. PICK z \in Cuts : Reached(z)
  BY DEF Found
<1>2. Shaped /\ N \in Nat /\ At(N + 1) = End
  BY LineAt DEF Found
<1>3. /\ z.a \in Nat /\ z.v \in Nat /\ z.b \in Nat /\ z.q \in Nat
      /\ z.c \in Nat /\ z.i \in Nat /\ z.d \in Nat /\ z.n \in Nat
  BY DEF Cuts
<1>4. CASE Refuse
  <2>1. at' = "refused" /\ line' = line /\ out' = out
    BY <1>4 DEF Refuse
  <2> QED
    BY <1>2, <2>1 DEF Found, Shaped, Reached
<1>5. CASE NumberStart /\ at = "version" /\ ~ Refuse
  <2>1. PICK q : q = SkipOver(1, Blanks)
    OBVIOUS
  <2>2. p = 1 /\ 1 \in 1 .. N + 1
    BY <1>1, <1>2, <1>5 DEF Reached
  <2>3. At(q) \in Digits /\ p' = q /\ number' = 0 /\ at' = "version digits" /\ UNCHANGED <<line, out>>
    BY <1>5, <2>1, <2>2 DEF NumberStart
  <2>4. q \in 1 .. N + 1 /\ \A i \in 1 .. q - 1 : At(i) \in Blanks
    BY <2>1, <2>2, EndIsNone, SkipOverOK
  <2>5. q - 1 \in Nat /\ (q - 1) + 1 = q
    BY <2>4
  <2>6. PICK y : y = [z EXCEPT !.a = q - 1]
    OBVIOUS
  <2>7. y \in Cuts /\ y.a = q - 1
    BY <2>5, <2>6 DEF Cuts
  <2>8. DigitsFrom(y.a)'
    BY <2>3, <2>4, <2>5, <2>7, NumberBegun
  <2>9. Between(1, y.a, Blanks)'
    <3>1. Between(1, y.a, Blanks)
      BY <2>4, <2>7 DEF Between
    <3> QED
      BY <2>3, <3>1, SameLine
  <2>10. Reached(y)'
    BY <2>3, <2>8, <2>9 DEF Reached
  <2> QED
    BY <1>2, <2>3, <2>7, <2>10 DEF Found, Shaped
<1>6. CASE NumberStart /\ at = "port" /\ ~ Refuse
  <2>1. PastVersion(z) /\ p = z.b + 1 /\ At(p) \notin Blanks
    BY <1>1, <1>6 DEF Reached
  <2>2. z.b <= N
    BY <2>1 DEF PastVersion
  <2>3. p \in 1 .. N + 1 /\ p \in p .. N + 1 /\ \A i : i \notin p .. p - 1
    <3>1. N \in Nat /\ z.b \in Nat /\ z.b <= N /\ p = z.b + 1
      BY <1>2, <1>3, <2>1, <2>2
    <3> HIDE DEF N
    <3> QED
      BY <3>1
  <2>4. SkipOver(p, Blanks) = p
    BY <2>1, <2>3, EndIsNone, SkipOverIs
  <2>5. At(p) \in Digits /\ p' = p /\ number' = 0 /\ at' = "port digits" /\ UNCHANGED <<line, out>>
    BY <1>6, <2>4 DEF NumberStart
  <2>6. DigitsFrom(z.b)'
    BY <1>3, <2>1, <2>3, <2>5, NumberBegun
  <2>7. PastVersion(z)'
    BY <2>1, <2>5, StaysPast
  <2>8. Reached(z)'
    BY <2>5, <2>6, <2>7 DEF Reached
  <2> QED
    BY <1>2, <2>5, <2>8 DEF Found, Shaped
<1>7. CASE NumberDigit /\ ~ Refuse
  <2>1. at' # "refused"
    BY <1>7 DEF NumberDigit
  <2>2. at \in {"version digits", "port digits"}
    BY <1>7 DEF NumberDigit
  <2>3. CASE at = "version digits"
    <3>1. Between(1, z.a, Blanks) /\ DigitsFrom(z.a)
      BY <1>1, <2>3 DEF Reached
    <3>2. DigitsFrom(z.a)' /\ line' = line /\ at' = at /\ out' = out
      BY <1>3, <1>7, <2>1, <3>1, DigitFrom
    <3>3. Between(1, z.a, Blanks)'
      BY <3>1, <3>2, SameLine
    <3>4. Reached(z)'
      BY <2>3, <3>2, <3>3 DEF Reached
    <3> QED
      BY <1>2, <3>2, <3>4 DEF Found, Shaped
  <2>4. CASE at = "port digits"
    <3>1. PastVersion(z) /\ DigitsFrom(z.b)
      BY <1>1, <2>4 DEF Reached
    <3>2. DigitsFrom(z.b)' /\ line' = line /\ at' = at /\ out' = out
      BY <1>3, <1>7, <2>1, <3>1, DigitFrom
    <3>3. PastVersion(z)'
      BY <3>1, <3>2, StaysPast
    <3>4. Reached(z)'
      BY <2>4, <3>2, <3>3 DEF Reached
    <3> QED
      BY <1>2, <3>2, <3>4 DEF Found, Shaped
  <2> QED
    BY <2>2, <2>3, <2>4
<1>8. CASE NumberEnd /\ ~ Refuse
  <2>1. PICK q : q = SkipOver(p, Blanks)
    OBVIOUS
  <2>2. PICK k : k = p
    OBVIOUS
  <2>3. /\ at \in {"version digits", "port digits"} /\ At(p) \in Blanks
        /\ ~ (at = "port digits" /\ number = 0)
        /\ p' = q /\ line' = line /\ number' = number
        /\ IF at = "version digits"
           THEN at' = "port" /\ out' = [out EXCEPT !.version = number]
           ELSE at' = "id" /\ out' = [out EXCEPT !.port = number]
    BY <1>8, <2>1 DEF NumberEnd
  <2>4. CASE at = "version digits"
    <3>1. Between(1, z.a, Blanks) /\ DigitsFrom(z.a)
      BY <1>1, <2>4 DEF Reached
    <3>2. /\ k - 1 \in Nat /\ q - 1 \in Nat /\ (k - 1) + 1 = k /\ (q - 1) + 1 = q
          /\ z.a < k - 1 /\ k - 1 < q - 1 /\ q - 1 <= N
          /\ Between(z.a + 1, k - 1, Digits) /\ Between(k, q - 1, Blanks) /\ At(q) \notin Blanks
          /\ number = ValueOf(line, z.a + 1, k - 1)
      BY <1>3, <2>1, <2>2, <2>3, <3>1, NumberIs
    <3>3. number <= VersionMax
      <4>1. number \in 0 .. VersionMax
        BY <2>4 DEF NoWrap, Limit
      <4> QED
        BY <4>1, DiscoveryAssumption
    <3>4. PICK y : y = [z EXCEPT !.v = k - 1, !.b = q - 1]
      OBVIOUS
    <3>5. y \in Cuts /\ y.a = z.a /\ y.v = k - 1 /\ y.b = q - 1
      BY <3>2, <3>4 DEF Cuts
    <3>6. /\ out' = [version |-> number, port |-> out.port, id |-> out.id, name |-> out.name]
          /\ at' = "port"
      BY <1>2, <2>3, <2>4, FieldSet
    <3>7. out'.version = number
      BY <3>6
    <3>8. PastVersion(y)'
      <4>1. /\ y.a < y.v /\ y.v < y.b /\ y.b <= N
            /\ number = ValueOf(line, y.a + 1, y.v) /\ number <= VersionMax
        BY <3>2, <3>3, <3>5
      <4>2. Between(1, y.a, Blanks) /\ Between(y.a + 1, y.v, Digits) /\ Between(y.v + 1, y.b, Blanks)
        BY <3>1, <3>2, <3>5
      <4>3. Between(1, y.a, Blanks)' /\ Between(y.a + 1, y.v, Digits)' /\ Between(y.v + 1, y.b, Blanks)'
        BY <2>3, <4>2, SameLine
      <4> QED
        BY <2>3, <3>7, <4>1, <4>3 DEF PastVersion
    <3>9. At(p)' \notin Blanks
      BY <2>3, <3>2 DEF At
    <3>10. Reached(y)'
      BY <2>3, <3>2, <3>5, <3>6, <3>8, <3>9 DEF Reached
    <3> QED
      BY <2>3, <3>5, <3>6, <3>10 DEF Found, Shaped
  <2>5. CASE at = "port digits"
    <3>1. PastVersion(z) /\ DigitsFrom(z.b)
      BY <1>1, <2>5 DEF Reached
    <3>2. /\ k - 1 \in Nat /\ q - 1 \in Nat /\ (k - 1) + 1 = k /\ (q - 1) + 1 = q
          /\ z.b < k - 1 /\ k - 1 < q - 1 /\ q - 1 <= N
          /\ Between(z.b + 1, k - 1, Digits) /\ Between(k, q - 1, Blanks) /\ At(q) \notin Blanks
          /\ number = ValueOf(line, z.b + 1, k - 1)
      BY <1>3, <2>1, <2>2, <2>3, <3>1, NumberIs
    <3>3. number \in 1 .. PortMax
      <4>1. number \in 0 .. PortMax
        BY <2>5 DEF NoWrap, Limit
      <4>2. number # 0
        BY <2>3, <2>5
      <4>3. PortMax \in Nat
        BY DiscoveryAssumption
      <4> QED
        BY <4>1, <4>2, <4>3
    <3>4. PICK y : y = [z EXCEPT !.q = k - 1, !.c = q - 1]
      OBVIOUS
    <3>5. y \in Cuts /\ y.a = z.a /\ y.v = z.v /\ y.b = z.b /\ y.q = k - 1 /\ y.c = q - 1
      BY <3>2, <3>4 DEF Cuts
    <3>6. /\ out' = [version |-> out.version, port |-> number, id |-> out.id, name |-> out.name]
          /\ at' = "id"
      BY <1>2, <2>3, <2>5, FieldSet
    <3>7. out'.port = number /\ out'.version = out.version
      BY <3>6
    <3>8. PastPort(y)'
      <4>1. /\ y.b < y.q /\ y.q < y.c /\ y.c <= N
            /\ number = ValueOf(line, y.b + 1, y.q) /\ number \in 1 .. PortMax
        BY <3>2, <3>3, <3>5
      <4>2. Between(y.b + 1, y.q, Digits) /\ Between(y.q + 1, y.c, Blanks)
        BY <3>2, <3>5
      <4>3. Between(y.b + 1, y.q, Digits)' /\ Between(y.q + 1, y.c, Blanks)'
        BY <2>3, <4>2, SameLine
      <4> QED
        BY <2>3, <3>7, <4>1, <4>3 DEF PastPort
    <3>9. PastVersion(y)'
      BY <2>3, <3>1, <3>5, <3>7, StaysPast
    <3>10. Reached(y)'
      BY <2>3, <3>2, <3>5, <3>6, <3>8, <3>9 DEF Reached
    <3> QED
      BY <2>3, <3>5, <3>6, <3>10 DEF Found, Shaped
  <2> QED
    BY <2>3, <2>4, <2>5
<1>9. CASE Id /\ ~ Refuse
  <2>1. PICK k : k = p
    OBVIOUS
  <2>2. PICK q : q = SkipTo(k, Blanks \union LineEnds)
    OBVIOUS
  <2>3. PICK r : r = SkipOver(q, Blanks)
    OBVIOUS
  <2>4. /\ at = "id" /\ q # k /\ ~ (q - k >= IdSize) /\ At(q) \in Blanks
        /\ out' = [out EXCEPT !.id = SubSeq(line, k, q - 1)]
        /\ p' = r /\ at' = "name" /\ line' = line
    BY <1>9, <2>1, <2>2, <2>3 DEF Id
  <2>5. PastVersion(z) /\ PastPort(z) /\ k = z.c + 1
    BY <1>1, <2>1, <2>4 DEF Reached
  <2>6. k \in 1 .. N + 1
    <3>1. z.c <= N
      BY <2>5 DEF PastPort
    <3> QED
      BY <1>2, <1>3, <2>5, <3>1
  <2>7. q \in k .. N + 1 /\ \A i \in k .. q - 1 : At(i) \notin Blanks \union LineEnds
    BY <2>2, <2>6, SkipToOK
  <2>8. q \in 1 .. N + 1
    BY <2>6, <2>7
  <2>9. r \in q .. N + 1 /\ At(r) \notin Blanks /\ \A i \in q .. r - 1 : At(i) \in Blanks
    BY <2>3, <2>8, EndIsNone, SkipOverOK
  <2>10. r # q
    BY <2>4, <2>9
  <2>11. /\ q - 1 \in Nat /\ r - 1 \in Nat /\ (q - 1) + 1 = q /\ (r - 1) + 1 = r
         /\ z.c < q - 1 /\ q - 1 < r - 1 /\ r - 1 <= N /\ (q - 1) - z.c = q - k
    <3>1. /\ N \in Nat /\ z.c \in Nat /\ k = z.c + 1 /\ q # k /\ r # q
          /\ q \in k .. N + 1 /\ r \in q .. N + 1
      BY <1>2, <1>3, <2>4, <2>5, <2>7, <2>9, <2>10
    <3> HIDE DEF N
    <3> QED
      BY <3>1
  <2>12. PICK y : y = [z EXCEPT !.i = q - 1, !.d = r - 1]
    OBVIOUS
  <2>13. y \in Cuts /\ y.a = z.a /\ y.v = z.v /\ y.b = z.b /\ y.q = z.q /\ y.c = z.c
         /\ y.i = q - 1 /\ y.d = r - 1
    BY <2>11, <2>12 DEF Cuts
  <2>14. out' = [version |-> out.version, port |-> out.port, id |-> SubSeq(line, k, q - 1), name |-> out.name]
    BY <1>2, <2>4, FieldSet
  <2>15. out'.id = SubSeq(line, k, q - 1) /\ out'.version = out.version /\ out'.port = out.port
    BY <2>14
  <2>16. PastId(y)'
    <3>1. IdSize \in Nat
      BY DiscoveryAssumption
    <3>2. (q - 1) - z.c < IdSize
      BY <2>4, <2>7, <2>8, <2>6, <2>11, <3>1
    <3>3. y.c < y.i /\ y.i < y.d /\ y.d <= N /\ y.i - y.c < IdSize
      BY <2>11, <2>13, <3>2
    <3>4. NotIn(y.c + 1, y.i, Blanks \union LineEnds) /\ Between(y.i + 1, y.d, Blanks)
      BY <2>5, <2>7, <2>9, <2>11, <2>13 DEF NotIn, Between
    <3>5. NotIn(y.c + 1, y.i, Blanks \union LineEnds)' /\ Between(y.i + 1, y.d, Blanks)'
      BY <2>4, <3>4, SameLine
    <3>6. At(y.d + 1)' \notin Blanks
      BY <2>4, <2>9, <2>11, <2>13, SameLine
    <3>7. out'.id = SubSeq(line, y.c + 1, y.i)
      BY <2>5, <2>13, <2>15
    <3> QED
      BY <2>4, <3>3, <3>5, <3>6, <3>7 DEF PastId
  <2>17. PastVersion(y)' /\ PastPort(y)'
    BY <2>4, <2>5, <2>13, <2>15, StaysPast
  <2>18. Reached(y)'
    BY <2>4, <2>11, <2>13, <2>16, <2>17 DEF Reached
  <2> QED
    BY <2>4, <2>13, <2>14, <2>18 DEF Found, Shaped
<1>10. CASE Name /\ ~ Refuse
  <2>1. PICK k : k = p
    OBVIOUS
  <2>2. PICK q : q = SkipTo(k, LineEnds)
    OBVIOUS
  <2>3. /\ at = "name" /\ q # k /\ ~ (q - k >= NameSize) /\ At(After(After(q, "\r"), "\n")) = End
        /\ out' = [out EXCEPT !.name = SubSeq(line, k, q - 1)]
        /\ at' = "accepted" /\ line' = line
    BY <1>10, <2>1, <2>2 DEF Name
  <2>4. PastVersion(z) /\ PastPort(z) /\ PastId(z) /\ k = z.d + 1
    BY <1>1, <2>1, <2>3 DEF Reached
  <2>5. k \in 1 .. N + 1
    <3>1. z.d <= N
      BY <2>4 DEF PastId
    <3>2. z.d \in Nat /\ N \in Nat /\ k = z.d + 1
      BY <1>2, <1>3, <2>4
    <3> HIDE DEF N
    <3> QED
      BY <3>1, <3>2
  <2>6. q \in k .. N + 1 /\ At(q) \in LineEnds \union {End} /\ \A i \in k .. q - 1 : At(i) \notin LineEnds
    BY <2>2, <2>5, SkipToOK
  <2>7. /\ q - 1 \in Nat /\ (q - 1) + 1 = q /\ z.d < q - 1 /\ q - 1 <= N /\ (q - 1) - z.d = q - k
    <3>1. N \in Nat /\ z.d \in Nat /\ k = z.d + 1 /\ q # k /\ q \in k .. N + 1
      BY <1>2, <1>3, <2>3, <2>4, <2>6
    <3> HIDE DEF N
    <3> QED
      BY <3>1
  <2>8. PICK y : y = [z EXCEPT !.n = q - 1]
    OBVIOUS
  <2>9. y \in Cuts /\ y.a = z.a /\ y.v = z.v /\ y.b = z.b /\ y.q = z.q /\ y.c = z.c
        /\ y.i = z.i /\ y.d = z.d /\ y.n = q - 1
    BY <2>7, <2>8 DEF Cuts
  <2>10. out' = [version |-> out.version, port |-> out.port, id |-> out.id, name |-> SubSeq(line, k, q - 1)]
    BY <1>2, <2>3, FieldSet
  <2>11. out'.name = SubSeq(line, k, q - 1) /\ out'.version = out.version /\ out'.port = out.port
         /\ out'.id = out.id
    BY <2>10
  <2>12. PastName(y)'
    <3>1. NameSize \in Nat
      BY DiscoveryAssumption
    <3>2. (q - 1) - z.d < NameSize
      BY <2>3, <2>5, <2>6, <2>7, <3>1
    <3>3. y.d < y.n /\ y.n <= N /\ y.n - y.d < NameSize
      BY <2>7, <2>9, <3>2
    <3>4. NotIn(y.d + 1, y.n, LineEnds)
      BY <2>4, <2>6, <2>7, <2>9 DEF NotIn
    <3>5. NotIn(y.d + 1, y.n, LineEnds)'
      BY <2>3, <3>4, SameLine
    <3>6. SubSeq(line, (q - 1) + 1, Len(line)) \in Endings
      BY <2>3, <2>6, <2>7, EndingIs
    <3>7. SubSeq(line, y.n + 1, Len(line)) \in Endings /\ out'.name = SubSeq(line, y.d + 1, y.n)
      BY <2>4, <2>9, <2>11, <3>6
    <3> QED
      BY <2>3, <3>3, <3>5, <3>7 DEF PastName
  <2>13. PastVersion(y)' /\ PastPort(y)' /\ PastId(y)'
    BY <2>3, <2>4, <2>9, <2>11, StaysPast
  <2>14. Reached(y)'
    BY <2>3, <2>12, <2>13 DEF Reached
  <2> QED
    BY <2>3, <2>9, <2>10, <2>14 DEF Found, Shaped
<1>11. NumberStart => at \in {"version", "port"}
  BY DEF NumberStart
<1> QED
  BY <1>4, <1>5, <1>6, <1>7, <1>8, <1>9, <1>10, <1>11 DEF Next, Refuse

(* Every state of the parser of a line: what it has found so far is there, *)
(* and a line that is an announcement is still being followed.             *)
ParserInv ==
  /\ line \in Lines /\ Found
  /\ \A z : Cut(line, z) /\ Proper(Fields(line, z)) => Stands(z)

(* The parser accepts exactly the announcements, for every set of lines    *)
(* and every limit, sizes included: a line is any string, that is any      *)
(* sequence of characters other than the 0 that ends it.                   *)
THEOREM ParserExact ==
  ASSUME \A l \in Lines : Line(l)
  PROVE  Spec => []ParsedRight
<1>1. Init => ParserInv
  <2> SUFFICES ASSUME Init PROVE ParserInv
    OBVIOUS
  <2>1. /\ line \in Lines /\ p = 1 /\ at = "version"
        /\ out = [version |-> 0, port |-> 0, id |-> <<>>, name |-> <<>>]
    BY DEF Init
  <2>2. Shaped
    BY <2>1 DEF Shaped
  <2>3. PICK z : z = [a |-> 0, v |-> 0, b |-> 0, q |-> 0, c |-> 0, i |-> 0, d |-> 0, n |-> 0]
    OBVIOUS
  <2>4. z \in Cuts
    BY <2>3 DEF Cuts
  <2>5. Reached(z) /\ \A y : Stands(y)
    BY <2>1 DEF Reached, Stands
  <2> QED
    BY <2>1, <2>2, <2>4, <2>5 DEF ParserInv, Found
<1>2. ParserInv /\ NoWrap /\ [Next]_vars => ParserInv'
  <2> SUFFICES ASSUME ParserInv, NoWrap, [Next]_vars PROVE ParserInv'
    OBVIOUS
  <2>1. Line(line) /\ line \in Lines
    BY DEF ParserInv
  <2>2. CASE Next
    <3>1. line' = line /\ Found'
      BY <2>1, <2>2, FoundStep DEF ParserInv
    <3>2. ASSUME NEW z, Cut(line, z), Proper(Fields(line, z)) PROVE Stands(z)'
      <4>1. Stands(z)
        BY <3>2 DEF ParserInv
      <4> QED
        BY <2>1, <2>2, <3>2, <4>1, Followed
    <3> QED
      BY <2>1, <3>1, <3>2 DEF ParserInv
  <2>3. CASE UNCHANGED vars
    <3>1. line' = line /\ p' = p /\ at' = at /\ number' = number /\ out' = out
      BY <2>3 DEF vars
    <3>2. Found'
      <4>1. PICK z \in Cuts : Reached(z)
        BY DEF ParserInv, Found
      <4>2. /\ PastVersion(z) => PastVersion(z)'
            /\ PastPort(z) => PastPort(z)'
            /\ PastId(z) => PastId(z)'
            /\ PastName(z) => PastName(z)'
        BY <3>1, StaysPast
      <4>3. \A g : DigitsFrom(g) => DigitsFrom(g)'
        BY <3>1 DEF DigitsFrom, Between, At
      <4>4. Between(1, z.a, Blanks) => Between(1, z.a, Blanks)'
        BY <3>1, SameLine
      <4>5. At(p)' = At(p)
        BY <3>1 DEF At
      <4>6. Reached(z)'
        BY <3>1, <4>1, <4>2, <4>3, <4>4, <4>5 DEF Reached
      <4> QED
        BY <3>1, <4>6 DEF ParserInv, Found, Shaped
    <3>3. \A z : Stands(z) => Stands(z)'
      BY <3>1 DEF Stands
    <3> QED
      BY <3>1, <3>2, <3>3 DEF ParserInv
  <2> QED
    BY <2>2, <2>3
<1>3. ParserInv => ParsedRight
  <2> SUFFICES ASSUME ParserInv PROVE ParsedRight
    OBVIOUS
  <2>1. Line(line)
    BY DEF ParserInv
  <2>2. ASSUME at = "accepted" PROVE IsAnnouncement(LAMBDA o : Proper(o) /\ o = out)
    <3>1. PICK z \in Cuts : Reached(z)
      BY DEF ParserInv, Found
    <3>2. PastVersion(z) /\ PastPort(z) /\ PastId(z) /\ PastName(z)
      BY <2>2, <3>1 DEF Reached
    <3>3. Cut(line, z) /\ Proper(Fields(line, z)) /\ Fields(line, z) = out
      BY <2>1, <3>2, FoundIs DEF ParserInv, Found
    <3> QED
      BY <2>1, <3>3, AnnouncementIs
  <2>3. ASSUME at = "refused", IsAnnouncement(Proper) PROVE FALSE
    <3>1. PICK z : Cut(line, z) /\ Proper(Fields(line, z))
      BY <2>1, <2>3, AnnouncementIs
    <3>2. Stands(z)
      BY <3>1 DEF ParserInv
    <3> QED
      BY <2>3, <3>2 DEF Stands
  <2> QED
    BY <2>2, <2>3 DEF ParsedRight
<1>4. Spec => []NoWrap
  BY NumberNeverWraps
<1> QED
  BY <1>1, <1>2, <1>3, <1>4, PTL DEF Spec

-----------------------------------------------------------------------------
(* The Tcl binding.                                                        *)

(* An entry is made when its connection is reported Connected, and goes    *)
(* when that connection does: between the two it has the name it was       *)
(* entered under.                                                          *)
TclInv ==
  /\ app_table \in [Names -> Clients \union {Tcl!None}]
  /\ st \in [Clients -> {"none", "open", "named", "connected"}]
  /\ name \in [Clients -> Names \union {Tcl!None}]
  /\ \A c \in Clients : st[c] = "named" => name[c] \in Names
  /\ run.at = "app" => run.c \in Clients
  /\ \A n \in Names : app_table[n] # Tcl!None =>
       st[app_table[n]] = "connected" /\ name[app_table[n]] = n

LEMMA TclStep ==
  ASSUME Tcl!None \notin Clients \union Names, TclInv, [Tcl!Next]_(Tcl!vars)
  PROVE  TclInv'
<1> USE DEF TclInv
<1>1. CASE Tcl!IvyInitCmd
  BY <1>1 DEF Tcl!IvyInitCmd, Tcl!connVars
<1>2. CASE Tcl!IvyBindCmd \/ Tcl!IvyUnbindCmd \/ Tcl!IvyBindDirectCmd
  BY <1>2 DEF Tcl!IvyBindCmd, Tcl!IvyUnbindCmd, Tcl!IvyBindDirectCmd, Tcl!connVars
<1>3. CASE Tcl!AppCBReturn
  <2>1. /\ run.at = "app" /\ app_table' = Tcl!EntryDeleted(run.c) /\ run' = Tcl!Idle
        /\ \/ run.event = "Disconnected" /\ st' = [st EXCEPT ![run.c] = "none"]
                                         /\ name' = [name EXCEPT ![run.c] = Tcl!None]
           \/ run.event # "Disconnected" /\ UNCHANGED <<st, name>>
    BY <1>3 DEF Tcl!AppCBReturn
  <2>2. run'.at # "app"
    BY <2>1 DEF Tcl!Idle
  <2>3. CASE run.event # "Disconnected"
    BY <2>1, <2>2, <2>3 DEF Tcl!EntryDeleted
  <2>4. CASE run.event = "Disconnected"
    <3> DEFINE c == run.c
    <3>1. c \in Clients
      BY <2>1
    <3>2. /\ st' = [st EXCEPT ![c] = "none"] /\ name' = [name EXCEPT ![c] = Tcl!None]
          /\ app_table' = IF name[c] = Tcl!None THEN app_table
                          ELSE [app_table EXCEPT ![name[c]] = Tcl!None]
      BY <2>1, <2>4 DEF Tcl!EntryDeleted
    <3> HIDE DEF c
    <3>3. \A n \in Names : app_table[n] = c => name[c] = n
      BY <3>1
    <3>4. \A n \in Names : app_table'[n] # c
      BY <3>1, <3>2, <3>3
    <3>5. \A n \in Names : app_table'[n] # Tcl!None => app_table'[n] = app_table[n]
      BY <3>2
    <3>6. /\ app_table' \in [Names -> Clients \union {Tcl!None}]
          /\ st' \in [Clients -> {"none", "open", "named", "connected"}]
          /\ name' \in [Clients -> Names \union {Tcl!None}]
          /\ \A d \in Clients : st'[d] = "named" => name'[d] \in Names
      BY <3>1, <3>2
    <3>7. ASSUME NEW n \in Names, app_table'[n] # Tcl!None
          PROVE  st'[app_table'[n]] = "connected" /\ name'[app_table'[n]] = n
      <4>1. app_table'[n] \in Clients /\ app_table'[n] # c /\ app_table'[n] = app_table[n]
        BY <3>4, <3>5, <3>6, <3>7
      <4> QED
        BY <3>2, <3>7, <4>1
    <3> QED
      BY <2>2, <3>6, <3>7
  <2> QED
    BY <2>3, <2>4
<1>4. CASE Tcl!ScriptReturn
  BY <1>4 DEF Tcl!ScriptReturn, Tcl!tclVars, Tcl!connVars, Tcl!Idle
<1>5. ASSUME NEW c \in Clients, Tcl!Connection(c)
      PROVE  TclInv'
  <2>1. PICK n \in Names \union {Tcl!None} : name' = [name EXCEPT ![c] = n]
    BY <1>5 DEF Tcl!Connection
  <2>2. /\ st[c] = "none" /\ st' = [st EXCEPT ![c] = "open"]
        /\ UNCHANGED <<app_table, run>>
    BY <1>5 DEF Tcl!Connection, Tcl!tclVars
  <2> QED
    BY <2>1, <2>2
<1>6. ASSUME NEW c \in Clients, NEW n \in Names, Tcl!StartRegexp(c, n)
      PROVE  TclInv'
  <2>1. /\ st[c] = "open" /\ st' = [st EXCEPT ![c] = "named"]
        /\ name' = [name EXCEPT ![c] = n] /\ UNCHANGED <<app_table, run>>
    BY <1>6 DEF Tcl!StartRegexp, Tcl!tclVars
  <2> QED
    BY <2>1
<1>7. ASSUME NEW c \in Clients, NEW e, Tcl!IvyAppCB(c, e)
      PROVE  TclInv'
  <2>1. /\ app_table' = IF e = "Connected" THEN Tcl!Entered(c) ELSE app_table
        /\ st' = [st EXCEPT ![c] = IF e = "Connected" THEN "connected" ELSE @]
        /\ run'.c = c /\ name' = name
        /\ e = "Connected" => st[c] = "named"
    BY <1>7 DEF Tcl!IvyAppCB, Tcl!Happens
  <2>2. CASE e # "Connected"
    <3>1. app_table' = app_table /\ st' = st
      BY <2>1, <2>2
    <3> QED
      BY <2>1, <3>1
  <2>3. CASE e = "Connected"
    <3>1. /\ app_table' = [app_table EXCEPT ![name[c]] = IF @ = Tcl!None THEN c ELSE @]
          /\ st' = [st EXCEPT ![c] = "connected"] /\ name[c] \in Names
      BY <2>1, <2>3 DEF Tcl!Entered
    <3>2. /\ app_table' \in [Names -> Clients \union {Tcl!None}]
          /\ st' \in [Clients -> {"none", "open", "named", "connected"}]
          /\ \A d \in Clients : st'[d] = "named" => name'[d] \in Names
      BY <2>1, <3>1
    <3>3. ASSUME NEW n \in Names, app_table'[n] # Tcl!None
          PROVE  st'[app_table'[n]] = "connected" /\ name'[app_table'[n]] = n
      BY <2>1, <3>1, <3>2, <3>3
    <3> QED
      BY <2>1, <3>2, <3>3
  <2> QED
    BY <2>2, <2>3
<1>8. ASSUME NEW c \in Clients,
             Tcl!IvyDirectMsgCB(c) \/ Tcl!IvyDieCB(c) \/ \E k \in filter_table : Tcl!IvyMsgCB(c, k)
      PROVE  TclInv'
  BY <1>8 DEF Tcl!IvyDirectMsgCB, Tcl!IvyDieCB, Tcl!IvyMsgCB, Tcl!tclVars, Tcl!connVars
<1>9. CASE Tcl!IvyCleanup \/ UNCHANGED Tcl!vars
  BY <1>9 DEF Tcl!IvyCleanup, Tcl!vars, Tcl!tclVars, Tcl!connVars
<1> QED
  BY <1>1, <1>2, <1>3, <1>4, <1>5, <1>6, <1>7, <1>8, <1>9 DEF Tcl!Next

(* Whatever Ivy::apphost, Ivy::appmsgs or Ivy::senddirect find in app_table *)
(* under a name is a connection of that name whose record is not freed, in *)
(* the main script and in the scripts of callbacks, for any number of      *)
(* connections and names, shared ones included, if each peer sends one     *)
(* StartRegexp (SendService).  NULL is not a record and not a name.        *)
THEOREM LookupsStayLive ==
  ASSUME Tcl!None \notin Clients \union Names
  PROVE  Tcl!Spec => []LookupLive
<1>1. Tcl!Init => TclInv
  BY DEF Tcl!Init, TclInv, Tcl!Idle
<1>2. TclInv /\ [Tcl!Next]_(Tcl!vars) => TclInv'
  BY TclStep
<1>3. TclInv => LookupLive
  BY DEF TclInv, LookupLive, Tcl!LookupLive, Tcl!Lookup, Tcl!IvyApplicationListCmd
<1> QED
  BY <1>1, <1>2, <1>3, PTL DEF Tcl!Spec

-----------------------------------------------------------------------------
(* The loops of the toolkits.                                              *)

(* Until an exceptional condition has called handle_delete, the channel of *)
(* a freed client has none of the sources that IvyChannelRemove takes      *)
(* back.  Inside handle_delete it may have any: the callback that runs     *)
(* there may ask for the writable event, which in Tcl is to create the     *)
(* handler again.  So the client must still be live there, and what frees  *)
(* it is the step that takes the sources back.                             *)
ToolkitTypes ==
  /\ cl \in [Conns -> {"unused", "live", "freed"}]
  /\ src \in [Conns -> SUBSET {"read", "write", "except"}]
  /\ del # Toolkit!NoDel => del.c \in Conns /\ cl[del.c] = "live"
FreedSilent ==
  ~ forgotten => \A c \in Conns : cl[c] = "freed" => src[c] \cap Toolkit!Removed = {}
ToolkitInv ==
  /\ ToolkitTypes /\ FreedSilent
  /\ undef \in Toolkit!Removed => forgotten

(* Toolkit!Removed depends on what the program is built with, which never  *)
(* changes.                                                                *)
LEMMA RemovedStays == built' = built => Toolkit!Removed' = Toolkit!Removed
  BY DEF Toolkit!Removed

LEMMA NotRemoved ==
  "no" \notin Toolkit!Removed /\ "line" \notin Toolkit!Removed /\ "record" \notin Toolkit!Removed
  BY DEF Toolkit!Removed

(* A handler that runs on a freed client is none that was taken back.      *)
LEMMA DispatchFreed ==
  ASSUME ToolkitInv, NEW c \in Conns, NEW e, Toolkit!Dispatch(c, e), cl[c] = "freed"
  PROVE  e \in Toolkit!Removed => forgotten
<1>1. e \in Toolkit!Events(c)
  BY DEF Toolkit!Dispatch
<1>2. e \in src[c]
  BY <1>1 DEF Toolkit!Events
<1> QED
  BY <1>2 DEF ToolkitInv, FreedSilent

(* Using a freed client leaves all but undef as it is.                     *)
LEMMA TouchedOK ==
  ASSUME ToolkitInv, NEW w, Toolkit!Touched(w), w \in Toolkit!Removed => forgotten,
         built' = built
  PROVE  ToolkitInv'
<1>1. undef' = w /\ UNCHANGED <<cl, src, del, forgotten>> /\ Toolkit!Removed' = Toolkit!Removed
  BY RemovedStays DEF Toolkit!Touched, Toolkit!chanVars
<1> QED
  BY <1>1 DEF ToolkitInv, ToolkitTypes, FreedSilent, Toolkit!NoDel

(* The deletion of a live client begins.                                   *)
LEMMA CloseOK ==
  ASSUME ToolkitInv, NEW c \in Conns, NEW by, cl[c] = "live", Toolkit!Close(c, by),
         built' = built
  PROVE  ToolkitInv'
<1>1. /\ del' = [c |-> c, by |-> by] /\ src' = [src EXCEPT ![c] = @]
      /\ UNCHANGED <<cl, forgotten, undef>> /\ Toolkit!Removed' = Toolkit!Removed
  BY RemovedStays DEF Toolkit!Close, Toolkit!IvyChannelRemove
<1>2. del'.c = c /\ src' = src
  BY <1>1 DEF ToolkitInv, ToolkitTypes
<1> QED
  BY <1>1, <1>2 DEF ToolkitInv, ToolkitTypes, FreedSilent

(* A step that frees nobody and gives sources to a live client only.       *)
LEMMA SourcesOK ==
  ASSUME ToolkitInv, NEW c \in Conns, NEW S \in SUBSET {"read", "write", "except"},
         cl[c] = "live", src' = [src EXCEPT ![c] = S],
         UNCHANGED <<cl, del, forgotten, undef, built>>
  PROVE  ToolkitInv'
<1>1. Toolkit!Removed' = Toolkit!Removed
  BY RemovedStays
<1> QED
  BY <1>1 DEF ToolkitInv, ToolkitTypes, FreedSilent, Toolkit!NoDel

LEMMA UnchangedOK ==
  ASSUME ToolkitInv, UNCHANGED <<cl, src, del, forgotten, undef, built>>
  PROVE  ToolkitInv'
<1>1. Toolkit!Removed' = Toolkit!Removed
  BY RemovedStays
<1> QED
  BY <1>1 DEF ToolkitInv, ToolkitTypes, FreedSilent, Toolkit!NoDel

LEMMA DeletedOK ==
  ASSUME ToolkitInv, Toolkit!Deleted, built' = built
  PROVE  ToolkitInv'
<1> DEFINE c == del.c
<1>1. /\ del # Toolkit!NoDel /\ c \in Conns /\ del' = Toolkit!NoDel
      /\ cl' = [cl EXCEPT ![c] = "freed"]
      /\ src' = [src EXCEPT ![c] = IF del.by = "event" THEN @ ELSE Toolkit!IvyChannelRemove(c, TRUE)]
      /\ forgotten' = (forgotten \/ del.by = "event")
      /\ undef' = "record" \/ undef' = "no"
      /\ Toolkit!Removed' = Toolkit!Removed
  BY RemovedStays DEF Toolkit!Deleted, ToolkitInv, ToolkitTypes
<1>2. /\ Toolkit!IvyChannelRemove(c, TRUE) \in SUBSET {"read", "write", "except"}
      /\ Toolkit!IvyChannelRemove(c, TRUE) \cap Toolkit!Removed = {}
  BY <1>1 DEF Toolkit!IvyChannelRemove, Toolkit!Removed, ToolkitInv, ToolkitTypes
<1> HIDE DEF c
<1>3. ToolkitTypes'
  BY <1>1, <1>2 DEF ToolkitInv, ToolkitTypes, Toolkit!NoDel
<1>4. FreedSilent'
  <2> SUFFICES ASSUME ~ forgotten', NEW d \in Conns
               PROVE  cl'[d] = "freed" => src'[d] \cap Toolkit!Removed = {}
    BY <1>1 DEF FreedSilent
  <2>1. del.by # "event" /\ ~ forgotten
    BY <1>1
  <2>2. src' = [src EXCEPT ![c] = Toolkit!IvyChannelRemove(c, TRUE)]
    BY <1>1, <2>1
  <2>3. CASE d = c
    BY <1>1, <1>2, <2>2, <2>3 DEF ToolkitInv, ToolkitTypes
  <2>4. CASE d # c
    BY <1>1, <2>1, <2>2, <2>4 DEF ToolkitInv, ToolkitTypes, FreedSilent
  <2> QED
    BY <2>3, <2>4
<1> QED
  BY <1>1, <1>3, <1>4, NotRemoved DEF ToolkitInv

(* The line loop runs for a client.                                        *)
HandlerOK ==
  /\ handler \in [at : {"idle", "lines"}, c : Conns \union {Toolkit!None}, left : Int]
  /\ handler.at = "lines" => handler.c \in Conns

LEMMA HandlerStep ==
  ASSUME HandlerOK, [Toolkit!Next]_(Toolkit!vars)
  PROVE  HandlerOK'
<1>1. CASE handler' = handler
  BY <1>1 DEF HandlerOK
<1>2. CASE handler' = Toolkit!Idle
  BY <1>2 DEF HandlerOK, Toolkit!Idle
<1>3. ASSUME NEW c \in Conns, NEW n \in 0 .. MaxLines, handler' = [at |-> "lines", c |-> c, left |-> n]
      PROVE  HandlerOK'
  BY <1>3 DEF HandlerOK
<1>4. CASE handler' = [handler EXCEPT !.left = @ - 1]
  BY <1>4 DEF HandlerOK
<1>5. CASE Toolkit!Interpret \/ Toolkit!LinesEnd \/ Toolkit!Deleted
  BY <1>1, <1>2, <1>4, <1>5
     DEF Toolkit!Interpret, Toolkit!LinesEnd, Toolkit!Deleted, Toolkit!Touched
<1>6. ASSUME NEW c \in Conns, Toolkit!HandleSocket(c) PROVE HandlerOK'
  BY <1>1, <1>3, <1>6 DEF Toolkit!HandleSocket, Toolkit!Touched
<1>7. ASSUME NEW c \in Conns,
             \/ Toolkit!IvyChannelAdd(c) \/ Toolkit!Congests(c)
             \/ Toolkit!HandleCongestionWrite(c) \/ Toolkit!HandleChannelDelete(c)
             \/ Toolkit!PeerSends(c) \/ Toolkit!PeerReads(c) \/ Toolkit!PeerCloses(c) \/ Toolkit!PeerUrgent(c)
      PROVE  HandlerOK'
  BY <1>1, <1>7
     DEF Toolkit!IvyChannelAdd, Toolkit!Congests, Toolkit!HandleCongestionWrite,
         Toolkit!HandleChannelDelete, Toolkit!PeerSends, Toolkit!PeerReads, Toolkit!PeerCloses,
         Toolkit!PeerUrgent, Toolkit!Outside, Toolkit!Touched
<1>8. CASE UNCHANGED Toolkit!vars
  BY <1>1, <1>8 DEF Toolkit!vars, Toolkit!loopVars
<1> QED
  BY <1>5, <1>6, <1>7, <1>8 DEF Toolkit!Next, Toolkit!Step

LEMMA ToolkitStep ==
  ASSUME HandlerOK, ToolkitInv, [Toolkit!Next]_(Toolkit!vars)
  PROVE  ToolkitInv'
<1>1. built' = built
  BY DEF Toolkit!Next, Toolkit!vars
<1>2. ASSUME NEW c \in Conns, Toolkit!IvyChannelAdd(c) PROVE ToolkitInv'
  <2>1. /\ cl[c] = "unused" /\ cl' = [cl EXCEPT ![c] = "live"]
        /\ src' = [src EXCEPT ![c] = {"read", "except"}]
        /\ UNCHANGED <<del, forgotten, undef>> /\ Toolkit!Removed' = Toolkit!Removed
    BY <1>1, <1>2, RemovedStays DEF Toolkit!IvyChannelAdd
  <2> QED
    BY <2>1 DEF ToolkitInv, ToolkitTypes, FreedSilent, Toolkit!NoDel
<1>3. ASSUME NEW c \in Conns, Toolkit!Congests(c) PROVE ToolkitInv'
  <2> DEFINE S == src[c] \union (IF built = "tcl" THEN {"read", "except"} ELSE {}) \union {"write"}
  <2>1. cl[c] = "live" /\ src' = [src EXCEPT ![c] = S] /\ UNCHANGED <<cl, del, forgotten, undef>>
    BY <1>3 DEF Toolkit!Congests, Toolkit!IvyChannelAddWritableEvent
  <2>2. S \in SUBSET {"read", "write", "except"}
    BY DEF ToolkitInv, ToolkitTypes
  <2> HIDE DEF S
  <2> QED
    BY <1>1, <2>1, <2>2, SourcesOK
<1>4. ASSUME NEW c \in Conns, Toolkit!HandleSocket(c) PROVE ToolkitInv'
  <2>1. CASE cl[c] = "freed" /\ Toolkit!Touched("read")
    BY <1>1, <1>4, <2>1, DispatchFreed, TouchedOK DEF Toolkit!HandleSocket
  <2>2. CASE UNCHANGED <<cl, src, del, forgotten, undef>>
    BY <1>1, <2>2, UnchangedOK
  <2>3. CASE cl[c] = "live" /\ Toolkit!Close(c, "remove")
    BY <1>1, <2>3, CloseOK
  <2> QED
    BY <1>4, <2>1, <2>2, <2>3 DEF Toolkit!HandleSocket, Toolkit!chanVars
<1>5. CASE Toolkit!Interpret
  <2>1. CASE Toolkit!Touched("line")
    BY <1>1, <2>1, TouchedOK, NotRemoved
  <2>2. CASE UNCHANGED <<cl, src, del, forgotten, undef>>
    BY <1>1, <2>2, UnchangedOK
  <2>3. CASE cl[handler.c] = "live" /\ Toolkit!Close(handler.c, "remove")
    <3>1. handler.c \in Conns
      BY <1>5 DEF Toolkit!Interpret, HandlerOK
    <3> QED
      BY <1>1, <2>3, <3>1, CloseOK
  <2>4. ASSUME NEW t \in Conns, cl[t] = "live", Toolkit!Close(t, "record") PROVE ToolkitInv'
    BY <1>1, <2>4, CloseOK
  <2> QED
    BY <1>5, <2>1, <2>2, <2>3, <2>4 DEF Toolkit!Interpret, Toolkit!chanVars
<1>6. CASE Toolkit!LinesEnd
  BY <1>1, <1>6, UnchangedOK DEF Toolkit!LinesEnd, Toolkit!chanVars
<1>7. ASSUME NEW c \in Conns, Toolkit!HandleCongestionWrite(c) PROVE ToolkitInv'
  <2>1. CASE cl[c] = "freed" /\ Toolkit!Touched("write")
    BY <1>1, <1>7, <2>1, DispatchFreed, TouchedOK DEF Toolkit!HandleCongestionWrite
  <2>2. CASE cl[c] = "live" /\ Toolkit!Close(c, "remove")
    BY <1>1, <2>2, CloseOK
  <2>3. CASE UNCHANGED <<cl, src, del, forgotten, undef>>
    BY <1>1, <2>3, UnchangedOK
  <2>4. CASE /\ cl[c] = "live" /\ Toolkit!IvyChannelClearWritableEvent(c)
             /\ UNCHANGED <<cl, del, forgotten, undef>>
    <3> DEFINE S == IF built = "tcl" THEN {"read", "except"} ELSE src[c] \ {"write"}
    <3>1. src' = [src EXCEPT ![c] = S] /\ S \in SUBSET {"read", "write", "except"}
      BY <2>4 DEF Toolkit!IvyChannelClearWritableEvent, ToolkitInv, ToolkitTypes
    <3> HIDE DEF S
    <3> QED
      BY <1>1, <2>4, <3>1, SourcesOK
  <2> QED
    BY <1>7, <2>1, <2>2, <2>3, <2>4 DEF Toolkit!HandleCongestionWrite
<1>8. ASSUME NEW c \in Conns, Toolkit!HandleChannelDelete(c) PROVE ToolkitInv'
  <2>1. CASE cl[c] = "freed" /\ Toolkit!Touched("except")
    BY <1>1, <1>8, <2>1, DispatchFreed, TouchedOK DEF Toolkit!HandleChannelDelete
  <2>2. CASE cl[c] = "live" /\ Toolkit!Close(c, "event")
    BY <1>1, <2>2, CloseOK
  <2> QED
    BY <1>8, <2>1, <2>2 DEF Toolkit!HandleChannelDelete
<1>9. ASSUME NEW c \in Conns,
             Toolkit!PeerSends(c) \/ Toolkit!PeerReads(c) \/ Toolkit!PeerCloses(c) \/ Toolkit!PeerUrgent(c)
      PROVE  ToolkitInv'
  <2>1. UNCHANGED <<cl, src, del, forgotten, undef>>
    BY <1>9 DEF Toolkit!PeerSends, Toolkit!PeerReads, Toolkit!PeerCloses, Toolkit!PeerUrgent,
                Toolkit!Outside, Toolkit!chanVars
  <2> QED
    BY <1>1, <2>1, UnchangedOK
<1>10. CASE Toolkit!Deleted
  BY <1>1, <1>10, DeletedOK
<1>11. CASE UNCHANGED Toolkit!vars
  BY <1>11, UnchangedOK DEF Toolkit!vars, Toolkit!loopVars, Toolkit!chanVars
<1> QED
  BY <1>2, <1>3, <1>4, <1>5, <1>6, <1>7, <1>8, <1>9, <1>10, <1>11 DEF Toolkit!Next, Toolkit!Step

(* Built with the loop of GLib, Xt or Tcl, no handler that IvyChannelRemove *)
(* takes back is called for a freed client, for any number of connections  *)
(* and of lines: although handle_delete runs first, and with it a callback *)
(* of the program that may register the handler again, although lines      *)
(* close their own and other connections, and although the numbers of      *)
(* descriptors are given again.  An exceptional condition ends this: it    *)
(* calls handle_delete and leaves every handler.                           *)
THEOREM RemovedStaysSilent == Toolkit!Spec => []RemovedSilent
<1>1. Toolkit!Init => HandlerOK /\ ToolkitInv
  BY NotRemoved DEF Toolkit!Init, HandlerOK, Toolkit!Idle, ToolkitInv, ToolkitTypes, FreedSilent
<1>2. HandlerOK /\ ToolkitInv /\ [Toolkit!Next]_(Toolkit!vars) => HandlerOK' /\ ToolkitInv'
  BY HandlerStep, ToolkitStep
<1>3. ToolkitInv => RemovedSilent
  BY DEF ToolkitInv, RemovedSilent, Toolkit!RemovedSilent
<1> QED
  BY <1>1, <1>2, <1>3, PTL DEF Toolkit!Spec

-----------------------------------------------------------------------------
(* ivyprobe.                                                               *)

(* Only the first call of a round is sure to find what select reported:    *)
(* each call makes todo smaller than the number of channels, and those are *)
(* never taken away before ivyprobe stops.                                 *)
ProbeInv ==
  /\ stdins \in Nat /\ todo \in 0 .. stdins
  /\ kern \in Seq(Kinds)
  /\ mode \in {"run", "blocked"} /\ todo > 0 /\ todo = stdins => kern # <<>> \/ eof
  /\ mode = "blocked" => todo > 0 /\ todo < stdins

LEMMA ProbeStep ==
  ASSUME ProbeInv, [Probe!Next]_(Probe!vars)
  PROVE  ProbeInv'
<1>1. ASSUME NEW c \in Apps, Probe!Connected(c) PROVE ProbeInv'
  <2>1. /\ mode = "run" /\ (stdins' = stdins + 1 \/ stdins' = stdins)
        /\ UNCHANGED <<todo, kern, eof, mode>>
    BY <1>1 DEF Probe!Connected, Probe!inVars
  <2> QED
    BY <2>1 DEF ProbeInv
<1>2. ASSUME NEW c \in Apps, Probe!Disconnected(c) \/ \E n \in Names : Probe!Connection(c, n)
      PROVE  ProbeInv'
  BY <1>2 DEF Probe!Disconnected, Probe!Connection, Probe!inVars, ProbeInv
<1>3. ASSUME NEW k \in Kinds, Probe!Type(k) PROVE ProbeInv'
  <2>1. kern' = Append(kern, k) /\ UNCHANGED <<stdins, todo, eof, mode>>
    BY <1>3 DEF Probe!Type
  <2>2. kern' \in Seq(Kinds) /\ kern' # <<>>
    BY <2>1 DEF ProbeInv
  <2> QED
    BY <2>1, <2>2 DEF ProbeInv
<1>4. CASE Probe!CloseInput
  BY <1>4 DEF Probe!CloseInput, ProbeInv
<1>5. CASE Probe!StdinReady
  <2>1. /\ mode = "run" /\ todo' = stdins /\ stdins > 0 /\ (kern # <<>> \/ eof)
        /\ UNCHANGED <<stdins, kern, eof, mode>>
    BY <1>5 DEF Probe!StdinReady, Probe!inVars
  <2> QED
    BY <2>1 DEF ProbeInv
(* A line was handled: the round has one call less to make. *)
<1>6. ASSUME NEW k, Probe!Handle(k), todo > 0, kern' \in Seq(Kinds) PROVE ProbeInv'
  <2>1. /\ todo' = todo - 1 /\ mode' \in {"exited", "run"} /\ stdins' = stdins
    BY <1>6 DEF Probe!Handle
  <2> QED
    BY <1>6, <2>1 DEF ProbeInv
<1>7. CASE Probe!HandleBuffered
  <2>1. kern' \in Seq(Kinds)
    BY <1>7 DEF Probe!HandleBuffered, ProbeInv
  <2> QED
    BY <1>6, <1>7, <2>1 DEF Probe!HandleBuffered
<1>8. CASE Probe!HandleRead
  <2>1. PICK n \in 1 .. Len(kern) : kern' = SubSeq(kern, n + 1, Len(kern))
                                    /\ Probe!Handle(Head(kern))
    BY <1>8 DEF Probe!HandleRead
  <2>2. kern \in Seq(Kinds) /\ n \in 0 .. Len(kern)
    BY DEF ProbeInv
  <2>3. kern' \in Seq(Kinds)
    BY <2>1, <2>2, Halves
  <2> QED
    BY <1>6, <1>8, <2>1, <2>3 DEF Probe!HandleRead
<1>9. CASE Probe!HandleEnd
  <2>1. /\ todo > 0 /\ stdins' = stdins - 1 /\ mode' = "stopped" /\ todo' = 0 /\ kern' = kern
    BY <1>9 DEF Probe!HandleEnd, Probe!inVars
  <2> QED
    BY <2>1 DEF ProbeInv
<1>10. CASE Probe!HandleBlock
  <2>1. /\ mode = "run" /\ todo > 0 /\ kern = <<>> /\ ~ eof
        /\ mode' = "blocked" /\ UNCHANGED <<stdins, todo, kern, eof>>
    BY <1>10 DEF Probe!HandleBlock, Probe!inVars
  <2> QED
    BY <2>1 DEF ProbeInv
<1>11. CASE UNCHANGED Probe!vars
  BY <1>11 DEF Probe!vars, Probe!inVars, ProbeInv
<1> QED
  BY <1>1, <1>2, <1>3, <1>4, <1>5, <1>7, <1>8, <1>9, <1>10, <1>11 DEF Probe!Next, Probe!HandleStdin

(* fgets in HandleStdin blocks the program, and with it the bus, only when *)
(* the callback of Connected has registered a second channel for the       *)
(* standard input, whatever -w says, whatever is typed and however many    *)
(* lines a read() brings.                                                  *)
THEOREM OneChannelNeverBlocks ==
  ASSUME WaitCount \in Nat
  PROVE  Probe!Spec => []BlockedIfTwice
<1>1. Probe!Init => ProbeInv
  BY DEF Probe!Init, ProbeInv
<1>2. ProbeInv /\ [Probe!Next]_(Probe!vars) => ProbeInv'
  BY ProbeStep
<1>3. ProbeInv => BlockedIfTwice
  BY DEF ProbeInv, BlockedIfTwice, Probe!BlockedIfTwice
<1> QED
  BY <1>1, <1>2, <1>3, PTL DEF Probe!Spec

-----------------------------------------------------------------------------
(* Pings.                                                                  *)

(* The record's timestamp, when it is set, is that of the ping whose id it *)
(* has, the last one sent.                                                 *)
PingInv ==
  /\ now \in Nat /\ sentAt \in Seq(Nat)
  /\ ping_timestamp \in [ts : Nat, id : Nat]
  /\ ping_timestamp.id = Len(sentAt) /\ ping_timestamp.ts =< now
  /\ ping_timestamp.ts # 0 => /\ Len(sentAt) > 0
                              /\ sentAt[Len(sentAt)] = ping_timestamp.ts
  /\ calls \in Seq([id : Nat, val : Int]) /\ pings \in Seq(Nat) /\ pongs \in Seq(Nat)

LEMMA RoundTripNat ==
  ASSUME PerSec \in Nat \ {0}, MaxSecs \in Nat, NEW diff \in Nat
  PROVE  Ping!RoundTrip(diff) \in Nat
<1> DEFINE s == diff \div PerSec
           m == IF s < MaxSecs THEN s ELSE MaxSecs
           u == diff % PerSec
<1>1. s \in Nat /\ u \in Nat
  OBVIOUS
<1> HIDE DEF s, u
<1>2. m \in Nat
  BY <1>1
<1> HIDE DEF m
<1>3. m * PerSec + u \in Nat
  BY <1>1, <1>2
<1> QED
  BY <1>3 DEF Ping!RoundTrip, m, s, u

LEMMA PingStep ==
  ASSUME PerSec \in Nat \ {0}, MaxSecs \in Nat, PingInv, [Ping!Next]_(Ping!vars)
  PROVE  /\ PingInv'
         /\ calls' # calls /\ Ping!LastCall.val > 0 =>
              Ping!LastCall.val = Ping!RoundTrip(now - sentAt[Ping!LastCall.id])
<1>1. CASE Ping!IvySendPing
  <2>1. /\ ping_timestamp' = [ts |-> now, id |-> ping_timestamp.id + 1]
        /\ pings' = Append(pings, ping_timestamp.id + 1)
        /\ sentAt' = Append(sentAt, now) /\ UNCHANGED <<now, pongs, calls>>
    BY <1>1 DEF Ping!IvySendPing
  <2>2. /\ sentAt' \in Seq(Nat) /\ Len(sentAt') = Len(sentAt) + 1
        /\ sentAt'[Len(sentAt) + 1] = now
    BY <2>1, AppendProperties DEF PingInv
  <2>3. Len(sentAt) \in Nat
    BY LenProperties DEF PingInv
  <2>4. ping_timestamp.id + 1 \in Nat /\ pings' \in Seq(Nat)
    BY <2>1 DEF PingInv
  <2> QED
    BY <2>1, <2>2, <2>3, <2>4 DEF PingInv
<1>2. CASE Ping!ReceivePing
  <2>1. /\ pings # <<>> /\ pings' = Tail(pings) /\ pongs' = Append(pongs, Head(pings))
        /\ UNCHANGED <<now, ping_timestamp, sentAt, calls>>
    BY <1>2 DEF Ping!ReceivePing
  <2>2. Head(pings) \in Nat /\ pings' \in Seq(Nat)
    BY <2>1, HeadTailProperties DEF PingInv
  <2>3. pongs' \in Seq(Nat)
    BY <2>1, <2>2 DEF PingInv
  <2> QED
    BY <2>1, <2>2, <2>3 DEF PingInv
<1>3. CASE Ping!ReceivePong
  <2> DEFINE v == Ping!RoundTrip(now - ping_timestamp.ts)
             x == Head(pongs)
             w == IF x # ping_timestamp.id THEN -v ELSE v
             call == [id |-> x, val |-> w]
  <2>1. /\ pongs # <<>> /\ pongs' = Tail(pongs)
        /\ calls' = IF ping_timestamp.ts = 0 THEN calls ELSE Append(calls, call)
        /\ ping_timestamp' = [ping_timestamp EXCEPT !.ts = 0]
        /\ UNCHANGED <<now, pings, sentAt>>
    BY <1>3 DEF Ping!ReceivePong
  <2>2. now - ping_timestamp.ts \in Nat
    BY DEF PingInv
  <2>3. v \in Nat
    BY <2>2, RoundTripNat
  <2>4. x \in Nat /\ pongs' \in Seq(Nat)
    BY <2>1, HeadTailProperties DEF PingInv
  <2> HIDE DEF v, x
  <2>5. w \in Int /\ (w > 0 => x = ping_timestamp.id /\ w = v)
    BY <2>3
  <2> HIDE DEF w
  <2>6. call \in [id : Nat, val : Int] /\ call.id = x /\ call.val = w
    BY <2>4, <2>5
  <2> HIDE DEF call
  <2>7. calls \in Seq([id : Nat, val : Int])
    BY DEF PingInv
  <2>8. /\ Append(calls, call) \in Seq([id : Nat, val : Int])
        /\ Append(calls, call)[Len(Append(calls, call))] = call
    <3>1. /\ Append(calls, call) \in Seq([id : Nat, val : Int])
          /\ Len(Append(calls, call)) = Len(calls) + 1
          /\ Append(calls, call)[Len(calls) + 1] = call
      BY <2>6, <2>7, AppendProperties
    <3> QED
      BY <3>1
  <2>9. PingInv'
    <3>1. ping_timestamp' \in [ts : Nat, id : Nat] /\ ping_timestamp'.ts = 0
          /\ ping_timestamp'.id = ping_timestamp.id
      BY <2>1 DEF PingInv
    <3>2. calls' \in Seq([id : Nat, val : Int])
      BY <2>1, <2>7, <2>8
    <3> QED
      BY <2>1, <2>4, <3>1, <3>2 DEF PingInv
  <2>10. ASSUME calls' # calls, Ping!LastCall.val > 0
         PROVE  Ping!LastCall.val = Ping!RoundTrip(now - sentAt[Ping!LastCall.id])
    <3>1. ping_timestamp.ts # 0 /\ Ping!LastCall = call
      BY <2>1, <2>8, <2>10 DEF Ping!LastCall
    <3>2. x = Len(sentAt) /\ w = v
      BY <2>5, <2>6, <2>10, <3>1 DEF PingInv
    <3>3. sentAt[x] = ping_timestamp.ts
      BY <3>1, <3>2 DEF PingInv
    <3> QED
      BY <2>6, <3>1, <3>2, <3>3 DEF v
  <2> QED
    BY <2>9, <2>10
<1>4. CASE Ping!Tick
  BY <1>4 DEF Ping!Tick, PingInv
<1>5. CASE UNCHANGED Ping!vars
  BY <1>5 DEF Ping!vars, PingInv
<1> QED
  BY <1>1, <1>2, <1>3, <1>4, <1>5 DEF Ping!Next

(* A positive value that IvySendPing's callback gets is the round trip of  *)
(* the very ping the pong answers, capped at MaxSecs seconds, however many *)
(* pings are on their way (the Pong case of Receive).                      *)
THEOREM PositiveValuesExact ==
  ASSUME PerSec \in Nat \ {0}, MaxSecs \in Nat
  PROVE  Ping!Spec => PositiveExact
<1>1. Ping!Init => PingInv
  BY DEF Ping!Init, PingInv
<1>2. PingInv /\ [Ping!Next]_(Ping!vars) => PingInv'
  BY PingStep
<1>3. PingInv /\ [Ping!Next]_(Ping!vars) =>
        [calls' # calls /\ Ping!LastCall.val > 0 =>
           Ping!LastCall.val = Ping!RoundTrip(now - sentAt[Ping!LastCall.id])]_(Ping!vars)
  BY PingStep
<1> QED
  BY <1>1, <1>2, <1>3, PTL DEF Ping!Spec, PositiveExact, Ping!PositiveExact

-----------------------------------------------------------------------------
(* The filter.                                                             *)

(* The token of an expression with a caret begins every word it matches,   *)
(* if no quantifier follows.                                               *)
LEMMA FilterMatches ==
  ASSUME NEW e \in Filter!Expressions, NEW w \in Filter!Classes, Filter!Matches(e, w),
         messages_classes # <<>>
  PROVE  Filter!IvyBindingFilter(e)
<1>1. e.form \in {"blank", "any"}
  BY DEF Filter!Expressions
<1>2. CASE ~ e.caret \/ e.token = <<>>
  BY <1>2 DEF Filter!IvyBindingFilter
<1>3. CASE e.form = "blank" /\ w = e.token
  <2>1. Filter!strncmp0(w, e.token)
    BY <1>3 DEF Filter!strncmp0, Filter!IsPrefix
  <2> QED
    BY <2>1 DEF Filter!IvyBindingFilter
<1>4. CASE e.form = "any" /\ Filter!IsPrefix(e.token, w)
  BY <1>4 DEF Filter!IvyBindingFilter, Filter!strncmp0
<1> QED
  BY <1>1, <1>2, <1>3, <1>4 DEF Filter!Matches

FilterInv ==
  /\ messages_classes \in Seq(Filter!Words)
  /\ announced \subseteq Filter!Expressions
  /\ Filter!NothingMissed

LEMMA FilterStep ==
  ASSUME FilterInv, [Filter!Next]_(Filter!vars)
  PROVE  FilterInv'
<1>1. ASSUME NEW w \in Filter!Words, Filter!IvyBindingAddFilter(w) PROVE FilterInv'
  <2>1. /\ announced = {} /\ messages_classes' = <<w>> \o messages_classes
        /\ announced' = announced
    BY <1>1 DEF Filter!IvyBindingAddFilter
  <2>2. messages_classes' \in Seq(Filter!Words)
    BY <2>1 DEF FilterInv
  <2> QED
    BY <2>1, <2>2 DEF FilterInv, Filter!NothingMissed
<1>2. ASSUME NEW w \in Filter!Words, Filter!IvyBindingRemoveFilter(w) PROVE FilterInv'
  <2> DEFINE s == messages_classes
             K == {k \in DOMAIN s : s[k] # w}
  <2>1. messages_classes' = Filter!Sublist(s, K) /\ UNCHANGED <<announced, kept>>
    BY <1>2 DEF Filter!IvyBindingRemoveFilter
  <2>2. s \in Seq(Filter!Words) /\ DOMAIN s = 1 .. Len(s)
    BY LenProperties DEF FilterInv
  <2>3. K \in SUBSET (1 .. Len(s))
    BY <2>2
  <2>4. Filter!Sublist(s, K) = Sublist(s, K)
    BY DEF Filter!Sublist, Sublist, Filter!Rank, Rank, Filter!Cardinality, Cardinality, Filter!IsFiniteSet, IsFiniteSet
  <2> HIDE DEF K
  <2>5. /\ Sublist(s, K) \in Seq(Filter!Words)
        /\ {Sublist(s, K)[n] : n \in DOMAIN Sublist(s, K)} = {s[i] : i \in K}
    BY <2>2, <2>3, SublistOK, SublistElements
  <2>6. messages_classes' \in Seq(Filter!Words)
    BY <2>1, <2>4, <2>5
  <2>7. Filter!Classes' = {s[i] : i \in K}
    BY <2>1, <2>4, <2>5 DEF Filter!Classes
  <2>8. Filter!Classes' \subseteq Filter!Classes
    BY <2>2, <2>3, <2>7 DEF Filter!Classes
  <2> QED
    BY <2>1, <2>6, <2>8 DEF FilterInv, Filter!NothingMissed, Filter!Matches
<1>3. CASE Filter!IvyBindingTerminate
  <2>1. messages_classes' = <<>> /\ UNCHANGED <<announced, kept>>
    BY <1>3 DEF Filter!IvyBindingTerminate
  <2>2. Filter!Classes' = {} /\ messages_classes' \in Seq(Filter!Words)
    BY <2>1 DEF Filter!Classes
  <2> QED
    BY <2>1, <2>2 DEF FilterInv, Filter!NothingMissed
<1>4. ASSUME NEW e \in Filter!Expressions, Filter!ReceiveAddRegexp(e) PROVE FilterInv'
  <2>1. /\ announced' = announced \union {e} /\ messages_classes' = messages_classes
        /\ kept' = IF Filter!IvyBindingFilter(e) THEN kept \union {e} ELSE kept
    BY <1>4 DEF Filter!ReceiveAddRegexp
  <2>2. Filter!Classes' = Filter!Classes
    BY <2>1 DEF Filter!Classes
  <2>3. ASSUME NEW f \in announced', NEW w \in Filter!Classes, Filter!Matches(f, w)
        PROVE  f \in kept'
    <3>1. CASE f \in announced
      BY <2>1, <2>3, <3>1 DEF FilterInv, Filter!NothingMissed
    <3>2. CASE f = e
      <4>1. messages_classes # <<>>
        BY DEF Filter!Classes
      <4>2. Filter!IvyBindingFilter(e)
        BY <2>3, <3>2, <4>1, FilterMatches
      <4> QED
        BY <2>1, <3>2, <4>2
    <3> QED
      BY <2>1, <3>1, <3>2
  <2> QED
    BY <2>1, <2>2, <2>3 DEF FilterInv, Filter!NothingMissed, Filter!Matches
<1>5. CASE UNCHANGED Filter!vars
  BY <1>5 DEF Filter!vars, FilterInv, Filter!NothingMissed, Filter!Classes, Filter!Matches
<1> QED
  BY <1>1, <1>2, <1>3, <1>4, <1>5 DEF Filter!Next

(* IvyBindingFilter never drops an expression that a message of a declared *)
(* word would match, for every alphabet and length of words, whatever      *)
(* words are removed later and however many are declared: if all of them   *)
(* are declared before the first expression arrives, and a blank or a      *)
(* wildcard ends the token.                                                *)
THEOREM FilterMissesNothing == Filter!Spec => []NothingMissed
<1>1. Filter!Init => FilterInv
  BY DEF Filter!Init, FilterInv, Filter!NothingMissed
<1>2. FilterInv /\ [Filter!Next]_(Filter!vars) => FilterInv'
  BY FilterStep
<1>3. FilterInv => NothingMissed
  BY DEF FilterInv, NothingMissed
<1> QED
  BY <1>1, <1>2, <1>3, PTL DEF Filter!Spec

-----------------------------------------------------------------------------
(* The pointer array of the OpenMP build.                                  *)

Entry == [re : Texts, cls : Seq([cl : Peers, id : Ids])]

LEMMA OmpSublist == \A s : \A K : Omp!Sublist(s, K) = Sublist(s, K)
  BY DEF Omp!Sublist, Sublist, Omp!Rank, Rank, Omp!Cardinality, Cardinality,
         Omp!IsFiniteSet, IsFiniteSet

LEMMA EntryWith ==
  ASSUME NEW x \in Entry, NEW s \in Seq([cl : Peers, id : Ids])
  PROVE  [x EXCEPT !.cls = s] \in Entry /\ [x EXCEPT !.cls = s].re = x.re
  BY DEF Entry

LEMMA PurgedEntries ==
  ASSUME NEW d \in Seq(Entry)
  PROVE  Omp!Purged(d) \in Seq(Entry)
<1> DEFINE K == {k \in DOMAIN d : d[k].cls # <<>>}
<1>1. K \in SUBSET (1 .. Len(d))
  BY LenProperties
<1>2. Omp!Purged(d) = Sublist(d, K)
  BY OmpSublist DEF Omp!Purged
<1> QED
  BY <1>1, <1>2, SublistOK

(* The entries are typed, whichever removal is made. *)
LEMMA RemovedEntries ==
  ASSUME NEW d \in Seq(Entry), NEW e, NEW i, NEW texts
  PROVE  /\ Omp!delRegexpForOneClientFromDictionary(d, texts, e, i) \in Seq(Entry)
         /\ Omp!delOneClientFromDictionary(d, e) \in Seq(Entry)
<1>1. Len(d) \in Nat /\ DOMAIN d = 1 .. Len(d)
  BY LenProperties
<1>2. \A k \in 1 .. Len(d) : d[k] \in Entry
  BY ElementOfSeq
<1>3. ASSUME NEW k \in 1 .. Len(d), NEW N \in SUBSET DOMAIN d[k].cls
      PROVE  [d[k] EXCEPT !.cls = Omp!Sublist(@, N)] \in Entry
  <2>1. d[k] \in Entry /\ d[k].cls \in Seq([cl : Peers, id : Ids])
    BY <1>2 DEF Entry
  <2>2. N \in SUBSET (1 .. Len(d[k].cls))
    BY <2>1, LenProperties
  <2>3. Sublist(d[k].cls, N) \in Seq([cl : Peers, id : Ids])
    BY <2>1, <2>2, SublistOK
  <2>4. Omp!Sublist(d[k].cls, N) = Sublist(d[k].cls, N)
    BY OmpSublist
  <2> QED
    BY <2>1, <2>3, <2>4, EntryWith
<1>4. Omp!delRegexpForOneClientFromDictionary(d, texts, e, i) \in Seq(Entry)
  <2> DEFINE f == [k \in DOMAIN d |->
                     IF d[k].re \in texts
                       THEN [d[k] EXCEPT !.cls = Omp!delOneIvyClientFromDictionaryEntry(@, e, i)]
                       ELSE d[k]]
  <2>1. ASSUME NEW k \in 1 .. Len(d) PROVE f[k] \in Entry
    <3>1. {n \in DOMAIN d[k].cls : d[k].cls[n] # [cl |-> e, id |-> i]} \in SUBSET DOMAIN d[k].cls
      OBVIOUS
    <3>2. [d[k] EXCEPT !.cls = Omp!delOneIvyClientFromDictionaryEntry(@, e, i)] \in Entry
      BY <1>3, <3>1 DEF Omp!delOneIvyClientFromDictionaryEntry
    <3> QED
      BY <1>1, <1>2, <3>2
  <2>2. f \in [1 .. Len(d) -> Entry]
    BY <1>1, <2>1
  <2>3. f \in Seq(Entry)
    BY <1>1, <2>2, SeqDef
  <2> HIDE DEF f
  <2>4. Omp!Purged(f) \in Seq(Entry)
    BY <2>3, PurgedEntries
  <2> QED
    BY <2>4 DEF f, Omp!delRegexpForOneClientFromDictionary
<1>5. Omp!delOneClientFromDictionary(d, e) \in Seq(Entry)
  <2> DEFINE f == [k \in DOMAIN d |->
                     [d[k] EXCEPT !.cls = Omp!delOneClientFromDictionaryEntry(@, e)]]
  <2>1. ASSUME NEW k \in 1 .. Len(d) PROVE f[k] \in Entry
    <3>1. {n \in DOMAIN d[k].cls : d[k].cls[n].cl # e} \in SUBSET DOMAIN d[k].cls
      OBVIOUS
    <3>2. [d[k] EXCEPT !.cls = Omp!delOneClientFromDictionaryEntry(@, e)] \in Entry
      BY <1>3, <3>1 DEF Omp!delOneClientFromDictionaryEntry
    <3> QED
      BY <1>1, <3>2
  <2>2. f \in [1 .. Len(d) -> Entry]
    BY <1>1, <2>1
  <2>3. f \in Seq(Entry)
    BY <1>1, <2>2, SeqDef
  <2> HIDE DEF f
  <2>4. Omp!Purged(f) \in Seq(Entry)
    BY <2>3, PurgedEntries
  <2> QED
    BY <2>4 DEF f, Omp!delOneClientFromDictionary
<1> QED
  BY <1>4, <1>5

(* An expression added makes an entry or joins one; the texts before it    *)
(* stay where they are.                                                    *)
LEMMA AddedEntries ==
  ASSUME NEW d \in Seq(Entry), NEW re \in Texts, NEW e \in Peers, NEW i \in Ids
  PROVE  LET a == Omp!addRegexpToDictionary(d, re, e, i)
         IN  /\ a \in Seq(Entry)
             /\ \A k \in 1 .. Len(d) : a[k].re = d[k].re
             /\ Omp!InDict(d, re) => Len(a) = Len(d)
             /\ ~ Omp!InDict(d, re) => Len(a) = Len(d) + 1 /\ a[Len(d) + 1].re = re
<1> DEFINE new == <<[cl |-> e, id |-> i]>>
           a == Omp!addRegexpToDictionary(d, re, e, i)
           f == [k \in DOMAIN d |-> IF d[k].re = re THEN [d[k] EXCEPT !.cls = new \o @] ELSE d[k]]
           x == [re |-> re, cls |-> new]
<1>1. Len(d) \in Nat /\ DOMAIN d = 1 .. Len(d)
  BY LenProperties
<1>2. \A k \in 1 .. Len(d) : d[k] \in Entry
  BY ElementOfSeq
<1>3. new \in Seq([cl : Peers, id : Ids])
  OBVIOUS
<1> HIDE DEF new
<1>4. x \in Entry /\ x.re = re
  BY <1>3 DEF Entry
<1> HIDE DEF x
<1>5. CASE Omp!InDict(d, re)
  <2>1. a = f
    BY <1>5 DEF Omp!addRegexpToDictionary, new
  <2>2. ASSUME NEW k \in 1 .. Len(d) PROVE f[k] \in Entry /\ f[k].re = d[k].re
    <3>1. new \o d[k].cls \in Seq([cl : Peers, id : Ids])
      BY <1>2, <1>3, ConcatProperties DEF Entry
    <3>2. /\ [d[k] EXCEPT !.cls = new \o @] \in Entry
          /\ [d[k] EXCEPT !.cls = new \o @].re = d[k].re
      BY <1>2, <3>1, EntryWith
    <3> QED
      BY <1>1, <1>2, <3>2
  <2>3. f \in [1 .. Len(d) -> Entry]
    BY <1>1, <2>2
  <2>4. f \in Seq(Entry) /\ Len(f) = Len(d)
    <3>1. f \in Seq(Entry) /\ DOMAIN f = 1 .. Len(d)
      BY <1>1, <2>3, SeqDef
    <3> HIDE DEF f
    <3> QED
      BY <1>1, <3>1
  <2> HIDE DEF f, a
  <2> QED
    BY <1>5, <2>1, <2>2, <2>4 DEF a
<1>6. CASE ~ Omp!InDict(d, re)
  <2>1. a = Append(d, x)
    BY <1>6 DEF Omp!addRegexpToDictionary, new, x
  <2> HIDE DEF a
  <2>2. /\ a \in Seq(Entry) /\ Len(a) = Len(d) + 1 /\ a[Len(d) + 1] = x
        /\ \A k \in 1 .. Len(d) : a[k] = d[k]
    BY <1>4, <2>1, AppendProperties
  <2> QED
    BY <1>4, <1>6, <2>2 DEF a
<1> QED
  BY <1>5, <1>6

-----------------------------------------------------------------------------
(* The array is as long as it says; it is exact for a dictionary when it   *)
(* points to its entries in their order.                                   *)
CacheOK(c) ==
  /\ DOMAIN c = {"num", "size", "arr"}
  /\ c.num \in Nat /\ c.size \in Nat /\ c.num =< c.size /\ DOMAIN c.arr = 1 .. c.size
Exact(c, d) == c.num = Len(d) /\ \A k \in 1 .. Len(d) : c.arr[k] = d[k].re

LEMMA ResizedOK ==
  ASSUME Slack \in Nat, NEW c, CacheOK(c), NEW n \in Nat
  PROVE  LET r == Omp!Resized(c, n)
         IN  /\ CacheOK(r) /\ r.num = n
             /\ \A k \in 1 .. n : k \in DOMAIN r.arr
             /\ n < c.size => \A k \in 1 .. c.size : k \in DOMAIN r.arr /\ r.arr[k] = c.arr[k]
<1> DEFINE r == Omp!Resized(c, n)
           size == IF n >= c.size THEN 2 * n + Slack ELSE c.size
           arr == [k \in 1 .. size |-> IF k \in DOMAIN c.arr THEN c.arr[k] ELSE "garbage"]
<1>1. size \in Nat /\ n =< size /\ (n < c.size => size = c.size)
  BY DEF CacheOK
<1>2. r = [num |-> n, size |-> size, arr |-> arr]
  BY DEF Omp!Resized
<1> HIDE DEF r, size
<1>3. DOMAIN arr = 1 .. size /\ \A k \in 1 .. n : k \in 1 .. size
  BY <1>1
<1>4. n < c.size => \A k \in 1 .. c.size : k \in 1 .. size /\ arr[k] = c.arr[k]
  BY <1>1 DEF CacheOK
<1> HIDE DEF arr
<1>5. DOMAIN r = {"num", "size", "arr"} /\ r.num = n /\ r.size = size /\ r.arr = arr
  BY <1>2
<1>6. CacheOK(r)
  BY <1>1, <1>3, <1>5 DEF CacheOK
<1> QED
  BY <1>3, <1>4, <1>5, <1>6 DEF r

LEMMA FilledOK ==
  ASSUME NEW c, CacheOK(c), NEW d \in Seq(Entry), c.num = Len(d)
  PROVE  CacheOK(Omp!Filled(c, d)) /\ Exact(Omp!Filled(c, d), d)
<1> DEFINE r == Omp!Filled(c, d)
           arr == [k \in DOMAIN c.arr |-> IF k =< Len(d) THEN d[k].re ELSE c.arr[k]]
<1>1. r = [c EXCEPT !.arr = arr]
  BY DEF Omp!Filled
<1>2. Len(d) \in Nat
  BY LenProperties
<1>3. DOMAIN arr = DOMAIN c.arr
  OBVIOUS
<1>4. \A k \in 1 .. Len(d) : k \in DOMAIN c.arr /\ arr[k] = d[k].re
  BY <1>2 DEF CacheOK
<1> HIDE DEF r, arr
<1>5. /\ DOMAIN r = {"num", "size", "arr"} /\ r.num = c.num /\ r.size = c.size /\ r.arr = arr
  BY <1>1 DEF CacheOK
<1> QED
  BY <1>3, <1>4, <1>5 DEF CacheOK, Exact, r

(* The array that is rebuilt is exact. *)
LEMMA RegenerateOK ==
  ASSUME Slack \in Nat, NEW c, CacheOK(c), NEW d \in Seq(Entry)
  PROVE  LET r == Omp!regenerateRegPtrArrayCache(c, d) IN CacheOK(r) /\ Exact(r, d)
<1> DEFINE f == Omp!Freed(c, d)
           s == Omp!Resized(f, Len(d))
<1>1. CacheOK(f)
  BY DEF Omp!Freed, CacheOK
<1>2. Len(d) \in Nat
  BY LenProperties
<1> HIDE DEF f
<1>3. CacheOK(s) /\ s.num = Len(d)
  BY <1>1, <1>2, ResizedOK
<1> HIDE DEF s
<1>4. CacheOK(Omp!Filled(s, d)) /\ Exact(Omp!Filled(s, d), d)
  BY <1>3, FilledOK
<1> QED
  BY <1>4 DEF Omp!regenerateRegPtrArrayCache, f, s

(* A new entry is added to an exact array. *)
LEMMA AddPointerOK ==
  ASSUME Slack \in Nat, NEW c, CacheOK(c), NEW d \in Seq(Entry), NEW b \in Seq(Entry), NEW re,
         Len(b) = Len(d) + 1, \A k \in 1 .. Len(d) : b[k].re = d[k].re, b[Len(d) + 1].re = re
  PROVE  LET r == Omp!addRegToPtrArrayCache(c, b, re)
         IN  CacheOK(r) /\ (Exact(c, d) => Exact(r, b))
<1> DEFINE n == Len(b)
           s == Omp!Resized(c, n)
           r == Omp!addRegToPtrArrayCache(c, b, re)
<1>1. n \in Nat /\ n >= 1 /\ Len(d) \in Nat /\ n = Len(d) + 1
  BY LenProperties
<1> HIDE DEF n
<1>2. /\ CacheOK(s) /\ s.num = n /\ \A k \in 1 .. n : k \in DOMAIN s.arr
      /\ n < c.size => \A k \in 1 .. c.size : k \in DOMAIN s.arr /\ s.arr[k] = c.arr[k]
  BY <1>1, ResizedOK
<1>3. r = IF n >= c.size THEN Omp!Filled(s, b) ELSE [s EXCEPT !.arr[n] = re]
  BY DEF Omp!addRegToPtrArrayCache, n
<1> HIDE DEF s, r
<1>4. CASE n >= c.size
  <2>1. s.num = Len(b)
    BY <1>2 DEF n
  <2>2. CacheOK(Omp!Filled(s, b)) /\ Exact(Omp!Filled(s, b), b)
    BY <1>2, <2>1, FilledOK
  <2> QED
    BY <1>3, <1>4, <2>2 DEF r
<1>5. CASE ~ (n >= c.size)
  <2>1. n < c.size /\ c.size \in Nat
    BY <1>1, <1>5 DEF CacheOK
  <2>2. /\ DOMAIN r = {"num", "size", "arr"} /\ r.num = s.num /\ r.size = s.size
        /\ r.arr = [s.arr EXCEPT ![n] = re]
    BY <1>2, <1>3, <1>5 DEF CacheOK
  <2>3. CacheOK(r)
    BY <1>2, <2>2 DEF CacheOK
  <2>4. ASSUME Exact(c, d), NEW k \in 1 .. n PROVE r.arr[k] = b[k].re
    <3>1. k \in DOMAIN s.arr /\ n \in 1 .. n
      BY <1>1, <1>2
    <3>2. CASE k = n
      BY <1>1, <1>2, <2>2, <3>1, <3>2
    <3>3. CASE k # n
      <4>1. k \in 1 .. Len(d) /\ k \in 1 .. c.size
        BY <1>1, <2>1, <3>3
      <4>2. r.arr[k] = s.arr[k]
        BY <2>2, <3>1, <3>3
      <4>3. s.arr[k] = c.arr[k]
        BY <1>2, <2>1, <4>1
      <4>4. c.arr[k] = d[k].re
        BY <2>4, <4>1 DEF Exact
      <4> QED
        BY <4>1, <4>2, <4>3, <4>4
    <3> QED
      BY <3>2, <3>3
  <2> QED
    BY <1>2, <2>2, <2>3, <2>4 DEF Exact, r, n
<1> QED
  BY <1>4, <1>5

(* The array follows the dictionary when an expression is added for a peer *)
(* whose handshake has ended.                                              *)
LEMMA EnteredOK ==
  ASSUME Slack \in Nat, NEW c, CacheOK(c), NEW d \in Seq(Entry),
         NEW re \in Texts, NEW e \in Peers, NEW i \in Ids
  PROVE  LET r == Omp!Entered(c, d, re, e)
         IN  /\ CacheOK(r)
             /\ Exact(c, d) /\ end[e] = "ended" =>
                  Exact(r, Omp!addRegexpToDictionary(d, re, e, i))
<1> DEFINE r == Omp!Entered(c, d, re, e)
           a == Omp!addRegexpToDictionary(d, re, e, i)
           x == [re |-> re, cls |-> <<>>]
           b == Append(d, x)
<1>1. /\ a \in Seq(Entry) /\ \A k \in 1 .. Len(d) : a[k].re = d[k].re
      /\ Omp!InDict(d, re) => Len(a) = Len(d)
      /\ ~ Omp!InDict(d, re) => Len(a) = Len(d) + 1 /\ a[Len(d) + 1].re = re
  BY AddedEntries
<1> HIDE DEF a
<1>2. Len(d) \in Nat
  BY LenProperties
<1>3. x \in Entry /\ x.re = re
  BY DEF Entry
<1> HIDE DEF x
<1>4. /\ b \in Seq(Entry) /\ Len(b) = Len(d) + 1 /\ b[Len(d) + 1].re = re
      /\ \A k \in 1 .. Len(d) : b[k].re = d[k].re
  BY <1>3, AppendProperties
<1>5. r = IF Omp!InDict(d, re) \/ end[e] # "ended" THEN c
          ELSE Omp!addRegToPtrArrayCache(c, b, re)
  BY DEF Omp!Entered, b, x
<1> HIDE DEF b, r
<1>6. CASE Omp!InDict(d, re)
  <2>1. r = c
    BY <1>5, <1>6
  <2>2. Exact(c, d) => Exact(c, a)
    BY <1>1, <1>6 DEF Exact
  <2> QED
    BY <2>1, <2>2 DEF r, a
<1>7. CASE end[e] # "ended"
  BY <1>5, <1>7 DEF r
<1>8. CASE ~ Omp!InDict(d, re) /\ end[e] = "ended"
  <2>1. r = Omp!addRegToPtrArrayCache(c, b, re)
    BY <1>5, <1>8
  <2>2. CacheOK(r) /\ (Exact(c, d) => Exact(r, b))
    BY <1>4, <2>1, AddPointerOK
  <2>3. \A k \in 1 .. Len(b) : a[k].re = b[k].re
    <3>1. \A k \in 1 .. Len(d) + 1 : k \in 1 .. Len(d) \/ k = Len(d) + 1
      BY <1>2
    <3> QED
      BY <1>1, <1>4, <1>8, <3>1
  <2>4. Exact(r, b) => Exact(r, a)
    BY <1>1, <1>4, <1>8, <2>3 DEF Exact
  <2> QED
    BY <2>2, <2>4 DEF r, a
<1> QED
  BY <1>6, <1>7, <1>8

(* While no handshake is under way the array is exact.                     *)
Settled == \A e \in Peers : end[e] # "started"
OmpInv ==
  /\ reg.dict \in Seq(Entry) /\ CacheOK(omp)
  /\ end \in [Peers -> {"none", "started", "ended"}]
  /\ Settled => Exact(omp, reg.dict)

LEMMA OmpStep ==
  ASSUME Slack \in Nat, OmpInv, [Omp!Next]_(Omp!vars)
  PROVE  OmpInv'
<1>1. ASSUME NEW e \in Peers, Omp!StartRegexp(e) PROVE OmpInv'
  <2>1. end' = [end EXCEPT ![e] = "started"] /\ UNCHANGED <<reg, omp>>
    BY <1>1 DEF Omp!StartRegexp
  <2>2. ~ Settled'
    BY <2>1 DEF OmpInv, Settled
  <2> QED
    BY <2>1, <2>2 DEF OmpInv
<1>2. ASSUME NEW e \in Peers, Omp!EndRegexp(e) PROVE OmpInv'
  <2>1. /\ end' = [end EXCEPT ![e] = "ended"] /\ reg' = reg
        /\ omp' = Omp!regenerateRegPtrArrayCache(omp, reg.dict)
    BY <1>2 DEF Omp!EndRegexp
  <2>2. reg.dict \in Seq(Entry) /\ CacheOK(omp)
    BY DEF OmpInv
  <2>3. CacheOK(omp') /\ Exact(omp', reg.dict)
    BY <2>1, <2>2, RegenerateOK
  <2> QED
    BY <2>1, <2>3 DEF OmpInv
<1>3. ASSUME NEW e \in Peers, NEW i \in Ids, Omp!DelRegexp(e, i) PROVE OmpInv'
  <2>1. /\ reg' = Omp!delRegexpForOneClient(reg, e, i) /\ end' = end
        /\ omp' = Omp!regenerateRegPtrArrayCache(omp, reg'.dict)
    BY <1>3 DEF Omp!DelRegexp
  <2>2. \E texts : reg'.dict = Omp!delRegexpForOneClientFromDictionary(reg.dict, texts, e, i)
    BY <2>1 DEF Omp!delRegexpForOneClient
  <2>3. reg.dict \in Seq(Entry) /\ CacheOK(omp)
    BY DEF OmpInv
  <2>4. reg'.dict \in Seq(Entry)
    BY <2>2, <2>3, RemovedEntries
  <2>5. CacheOK(omp') /\ Exact(omp', reg'.dict)
    BY <2>1, <2>3, <2>4, RegenerateOK
  <2> QED
    BY <2>1, <2>4, <2>5 DEF OmpInv
<1>4. ASSUME NEW e \in Peers, Omp!Disconnect(e) PROVE OmpInv'
  <2>1. /\ reg' = Omp!delOneClient(reg, e) /\ end' = [end EXCEPT ![e] = "none"]
        /\ omp' = Omp!regenerateRegPtrArrayCache(omp, reg'.dict)
    BY <1>4 DEF Omp!Disconnect
  <2>2. reg'.dict = Omp!delOneClientFromDictionary(reg.dict, e)
    BY <2>1 DEF Omp!delOneClient
  <2>3. reg.dict \in Seq(Entry) /\ CacheOK(omp)
    BY DEF OmpInv
  <2>4. reg'.dict \in Seq(Entry)
    BY <2>2, <2>3, RemovedEntries
  <2>5. CacheOK(omp') /\ Exact(omp', reg'.dict)
    BY <2>1, <2>3, <2>4, RegenerateOK
  <2> QED
    BY <2>1, <2>4, <2>5 DEF OmpInv
<1>5. ASSUME NEW e \in Peers, NEW i \in Ids, NEW re \in Texts, Omp!AddRegexp(e, i, re)
      PROVE  OmpInv'
  <2> DEFINE d == reg.dict
             gone == Omp!delRegexpForOneClientFromDictionary(d, {re}, e, i)
             changed == /\ Omp!InDict(d, re) /\ Omp!Lists(Omp!EntryOf(d, re).cls, e)
                        /\ Omp!FirstOf(Omp!EntryOf(d, re).cls, e).id = i
             was == Omp!regenerateRegPtrArrayCache(omp, gone)
  <2>1. /\ end[e] # "none" /\ reg' = Omp!addOrChangeRegexp(reg, re, e, i) /\ end' = end
        /\ omp' = IF changed THEN Omp!Entered(was, gone, re, e) ELSE Omp!Entered(omp, d, re, e)
    BY <1>5 DEF Omp!AddRegexp
  <2>2. reg'.dict = IF changed THEN Omp!addRegexpToDictionary(gone, re, e, i)
                    ELSE Omp!addRegexpToDictionary(d, re, e, i)
    BY <2>1 DEF Omp!addOrChangeRegexp, Omp!changeRegexp, Omp!addRegexp,
                Omp!changeRegexpInDictionary
  <2>3. d \in Seq(Entry) /\ CacheOK(omp) /\ (Settled => Exact(omp, d) /\ end[e] = "ended")
    BY <2>1 DEF OmpInv, Settled
  <2> HIDE DEF d, changed
  <2>4. gone \in Seq(Entry)
    BY <2>3, RemovedEntries
  <2> HIDE DEF gone
  <2>5. CacheOK(was) /\ Exact(was, gone)
    BY <2>3, <2>4, RegenerateOK
  <2> HIDE DEF was
  <2>6. CASE changed
    <3>1. reg'.dict \in Seq(Entry)
      BY <2>2, <2>4, <2>6, AddedEntries
    <3>2. /\ CacheOK(Omp!Entered(was, gone, re, e))
          /\ Exact(was, gone) /\ end[e] = "ended" =>
               Exact(Omp!Entered(was, gone, re, e), Omp!addRegexpToDictionary(gone, re, e, i))
      BY <2>4, <2>5, EnteredOK
    <3> QED
      BY <2>1, <2>2, <2>3, <2>5, <2>6, <3>1, <3>2 DEF OmpInv, Settled
  <2>7. CASE ~ changed
    <3>1. reg'.dict \in Seq(Entry)
      BY <2>2, <2>3, <2>7, AddedEntries
    <3>2. /\ CacheOK(Omp!Entered(omp, d, re, e))
          /\ Exact(omp, d) /\ end[e] = "ended" =>
               Exact(Omp!Entered(omp, d, re, e), Omp!addRegexpToDictionary(d, re, e, i))
      BY <2>3, EnteredOK
    <3> QED
      BY <2>1, <2>2, <2>3, <2>7, <3>1, <3>2 DEF OmpInv, Settled
  <2> QED
    BY <2>6, <2>7
<1>6. CASE UNCHANGED Omp!vars
  BY <1>6 DEF Omp!vars, OmpInv, Settled
<1> QED
  BY <1>1, <1>2, <1>3, <1>4, <1>5, <1>6 DEF Omp!Next

(* When no peer is in its handshake, IvySendMsg of the OpenMP build tries  *)
(* every entry of the dictionary once and nothing else: for any number of  *)
(* peers, expressions and ids and any slack of the array, in every order   *)
(* of connections, changes, removals and disconnections (ompDictCache).    *)
THEOREM ArrayExactWhenSettled ==
  ASSUME Slack \in Nat
  PROVE  Omp!Spec => []ExactWhenSettled
<1>1. Omp!Init => OmpInv
  BY DEF Omp!Init, Omp!EmptyRegistry, OmpInv, CacheOK, Exact
<1>2. OmpInv /\ [Omp!Next]_(Omp!vars) => OmpInv'
  BY OmpStep
<1>3. OmpInv => ExactWhenSettled
  <2> SUFFICES ASSUME OmpInv, Settled
               PROVE  Omp!Tried = Omp!DictTexts(reg.dict) /\ omp.num = Len(reg.dict)
    BY DEF ExactWhenSettled, Omp!ExactWhenSettled, Settled
  <2>1. /\ omp.num = Len(reg.dict) /\ \A k \in 1 .. Len(reg.dict) : omp.arr[k] = reg.dict[k].re
        /\ reg.dict \in Seq(Entry)
    BY DEF OmpInv, Exact
  <2>2. DOMAIN reg.dict = 1 .. Len(reg.dict)
    BY <2>1, LenProperties
  <2> QED
    BY <2>1, <2>2 DEF Omp!Tried, Omp!DictTexts
<1> QED
  BY <1>1, <1>2, <1>3, PTL DEF Omp!Spec
-----------------------------------------------------------------------------
(* The list of a client's subscriptions. *)

(* The pointers nx link the nodes of s in its order, from h on.            *)
LinkedBy(s, h, nx) ==
  /\ h = IF s = <<>> THEN Lists!NULL ELSE s[1]
  /\ \A k \in DOMAIN s : nx[s[k]] = IF k = Len(s) THEN Lists!NULL ELSE s[k + 1]

(* What IVY_LIST_EACH visits from each node of A, as IvyLists has it.      *)
ChainOf(A, nx) ==
  CHOOSE f : f = [q \in A \union {Lists!NULL} |->
                    IF q = Lists!NULL THEN <<>> ELSE <<q>> \o f[nx[q]]]

LEMMA ListsSublist == \A s : \A K : /\ Lists!Sublist(s, K) = Sublist(s, K)
                                    /\ Lists!List!Sublist(s, K) = Sublist(s, K)
  BY DEF Lists!Sublist, Lists!List!Sublist, Sublist, Lists!Rank, Lists!List!Rank, Rank,
         Lists!Cardinality, Lists!List!Cardinality, Cardinality,
         Lists!IsFiniteSet, Lists!List!IsFiniteSet, IsFiniteSet

(* From the k-th node of a linked list, the walk visits the nodes from the *)
(* k-th on.                                                                *)
LEMMA ChainSuffixes ==
  ASSUME Lists!NULL \notin Nodes, NEW nx, NEW h, NEW s \in Seq(Nodes), IsInjective(s),
         LinkedBy(s, h, nx)
  PROVE  /\ ChainOf(Elems(s), nx)[Lists!NULL] = <<>>
         /\ \A k \in 1 .. Len(s) : ChainOf(Elems(s), nx)[s[k]] = SubSeq(s, k, Len(s))
<1> DEFINE L == Len(s)
           D == Elems(s) \union {Lists!NULL}
           after(k) == IF k = L THEN Lists!NULL ELSE s[k + 1]
           place(q) == CHOOSE k \in 1 .. L : s[k] = q
           e == [q \in D |-> IF q = Lists!NULL THEN <<>> ELSE SubSeq(s, place(q), L)]
           g == ChainOf(Elems(s), nx)
<1>0. L \in Nat
  BY LenProperties
<1>1. DOMAIN s = 1 .. L /\ \A k \in 1 .. L : s[k] \in Nodes /\ s[k] # Lists!NULL
  BY LenProperties, ElementOfSeq
<1>2. \A k \in 1 .. L : s[k] \in D /\ nx[s[k]] = after(k)
  BY <1>1 DEF LinkedBy, Elems
<1>3. \A k \in 1 .. L : place(s[k]) = k
  BY <1>1 DEF IsInjective
<1>4. \A q \in D : q = Lists!NULL \/ \E k \in 1 .. L : q = s[k]
  BY <1>1 DEF Elems
<1> HIDE DEF L
<1>5. /\ Lists!NULL \in D
      /\ \A k \in 1 .. L - 1 : after(k) = s[k + 1] /\ k + 1 \in 1 .. L
      /\ L \in 1 .. L => after(L) = Lists!NULL
  BY <1>0
<1> HIDE DEF place, after, D
<1>6. e[Lists!NULL] = <<>> /\ \A k \in 1 .. L : e[s[k]] = SubSeq(s, k, L)
  BY <1>1, <1>2, <1>3, <1>5
<1>7. \A k \in 1 .. L : SubSeq(s, k, L) = <<s[k]>> \o (IF k = L THEN <<>> ELSE SubSeq(s, k + 1, L))
  <2> SUFFICES ASSUME NEW k \in 1 .. L
               PROVE  SubSeq(s, k, L) = <<s[k]>> \o (IF k = L THEN <<>> ELSE SubSeq(s, k + 1, L))
    OBVIOUS
  <2>2. SubSeq(s, k, L) = <<s[k]>> \o SubSeq(s, k + 1, L)
    <3>1. L \in k .. L /\ Len(s) = L
      BY <1>0 DEF L
    <3> QED
      BY <3>1, SubSeqRecursiveFirst
  <2>3. k = L => SubSeq(s, k + 1, L) = <<>>
    BY <1>0, SubSeqEmpty
  <2> QED
    BY <2>2, <2>3
<1>8. e = [q \in D |-> IF q = Lists!NULL THEN <<>> ELSE <<q>> \o e[nx[q]]]
  <2> SUFFICES ASSUME NEW q \in D
               PROVE  e[q] = IF q = Lists!NULL THEN <<>> ELSE <<q>> \o e[nx[q]]
    OBVIOUS
  <2>1. CASE q = Lists!NULL
    BY <1>6, <2>1
  <2>2. ASSUME NEW k \in 1 .. L, q = s[k] PROVE e[q] = <<q>> \o e[nx[q]]
    <3> HIDE DEF e
    <3>1. k = L => e[nx[q]] = <<>>
      BY <1>2, <1>5, <1>6, <2>2
    <3>2. k # L => e[nx[q]] = SubSeq(s, k + 1, L)
      <4> SUFFICES ASSUME k # L PROVE e[nx[q]] = SubSeq(s, k + 1, L)
        OBVIOUS
      <4>1. k \in 1 .. L - 1
        BY <1>0
      <4> QED
        BY <4>1, <1>2, <1>5, <1>6, <2>2
    <3> QED
      BY <3>1, <3>2, <1>6, <1>7, <2>2
  <2>3. \A k \in 1 .. L : s[k] # Lists!NULL
    BY <1>1
  <2> HIDE DEF e
  <2> QED
    BY <2>1, <2>2, <2>3, <1>4
<1> HIDE DEF e
<1>9. g = [q \in D |-> IF q = Lists!NULL THEN <<>> ELSE <<q>> \o g[nx[q]]]
  BY <1>8 DEF ChainOf, D
<1> HIDE DEF g
<1>10. g[Lists!NULL] = <<>> /\ \A k \in 1 .. L : g[s[k]] = <<s[k]>> \o g[after(k)]
  BY <1>1, <1>2, <1>5, <1>9
<1>11. ASSUME NEW k \in 1 .. L, g[s[k]] # SubSeq(s, k, L) PROVE FALSE
  <2> DEFINE T == {j \in Nat : L - j \in 1 .. L /\ g[s[L - j]] # SubSeq(s, L - j, L)}
  <2>1. L - k \in Nat /\ L - (L - k) = k
    BY <1>0
  <2>2. L - k \in T
    BY <1>11, <2>1
  <2>3. PICK j \in T : \A i \in T : j =< i
    <3>1. T \in SUBSET Nat /\ T # {}
      BY <2>2
    <3> HIDE DEF T
    <3> QED
      BY <3>1, LeastNat
  <2>4. j \in Nat /\ L - j \in 1 .. L /\ g[s[L - j]] # SubSeq(s, L - j, L)
    OBVIOUS
  <2>5. CASE j = 0
    <3>1. L - j = L
      BY <1>0, <2>5
    <3>2. g[s[L]] = <<s[L]>> \o <<>>
      BY <2>4, <3>1, <1>5, <1>10
    <3>3. SubSeq(s, L, L) = <<s[L]>> \o <<>>
      BY <2>4, <3>1, <1>7
    <3> QED
      BY <2>4, <3>1, <3>2, <3>3
  <2>6. CASE j # 0
    <3>1. j - 1 \in Nat /\ L - (j - 1) = (L - j) + 1 /\ L - j \in 1 .. L - 1 /\ L - j # L
      BY <1>0, <2>4, <2>6
    <3>2. (L - j) + 1 \in 1 .. L
      BY <3>1, <1>0
    <3>3. j - 1 \notin T
      BY <2>3, <2>4, <3>1
    <3>4. g[s[(L - j) + 1]] = SubSeq(s, (L - j) + 1, L)
      BY <3>1, <3>2, <3>3
    <3>5. g[s[L - j]] = <<s[L - j]>> \o g[s[(L - j) + 1]]
      BY <2>4, <3>1, <1>5, <1>10
    <3>6. SubSeq(s, L - j, L) = <<s[L - j]>> \o SubSeq(s, (L - j) + 1, L)
      BY <2>4, <3>1, <1>7
    <3> QED
      BY <2>4, <3>4, <3>5, <3>6
  <2> QED
    BY <2>5, <2>6
<1> QED
  BY <1>10, <1>11 DEF g, L

LEMMA ChainIs ==
  ASSUME Lists!NULL \notin Nodes, NEW nx, NEW h, NEW s \in Seq(Nodes), IsInjective(s),
         LinkedBy(s, h, nx)
  PROVE  ChainOf(Elems(s), nx)[h] = s
<1>1. /\ ChainOf(Elems(s), nx)[Lists!NULL] = <<>>
      /\ \A k \in 1 .. Len(s) : ChainOf(Elems(s), nx)[s[k]] = SubSeq(s, k, Len(s))
  BY ChainSuffixes
<1>2. CASE s = <<>>
  BY <1>1, <1>2 DEF LinkedBy
<1>3. CASE s # <<>>
  <2>1. 1 \in 1 .. Len(s)
    BY <1>3, EmptySeq, LenProperties
  <2>2. h = s[1]
    BY <1>3 DEF LinkedBy
  <2>3. SubSeq(s, 1, Len(s)) = s
    BY SubSeqFull
  <2> QED
    BY <1>1, <2>1, <2>2, <2>3
<1> QED
  BY <1>2, <1>3

IdsOf(s, ident) == [k \in DOMAIN s |-> ident[s[k]]]

(* s is the list: it links every allocated node, once, and no id is there  *)
(* twice.                                                                  *)
ListHolds(s) ==
  /\ s \in Seq(Nodes) /\ IsInjective(s) /\ alloc = Elems(s)
  /\ LinkedBy(s, head, next)
  /\ \A j, k \in DOMAIN s : id[s[j]] = id[s[k]] => j = k
  /\ DOMAIN next = Nodes /\ id \in [Nodes -> NodeIds]

(* A walk stands on the first node: each step has removed that one only.   *)
AtFront ==
  walking => cur = head /\ nxt = IF head = Lists!NULL THEN Lists!NULL ELSE next[head]

ListsInv == (\E s : ListHolds(s)) /\ AtFront

LEMMA ListState ==
  ASSUME Lists!NULL \notin Nodes, NEW s
  PROVE  /\ ListHolds(s) => /\ Lists!Chain[head] = s /\ Lists!InList = alloc
                            /\ Lists!AsIds = IdsOf(s, id)
         /\ ListHolds(s)' => Lists!AsIds' = IdsOf(s, id')
<1>1. Lists!Chain = ChainOf(alloc, next)
  BY DEF Lists!Chain, ChainOf
<1>2. Lists!Chain' = ChainOf(alloc', next')
  BY DEF Lists!Chain, ChainOf
<1>3. ASSUME ListHolds(s)
      PROVE  /\ Lists!Chain[head] = s /\ Lists!InList = alloc
             /\ Lists!AsIds = IdsOf(s, id)
  <2>1. Lists!Chain[head] = s
    BY <1>1, <1>3, ChainIs DEF ListHolds
  <2>2. Lists!InList = Elems(s)
    BY <2>1 DEF Lists!InList, Elems
  <2>3. Lists!AsIds = IdsOf(s, id)
    BY <2>1 DEF Lists!AsIds, IdsOf
  <2> QED
    BY <1>3, <2>1, <2>2, <2>3 DEF ListHolds
<1>4. ASSUME ListHolds(s)' PROVE Lists!AsIds' = IdsOf(s, id')
  <2>1. /\ s \in Seq(Nodes) /\ IsInjective(s) /\ alloc' = Elems(s)
        /\ LinkedBy(s, head', next')
    BY <1>4 DEF ListHolds
  <2>2. Lists!Chain'[head'] = s
    BY <1>2, <2>1, ChainIs
  <2> QED
    BY <2>2 DEF Lists!AsIds, IdsOf
<1> QED
  BY <1>3, <1>4

(* The pointers after IVY_LIST_REMOVE of every node outside t. *)
Relinked(t, nx) ==
  [q \in Nodes |-> IF \E k \in DOMAIN t : t[k] = q
                   THEN LET k == CHOOSE j \in DOMAIN t : t[j] = q
                        IN  IF k = Len(t) THEN Lists!NULL ELSE t[k + 1]
                   ELSE nx[q]]

LEMMA UnlinkOK ==
  ASSUME NEW s \in Seq(Nodes), IsInjective(s), NEW K \in SUBSET (1 .. Len(s)),
         NEW t, t = Sublist(s, K), NEW nx
  PROVE  /\ t \in Seq(Nodes) /\ IsInjective(t) /\ Elems(t) = {s[k] : k \in K}
         /\ LinkedBy(t, IF t = <<>> THEN Lists!NULL ELSE t[1], Relinked(t, nx))
<1>1. /\ t \in Seq(Nodes) /\ IsInjective(t) /\ Elems(t) = {s[k] : k \in K}
  <2>1. t \in Seq(Nodes)
    BY SublistOK
  <2>2. /\ {Sublist(s, K)[n] : n \in DOMAIN Sublist(s, K)} = {s[i] : i \in K}
        /\ IsInjective(Sublist(s, K))
    BY SublistElements
  <2> QED
    BY <2>1, <2>2 DEF Elems
<1>2. ASSUME NEW k \in DOMAIN t
      PROVE  Relinked(t, nx)[t[k]] = IF k = Len(t) THEN Lists!NULL ELSE t[k + 1]
  <2>1. t[k] \in Nodes
    BY <1>1, ElementOfSeq, LenProperties
  <2>2. (CHOOSE j \in DOMAIN t : t[j] = t[k]) = k
    BY <1>1 DEF IsInjective
  <2> QED
    BY <2>1, <2>2 DEF Relinked
<1> QED
  BY <1>1, <1>2 DEF LinkedBy

(* delRegexpForOneClient removes the nodes of one id from the list, and    *)
(* from what RegListSpec says it is.                                       *)
LEMMA ListRemove ==
  ASSUME Lists!NULL \notin Nodes, NEW s, ListHolds(s), NEW i,
         Lists!delRegexpForOneClient(i),
         NEW K, K = {k \in DOMAIN s : id[s[k]] # i},
         NEW t, t = Sublist(s, K)
  PROVE  /\ ListHolds(t)'
         /\ Lists!AsIds' = Sublist(Lists!AsIds, {k \in DOMAIN Lists!AsIds : Lists!AsIds[k] # i})
<1> DEFINE R == {q \in Lists!InList : id[q] = i}
<1>0. /\ s \in Seq(Nodes) /\ IsInjective(s) /\ alloc = Elems(s) /\ LinkedBy(s, head, next)
      /\ \A j, k \in DOMAIN s : id[s[j]] = id[s[k]] => j = k
      /\ DOMAIN next = Nodes /\ id \in [Nodes -> NodeIds]
  BY DEF ListHolds
<1>1. DOMAIN s = 1 .. Len(s) /\ K \in SUBSET (1 .. Len(s))
  BY <1>0, LenProperties
<1>2. Lists!Chain[head] = s /\ Lists!InList = alloc /\ Lists!AsIds = IdsOf(s, id)
  BY ListState
<1>3. {k \in DOMAIN s : s[k] \notin R} = K
  BY <1>0, <1>2 DEF Elems
<1>4. R = Elems(s) \ {s[k] : k \in K}
  BY <1>0, <1>2 DEF Elems, IsInjective
<1>5. Lists!Sublist(s, {k \in DOMAIN s : s[k] \notin R}) = t
  BY <1>3, ListsSublist
<1> HIDE DEF R
<1>6. /\ head' = IF t = <<>> THEN Lists!NULL ELSE t[1]
      /\ next' = Relinked(t, next)
      /\ alloc' = alloc \ R /\ id' = id
  <2> DEFINE u == Lists!Unlinked(R)
  <2>1. head' = u.hd /\ next' = u.nx /\ alloc' = alloc \ u.freed /\ id' = id
    BY DEF Lists!delRegexpForOneClient, R
  <2>2. u.freed = R /\ u.hd = IF t = <<>> THEN Lists!NULL ELSE t[1]
    BY <1>2, <1>5 DEF Lists!Unlinked
  <2>3. u.nx = Relinked(t, next)
    BY <1>2, <1>5 DEF Lists!Unlinked, Relinked
  <2> HIDE DEF u
  <2> QED
    BY <2>1, <2>2, <2>3
<1>7. /\ t \in Seq(Nodes) /\ IsInjective(t) /\ Elems(t) = {s[k] : k \in K}
      /\ LinkedBy(t, head', next')
  BY <1>0, <1>1, <1>6, UnlinkOK
<1>8. alloc' = Elems(t)
  <2>1. {s[k] : k \in K} \subseteq Elems(s)
    BY DEF Elems
  <2> QED
    BY <1>0, <1>4, <1>6, <1>7, <2>1
<1>p. PICK q : Positions(q, s, K)
  BY <1>0, <1>1, SublistOK
<1>q. /\ q \in [1 .. Cardinality(K) -> K]
      /\ \A n \in 1 .. Cardinality(K) : t[n] = s[q[n]]
      /\ \A a, b \in 1 .. Cardinality(K) : q[a] = q[b] => a = b
      /\ DOMAIN t = 1 .. Cardinality(K)
  BY <1>p DEF Positions, Sublist
<1>9. \A j, k \in DOMAIN t : id'[t[j]] = id'[t[k]] => j = k
  <2> SUFFICES ASSUME NEW j \in DOMAIN t, NEW k \in DOMAIN t, id[t[j]] = id[t[k]] PROVE j = k
    BY <1>6
  <2>1. q[j] \in DOMAIN s /\ q[k] \in DOMAIN s /\ t[j] = s[q[j]] /\ t[k] = s[q[k]]
    BY <1>1, <1>q
  <2>2. q[j] = q[k]
    BY <1>0, <2>1
  <2> QED
    BY <1>q, <2>2
<1>d. DOMAIN next' = Nodes
  BY <1>6 DEF Relinked
<1>10. ListHolds(t)'
  BY <1>0, <1>6, <1>7, <1>8, <1>9, <1>d DEF ListHolds
<1>11. Lists!AsIds' = IdsOf(t, id)
  BY <1>6, <1>10, ListState
<1>12. {k \in DOMAIN Lists!AsIds : Lists!AsIds[k] # i} = K
  BY <1>2 DEF IdsOf
<1>13. IdsOf(t, id) = Sublist(IdsOf(s, id), K)
  <2> DEFINE pos(n) == CHOOSE j \in K : Rank(K, j) = n - 1
  <2>1. \A n \in 1 .. Cardinality(K) : pos(n) \in K
    <3>1. \A n \in 1 .. Cardinality(K) : \E j \in K : Rank(K, j) = n - 1
      BY <1>1, <1>0, LenProperties, RankOK
    <3> QED
      BY <3>1
  <2>2. \A n \in 1 .. Cardinality(K) : t[n] = s[pos(n)]
    BY DEF Sublist
  <2>3. \A k \in K : IdsOf(s, id)[k] = id[s[k]]
    BY DEF IdsOf
  <2>4. IdsOf(t, id) = [n \in 1 .. Cardinality(K) |-> id[t[n]]]
    BY <1>q DEF IdsOf
  <2>5. Sublist(IdsOf(s, id), K) = [n \in 1 .. Cardinality(K) |-> IdsOf(s, id)[pos(n)]]
    BY DEF Sublist
  <2> HIDE DEF pos
  <2>6. ASSUME NEW n \in 1 .. Cardinality(K) PROVE id[t[n]] = IdsOf(s, id)[pos(n)]
    BY <2>1, <2>2, <2>3
  <2> DEFINE D == 1 .. Cardinality(K)
             f(n) == id[t[n]]
             g(n) == IdsOf(s, id)[pos(n)]
  <2>7. \A n \in D : f(n) = g(n)
    BY <2>6
  <2>8. IdsOf(t, id) = [n \in D |-> f(n)] /\ Sublist(IdsOf(s, id), K) = [n \in D |-> g(n)]
    BY <2>4, <2>5
  <2> HIDE DEF D, f, g
  <2>9. [n \in D |-> f(n)] = [n \in D |-> g(n)]
    BY <2>7
  <2> QED
    BY <2>8, <2>9
<1> QED
  BY <1>2, <1>10, <1>11, <1>12, <1>13

(* The node put in front by addRegexp is a new one, with a new id. *)
LEMMA ListAdded ==
  ASSUME Lists!NULL \notin Nodes, NEW s, ListHolds(s), NEW i \in NodeIds,
         NEW q \in Nodes, q \notin alloc, \A r \in alloc : id[r] # i, Lists!ListAdd(q, i)
  PROVE  /\ ListHolds(<<q>> \o s)'
         /\ Lists!AsIds' = <<i>> \o Lists!AsIds
<1> DEFINE u == <<q>> \o s
           L == Len(s)
<1>0. /\ s \in Seq(Nodes) /\ IsInjective(s) /\ alloc = Elems(s) /\ LinkedBy(s, head, next)
      /\ \A j, k \in DOMAIN s : id[s[j]] = id[s[k]] => j = k
      /\ DOMAIN next = Nodes /\ id \in [Nodes -> NodeIds]
  BY DEF ListHolds
<1>1. L \in Nat /\ DOMAIN s = 1 .. L
  BY <1>0, LenProperties
<1>2. \A k \in 1 .. L : s[k] \in Nodes /\ s[k] \in alloc /\ s[k] # q
  BY <1>0, <1>1, ElementOfSeq DEF Elems
<1>3. /\ u \in Seq(Nodes) /\ Len(u) = L + 1 /\ DOMAIN u = 1 .. L + 1
      /\ u[1] = q /\ \A k \in 1 .. L : u[k + 1] = s[k]
      /\ \A k \in 2 .. L + 1 : k - 1 \in 1 .. L /\ u[k] = s[k - 1]
      /\ IsInjective(u)
  BY <1>0, <1>2, PrependOK
<1>4. Elems(u) = Elems(s) \union {q}
  BY <1>0, PrependElements
<1>5. /\ head' = q /\ next' = [next EXCEPT ![q] = head] /\ id' = [id EXCEPT ![q] = i]
      /\ alloc' = alloc \union {q}
  BY DEF Lists!ListAdd
<1> HIDE DEF u, L
<1>6. u # <<>> /\ \A k \in 1 .. L + 1 : k = 1 \/ k \in 2 .. L + 1
  BY <1>1, <1>3
<1>7. /\ next'[q] = head /\ \A k \in 1 .. L : next'[s[k]] = next[s[k]]
      /\ id'[q] = i /\ \A k \in 1 .. L : id'[s[k]] = id[s[k]]
      /\ DOMAIN next' = Nodes /\ id' \in [Nodes -> NodeIds]
  BY <1>0, <1>2, <1>5
<1>8. ASSUME NEW k \in 1 .. L + 1
      PROVE  next'[u[k]] = IF k = L + 1 THEN Lists!NULL ELSE u[k + 1]
  <2>1. CASE k = 1
    <3>1. CASE L = 0
      <4>1. s = <<>>
        BY <1>0, <3>1, EmptySeq DEF L
      <4> QED
        BY <1>0, <1>3, <1>7, <2>1, <3>1, <4>1 DEF LinkedBy
    <3>2. CASE L # 0
      <4>1. s # <<>> /\ 1 \in 1 .. L /\ 1 # L + 1
        BY <1>1, <3>2 DEF L
      <4>2. head = s[1]
        BY <1>0, <4>1 DEF LinkedBy
      <4>3. u[1 + 1] = s[1]
        BY <1>3, <4>1
      <4> QED
        BY <1>3, <1>7, <2>1, <4>1, <4>2, <4>3
    <3> QED
      BY <3>1, <3>2
  <2>2. CASE k \in 2 .. L + 1
    <3>1. k - 1 \in 1 .. L /\ u[k] = s[k - 1] /\ (k - 1) + 1 = k
      BY <1>1, <1>3, <2>2
    <3>2. next'[u[k]] = IF k - 1 = L THEN Lists!NULL ELSE s[k]
      <4>1. next[s[k - 1]] = IF k - 1 = L THEN Lists!NULL ELSE s[(k - 1) + 1]
        BY <1>0, <1>1, <3>1 DEF LinkedBy, L
      <4> QED
        BY <1>7, <3>1, <4>1
    <3>3. k - 1 = L <=> k = L + 1
      BY <1>1
    <3>4. k # L + 1 => k \in 1 .. L
      BY <1>1
    <3>5. k # L + 1 => u[k + 1] = s[k]
      BY <3>4, <1>3
    <3> QED
      BY <3>2, <3>3, <3>5
  <2> QED
    BY <1>6, <2>1, <2>2
<1>9. LinkedBy(u, head', next')
  BY <1>3, <1>5, <1>6, <1>8 DEF LinkedBy
<1>10. \A j, k \in DOMAIN u : id'[u[j]] = id'[u[k]] => j = k
  <2> SUFFICES ASSUME NEW j \in 1 .. L + 1, NEW k \in 1 .. L + 1, id'[u[j]] = id'[u[k]]
               PROVE  j = k
    BY <1>3
  <2>1. \A m \in 2 .. L + 1 : m - 1 \in DOMAIN s /\ id'[u[m]] = id[s[m - 1]] /\ id'[u[m]] # i
    BY <1>1, <1>2, <1>3, <1>7
  <2>2. id'[u[1]] = i
    BY <1>3, <1>7
  <2>3. CASE j \in 2 .. L + 1 /\ k \in 2 .. L + 1
    <3>1. j - 1 = k - 1
      BY <1>0, <2>1, <2>3
    <3> QED
      BY <1>1, <3>1
  <2> QED
    BY <1>6, <2>1, <2>2, <2>3
<1>11. ListHolds(u)'
  BY <1>0, <1>3, <1>4, <1>5, <1>7, <1>9, <1>10 DEF ListHolds
<1>12. Lists!AsIds = IdsOf(s, id) /\ Lists!AsIds' = IdsOf(u, id')
  BY <1>11, ListState
<1>13. IdsOf(u, id') = <<i>> \o IdsOf(s, id)
  <2> DEFINE a == IdsOf(u, id')
             b == IdsOf(s, id)
             o == <<i>>
  <2>1. \A k \in 1 .. L : id[s[k]] \in NodeIds
    BY <1>0, <1>2
  <2>2. b \in [1 .. L -> NodeIds] /\ \A k \in 1 .. L : b[k] = id[s[k]]
    BY <1>1, <2>1 DEF IdsOf
  <2>3. b \in Seq(NodeIds)
    BY <1>1, <2>2, SeqDef
  <2>4. Len(b) = L
    BY <1>1, <2>2, <2>3, LenProperties
  <2>5. ASSUME NEW k \in 1 .. L + 1 PROVE id'[u[k]] \in NodeIds
    BY <1>3, <1>7, ElementOfSeq
  <2>6. a \in [1 .. L + 1 -> NodeIds] /\ \A k \in 1 .. L + 1 : a[k] = id'[u[k]]
    BY <1>3, <2>5 DEF IdsOf
  <2>7. a \in Seq(NodeIds)
    BY <1>1, <2>6, SeqDef
  <2>8. Len(a) = L + 1
    BY <1>1, <2>6, <2>7, LenProperties
  <2>9. o \in Seq(NodeIds) /\ Len(o) = 1 /\ o[1] = i
    OBVIOUS
  <2> HIDE DEF a, b, o
  <2>10. /\ o \o b \in Seq(NodeIds) /\ Len(o \o b) = L + 1
         /\ \A k \in 1 .. L + 1 : (o \o b)[k] = IF k <= 1 THEN o[k] ELSE b[k - 1]
    <3>1. /\ o \o b \in Seq(NodeIds) /\ Len(o \o b) = Len(o) + Len(b)
          /\ \A k \in 1 .. Len(o) + Len(b) :
               (o \o b)[k] = IF k <= Len(o) THEN o[k] ELSE b[k - Len(o)]
      BY <2>3, <2>9, ConcatProperties
    <3> QED
      BY <3>1, <2>4, <2>9, <1>1
  <2>11. ASSUME NEW k \in 1 .. L + 1 PROVE a[k] = (o \o b)[k]
    <3>1. CASE k = 1
      BY <1>3, <1>7, <2>6, <2>9, <2>10, <3>1
    <3>2. CASE k \in 2 .. L + 1
      <4>1. k - 1 \in 1 .. L /\ u[k] = s[k - 1] /\ ~ (k <= 1)
        BY <1>1, <1>3, <3>2
      <4>2. a[k] = id[s[k - 1]]
        BY <1>7, <2>6, <4>1
      <4> QED
        BY <2>2, <2>10, <4>1, <4>2
    <3> QED
      BY <1>6, <3>1, <3>2
  <2>12. a = o \o b
    BY <2>7, <2>8, <2>10, <2>11, SeqEqual
  <2> QED
    BY <2>12 DEF a, b, o
<1> QED
  BY <1>11, <1>12, <1>13 DEF u

LEMMA NoList ==
  ASSUME Lists!NULL \notin Nodes, NEW s, ListHolds(s)
  PROVE  /\ head = Lists!NULL <=> s = <<>>
         /\ s # <<>> => 1 \in DOMAIN s /\ head = s[1] /\ head \in Nodes /\ head \in alloc
<1>1. s \in Seq(Nodes) /\ DOMAIN s = 1 .. Len(s) /\ LinkedBy(s, head, next) /\ alloc = Elems(s)
  BY LenProperties DEF ListHolds
<1>2. s # <<>> => 1 \in DOMAIN s
  BY <1>1, EmptySeq, LenProperties
<1>3. s # <<>> => s[1] \in Nodes /\ s[1] \in Elems(s) /\ head = s[1]
  BY <1>1, <1>2, ElementOfSeq DEF Elems, LinkedBy
<1> QED
  BY <1>1, <1>2, <1>3 DEF LinkedBy

LEMMA EmptyIds == \A ident : IdsOf(<<>>, ident) = <<>>
<1> SUFFICES ASSUME NEW ident PROVE IdsOf(<<>>, ident) = <<>>
  OBVIOUS
<1> DEFINE a == IdsOf(<<>>, ident)
<1>1. a \in [1 .. 0 -> {}]
  BY DEF IdsOf
<1>2. a \in Seq({})
  BY <1>1, SeqDef
<1>3. Len(a) = 0
  BY <1>1, <1>2, LenProperties
<1> QED
  BY <1>2, <1>3, EmptySeq

(* The first node is the only one of its id: removed, it leaves the node   *)
(* that was saved as the first.                                            *)
LEMMA FirstRemoved ==
  ASSUME Lists!NULL \notin Nodes, NEW s, ListHolds(s), s # <<>>, AtFront, walking,
         Lists!delRegexpForOneClient(id[cur])
  PROVE  /\ \E t : ListHolds(t)'
         /\ head' = nxt
         /\ Lists!AsIds' = Sublist(Lists!AsIds,
                                   {k \in DOMAIN Lists!AsIds : Lists!AsIds[k] # id[cur]})
<1> DEFINE L == Len(s)
<1>i. PICK i : i = id[cur]
  OBVIOUS
<1>k. PICK K : K = {k \in DOMAIN s : id[s[k]] # i}
  OBVIOUS
<1>t. PICK t : t = Sublist(s, K)
  OBVIOUS
<1>0. /\ s \in Seq(Nodes) /\ LinkedBy(s, head, next)
      /\ \A j, k \in DOMAIN s : id[s[j]] = id[s[k]] => j = k
  BY DEF ListHolds
<1>1. L \in Nat /\ DOMAIN s = 1 .. L
  BY <1>0, LenProperties
<1>2. 1 \in DOMAIN s /\ head = s[1] /\ head \in Nodes
  BY NoList
<1>3. cur = s[1] /\ nxt = next[s[1]]
  BY <1>2 DEF AtFront
<1>4. nxt = IF 1 = L THEN Lists!NULL ELSE s[1 + 1]
  BY <1>0, <1>2, <1>3 DEF LinkedBy
<1>5. K = 2 .. L
  <2>1. \A k \in DOMAIN s : k \in K <=> k # 1
    BY <1>0, <1>2, <1>3, <1>i, <1>k
  <2>2. \A k \in DOMAIN s : k # 1 <=> k \in 2 .. L
    BY <1>1
  <2>3. \A k \in 2 .. L : k \in DOMAIN s
    BY <1>1
  <2>4. \A k \in K : k \in DOMAIN s
    BY <1>k
  <2> QED
    BY <2>1, <2>2, <2>3, <2>4
<1>6. /\ ListHolds(t)'
      /\ Lists!AsIds' = Sublist(Lists!AsIds, {k \in DOMAIN Lists!AsIds : Lists!AsIds[k] # i})
  BY <1>i, <1>k, <1>t, ListRemove
<1>7. head' = IF t = <<>> THEN Lists!NULL ELSE t[1]
  BY <1>6 DEF ListHolds, LinkedBy
<1>8. K \in SUBSET (1 .. Len(s)) /\ Len(s) \in Nat
  BY <1>1, <1>5
<1>9. Len(t) = Cardinality(K) /\ Cardinality(K) \in Nat /\ t \in Seq(Nodes)
  BY <1>0, <1>8, <1>t, SublistOK
<1>p. PICK q : Positions(q, s, K)
  BY <1>0, <1>8, SublistOK
<1>q. /\ q \in [1 .. Cardinality(K) -> K]
      /\ \A n \in 1 .. Cardinality(K) : t[n] = s[q[n]]
      /\ \A k \in K : \E n \in 1 .. Cardinality(K) : q[n] = k
      /\ \A a, b \in 1 .. Cardinality(K) : a < b <=> q[a] < q[b]
  BY <1>p, <1>t DEF Positions
<1> HIDE DEF L
<1>10. CASE L = 1
  <2>1. K = {}
    BY <1>5, <1>10
  <2>2. Cardinality(K) = 0
    BY <2>1, FS_EmptySet
  <2>3. t = <<>>
    BY <1>9, <2>2, EmptySeq
  <2> QED
    BY <1>4, <1>6, <1>7, <1>10, <1>i, <2>3
<1>11. CASE L # 1
  <2>1. 2 \in K
    <3>1. 1 \in 1 .. L
      BY <1>1, <1>2
    <3> QED
      BY <1>1, <1>5, <1>11, <3>1
  <2>2. PICK n \in 1 .. Cardinality(K) : q[n] = 2
    BY <1>q, <2>1
  <2>3. 1 \in 1 .. Cardinality(K)
    BY <1>9, <2>2
  <2>4. q[1] \in 2 .. L
    BY <1>5, <1>q, <2>3
  <2>5. ~ (1 < n)
    <3>1. ~ (q[1] < 2)
      BY <1>1, <2>4
    <3> QED
      BY <1>q, <2>2, <2>3, <3>1
  <2>6. n = 1
    BY <1>9, <2>2, <2>5
  <2>7. t[1] = s[2]
    BY <1>q, <2>2, <2>3, <2>6
  <2>8. t # <<>>
    BY <1>9, <2>3, EmptySeq
  <2> QED
    BY <1>4, <1>6, <1>7, <1>11, <1>i, <2>7, <2>8
<1> QED
  BY <1>10, <1>11

(* Every step keeps the invariant, and is a step of RegListSpec or none.   *)
LEMMA ListsStep ==
  ASSUME Lists!NULL \notin Nodes, ListsInv, [Lists!Next]_(Lists!vars)
  PROVE  ListsInv' /\ [Lists!List!Next]_(Lists!AsIds)
<1> DEFINE Mapped == [Lists!List!Next]_(Lists!AsIds)
<1>s. PICK s : ListHolds(s)
  BY DEF ListsInv
<1>0. /\ s \in Seq(Nodes) /\ alloc = Elems(s) /\ LinkedBy(s, head, next)
      /\ DOMAIN next = Nodes /\ id \in [Nodes -> NodeIds]
  BY <1>s DEF ListHolds
<1>1. Lists!Chain[head] = s /\ Lists!InList = alloc /\ Lists!AsIds = IdsOf(s, id)
  BY <1>s, ListState
<1>2. AtFront
  BY DEF ListsInv
<1>3. \A i \in NodeIds : Lists!List!Add(i) \/ Lists!List!Del(i) => Mapped
  BY DEF Lists!List!Next
<1>4. \A i : Lists!List!Del(i)
              <=> Lists!AsIds' = Sublist(Lists!AsIds,
                                         {k \in DOMAIN Lists!AsIds : Lists!AsIds[k] # i})
  BY ListsSublist DEF Lists!List!Del
<1>5. \A i : Lists!List!Add(i) <=> Lists!AsIds' = <<i>> \o Lists!AsIds
  BY DEF Lists!List!Add
<1>6. ASSUME UNCHANGED <<head, next, id, alloc>> PROVE ListHolds(s)' /\ Mapped
  <2>1. ListHolds(s)'
    BY <1>6, <1>s DEF ListHolds
  <2>2. Lists!AsIds' = IdsOf(s, id)
    BY <1>6, <2>1, ListState
  <2> QED
    BY <1>1, <2>1, <2>2
<1> HIDE DEF Mapped
<1>7. ASSUME NEW i \in NodeIds, Lists!addRegexp(i) PROVE ListsInv' /\ Mapped
  <2>1. PICK q \in Nodes \ alloc : Lists!ListAdd(q, i)
    BY <1>7 DEF Lists!addRegexp
  <2>2. ~ walking' /\ \A r \in alloc : id[r] # i
    BY <1>1, <1>7 DEF Lists!addRegexp
  <2>3. ListHolds(<<q>> \o s)' /\ Lists!AsIds' = <<i>> \o Lists!AsIds
    BY <1>s, <2>1, <2>2, ListAdded
  <2>4. AtFront'
    BY <2>2 DEF AtFront
  <2> QED
    BY <1>3, <1>5, <2>3, <2>4 DEF ListsInv
<1>8. ASSUME NEW i \in NodeIds, Lists!DelRegexp(i) PROVE ListsInv' /\ Mapped
  <2>1. Lists!delRegexpForOneClient(i) /\ ~ walking'
    BY <1>8 DEF Lists!DelRegexp
  <2>2. PICK K : K = {k \in DOMAIN s : id[s[k]] # i}
    OBVIOUS
  <2>3. PICK t : t = Sublist(s, K)
    OBVIOUS
  <2>4. /\ ListHolds(t)'
        /\ Lists!AsIds' = Sublist(Lists!AsIds, {k \in DOMAIN Lists!AsIds : Lists!AsIds[k] # i})
    BY <1>s, <2>1, <2>2, <2>3, ListRemove
  <2>5. AtFront'
    BY <2>1 DEF AtFront
  <2> QED
    BY <1>3, <1>4, <2>4, <2>5 DEF ListsInv
<1>9. ASSUME Lists!delOneClient PROVE ListsInv' /\ Mapped
  <2>1. UNCHANGED <<head, next, id, alloc>>
    BY <1>9 DEF Lists!delOneClient, Lists!listVars
  <2>2. AtFront'
    BY <1>9, <2>1 DEF Lists!delOneClient, AtFront
  <2> QED
    BY <1>6, <2>1, <2>2 DEF ListsInv
<1>10. ASSUME Lists!Walk PROVE ListsInv' /\ Mapped
  <2>1. /\ walking /\ cur # Lists!NULL /\ Lists!delRegexpForOneClient(id[cur])
        /\ cur' = nxt /\ nxt' = IF nxt = Lists!NULL THEN Lists!NULL ELSE next'[nxt]
    BY <1>10 DEF Lists!Walk
  <2>2. head = cur
    BY <1>2, <2>1 DEF AtFront
  <2>3. s # <<>> /\ cur \in Nodes
    BY <1>s, <2>1, <2>2, NoList
  <2>4. id[cur] \in NodeIds
    BY <1>0, <2>3
  <2>5. /\ \E t : ListHolds(t)'
        /\ head' = nxt
        /\ Lists!AsIds' = Sublist(Lists!AsIds,
                                  {k \in DOMAIN Lists!AsIds : Lists!AsIds[k] # id[cur]})
    BY <1>s, <1>2, <2>1, <2>3, FirstRemoved
  <2>6. AtFront'
    BY <2>1, <2>5 DEF AtFront
  <2>7. Lists!List!Del(id[cur])
    BY <1>4, <2>5
  <2>8. ListsInv'
    BY <2>5, <2>6 DEF ListsInv
  <2> QED
    BY <1>3, <2>4, <2>7, <2>8
<1>11. ASSUME Lists!WalkEnd PROVE ListsInv' /\ Mapped
  <2>1. /\ walking /\ cur = Lists!NULL /\ ~ walking'
        /\ alloc' = alloc \ Lists!InList /\ head' = Lists!NULL
        /\ next' = next /\ id' = id
    BY <1>11 DEF Lists!WalkEnd
  <2>2. s = <<>>
    <3>1. head = Lists!NULL
      BY <1>2, <2>1 DEF AtFront
    <3> QED
      BY <1>s, <3>1, NoList
  <2>3. head = Lists!NULL
    BY <1>0, <2>2 DEF LinkedBy
  <2>4. alloc' = alloc
    BY <1>0, <1>1, <2>1, <2>2 DEF Elems
  <2>5. AtFront'
    BY <2>1 DEF AtFront
  <2> QED
    BY <1>6, <2>1, <2>3, <2>4, <2>5 DEF ListsInv
<1>12. ASSUME UNCHANGED Lists!vars PROVE ListsInv' /\ Mapped
  <2>1. UNCHANGED <<head, next, id, alloc>> /\ UNCHANGED <<cur, nxt, walking>>
    BY <1>12 DEF Lists!vars, Lists!listVars
  <2>2. AtFront'
    BY <1>2, <2>1 DEF AtFront
  <2> QED
    BY <1>6, <2>1, <2>2 DEF ListsInv
<1>13. ListsInv' /\ Mapped
  BY <1>7, <1>8, <1>9, <1>10, <1>11, <1>12 DEF Lists!Next
<1> QED
  BY <1>13 DEF Mapped

LEMMA ListsStart ==
  ASSUME Lists!NULL \notin Nodes, Lists!Init
  PROVE  ListsInv /\ Lists!List!Init
<1>1. /\ head = Lists!NULL /\ next = [q \in Nodes |-> Lists!NULL]
      /\ \E i \in NodeIds : id = [q \in Nodes |-> i]
      /\ alloc = {} /\ ~ walking
  BY DEF Lists!Init
<1>2. id \in [Nodes -> NodeIds]
  BY <1>1
<1>3. <<>> \in Seq(Nodes) /\ DOMAIN <<>> = {}
  OBVIOUS
<1>4. ListHolds(<<>>)
  BY <1>1, <1>2, <1>3 DEF ListHolds, LinkedBy, Elems, IsInjective
<1>5. ListsInv
  BY <1>1, <1>4 DEF ListsInv, AtFront
<1>6. Lists!AsIds = <<>>
  BY <1>4, ListState, EmptyIds
<1> QED
  BY <1>5, <1>6 DEF Lists!List!Init

(* When a client goes, delOneClient walks its list with the next node      *)
(* saved, and delRegexpForOneClient walks it again and frees every node of *)
(* one id: whatever was announced and removed before, the node the outer   *)
(* walk stands on and the one it saved are never freed ones.               *)
THEOREM WalkStaysLive ==
  ASSUME Lists!NULL \notin Nodes
  PROVE  Lists!Spec => []WalkLive
<1>1. Lists!Init => ListsInv
  BY ListsStart
<1>2. ListsInv /\ [Lists!Next]_(Lists!vars) => ListsInv'
  BY ListsStep
<1>3. ListsInv => WalkLive
  <2> SUFFICES ASSUME ListsInv, walking
               PROVE  /\ cur \in alloc \union {Lists!NULL}
                      /\ nxt \in alloc \union {Lists!NULL}
    BY DEF WalkLive, Lists!WalkLive
  <2>1. PICK s : ListHolds(s)
    BY DEF ListsInv
  <2>2. cur = head /\ nxt = IF head = Lists!NULL THEN Lists!NULL ELSE next[head]
    BY DEF ListsInv, AtFront
  <2>3. CASE s = <<>>
    BY <2>1, <2>2, <2>3, NoList
  <2>4. CASE s # <<>>
    <3>1. 1 \in DOMAIN s /\ head = s[1] /\ head \in alloc
      BY <2>1, <2>4, NoList
    <3>2. /\ s \in Seq(Nodes) /\ DOMAIN s = 1 .. Len(s) /\ Len(s) \in Nat
          /\ alloc = Elems(s) /\ LinkedBy(s, head, next)
      BY <2>1, LenProperties DEF ListHolds
    <3>3. next[head] = IF 1 = Len(s) THEN Lists!NULL ELSE s[1 + 1]
      BY <3>1, <3>2 DEF LinkedBy
    <3>4. 1 # Len(s) => 1 + 1 \in DOMAIN s
      BY <3>1, <3>2
    <3>5. 1 # Len(s) => s[1 + 1] \in alloc
      BY <3>2, <3>4 DEF Elems
    <3> QED
      BY <2>2, <3>1, <3>3, <3>5
  <2> QED
    BY <2>3, <2>4
<1> QED
  BY <1>1, <1>2, <1>3, PTL DEF Lists!Spec

(* The linked nodes of list.h implement the sequence of ids of             *)
(* RegListSpec, under the macros and the nested walks of ivy.c: an         *)
(* announcement adds at the front, a removal takes every binding of its id *)
(* and a client's departure all of them, one id after the other.           *)
THEOREM ListRefinement ==
  ASSUME Lists!NULL \notin Nodes
  PROVE  Lists!Spec => ImplementsList
<1>1. Lists!Init => ListsInv /\ Lists!List!Init
  BY ListsStart
<1>2. ListsInv /\ [Lists!Next]_(Lists!vars) => ListsInv' /\ [Lists!List!Next]_(Lists!AsIds)
  BY ListsStep
<1> QED
  BY <1>1, <1>2, PTL DEF Lists!Spec, ImplementsList, Lists!ImplementsList, Lists!List!Spec
=============================================================================
