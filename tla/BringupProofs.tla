----------------------------- MODULE BringupProofs -----------------------------
(***************************************************************************)
(* What Bringup's calls return, for every input its assumptions allow.     *)
(*                                                                         *)
(* The kernel's loops are recursive functions of the number of turns.      *)
(* That such a function exists and what it returns is shown by induction.  *)
(* An induction theorem with an operator for its parameter cannot be       *)
(* applied by the provers, so NatSetInduction states induction for a set.  *)
(***************************************************************************)
EXTENDS Bringup, FiniteSetTheorems, SequenceTheorems, NaturalsInduction,
        WellFoundedInduction, TLAPS

------------------------------------------------------------------------------
(***************************************************************************)
(* Induction and recursion                                                 *)
(***************************************************************************)

\* A set that holds zero and every successor of what it holds.
LEMMA NatSetInduction ==
  ASSUME NEW S, 0 \in S, \A n \in Nat : n \in S => n + 1 \in S
  PROVE  Nat \subseteq S
<1> DEFINE R == {r \in Nat \X Nat : r[1] < r[2]}
<1>1. IsWellFoundedOn(R, Nat)
  BY NatLessThanWellFounded DEF OpToRel
<1> DEFINE T == Nat \ S
<1>2. SUFFICES ASSUME T # {} PROVE FALSE
  OBVIOUS
<1>3. PICK x \in T : \A y \in T : <<y, x>> \notin R
  <2> HIDE DEF R
  <2> QED BY <1>1, <1>2, WFMin
<1>4. x # 0 /\ x \in Nat
  OBVIOUS
<1>5. x - 1 \in Nat /\ <<x - 1, x>> \in R
  BY <1>4
<1>6. x - 1 \in S
  BY <1>3, <1>5
<1> QED
  BY <1>4, <1>5, <1>6

\* What a loop of N turns computes, each by its own function of what came before.
Iterates(f, N, x0, step) == f[0] = x0 /\ \A n \in 1 .. N : f[n] = step[n][f[n - 1]]

LEMMA RecursionExists ==
  ASSUME NEW N \in Nat, NEW X, NEW x0 \in X, NEW step \in [1 .. N -> [X -> X]]
  PROVE  \E f \in [0 .. N -> X] : Iterates(f, N, x0, step)
<1> DEFINE Good(n, f) == f = [k \in 0 .. n |-> IF k = 0 THEN x0 ELSE step[k][f[k - 1]]]
           S == {n \in Nat : n <= N => \E f \in [0 .. n -> X] : Good(n, f)}
<1>1. 0 \in S
  <2>1. Good(0, [k \in 0 .. 0 |-> x0])  OBVIOUS
  <2> QED BY <2>1
<1>2. ASSUME NEW n \in Nat, n \in S PROVE n + 1 \in S
  <2>1. CASE n + 1 > N  BY <2>1
  <2>2. CASE n + 1 <= N
    <3>1. PICK f \in [0 .. n -> X] : Good(n, f)  BY <1>2, <2>2
    <3> DEFINE g == [k \in 0 .. n + 1 |-> IF k = n + 1 THEN step[n + 1][f[n]] ELSE f[k]]
    <3>2. g \in [0 .. n + 1 -> X]
      <4>1. step[n + 1][f[n]] \in X BY <3>1, <2>2
      <4> QED BY <4>1
    <3>3. ASSUME NEW k \in 0 .. n + 1
          PROVE  g[k] = IF k = 0 THEN x0 ELSE step[k][g[k - 1]]
      <4>1. CASE k = n + 1
        BY <4>1
      <4>2. CASE k \in 0 .. n
        <5>1. f[k] = IF k = 0 THEN x0 ELSE step[k][f[k - 1]]
          BY <3>1, <4>2
        <5>2. g[k] = f[k] /\ (k # 0 => g[k - 1] = f[k - 1])
          BY <4>2
        <5> QED
          BY <5>1, <5>2
      <4> QED BY <4>1, <4>2
    <3>4. Good(n + 1, g)
      <4>1. g = [k \in 0 .. n + 1 |-> g[k]] BY <3>2
      <4> HIDE DEF g
      <4> QED BY <4>1, <3>3
    <3>5. \E h \in [0 .. n + 1 -> X] : Good(n + 1, h)
      <4> HIDE DEF g, Good
      <4> QED BY <3>2, <3>4
    <3> HIDE DEF Good
    <3> QED BY <3>5
  <2> QED BY <2>1, <2>2
<1>3. N \in S
  <2> HIDE DEF S
  <2> QED BY <1>1, <1>2, NatSetInduction
<1>4. PICK f \in [0 .. N -> X] : Good(N, f)
  BY <1>3
<1>5. f[0] = x0
  BY <1>4
<1>6. ASSUME NEW n \in 1 .. N PROVE f[n] = step[n][f[n - 1]]
  <2>1. n \in 0 .. N /\ n # 0
    OBVIOUS
  <2> QED
    BY <1>4, <2>1
<1> QED
  BY <1>5, <1>6 DEF Iterates

------------------------------------------------------------------------------
(***************************************************************************)
(* Sums                                                                    *)
(***************************************************************************)

\* The sum of the first n elements, one after the other.
SumTo(f, n) ==
    LET s[k \in 0 .. n] == IF k = 0 THEN 0 ELSE s[k - 1] + f[k]
    IN  s[n]

\* Any function that obeys the recursion has the sum as its last value.
LEMMA SumToIs ==
    ASSUME NEW n \in Nat, NEW f, NEW s,
           s[0] = 0, \A k \in 1 .. n : s[k] = s[k - 1] + f[k]
    PROVE  SumTo(f, n) = s[n]
  <1> DEFINE Obeys(t) == t = [k \in 0 .. n |-> IF k = 0 THEN 0 ELSE t[k - 1] + f[k]]
             r == [k \in 0 .. n |-> s[k]]
             t == CHOOSE u : Obeys(u)
  <1>1. Obeys(r)
    <2>1. ASSUME NEW k \in 0 .. n
          PROVE  r[k] = IF k = 0 THEN 0 ELSE r[k - 1] + f[k]
      <3>1. CASE k = 0
        BY <3>1
      <3>2. CASE k # 0
        <4>1. k \in 1 .. n /\ k - 1 \in 0 .. n
          BY <3>2
        <4> QED
          BY <3>2, <4>1
      <3> QED
        BY <3>1, <3>2
    <2>2. r = [k \in 0 .. n |-> r[k]]
      OBVIOUS
    <2> HIDE DEF r
    <2> QED
      BY <2>1, <2>2
  <1>2. Obeys(t)
    <2> HIDE DEF Obeys, r
    <2> QED
      BY <1>1
  <1>3. SumTo(f, n) = t[n]
    BY DEF SumTo
  <1> HIDE DEF t
  <1> DEFINE Same == {k \in Nat : k <= n => t[k] = s[k]}
  <1>4. 0 \in Same
    BY <1>2
  <1>5. ASSUME NEW k \in Nat, k \in Same PROVE k + 1 \in Same
    <2>1. CASE k + 1 <= n
      <3>1. t[k + 1] = t[k] + f[k + 1]
        BY <1>2, <2>1
      <3>2. k + 1 \in 1 .. n /\ (k + 1) - 1 = k
        BY <2>1
      <3>3. s[k + 1] = s[k] + f[k + 1]
        BY <3>2
      <3> QED
        BY <1>5, <2>1, <3>1, <3>3
    <2>2. CASE ~ (k + 1 <= n)
      BY <2>2
    <2> QED
      BY <2>1, <2>2
  <1>6. n \in Same
    <2> HIDE DEF Same
    <2> QED
      BY <1>4, <1>5, NatSetInduction
  <1> QED
    BY <1>3, <1>6

LEMMA SumToFacts ==
    ASSUME NEW N \in Nat, NEW f, \A k \in 1 .. N : f[k] \in Int
    PROVE  /\ SumTo(f, 0) = 0
           /\ \A n \in 0 .. N : SumTo(f, n) \in Int
           /\ \A n \in 1 .. N : SumTo(f, n) = SumTo(f, n - 1) + f[n]
  <1> DEFINE step == [k \in 1 .. N |-> [x \in Int |-> x + f[k]]]
  <1>1. step \in [1 .. N -> [Int -> Int]]
    OBVIOUS
  <1>2. 0 \in Int
    OBVIOUS
  <1>3. PICK s \in [0 .. N -> Int] : Iterates(s, N, 0, step)
    <2> HIDE DEF step
    <2> QED
      BY <1>1, <1>2, RecursionExists, Zenon
  <1>4. ASSUME NEW k \in 1 .. N PROVE s[k] = s[k - 1] + f[k]
    <2>1. k - 1 \in 0 .. N
      OBVIOUS
    <2>2. s[k - 1] \in Int
      BY <1>3, <2>1
    <2>3. s[k] = step[k][s[k - 1]]
      <3> HIDE DEF step
      <3> QED
        BY <1>3 DEF Iterates
    <2> QED
      BY <2>2, <2>3
  <1>5. ASSUME NEW n \in 0 .. N PROVE SumTo(f, n) = s[n]
    <2>1. \A k \in 1 .. n : s[k] = s[k - 1] + f[k]
      BY <1>4
    <2>2. n \in Nat /\ s[0] = 0
      BY <1>3 DEF Iterates
    <2> HIDE DEF step
    <2> QED
      BY <2>1, <2>2, SumToIs, Zenon
  <1>6. ASSUME NEW n \in 1 .. N PROVE SumTo(f, n) = SumTo(f, n - 1) + f[n]
    <2>1. n - 1 \in 0 .. N /\ n \in 0 .. N
      OBVIOUS
    <2>2. SumTo(f, n) = s[n] /\ SumTo(f, n - 1) = s[n - 1]
      BY <1>5, <2>1
    <2> QED
      BY <1>4, <2>2
  <1>7. SumTo(f, 0) = 0
    BY <1>3, <1>5 DEF Iterates
  <1>8. \A n \in 0 .. N : SumTo(f, n) \in Int
    BY <1>5
  <1> QED
    BY <1>6, <1>7, <1>8

LEMMA SumToSame ==
    ASSUME NEW N \in Nat, NEW f, NEW g,
           \A k \in 1 .. N : f[k] \in Int /\ g[k] = f[k]
    PROVE  SumTo(g, N) = SumTo(f, N)
  <1> DEFINE s == [n \in 0 .. N |-> SumTo(f, n)]
  <1>1. s[0] = 0 /\ \A k \in 1 .. N : s[k] = s[k - 1] + g[k]
    <2>1. \A k \in 1 .. N : k - 1 \in 0 .. N /\ k \in 0 .. N
      OBVIOUS
    <2>2. SumTo(f, 0) = 0 /\ \A k \in 1 .. N : SumTo(f, k) = SumTo(f, k - 1) + f[k]
      BY SumToFacts
    <2> QED
      BY <2>1, <2>2
  <1>2. SumTo(g, N) = s[N]
    <2> HIDE DEF s
    <2> QED
      BY <1>1, SumToIs
  <1> QED
    BY <1>2

\* Two functions that differ at one place.
LEMMA SumToChange ==
    ASSUME NEW N \in Nat, NEW f, NEW g, NEW x \in 1 .. N,
           \A k \in 1 .. N : f[k] \in Int /\ g[k] \in Int,
           \A k \in (1 .. N) \ {x} : g[k] = f[k]
    PROVE  SumTo(f, N) = SumTo(g, N) + f[x] - g[x]
  <1> DEFINE s == [n \in 0 .. N |-> SumTo(g, n) + (IF x <= n THEN f[x] - g[x] ELSE 0)]
  <1>1. /\ SumTo(g, 0) = 0
        /\ \A n \in 0 .. N : SumTo(g, n) \in Int
        /\ \A n \in 1 .. N : SumTo(g, n) = SumTo(g, n - 1) + g[n]
    BY SumToFacts
  <1>2. s[0] = 0
    BY <1>1
  <1>3. ASSUME NEW k \in 1 .. N PROVE s[k] = s[k - 1] + f[k]
    <2>1. k - 1 \in 0 .. N /\ k \in 0 .. N
      OBVIOUS
    <2>2. CASE k < x
      BY <1>1, <2>1, <2>2
    <2>3. CASE k = x
      BY <1>1, <2>1, <2>3
    <2>4. CASE k > x
      BY <1>1, <2>1, <2>4
    <2> QED
      BY <2>2, <2>3, <2>4
  <1>4. SumTo(f, N) = s[N]
    <2> HIDE DEF s
    <2> QED
      BY <1>2, <1>3, SumToIs
  <1> QED
    BY <1>1, <1>4

\* The library's sum over a set of indices, whatever order it takes them in.
LEMMA SumOnSet ==
    ASSUME NEW N \in Nat, NEW S \in SUBSET (1 .. N), NEW f, \A k \in S : f[k] \in Int
    PROVE  SumFunctionOnSet(f, S) = SumTo([k \in 1 .. N |-> IF k \in S THEN f[k] ELSE 0], N)
  <1> DEFINE Part(s) == [k \in 1 .. N |-> IF k \in s THEN f[k] ELSE 0]
             G(s) == SumTo(Part(s), N)
             Obeys(h) == h = [s \in SUBSET S |->
                                IF s = {} THEN 0
                                ELSE f[CHOOSE x \in s : TRUE] + h[s \ {CHOOSE x \in s : TRUE}]]
             g == [s \in SUBSET S |-> G(s)]
             h == CHOOSE u : Obeys(u)
  <1>1. G({}) = 0
    <2> DEFINE zero == [k \in 0 .. N |-> 0]
    <2>1. zero[0] = 0 /\ \A k \in 1 .. N : zero[k] = zero[k - 1] + Part({})[k]
      OBVIOUS
    <2>2. zero[N] = 0
      OBVIOUS
    <2> HIDE DEF zero, Part
    <2> QED
      BY <2>1, <2>2, SumToIs
  <1>2. ASSUME NEW s \in SUBSET S, NEW x \in s
        PROVE  G(s) = f[x] + G(s \ {x})
    <2> DEFINE p == Part(s)
               q == Part(s \ {x})
    <2>1. /\ x \in 1 .. N /\ f[x] \in Int
          /\ \A k \in 1 .. N : p[k] \in Int /\ q[k] \in Int
          /\ \A k \in (1 .. N) \ {x} : q[k] = p[k]
          /\ p[x] = f[x] /\ q[x] = 0
      OBVIOUS
    <2>2. G(s) = SumTo(p, N) /\ G(s \ {x}) = SumTo(q, N)
      OBVIOUS
    <2> HIDE DEF p, q, G
    <2>3. SumTo(p, N) = SumTo(q, N) + p[x] - q[x]
      <3>1. x \in 1 .. N
        BY <2>1
      <3>2. \A k \in 1 .. N : p[k] \in Int /\ q[k] \in Int
        BY <2>1
      <3>3. \A k \in (1 .. N) \ {x} : q[k] = p[k]
        BY <2>1
      <3> QED
        BY SMTT(30), <3>1, <3>2, <3>3, SumToChange, Zenon
    <2>4. SumTo(q, N) \in Int
      <3>1. \A k \in 1 .. N : q[k] \in Int
        BY <2>1
      <3>2. N \in 0 .. N
        OBVIOUS
      <3> QED
        BY <3>1, <3>2, SumToFacts, Zenon
    <2> QED
      BY <2>1, <2>2, <2>3, <2>4
  <1> HIDE DEF G
  <1>3. Obeys(g)
    <2>1. ASSUME NEW s \in SUBSET S
          PROVE  g[s] = IF s = {} THEN 0
                        ELSE f[CHOOSE x \in s : TRUE] + g[s \ {CHOOSE x \in s : TRUE}]
      <3>1. CASE s = {}
        BY <1>1, <3>1
      <3>2. CASE s # {}
        <4>1. (CHOOSE x \in s : TRUE) \in s
          BY <3>2
        <4> DEFINE x == CHOOSE x \in s : TRUE
        <4>2. x \in s
          BY <4>1
        <4> HIDE DEF x
        <4>3. g[s] = f[x] + g[s \ {x}]
          BY <1>2, <4>2
        <4> QED
          BY <3>2, <4>3 DEF x
      <3> QED
        BY <3>1, <3>2
    <2>2. g = [s \in SUBSET S |-> g[s]]
      OBVIOUS
    <2> HIDE DEF g
    <2> QED
      BY <2>1, <2>2
  <1>4. Obeys(h)
    <2> HIDE DEF Obeys, g
    <2> QED
      BY <1>3
  <1>5. SumFunctionOnSet(f, S) = h[S]
    BY DEF SumFunctionOnSet, FoldFunctionOnSet, MapThenFoldSet
  <1> HIDE DEF h
  <1>6. IsFiniteSet(S)
    <2>1. IsFiniteSet(1 .. N)
      BY FS_Interval
    <2> QED
      BY <2>1, FS_Subset
  <1> DEFINE Same == {n \in Nat : \A s \in SUBSET S : Cardinality(s) = n => h[s] = G(s)}
  <1>7. 0 \in Same
    <2>1. \A s \in SUBSET S : Cardinality(s) = 0 => s = {}
      BY <1>6, FS_Subset, FS_EmptySet
    <2> QED
      BY <1>1, <1>4, <2>1
  <1>8. ASSUME NEW n \in Nat, n \in Same PROVE n + 1 \in Same
    <2>1. ASSUME NEW s \in SUBSET S, Cardinality(s) = n + 1 PROVE h[s] = G(s)
      <3>1. s # {}
        BY <2>1, FS_EmptySet
      <3> DEFINE x == CHOOSE x \in s : TRUE
      <3>2. x \in s
        BY <3>1
      <3>3. h[s] = f[x] + h[s \ {x}]
        BY <1>4, <3>1
      <3> HIDE DEF x
      <3>4. Cardinality(s \ {x}) = n
        BY <1>6, <2>1, <3>2, FS_Subset, FS_RemoveElement
      <3>5. h[s \ {x}] = G(s \ {x})
        BY <1>8, <3>4
      <3> QED
        BY <1>2, <3>2, <3>3, <3>5
    <2> QED
      BY <2>1
  <1>9. Cardinality(S) \in Same
    <2>1. Cardinality(S) \in Nat
      BY <1>6, FS_CardinalityType
    <2> HIDE DEF Same
    <2> QED
      BY <1>7, <1>8, <2>1, NatSetInduction
  <1>10. h[S] = G(S)
    BY <1>9
  <1> QED
    BY <1>5, <1>10 DEF G

LEMMA SumOnInterval ==
    ASSUME NEW N \in Nat, NEW f, \A k \in 1 .. N : f[k] \in Int
    PROVE  SumFunctionOnSet(f, 1 .. N) = SumTo(f, N)
  <1> DEFINE g == [k \in 1 .. N |-> IF k \in 1 .. N THEN f[k] ELSE 0]
  <1>1. SumFunctionOnSet(f, 1 .. N) = SumTo(g, N)
    BY SumOnSet
  <1>2. \A k \in 1 .. N : f[k] \in Int /\ g[k] = f[k]
    OBVIOUS
  <1>3. SumTo(g, N) = SumTo(f, N)
    <2> HIDE DEF g
    <2> QED
      BY <1>2, SumToSame
  <1> QED
    BY <1>1, <1>3

------------------------------------------------------------------------------
(***************************************************************************)
(* The model file and the INT8 kernels                                     *)
(***************************************************************************)

\* stf_tensor_data's two comparisons suffice for any 64-bit offset and size: no sum is
\* formed that could wrap before it is compared.
THEOREM TensorPointerSound ==
    ASSUME NEW m, m.size \in Nat, m.n_tensors \in Nat, m.data_offset \in Nat,
           NEW t, t.data_offset \in Nat, t.data_bytes \in Nat,
           stf_load(m) = 0
    PROVE  PointerSound(m, t)
<1>1. /\ HeaderSize \in Nat \ {0} /\ TensorSize \in Nat \ {0}
      /\ m.size \in Nat /\ m.n_tensors \in Nat /\ m.data_offset \in Nat
      /\ t.data_offset \in Nat /\ t.data_bytes \in Nat
  BY StfAssumptions
<1>2. TableEnd(m) \in Nat /\ TableEnd(m) >= 1
  <2>1. \A x \in Nat, y \in Nat, z \in Nat : x >= 1 => x + y * z \in Nat /\ x + y * z >= 1
    OBVIOUS
  <2> QED
    BY <1>1, <2>1 DEF TableEnd
<1>3. m.data_offset < m.size /\ TableEnd(m) <= m.data_offset
  BY <1>1, <1>2 DEF stf_load
<1> QED
  BY <1>1, <1>2, <1>3 DEF PointerSound, stf_tensor_data
------------------------------------------------------------------------------

\* A product of a byte made unsigned and a weight no larger than 64.
LEMMA BiasedProduct ==
    ASSUME NEW x \in -128 .. 127, NEW y \in -64 .. 64
    PROVE  (x + 128) * y \in Int /\ -16320 <= (x + 128) * y /\ (x + 128) * y <= 16320
  BY Z3

Weight == -64 .. 64
ExactFour(x1, x2, y1, y2) ==
    Sat16((x1 + 128) * y1 + (x2 + 128) * y2) - 128 * (y1 + y2) = x1 * y1 + x2 * y2

\* PairsExact for the four numbers it is about.
LEMMA FourNumbers ==
    ASSUME NEW x1 \in Int8, NEW x2 \in Int8, NEW y1 \in Weight, NEW y2 \in Weight
    PROVE  ExactFour(x1, x2, y1, y2)
<1> USE DEF Int8, Weight
<1>1. \E p \in Int : p = (x1 + 128) * y1 /\ -16320 <= p /\ p <= 16320
  BY BiasedProduct
<1>2. PICK p \in Int : p = (x1 + 128) * y1 /\ -16320 <= p /\ p <= 16320
  BY <1>1
<1>3. \E q \in Int : q = (x2 + 128) * y2 /\ -16320 <= q /\ q <= 16320
  BY BiasedProduct
<1>4. PICK q \in Int : q = (x2 + 128) * y2 /\ -16320 <= q /\ q <= 16320
  BY <1>3
<1>5. Sat16(p + q) = p + q
  <2>1. ~ (p + q > 32767) /\ ~ (p + q < -32768)
    BY <1>2, <1>4
  <2> QED
    BY <2>1 DEF Sat16
<1>6. p + q - 128 * (y1 + y2) = x1 * y1 + x2 * y2
  BY <1>2, <1>4, Z3
<1> QED
  BY <1>2, <1>4, <1>5, <1>6 DEF ExactFour

\* The vector paths' pairs are exact for every a as long as b's elements are between -64
\* and 64: the 16-bit sum of two biased products does not saturate.
THEOREM PairsExact ==
    ASSUME NEW n \in Nat, NEW a \in [1 .. n -> Int8], NEW b \in [1 .. n -> Weight],
           NEW k \in Nat, k >= 1, 2 * k <= n
    PROVE  ExactPair(a, b, k)
<1>1. 2 * k - 1 \in 1 .. n /\ 2 * k \in 1 .. n
  OBVIOUS
<1>2. /\ a[2 * k - 1] \in Int8 /\ a[2 * k] \in Int8
      /\ b[2 * k - 1] \in Weight /\ b[2 * k] \in Weight
  BY <1>1
<1>3. ExactFour(a[2 * k - 1], a[2 * k], b[2 * k - 1], b[2 * k])
  BY <1>2, FourNumbers, Zenon
<1> QED
  BY <1>3 DEF ExactFour, ExactPair, Pair, PlainPair

\* The scalar kernel adds the products up in order.
Products1(a, b) == [k \in DOMAIN a |-> a[k] * b[k]]

LEMMA ScalarIs ==
    ASSUME NEW n \in Nat, NEW a, NEW b, DOMAIN a = 1 .. n,
           \A k \in 1 .. n : a[k] \in Int /\ b[k] \in Int
    PROVE  /\ \A k \in 1 .. n : Products1(a, b)[k] \in Int
           /\ sam_int8_dot_scalar(a, b) = SumTo(Products1(a, b), n)
  <1> DEFINE p == [k \in 1 .. n |-> a[k] * b[k]]
  <1>1. Products1(a, b) = p
    BY DEF Products1
  <1>2. \A k \in 1 .. n : p[k] \in Int
    OBVIOUS
  <1>3. sam_int8_dot_scalar(a, b) = SumFunctionOnSet(p, 1 .. n)
    BY DEF sam_int8_dot_scalar, SumFunction
  <1> HIDE DEF p
  <1>4. SumFunctionOnSet(p, 1 .. n) = SumTo(p, n)
    BY <1>2, SumOnInterval
  <1> QED
    BY <1>1, <1>2, <1>3, <1>4

\* Whole steps of an even number of lanes: an even number of elements, not too many.
LEMMA WholeSteps ==
    ASSUME NEW n \in Nat, NEW lanes \in Nat \ {0}, lanes % 2 = 0
    PROVE  \E h \in Nat : (n \div lanes) * lanes = 2 * h /\ 2 * h <= n
  <1>1. PICK l \in Nat : lanes = 2 * l
    <2>1. lanes \div 2 \in Nat /\ lanes = 2 * (lanes \div 2)
      OBVIOUS
    <2> QED
      BY <2>1
  <1>2. PICK q \in Nat : q = n \div lanes
    OBVIOUS
  <1>3. PICK h \in Nat : h = q * l
    OBVIOUS
  <1>4. q * lanes = 2 * h
    BY <1>1, <1>3, Z3
  <1>5. n = lanes * (n \div lanes) + (n % lanes) /\ n % lanes \in 0 .. lanes - 1
    OBVIOUS
  <1>6. lanes * q = q * lanes
    OBVIOUS
  <1>7. 2 * h <= n
    BY <1>2, <1>4, <1>5, <1>6
  <1> QED
    BY <1>2, <1>4, <1>7

\* The vector loop and the scalar tail together give the scalar kernel's sum.
LEMMA VectorIsScalar ==
    ASSUME NEW n \in Nat, NEW a \in Seq(Int8), NEW b \in Seq(Int8), Len(a) = n, Len(b) = n,
           \A k \in 1 .. n : b[k] \in Weight,
           NEW lanes \in Nat \ {0}, lanes % 2 = 0
    PROVE  DotVector(a, b, lanes) = sam_int8_dot_scalar(a, b)
  <1>1. PICK h \in Nat : (n \div lanes) * lanes = 2 * h /\ 2 * h <= n
    BY WholeSteps
  <1> DEFINE p == Products1(a, b)
             pairs == [k \in 1 .. h |-> Pair(a, b, k)]
             sa == SubSeq(a, 2 * h + 1, n)
             sb == SubSeq(b, 2 * h + 1, n)
             tail == Products1(sa, sb)
             m == n - 2 * h
  <1>2. /\ DOMAIN a = 1 .. n /\ DOMAIN b = 1 .. n /\ m \in Nat
        /\ a \in [1 .. n -> Int8] /\ b \in [1 .. n -> Weight]
        /\ \A k \in 1 .. n : a[k] \in Int /\ b[k] \in Int
    <2>1. a \in [1 .. n -> Int8] /\ b \in [1 .. n -> Int8] /\ DOMAIN a = 1 .. n /\ DOMAIN b = 1 .. n
      BY LenProperties
    <2>2. b = [k \in 1 .. n |-> b[k]] /\ \A k \in 1 .. n : b[k] \in Weight
      BY <2>1, Zenon
    <2>3. b \in [1 .. n -> Weight]
      BY <2>2
    <2>4. \A x \in Int8 : x \in Int
      BY DEF Int8
    <2>5. \A k \in 1 .. n : a[k] \in Int /\ b[k] \in Int
      BY <2>1, <2>4, Zenon
    <2>6. m \in Nat
      BY <1>1
    <2> HIDE DEF m
    <2> QED
      BY <2>1, <2>3, <2>5, <2>6
  <1>3. DotVector(a, b, lanes)
           = SumFunction(pairs) - 128 * SumFunctionOnSet(b, 1 .. 2 * h)
             + sam_int8_dot_scalar(sa, sb)
    <2>1. (2 * h) \div 2 = h
      BY <1>1
    <2> QED
      BY <1>1, <2>1 DEF DotVector
  <1>4. /\ DOMAIN sa = 1 .. m
        /\ \A k \in 1 .. m : /\ sa[k] = a[2 * h + k] /\ sb[k] = b[2 * h + k]
                             /\ sa[k] \in Int /\ sb[k] \in Int
    BY <1>1, <1>2
  <1>5. /\ \A k \in 1 .. n : p[k] \in Int /\ p[k] = a[k] * b[k]
        /\ sam_int8_dot_scalar(a, b) = SumTo(p, n)
    BY SMTT(30), <1>2, ScalarIs DEF Products1
  <1>6. /\ \A k \in 1 .. m : tail[k] \in Int /\ tail[k] = p[2 * h + k]
        /\ sam_int8_dot_scalar(sa, sb) = SumTo(tail, m)
    <2> HIDE DEF sa, sb, m
    <2>1. /\ \A k \in 1 .. m : tail[k] \in Int
          /\ sam_int8_dot_scalar(sa, sb) = SumTo(tail, m)
      BY <1>2, <1>4, ScalarIs
    <2>2. ASSUME NEW k \in 1 .. m PROVE tail[k] = p[2 * h + k]
      <3>1. tail[k] = sa[k] * sb[k]
        BY <1>4 DEF Products1
      <3>2. 2 * h + k \in 1 .. n
        BY <1>1 DEF m
      <3> QED
        BY <1>4, <1>5, <3>1, <3>2
    <2> QED
      BY <2>1, <2>2
  <1>7. \A k \in 1 .. h :
           /\ Pair(a, b, k) \in Int
           /\ Pair(a, b, k) = p[2 * k - 1] + p[2 * k] + 128 * (b[2 * k - 1] + b[2 * k])
    <2> TAKE k \in 1 .. h
    <2>1. 2 * k \in 1 .. n /\ 2 * k - 1 \in 1 .. n
      BY <1>1
    <2>2. ExactPair(a, b, k)
      <3>1. k \in Nat /\ k >= 1 /\ 2 * k <= n
        BY <1>1
      <3> QED
        BY <1>2, <3>1, PairsExact, Zenon
    <2>3. Pair(a, b, k) \in Int
      <3>1. (a[2 * k - 1] + 128) * b[2 * k - 1] + (a[2 * k] + 128) * b[2 * k] \in Int
        BY <1>2, <2>1
      <3> QED
        BY <3>1 DEF Pair, Sat16
    <2>4. Pair(a, b, k) - 128 * (b[2 * k - 1] + b[2 * k]) = p[2 * k - 1] + p[2 * k]
      BY <1>5, <2>1, <2>2 DEF ExactPair, PlainPair
    <2> QED
      BY SMTT(30), <1>2, <1>5, <2>1, <2>3, <2>4
  <1> HIDE DEF p, tail, sa, sb
  <1>8. SumFunction(pairs) = SumTo(pairs, h)
    <2>1. DOMAIN pairs = 1 .. h /\ \A k \in 1 .. h : pairs[k] \in Int
      BY <1>7
    <2> HIDE DEF pairs
    <2> QED
      BY <2>1, SumOnInterval DEF SumFunction
  <1>9. SumFunctionOnSet(b, 1 .. 2 * h) = SumTo(b, 2 * h)
    <2>1. \A k \in 1 .. 2 * h : b[k] \in Int
      BY <1>1, <1>2
    <2> QED
      BY <2>1, SumOnInterval
  <1>10. /\ SumTo(p, 0) = 0 /\ SumTo(b, 0) = 0
         /\ \A k \in 0 .. n : SumTo(p, k) \in Int /\ SumTo(b, k) \in Int
         /\ \A k \in 1 .. n : /\ SumTo(p, k) = SumTo(p, k - 1) + p[k]
                              /\ SumTo(b, k) = SumTo(b, k - 1) + b[k]
    BY <1>2, <1>5, SumToFacts
  <1>11. SumTo(pairs, h) = SumTo(p, 2 * h) + 128 * SumTo(b, 2 * h)
    <2> DEFINE s == [k \in 0 .. h |-> SumTo(p, 2 * k) + 128 * SumTo(b, 2 * k)]
    <2>1. s[0] = 0
      BY <1>10
    <2>2. ASSUME NEW k \in 1 .. h PROVE s[k] = s[k - 1] + pairs[k]
      <3>1. /\ 2 * k \in 1 .. n /\ 2 * k - 1 \in 1 .. n /\ 2 * (k - 1) \in 0 .. n
            /\ (2 * k - 1) - 1 = 2 * (k - 1) /\ k - 1 \in 0 .. h
        BY <1>1
      <3>2. SumTo(p, 2 * k) = SumTo(p, 2 * (k - 1)) + p[2 * k - 1] + p[2 * k]
        BY <1>5, <1>10, <3>1
      <3>3. SumTo(b, 2 * k) = SumTo(b, 2 * (k - 1)) + b[2 * k - 1] + b[2 * k]
        BY <1>2, <1>10, <3>1
      <3>4. pairs[k] = p[2 * k - 1] + p[2 * k] + 128 * (b[2 * k - 1] + b[2 * k])
        BY <1>7
      <3>5. /\ s[k] = SumTo(p, 2 * k) + 128 * SumTo(b, 2 * k)
            /\ s[k - 1] = SumTo(p, 2 * (k - 1)) + 128 * SumTo(b, 2 * (k - 1))
        BY <3>1
      <3>6. /\ p[2 * k - 1] \in Int /\ p[2 * k] \in Int
            /\ b[2 * k - 1] \in Int /\ b[2 * k] \in Int
            /\ SumTo(p, 2 * (k - 1)) \in Int /\ SumTo(b, 2 * (k - 1)) \in Int
        BY <1>2, <1>5, <1>10, <3>1
      <3>7. s[k] = s[k - 1] + (p[2 * k - 1] + p[2 * k] + 128 * (b[2 * k - 1] + b[2 * k]))
        <4> DEFINE x == SumTo(p, 2 * (k - 1))
                   y == SumTo(b, 2 * (k - 1))
                   u == p[2 * k - 1]
                   v == p[2 * k]
                   g == b[2 * k - 1]
                   f == b[2 * k]
        <4>1. /\ s[k] = ((x + u) + v) + 128 * ((y + g) + f)
              /\ s[k - 1] = x + 128 * y
          BY <3>2, <3>3, <3>5
        <4>2. x \in Int /\ y \in Int /\ u \in Int /\ v \in Int /\ g \in Int /\ f \in Int
          BY <3>6
        <4> DEFINE now == s[k]
                   before == s[k - 1]
        <4> HIDE DEF x, y, u, v, g, f, s, pairs
        <4>3. now = ((x + u) + v) + 128 * ((y + g) + f) /\ before = x + 128 * y
          BY <4>1
        <4> HIDE DEF now, before
        <4>4. now = before + (u + v + 128 * (g + f))
          BY ONLY <4>2, <4>3
        <4> QED
          BY <4>4 DEF u, v, g, f, now, before
      <3> HIDE DEF s, pairs
      <3> QED
        BY <3>4, <3>7
    <2>3. s[h] = SumTo(p, 2 * h) + 128 * SumTo(b, 2 * h)
      OBVIOUS
    <2> HIDE DEF s, pairs
    <2> QED
      BY <2>1, <2>2, <2>3, SumToIs
  <1>12. SumTo(tail, m) = SumTo(p, n) - SumTo(p, 2 * h)
    <2> DEFINE s == [k \in 0 .. m |-> SumTo(p, 2 * h + k) - SumTo(p, 2 * h)]
    <2>1. s[0] = 0 /\ s[m] = SumTo(p, n) - SumTo(p, 2 * h)
      BY <1>1, <1>10
    <2>2. ASSUME NEW k \in 1 .. m PROVE s[k] = s[k - 1] + tail[k]
      <3>1. /\ 2 * h + k \in 1 .. n /\ 2 * h + k - 1 \in 0 .. n /\ 2 * h \in 0 .. n
            /\ 2 * h + (k - 1) = 2 * h + k - 1 /\ k - 1 \in 0 .. m
        BY <1>1
      <3>2. /\ s[k] = SumTo(p, 2 * h + k) - SumTo(p, 2 * h)
            /\ s[k - 1] = SumTo(p, 2 * h + k - 1) - SumTo(p, 2 * h)
        BY <3>1
      <3>3. SumTo(p, 2 * h + k) = SumTo(p, 2 * h + k - 1) + p[2 * h + k]
        BY <1>10, <3>1
      <3>4. tail[k] = p[2 * h + k] /\ tail[k] \in Int
        BY <1>6
      <3>5. SumTo(p, 2 * h + k - 1) \in Int /\ SumTo(p, 2 * h) \in Int
        BY <1>10, <3>1
      <3> HIDE DEF s
      <3> QED
        BY <3>2, <3>3, <3>4, <3>5
    <2> HIDE DEF s, m
    <2> QED
      BY <1>2, <2>1, <2>2, SumToIs
  <1>13. /\ SumTo(p, 2 * h) \in Int /\ SumTo(b, 2 * h) \in Int /\ SumTo(p, n) \in Int
    BY <1>1, <1>10
  <1> QED
    BY <1>3, <1>5, <1>6, <1>8, <1>9, <1>11, <1>12, <1>13

\* A multiple of a size is at least one size away from the next.
LEMMA NextMultiple ==
    ASSUME NEW size \in Nat, NEW a \in Int, NEW b \in Int, a < b
    PROVE  a * size + size <= b * size
  <1>1. PICK d \in Nat : b = a + 1 + d
    BY b - a - 1 \in Nat /\ b = a + 1 + (b - a - 1)
  <1>2. b * size = a * size + size + d * size
    BY <1>1
  <1>3. d * size >= 0
    OBVIOUS
  <1>4. a * size \in Int /\ d * size \in Int /\ b * size \in Int
    OBVIOUS
  <1> QED
    BY <1>2, <1>3, <1>4

\* Row a, column b, and back.
LEMMA Position ==
    ASSUME NEW size \in Nat \ {0}, NEW a \in Nat, NEW b \in 0 .. size - 1
    PROVE  (a * size + b) \div size = a /\ (a * size + b) % size = b
  <1> DEFINE n == a * size + b
             q == n \div size
             m == n % size
  <1>1. n \in Nat /\ q \in Int /\ m \in 0 .. size - 1 /\ n = size * q + m
    OBVIOUS
  <1> HIDE DEF q, m
  <1>2. ~ q < a
    BY <1>1, NextMultiple
  <1>3. ~ a < q
    BY <1>1, NextMultiple
  <1> QED
    BY <1>1, <1>2, <1>3 DEF q, m

\* Each path of the dispatch computes the scalar kernel's sum.
LEMMA DotIsScalar ==
    ASSUME NEW n \in Nat, NEW a \in Seq(Int8), NEW b \in Seq(Int8), Len(a) = n, Len(b) = n,
           \A k \in 1 .. n : b[k] \in Weight, NEW level, NEW built
    PROVE  sam_int8_dot(level, built, a, b) = sam_int8_dot_scalar(a, b)
  <1>1. Lanes \in Nat \ {0} /\ Lanes % 2 = 0
    BY SimdAssumptions
  <1>2. 2 * Lanes \in Nat \ {0} /\ (2 * Lanes) % 2 = 0
    BY <1>1
  <1>3. sam_int8_dot_sse42(a, b) = sam_int8_dot_scalar(a, b)
    BY <1>1, VectorIsScalar DEF sam_int8_dot_sse42
  <1>4. sam_int8_dot_avx2(a, b) = sam_int8_dot_scalar(a, b)
    <2> DEFINE lanes == 2 * Lanes
    <2>1. lanes \in Nat \ {0} /\ lanes % 2 = 0
      BY <1>2
    <2> HIDE DEF lanes
    <2>2. DotVector(a, b, lanes) = sam_int8_dot_scalar(a, b)
      BY <2>1, VectorIsScalar
    <2> QED
      BY <2>2 DEF lanes, sam_int8_dot_avx2
  <1> QED
    BY <1>3, <1>4, Zenon DEF sam_int8_dot

\* Row i of a matrix stored row by row.
LEMMA RowIs ==
    ASSUME NEW S, NEW r \in Nat, NEW K \in Nat, NEW f \in [1 .. r * K -> S],
           NEW i \in 0 .. r - 1
    PROVE  /\ SubSeq(f, i * K + 1, i * K + K) \in Seq(S)
           /\ Len(SubSeq(f, i * K + 1, i * K + K)) = K
           /\ \A k \in 1 .. K : /\ i * K + k \in 1 .. r * K
                                /\ SubSeq(f, i * K + 1, i * K + K)[k] = f[i * K + k]
  <1> DEFINE m == i * K
             all == r * K
  <1>1. m \in Nat /\ all \in Nat /\ m + K <= all
    BY NextMultiple
  <1> HIDE DEF m, all
  <1>2. \A k \in m + 1 .. m + K : k \in 1 .. all /\ f[k] \in S
    <2>1. f \in [1 .. all -> S]
      BY DEF all
    <2> QED
      BY <1>1, <2>1
  <1>3. /\ SubSeq(f, m + 1, m + K) \in Seq(S)
        /\ Len(SubSeq(f, m + 1, m + K)) = IF m + 1 <= m + K THEN (m + K) - (m + 1) + 1 ELSE 0
        /\ \A k \in 1 .. (m + K) - (m + 1) + 1 :
             SubSeq(f, m + 1, m + K)[k] = f[(m + 1) + k - 1]
    <2>1. m + 1 \in Int /\ m + K \in Int
      BY <1>1
    <2> QED
      BY <1>2, <2>1, SubSeqProperties
  <1>4. (m + K) - (m + 1) + 1 = K /\ \A k \in 1 .. K : (m + 1) + k - 1 = m + k
    BY <1>1
  <1>5. (IF m + 1 <= m + K THEN K ELSE 0) = K
    BY <1>1
  <1>6. \A k \in 1 .. K : m + k \in 1 .. all
    BY <1>1
  <1>7. /\ SubSeq(f, m + 1, m + K) \in Seq(S)
        /\ Len(SubSeq(f, m + 1, m + K)) = K
        /\ \A k \in 1 .. K : SubSeq(f, m + 1, m + K)[k] = f[m + k]
    BY <1>3, <1>4, <1>5
  <1> QED
    BY <1>6, <1>7 DEF m, all

\* Element (i, j) of the product.
LEMMA ElementIs ==
    ASSUME NEW p \in Products, \A k \in DOMAIN p.BT : p.BT[k] \in Weight,
           NEW level, NEW built, NEW i \in 0 .. p.M - 1, NEW j \in 0 .. p.N - 1
    PROVE  sam_int8_matmul(level, built, p.A, p.BT, p.M, p.K, p.N)[i * p.N + j + 1]
             = SumFunction([k \in 1 .. p.K |-> p.A[i * p.K + k] * p.BT[j * p.K + k]])
  <1>1. /\ p.M \in Nat /\ p.K \in Nat /\ p.N \in Nat
        /\ p.A \in [1 .. p.M * p.K -> Int8] /\ p.BT \in [1 .. p.N * p.K -> Int8]
    BY ProductAssumption
  <1> DEFINE N == p.N
             K == p.K
             c == i * N + j + 1
             a == SubSeq(p.A, i * K + 1, i * K + K)
             b == SubSeq(p.BT, j * K + 1, j * K + K)
             A == p.A
             BT == p.BT
             f == [k \in 1 .. K |-> p.A[i * K + k] * p.BT[j * K + k]]
  <1>2. c \in 1 .. p.M * N /\ (c - 1) \div N = i /\ (c - 1) % N = j
    <2> DEFINE M == p.M
               before == i * N
               all == M * N
    <2>1. N \in Nat \ {0} /\ M \in Nat /\ i \in Nat /\ i \in Int /\ M \in Int /\ i < M
          /\ j \in 0 .. N - 1
      BY <1>1
    <2> HIDE DEF N, M
    <2>2. before + N <= all /\ before \in Nat /\ all \in Nat
      BY <2>1, NextMultiple
    <2>3. (before + j) \div N = i /\ (before + j) % N = j
      BY <2>1, Position
    <2> HIDE DEF before, all
    <2>4. before + j + 1 \in 1 .. all /\ (before + j + 1) - 1 = before + j
      BY <2>1, <2>2
    <2> QED
      BY <2>3, <2>4 DEF before, all, M
  <1>3. sam_int8_matmul(level, built, p.A, p.BT, p.M, p.K, p.N)[c]
          = sam_int8_dot(level, built, a, b)
    <2> HIDE DEF c
    <2>1. sam_int8_matmul(level, built, p.A, p.BT, p.M, p.K, p.N)[c]
            = sam_int8_dot(level, built,
                SubSeq(p.A, ((c - 1) \div N) * K + 1, ((c - 1) \div N) * K + K),
                SubSeq(p.BT, ((c - 1) % N) * K + 1, ((c - 1) % N) * K + K))
      BY <1>2 DEF sam_int8_matmul
    <2> QED
      BY <1>2, <2>1
  <1>4. /\ a \in Seq(Int8) /\ Len(a) = K /\ b \in Seq(Int8) /\ Len(b) = K
        /\ \A k \in 1 .. K : /\ a[k] = p.A[i * K + k] /\ b[k] = p.BT[j * K + k]
                             /\ j * K + k \in DOMAIN p.BT
    <2> DEFINE M == p.M
    <2>0. /\ M \in Nat /\ K \in Nat /\ N \in Nat
          /\ A \in [1 .. M * K -> Int8] /\ BT \in [1 .. N * K -> Int8]
          /\ i \in 0 .. M - 1 /\ j \in 0 .. N - 1
      BY <1>1
    <2>1. /\ a \in Seq(Int8) /\ Len(a) = K
          /\ \A k \in 1 .. K : a[k] = A[i * K + k]
      <3> HIDE DEF K, M, A
      <3>1. M \in Nat /\ K \in Nat /\ A \in [1 .. M * K -> Int8] /\ i \in 0 .. M - 1
        BY <2>0
      <3>2. /\ SubSeq(A, i * K + 1, i * K + K) \in Seq(Int8)
            /\ Len(SubSeq(A, i * K + 1, i * K + K)) = K
            /\ \A k \in 1 .. K : /\ i * K + k \in 1 .. M * K
                                 /\ SubSeq(A, i * K + 1, i * K + K)[k] = A[i * K + k]
        BY <3>1, RowIs
      <3> QED
        BY <3>2 DEF A
    <2>2. /\ b \in Seq(Int8) /\ Len(b) = K
          /\ \A k \in 1 .. K : j * K + k \in 1 .. N * K /\ b[k] = BT[j * K + k]
      <3> HIDE DEF K, N, BT
      <3>1. N \in Nat /\ K \in Nat /\ BT \in [1 .. N * K -> Int8] /\ j \in 0 .. N - 1
        BY <2>0
      <3>2. /\ SubSeq(BT, j * K + 1, j * K + K) \in Seq(Int8)
            /\ Len(SubSeq(BT, j * K + 1, j * K + K)) = K
            /\ \A k \in 1 .. K : /\ j * K + k \in 1 .. N * K
                                 /\ SubSeq(BT, j * K + 1, j * K + K)[k] = BT[j * K + k]
        BY <3>1, RowIs
      <3> QED
        BY <3>2 DEF BT
    <2>3. DOMAIN BT = 1 .. N * K
      BY <2>0
    <2> HIDE DEF a, b, K, N, M
    <2> QED
      BY <2>1, <2>2, <2>3
  <1>5. \A k \in 1 .. K : b[k] \in Weight
    BY <1>4
  <1>6. \A k \in 1 .. K : a[k] \in Int8 /\ b[k] \in Int8
    <2> HIDE DEF a, b, K
    <2> QED
      BY <1>4, ElementOfSeq
  <1>7. /\ DOMAIN a = 1 .. K
        /\ \A k \in 1 .. K : a[k] \in Int /\ b[k] \in Int
    <2>1. \A x \in Int8 : x \in Int
      BY DEF Int8
    <2> HIDE DEF a, b, K
    <2> QED
      BY <1>4, <1>6, <2>1, LenProperties
  <1>8. f = Products1(a, b)
    <2> HIDE DEF a, b, K
    <2> QED
      BY <1>4, <1>7 DEF Products1
  <1>9. K \in Nat
    BY <1>1
  <1> HIDE DEF a, b, K, f
  <1>10. sam_int8_dot(level, built, a, b) = sam_int8_dot_scalar(a, b)
    BY <1>4, <1>5, <1>9, DotIsScalar
  <1>11. sam_int8_dot_scalar(a, b) = SumFunction(Products1(a, b))
    BY DEF sam_int8_dot_scalar, Products1
  <1> QED
    BY <1>3, <1>8, <1>10, <1>11 DEF c, f, K

------------------------------------------------------------------------------
(***************************************************************************)
(* Every call's result stands until the next stage                         *)
(***************************************************************************)

CallInv ==
    /\ stage \in 1 .. 9 /\ called \in BOOLEAN
    /\ After("acpi") => in \in Firmwares /\ out = acpi_init(in)
    /\ After("tags") => in \in Infos /\ out = TagsRead(in)
    /\ After("cpu") => in \in Cpus /\ out = CpuRead(in)
    /\ After("pci") => in \in Pcis /\ out = mcp_scan_pci(in)
    /\ After("matmul") => /\ in \in Products
                          /\ \E level \in {SCALAR, SSE42, AVX2}, built \in BOOLEAN :
                               out = sam_int8_matmul(level, built, in.A, in.BT, in.M, in.K, in.N)
    /\ After("stf") => in \in Models /\ out = ModelRead(in)
    /\ After("args") =>
          /\ in \in Lines
          /\ out = sam_build_args([a \in Stack |-> OLD], StackTop, cmd_run(in))

LEMMA CallsKept == Spec => []CallInv
  <1>1. Init => CallInv
    <2>1. Init => stage \in 1 .. 9 /\ called = FALSE
      BY DEF Init
    <2> QED
      BY <2>1 DEF CallInv, After
  <1>2. CallInv /\ [Next]_vars => CallInv'
    <2> SUFFICES ASSUME CallInv, [Next]_vars PROVE CallInv'
      OBVIOUS
    <2>1. CASE ReadAcpi
      BY <2>1 DEF CallInv, ReadAcpi, At, Answer, After
    <2>2. CASE ReadTags
      BY <2>2 DEF CallInv, ReadTags, At, Answer, After
    <2>3. CASE ReadCpu
      BY <2>3 DEF CallInv, ReadCpu, At, Answer, After
    <2>4. CASE ReadPci
      BY <2>4 DEF CallInv, ReadPci, At, Answer, After
    <2>5. CASE Multiply
      BY <2>5 DEF CallInv, Multiply, At, Answer, After
    <2>6. CASE ReadModel
      BY <2>6 DEF CallInv, ReadModel, At, Answer, After
    <2>7. CASE BuildArgs
      BY <2>7 DEF CallInv, BuildArgs, At, Answer, After
    <2>8. CASE Mount
      BY <2>8 DEF CallInv, Mount, At, Answer, After
    <2>9. CASE LoadProgram
      BY <2>9 DEF CallInv, LoadProgram, At, Answer, After
    <2>10. CASE NextStage
      <3>1. stage' \in 1 .. 9 /\ called' = FALSE
        BY <2>10 DEF CallInv, NextStage, Stages
      <3> QED
        BY <3>1 DEF CallInv, After
    <2>11. CASE ProgramOver
      BY <2>11 DEF CallInv, ProgramOver, After
    <2>12. CASE UNCHANGED vars
      BY <2>12 DEF CallInv, vars, After
    <2> QED
      BY <2>1, <2>2, <2>3, <2>4, <2>5, <2>6, <2>7, <2>8, <2>9, <2>10, <2>11, <2>12 DEF Next
  <1> QED
    BY <1>1, <1>2, PTL DEF Spec

\* Whatever CPUID says, the two decisions agree where AVX2 implies AVX and AVX SSE4.2,
\* and cores are at least one and never more than threads.
THEOREM CpuDecisionsAgree == Spec => []CpuAgrees
  <1>1. ASSUME NEW cpu \in Cpus
        PROVE  /\ (cpu.avx2 => cpu.avx) /\ (cpu.avx => cpu.sse42)
                    => CpuRead(cpu).mcp.simd_level = CpuRead(cpu).level
               /\ 1 <= CpuRead(cpu).mcp.cpu_cores
               /\ CpuRead(cpu).mcp.cpu_cores <= CpuRead(cpu).mcp.cpu_threads
    <2>1. cpu.logical \in Nat /\ cpu.ids \in Nat
      BY CpuAssumption
    <2> QED
      BY <2>1 DEF CpuRead, mcp_scan_cpu, Cores, sam_simd_init, SCALAR, SSE42, AVX2
  <1>2. CallInv => CpuAgrees
    BY <1>1 DEF CallInv, CpuAgrees
  <1> QED
    BY <1>2, CallsKept, PTL

\* sam_int8_matmul's result is the product on every path, for matrices of every size, as
\* long as the second one's elements stay within 64.
THEOREM MatmulIsExact == Spec => []ProductExact
  <1>1. CallInv => ProductExact
    <2> SUFFICES ASSUME CallInv, After("matmul"), \A k \in DOMAIN in.BT : in.BT[k] \in -64 .. 64,
                        NEW i \in 0 .. in.M - 1, NEW j \in 0 .. in.N - 1
                 PROVE  out[i * in.N + j + 1]
                          = SumFunction([k \in 1 .. in.K |->
                                           in.A[i * in.K + k] * in.BT[j * in.K + k]])
      BY DEF ProductExact
    <2>1. in \in Products
      BY DEF CallInv
    <2>2. PICK level \in {SCALAR, SSE42, AVX2}, built \in BOOLEAN :
             out = sam_int8_matmul(level, built, in.A, in.BT, in.M, in.K, in.N)
      BY DEF CallInv
    <2>3. \A k \in DOMAIN in.BT : in.BT[k] \in Weight
      BY DEF Weight
    <2> QED
      BY <2>1, <2>2, <2>3, ElementIs
  <1> QED
    BY <1>1, CallsKept, PTL

\* Every nonempty set of naturals has a least element, which Min returns.
LEMMA MinFacts ==
    ASSUME NEW T, T \subseteq Nat, T # {}
    PROVE  Min(T) \in T /\ \A x \in T : Min(T) <= x
  <1> DEFINE Above == {n \in Nat : \A x \in T : x >= n}
  <1>1. CASE \E x \in T : \A y \in T : x <= y
    BY <1>1 DEF Min
  <1>2. CASE ~ \E x \in T : \A y \in T : x <= y
    <2>1. 0 \in Above
      OBVIOUS
    <2>2. ASSUME NEW n \in Nat, n \in Above PROVE n + 1 \in Above
      BY <1>2, <2>2
    <2>3. Nat \subseteq Above
      <3> HIDE DEF Above
      <3> QED
        BY <2>1, <2>2, NatSetInduction
    <2>4. PICK x \in T : TRUE
      OBVIOUS
    <2>5. x + 1 \in Above
      BY <2>3
    <2> QED
      BY <2>5
  <1> QED
    BY <1>1, <1>2

\* stf_find's answer is a descriptor of the table, or 0.
LEMMA FoundInTable ==
    ASSUME NEW m \in Models, NEW name, stf_load(m) = 0
    PROVE  stf_find(m, name) \in 0 .. Len(m.tensors)
  <1> DEFINE table == SubSeq(m.tensors, 1, m.n_tensors)
             found == {k \in 1 .. Len(table) : table[k].name = name}
  <1>1. /\ m.n_tensors \in Nat /\ m.n_tensors <= Len(m.tensors)
        /\ m.tensors \in Seq([name : STRING, data_offset : Nat, data_bytes : Nat])
    BY ModelAssumption
  <1>2. Len(table) = m.n_tensors
    BY <1>1
  <1>3. found \subseteq 1 .. Len(m.tensors) /\ found \subseteq Nat
    BY <1>1, <1>2
  <1>4. stf_find(m, name) = IF found # {} THEN Min(found) ELSE 0
    BY DEF stf_find, SelectInSeq
  <1> HIDE DEF found, table
  <1>5. found # {} => Min(found) \in found
    BY <1>3, MinFacts
  <1>6. Len(m.tensors) \in Nat
    BY <1>1
  <1>7. \A n \in Nat : 1 .. n \subseteq 0 .. n
    OBVIOUS
  <1>8. 0 \in 0 .. Len(m.tensors)
    BY <1>6
  <1> QED
    BY <1>3, <1>4, <1>5, <1>6, <1>7, <1>8, Zenon

\* kernel_main's pointer to the tensor it looks for lies in the model file.
THEOREM TensorStaysInModule == Spec => []TensorInModule
  <1>1. ASSUME NEW m \in Models, stf_load(m) = 0, ModelRead(m).ret # 0
        PROVE  PointerSound(m, m.tensors[ModelRead(m).ret])
    <2> DEFINE k == stf_find(m, "token_embd.weight")
    <2>1. ModelRead(m).ret = k
      BY <1>1 DEF ModelRead
    <2>2. k \in 1 .. Len(m.tensors)
      BY <1>1, <2>1, FoundInTable
    <2> HIDE DEF k
    <2>3. /\ m.size \in Nat /\ m.n_tensors \in Nat /\ m.data_offset \in Nat
          /\ m.tensors \in Seq([name : STRING, data_offset : Nat, data_bytes : Nat])
      BY ModelAssumption
    <2>4. m.tensors[k].data_offset \in Nat /\ m.tensors[k].data_bytes \in Nat
      <3>1. m.tensors[k] \in [name : STRING, data_offset : Nat, data_bytes : Nat]
        BY <2>2, <2>3, ElementOfSeq
      <3> QED
        BY <3>1
    <2>5. PointerSound(m, m.tensors[k])
      BY <1>1, <2>3, <2>4, TensorPointerSound
    <2> QED
      BY <2>1, <2>5
  <1>2. CallInv => TensorInModule
    BY <1>1 DEF CallInv, TensorInModule
  <1> QED
    BY <1>2, CallsKept, PTL
------------------------------------------------------------------------------
(***************************************************************************)
(* The ELF loader                                                          *)
(***************************************************************************)

\* The first n headers' segments that cover address a, the byte segment k has there, and
\* the memory after those segments: each lies over the ones before it.
Covering(img, n, a) ==
    {k \in 1 .. n : img.phs[k].load /\ a \in img.phs[k].vaddr
                                             .. img.phs[k].vaddr + img.phs[k].memsz - 1}

SegmentByte(img, at, k, a) ==
    IF a < img.phs[k].vaddr + img.phs[k].filesz
      THEN at + img.phs[k].offset + a - img.phs[k].vaddr ELSE ZERO

Painted(img, at, before, n) ==
    [a \in DOMAIN before |->
        IF Covering(img, n, a) = {} THEN before[a]
        ELSE SegmentByte(img, at, Max(Covering(img, n, a)), a)]

Loads(img, n) == {k \in 1 .. n : img.phs[k].load}

\* The headers at which the loop stops with an error.
Wrong(img, size, lo, hi) ==
    {k \in 1 .. Len(img.phs) : HeaderError(img, size, lo, hi, k) # 0}

\* A set of numbers up to n + 1 that holds n + 1 has it as its largest.
LEMMA MaxIsLast ==
    ASSUME NEW n \in Nat, NEW T, T \subseteq 1 .. n + 1, n + 1 \in T
    PROVE  Max(T) = n + 1
  <1>1. \A x \in T : n + 1 >= x
    OBVIOUS
  <1>2. \A y \in T : (\A x \in T : y >= x) => y = n + 1
    OBVIOUS
  <1> QED
    BY <1>1, <1>2 DEF Max

\* One more segment.
LEMMA PaintedTurn ==
    ASSUME NEW img \in Images, \A k \in DOMAIN img.phs : img.phs[k].filesz <= img.phs[k].memsz,
           NEW at \in Int, NEW before, DOMAIN before \subseteq Int,
           NEW n \in Nat, n + 1 <= Len(img.phs)
    PROVE  Painted(img, at, before, n + 1)
             = IF img.phs[n + 1].load
               THEN Copied(Painted(img, at, before, n), at, img.phs[n + 1])
               ELSE Painted(img, at, before, n)
  <1> DEFINE ph == img.phs[n + 1]
             D == DOMAIN before
             P(k) == Painted(img, at, before, k)
  <1>1. /\ ph.load \in BOOLEAN /\ ph.vaddr \in Nat /\ ph.offset \in Nat
        /\ ph.filesz \in Nat /\ ph.memsz \in Nat /\ ph.filesz <= ph.memsz
    <2>1. img.phs \in Seq(Headers)
      BY DEF Images
    <2>2. n + 1 \in 1 .. Len(img.phs) /\ n + 1 \in DOMAIN img.phs
      BY <2>1
    <2>3. ph \in Headers
      BY <2>1, <2>2, ElementOfSeq
    <2> QED
      BY <2>2, <2>3 DEF Headers
  <1>2. ASSUME NEW a \in D
        PROVE  Covering(img, n + 1, a)
                 = IF ph.load /\ a \in ph.vaddr .. ph.vaddr + ph.memsz - 1
                   THEN Covering(img, n, a) \cup {n + 1} ELSE Covering(img, n, a)
    <2>1. \A k : k \in 1 .. n + 1 <=> k \in 1 .. n \/ k = n + 1
      OBVIOUS
    <2> QED
      BY <2>1 DEF Covering
  <1>3. ASSUME NEW a \in D, ~ (ph.load /\ a \in ph.vaddr .. ph.vaddr + ph.memsz - 1)
        PROVE  P(n + 1)[a] = P(n)[a]
    BY <1>2, <1>3 DEF Painted
  <1>4. ASSUME NEW a \in D, ph.load, a \in ph.vaddr .. ph.vaddr + ph.memsz - 1
        PROVE  P(n + 1)[a] = SegmentByte(img, at, n + 1, a)
    <2>1. Covering(img, n + 1, a) \subseteq 1 .. n + 1 /\ n + 1 \in Covering(img, n + 1, a)
      BY <1>2, <1>4 DEF Covering
    <2>2. Max(Covering(img, n + 1, a)) = n + 1
      BY <2>1, MaxIsLast
    <2> QED
      BY <2>1, <2>2 DEF Painted
  <1>5. CASE ~ ph.load
    <2>1. \A a \in D : P(n + 1)[a] = P(n)[a]
      BY <1>3, <1>5
    <2>2. \A k : P(k) = [a \in D |-> P(k)[a]]
      BY DEF Painted
    <2> HIDE DEF P, D
    <2>3. P(n + 1) = P(n)
      BY <2>1, <2>2
    <2> QED
      BY <1>5, <2>3 DEF P
  <1>6. CASE ph.load
    <2> DEFINE Q == Copied(P(n), at, ph)
    <2>1. DOMAIN P(n) = D
      BY DEF Painted
    <2>2. ASSUME NEW a \in D PROVE P(n + 1)[a] = Q[a]
      <3>1. a \in Int
        OBVIOUS
      <3>2. Q[a] = IF a \in ph.vaddr .. ph.vaddr + ph.filesz - 1
                     THEN at + ph.offset + (a - ph.vaddr)
                   ELSE IF a \in ph.vaddr + ph.filesz .. ph.vaddr + ph.memsz - 1 THEN ZERO
                   ELSE P(n)[a]
        <4> HIDE DEF P, D
        <4> QED
          BY <2>1 DEF Copied
      <3>3. CASE a \in ph.vaddr .. ph.vaddr + ph.memsz - 1
        <4>1. P(n + 1)[a] = IF a < ph.vaddr + ph.filesz
                              THEN at + ph.offset + a - ph.vaddr ELSE ZERO
          BY <1>4, <1>6, <3>3 DEF SegmentByte
        <4> HIDE DEF P, Q, D, ph
        <4> QED
          BY <1>1, <3>1, <3>2, <3>3, <4>1
      <3>4. CASE a \notin ph.vaddr .. ph.vaddr + ph.memsz - 1
        <4>1. P(n + 1)[a] = P(n)[a]
          BY <1>3, <3>4
        <4> HIDE DEF P, Q, D, ph
        <4> QED
          BY <1>1, <3>1, <3>2, <3>4, <4>1
      <3> QED
        BY <3>3, <3>4
    <2>3. P(n + 1) = [a \in D |-> P(n + 1)[a]]
      BY DEF Painted
    <2>4. Q = [a \in D |-> Q[a]]
      BY <2>1 DEF Copied
    <2>5. P(n + 1) = Q
      <3> HIDE DEF P, Q, D
      <3> QED
        BY <2>2, <2>3, <2>4
    <2> QED
      BY <1>6, <2>5
  <1> QED
    BY <1>5, <1>6
\* What the loop comes to, `got` being the loader's answer.
LoaderEnd(img, size, at, before, lo, hi, got) ==
    LET n == Len(img.phs)
        bad == Wrong(img, size, lo, hi)
        done == IF bad = {} THEN n ELSE Min(bad) - 1
    IN  IF FileError(img, size) # 0
          THEN got.ret = FileError(img, size) /\ got.mem = before
        ELSE /\ done \in 0 .. n
             /\ got.mem = Painted(img, at, before, done)
             /\ bad # {} => got.ret = HeaderError(img, size, lo, hi, Min(bad))
             /\ bad = {} => got.ret = IF Loads(img, n) = {} THEN -2 ELSE 0

LEMMA LoaderIs ==
    ASSUME NEW img \in Images, \A k \in DOMAIN img.phs : img.phs[k].filesz <= img.phs[k].memsz,
           NEW size, NEW at \in Int, NEW lo, NEW hi,
           NEW before, DOMAIN before \subseteq Int, before = [a \in DOMAIN before |-> before[a]]
    PROVE  LoaderEnd(img, size, at, before, lo, hi,
                     elf_load_in(img, size, at, before, lo, hi))
  <1> DEFINE n == Len(img.phs)
             bad == Wrong(img, size, lo, hi)
             done == IF bad = {} THEN n ELSE Min(bad) - 1
             first == FileError(img, size)
             Going(i) == [ret |-> 0, loaded |-> Cardinality(Loads(img, i)),
                       mem |-> Painted(img, at, before, i)]
             Stopped == [Going(done) EXCEPT !.ret = HeaderError(img, size, lo, hi, Min(bad))]
             f == [i \in 0 .. n |->
                     IF first # 0 THEN [ret |-> first, loaded |-> 0, mem |-> before]
                     ELSE IF i <= done THEN Going(i) ELSE Stopped]
             Obeys(t) == t = [i \in 0 .. n |->
                     IF i = 0 THEN [ret |-> first, loaded |-> 0, mem |-> before]
                     ELSE Segment(img, size, at, lo, hi, t[i - 1], i)]
             st == CHOOSE t : Obeys(t)
  <1>1. n \in Nat /\ DOMAIN img.phs = 1 .. n /\ \A k \in 1 .. n : img.phs[k].load \in BOOLEAN
    <2>1. img.phs \in Seq(Headers)
      BY DEF Images
    <2>2. n \in Nat /\ DOMAIN img.phs = 1 .. n /\ \A k \in 1 .. n : img.phs[k] \in Headers
      <3>1. n \in Nat /\ DOMAIN img.phs = 1 .. n
        BY <2>1
      <3>2. \A k \in 1 .. n : img.phs[k] \in Headers
        BY <2>1, ElementOfSeq
      <3> QED
        BY <3>1, <3>2
    <2> HIDE DEF n
    <2> QED
      BY <2>2 DEF Headers
  <1>2. /\ bad \subseteq 1 .. n
        /\ \A k \in 1 .. n : k \in bad <=> HeaderError(img, size, lo, hi, k) # 0
    BY DEF Wrong
  <1>3. bad # {} => Min(bad) \in bad /\ \A k \in bad : Min(bad) <= k
    <2>1. bad \subseteq Nat
      BY <1>2
    <2> HIDE DEF bad
    <2> QED
      BY <2>1, MinFacts
  <1>4. /\ done \in 0 .. n
        /\ \A k \in 1 .. done : k \notin bad
        /\ done < n => done + 1 = Min(bad) /\ Min(bad) \in bad /\ bad # {}
        /\ bad # {} => done < n
    <2> HIDE DEF bad, n
    <2>1. CASE bad = {}
      <3>1. done = n
        BY <2>1
      <3> HIDE DEF done
      <3> QED
        BY <1>1, <2>1, <3>1
    <2>2. CASE bad # {}
      <3> DEFINE m == Min(bad)
      <3>1. m \in 1 .. n /\ m \in bad /\ \A k \in bad : m <= k
        BY <1>2, <1>3, <2>2
      <3>2. done = m - 1
        BY <2>2
      <3> HIDE DEF done, m
      <3>3. \A k \in 1 .. done : k \notin bad
        BY <1>1, <3>1, <3>2
      <3>4. done \in 0 .. n /\ done < n /\ done + 1 = m
        BY <1>1, <3>1, <3>2
      <3> QED
        BY <2>2, <3>1, <3>3, <3>4 DEF m
    <2> QED
      BY <2>1, <2>2
  <1>5. Going(0) = [ret |-> 0, loaded |-> 0, mem |-> before]
    <2>1. Loads(img, 0) = {} /\ \A a : Covering(img, 0, a) = {}
      BY DEF Loads, Covering
    <2>2. Painted(img, at, before, 0) = before
      BY <2>1 DEF Painted
    <2> QED
      BY <2>1, <2>2, FS_EmptySet
  <1>6. ASSUME NEW i \in Nat, i + 1 <= n
        PROVE  Loads(img, i + 1)
                 = IF img.phs[i + 1].load THEN Loads(img, i) \cup {i + 1} ELSE Loads(img, i)
    <2>1. \A k : k \in 1 .. i + 1 <=> k \in 1 .. i \/ k = i + 1
      OBVIOUS
    <2> QED
      BY <2>1 DEF Loads
  <1>7. ASSUME NEW i \in Nat PROVE IsFiniteSet(Loads(img, i)) /\ i + 1 \notin Loads(img, i)
    <2>1. IsFiniteSet(1 .. i)
      BY FS_Interval
    <2>2. Loads(img, i) \in SUBSET (1 .. i) /\ i + 1 \notin 1 .. i
      BY DEF Loads
    <2> QED
      BY <2>1, <2>2, FS_Subset
  <1>8. ASSUME NEW i \in Nat, i + 1 <= done, first = 0
        PROVE  Segment(img, size, at, lo, hi, Going(i), i + 1) = Going(i + 1)
    <2>1. i + 1 \in 1 .. done /\ i + 1 <= n /\ i + 1 \in 1 .. n
      BY <1>1, <1>4, <1>8
    <2>2. HeaderError(img, size, lo, hi, i + 1) = 0
      BY <1>2, <1>4, <2>1
    <2>3. Going(i).ret = 0
      OBVIOUS
    <2>4. Painted(img, at, before, i + 1)
            = IF img.phs[i + 1].load
              THEN Copied(Painted(img, at, before, i), at, img.phs[i + 1])
              ELSE Painted(img, at, before, i)
      BY <2>1, PaintedTurn
    <2>5. img.phs[i + 1].load \in BOOLEAN
      BY <1>1, <2>1
    <2>6. Cardinality(Loads(img, i + 1))
            = IF img.phs[i + 1].load THEN Cardinality(Loads(img, i)) + 1
              ELSE Cardinality(Loads(img, i))
      <3>1. IsFiniteSet(Loads(img, i)) /\ i + 1 \notin Loads(img, i)
        BY <1>7
      <3>2. Cardinality(Loads(img, i) \cup {i + 1}) = Cardinality(Loads(img, i)) + 1
        BY <3>1, FS_AddElement
      <3>3. Loads(img, i + 1)
              = IF img.phs[i + 1].load THEN Loads(img, i) \cup {i + 1} ELSE Loads(img, i)
        BY <1>6, <2>1
      <3> QED
        BY <2>5, <3>2, <3>3
    <2> QED
      BY <2>2, <2>4, <2>5, <2>6 DEF Segment
  <1>9. ASSUME done < n, first = 0
        PROVE  Segment(img, size, at, lo, hi, Going(done), done + 1) = Stopped
    <2>1. HeaderError(img, size, lo, hi, done + 1) # 0 /\ done + 1 = Min(bad)
      BY <1>2, <1>4, <1>9
    <2>2. Going(done).ret = 0
      OBVIOUS
    <2> HIDE DEF Going, done, bad
    <2> QED
      BY <2>1, <2>2 DEF Segment
  <1>10. ASSUME NEW x, NEW i, x.ret # 0 PROVE Segment(img, size, at, lo, hi, x, i) = x
    BY <1>10 DEF Segment
  <1>11. done < n => Stopped.ret # 0
    <2>1. done < n => HeaderError(img, size, lo, hi, Min(bad)) # 0
      BY <1>2, <1>4
    <2> HIDE DEF done, bad
    <2> QED
      BY <2>1
  <1>12. Obeys(f)
    <2>1. ASSUME NEW i \in 0 .. n
          PROVE  f[i] = IF i = 0 THEN [ret |-> first, loaded |-> 0, mem |-> before]
                        ELSE Segment(img, size, at, lo, hi, f[i - 1], i)
      <3> HIDE DEF n, done, bad, first, Going, Stopped
      <3>1. CASE first # 0
        <4>1. CASE i = 0
          BY <3>1, <4>1
        <4>2. CASE i # 0
          <5>1. /\ f[i] = [ret |-> first, loaded |-> 0, mem |-> before]
                /\ f[i - 1] = [ret |-> first, loaded |-> 0, mem |-> before]
            BY <1>1, <3>1, <4>2
          <5>2. f[i - 1].ret # 0
            BY <3>1, <5>1
          <5> HIDE DEF f
          <5> QED
            BY <1>10, <4>2, <5>1, <5>2
        <4> QED
          BY <4>1, <4>2
      <3>2. CASE first = 0
        <4>1. CASE i = 0
          <5>1. f[0] = Going(0)
            BY <1>1, <1>4, <3>2
          <5> HIDE DEF f
          <5> QED
            BY <1>5, <3>2, <4>1, <5>1
        <4>2. CASE i # 0 /\ i <= done
          <5>1. i - 1 \in Nat /\ (i - 1) + 1 = i /\ i - 1 \in 0 .. n /\ i - 1 <= done
            BY <1>1, <1>4, <4>2
          <5>2. f[i] = Going(i) /\ f[i - 1] = Going(i - 1)
            BY <1>1, <3>2, <4>2, <5>1
          <5>3. Segment(img, size, at, lo, hi, Going(i - 1), (i - 1) + 1) = Going((i - 1) + 1)
            BY <1>8, <3>2, <4>2, <5>1
          <5> HIDE DEF f
          <5> QED
            BY <4>2, <5>1, <5>2, <5>3
        <4>3. CASE i = done + 1
          <5>1. i # 0 /\ i - 1 = done /\ done < n /\ ~ (i <= done) /\ i - 1 \in 0 .. n
            BY <1>1, <1>4, <4>3
          <5>2. f[i] = Stopped /\ f[i - 1] = Going(done)
            BY <1>1, <1>4, <3>2, <5>1
          <5> HIDE DEF f
          <5> QED
            BY <1>9, <3>2, <4>3, <5>1, <5>2
        <4>4. CASE i > done + 1
          <5>1. /\ i # 0 /\ ~ (i <= done) /\ ~ (i - 1 <= done) /\ done < n
                /\ i - 1 \in 0 .. n
            BY <1>1, <1>4, <4>4
          <5>2. f[i] = Stopped /\ f[i - 1] = Stopped
            BY <1>1, <3>2, <5>1
          <5> HIDE DEF f
          <5> QED
            BY <1>10, <1>11, <5>1, <5>2
        <4>5. i = 0 \/ (i # 0 /\ i <= done) \/ i = done + 1 \/ i > done + 1
          BY <1>1, <1>4
        <4> QED
          BY <4>1, <4>2, <4>3, <4>4, <4>5
      <3> QED
        BY <3>1, <3>2
    <2>2. f = [i \in 0 .. n |-> f[i]]
      OBVIOUS
    <2> HIDE DEF f, n, first
    <2> QED
      BY <2>1, <2>2
  <1>13. Obeys(st)
    <2> HIDE DEF Obeys, f
    <2> QED
      BY <1>12
  <1>14. elf_load_in(img, size, at, before, lo, hi)
           = IF st[n].ret = 0 /\ st[n].loaded = 0 THEN [st[n] EXCEPT !.ret = -2] ELSE st[n]
    BY DEF elf_load_in
  <1>15. st[n] = f[n]
    <2> DEFINE Same == {i \in Nat : i <= n => st[i] = f[i]}
    <2> HIDE DEF f, st, n, first
    <2>1. 0 \in Same
      <3>1. 0 \in 0 .. n
        BY <1>1
      <3> QED
        BY <1>12, <1>13, <3>1
    <2>2. ASSUME NEW i \in Nat, i \in Same PROVE i + 1 \in Same
      <3>1. CASE i + 1 <= n
        <4>1. i + 1 \in 0 .. n /\ i + 1 # 0 /\ (i + 1) - 1 = i /\ st[i] = f[i]
          BY <1>1, <2>2, <3>1
        <4>2. f[i + 1] = Segment(img, size, at, lo, hi, f[(i + 1) - 1], i + 1)
          BY <1>12, <4>1
        <4>3. st[i + 1] = Segment(img, size, at, lo, hi, st[(i + 1) - 1], i + 1)
          BY <1>13, <4>1
        <4> QED
          BY <4>1, <4>2, <4>3
      <3>2. CASE ~ (i + 1 <= n)
        BY <3>2
      <3> QED
        BY <3>1, <3>2
    <2>3. n \in Same
      <3> HIDE DEF Same
      <3> QED
        BY <1>1, <2>1, <2>2, NatSetInduction
    <2> QED
      BY <2>3
  <1>16. CASE first # 0
    <2>1. f[n] = [ret |-> first, loaded |-> 0, mem |-> before]
      BY <1>1, <1>16
    <2> HIDE DEF f, st, n, first
    <2>2. LET got == elf_load_in(img, size, at, before, lo, hi)
          IN  got.ret = first /\ got.mem = before
      BY <1>14, <1>15, <1>16, <2>1
    <2> QED
      BY <1>16, <2>2 DEF LoaderEnd, first
  <1>17. CASE first = 0
    <2>1. f[n] = IF done < n THEN Stopped ELSE Going(n)
      <3> HIDE DEF Going, Stopped, first, n, done
      <3> QED
        BY <1>1, <1>4, <1>17
    <2> HIDE DEF f, st, n, done, bad
    <2> DEFINE got == elf_load_in(img, size, at, before, lo, hi)
    <2>2. CASE done < n
      <3>1. /\ Stopped.ret = HeaderError(img, size, lo, hi, Min(bad))
            /\ Stopped.mem = Painted(img, at, before, done)
        OBVIOUS
      <3>2. got = Stopped
        <4> HIDE DEF Going, Stopped, first
        <4> QED
          BY <1>11, <1>14, <1>15, <2>1, <2>2
      <3>3. bad # {}
        BY <1>4, <2>2
      <3> HIDE DEF got, Stopped
      <3> QED
        BY <1>4, <1>17, <3>1, <3>2, <3>3 DEF LoaderEnd, first, n, done, bad, got
    <2>3. CASE ~ (done < n)
      <3>1. bad = {} /\ done = n
        BY <1>1, <1>4, <2>3
      <3>2. Cardinality(Loads(img, n)) = 0 <=> Loads(img, n) = {}
        BY <1>1, <1>7, FS_EmptySet
      <3>3. f[n] = Going(n)
        BY <2>1, <2>3
      <3>4. /\ got.mem = Painted(img, at, before, n)
            /\ got.ret = IF Loads(img, n) = {} THEN -2 ELSE 0
        <4>1. Going(n).ret = 0 /\ Going(n).loaded = Cardinality(Loads(img, n))
              /\ Going(n).mem = Painted(img, at, before, n)
          OBVIOUS
        <4>2. [Going(n) EXCEPT !.ret = -2].ret = -2
              /\ [Going(n) EXCEPT !.ret = -2].mem = Painted(img, at, before, n)
          OBVIOUS
        <4> HIDE DEF Going
        <4> QED
          BY <1>14, <1>15, <3>2, <3>3, <4>1, <4>2
      <3> HIDE DEF got
      <3> QED
        BY <1>4, <1>17, <3>1, <3>4 DEF LoaderEnd, first, n, done, bad, got
    <2> QED
      BY <2>2, <2>3
  <1> QED
    BY <1>16, <1>17
\* What the loader accepts: the headers lie in the file, some segment is to be loaded,
\* and each of those lies in the window and in the file.
SoundImage(img, size, lo, hi) ==
    /\ img.ident /\ EhdrSize <= size /\ img.phoff # 0
    /\ img.phoff + (Len(img.phs) - 1) * img.phentsize + PhdrSize <= size
    /\ img.phoff + Len(img.phs) * img.phentsize <= size
    /\ \E k \in DOMAIN img.phs : img.phs[k].load
    /\ \A k \in DOMAIN img.phs : img.phs[k].load =>
         /\ lo <= img.phs[k].vaddr /\ img.phs[k].vaddr + img.phs[k].memsz <= hi
         /\ img.phs[k].offset + img.phs[k].filesz <= size

LEMMA HeaderFacts ==
    ASSUME NEW img \in Images
    PROVE  /\ Len(img.phs) \in Nat /\ DOMAIN img.phs = 1 .. Len(img.phs)
           /\ img.phoff \in Nat /\ img.phentsize \in Nat /\ img.ident \in BOOLEAN
           /\ \A k \in 1 .. Len(img.phs) :
                /\ img.phs[k].load \in BOOLEAN /\ img.phs[k].vaddr \in Nat
                /\ img.phs[k].offset \in Nat /\ img.phs[k].filesz \in Nat
                /\ img.phs[k].memsz \in Nat
  <1>1. /\ img.phs \in Seq(Headers) /\ img.phoff \in Nat /\ img.phentsize \in Nat
        /\ img.ident \in BOOLEAN
    BY DEF Images
  <1>2. Len(img.phs) \in Nat /\ DOMAIN img.phs = 1 .. Len(img.phs)
    BY <1>1
  <1>3. \A k \in 1 .. Len(img.phs) : img.phs[k] \in Headers
    BY <1>1, ElementOfSeq
  <1>4. \A h \in Headers : /\ h.load \in BOOLEAN /\ h.vaddr \in Nat /\ h.offset \in Nat
                           /\ h.filesz \in Nat /\ h.memsz \in Nat
    BY DEF Headers
  <1> QED
    BY <1>1, <1>2, <1>3, <1>4, Zenon

\* The checks before the loop and those of every turn together ask for a sound image.
LEMMA ChecksAreSound ==
    ASSUME NEW img \in Images, NEW size \in Nat, NEW lo \in Int, NEW hi \in Int
    PROVE  SoundImage(img, size, lo, hi)
             <=> /\ FileError(img, size) = 0 /\ Wrong(img, size, lo, hi) = {}
                 /\ Loads(img, Len(img.phs)) # {}
  <1> DEFINE n == Len(img.phs)
             e == img.phentsize
             o == img.phoff
             ph(k) == img.phs[k]
             InFile(k) == o + (k - 1) * e + PhdrSize <= size
             Inside(k) == /\ lo <= ph(k).vaddr /\ ph(k).vaddr + ph(k).memsz <= hi
                          /\ ph(k).offset + ph(k).filesz <= size
  <1>1. /\ n \in Nat /\ DOMAIN img.phs = 1 .. n /\ o \in Nat /\ e \in Nat
        /\ EhdrSize \in Nat /\ PhdrSize \in Nat /\ img.ident \in BOOLEAN
        /\ \A k \in 1 .. n : /\ ph(k).load \in BOOLEAN /\ ph(k).vaddr \in Nat
                             /\ ph(k).offset \in Nat /\ ph(k).filesz \in Nat
                             /\ ph(k).memsz \in Nat
    BY HeaderFacts, ElfAssumptions
  <1>2. FileError(img, size) = 0
          <=> /\ EhdrSize <= size /\ img.ident /\ n # 0 /\ o # 0 /\ o + n * e <= size
    <2>1. img.phs = <<>> <=> n = 0
      <3>1. img.phs \in Seq(Headers)
        BY DEF Images
      <3> QED
        BY <3>1
    <2>2. n * e \in Nat
      BY <1>1
    <2>3. FileError(img, size) = IF size < EhdrSize \/ ~ img.ident THEN -1
                                 ELSE IF n = 0 \/ o = 0 THEN -2
                                 ELSE IF o + n * e > size THEN -4 ELSE 0
      BY <2>1 DEF FileError
    <2> DEFINE ne == n * e
    <2> HIDE DEF ne, n, e, o
    <2> QED
      BY <1>1, <2>2, <2>3 DEF ne
  <1>3. ASSUME NEW k \in 1 .. n
        PROVE  HeaderError(img, size, lo, hi, k) = 0 <=> InFile(k) /\ (ph(k).load => Inside(k))
    <2> DEFINE past == o + (k - 1) * e + PhdrSize
               load == ph(k).load
               from == ph(k).vaddr
               end == ph(k).vaddr + ph(k).memsz
               last == ph(k).offset + ph(k).filesz
    <2>1. {past, from, end, last} \subseteq Int /\ load \in BOOLEAN
      <3>1. past \in Int
        BY <1>1
      <3>2. {from, end, last} \subseteq Int /\ load \in BOOLEAN
        BY <1>1
      <3> HIDE DEF past, from, end, last, load
      <3> QED
        BY <3>1, <3>2
    <2>2. HeaderError(img, size, lo, hi, k)
            = IF past > size THEN -4
              ELSE IF ~ load THEN 0
              ELSE IF from < lo \/ end > hi THEN -3
              ELSE IF last > size THEN -4 ELSE 0
      BY DEF HeaderError
    <2>3. /\ InFile(k) <=> past <= size
          /\ Inside(k) <=> lo <= from /\ end <= hi /\ last <= size
      OBVIOUS
    <2> HIDE DEF past, from, end, last, n, e, o, InFile, Inside
    <2>4. HeaderError(img, size, lo, hi, k) = 0
            <=> past <= size /\ (load => lo <= from /\ end <= hi /\ last <= size)
      <3> HIDE DEF load
      <3> QED
        BY <2>1, <2>2
    <2> QED
      BY <2>3, <2>4
  <1>4. n # 0 => ((\A k \in 1 .. n : InFile(k)) <=> InFile(n))
    <2>1. ASSUME NEW k \in 1 .. n, InFile(n) PROVE InFile(k)
      <3>1. (k - 1) * e <= (n - 1) * e
        <4> DEFINE a == k - 1
                   b == n - 1
        <4>1. a \in Int /\ b \in Int /\ (a = b \/ a < b)
          BY <1>1
        <4> HIDE DEF a, b
        <4>2. a * e <= b * e
          <5>1. CASE a = b
            BY <1>1, <4>1, <5>1
          <5>2. CASE a < b
            <6>1. a * e + e <= b * e
              BY <1>1, <4>1, <5>2, NextMultiple
            <6>2. a * e \in Int /\ b * e \in Int
              BY <1>1, <4>1
            <6> QED
              BY <1>1, <6>1, <6>2
          <5> QED
            BY <4>1, <5>1, <5>2
        <4> QED
          BY <4>2 DEF a, b
      <3>2. (k - 1) * e \in Int /\ (n - 1) * e \in Int
        BY <1>1
      <3> DEFINE ke == (k - 1) * e
                 ne == (n - 1) * e
      <3>3. o + ne + PhdrSize <= size
        BY <2>1
      <3>4. ke <= ne /\ ke \in Int /\ ne \in Int
        BY <3>1, <3>2
      <3> HIDE DEF ke, ne, n, e, o
      <3>5. o + ke + PhdrSize <= size
        BY <1>1, <3>3, <3>4
      <3> QED
        BY <3>5 DEF ke
    <2>2. n # 0 => n \in 1 .. n
      BY <1>1
    <2> HIDE DEF InFile, n
    <2> QED
      BY <2>1, <2>2
  <1>5. Wrong(img, size, lo, hi) = {} <=> \A k \in 1 .. n : HeaderError(img, size, lo, hi, k) = 0
    BY DEF Wrong
  <1>6. Loads(img, n) # {} <=> \E k \in 1 .. n : ph(k).load
    BY DEF Loads
  <1>7. (\E k \in 1 .. n : ph(k).load) => n # 0
    BY <1>1
  <1>8. SoundImage(img, size, lo, hi)
          <=> /\ img.ident /\ EhdrSize <= size /\ o # 0 /\ InFile(n) /\ o + n * e <= size
              /\ \E k \in 1 .. n : ph(k).load
              /\ \A k \in 1 .. n : ph(k).load => Inside(k)
    BY <1>1 DEF SoundImage
  <1> HIDE DEF n, e, o, ph, InFile, Inside
  <1>9. Wrong(img, size, lo, hi) = {}
          <=> (\A k \in 1 .. n : InFile(k)) /\ (\A k \in 1 .. n : ph(k).load => Inside(k))
    BY <1>3, <1>5
  <1> QED
    BY <1>2, <1>4, <1>6, <1>7, <1>8, <1>9 DEF n

\* Memory is a function of some addresses.
MapsAddresses(before) ==
    DOMAIN before \subseteq Int /\ before = [a \in DOMAIN before |-> before[a]]

\* What the loader's answer must be.
LoadedWell(img, size, at, before, lo, hi, got) ==
    /\ \A a \in DOMAIN before \ (lo .. hi - 1) : got.mem[a] = before[a]
    /\ got.ret = 0 <=> SoundImage(img, size, lo, hi)
    /\ got.ret = 0 => got.mem = Painted(img, at, before, Len(img.phs))
    /\ \E n \in 0 .. Len(img.phs) : got.mem = Painted(img, at, before, n)

\* The loader stores inside its window only; it accepts the sound images, whose segments
\* memory then shows, the later ones on top; rejecting one it leaves the segments before
\* the header it rejects.
THEOREM LoaderStaysInWindow ==
    ASSUME NEW img \in Images, \A k \in DOMAIN img.phs : img.phs[k].filesz <= img.phs[k].memsz,
           NEW size \in Nat, NEW at \in Int, NEW lo \in Int, NEW hi \in Int,
           NEW before, MapsAddresses(before)
    PROVE  LoadedWell(img, size, at, before, lo, hi,
                      elf_load_in(img, size, at, before, lo, hi))
  <1> DEFINE n == Len(img.phs)
             bad == Wrong(img, size, lo, hi)
             done == IF bad = {} THEN n ELSE Min(bad) - 1
             got == elf_load_in(img, size, at, before, lo, hi)
             first == FileError(img, size)
             P(k) == Painted(img, at, before, k)
  <1>0. DOMAIN before \subseteq Int /\ before = [a \in DOMAIN before |-> before[a]]
    BY DEF MapsAddresses
  <1>1. IF first # 0 THEN got.ret = first /\ got.mem = before
        ELSE /\ done \in 0 .. n
             /\ got.mem = P(done)
             /\ bad # {} => got.ret = HeaderError(img, size, lo, hi, Min(bad))
             /\ bad = {} => got.ret = IF Loads(img, n) = {} THEN -2 ELSE 0
    <2>1. LoaderEnd(img, size, at, before, lo, hi, got)
      BY <1>0, LoaderIs
    <2> HIDE DEF got
    <2> QED
      BY <2>1 DEF LoaderEnd
  <1>2. SoundImage(img, size, lo, hi) <=> first = 0 /\ bad = {} /\ Loads(img, n) # {}
    BY ChecksAreSound
  <1>3. /\ n \in Nat
        /\ \A k \in 1 .. n : /\ img.phs[k].load \in BOOLEAN /\ img.phs[k].vaddr \in Nat
                             /\ img.phs[k].memsz \in Nat
    BY HeaderFacts
  <1>4. /\ bad \subseteq 1 .. n /\ bad \subseteq Nat
        /\ \A k \in 1 .. n : k \in bad <=> HeaderError(img, size, lo, hi, k) # 0
    BY <1>3 DEF Wrong
  <1>5. bad # {} => Min(bad) \in bad /\ \A k \in bad : Min(bad) <= k
    <2> HIDE DEF bad
    <2> QED
      BY <1>4, MinFacts
  <1>6. P(0) = before
    <2>1. \A a : Covering(img, 0, a) = {}
      BY DEF Covering
    <2> QED
      BY <1>0, <2>1 DEF Painted
  <1>7. got.ret = 0 => first = 0 /\ bad = {} /\ Loads(img, n) # {}
    <2> HIDE DEF got, first, bad, n, P
    <2>1. bad # {} => HeaderError(img, size, lo, hi, Min(bad)) # 0
      BY <1>4, <1>5
    <2> QED
      BY <1>1, <2>1
  <1>8. SoundImage(img, size, lo, hi) => got.ret = 0
    <2> HIDE DEF got, first, bad, n, P
    <2> QED
      BY <1>1, <1>2
  <1>9. got.ret = 0 => got.mem = P(n)
    <2> HIDE DEF got, first, n, P
    <2> QED
      BY <1>1, <1>7
  <1>10. \E k \in 0 .. n : got.mem = P(k)
    <2>1. 0 \in 0 .. n
      BY <1>3
    <2> HIDE DEF got, first, n, P
    <2> QED
      BY <1>1, <1>6, <2>1
  <1>11. ASSUME NEW a \in DOMAIN before, a \notin lo .. hi - 1 PROVE got.mem[a] = before[a]
    <2>1. CASE first # 0
      <3> HIDE DEF got, first, P
      <3> QED
        BY <1>1, <2>1
    <2>2. CASE first = 0
      <3>1. done \in 0 .. n /\ got.mem = P(done)
        <4> HIDE DEF got, first, P, done
        <4> QED
          BY <1>1, <2>2
      <3>2. \A k \in 1 .. done : k \in 1 .. n /\ k \notin bad
        <4>1. CASE bad = {}
          <5>1. done = n
            BY <4>1
          <5> HIDE DEF done, bad
          <5> QED
            BY <4>1, <5>1
        <4>2. CASE bad # {}
          <5> DEFINE m == Min(bad)
          <5>1. m \in 1 .. n /\ \A k \in bad : m <= k
            BY <1>4, <1>5, <4>2
          <5>2. done = m - 1
            BY <4>2
          <5> HIDE DEF m, bad, done
          <5> QED
            BY <1>3, <1>4, <5>1, <5>2
        <4> QED
          BY <4>1, <4>2
      <3>3. ASSUME NEW k \in 1 .. done, img.phs[k].load
            PROVE  lo <= img.phs[k].vaddr /\ img.phs[k].vaddr + img.phs[k].memsz <= hi
        <4>1. HeaderError(img, size, lo, hi, k) = 0 /\ k \in 1 .. n
          BY <1>4, <3>2
        <4>2. ~ (img.phs[k].vaddr < lo \/ img.phs[k].vaddr + img.phs[k].memsz > hi)
          <5> DEFINE behind == img.phoff + (k - 1) * img.phentsize + PhdrSize > size
          <5>1. HeaderError(img, size, lo, hi, k)
                  = IF behind THEN -4
                    ELSE IF ~ img.phs[k].load THEN 0
                    ELSE IF img.phs[k].vaddr < lo \/ img.phs[k].vaddr + img.phs[k].memsz > hi
                      THEN -3
                    ELSE IF img.phs[k].offset + img.phs[k].filesz > size THEN -4 ELSE 0
            BY DEF HeaderError
          <5> HIDE DEF behind
          <5> QED
            BY <3>3, <4>1, <5>1
        <4> QED
          BY <1>3, <4>1, <4>2
      <3>4. Covering(img, done, a) = {}
        <4>1. ASSUME NEW k \in Covering(img, done, a) PROVE FALSE
          <5>1. /\ k \in 1 .. done /\ img.phs[k].load
                /\ a \in img.phs[k].vaddr .. img.phs[k].vaddr + img.phs[k].memsz - 1
            BY <4>1 DEF Covering
          <5>2. lo <= img.phs[k].vaddr /\ img.phs[k].vaddr + img.phs[k].memsz <= hi
            BY <3>3, <5>1
          <5>3. img.phs[k].vaddr \in Nat /\ img.phs[k].memsz \in Nat
            BY <1>3, <3>2, <5>1
          <5>4. a \in Int /\ lo \in Int /\ hi \in Int
            BY <1>0
          <5> DEFINE v == img.phs[k].vaddr
                     m == img.phs[k].memsz
          <5>5. v <= a /\ a <= v + m - 1 /\ lo <= v /\ v + m <= hi /\ v \in Int /\ m \in Int
            BY <5>1, <5>2, <5>3, <5>4
          <5> HIDE DEF v, m
          <5>6. a \in lo .. hi - 1
            BY <5>4, <5>5
          <5> QED
            BY <1>11, <5>6
        <4> QED
          BY <4>1
      <3>5. P(done)[a] = before[a]
        <4> HIDE DEF done
        <4> QED
          BY <3>4 DEF Painted
      <3> HIDE DEF got, P, done
      <3> QED
        BY <3>1, <3>5
    <2> QED
      BY <2>1, <2>2
  <1>12. got.ret = 0 <=> SoundImage(img, size, lo, hi)
    <2> HIDE DEF got, first, bad, n
    <2> QED
      BY <1>2, <1>7, <1>8
  <1> QED
    <2> HIDE DEF got, P, n
    <2>1. /\ \A a \in DOMAIN before \ (lo .. hi - 1) : got.mem[a] = before[a]
          /\ got.ret = 0 <=> SoundImage(img, size, lo, hi)
          /\ got.ret = 0 => got.mem = P(n)
          /\ \E k \in 0 .. n : got.mem = P(k)
      BY <1>9, <1>10, <1>11, <1>12
    <2>2. LoadedWell(img, size, at, before, lo, hi, got)
      BY <2>1 DEF LoadedWell, P, n
    <2> QED
      BY <2>2 DEF got
------------------------------------------------------------------------------
(***************************************************************************)
(* Sequences one after the other, and places in a set of numbers           *)
(***************************************************************************)

Lengths(seqs) == [i \in DOMAIN seqs |-> Len(seqs[i])]

\* The pieces of a flattened sequence lie one after the other.
LEMMA FlattenIs ==
    ASSUME NEW B, NEW n \in Nat, NEW seqs \in [1 .. n -> Seq(B)]
    PROVE  /\ FlattenSeq(seqs) \in Seq(B)
           /\ Len(FlattenSeq(seqs)) = SumTo(Lengths(seqs), n)
           /\ \A i \in 1 .. n : \A x \in 1 .. Len(seqs[i]) :
                /\ SumTo(Lengths(seqs), i - 1) + x \in 1 .. Len(FlattenSeq(seqs))
                /\ FlattenSeq(seqs)[SumTo(Lengths(seqs), i - 1) + x] = seqs[i][x]
  <1> DEFINE lens == Lengths(seqs)
             X == Seq(B)
             step == [i \in 1 .. n |-> [x \in X |-> x \o seqs[i]]]
  <1>1. /\ DOMAIN seqs = 1 .. n /\ Len(seqs) = n /\ seqs \in Seq(X)
        /\ \A i \in 1 .. n : seqs[i] \in Seq(B) /\ Len(seqs[i]) \in Nat
    <2>1. seqs \in Seq(X)
      BY SeqDef
    <2>2. DOMAIN seqs = 1 .. n /\ \A i \in 1 .. n : seqs[i] \in Seq(B) /\ Len(seqs[i]) \in Nat
      OBVIOUS
    <2>3. Len(seqs) = n
      BY <2>1, <2>2, LenProperties
    <2> QED
      BY <2>1, <2>2, <2>3
  <1>2. \A i \in 1 .. n : lens[i] = Len(seqs[i]) /\ lens[i] \in Int
    BY <1>1 DEF Lengths
  <1>3. /\ SumTo(lens, 0) = 0
        /\ \A k \in 0 .. n : SumTo(lens, k) \in Int
        /\ \A k \in 1 .. n : SumTo(lens, k) = SumTo(lens, k - 1) + lens[k]
    <2> HIDE DEF lens
    <2> QED
      BY <1>2, SumToFacts
  <1>4. <<>> \in X /\ step \in [1 .. n -> [X -> X]]
    BY <1>1
  <1>5. PICK g \in [0 .. n -> X] : Iterates(g, n, <<>>, step)
    <2> HIDE DEF X, step
    <2> QED
      BY <1>4, RecursionExists, Zenon
  <1>6. /\ g[0] = <<>>
        /\ \A i \in 0 .. n : g[i] \in Seq(B)
        /\ \A i \in 1 .. n : g[i] = g[i - 1] \o seqs[i]
    <2>1. g[0] = <<>> /\ \A i \in 1 .. n : g[i] = step[i][g[i - 1]]
      BY <1>5 DEF Iterates
    <2>2. \A i \in 1 .. n : g[i - 1] \in X
      BY <1>5
    <2> QED
      BY <1>5, <2>1, <2>2
  <1> HIDE DEF step, X
  <1> DEFINE Placed(i) ==
               /\ Len(g[i]) = SumTo(lens, i)
               /\ \A j \in 1 .. i : \A x \in 1 .. Len(seqs[j]) :
                    /\ SumTo(lens, j - 1) + x \in 1 .. Len(g[i])
                    /\ g[i][SumTo(lens, j - 1) + x] = seqs[j][x]
             Good == {i \in Nat : i <= n => Placed(i)}
  <1>7. 0 \in Good
    BY <1>3, <1>6
  <1>8. ASSUME NEW i \in Nat, i \in Good PROVE i + 1 \in Good
    <2>1. CASE ~ (i + 1 <= n)
      BY <2>1
    <2>2. CASE i + 1 <= n
      <3>1. /\ Placed(i) /\ i \in 0 .. n /\ i + 1 \in 1 .. n /\ (i + 1) - 1 = i
        BY <1>8, <2>2
      <3> DEFINE a == g[i]
                 b == seqs[i + 1]
      <3>2. a \in Seq(B) /\ b \in Seq(B) /\ g[i + 1] = a \o b
        BY <1>1, <1>6, <3>1
      <3>3. /\ Len(a) \in Nat /\ Len(b) \in Nat /\ Len(a \o b) = Len(a) + Len(b)
            /\ \A x \in 1 .. Len(a) : (a \o b)[x] = a[x]
            /\ \A x \in 1 .. Len(b) : (a \o b)[Len(a) + x] = b[x]
        <4> HIDE DEF a, b
        <4>1. \A x \in 1 .. Len(a) + Len(b) :
                 (a \o b)[x] = IF x <= Len(a) THEN a[x] ELSE b[x - Len(a)]
          BY <3>2, ConcatProperties
        <4>2. Len(a) \in Nat /\ Len(b) \in Nat /\ Len(a \o b) = Len(a) + Len(b)
          BY <3>2
        <4>3. ASSUME NEW x \in 1 .. Len(b) PROVE (a \o b)[Len(a) + x] = b[x]
          <5>1. /\ Len(a) + x \in 1 .. Len(a) + Len(b) /\ ~ (Len(a) + x <= Len(a))
                /\ (Len(a) + x) - Len(a) = x
            BY <4>2
          <5> QED
            BY <4>1, <5>1
        <4> QED
          BY <4>1, <4>2, <4>3
      <3>4. Len(a) = SumTo(lens, i) /\ SumTo(lens, i + 1) = SumTo(lens, i) + Len(b)
        <4>1. SumTo(lens, i + 1) = SumTo(lens, (i + 1) - 1) + lens[i + 1]
          BY <1>3, <3>1
        <4> QED
          BY <1>2, <3>1, <4>1
      <3>5. Len(g[i + 1]) = SumTo(lens, i + 1)
        BY <3>2, <3>3, <3>4
      <3>6. ASSUME NEW j \in 1 .. i + 1, NEW x \in 1 .. Len(seqs[j])
            PROVE  /\ SumTo(lens, j - 1) + x \in 1 .. Len(g[i + 1])
                   /\ g[i + 1][SumTo(lens, j - 1) + x] = seqs[j][x]
        <4> DEFINE p == SumTo(lens, j - 1) + x
        <4>1. CASE j \in 1 .. i
          <5>1. p \in 1 .. Len(a) /\ a[p] = seqs[j][x]
            BY <3>1, <4>1
          <5> HIDE DEF p, a, b
          <5>2. p \in 1 .. Len(a \o b)
            BY <3>3, <5>1
          <5>3. (a \o b)[p] = seqs[j][x]
            BY <3>3, <5>1
          <5> QED
            BY <3>2, <5>2, <5>3 DEF p
        <4>2. CASE j = i + 1
          <5>1. p = Len(a) + x /\ x \in 1 .. Len(b)
            BY <3>1, <3>4, <4>2
          <5> HIDE DEF p, a
          <5>2. p \in 1 .. Len(a \o b) /\ (a \o b)[p] = b[x]
            BY <3>3, <5>1
          <5> QED
            BY <3>2, <4>2, <5>2 DEF p
        <4> QED
          BY <4>1, <4>2
      <3>7. Placed(i + 1)
        <4> HIDE DEF lens
        <4> QED
          BY <3>5, <3>6
      <3> HIDE DEF Placed
      <3> QED
        BY <3>7
    <2> QED
      BY <2>1, <2>2
  <1>9. Placed(n)
    <2>1. n \in Good
      <3> HIDE DEF Good
      <3> QED
        BY <1>7, <1>8, NatSetInduction
    <2> QED
      BY <2>1
  <1>10. FlattenSeq(seqs) = g[n]
    <2>1. CASE n = 0
      <3>1. seqs = <<>>
        BY <1>1, <2>1
      <3> QED
        BY <1>1, <1>6, <2>1, <3>1 DEF FlattenSeq
    <2>2. CASE n # 0
      <3> DEFINE Obeys(t) == t = [i \in 1 .. n |-> IF i = 1 THEN seqs[i] ELSE t[i - 1] \o seqs[i]]
                 f == CHOOSE t : Obeys(t)
                 h == [i \in 1 .. n |-> g[i]]
      <3>1. FlattenSeq(seqs) = f[n]
        BY <1>1, <2>2 DEF FlattenSeq
      <3>2. Obeys(h)
        <4>1. ASSUME NEW i \in 1 .. n
              PROVE  h[i] = IF i = 1 THEN seqs[i] ELSE h[i - 1] \o seqs[i]
          <5>1. CASE i = 1
            <6>1. g[1] = g[0] \o seqs[1]
              <7>1. 1 \in 1 .. n /\ 1 - 1 = 0
                BY <2>2
              <7>2. g[1] = g[1 - 1] \o seqs[1]
                BY <1>6, <7>1, Zenon
              <7> QED
                BY <7>1, <7>2
            <6>2. <<>> \o seqs[1] = seqs[1]
              BY <1>1, <5>1, EmptySeq, ConcatEmptySeq
            <6> QED
              BY <1>6, <5>1, <6>1, <6>2
          <5>2. CASE i # 1
            <6>1. i - 1 \in 1 .. n /\ h[i] = g[i] /\ h[i - 1] = g[i - 1]
              BY <5>2
            <6>2. g[i] = g[i - 1] \o seqs[i]
              BY <1>6
            <6> QED
              BY <5>2, <6>1, <6>2
          <5> QED
            BY <5>1, <5>2
        <4> HIDE DEF h
        <4>2. h = [i \in 1 .. n |-> h[i]]
          BY DEF h
        <4> QED
          BY <4>1, <4>2
      <3>3. Obeys(f)
        <4> HIDE DEF Obeys, h
        <4> QED
          BY <3>2
      <3> HIDE DEF f
      <3> DEFINE Same == {i \in Nat : i + 1 <= n => f[i + 1] = g[i + 1]}
      <3>4. 0 \in Same
        <4>1. 1 \in 1 .. n
          BY <2>2
        <4>2. f[1] = seqs[1] /\ h[1] = seqs[1] /\ h[1] = g[1]
          <5>1. f[1] = seqs[1]
            BY <3>3, <4>1
          <5>2. h[1] = seqs[1]
            BY <3>2, <4>1
          <5> QED
            BY <4>1, <5>1, <5>2
        <4> QED
          BY <4>2
      <3>5. ASSUME NEW i \in Nat, i \in Same PROVE i + 1 \in Same
        <4>1. CASE (i + 1) + 1 <= n
          <5>1. /\ i + 2 \in 1 .. n /\ i + 2 # 1 /\ (i + 2) - 1 = i + 1 /\ (i + 1) + 1 = i + 2
                /\ f[i + 1] = g[i + 1]
            BY <3>5, <4>1
          <5>2. f[i + 2] = f[i + 1] \o seqs[i + 2]
            BY <3>3, <5>1
          <5>3. g[i + 2] = g[i + 1] \o seqs[i + 2]
            BY <1>6, <5>1
          <5>4. f[(i + 1) + 1] = g[(i + 1) + 1]
            BY <5>1, <5>2, <5>3
          <5> QED
            BY <5>4
        <4>2. CASE ~ ((i + 1) + 1 <= n)
          BY <4>2
        <4> QED
          BY <4>1, <4>2
      <3>6. n - 1 \in Same
        <4> HIDE DEF Same
        <4>1. n - 1 \in Nat
          BY <2>2
        <4> QED
          BY <3>4, <3>5, <4>1, NatSetInduction
      <3> QED
        BY <2>2, <3>1, <3>6
    <2> QED
      BY <2>1, <2>2
  <1> HIDE DEF Placed
  <1>11. g[n] \in Seq(B)
    BY <1>6
  <1> QED
    BY <1>9, <1>10, <1>11 DEF Placed

\* The place of i in a set of numbers.
Rank(S, i) == Cardinality({j \in S : j <= i})

\* Places go from one to the set's size, each is some member's, and they keep the order.
LEMMA RankFacts ==
    ASSUME NEW n \in Nat, NEW S, S \subseteq 1 .. n
    PROVE  /\ IsFiniteSet(S) /\ Cardinality(S) \in Nat
           /\ \A i \in S : Rank(S, i) \in 1 .. Cardinality(S)
           /\ \A i \in S, j \in S : i < j => Rank(S, i) < Rank(S, j)
           /\ \A f \in 1 .. Cardinality(S) : \E i \in S : Rank(S, i) = f
  <1> DEFINE Upto(i) == {j \in S : j <= i}
             c == Cardinality(S)
  <1>1. IsFiniteSet(S) /\ c \in Nat
    <2>1. IsFiniteSet(1 .. n)
      BY FS_Interval
    <2> QED
      BY <2>1, FS_Subset, FS_CardinalityType
  <1>2. ASSUME NEW i \in S
        PROVE  /\ IsFiniteSet(Upto(i)) /\ Cardinality(Upto(i)) \in Nat
               /\ Cardinality(Upto(i)) <= c /\ Cardinality(Upto(i)) # 0
    <2>1. Upto(i) \in SUBSET S /\ i \in Upto(i)
      OBVIOUS
    <2>2. IsFiniteSet(Upto(i)) /\ Cardinality(Upto(i)) <= c
      BY <1>1, <2>1, FS_Subset
    <2> HIDE DEF Upto
    <2> QED
      BY <2>1, <2>2, FS_CardinalityType, FS_EmptySet
  <1>3. \A i \in S : Rank(S, i) = Cardinality(Upto(i))
    BY DEF Rank
  <1>4. \A i \in S : Rank(S, i) \in 1 .. c
    <2> TAKE i \in S
    <2> DEFINE k == Cardinality(Upto(i))
    <2>1. k \in Nat /\ k <= c /\ k # 0 /\ Rank(S, i) = k
      BY <1>2, <1>3
    <2> HIDE DEF k, c
    <2> QED
      BY <1>1, <2>1
  <1>5. ASSUME NEW i \in S, NEW j \in S, i < j PROVE Rank(S, i) < Rank(S, j)
    <2>1. i \in Nat /\ j \in Nat
      OBVIOUS
    <2>2. j \notin Upto(i) /\ Upto(i) \cup {j} \in SUBSET Upto(j)
      <3>1. \A x \in S : x \in Nat
        OBVIOUS
      <3>2. ~ (j <= i) /\ j <= j /\ \A x \in S : x <= i => x <= j
        BY <1>5, <2>1, <3>1
      <3> QED
        BY <3>2
    <2> HIDE DEF Upto
    <2>3. Cardinality(Upto(i) \cup {j}) = Cardinality(Upto(i)) + 1
      BY <1>2, <2>2, FS_AddElement
    <2>4. Cardinality(Upto(i) \cup {j}) <= Cardinality(Upto(j))
      BY <1>2, <2>2, FS_Subset
    <2> QED
      BY <1>2, <1>3, <2>3, <2>4
  <1>6. \A f \in 1 .. c : \E i \in S : Rank(S, i) = f
    <2> DEFINE r == [i \in S |-> Rank(S, i)]
    <2>1. r \in [S -> 1 .. c]
      BY <1>4
    <2>2. \A i \in S, j \in S : r[i] = r[j] => i = j
      <3>1. ASSUME NEW i \in S, NEW j \in S, i # j PROVE Rank(S, i) # Rank(S, j)
        <4>1. i \in Nat /\ j \in Nat /\ (i < j \/ j < i)
          BY <3>1
        <4>2. Rank(S, i) \in Nat /\ Rank(S, j) \in Nat
          BY <1>4
        <4> QED
          BY <1>5, <4>1, <4>2
      <3> QED
        BY <3>1
    <2>3. IsFiniteSet(1 .. c) /\ Cardinality(1 .. c) = c
      <3>1. 1 \in Int /\ c \in Int
        BY <1>1
      <3>2. IsFiniteSet(1 .. c) /\ Cardinality(1 .. c) = IF 1 > c THEN 0 ELSE c - 1 + 1
        BY <3>1, FS_Interval
      <3> HIDE DEF c
      <3> QED
        BY <1>1, <3>2
    <2>4. r \in Injection(S, 1 .. c)
      <3> HIDE DEF r
      <3> QED
        BY <2>1, <2>2 DEF Injection, IsInjective
    <2>5. r \in Surjection(S, 1 .. c)
      <3> HIDE DEF r
      <3> QED
        BY <2>3, <2>4, FS_Injection
    <2>6. \A f \in 1 .. c : \E i \in S : r[i] = f
      <3> HIDE DEF r
      <3> QED
        BY <2>5 DEF Surjection
    <2> QED
      BY <2>6
  <1> QED
    BY <1>1, <1>4, <1>5, <1>6
------------------------------------------------------------------------------
(***************************************************************************)
(* The RAM disk                                                            *)
(***************************************************************************)

MembersBlocks(t) == [i \in DOMAIN t.members |-> Blocks(t.members[i])]

\* Where, in blocks, the first n members end.
EndOf(t, n) == SumTo(Lengths(MembersBlocks(t)), n)

Header(m) == [kind |-> "header", regular |-> m.type = "file", name |-> m.name, size |-> m.size]

\* The first block of member i of an archive.
FirstBlock(t, i) ==
    IF t.members[i].type = "junk" THEN [kind |-> "data"] ELSE Header(t.members[i])

LEMMA MemberFacts ==
    ASSUME NEW t \in Tars
    PROVE  /\ t.cut \in Nat /\ Len(t.members) \in Nat /\ DOMAIN t.members = 1 .. Len(t.members)
           /\ \A i \in 1 .. Len(t.members) :
                /\ t.members[i].type \in {"file", "dir", "junk"} /\ t.members[i].size \in Nat
                /\ t.members[i].image \in Images
                /\ \A k \in DOMAIN t.members[i].image.phs :
                     t.members[i].image.phs[k].filesz <= t.members[i].image.phs[k].memsz
  BY TarAssumption

LEMMA PaddedIs ==
    ASSUME NEW n \in Nat
    PROVE  Padded(n) \in Nat
  <1>1. BlockSize \in Nat \ {0}
    BY VfsAssumptions
  <1> DEFINE a == n + BlockSize - 1
  <1>2. a \in Nat
    BY <1>1
  <1> HIDE DEF a
  <1>3. a \div BlockSize \in Nat
    BY <1>1, <1>2
  <1> QED
    BY <1>3 DEF a, Padded

\* A member's blocks: one that is not a header, or a header and its data.
LEMMA BlocksAre ==
    ASSUME NEW B, NEW m, m.size \in Nat, [kind |-> "data"] \in B, Header(m) \in B
    PROVE  /\ Blocks(m) \in Seq(B)
           /\ Len(Blocks(m)) = IF m.type = "junk" THEN 1 ELSE 1 + Padded(m.size)
           /\ 1 \in 1 .. Len(Blocks(m))
           /\ Blocks(m)[1] = IF m.type = "junk" THEN [kind |-> "data"] ELSE Header(m)
  <1> DEFINE data == [kind |-> "data"]
             p == Padded(m.size)
  <1>1. p \in Nat
    BY PaddedIs
  <1>2. CASE m.type = "junk"
    <2>1. Blocks(m) = <<data>>
      BY <1>2 DEF Blocks
    <2>2. data \in B
      OBVIOUS
    <2> HIDE DEF data
    <2>3. <<data>> \in Seq(B) /\ Len(<<data>>) = 1 /\ <<data>>[1] = data
      BY <2>2
    <2> QED
      BY <1>2, <2>1, <2>3 DEF data
  <1>3. CASE m.type # "junk"
    <2> DEFINE h == Header(m)
               rest == [k \in 1 .. p |-> data]
    <2>1. Blocks(m) = <<h>> \o rest
      BY <1>3 DEF Blocks, Header
    <2>2. data \in B /\ h \in B
      OBVIOUS
    <2> HIDE DEF data, p, h
    <2>3. rest \in [1 .. p -> B]
      BY <2>2
    <2> HIDE DEF rest
    <2>4. rest \in Seq(B)
      BY <1>1, <2>3, SeqDef
    <2>5. Len(rest) = p
      BY <1>1, <2>3, <2>4, LenProperties
    <2>6. <<h>> \in Seq(B) /\ Len(<<h>>) = 1 /\ <<h>>[1] = h
      BY <2>2
    <2>7. /\ <<h>> \o rest \in Seq(B) /\ Len(<<h>> \o rest) = 1 + p
          /\ (<<h>> \o rest)[1] = h
      BY <1>1, <2>4, <2>5, <2>6
    <2>8. 1 \in 1 .. 1 + p
      BY <1>1
    <2> QED
      BY <1>3, <2>1, <2>7, <2>8 DEF p, h
  <1> QED
    BY <1>2, <1>3

\* Where the blocks of an archive are.
LEMMA ArchiveIs ==
    ASSUME NEW t \in Tars
    PROVE  LET M == Len(t.members)
               blocks == Tar(t).blocks
           IN  /\ EndOf(t, 0) = 0
               /\ \A n \in 0 .. M : EndOf(t, n) \in Nat
               /\ \A i \in 1 .. M :
                    EndOf(t, i) = EndOf(t, i - 1)
                                  + IF t.members[i].type = "junk" THEN 1
                                    ELSE 1 + Padded(t.members[i].size)
               /\ \A i \in 1 .. M : blocks[EndOf(t, i - 1) + 1] = FirstBlock(t, i)
               /\ blocks[EndOf(t, M) + 1] = [kind |-> "zero"]
               /\ Len(blocks) = EndOf(t, M) + 2
  <1> DEFINE M == Len(t.members)
             ms == t.members
             data == [kind |-> "data"]
             zero == [kind |-> "zero"]
             B == {data, zero} \cup {Header(ms[i]) : i \in 1 .. M}
             seqs == MembersBlocks(t)
             lens == Lengths(seqs)
             flat == FlattenSeq(seqs)
  <1>1. /\ M \in Nat /\ DOMAIN ms = 1 .. M
        /\ \A i \in 1 .. M : ms[i].type \in {"file", "dir", "junk"} /\ ms[i].size \in Nat
    BY MemberFacts
  <1>2. ASSUME NEW i \in 1 .. M
        PROVE  /\ Blocks(ms[i]) \in Seq(B)
               /\ Len(Blocks(ms[i])) = IF ms[i].type = "junk" THEN 1 ELSE 1 + Padded(ms[i].size)
               /\ Blocks(ms[i])[1] = FirstBlock(t, i)
               /\ 1 \in 1 .. Len(Blocks(ms[i]))
    <2> DEFINE m == ms[i]
    <2>1. m.size \in Nat /\ data \in B /\ Header(m) \in B
      BY <1>1
    <2>2. FirstBlock(t, i) = IF m.type = "junk" THEN data ELSE Header(m)
      BY DEF FirstBlock
    <2> HIDE DEF B, m
    <2> QED
      BY <2>1, <2>2, BlocksAre DEF m
  <1>3. seqs \in [1 .. M -> Seq(B)] /\ \A i \in 1 .. M : seqs[i] = Blocks(ms[i])
    BY <1>1, <1>2 DEF MembersBlocks
  <1>4. \A i \in 1 .. M : lens[i] = Len(Blocks(ms[i])) /\ lens[i] \in Nat
    <2>1. \A i \in 1 .. M : lens[i] = Len(seqs[i]) /\ Len(seqs[i]) \in Nat
      BY <1>3 DEF Lengths
    <2> QED
      BY <1>3, <2>1
  <1> HIDE DEF B, seqs
  <1>5. /\ flat \in Seq(B) /\ Len(flat) = SumTo(lens, M)
        /\ \A i \in 1 .. M : \A x \in 1 .. Len(seqs[i]) :
             /\ SumTo(lens, i - 1) + x \in 1 .. Len(flat)
             /\ flat[SumTo(lens, i - 1) + x] = seqs[i][x]
    <2>1. M \in Nat
      BY <1>1
    <2> HIDE DEF M
    <2> QED
      BY <1>3, <2>1, FlattenIs
  <1>6. /\ SumTo(lens, 0) = 0
        /\ \A k \in 0 .. M : SumTo(lens, k) \in Int
        /\ \A k \in 1 .. M : SumTo(lens, k) = SumTo(lens, k - 1) + lens[k]
    <2>1. M \in Nat /\ \A k \in 1 .. M : lens[k] \in Int
      BY <1>1, <1>4
    <2> HIDE DEF M, lens
    <2> QED
      BY <2>1, SumToFacts
  <1>7. \A n : EndOf(t, n) = SumTo(lens, n)
    BY DEF EndOf, seqs
  <1>8. \A n \in 0 .. M : SumTo(lens, n) \in Nat
    <2> DEFINE Good == {n \in Nat : n <= M => SumTo(lens, n) \in Nat}
    <2> HIDE DEF M, lens
    <2>1. 0 \in Good
      BY <1>6
    <2>2. ASSUME NEW n \in Nat, n \in Good PROVE n + 1 \in Good
      <3>1. CASE n + 1 <= M
        <4>1. n + 1 \in 1 .. M /\ (n + 1) - 1 = n /\ SumTo(lens, n) \in Nat
          BY <1>1, <2>2, <3>1 DEF M
        <4>2. SumTo(lens, n + 1) = SumTo(lens, n) + lens[n + 1] /\ lens[n + 1] \in Nat
          BY <1>4, <1>6, <4>1
        <4> QED
          BY <4>1, <4>2
      <3>2. CASE ~ (n + 1 <= M)
        BY <3>2
      <3> QED
        BY <3>1, <3>2
    <2>3. Nat \subseteq Good
      <3> HIDE DEF Good
      <3> QED
        BY <2>1, <2>2, NatSetInduction
    <2> QED
      BY <1>1, <2>3 DEF M
  <1>9. /\ Tar(t).blocks = flat \o <<zero, zero>>
        /\ Len(flat \o <<zero, zero>>) = Len(flat) + 2
        /\ (flat \o <<zero, zero>>)[Len(flat) + 1] = zero
        /\ \A p \in 1 .. Len(flat) : (flat \o <<zero, zero>>)[p] = flat[p]
    <2>1. Tar(t).blocks = flat \o <<zero, zero>>
      BY DEF Tar, MembersBlocks, seqs
    <2> DEFINE end == <<zero, zero>>
    <2>2. zero \in B
      BY DEF B
    <2> HIDE DEF zero, flat
    <2>3. end \in Seq(B) /\ Len(end) = 2 /\ end[1] = zero
      BY <2>2
    <2> HIDE DEF end
    <2>4. /\ Len(flat) \in Nat /\ Len(flat \o end) = Len(flat) + 2
          /\ \A p \in 1 .. Len(flat) + 2 :
               (flat \o end)[p] = IF p <= Len(flat) THEN flat[p] ELSE end[p - Len(flat)]
      <3>1. Len(flat) \in Nat
        BY <1>5
      <3>2. Len(flat \o end) = Len(flat) + Len(end)
        BY <1>5, <2>3, ConcatProperties
      <3>3. \A p \in 1 .. Len(flat) + Len(end) :
               (flat \o end)[p] = IF p <= Len(flat) THEN flat[p] ELSE end[p - Len(flat)]
        BY <1>5, <2>3, ConcatProperties
      <3> QED
        BY <2>3, <3>1, <3>2, <3>3
    <2>5. (flat \o end)[Len(flat) + 1] = zero
      <3>1. /\ Len(flat) + 1 \in 1 .. Len(flat) + 2 /\ ~ (Len(flat) + 1 <= Len(flat))
            /\ (Len(flat) + 1) - Len(flat) = 1
        BY <2>4
      <3> QED
        BY <2>3, <2>4, <3>1
    <2>6. \A p \in 1 .. Len(flat) : (flat \o end)[p] = flat[p]
      BY <2>4
    <2> QED
      BY <2>1, <2>4, <2>5, <2>6 DEF end
  <1> HIDE DEF lens, flat, zero, M
  <1>10. ASSUME NEW i \in 1 .. M PROVE Tar(t).blocks[EndOf(t, i - 1) + 1] = FirstBlock(t, i)
    <2>1. 1 \in 1 .. Len(seqs[i]) /\ seqs[i][1] = FirstBlock(t, i)
      BY <1>2, <1>3
    <2>2. /\ SumTo(lens, i - 1) + 1 \in 1 .. Len(flat)
          /\ flat[SumTo(lens, i - 1) + 1] = FirstBlock(t, i)
      BY <1>5, <2>1
    <2> QED
      BY <1>7, <1>9, <2>2
  <1>11. ASSUME NEW i \in 1 .. M
         PROVE  EndOf(t, i) = EndOf(t, i - 1)
                              + IF ms[i].type = "junk" THEN 1 ELSE 1 + Padded(ms[i].size)
    BY <1>2, <1>4, <1>6, <1>7
  <1>12. /\ EndOf(t, 0) = 0 /\ \A n \in 0 .. M : EndOf(t, n) \in Nat
         /\ Tar(t).blocks[EndOf(t, M) + 1] = zero /\ Len(Tar(t).blocks) = EndOf(t, M) + 2
    BY <1>5, <1>6, <1>7, <1>8, <1>9
  <1> QED
    BY <1>10, <1>11, <1>12 DEF M, zero

\* Where a member's data starts.
LEMMA DataIs ==
    ASSUME NEW t \in Tars, NEW i \in 1 .. Len(t.members)
    PROVE  DataOf(t, i) = (EndOf(t, i - 1) + 1) * BlockSize /\ DataOf(t, i) \in Nat
  <1> DEFINE lens == Lengths(MembersBlocks(t))
             f == [j \in 1 .. i - 1 |-> Len(Blocks(t.members[j]))]
             M == Len(t.members)
  <1>1. M \in Nat /\ DOMAIN t.members = 1 .. M /\ i - 1 \in 0 .. M /\ i - 1 \in Nat /\ i \in 1 .. M
    BY MemberFacts
  <1>2. \A j \in 1 .. M : lens[j] = Len(Blocks(t.members[j]))
    BY <1>1 DEF Lengths, MembersBlocks
  <1>3. \A j \in 1 .. M : lens[j] \in Int
    <2>1. ASSUME NEW j \in 1 .. M PROVE lens[j] \in Int
      <3> DEFINE m == t.members[j]
                 S == {[kind |-> "data"], Header(m)}
      <3>1. m.size \in Nat /\ [kind |-> "data"] \in S /\ Header(m) \in S
        BY MemberFacts
      <3> HIDE DEF m, S
      <3>2. Blocks(m) \in Seq(S)
        BY <3>1, BlocksAre
      <3> QED
        BY <1>2, <3>2 DEF m
    <2> QED
      BY <2>1
  <1>4. SumFunction(f) = EndOf(t, i - 1)
    <2> DEFINE n == i - 1
    <2>1. \A j \in 1 .. n : f[j] \in Int /\ f[j] = lens[j] /\ lens[j] \in Int
      BY <1>1, <1>2, <1>3
    <2>2. n \in Nat /\ DOMAIN f = 1 .. n
      BY <1>1
    <2> HIDE DEF f, n, lens
    <2>3. SumFunctionOnSet(f, 1 .. n) = SumTo(f, n)
      BY <2>1, <2>2, SumOnInterval
    <2>4. SumTo(f, n) = SumTo(lens, n)
      BY <2>1, <2>2, SumToSame
    <2> QED
      BY <2>2, <2>3, <2>4 DEF SumFunction, EndOf, n, lens
  <1>5. EndOf(t, i - 1) \in Nat
    BY <1>1, ArchiveIs
  <1>6. BlockSize \in Nat
    BY VfsAssumptions
  <1>7. DataOf(t, i) = BlockSize * (1 + EndOf(t, i - 1))
    BY <1>4 DEF DataOf
  <1> QED
    BY <1>5, <1>6, <1>7
FilesTo(t, n) == {i \in 1 .. n : t.members[i].type = "file"}

FileEntry(t, i) ==
    [name |-> FullName(t.members[i]), data |-> DataOf(t, i), size |-> SizeOf(t, i)]

\* The file table of a set of members: each at its place.
MemberAt(S, f) == CHOOSE i \in S : Rank(S, i) = f

TableOf(t, S) == [f \in 1 .. Cardinality(S) |-> FileEntry(t, MemberAt(S, f))]

LEMMA MemberAtIs ==
    ASSUME NEW n \in Nat, NEW S, S \subseteq 1 .. n
    PROVE  /\ \A f \in 1 .. Cardinality(S) : MemberAt(S, f) \in S /\ Rank(S, MemberAt(S, f)) = f
           /\ \A i \in S : MemberAt(S, Rank(S, i)) = i
  <1>1. /\ Cardinality(S) \in Nat
        /\ \A i \in S : Rank(S, i) \in 1 .. Cardinality(S)
        /\ \A i \in S, j \in S : i < j => Rank(S, i) < Rank(S, j)
        /\ \A f \in 1 .. Cardinality(S) : \E i \in S : Rank(S, i) = f
    BY RankFacts
  <1>2. \A f \in 1 .. Cardinality(S) : MemberAt(S, f) \in S /\ Rank(S, MemberAt(S, f)) = f
    BY <1>1 DEF MemberAt
  <1>3. ASSUME NEW i \in S PROVE MemberAt(S, Rank(S, i)) = i
    <2> DEFINE j == MemberAt(S, Rank(S, i))
    <2>1. j \in S /\ Rank(S, j) = Rank(S, i)
      BY <1>1, <1>2
    <2> HIDE DEF j
    <2>2. i \in Nat /\ j \in Nat /\ Rank(S, i) \in Nat
      <3>1. \A x \in S : x \in Nat
        OBVIOUS
      <3> QED
        BY <1>1, <2>1, <3>1
    <2>3. ~ (i < j) /\ ~ (j < i)
      BY <1>1, <2>1, <2>2
    <2>4. j = i
      BY <2>2, <2>3
    <2> QED
      BY <2>4 DEF j
  <1> QED
    BY <1>2, <1>3

\* One more member.
LEMMA TableTurn ==
    ASSUME NEW t \in Tars, NEW n \in Nat, n + 1 <= Len(t.members)
    PROVE  /\ TableOf(t, FilesTo(t, n + 1))
                = IF t.members[n + 1].type = "file"
                  THEN Append(TableOf(t, FilesTo(t, n)), FileEntry(t, n + 1))
                  ELSE TableOf(t, FilesTo(t, n))
           /\ Cardinality(FilesTo(t, n + 1))
                = IF t.members[n + 1].type = "file"
                  THEN Cardinality(FilesTo(t, n)) + 1 ELSE Cardinality(FilesTo(t, n))
  <1> DEFINE S == FilesTo(t, n)
             T == FilesTo(t, n + 1)
             c == Cardinality(S)
             Q == {FileEntry(t, i) : i \in 1 .. n + 1}
  <1>1. S \subseteq 1 .. n /\ T \subseteq 1 .. n + 1 /\ n + 1 \in Nat
    BY DEF FilesTo
  <1>2. \A k : k \in 1 .. n + 1 <=> k \in 1 .. n \/ k = n + 1
    OBVIOUS
  <1>3. CASE t.members[n + 1].type # "file"
    <2>1. T = S
      BY <1>2, <1>3 DEF FilesTo
    <2> QED
      BY <1>3, <2>1
  <1>4. CASE t.members[n + 1].type = "file"
    <2>1. T = S \cup {n + 1} /\ n + 1 \notin S
      BY <1>2, <1>4 DEF FilesTo
    <2> HIDE DEF S, T
    <2>2. IsFiniteSet(S) /\ c \in Nat /\ Cardinality(T) = c + 1
      BY <1>1, <2>1, RankFacts, FS_AddElement
    <2>3. ASSUME NEW i \in S PROVE Rank(T, i) = Rank(S, i)
      <3>1. i \in Nat /\ i <= n
        BY <1>1
      <3>2. ~ (n + 1 <= i)
        BY <3>1
      <3>3. {j \in T : j <= i} = {j \in S : j <= i}
        BY <2>1, <3>2
      <3> QED
        BY <3>3 DEF Rank
    <2>4. Rank(T, n + 1) = c + 1
      <3>1. \A j \in T : j <= n + 1
        BY <1>1
      <3>2. {j \in T : j <= n + 1} = T
        BY <3>1
      <3> QED
        BY <2>2, <3>2 DEF Rank
    <2>5. ASSUME NEW f \in 1 .. c PROVE MemberAt(T, f) = MemberAt(S, f)
      <3> DEFINE i == MemberAt(S, f)
      <3>1. i \in S /\ Rank(S, i) = f
        BY <1>1, MemberAtIs
      <3> HIDE DEF i
      <3>2. i \in T /\ Rank(T, i) = f
        BY <2>1, <2>3, <3>1
      <3>3. MemberAt(T, f) = i
        BY <1>1, <3>2, MemberAtIs
      <3> QED
        BY <3>3 DEF i
    <2>6. MemberAt(T, c + 1) = n + 1
      <3>1. n + 1 \in T
        BY <2>1
      <3> QED
        BY <1>1, <2>4, <3>1, MemberAtIs
    <2> DEFINE old == TableOf(t, S)
               new == TableOf(t, T)
               e == FileEntry(t, n + 1)
    <2>7. /\ old \in [1 .. c -> Q] /\ DOMAIN old = 1 .. c
          /\ \A f \in 1 .. c : old[f] = FileEntry(t, MemberAt(S, f))
      <3>1. \A f \in 1 .. c : MemberAt(S, f) \in S
        BY <1>1, MemberAtIs
      <3>2. \A f \in 1 .. c : MemberAt(S, f) \in 1 .. n + 1
        BY <1>1, <1>2, <3>1
      <3>3. \A f \in 1 .. c : FileEntry(t, MemberAt(S, f)) \in Q
        BY <3>2
      <3> HIDE DEF Q, c
      <3> QED
        BY <3>3 DEF TableOf, c
    <2>8. /\ DOMAIN new = 1 .. c + 1 /\ new = [f \in 1 .. c + 1 |-> new[f]]
          /\ \A f \in 1 .. c + 1 : new[f] = FileEntry(t, MemberAt(T, f))
      BY <2>2 DEF TableOf
    <2>9. e \in Q
      BY <1>1
    <2> HIDE DEF old, new, Q, c, e
    <2>10. old \in Seq(Q)
      BY <2>2, <2>7, SeqDef
    <2>11. Len(old) = c
      BY <2>2, <2>7, <2>10, LenProperties
    <2>12. /\ Append(old, e) \in Seq(Q)
           /\ Len(Append(old, e)) = c + 1
           /\ \A f \in 1 .. c : Append(old, e)[f] = old[f]
           /\ Append(old, e)[c + 1] = e
      BY <2>9, <2>10, <2>11, AppendProperties
    <2>13. /\ DOMAIN Append(old, e) = 1 .. c + 1
           /\ Append(old, e) = [f \in 1 .. c + 1 |-> Append(old, e)[f]]
      <3> DEFINE s == Append(old, e)
      <3>1. s \in Seq(Q) /\ Len(s) = c + 1
        BY <2>12
      <3> HIDE DEF s
      <3>2. s \in [1 .. c + 1 -> Q]
        BY <3>1, LenProperties
      <3>3. DOMAIN s = 1 .. c + 1 /\ s = [f \in 1 .. c + 1 |-> s[f]]
        BY <3>2
      <3> QED
        BY <3>3 DEF s
    <2>14. ASSUME NEW f \in 1 .. c + 1 PROVE new[f] = Append(old, e)[f]
      <3>1. CASE f \in 1 .. c
        <4>1. new[f] = FileEntry(t, MemberAt(T, f)) /\ MemberAt(T, f) = MemberAt(S, f)
          BY <2>5, <2>8, <3>1
        <4>2. Append(old, e)[f] = FileEntry(t, MemberAt(S, f))
          BY <2>7, <2>12, <3>1
        <4> QED
          BY <4>1, <4>2
      <3>2. CASE f = c + 1
        <4>1. new[f] = e
          BY <2>6, <2>8, <3>2 DEF e
        <4> QED
          BY <2>12, <3>2, <4>1
      <3>3. f \in 1 .. c \/ f = c + 1
        BY <2>2
      <3> QED
        BY <3>1, <3>2, <3>3
    <2>15. new = Append(old, e)
      BY <2>8, <2>13, <2>14
    <2> QED
      BY <1>4, <2>2, <2>15 DEF S, T, old, new, e, c
  <1> QED
    BY <1>3, <1>4
LEMMA TableFacts ==
    ASSUME NEW t, NEW n \in Nat, NEW S, S \subseteq 1 .. n
    PROVE  /\ Len(TableOf(t, S)) = Cardinality(S) /\ Cardinality(S) \in Nat
           /\ DOMAIN TableOf(t, S) = 1 .. Cardinality(S)
           /\ TableOf(t, S) = <<>> <=> Cardinality(S) = 0
  <1> DEFINE c == Cardinality(S)
             Q == {FileEntry(t, i) : i \in 1 .. n}
             table == TableOf(t, S)
  <1>1. c \in Nat
    BY RankFacts
  <1>2. \A f \in 1 .. c : FileEntry(t, MemberAt(S, f)) \in Q
    <2>1. \A f \in 1 .. c : MemberAt(S, f) \in 1 .. n
      BY MemberAtIs
    <2> QED
      BY <2>1
  <1>3. table \in [1 .. c -> Q] /\ DOMAIN table = 1 .. c
    <2> HIDE DEF Q
    <2> QED
      BY <1>2 DEF TableOf
  <1> HIDE DEF table, c, Q
  <1>4. table \in Seq(Q)
    BY <1>1, <1>3, SeqDef
  <1>5. Len(table) = c
    BY <1>1, <1>3, <1>4, LenProperties
  <1>6. table = <<>> <=> Len(table) = 0
    BY <1>4, EmptySeq
  <1> QED
    BY <1>1, <1>3, <1>5, <1>6 DEF table, c

\* The members at which the loop stops, how many it takes before, and what it returns.
StopsAt(t, i) ==
    \/ DataOf(t, i) > t.cut
    \/ t.members[i].type = "junk"
    \/ t.members[i].type = "file" /\ Cardinality(FilesTo(t, i - 1)) >= VFS_MAX_FILES

Stops(t) == {i \in 1 .. Len(t.members) : StopsAt(t, i)}

Taken(t) == IF Stops(t) = {} THEN Len(t.members) ELSE Min(Stops(t)) - 1

EndRet(t) ==
    LET i == Taken(t) + 1
        count == Cardinality(FilesTo(t, Taken(t)))
    IN  IF i > Len(t.members) \/ DataOf(t, i) > t.cut THEN count
        ELSE IF t.members[i].type = "junk" THEN IF count = 0 THEN -2 ELSE count
        ELSE -3

LEMMA TakenFacts ==
    ASSUME NEW t \in Tars
    PROVE  /\ Taken(t) \in 0 .. Len(t.members)
           /\ \A i \in 1 .. Taken(t) : ~ StopsAt(t, i)
           /\ Taken(t) < Len(t.members) => StopsAt(t, Taken(t) + 1)
  <1> DEFINE M == Len(t.members)
             m == Min(Stops(t))
  <1>1. M \in Nat /\ Stops(t) \subseteq 1 .. M /\ Stops(t) \subseteq Nat
    BY MemberFacts DEF Stops
  <1>2. Stops(t) # {} => m \in Stops(t) /\ \A i \in Stops(t) : m <= i
    BY <1>1, MinFacts
  <1>3. \A i \in 1 .. M : i \in Stops(t) <=> StopsAt(t, i)
    BY DEF Stops
  <1> HIDE DEF M, m
  <1>4. CASE Stops(t) = {}
    <2>1. Taken(t) = M
      BY <1>4 DEF Taken, M
    <2> QED
      BY <1>1, <1>3, <1>4, <2>1 DEF M
  <1>5. CASE Stops(t) # {}
    <2>1. Taken(t) = m - 1 /\ m \in 1 .. M /\ m \in Stops(t) /\ \A i \in Stops(t) : m <= i
      BY <1>1, <1>2, <1>5 DEF Taken, m
    <2>2. \A i \in 1 .. m - 1 : i \in 1 .. M /\ ~ (m <= i)
      BY <1>1, <2>1
    <2>3. \A i \in 1 .. m - 1 : ~ StopsAt(t, i)
      BY <1>3, <2>1, <2>2
    <2>4. (m - 1) + 1 = m /\ m - 1 \in 0 .. M
      BY <1>1, <2>1
    <2> QED
      BY <1>3, <2>1, <2>3, <2>4 DEF M
  <1> QED
    BY <1>4, <1>5

\* The loop's state after n members.
Walking(t, n) ==
    [over |-> FALSE, ret |-> -1, k |-> EndOf(t, n), files |-> TableOf(t, FilesTo(t, n))]

Stopped(t) == [Walking(t, Taken(t)) EXCEPT !.over = TRUE, !.ret = EndRet(t)]

\* A turn takes one member.
LEMMA TurnTakes ==
    ASSUME NEW t \in Tars, NEW n \in Nat, n + 1 <= Taken(t)
    PROVE  Turn(Tar(t), Walking(t, n)) = Walking(t, n + 1)
  <1> DEFINE ar == Tar(t)
             st == Walking(t, n)
             i == n + 1
             h == ar.blocks[EndOf(t, n) + 1]
             m == t.members[i]
             M == Len(t.members)
             table == TableOf(t, FilesTo(t, n))
             c == Cardinality(FilesTo(t, n))
  <1>1. i \in 1 .. M /\ i \in 1 .. Taken(t) /\ i - 1 = n /\ M \in Nat
    BY MemberFacts, TakenFacts
  <1>2. ~ StopsAt(t, i)
    BY <1>1, TakenFacts
  <1>3. h = FirstBlock(t, i) /\ EndOf(t, n) \in Nat
    <2>1. ar.blocks[EndOf(t, i - 1) + 1] = FirstBlock(t, i) /\ n \in 0 .. M
      BY <1>1, ArchiveIs
    <2> QED
      BY <1>1, <2>1, ArchiveIs
  <1>4. m.type \in {"file", "dir", "junk"} /\ m.type # "junk"
    BY <1>1, <1>2, MemberFacts DEF StopsAt
  <1>5. h = Header(m)
    BY <1>3, <1>4 DEF FirstBlock
  <1>6. /\ h.kind = "header" /\ h.regular = (m.type = "file") /\ h.name = m.name
        /\ h.size = m.size
    BY <1>5 DEF Header
  <1>7. /\ DataOf(t, i) = (EndOf(t, n) + 1) * BlockSize /\ DataOf(t, i) \in Nat
        /\ t.cut \in Nat /\ ~ (DataOf(t, i) > t.cut)
    BY <1>1, <1>2, DataIs, MemberFacts DEF StopsAt
  <1>8. ar.size = t.cut
    BY DEF Tar
  <1>9. Entry(ar, EndOf(t, n)) = FileEntry(t, i)
    <2> HIDE DEF h, ar
    <2>1. ar.blocks[EndOf(t, n) + 1] = h
      BY DEF h
    <2> QED
      BY <1>6, <1>7, <1>8, <2>1 DEF Entry, FileEntry, FullName, SizeOf
  <1>10. Len(table) = c
    <2>1. FilesTo(t, n) \subseteq 1 .. n
      BY DEF FilesTo
    <2> QED
      BY <2>1, TableFacts
  <1>11. ~ (h.regular /\ TableFull(table))
    <2>1. m.type = "file" => ~ (c >= VFS_MAX_FILES)
      BY <1>1, <1>2 DEF StopsAt
    <2> HIDE DEF h, m, table, c
    <2> QED
      BY <1>6, <1>10, <2>1 DEF TableFull
  <1>12. Turn(ar, st)
           = [st EXCEPT !.k = @ + 1 + Padded(h.size),
                        !.files = IF h.regular THEN Append(@, Entry(ar, st.k)) ELSE @]
    <2>1. st.over = FALSE /\ st.k = EndOf(t, n) /\ st.files = table
      BY DEF Walking
    <2>2. ~ ((EndOf(t, n) + 1) * BlockSize > ar.size \/ h.kind = "zero")
      BY <1>6, <1>7, <1>8
    <2>3. ar.blocks[st.k + 1] = h
      BY <2>1
    <2> HIDE DEF st, ar, h, table
    <2>4. h.kind # "data"
      BY <1>6
    <2> QED
      BY <1>11, <2>1, <2>2, <2>3, <2>4 DEF Turn
  <1>13. EndOf(t, i) = EndOf(t, n) + 1 + Padded(h.size)
    <2>1. EndOf(t, i) = EndOf(t, i - 1)
                        + IF m.type = "junk" THEN 1 ELSE 1 + Padded(m.size)
      BY <1>1, ArchiveIs
    <2>2. Padded(m.size) \in Nat
      BY <1>1, MemberFacts, PaddedIs
    <2> HIDE DEF m, h, i
    <2> QED
      BY <1>1, <1>3, <1>4, <1>6, <2>1, <2>2
  <1>14. TableOf(t, FilesTo(t, i))
           = IF m.type = "file" THEN Append(table, FileEntry(t, i)) ELSE table
    BY <1>1, TableTurn
  <1> HIDE DEF h, m, table, ar, i
  <1>15. Turn(ar, st) = [over |-> FALSE, ret |-> -1, k |-> EndOf(t, i),
                         files |-> TableOf(t, FilesTo(t, i))]
    <2>1. st.k = EndOf(t, n) /\ st.files = table
      BY DEF Walking, table
    <2>2. (IF h.regular THEN Append(table, Entry(ar, st.k)) ELSE table) = TableOf(t, FilesTo(t, i))
      BY <1>6, <1>9, <1>14, <2>1
    <2>3. st.k + 1 + Padded(h.size) = EndOf(t, i)
      BY <1>13, <2>1
    <2>4. st = [over |-> FALSE, ret |-> -1, k |-> EndOf(t, n), files |-> table]
      BY DEF Walking, table
    <2> DEFINE newk == st.k + 1 + Padded(h.size)
               newf == IF h.regular THEN Append(table, Entry(ar, st.k)) ELSE table
    <2>5. Turn(ar, st) = [st EXCEPT !.k = newk, !.files = newf]
      BY <1>12, <2>1
    <2>6. newk = EndOf(t, i) /\ newf = TableOf(t, FilesTo(t, i))
      BY <2>2, <2>3
    <2> HIDE DEF st, newk, newf
    <2> QED
      BY <2>4, <2>5, <2>6
  <1> QED
    BY <1>15 DEF Walking, ar, i

\* The turn after the last member taken ends the loop.
LEMMA TurnStops ==
    ASSUME NEW t \in Tars
    PROVE  Turn(Tar(t), Walking(t, Taken(t))) = Stopped(t)
  <1> DEFINE n == Taken(t)
             ar == Tar(t)
             st == Walking(t, n)
             i == n + 1
             h == ar.blocks[EndOf(t, n) + 1]
             m == t.members[i]
             M == Len(t.members)
             table == TableOf(t, FilesTo(t, n))
             c == Cardinality(FilesTo(t, n))
             past == (EndOf(t, n) + 1) * BlockSize > t.cut
  <1>1. M \in Nat /\ n \in 0 .. M /\ n \in Nat /\ EndOf(t, n) \in Nat
    BY MemberFacts, TakenFacts, ArchiveIs
  <1>2. Len(table) = c /\ c \in Nat /\ (table = <<>> <=> c = 0)
    <2>1. FilesTo(t, n) \subseteq 1 .. n
      BY DEF FilesTo
    <2> QED
      BY <1>1, <2>1, TableFacts
  <1>3. st.over = FALSE /\ st.k = EndOf(t, n) /\ st.files = table
    BY DEF Walking
  <1>4. ar.size = t.cut
    BY DEF Tar
  <1>5. SUFFICES Turn(ar, st) = [st EXCEPT !.over = TRUE, !.ret = EndRet(t)]
    BY DEF Stopped
  <1>8. Turn(ar, st)
          = IF past \/ h.kind = "zero" THEN [st EXCEPT !.over = TRUE, !.ret = c]
            ELSE IF h.kind = "data"
              THEN [st EXCEPT !.over = TRUE, !.ret = IF c = 0 THEN -2 ELSE c]
            ELSE IF h.regular /\ c >= VFS_MAX_FILES
              THEN [st EXCEPT !.over = TRUE, !.ret = -3]
            ELSE [st EXCEPT !.k = @ + 1 + Padded(h.size),
                            !.files = IF h.regular THEN Append(@, Entry(ar, st.k)) ELSE @]
    <2> HIDE DEF st, table, c, n
    <2> QED
      BY <1>2, <1>3, <1>4 DEF Turn, TableFull
  <1>9. CASE n = M
    <2>1. h.kind = "zero"
      <3>1. h = [kind |-> "zero"]
        BY <1>9, ArchiveIs
      <3> HIDE DEF h
      <3> QED
        BY <3>1
    <2>2. i > M
      BY <1>1, <1>9
    <2>3. EndRet(t) = c
      BY <2>2 DEF EndRet
    <2> HIDE DEF st, c, h, ar, past
    <2> QED
      BY <1>8, <2>1, <2>3
  <1>10. CASE n < M
    <2>1. i \in 1 .. M /\ i - 1 = n /\ ~ (i > M)
      BY <1>1, <1>10
    <2>2. StopsAt(t, i)
      BY <1>10, TakenFacts
    <2>3. h = FirstBlock(t, i)
      <3>1. ar.blocks[EndOf(t, i - 1) + 1] = FirstBlock(t, i)
        BY <2>1, ArchiveIs
      <3> QED
        BY <2>1, <3>1
    <2>4. past <=> DataOf(t, i) > t.cut
      <3>1. DataOf(t, i) = (EndOf(t, i - 1) + 1) * BlockSize
        BY <2>1, DataIs
      <3> QED
        BY <2>1, <3>1
    <2>5. EndRet(t) = IF past THEN c
                      ELSE IF m.type = "junk" THEN IF c = 0 THEN -2 ELSE c ELSE -3
      <3> HIDE DEF past, n
      <3> QED
        BY <2>1, <2>4 DEF EndRet, n
    <2>6. past \/ m.type = "junk" \/ (m.type = "file" /\ c >= VFS_MAX_FILES)
      BY <2>1, <2>2, <2>4 DEF StopsAt
    <2>7. /\ m.type = "junk" => h.kind = "data"
          /\ m.type # "junk" => h.kind = "header" /\ h.regular = (m.type = "file")
      <3> HIDE DEF h, m
      <3> QED
        BY <2>3 DEF FirstBlock, Header, m
    <2> HIDE DEF st, c, h, ar, past, m
    <2>8. CASE past
      BY <1>8, <2>5, <2>8
    <2>9. CASE ~ past /\ m.type = "junk"
      BY <1>8, <2>5, <2>7, <2>9
    <2>10. CASE ~ past /\ m.type # "junk"
      BY <1>8, <2>5, <2>6, <2>7, <2>10
    <2> QED
      BY <2>8, <2>9, <2>10
  <1> QED
    BY <1>1, <1>9, <1>10
LEMMA EndsAfter ==
    ASSUME NEW t \in Tars, NEW n \in 0 .. Len(t.members)
    PROVE  EndOf(t, n) >= n
  <1> DEFINE M == Len(t.members)
             Good == {k \in Nat : k <= M => EndOf(t, k) >= k}
  <1>1. M \in Nat /\ EndOf(t, 0) = 0 /\ \A k \in 0 .. M : EndOf(t, k) \in Nat
    BY MemberFacts, ArchiveIs
  <1>2. 0 \in Good
    BY <1>1
  <1>3. ASSUME NEW k \in Nat, k \in Good PROVE k + 1 \in Good
    <2>1. CASE k + 1 <= M
      <3>1. k + 1 \in 1 .. M /\ (k + 1) - 1 = k /\ k \in 0 .. M /\ EndOf(t, k) >= k
        BY <1>1, <1>3, <2>1
      <3>2. EndOf(t, k + 1) = EndOf(t, (k + 1) - 1)
                              + IF t.members[k + 1].type = "junk" THEN 1
                                ELSE 1 + Padded(t.members[k + 1].size)
        BY <3>1, ArchiveIs
      <3>3. Padded(t.members[k + 1].size) \in Nat
        BY <3>1, MemberFacts, PaddedIs
      <3> DEFINE p == Padded(t.members[k + 1].size)
                 e == EndOf(t, k)
      <3>4. EndOf(t, k + 1) = e + 1 \/ EndOf(t, k + 1) = e + (1 + p)
        BY <3>1, <3>2
      <3>5. e \in Nat /\ p \in Nat /\ e >= k
        BY <1>1, <3>1, <3>3
      <3> HIDE DEF p, e
      <3>6. EndOf(t, k + 1) >= k + 1
        BY <3>4, <3>5
      <3> QED
        BY <3>6
    <2>2. CASE ~ (k + 1 <= M)
      BY <2>2
    <2> QED
      BY <2>1, <2>2
  <1>4. Nat \subseteq Good
    <2> HIDE DEF Good
    <2> QED
      BY <1>2, <1>3, NatSetInduction
  <1>5. n \in Nat /\ n <= M
    BY <1>1
  <1> QED
    BY <1>4, <1>5

\* What vfs_init leaves and returns.
LEMMA VfsIs ==
    ASSUME NEW t \in Tars
    PROVE  /\ vfs_init(Tar(t)).files = TableOf(t, FilesTo(t, Taken(t)))
           /\ vfs_init(Tar(t)).ret = IF t.cut < BlockSize THEN -1 ELSE EndRet(t)
  <1> DEFINE ar == Tar(t)
             M == Len(t.members)
             N == Len(ar.blocks)
             last == Taken(t)
             tiny == t.cut < BlockSize
             dead == [over |-> TRUE, ret |-> -1, k |-> 0, files |-> <<>>]
             begin == [over |-> ar.size < BlockSize, ret |-> -1, k |-> 0, files |-> <<>>]
             f == [n \in 0 .. N |-> IF tiny THEN dead
                                    ELSE IF n <= last THEN Walking(t, n) ELSE Stopped(t)]
             Obeys(u) == u = [n \in 0 .. N |-> IF n = 0 THEN begin ELSE Turn(ar, u[n - 1])]
             st == CHOOSE u : Obeys(u)
  <1>1. /\ M \in Nat /\ last \in 0 .. M /\ last \in Nat /\ N \in Nat /\ last < N
    <2>1. M \in Nat /\ last \in 0 .. M
      BY MemberFacts, TakenFacts
    <2>2. EndOf(t, M) \in Nat /\ EndOf(t, M) >= M /\ N = EndOf(t, M) + 2
      BY <2>1, ArchiveIs, EndsAfter
    <2> HIDE DEF M, N, last
    <2> QED
      BY <2>1, <2>2
  <1>2. ar.size = t.cut
    BY DEF Tar
  <1>3. FilesTo(t, 0) = {} /\ TableOf(t, FilesTo(t, 0)) = <<>>
    <2>1. FilesTo(t, 0) = {}
      BY DEF FilesTo
    <2> QED
      BY <2>1, FS_EmptySet DEF TableOf
  <1>4. Walking(t, 0) = [over |-> FALSE, ret |-> -1, k |-> 0, files |-> <<>>]
    BY <1>3, ArchiveIs DEF Walking
  <1>5. begin = IF tiny THEN dead ELSE Walking(t, 0)
    <2>1. CASE tiny
      <3>1. (ar.size < BlockSize) = TRUE
        BY <1>2, <2>1
      <3> QED
        BY <2>1, <3>1
    <2>2. CASE ~ tiny
      <3>1. (ar.size < BlockSize) = FALSE
        BY <1>2, <2>2
      <3> QED
        BY <1>4, <2>2, <3>1
    <2> QED
      BY <2>1, <2>2
  <1>6. \A x : x.over => Turn(ar, x) = x
    BY DEF Turn
  <1>7. Stopped(t).over /\ dead.over
    BY DEF Stopped, Walking
  <1>8. \A n \in Nat : n + 1 <= last => Turn(ar, Walking(t, n)) = Walking(t, n + 1)
    BY TurnTakes
  <1>9. Turn(ar, Walking(t, last)) = Stopped(t)
    BY TurnStops
  <1> HIDE DEF ar, M, N, last, dead, begin, tiny
  <1>10. Obeys(f)
    <2>1. ASSUME NEW n \in 0 .. N
          PROVE  f[n] = IF n = 0 THEN begin ELSE Turn(ar, f[n - 1])
      <3>1. CASE n = 0
        BY <1>1, <1>5, <3>1
      <3>2. CASE n # 0
        <4>1. n - 1 \in 0 .. N /\ n - 1 \in Nat /\ (n - 1) + 1 = n
          BY <1>1, <3>2
        <4>2. CASE tiny
          <5>1. f[n] = dead /\ f[n - 1] = dead
            BY <4>1, <4>2
          <5> HIDE DEF f
          <5> QED
            BY <1>6, <1>7, <3>2, <5>1
        <4>3. CASE ~ tiny /\ n <= last
          <5>1. f[n] = Walking(t, n) /\ f[n - 1] = Walking(t, n - 1)
            BY <1>1, <4>1, <4>3
          <5>2. Turn(ar, Walking(t, n - 1)) = Walking(t, (n - 1) + 1)
            BY <1>8, <4>1, <4>3
          <5> HIDE DEF f
          <5> QED
            BY <3>2, <4>1, <5>1, <5>2
        <4>4. CASE ~ tiny /\ n = last + 1
          <5>1. n - 1 = last /\ ~ (n <= last) /\ last <= last
            BY <1>1, <4>4
          <5>2. f[n] = Stopped(t) /\ f[n - 1] = Walking(t, last)
            BY <4>1, <4>4, <5>1
          <5> HIDE DEF f
          <5> QED
            BY <1>9, <3>2, <5>2
        <4>5. CASE ~ tiny /\ n > last + 1
          <5>1. ~ (n <= last) /\ ~ (n - 1 <= last)
            BY <1>1, <4>5
          <5>2. f[n] = Stopped(t) /\ f[n - 1] = Stopped(t)
            BY <4>1, <4>5, <5>1
          <5> HIDE DEF f
          <5> QED
            BY <1>6, <1>7, <3>2, <5>2
        <4>6. n <= last \/ n = last + 1 \/ n > last + 1
          BY <1>1
        <4> QED
          BY <4>2, <4>3, <4>4, <4>5, <4>6
      <3> QED
        BY <3>1, <3>2
    <2>2. f = [n \in 0 .. N |-> f[n]]
      OBVIOUS
    <2> HIDE DEF f
    <2> QED
      BY <2>1, <2>2
  <1>11. Obeys(st)
    <2> HIDE DEF Obeys, f
    <2> QED
      BY <1>10
  <1>12. vfs_init(Tar(t)) = [ret |-> st[N].ret, files |-> st[N].files]
    BY DEF vfs_init, ar, N, begin
  <1>13. st[N] = f[N]
    <2> DEFINE Same == {n \in Nat : n <= N => st[n] = f[n]}
    <2> HIDE DEF f, st
    <2>1. 0 \in Same
      <3>1. 0 \in 0 .. N
        BY <1>1
      <3> QED
        BY <1>10, <1>11, <3>1
    <2>2. ASSUME NEW n \in Nat, n \in Same PROVE n + 1 \in Same
      <3>1. CASE n + 1 <= N
        <4>1. n + 1 \in 0 .. N /\ n + 1 # 0 /\ (n + 1) - 1 = n /\ st[n] = f[n]
          BY <1>1, <2>2, <3>1
        <4>2. f[n + 1] = Turn(ar, f[(n + 1) - 1])
          BY <1>10, <4>1
        <4>3. st[n + 1] = Turn(ar, st[(n + 1) - 1])
          BY <1>11, <4>1
        <4> QED
          BY <4>1, <4>2, <4>3
      <3>2. CASE ~ (n + 1 <= N)
        BY <3>2
      <3> QED
        BY <3>1, <3>2
    <2>3. N \in Same
      <3> HIDE DEF Same
      <3> QED
        BY <1>1, <2>1, <2>2, NatSetInduction
    <2> QED
      BY <2>3
  <1>14. f[N] = IF tiny THEN dead ELSE Stopped(t)
    BY <1>1
  <1>15. tiny => last = 0
    <2> SUFFICES ASSUME tiny, last # 0 PROVE FALSE
      OBVIOUS
    <2>1. 1 \in 1 .. last /\ 1 \in 1 .. M /\ 1 - 1 = 0
      BY <1>1
    <2>2. ~ (DataOf(t, 1) > t.cut)
      BY <2>1, TakenFacts DEF StopsAt, last
    <2>3. DataOf(t, 1) = (EndOf(t, 1 - 1) + 1) * BlockSize
      BY <2>1, DataIs DEF M
    <2>4. BlockSize \in Nat /\ t.cut \in Nat /\ EndOf(t, 0) = 0
      BY VfsAssumptions, MemberFacts, ArchiveIs
    <2>5. DataOf(t, 1) = BlockSize
      BY <2>1, <2>3, <2>4
    <2> QED
      BY <2>2, <2>4, <2>5 DEF tiny
  <1>16. dead.files = <<>> /\ dead.ret = -1
    BY DEF dead
  <1>17. Stopped(t).files = TableOf(t, FilesTo(t, last)) /\ Stopped(t).ret = EndRet(t)
    BY DEF Stopped, Walking, last
  <1>18. /\ vfs_init(Tar(t)).files = f[N].files /\ vfs_init(Tar(t)).ret = f[N].ret
    <2> HIDE DEF f, st
    <2> QED
      BY <1>12, <1>13
  <1> HIDE DEF f
  <1>19. CASE tiny
    BY <1>3, <1>14, <1>15, <1>16, <1>18, <1>19 DEF tiny, last
  <1>20. CASE ~ tiny
    BY <1>14, <1>17, <1>18, <1>20 DEF tiny, last
  <1> QED
    BY <1>19, <1>20
\* Data lies in the archive in the order of the members.
LEMMA DataGrows ==
    ASSUME NEW t \in Tars, NEW i \in 1 .. Len(t.members), NEW j \in 1 .. Len(t.members), i <= j
    PROVE  DataOf(t, i) <= DataOf(t, j)
  <1> DEFINE M == Len(t.members)
             Good == {k \in Nat : i <= k /\ k <= M => EndOf(t, i - 1) <= EndOf(t, k - 1)}
  <1>1. M \in Nat /\ i \in 1 .. M /\ j \in 1 .. M
    BY MemberFacts
  <1>2. 0 \in Good
    <2>1. ~ (i <= 0)
      BY <1>1
    <2>2. (i <= 0 /\ 0 <= M) => EndOf(t, i - 1) <= EndOf(t, 0 - 1)
      BY <2>1, Zenon
    <2>3. 0 \in Nat
      OBVIOUS
    <2> HIDE DEF M
    <2> QED
      BY <2>2, <2>3, Zenon
  <1>3. ASSUME NEW k \in Nat, k \in Good PROVE k + 1 \in Good
    <2>1. CASE i <= k /\ k + 1 <= M
      <3>1. /\ k \in 1 .. M /\ EndOf(t, i - 1) <= EndOf(t, k - 1) /\ (k + 1) - 1 = k
            /\ i - 1 \in 0 .. M /\ k - 1 \in 0 .. M
        BY <1>1, <1>3, <2>1
      <3>2. /\ EndOf(t, i - 1) \in Nat /\ EndOf(t, k - 1) \in Nat
            /\ EndOf(t, k) = EndOf(t, k - 1) + IF t.members[k].type = "junk" THEN 1
                                               ELSE 1 + Padded(t.members[k].size)
        BY <3>1, ArchiveIs
      <3>3. Padded(t.members[k].size) \in Nat
        BY <3>1, MemberFacts, PaddedIs
      <3> DEFINE p == Padded(t.members[k].size)
                 a == EndOf(t, i - 1)
                 b == EndOf(t, k - 1)
      <3>4. EndOf(t, k) = b + 1 \/ EndOf(t, k) = b + (1 + p)
        BY <3>2
      <3>5. a \in Nat /\ b \in Nat /\ p \in Nat /\ a <= b
        BY <3>1, <3>2, <3>3
      <3> HIDE DEF a, b, p
      <3>6. a <= EndOf(t, k)
        BY <3>4, <3>5
      <3> QED
        BY <3>1, <3>6 DEF a
    <2>2. CASE i = k + 1
      <3>1. EndOf(t, i - 1) \in Nat
        BY <1>1, ArchiveIs
      <3> QED
        BY <2>2, <3>1
    <2>3. CASE ~ (i <= k + 1 /\ k + 1 <= M)
      BY <2>3
    <2> QED
      BY <1>1, <2>1, <2>2, <2>3
  <1>4. j \in Good
    <2> HIDE DEF Good
    <2> QED
      BY <1>1, <1>2, <1>3, NatSetInduction
  <1> DEFINE a == EndOf(t, i - 1)
             b == EndOf(t, j - 1)
  <1>5. a <= b /\ a \in Nat /\ b \in Nat
    <2>1. i - 1 \in 0 .. M /\ j - 1 \in 0 .. M
      BY <1>1
    <2> QED
      BY <1>1, <1>4, <2>1, ArchiveIs
  <1>6. /\ DataOf(t, i) = (a + 1) * BlockSize /\ DataOf(t, j) = (b + 1) * BlockSize
        /\ BlockSize \in Nat
    BY <1>1, DataIs, VfsAssumptions
  <1> HIDE DEF a, b
  <1>7. PICK d \in Nat : b = a + d
    BY <1>5, b - a \in Nat /\ b = a + (b - a)
  <1>8. (b + 1) * BlockSize = (a + 1) * BlockSize + d * BlockSize
    BY <1>5, <1>6, <1>7
  <1>9. (a + 1) * BlockSize \in Nat /\ d * BlockSize \in Nat
    BY <1>5, <1>6
  <1> DEFINE x == (a + 1) * BlockSize
             y == d * BlockSize
  <1>10. DataOf(t, i) = x /\ DataOf(t, j) = x + y /\ x \in Nat /\ y \in Nat
    BY <1>6, <1>8, <1>9
  <1> HIDE DEF x, y
  <1> QED
    BY <1>10

LEMMA NeverTooMany ==
    ASSUME NEW t \in Tars, NEW n \in 0 .. Taken(t)
    PROVE  Cardinality(FilesTo(t, n)) <= VFS_MAX_FILES
  <1> DEFINE Good == {k \in Nat : k <= Taken(t) => Cardinality(FilesTo(t, k)) <= VFS_MAX_FILES}
  <1>1. Taken(t) \in 0 .. Len(t.members) /\ Len(t.members) \in Nat /\ VFS_MAX_FILES \in Nat \ {0}
    BY TakenFacts, MemberFacts, VfsAssumptions
  <1>2. 0 \in Good
    <2>1. FilesTo(t, 0) = {}
      BY DEF FilesTo
    <2>2. Cardinality(FilesTo(t, 0)) = 0
      BY <2>1, FS_EmptySet
    <2>3. 0 <= VFS_MAX_FILES
      BY <1>1
    <2> QED
      BY <2>2, <2>3
  <1>3. ASSUME NEW k \in Nat, k \in Good PROVE k + 1 \in Good
    <2>1. CASE k + 1 <= Taken(t)
      <3> DEFINE c == Cardinality(FilesTo(t, k))
                 d == Cardinality(FilesTo(t, k + 1))
      <3>1. /\ k + 1 \in 1 .. Taken(t) /\ (k + 1) - 1 = k /\ k + 1 <= Len(t.members)
            /\ c <= VFS_MAX_FILES
        BY <1>1, <1>3, <2>1
      <3>2. ~ StopsAt(t, k + 1)
        BY <3>1, TakenFacts
      <3>3. t.members[k + 1].type = "file" => ~ (c >= VFS_MAX_FILES)
        BY <3>1, <3>2 DEF StopsAt
      <3>4. d = IF t.members[k + 1].type = "file" THEN c + 1 ELSE c
        BY <3>1, TableTurn
      <3>5. c \in Nat
        <4>1. FilesTo(t, k) \subseteq 1 .. k
          BY DEF FilesTo
        <4> QED
          BY <4>1, RankFacts
      <3> HIDE DEF c, d
      <3>6. d <= VFS_MAX_FILES
        BY <1>1, <3>1, <3>3, <3>4, <3>5
      <3> QED
        BY <3>6 DEF d
    <2>2. CASE ~ (k + 1 <= Taken(t))
      BY <2>2
    <2> QED
      BY <2>1, <2>2
  <1>4. n \in Good
    <2>1. n \in Nat
      BY <1>1
    <2> HIDE DEF Good
    <2> QED
      BY <1>2, <1>3, <2>1, NatSetInduction
  <1> QED
    BY <1>1, <1>4

\* The table holds the first VFS_MAX_FILES of the files stored.
LEMMA KeptIs ==
    ASSUME NEW t \in Tars
    PROVE  /\ Least(VFS_MAX_FILES, Stored(t)) = FilesTo(t, Taken(t))
           /\ EndRet(t) = -3 <=> Stored(t) # FilesTo(t, Taken(t))
  <1> DEFINE M == Len(t.members)
             last == Taken(t)
             i0 == last + 1
             S == Stored(t)
             F == FilesTo(t, last)
             Max0 == VFS_MAX_FILES
             Full == /\ last < M /\ ~ (DataOf(t, i0) > t.cut) /\ t.members[i0].type # "junk"
  <1>1. /\ M \in Nat /\ last \in 0 .. M /\ DOMAIN t.members = 1 .. M /\ t.cut \in Nat
        /\ Max0 \in Nat
        /\ \A i \in 1 .. M : DataOf(t, i) \in Nat
        /\ last < M => i0 \in 1 .. M /\ i0 - 1 = last
    <2>1. M \in Nat /\ last \in 0 .. M /\ DOMAIN t.members = 1 .. M /\ t.cut \in Nat
      BY MemberFacts, TakenFacts
    <2>2. Max0 \in Nat
      BY VfsAssumptions
    <2>3. \A i \in 1 .. M : DataOf(t, i) \in Nat
      BY DataIs
    <2> HIDE DEF M, last, Max0
    <2> QED
      BY <2>1, <2>2, <2>3
  <1>2. /\ F \subseteq 1 .. last /\ IsFiniteSet(F) /\ Cardinality(F) \in Nat
        /\ Cardinality(F) <= Max0
        /\ \A i \in F : Rank(F, i) \in 1 .. Cardinality(F)
    <2>1. F \subseteq 1 .. last /\ last \in Nat
      BY <1>1 DEF FilesTo
    <2>2. Cardinality(F) <= Max0
      BY <1>1, NeverTooMany
    <2> HIDE DEF F, last
    <2> QED
      BY <2>1, <2>2, RankFacts
  <1>3. S \subseteq 1 .. M /\ IsFiniteSet(S) /\ Cardinality(S) \in Nat
    <2>1. S \subseteq 1 .. M
      BY <1>1 DEF Stored
    <2> HIDE DEF S, M
    <2> QED
      BY <1>1, <2>1, RankFacts
  <1>4. \A i \in 1 .. M :
          i \in S <=> /\ t.members[i].type = "file" /\ DataOf(t, i) <= t.cut
                      /\ \A j \in 1 .. i : t.members[j].type # "junk"
    BY <1>1 DEF Stored
  <1>5. \A i \in 1 .. last : i \in 1 .. M /\ (i \in S <=> i \in F)
    <2> TAKE i \in 1 .. last
    <2>1. i \in 1 .. M /\ \A j \in 1 .. i : j \in 1 .. last
      BY <1>1
    <2>2. \A j \in 1 .. last : ~ StopsAt(t, j)
      BY TakenFacts
    <2>3. \A j \in 1 .. last : t.members[j].type # "junk" /\ ~ (DataOf(t, j) > t.cut)
      BY <2>2 DEF StopsAt
    <2>4. DataOf(t, i) <= t.cut
      BY <1>1, <2>1, <2>3
    <2>5. i \in F <=> t.members[i].type = "file"
      BY DEF FilesTo
    <2> HIDE DEF S, F, M, last
    <2> QED
      BY <1>4, <2>1, <2>3, <2>4, <2>5
  <1>6. F \subseteq S
    <2> HIDE DEF S, F
    <2> QED
      BY <1>2, <1>5
  <1>7. CASE ~ Full
    <2>1. ASSUME NEW i \in S PROVE i \in 1 .. last
      <3> SUFFICES ASSUME i \notin 1 .. last PROVE FALSE
        OBVIOUS
      <3>1. i \in 1 .. M /\ last < M /\ i0 <= i /\ i0 \in 1 .. i /\ i0 \in 1 .. M
        <4> HIDE DEF S, M, last
        <4> QED
          BY <1>1, <1>3
      <3>2. DataOf(t, i) <= t.cut /\ t.members[i0].type # "junk"
        <4> HIDE DEF S, i0, M
        <4> QED
          BY <1>4, <3>1
      <3>3. DataOf(t, i0) <= DataOf(t, i)
        BY <3>1, DataGrows
      <3>4. DataOf(t, i0) \in Nat /\ DataOf(t, i) \in Nat
        BY <1>1, <3>1
      <3> HIDE DEF last, M, i0
      <3> QED
        BY <1>1, <1>7, <3>1, <3>2, <3>3, <3>4
    <2>2. S = F
      <3> HIDE DEF S, F, last
      <3> QED
        BY <1>5, <1>6, <2>1
    <2>3. ASSUME NEW i \in S PROVE Rank(S, i) <= Max0
      <3>1. Rank(F, i) \in 1 .. Cardinality(F)
        BY <1>2, <2>2
      <3> HIDE DEF S, F, Max0
      <3> QED
        BY <1>1, <1>2, <2>2, <3>1
    <2>4. Least(Max0, S) = S
      <3> HIDE DEF S, Max0
      <3> QED
        BY <2>3 DEF Least, Rank
    <2>5. EndRet(t) # -3
      <3>1. EndRet(t) = Cardinality(F) \/ EndRet(t) = -2
        <4> HIDE DEF F
        <4>1. CASE last < M
          BY <1>7, <4>1 DEF EndRet, F
        <4>2. CASE ~ (last < M)
          <5>1. i0 > M
            BY <1>1, <4>2
          <5> QED
            BY <5>1 DEF EndRet, F
        <4> QED
          BY <4>1, <4>2
      <3> HIDE DEF F
      <3> QED
        BY <1>2, <3>1
    <2> QED
      BY <2>2, <2>4, <2>5
  <1>8. CASE Full
    <2>1. /\ i0 \in 1 .. M /\ i0 - 1 = last /\ i0 \notin F
          /\ DataOf(t, i0) <= t.cut /\ t.members[i0].type # "junk"
      <3>1. i0 \in 1 .. M /\ i0 - 1 = last /\ i0 \notin 1 .. last
        BY <1>1, <1>8
      <3>2. DataOf(t, i0) \in Nat
        BY <1>1, <3>1
      <3> HIDE DEF F, i0
      <3> QED
        BY <1>1, <1>2, <1>8, <3>1, <3>2
    <2>2. t.members[i0].type = "file" /\ Cardinality(F) >= Max0
      <3>1. StopsAt(t, i0)
        BY <1>8, TakenFacts
      <3> QED
        BY <1>8, <2>1, <3>1 DEF StopsAt
    <2>3. Cardinality(F) = Max0
      <3> HIDE DEF F, Max0
      <3> QED
        BY <1>1, <1>2, <2>2
    <2>4. i0 \in S
      <3>1. ASSUME NEW j \in 1 .. i0 PROVE t.members[j].type # "junk"
        <4>1. j = i0 \/ j \in 1 .. last
          BY <1>1
        <4>2. \A k \in 1 .. last : ~ StopsAt(t, k)
          BY TakenFacts
        <4>3. \A k \in 1 .. last : t.members[k].type # "junk"
          BY <4>2 DEF StopsAt
        <4> HIDE DEF i0, last
        <4> QED
          BY <2>1, <4>1, <4>3
      <3> HIDE DEF i0, S, M
      <3> QED
        BY <1>4, <2>1, <2>2, <3>1
    <2>5. ASSUME NEW i \in F PROVE Rank(S, i) <= Max0
      <3>1. {j \in S : j <= i} = {j \in F : j <= i}
        <4>1. i \in 1 .. last
          BY <1>2
        <4>2. \A j \in S : j <= i => j \in 1 .. last
          <5> HIDE DEF S, last, M
          <5> QED
            BY <1>1, <1>3, <4>1
        <4> HIDE DEF S, F, last
        <4> QED
          BY <1>5, <1>6, <4>2
      <3>2. Rank(S, i) = Rank(F, i)
        <4> HIDE DEF S, F
        <4> QED
          BY <3>1 DEF Rank
      <3>3. Rank(F, i) \in 1 .. Cardinality(F)
        BY <1>2
      <3> HIDE DEF S, F, Max0
      <3> QED
        BY <1>1, <1>2, <2>3, <3>2, <3>3
    <2>6. ASSUME NEW i \in S, i \notin F PROVE ~ (Rank(S, i) <= Max0)
      <3>1. i \notin 1 .. last /\ i \in 1 .. M
        <4> HIDE DEF S, F, last, M
        <4> QED
          BY <1>3, <1>5, <2>6
      <3>2. \A j \in F : j <= i
        <4> HIDE DEF S, F, last, M
        <4>1. i \in Nat /\ last \in Nat /\ last < i
          BY <1>1, <3>1
        <4>2. \A j \in 1 .. last : j <= i
          BY <4>1
        <4> QED
          BY <1>2, <4>2
      <3> DEFINE U == {j \in S : j <= i}
      <3>3. F \cup {i} \in SUBSET U /\ U \in SUBSET S
        <4>1. i <= i
          BY <3>1
        <4> HIDE DEF S, F
        <4> QED
          BY <1>6, <3>2, <4>1
      <3> HIDE DEF U, S, F, Max0
      <3>4. IsFiniteSet(U) /\ Cardinality(U) \in Nat
        BY <1>3, <3>3, FS_Subset, FS_CardinalityType
      <3>5. Cardinality(F \cup {i}) = Cardinality(F) + 1
        BY <1>2, <2>6, FS_AddElement
      <3>6. Cardinality(F \cup {i}) <= Cardinality(U)
        BY <3>3, <3>4, FS_Subset
      <3>7. Rank(S, i) = Cardinality(U)
        BY DEF Rank, U
      <3> QED
        BY <1>1, <1>2, <2>3, <3>4, <3>5, <3>6, <3>7
    <2>7. Least(Max0, S) = F
      <3> HIDE DEF S, F, Max0
      <3>1. \A i \in S : i \in Least(Max0, S) <=> Rank(S, i) <= Max0
        BY DEF Least, Rank
      <3>2. Least(Max0, S) \subseteq S
        BY DEF Least
      <3> QED
        BY <1>6, <2>5, <2>6, <3>1, <3>2
    <2>8. S # F
      <3> HIDE DEF S, F
      <3> QED
        BY <2>1, <2>4
    <2>9. EndRet(t) = -3
      <3>1. ~ (i0 > M) /\ ~ (DataOf(t, i0) > t.cut) /\ t.members[i0].type # "junk"
        BY <1>1, <1>8
      <3> QED
        BY <3>1 DEF EndRet
    <2> QED
      BY <2>7, <2>8, <2>9
  <1> QED
    BY <1>7, <1>8
\* A member lies behind the ones before it.
LEMMA DataApart ==
    ASSUME NEW t \in Tars, NEW i \in 1 .. Len(t.members), NEW j \in 1 .. Len(t.members), i < j
    PROVE  DataOf(t, i) < DataOf(t, j)
  <1>1. Len(t.members) \in Nat /\ BlockSize \in Nat /\ BlockSize > 0
    BY MemberFacts, VfsAssumptions
  <1>2. i + 1 \in 1 .. Len(t.members) /\ (i + 1) - 1 = i /\ i + 1 <= j /\ i \in Nat
    BY <1>1
  <1>3. DataOf(t, i + 1) <= DataOf(t, j)
    BY <1>2, DataGrows
  <1> DEFINE e == EndOf(t, i - 1)
             n == EndOf(t, i)
  <1>4. DataOf(t, i) = (e + 1) * BlockSize /\ DataOf(t, i + 1) = (n + 1) * BlockSize
    <2>1. DataOf(t, i + 1) = (EndOf(t, (i + 1) - 1) + 1) * BlockSize
      BY <1>2, DataIs
    <2> QED
      BY <1>2, <2>1, DataIs
  <1>5. e \in Nat /\ n \in Nat /\ n >= e + 1
    <2>1. i - 1 \in 0 .. Len(t.members) /\ i \in 0 .. Len(t.members)
      BY <1>1, <1>2
    <2>2. e \in Nat /\ n \in Nat
      BY <2>1, ArchiveIs
    <2>3. n = e + IF t.members[i].type = "junk" THEN 1 ELSE 1 + Padded(t.members[i].size)
      BY ArchiveIs
    <2>4. Padded(t.members[i].size) \in Nat
      BY MemberFacts, PaddedIs
    <2> HIDE DEF e, n
    <2> QED
      BY <2>2, <2>3, <2>4
  <1> HIDE DEF e, n
  <1> DEFINE d == n - (e + 1)
             x == (e + 1) * BlockSize
             y == d * BlockSize
  <1>6. d \in Nat /\ n + 1 = (e + 1) + d + 1
    BY <1>5
  <1>7. x \in Nat /\ y \in Nat
    BY <1>1, <1>5, <1>6
  <1>8. (n + 1) * BlockSize = x + y + BlockSize
    <2> HIDE DEF d
    <2>1. (n + 1) * BlockSize = ((e + 1) + d + 1) * BlockSize
      BY <1>6
    <2>2. \A p \in Int, q \in Int, b \in Int : (p + q + 1) * b = p * b + q * b + b
      BY Z3
    <2> QED
      BY <1>1, <1>5, <1>6, <2>1, <2>2
  <1> HIDE DEF x, y
  <1>9. DataOf(t, i) = x /\ DataOf(t, i + 1) = x + y + BlockSize
    BY <1>4, <1>8 DEF x
  <1>10. DataOf(t, j) \in Nat
    BY DataIs
  <1> QED
    BY <1>1, <1>3, <1>7, <1>9, <1>10

\* The files the table is made of.
Kept(t) == Least(VFS_MAX_FILES, Stored(t))

LEMMA KeptFacts ==
    ASSUME NEW t \in Tars
    PROVE  /\ Kept(t) \subseteq 1 .. Len(t.members) /\ Len(t.members) \in Nat
           /\ vfs_init(Tar(t)).files = TableOf(t, Kept(t))
           /\ \A i \in Kept(t) : DataOf(t, i) \in Nat /\ SizeOf(t, i) \in Nat
  <1>1. Kept(t) = FilesTo(t, Taken(t))
    BY KeptIs DEF Kept
  <1>2. Kept(t) \subseteq Stored(t)
    BY DEF Kept, Least
  <1>3. /\ Len(t.members) \in Nat /\ t.cut \in Nat /\ DOMAIN t.members = 1 .. Len(t.members)
        /\ \A i \in 1 .. Len(t.members) : t.members[i].size \in Nat
    BY MemberFacts
  <1>4. \A i \in Stored(t) : i \in 1 .. Len(t.members) /\ DataOf(t, i) <= t.cut
    BY <1>3 DEF Stored
  <1>5. ASSUME NEW i \in Kept(t) PROVE DataOf(t, i) \in Nat /\ SizeOf(t, i) \in Nat
    <2>1. /\ i \in 1 .. Len(t.members) /\ DataOf(t, i) <= t.cut
          /\ DataOf(t, i) \in Nat /\ t.members[i].size \in Nat
      BY <1>2, <1>3, <1>4, DataIs
    <2>2. t.cut - DataOf(t, i) \in Nat
      BY <1>3, <2>1
    <2> QED
      BY <2>1, <2>2 DEF SizeOf, Smaller
  <1> QED
    BY <1>1, <1>2, <1>3, <1>4, <1>5, VfsIs

\* What vfs_init returns says whether the archive holds more than the table.
LEMMA VfsRetIs ==
    ASSUME NEW t \in Tars
    PROVE  LET out0 == vfs_init(Tar(t)).ret
               fs == vfs_init(Tar(t)).files
           IN  /\ out0 = -3 <=> Stored(t) # Kept(t)
               /\ out0 \in {-1, -2, -3, Len(fs)}
  <1> DEFINE out0 == vfs_init(Tar(t)).ret
             fs == vfs_init(Tar(t)).files
             F == FilesTo(t, Taken(t))
  <1>1. out0 = IF t.cut < BlockSize THEN -1 ELSE EndRet(t)
    BY VfsIs
  <1>2. Kept(t) = F /\ (EndRet(t) = -3 <=> Stored(t) # F)
    BY KeptIs DEF Kept
  <1>3. t.cut < BlockSize => Stored(t) = {}
    <2> SUFFICES ASSUME t.cut < BlockSize, NEW i \in Stored(t) PROVE FALSE
      OBVIOUS
    <2>1. /\ Len(t.members) \in Nat /\ t.cut \in Nat /\ BlockSize \in Nat
          /\ DOMAIN t.members = 1 .. Len(t.members)
      BY MemberFacts, VfsAssumptions
    <2>2. i \in 1 .. Len(t.members) /\ DataOf(t, i) <= t.cut
      BY <2>1 DEF Stored
    <2>3. 1 \in 1 .. Len(t.members) /\ 1 <= i /\ 1 - 1 = 0
      BY <2>1, <2>2
    <2>4. DataOf(t, 1) <= DataOf(t, i) /\ DataOf(t, i) \in Nat
      BY <2>2, <2>3, DataGrows, DataIs
    <2>5. DataOf(t, 1) = (EndOf(t, 1 - 1) + 1) * BlockSize
      BY <2>3, DataIs
    <2>6. EndOf(t, 0) = 0
      BY ArchiveIs
    <2>7. DataOf(t, 1) = BlockSize
      BY <2>1, <2>3, <2>5, <2>6
    <2> QED
      BY <2>1, <2>2, <2>4, <2>7
  <1>4. Kept(t) \subseteq Stored(t)
    BY DEF Kept, Least
  <1>5. t.cut < BlockSize => EndRet(t) # -3 /\ Stored(t) = Kept(t)
    BY <1>2, <1>3, <1>4
  <1>6. Len(fs) = Cardinality(F)
    <2>1. F \subseteq 1 .. Taken(t) /\ Taken(t) \in Nat
      BY MemberFacts, TakenFacts DEF FilesTo
    <2>2. fs = TableOf(t, F)
      BY VfsIs
    <2> HIDE DEF F, fs
    <2> QED
      BY <2>1, <2>2, TableFacts
  <1>7. EndRet(t) \in {-2, -3, Cardinality(F)}
    BY DEF EndRet
  <1> HIDE DEF out0, fs, F
  <1>8. out0 = -3 <=> Stored(t) # Kept(t)
    BY <1>1, <1>2, <1>5
  <1>9. out0 \in {-1, -2, -3, Len(fs)}
    BY <1>1, <1>6, <1>7
  <1> QED
    BY <1>8, <1>9 DEF out0, fs
\* The table on the disk's members, and a name's place in it.
LEMMA TableEntry ==
    ASSUME NEW t \in Tars, NEW i \in Kept(t)
    PROVE  /\ Rank(Kept(t), i) \in 1 .. Cardinality(Kept(t))
           /\ TableOf(t, Kept(t))[Rank(Kept(t), i)] = FileEntry(t, i)
  <1>1. Kept(t) \subseteq 1 .. Len(t.members) /\ Len(t.members) \in Nat
    BY KeptFacts
  <1>2. Rank(Kept(t), i) \in 1 .. Cardinality(Kept(t)) /\ MemberAt(Kept(t), Rank(Kept(t), i)) = i
    BY <1>1, RankFacts, MemberAtIs
  <1> QED
    BY <1>2 DEF TableOf

(***************************************************************************)
(* The RAM disk once it is mounted, and the loading of programs from it    *)
(***************************************************************************)
\* Load with the memory it began with.
LoadFrom(before, name, w) ==
    LET h == vfs_open(files, name)
        got == vfs_read(files, h, StageMax)
        data == files[h.fd].data
    IN  IF got <= 0 THEN [ret |-> -5, mem |-> before]
        ELSE elf_load_in(tar.members[ImageAt(data)].image, got, data, before, w[1], w[2])

\* The same by what the archive holds.
FileSize(t, i) == Smaller(SizeOf(t, i), StageMax)

LoadOf(t, before, name, w) ==
    LET i == Min(Named(t, name))
    IN  IF Named(t, name) = {} \/ FileSize(t, i) = 0 THEN [ret |-> -5, mem |-> before]
        ELSE elf_load_in(t.members[i].image, FileSize(t, i), DataOf(t, i), before, w[1], w[2])

\* Opening a file by its name finds the first member of that name.
LEMMA OpenFinds ==
    ASSUME NEW t \in Tars, NEW name
    PROVE  /\ Named(t, name) \subseteq Kept(t)
           /\ Named(t, name) # {} => /\ Min(Named(t, name)) \in Named(t, name)
                                     /\ \A j \in Named(t, name) : Min(Named(t, name)) <= j
           /\ vfs_lookup(TableOf(t, Kept(t)), name)
                = IF Named(t, name) = {} THEN 0 ELSE Rank(Kept(t), Min(Named(t, name)))
  <1> DEFINE K == Kept(t)
             c == Cardinality(K)
             table == TableOf(t, K)
             N == Named(t, name)
             i == Min(N)
             found == {f \in 1 .. Len(table) : table[f].name = name}
  <1>1. /\ K \subseteq 1 .. Len(t.members) /\ Len(t.members) \in Nat
        /\ c \in Nat /\ Len(table) = c
    BY KeptFacts, TableFacts
  <1>2. N = {j \in K : FullName(t.members[j]) = name}
    BY DEF Named, Kept
  <1>3. N \subseteq K /\ N \subseteq Nat
    <2> HIDE DEF K, N
    <2>1. \A x \in 1 .. Len(t.members) : x \in Nat
      OBVIOUS
    <2> QED
      BY <1>1, <1>2, <2>1
  <1>4. N # {} => i \in N /\ \A j \in N : i <= j
    BY <1>3, MinFacts
  <1>5. vfs_lookup(table, name) = IF found # {} THEN Min(found) ELSE 0
    BY DEF vfs_lookup, SelectInSeq
  <1>6. \A j \in K : /\ Rank(K, j) \in 1 .. c /\ table[Rank(K, j)] = FileEntry(t, j)
                     /\ (table[Rank(K, j)].name = name <=> j \in N)
    <2> TAKE j \in K
    <2>1. Rank(K, j) \in 1 .. c /\ table[Rank(K, j)] = FileEntry(t, j)
      BY TableEntry
    <2>2. FileEntry(t, j).name = FullName(t.members[j])
      BY DEF FileEntry
    <2> HIDE DEF K, N, table
    <2> QED
      BY <1>2, <2>1, <2>2
  <1>7. \A f \in 1 .. c : \E j \in K : Rank(K, j) = f
    BY <1>1, RankFacts
  <1>8. found \subseteq 1 .. c /\ found \subseteq Nat
    BY <1>1
  <1>9. \A j \in N : Rank(K, j) \in found
    <2> HIDE DEF K, N, table
    <2> QED
      BY <1>1, <1>3, <1>6
  <1>10. \A f \in found : \E j \in N : Rank(K, j) = f
    <2> HIDE DEF K, N, table
    <2> QED
      BY <1>1, <1>6, <1>7
  <1>11. \A j \in K, k \in K : j < k => Rank(K, j) < Rank(K, k)
    BY <1>1, RankFacts
  <1>12. CASE N = {}
    <2>1. found = {}
      <3> HIDE DEF found, N
      <3> QED
        BY <1>10, <1>12
    <2> HIDE DEF found, N, K
    <2> QED
      BY <1>3, <1>5, <1>12, <2>1 DEF N, K
  <1>13. CASE N # {}
    <2> HIDE DEF K, N, found, table
    <2>1. i \in N /\ Rank(K, i) \in found /\ found # {}
      BY <1>4, <1>9, <1>13
    <2>2. Min(found) \in found /\ \A f \in found : Min(found) <= f
      BY <1>8, <2>1, MinFacts
    <2>3. PICK j \in N : Rank(K, j) = Min(found)
      BY <1>10, <2>2
    <2>4. i \in Nat /\ j \in Nat /\ i <= j /\ i \in K /\ j \in K
      BY <1>3, <1>4, <1>13, <2>1
    <2>5. Rank(K, i) <= Rank(K, j)
      <3>1. CASE i = j
        <4>1. Rank(K, i) \in Nat
          BY <1>8, <2>1
        <4> QED
          BY <3>1, <4>1
      <3>2. CASE i < j
        <4>1. Rank(K, i) < Rank(K, j) /\ Rank(K, i) \in Nat /\ Rank(K, j) \in Nat
          BY <1>8, <1>9, <1>11, <2>1, <2>4, <3>2
        <4> QED
          BY <4>1
      <3> QED
        BY <2>4, <3>1, <3>2
    <2>6. Rank(K, i) = Min(found)
      <3>1. Rank(K, i) \in Nat /\ Min(found) \in Nat /\ Min(found) <= Rank(K, i)
        BY <1>8, <2>1, <2>2
      <3> QED
        BY <2>3, <2>5, <3>1
    <2>7. vfs_lookup(table, name) = Rank(K, i)
      BY <1>5, <2>1, <2>6
    <2> QED
      BY <1>3, <1>4, <1>13, <2>7 DEF N, K, table
  <1> QED
    BY <1>12, <1>13

\* The data of a member identify it.
LEMMA ImageFound ==
    ASSUME tar \in Tars, NEW i \in 1 .. Len(tar.members)
    PROVE  ImageAt(DataOf(tar, i)) = i
  <1> DEFINE data == DataOf(tar, i)
             S == {j \in DOMAIN tar.members : DataOf(tar, j) = data}
  <1>1. DOMAIN tar.members = 1 .. Len(tar.members) /\ Len(tar.members) \in Nat
    BY MemberFacts
  <1>2. ASSUME NEW j \in S PROVE j = i
    <2>1. j \in 1 .. Len(tar.members) /\ DataOf(tar, j) = DataOf(tar, i) /\ i \in Int /\ j \in Int
      BY <1>1, <1>2
    <2>2. ~ (DataOf(tar, i) < DataOf(tar, j)) /\ ~ (DataOf(tar, j) < DataOf(tar, i))
      <3>1. DataOf(tar, i) \in Nat
        BY DataIs
      <3> QED
        BY <2>1, <3>1
    <2>3. ~ (i < j) /\ ~ (j < i)
      BY <2>1, <2>2, DataApart
    <2> QED
      BY <2>1, <2>3
  <1>3. i \in S
    BY <1>1
  <1>4. ImageAt(data) = CHOOSE m \in S : TRUE
    BY DEF ImageAt
  <1> HIDE DEF S, data
  <1>5. ImageAt(data) \in S
    BY <1>3, <1>4
  <1>6. ImageAt(data) = i
    BY <1>2, <1>5
  <1> QED
    BY <1>6 DEF data

\* sam_run_task's open, read and load find the first member of the name.
LEMMA LoadFromIs ==
    ASSUME tar \in Tars, files = vfs_init(Tar(tar)).files, NEW before, NEW name, NEW w
    PROVE  LoadFrom(before, name, w) = LoadOf(tar, before, name, w)
  <1> DEFINE K == Kept(tar)
             table == TableOf(tar, K)
             N == Named(tar, name)
             i == Min(N)
             h == vfs_open(files, name)
             got == vfs_read(files, h, StageMax)
             f == vfs_lookup(files, name)
  <1>1. files = table
    BY KeptFacts
  <1>2. N \subseteq K /\ (N # {} => i \in N) /\ f = IF N = {} THEN 0 ELSE Rank(K, i)
    BY <1>1, OpenFinds
  <1>3. h.fd = f /\ h.pos = 0
    BY DEF vfs_open
  <1>4. CASE N = {}
    <2>1. got = -1
      <3> HIDE DEF h, f, N
      <3> QED
        BY <1>2, <1>3, <1>4 DEF vfs_read
    <2>2. got <= 0
      <3> HIDE DEF got
      <3> QED
        BY <2>1
    <2> HIDE DEF got
    <2> QED
      BY <1>4, <2>2 DEF LoadFrom, LoadOf, got, h
  <1>5. CASE N # {}
    <2>1. i \in K /\ i \in N /\ f = Rank(K, i)
      <3> HIDE DEF K, N, f
      <3> QED
        BY <1>2, <1>5
    <2>2. Rank(K, i) \in 1 .. Cardinality(K) /\ table[Rank(K, i)] = FileEntry(tar, i)
      BY <2>1, TableEntry
    <2>3. f # 0 /\ files[h.fd] = FileEntry(tar, i)
      <3>1. 0 \notin 1 .. Cardinality(K)
        OBVIOUS
      <3> HIDE DEF K, f, table, h, i
      <3> QED
        BY <1>1, <1>3, <2>1, <2>2, <3>1
    <2>4. FileEntry(tar, i).data = DataOf(tar, i) /\ FileEntry(tar, i).size = SizeOf(tar, i)
      BY DEF FileEntry
    <2>5. SizeOf(tar, i) \in Nat /\ i \in 1 .. Len(tar.members) /\ StageMax \in Nat
      BY <2>1, KeptFacts, MemoryAssumption
    <2>6. got = IF 0 >= SizeOf(tar, i) THEN 0 ELSE Smaller(StageMax, SizeOf(tar, i) - 0)
      <3> HIDE DEF h, f, i
      <3> QED
        BY <1>3, <2>3, <2>4 DEF vfs_read
    <2> DEFINE s == SizeOf(tar, i)
    <2>7. got = FileSize(tar, i) /\ got \in Nat
      <3>1. s \in Nat /\ got = IF 0 >= s THEN 0 ELSE Smaller(StageMax, s - 0)
        BY <2>5, <2>6
      <3>2. FileSize(tar, i) = Smaller(s, StageMax)
        BY DEF FileSize
      <3> HIDE DEF s, got
      <3> QED
        BY <2>5, <3>1, <3>2 DEF Smaller
    <2>8. files[h.fd].data = DataOf(tar, i) /\ ImageAt(DataOf(tar, i)) = i
      BY <2>3, <2>4, <2>5, ImageFound
    <2>9. got <= 0 <=> FileSize(tar, i) = 0
      <3> HIDE DEF got
      <3> QED
        BY <2>7
    <2>10. LoadFrom(before, name, w)
             = IF got <= 0 THEN [ret |-> -5, mem |-> before]
               ELSE elf_load_in(tar.members[ImageAt(files[h.fd].data)].image, got,
                                files[h.fd].data, before, w[1], w[2])
      BY DEF LoadFrom
    <2>11. LoadOf(tar, before, name, w)
             = IF N = {} \/ FileSize(tar, i) = 0 THEN [ret |-> -5, mem |-> before]
               ELSE elf_load_in(tar.members[i].image, FileSize(tar, i), DataOf(tar, i),
                                before, w[1], w[2])
      BY DEF LoadOf
    <2> HIDE DEF got, h, N, i
    <2> QED
      BY <1>5, <2>7, <2>8, <2>9, <2>10, <2>11
  <1> QED
    BY <1>4, <1>5
\* Loading answers with memory at the same addresses.
LEMMA MemoryKept ==
    ASSUME NEW t \in Tars, NEW before, before = [a \in Addresses |-> before[a]],
           NEW name, NEW w \in Windows
    PROVE  LoadOf(t, before, name, w).mem = [a \in Addresses |-> LoadOf(t, before, name, w).mem[a]]
  <1> DEFINE i == Min(Named(t, name))
             img == t.members[i].image
             none == Named(t, name) = {} \/ FileSize(t, i) = 0
             got == elf_load_in(img, FileSize(t, i), DataOf(t, i), before, w[1], w[2])
  <1>1. LoadOf(t, before, name, w) = IF none THEN [ret |-> -5, mem |-> before] ELSE got
    BY DEF LoadOf
  <1>2. CASE none
    <2> HIDE DEF none
    <2>1. LoadOf(t, before, name, w).mem = before
      BY <1>1, <1>2
    <2> QED
      BY <2>1
  <1>3. CASE ~ none
    <2>1. /\ i \in 1 .. Len(t.members) /\ DataOf(t, i) \in Nat /\ FileSize(t, i) \in Nat
      <3>1. i \in Kept(t)
        BY <1>3, OpenFinds
      <3>2. i \in 1 .. Len(t.members) /\ DataOf(t, i) \in Nat /\ SizeOf(t, i) \in Nat
        BY <3>1, KeptFacts
      <3> QED
        BY <3>2, MemoryAssumption DEF FileSize, Smaller
    <2>2. img \in Images /\ \A k \in DOMAIN img.phs : img.phs[k].filesz <= img.phs[k].memsz
      BY <2>1, MemberFacts
    <2>3. w[1] \in Int /\ w[2] \in Int /\ Addresses \subseteq Int
      BY MemoryAssumption
    <2>4. DOMAIN before = Addresses
      OBVIOUS
    <2>5. \E n \in 0 .. Len(img.phs) : got.mem = Painted(img, DataOf(t, i), before, n)
      <3>1. MapsAddresses(before)
        BY <2>3, <2>4 DEF MapsAddresses
      <3> DEFINE size == FileSize(t, i)
                 at == DataOf(t, i)
                 lo == w[1]
                 hi == w[2]
                 answer == elf_load_in(img, size, at, before, lo, hi)
      <3>2. /\ size \in Nat /\ at \in Int /\ lo \in Int /\ hi \in Int
        BY <2>1, <2>3
      <3> HIDE DEF img, i, size, at, lo, hi
      <3>3. \E n \in 0 .. Len(img.phs) : answer.mem = Painted(img, at, before, n)
        <4>1. LoadedWell(img, size, at, before, lo, hi, answer)
          BY <2>2, <3>1, <3>2, LoaderStaysInWindow
        <4> HIDE DEF answer
        <4> QED
          BY <4>1 DEF LoadedWell
      <3> QED
        BY <3>3 DEF size, at, lo, hi
    <2>6. got.mem = [a \in Addresses |-> got.mem[a]]
      <3> HIDE DEF got, img, i
      <3> QED
        BY <2>4, <2>5 DEF Painted
    <2> HIDE DEF none, got
    <2> QED
      BY <1>1, <1>3, <2>6
  <1> QED
    BY <1>2, <1>3

\* The disk's calls: the table is the mounted archive's, memory keeps its addresses, and
\* the last program was loaded from the memory found before it.
DiskInv ==
    /\ CallInv
    /\ mem = [a \in Addresses |-> mem[a]]
    /\ After("initrd") => in = tar /\ out = vfs_init(Tar(tar)).ret
    /\ After("initrd") \/ stage = 9 => tar \in Tars /\ files = vfs_init(Tar(tar)).files
    /\ After("run") => /\ in.window \in Windows
                       /\ in.before = [a \in Addresses |-> in.before[a]]
                       /\ out = LoadFrom(in.before, in.name, in.window).ret
                       /\ mem = LoadFrom(in.before, in.name, in.window).mem

LEMMA DiskKept == Spec => []DiskInv
  <1>1. Init => DiskInv
    <2> SUFFICES ASSUME Init PROVE DiskInv
      OBVIOUS
    <2>1. stage = 1 /\ called = FALSE /\ mem = [a \in Addresses |-> OLD]
      BY DEF Init
    <2>2. CallInv
      <3>1. stage \in 1 .. 9
        BY <2>1
      <3> QED
        BY <2>1, <3>1 DEF CallInv, After
    <2>3. mem = [a \in Addresses |-> mem[a]]
      BY <2>1
    <2> QED
      BY <2>1, <2>2, <2>3 DEF DiskInv, After
  <1>2. DiskInv /\ CallInv' /\ [Next]_vars => DiskInv'
    <2> SUFFICES ASSUME DiskInv, CallInv', [Next]_vars PROVE DiskInv'
      OBVIOUS
    <2> DEFINE Still == /\ UNCHANGED <<tar, files, mem>>
                        /\ (After("initrd") => FALSE)' /\ (After("run") => FALSE)'
                        /\ (stage = 9)' => After("initrd") \/ stage = 9
    <2>1. ASSUME Still PROVE DiskInv'
      BY <2>1 DEF DiskInv
    <2>2. ASSUME NEW name, At(name), UNCHANGED <<tar, files, mem>>, stage' = stage,
                 name # "initrd", name # "run"
          PROVE  Still
      BY <2>2 DEF At, After
    <2>3. CASE ReadAcpi
      BY <2>1, <2>2, <2>3 DEF ReadAcpi, Answer
    <2>4. CASE ReadTags
      BY <2>1, <2>2, <2>4 DEF ReadTags, Answer
    <2>5. CASE ReadCpu
      BY <2>1, <2>2, <2>5 DEF ReadCpu, Answer
    <2>6. CASE ReadPci
      BY <2>1, <2>2, <2>6 DEF ReadPci, Answer
    <2>7. CASE Multiply
      BY <2>1, <2>2, <2>7 DEF Multiply, Answer
    <2>8. CASE ReadModel
      BY <2>1, <2>2, <2>8 DEF ReadModel, Answer
    <2>9. CASE BuildArgs
      BY <2>1, <2>2, <2>9 DEF BuildArgs, Answer
    <2>10. CASE NextStage
      <3>1. called' = FALSE /\ UNCHANGED <<tar, files, mem>> /\ called
            /\ stage' = stage + 1 /\ stage \in 1 .. 9
        BY <2>10 DEF NextStage, DiskInv, CallInv
      <3>2. (stage = 9)' => After("initrd")
        BY <3>1 DEF After, Stages
      <3> QED
        BY <2>1, <3>1, <3>2 DEF After
    <2>11. CASE ProgramOver
      <3>1. called' = FALSE /\ UNCHANGED <<tar, files, mem>> /\ stage' = stage
        BY <2>11 DEF ProgramOver
      <3> QED
        BY <2>1, <3>1 DEF After
    <2>12. CASE Mount
      <3>1. /\ stage' = stage /\ Stages[stage] = "initrd" /\ stage \in 1 .. 9
            /\ mem' = mem /\ tar' \in Tars /\ in' = tar'
            /\ out' = vfs_init(Tar(tar')).ret /\ files' = vfs_init(Tar(tar')).files
        BY <2>12 DEF Mount, At, Answer, DiskInv, CallInv
      <3>2. Stages'[stage'] = "initrd"
        BY <3>1 DEF Stages
      <3>3. ~ After("run")'
        BY <3>1, <3>2 DEF After
      <3>4. mem' = [a \in Addresses |-> mem'[a]]
        BY <3>1 DEF DiskInv
      <3> QED
        BY <3>1, <3>3, <3>4 DEF DiskInv
    <2>13. CASE LoadProgram
      <3>1. PICK name \in Programs, w \in Windows :
               /\ Answer([name |-> name, window |-> w, before |-> mem], Load(name, w).ret)
               /\ mem' = Load(name, w).mem
               /\ UNCHANGED <<tar, files>>
        BY <2>13 DEF LoadProgram
      <3>2. Stages[stage] = "run" /\ stage' = stage /\ stage \in 1 .. 9 /\ called'
        BY <2>13 DEF LoadProgram, At, Answer, DiskInv, CallInv
      <3>3. stage = 9
        BY <3>2 DEF Stages
      <3>4. in'.name = name /\ in'.window = w /\ in'.before = mem /\ out' = Load(name, w).ret
        BY <3>1 DEF Answer
      <3>5. Load(name, w) = LoadFrom(mem, name, w)
        BY DEF Load, LoadFrom
      <3>6. LoadFrom(in.before, in.name, in.window)' = LoadFrom(mem, name, w)
        BY <3>1, <3>4 DEF LoadFrom, ImageAt
      <3>7. mem' = [a \in Addresses |-> mem'[a]]
        <4>1. tar \in Tars /\ files = vfs_init(Tar(tar)).files /\ mem = [a \in Addresses |-> mem[a]]
          BY <3>3 DEF DiskInv
        <4>2. mem' = LoadOf(tar, mem, name, w).mem
          BY <3>1, <3>5, <4>1, LoadFromIs
        <4> QED
          BY <4>1, <4>2, MemoryKept
      <3>8. ~ After("initrd")'
        BY <3>2, <3>3 DEF After, Stages
      <3> QED
        <4>1. /\ (tar \in Tars)' /\ (files = vfs_init(Tar(tar)).files)'
              /\ mem = [a \in Addresses |-> mem[a]]
          BY <3>1, <3>3 DEF DiskInv
        <4>2. /\ in'.window \in Windows
              /\ in'.before = [a \in Addresses |-> in'.before[a]]
              /\ out' = LoadFrom(in.before, in.name, in.window)'.ret
              /\ mem' = LoadFrom(in.before, in.name, in.window)'.mem
          BY <3>1, <3>4, <3>5, <3>6, <4>1
        <4> QED
          BY <3>7, <3>8, <4>1, <4>2 DEF DiskInv
    <2>14. CASE UNCHANGED vars
      BY <2>14 DEF DiskInv, vars, After, LoadFrom, ImageAt
    <2> QED
      BY <2>3, <2>4, <2>5, <2>6, <2>7, <2>8, <2>9, <2>10, <2>11, <2>12, <2>13, <2>14 DEF Next
  <1> QED
    BY <1>1, <1>2, CallsKept, PTL DEF Spec
\* The file table is the archive's regular files in order, the first VFS_MAX_FILES of
\* them, each with its bytes that the module holds; vfs_init's answer says whether there
\* were more.
THEOREM MountIsExact == Spec => []VfsExact
  <1>1. DiskInv => VfsExact
    <2> SUFFICES ASSUME DiskInv, After("initrd") PROVE VfsExact
      BY DEF VfsExact
    <2> DEFINE kept == Least(VFS_MAX_FILES, Stored(in))
               S == Stored(in)
    <2>1. in \in Tars /\ files = vfs_init(Tar(in)).files /\ out = vfs_init(Tar(in)).ret
      BY DEF DiskInv
    <2>2. kept = Kept(in)
      BY DEF Kept
    <2>3. (out = -3) = (S # kept) /\ out \in {-1, -2, -3, Len(files)}
      <3>1. (out = -3 <=> S # Kept(in)) /\ out \in {-1, -2, -3, Len(files)}
        BY <2>1, VfsRetIs
      <3> HIDE DEF kept, S
      <3> QED
        BY <2>2, <3>1
    <2>4. files = TableOf(in, Kept(in)) /\ Len(files) = Cardinality(kept)
      <3>1. /\ files = TableOf(in, Kept(in))
            /\ Kept(in) \subseteq 1 .. Len(in.members) /\ Len(in.members) \in Nat
        BY <2>1, KeptFacts
      <3> HIDE DEF kept
      <3> QED
        BY <2>2, <3>1, TableFacts
    <2>5. ASSUME NEW i \in kept
          PROVE  files[Cardinality({j \in kept : j <= i})]
                   = [name |-> FullName(in.members[i]), data |-> DataOf(in, i),
                      size |-> SizeOf(in, i)]
      <3> HIDE DEF kept
      <3>1. files[Rank(kept, i)] = FileEntry(in, i)
        BY <2>1, <2>2, <2>4, <2>5, TableEntry
      <3> QED
        BY <3>1 DEF Rank, FileEntry
    <2> HIDE DEF kept, S
    <2> QED
      BY <2>3, <2>4, <2>5 DEF VfsExact, kept, S
  <1> QED
    BY <1>1, DiskKept, PTL

\* sam_run_task and sam_run_pair load the program that the archive holds under the name:
\* memory outside the window never changes, sound images are accepted and no others, and
\* memory shows the segments with the archive's bytes.
THEOREM ProgramsLoadExactly == Spec => []LoadExact
  <1>1. DiskInv => LoadExact
    <2> SUFFICES ASSUME DiskInv, After("run") PROVE LoadExact
      BY DEF LoadExact
    <2> DEFINE lo == in.window[1]
               hi == in.window[2]
               N == Named(tar, in.name)
               i == Min(N)
               img == tar.members[i].image
               phs == img.phs
               at == DataOf(tar, i)
               size == FileSize(tar, i)
               before == in.before
    <2>1. /\ tar \in Tars /\ files = vfs_init(Tar(tar)).files /\ in.window \in Windows
          /\ before = [a \in Addresses |-> before[a]]
          /\ out = LoadFrom(before, in.name, in.window).ret
          /\ mem = LoadFrom(before, in.name, in.window).mem
      <3>1. stage = 9
        BY DEF DiskInv, CallInv, After, Stages
      <3> QED
        BY <3>1 DEF DiskInv
    <2>2. LoadFrom(before, in.name, in.window) = LoadOf(tar, before, in.name, in.window)
      BY <2>1, LoadFromIs
    <2> DEFINE answer == elf_load_in(img, size, at, before, lo, hi)
               missing == N = {} \/ size = 0
    <2>3. LoadOf(tar, before, in.name, in.window)
            = IF missing THEN [ret |-> -5, mem |-> before] ELSE answer
      BY DEF LoadOf
    <2>4. IF missing THEN out = -5 /\ mem = before ELSE out = answer.ret /\ mem = answer.mem
      <3> HIDE DEF missing, answer, before
      <3> QED
        BY <2>1, <2>2, <2>3
    <2>5. DOMAIN before = Addresses /\ MapsAddresses(before) /\ lo \in Int /\ hi \in Int
      <3>1. DOMAIN before = Addresses
        BY <2>1
      <3>2. lo \in Int /\ hi \in Int /\ Addresses \subseteq Int
        BY <2>1, MemoryAssumption
      <3> QED
        BY <2>1, <3>1, <3>2 DEF MapsAddresses
    <2>6. ~ missing => LoadedWell(img, size, at, before, lo, hi, answer)
      <3> SUFFICES ASSUME ~ missing PROVE LoadedWell(img, size, at, before, lo, hi, answer)
        OBVIOUS
      <3>1. i \in Kept(tar)
        BY <2>1, OpenFinds
      <3>2. i \in 1 .. Len(tar.members) /\ at \in Nat /\ SizeOf(tar, i) \in Nat
        BY <2>1, <3>1, KeptFacts
      <3>3. size \in Nat /\ at \in Int
        BY <3>2, MemoryAssumption DEF FileSize, Smaller
      <3>4. img \in Images /\ \A k \in DOMAIN img.phs : img.phs[k].filesz <= img.phs[k].memsz
        BY <2>1, <3>2, MemberFacts
      <3> HIDE DEF img, at, size, lo, hi, before
      <3> QED
        BY <2>5, <3>3, <3>4, LoaderStaysInWindow
    <2>7. ASSUME NEW n PROVE Painted(img, at, before, n) = Loaded(i, n)
      <3> HIDE DEF i
      <3> QED
        BY <2>5 DEF Painted, Loaded, Covering, SegmentByte
    <2>8. Smaller(SizeOf(tar, i), StageMax) = size
      BY DEF FileSize
    <2>9. /\ \A a \in Addresses \ (lo .. hi - 1) : mem[a] = before[a]
          /\ IF missing THEN out = -5 /\ mem = before
             ELSE /\ (out = 0) = SoundImage(img, size, lo, hi)
                  /\ out = 0 => mem = Loaded(i, Len(img.phs))
                  /\ \E n \in 0 .. Len(img.phs) : mem = Loaded(i, n)
      <3> HIDE DEF missing, answer, before, img, at, size, lo, hi, i
      <3>1. CASE missing
        BY <2>4, <3>1
      <3>2. CASE ~ missing
        <4>1. /\ \A a \in Addresses \ (lo .. hi - 1) : answer.mem[a] = before[a]
              /\ answer.ret = 0 <=> SoundImage(img, size, lo, hi)
              /\ answer.ret = 0 => answer.mem = Painted(img, at, before, Len(img.phs))
              /\ \E n \in 0 .. Len(img.phs) : answer.mem = Painted(img, at, before, n)
          BY <2>5, <2>6, <3>2 DEF LoadedWell
        <4>2. out = answer.ret /\ mem = answer.mem
          BY <2>4, <3>2
        <4>3. SoundImage(img, size, lo, hi) \in BOOLEAN
          BY DEF SoundImage
        <4>4. (out = 0) = SoundImage(img, size, lo, hi)
          BY <4>1, <4>2, <4>3
        <4> QED
          BY <2>7, <3>2, <4>1, <4>2, <4>4
      <3> QED
        BY <3>1, <3>2
    <2> QED
      BY <2>8, <2>9 DEF LoadExact, SoundImage
  <1> QED
    BY <1>1, DiskKept, PTL
------------------------------------------------------------------------------
(***************************************************************************)
(* The ACPI tables                                                         *)
(***************************************************************************)

\* Where entry k of a MADT starts, whether it lies in the table, and which of the first n
\* entries do, with all before them; among those the enabled processors and the
\* I/O APICs with an address.
EntryLengths(m) == [k \in 1 .. Len(m.entries) |-> m.entries[k].length]

EntryAt(m, k) == MadtHeader + SumTo(EntryLengths(m), k - 1)

InTable(m, k) == m.entries[k].length >= 2 /\ EntryAt(m, k) + m.entries[k].length <= m.length

WholeOf(m, n) == {k \in 1 .. n : \A j \in 1 .. k : InTable(m, j)}

EnabledOf(m, n) ==
    {k \in WholeOf(m, n) : m.entries[k].type = 0 /\ m.entries[k].enabled
                           /\ m.entries[k].length >= LapicSize}

ApicsOf(m, n) ==
    {k \in WholeOf(m, n) : m.entries[k].type = 1 /\ m.entries[k].address # 0
                           /\ m.entries[k].length >= IoapicSize}

FirstApic(m, n) == IF ApicsOf(m, n) = {} THEN 0 ELSE m.entries[Min(ApicsOf(m, n))].address

CountedTo(m, n) ==
    [ret |-> 1, cpu_count |-> (1 + Cardinality(EnabledOf(m, n))) % CpuByte,
     lapic_base |-> m.lapic, ioapic_base |-> FirstApic(m, n)]

\* The fields of a MADT and its entries.
LEMMA MadtFields ==
    ASSUME NEW m \in Madts
    PROVE  /\ Len(m.entries) \in Nat /\ m.length \in Nat /\ m.lapic \in Nat
           /\ DOMAIN m.entries = 1 .. Len(m.entries)
           /\ \A k \in 1 .. Len(m.entries) :
                /\ m.entries[k].type \in Nat /\ m.entries[k].length \in Nat
                /\ m.entries[k].enabled \in BOOLEAN /\ m.entries[k].address \in Nat
  <1>1. m.entries \in Seq(MadtEntries) /\ m.length \in Nat /\ m.lapic \in Nat
    BY DEF Madts
  <1>2. \A k \in 1 .. Len(m.entries) : m.entries[k] \in MadtEntries
    BY <1>1, ElementOfSeq
  <1>3. Len(m.entries) \in Nat /\ DOMAIN m.entries = 1 .. Len(m.entries)
    BY <1>1
  <1> QED
    BY <1>1, <1>2, <1>3 DEF MadtEntries

LEMMA EntryAtFacts ==
    ASSUME NEW m \in Madts
    PROVE  /\ EntryAt(m, 1) = MadtHeader
           /\ \A k \in 1 .. Len(m.entries) :
                /\ EntryAt(m, k) \in Int
                /\ EntryAt(m, k + 1) = EntryAt(m, k) + m.entries[k].length
  <1> DEFINE n == Len(m.entries)
             f == EntryLengths(m)
  <1>1. n \in Nat /\ \A k \in 1 .. n : f[k] = m.entries[k].length /\ f[k] \in Int
    BY MadtFields DEF EntryLengths
  <1> HIDE DEF f, n
  <1>2. /\ SumTo(f, 0) = 0
        /\ \A k \in 0 .. n : SumTo(f, k) \in Int
        /\ \A k \in 1 .. n : SumTo(f, k) = SumTo(f, k - 1) + f[k]
    BY <1>1, SumToFacts
  <1>3. EntryAt(m, 1) = MadtHeader
    BY <1>2, AcpiAssumptions DEF EntryAt, f
  <1>4. ASSUME NEW k \in 1 .. n
        PROVE  EntryAt(m, k) \in Int /\ EntryAt(m, k + 1) = EntryAt(m, k) + m.entries[k].length
    <2>1. k - 1 \in 0 .. n /\ (k + 1) - 1 = k
      BY <1>1
    <2>2. EntryAt(m, k) = MadtHeader + SumTo(f, k - 1) /\ EntryAt(m, k + 1) = MadtHeader + SumTo(f, k)
      BY <2>1 DEF EntryAt, f
    <2>3. SumTo(f, k - 1) \in Int /\ SumTo(f, k) = SumTo(f, k - 1) + f[k]
      BY <1>2, <2>1
    <2> QED
      BY <1>1, <2>2, <2>3, AcpiAssumptions
  <1> QED
    BY <1>3, <1>4 DEF n

\* One more entry, in the table or not.
LEMMA WholeTurn ==
    ASSUME NEW m \in Madts, NEW k \in Nat, k + 1 <= Len(m.entries)
    PROVE  WholeOf(m, k + 1) = IF \A j \in 1 .. k + 1 : InTable(m, j)
                                 THEN WholeOf(m, k) \cup {k + 1} ELSE WholeOf(m, k)
  <1>1. \A x : x \in 1 .. k + 1 <=> x \in 1 .. k \/ x = k + 1
    OBVIOUS
  <1> QED
    BY <1>1 DEF WholeOf

\* An entry outside the table changes nothing, one inside counts by its type.
LEMMA CountedTurn ==
    ASSUME NEW m \in Madts, NEW k \in Nat, k + 1 <= Len(m.entries)
    PROVE  CountedTo(m, k + 1) = IF \A j \in 1 .. k + 1 : InTable(m, j)
                                   THEN EntryCounted(CountedTo(m, k), m.entries[k + 1])
                                   ELSE CountedTo(m, k)
  <1> DEFINE e == m.entries[k + 1]
             proc == e.type = 0 /\ e.enabled /\ e.length >= LapicSize
             apic == e.type = 1 /\ e.address # 0 /\ e.length >= IoapicSize
  <1>1. /\ e.type \in Nat /\ e.length \in Nat /\ e.enabled \in BOOLEAN /\ e.address \in Nat
        /\ k + 1 \in 1 .. Len(m.entries)
    BY MadtFields
  <1>2. CASE ~ \A j \in 1 .. k + 1 : InTable(m, j)
    <2>1. WholeOf(m, k + 1) = WholeOf(m, k)
      BY <1>2, WholeTurn
    <2>2. EnabledOf(m, k + 1) = EnabledOf(m, k) /\ ApicsOf(m, k + 1) = ApicsOf(m, k)
      BY <2>1 DEF EnabledOf, ApicsOf
    <2> QED
      BY <1>2, <2>2 DEF CountedTo, FirstApic
  <1>3. CASE \A j \in 1 .. k + 1 : InTable(m, j)
    <2>1. WholeOf(m, k + 1) = WholeOf(m, k) \cup {k + 1}
      BY <1>3, WholeTurn
    <2>2. /\ EnabledOf(m, k + 1) = EnabledOf(m, k) \cup (IF proc THEN {k + 1} ELSE {})
          /\ ApicsOf(m, k + 1) = ApicsOf(m, k) \cup (IF apic THEN {k + 1} ELSE {})
      BY <2>1 DEF EnabledOf, ApicsOf
    <2>3. EnabledOf(m, k) \subseteq 1 .. k /\ ApicsOf(m, k) \subseteq 1 .. k
      BY DEF EnabledOf, ApicsOf, WholeOf
    <2>4. IsFiniteSet(EnabledOf(m, k)) /\ k + 1 \notin EnabledOf(m, k)
      <3>1. IsFiniteSet(1 .. k)
        BY FS_Interval
      <3>2. k + 1 \notin 1 .. k
        OBVIOUS
      <3> QED
        BY <2>3, <3>1, <3>2, FS_Subset
    <2>5. /\ Cardinality(EnabledOf(m, k)) \in Nat
          /\ Cardinality(EnabledOf(m, k + 1))
               = IF proc THEN Cardinality(EnabledOf(m, k)) + 1 ELSE Cardinality(EnabledOf(m, k))
      BY <2>2, <2>4, FS_AddElement, FS_CardinalityType
    <2>6. (1 + Cardinality(EnabledOf(m, k + 1))) % CpuByte
            = IF proc THEN (((1 + Cardinality(EnabledOf(m, k))) % CpuByte) + 1) % CpuByte
              ELSE (1 + Cardinality(EnabledOf(m, k))) % CpuByte
      BY <2>5 DEF CpuByte
    <2>7. ASSUME ApicsOf(m, k) # {}
          PROVE  FirstApic(m, k + 1) = FirstApic(m, k) /\ FirstApic(m, k) # 0
      <3>1. ApicsOf(m, k) \subseteq Nat /\ ApicsOf(m, k + 1) \subseteq Nat /\ ApicsOf(m, k + 1) # {}
        BY <2>2, <2>3, <2>7
      <3> DEFINE a == Min(ApicsOf(m, k))
                 b == Min(ApicsOf(m, k + 1))
      <3>2. /\ a \in ApicsOf(m, k) /\ \A x \in ApicsOf(m, k) : a <= x
            /\ b \in ApicsOf(m, k + 1) /\ \A x \in ApicsOf(m, k + 1) : b <= x
        BY <2>7, <3>1, MinFacts
      <3> HIDE DEF a, b
      <3>3. a \in 1 .. k /\ a \in Nat /\ b \in Nat /\ k + 1 > a
        BY <2>3, <3>1, <3>2
      <3>4. b = a
        BY <2>2, <3>2, <3>3
      <3>5. m.entries[a].address # 0
        BY <3>2 DEF ApicsOf
      <3> QED
        BY <2>7, <3>1, <3>4, <3>5 DEF FirstApic, a, b
    <2>8. ASSUME ApicsOf(m, k) = {}
          PROVE  FirstApic(m, k + 1) = (IF apic THEN e.address ELSE 0) /\ FirstApic(m, k) = 0
      <3>1. FirstApic(m, k) = 0
        BY <2>8 DEF FirstApic
      <3>2. CASE apic
        <4>1. ApicsOf(m, k + 1) = {k + 1}
          BY <2>2, <2>8, <3>2
        <4>2. Min({k + 1}) = k + 1
          <5>1. {k + 1} \subseteq Nat /\ {k + 1} # {}
            OBVIOUS
          <5> QED
            BY <5>1, MinFacts
        <4> QED
          BY <3>1, <3>2, <4>1, <4>2 DEF FirstApic
      <3>3. CASE ~ apic
        BY <2>2, <2>8, <3>1, <3>3 DEF FirstApic
      <3> QED
        BY <3>2, <3>3
    <2>9. FirstApic(m, k + 1) = IF e.type = 1 /\ e.length >= IoapicSize /\ FirstApic(m, k) = 0
                                  THEN e.address ELSE FirstApic(m, k)
      <3> DEFINE far == FirstApic(m, k + 1)
                 near == FirstApic(m, k)
      <3> HIDE DEF far, near
      <3>1. (e.length >= IoapicSize) \in BOOLEAN
        OBVIOUS
      <3>2. CASE ApicsOf(m, k) # {}
        <4>1. far = near /\ near # 0
          BY <2>7, <3>2 DEF far, near
        <4> QED
          BY <4>1 DEF far, near
      <3>3. CASE ApicsOf(m, k) = {}
        <4>1. far = (IF apic THEN e.address ELSE 0) /\ near = 0
          BY <2>8, <3>3 DEF far, near
        <4> QED
          BY <4>1 DEF far, near
      <3> QED
        BY <3>2, <3>3
    <2>10. EntryCounted(CountedTo(m, k), e) = CountedTo(m, k + 1)
      <3> DEFINE c0 == (1 + Cardinality(EnabledOf(m, k))) % CpuByte
                 c1 == (1 + Cardinality(EnabledOf(m, k + 1))) % CpuByte
                 a0 == FirstApic(m, k)
                 a1 == FirstApic(m, k + 1)
                 r == [ret |-> 1, cpu_count |-> c0, lapic_base |-> m.lapic, ioapic_base |-> a0]
      <3>1. CountedTo(m, k) = r
        BY DEF CountedTo
      <3>2. CountedTo(m, k + 1)
              = [ret |-> 1, cpu_count |-> c1, lapic_base |-> m.lapic, ioapic_base |-> a1]
        BY DEF CountedTo
      <3>3. c1 = IF proc THEN (c0 + 1) % CpuByte ELSE c0
        BY <2>6
      <3>4. a1 = IF e.type = 1 /\ e.length >= IoapicSize /\ a0 = 0 THEN e.address ELSE a0
        BY <2>9
      <3> HIDE DEF c0, c1, a0, a1, e
      <3>5. CASE proc
        <4>1. EntryCounted(r, e) = [r EXCEPT !.cpu_count = (@ + 1) % CpuByte] /\ a1 = a0
          BY <1>1, <3>4, <3>5 DEF EntryCounted
        <4> QED
          BY <3>1, <3>2, <3>3, <3>5, <4>1
      <3>6. CASE ~ proc /\ e.type = 1 /\ e.length >= IoapicSize /\ a0 = 0
        <4>1. EntryCounted(r, e) = [r EXCEPT !.ioapic_base = e.address] /\ a1 = e.address
          BY <1>1, <3>4, <3>6 DEF EntryCounted
        <4> QED
          BY <3>1, <3>2, <3>3, <3>6, <4>1
      <3>7. CASE ~ proc /\ ~ (e.type = 1 /\ e.length >= IoapicSize /\ a0 = 0)
        <4>1. EntryCounted(r, e) = r /\ a1 = a0
          BY <1>1, <3>4, <3>7 DEF EntryCounted
        <4> QED
          BY <3>1, <3>2, <3>3, <3>7, <4>1
      <3> QED
        BY <3>5, <3>6, <3>7
    <2> QED
      BY <1>3, <2>10
  <1> QED
    BY <1>2, <1>3

\* The states the walk goes through.
WalkStates(m) ==
    [over : BOOLEAN, p : Nat,
     acpi : [ret : {1}, cpu_count : Nat, lapic_base : {m.lapic}, ioapic_base : Nat]]

LEMMA MadtEntryType ==
    ASSUME NEW m \in Madts, NEW k \in 1 .. Len(m.entries), NEW x \in WalkStates(m)
    PROVE  MadtEntry(x, m, k) \in WalkStates(m)
  <1> DEFINE e == m.entries[k]
  <1>1. e.length \in Nat /\ e.address \in Nat
    BY MadtFields
  <1>2. x.over \in BOOLEAN /\ x.p \in Nat /\ x.acpi.cpu_count \in Nat
    BY DEF WalkStates
  <1>3. EntryCounted(x.acpi, e)
          \in [ret : {1}, cpu_count : Nat, lapic_base : {m.lapic}, ioapic_base : Nat]
    <2>1. (x.acpi.cpu_count + 1) % CpuByte \in Nat
      BY <1>2 DEF CpuByte
    <2> HIDE DEF e
    <2> QED
      BY <1>1, <2>1 DEF EntryCounted, WalkStates
  <1>4. x.p + e.length \in Nat
    BY <1>1, <1>2
  <1>5. \/ MadtEntry(x, m, k) = [x EXCEPT !.over = TRUE]
        \/ MadtEntry(x, m, k)
             = [over |-> FALSE, p |-> x.p + e.length, acpi |-> EntryCounted(x.acpi, e)]
    BY DEF MadtEntry
  <1>6. [x EXCEPT !.over = TRUE] \in WalkStates(m)
    BY DEF WalkStates
  <1>7. [over |-> FALSE, p |-> x.p + e.length, acpi |-> EntryCounted(x.acpi, e)] \in WalkStates(m)
    <2> HIDE DEF e
    <2> QED
      BY <1>3, <1>4 DEF WalkStates
  <1> HIDE DEF e
  <1> QED
    BY <1>5, <1>6, <1>7

\* The walk counts the entries that lie in the table with all before them.
LEMMA MadtWalkIs ==
    ASSUME NEW m \in Madts
    PROVE  MadtWalk(CountedTo(m, 0), m) = CountedTo(m, Len(m.entries))
  <1> DEFINE n == Len(m.entries)
             x0 == [over |-> FALSE, p |-> MadtHeader, acpi |-> CountedTo(m, 0)]
             X == WalkStates(m)
             step == [k \in 1 .. n |-> [x \in X |-> MadtEntry(x, m, k)]]
             Obeys(t) == t = [k \in 0 .. n |-> IF k = 0 THEN x0 ELSE MadtEntry(t[k - 1], m, k)]
             st == CHOOSE t : Obeys(t)
  <1>1. n \in Nat
    BY MadtFields
  <1>2. x0 \in X
    <2>1. WholeOf(m, 0) = {}
      BY DEF WholeOf
    <2>2. EnabledOf(m, 0) = {} /\ ApicsOf(m, 0) = {}
      BY <2>1 DEF EnabledOf, ApicsOf
    <2>3. FirstApic(m, 0) = 0
      BY <2>2 DEF FirstApic
    <2>4. (1 + Cardinality(EnabledOf(m, 0))) % CpuByte \in Nat
      <3>1. Cardinality(EnabledOf(m, 0)) = 0
        BY <2>2, FS_EmptySet
      <3> QED
        BY <3>1 DEF CpuByte
    <2> QED
      BY <2>3, <2>4, AcpiAssumptions DEF CountedTo, WalkStates
  <1>3. step \in [1 .. n -> [X -> X]]
    BY MadtEntryType
  <1> HIDE DEF x0, X
  <1>4. \E t : Obeys(t)
    <2>1. PICK f \in [0 .. n -> X] : Iterates(f, n, x0, step)
      <3> HIDE DEF n, step
      <3> QED
        BY <1>1, <1>2, <1>3, RecursionExists, Zenon
    <2>2. ASSUME NEW k \in 0 .. n
          PROVE  f[k] = IF k = 0 THEN x0 ELSE MadtEntry(f[k - 1], m, k)
      <3>1. CASE k = 0
        BY <2>1, <3>1 DEF Iterates
      <3>2. CASE k # 0
        <4>1. k \in 1 .. n /\ k - 1 \in 0 .. n
          BY <1>1, <3>2
        <4>2. f[k - 1] \in X
          BY <2>1, <4>1
        <4>3. f[k] = step[k][f[k - 1]]
          BY <2>1, <4>1 DEF Iterates
        <4> QED
          BY <3>2, <4>1, <4>2, <4>3
      <3> QED
        BY <3>1, <3>2
    <2>3. f = [k \in 0 .. n |-> f[k]]
      BY <2>1
    <2>4. Obeys(f)
      <3> HIDE DEF n
      <3> QED
        BY <2>2, <2>3
    <2> QED
      BY <2>4
  <1>5. Obeys(st)
    <2> HIDE DEF Obeys
    <2> QED
      BY <1>4
  <1>6. MadtWalk(CountedTo(m, 0), m) = st[n].acpi
    BY DEF MadtWalk, x0
  <1> HIDE DEF st, step
  <1> DEFINE Whole(k) == \A j \in 1 .. k : InTable(m, j)
             Good(k) == /\ st[k] \in X /\ st[k].acpi = CountedTo(m, k)
                        /\ st[k].over <=> ~ Whole(k)
                        /\ Whole(k) => st[k].p = EntryAt(m, k + 1)
             S == {k \in Nat : k <= n => Good(k)}
  <1>7. 0 \in S
    <2>1. st[0] = x0 /\ Whole(0)
      BY <1>1, <1>5
    <2>2. EntryAt(m, 0 + 1) = MadtHeader
      BY EntryAtFacts, AcpiAssumptions
    <2>3. st[0].acpi = CountedTo(m, 0) /\ st[0].over = FALSE /\ st[0].p = MadtHeader
      BY <2>1 DEF x0
    <2> HIDE DEF Whole
    <2> QED
      BY <1>2, <2>1, <2>2, <2>3
  <1>8. ASSUME NEW k \in Nat, k \in S, k + 1 <= n PROVE Good(k + 1)
    <2> DEFINE e == m.entries[k + 1]
    <2>1. k + 1 \in 1 .. n /\ k + 1 \in 0 .. n /\ k + 1 # 0 /\ (k + 1) - 1 = k
      BY <1>1, <1>8
    <2>2. st[k + 1] = MadtEntry(st[k], m, k + 1)
      BY <1>5, <2>1
    <2>3. Good(k)
      BY <1>1, <1>8
    <2>4. Whole(k + 1) <=> Whole(k) /\ InTable(m, k + 1)
      <3>1. \A x : x \in 1 .. k + 1 <=> x \in 1 .. k \/ x = k + 1
        OBVIOUS
      <3> QED
        BY <3>1
    <2>5. /\ e.length \in Nat /\ m.length \in Nat
          /\ EntryAt(m, k + 1) \in Int /\ EntryAt(m, (k + 1) + 1) = EntryAt(m, k + 1) + e.length
      BY <2>1, MadtFields, EntryAtFacts
    <2>6. CountedTo(m, k + 1) = IF Whole(k + 1) THEN EntryCounted(CountedTo(m, k), e)
                                ELSE CountedTo(m, k)
      BY <1>8, CountedTurn
    <2>9. st[k + 1] \in X /\ st[k] \in WalkStates(m)
      BY <2>1, <2>2, <2>3, MadtEntryType DEF X
    <2>10. st[k].over \in BOOLEAN
      BY <2>9 DEF WalkStates
    <2> HIDE DEF Whole, e, n
    <2>7. CASE Whole(k + 1)
      <3>1. Whole(k) /\ InTable(m, k + 1)
        BY <2>4, <2>7
      <3>2. st[k].over = FALSE /\ st[k].p = EntryAt(m, k + 1)
        BY <2>3, <2>10, <3>1
      <3>3. e.length >= 2 /\ st[k].p + e.length <= m.length /\ ~ (st[k].p + 2 > m.length)
        <4>1. e.length >= 2 /\ EntryAt(m, k + 1) + e.length <= m.length
          BY <3>1 DEF InTable, e
        <4> QED
          BY <2>5, <3>2, <4>1
      <3>4. st[k + 1] = [over |-> FALSE, p |-> st[k].p + e.length,
                         acpi |-> EntryCounted(st[k].acpi, e)]
        BY <2>2, <3>2, <3>3 DEF MadtEntry, Fits, e
      <3>5. st[k + 1].over = FALSE /\ st[k + 1].p = st[k].p + e.length
            /\ st[k + 1].acpi = EntryCounted(st[k].acpi, e)
        BY <3>4
      <3> QED
        BY <2>3, <2>5, <2>6, <2>7, <2>9, <3>2, <3>5
    <2>8. CASE ~ Whole(k + 1)
      <3>1. st[k + 1] = [st[k] EXCEPT !.over = TRUE]
        <4>1. CASE ~ Whole(k)
          <5>1. st[k].over = TRUE
            BY <2>3, <4>1
          <5> QED
            BY <2>2, <5>1 DEF MadtEntry
        <4>2. CASE Whole(k)
          <5>1. ~ InTable(m, k + 1) /\ st[k].p = EntryAt(m, k + 1)
            BY <2>3, <2>4, <2>8, <4>2
          <5>2. ~ Fits(st[k].p, e, m.length)
            BY <5>1 DEF InTable, Fits, e
          <5> QED
            BY <2>2, <5>2 DEF MadtEntry, e
        <4> QED
          BY <4>1, <4>2
      <3>2. st[k + 1].over = TRUE /\ st[k + 1].acpi = st[k].acpi
        BY <2>9, <3>1 DEF WalkStates
      <3> QED
        BY <2>3, <2>6, <2>8, <2>9, <3>2
    <2> QED
      BY <2>7, <2>8
  <1>9. n \in S
    <2>1. ASSUME NEW k \in Nat, k \in S PROVE k + 1 \in S
      BY <1>8, <2>1
    <2> HIDE DEF S
    <2> QED
      BY <1>1, <1>7, <2>1, NatSetInduction
  <1> QED
    BY <1>1, <1>6, <1>9

\* The offset of an entry as the sum of the lengths before it.
LEMMA OffsetIs ==
    ASSUME NEW m \in Madts, NEW k \in 1 .. Len(m.entries)
    PROVE  MadtHeader + SumFunction([j \in 1 .. k - 1 |-> m.entries[j].length]) = EntryAt(m, k)
  <1> DEFINE g == [j \in 1 .. k - 1 |-> m.entries[j].length]
             f == EntryLengths(m)
  <1>1. /\ k - 1 \in Nat /\ DOMAIN g = 1 .. k - 1
        /\ \A j \in 1 .. k - 1 : g[j] \in Int /\ f[j] \in Int /\ g[j] = f[j]
    BY MadtFields DEF EntryLengths
  <1>2. SumFunction(g) = SumFunctionOnSet(g, 1 .. k - 1)
    BY <1>1 DEF SumFunction
  <1> HIDE DEF g, f
  <1>3. SumFunctionOnSet(g, 1 .. k - 1) = SumTo(g, k - 1)
    BY <1>1, SumOnInterval
  <1>4. SumTo(g, k - 1) = SumTo(f, k - 1)
    BY <1>1, SumToSame
  <1> QED
    BY <1>2, <1>3, <1>4 DEF EntryAt, f, g

\* The RSDPs firmware shows, and the first of them.
RsdpsOf(fw) ==
    {r \in ToSet(fw.rom) \cup (IF fw.ebda_ok THEN ToSet(fw.ebda) ELSE {}) : Valid(r)}

LEMMA RsdpIs ==
    ASSUME NEW fw \in Firmwares
    PROVE  /\ RsdpsOf(fw) = {} => acpi_find_rsdp(fw) = <<>>
           /\ RsdpsOf(fw) # {} => \E r \in RsdpsOf(fw) : acpi_find_rsdp(fw) = <<r>>
  <1> DEFINE ebda == IF fw.ebda_ok THEN fw.ebda ELSE <<>>
             slots == ebda \o fw.rom
             good == {i \in 1 .. Len(slots) : Valid(slots[i])}
             k == IF good # {} THEN Min(good) ELSE 0
  <1>1. fw.ebda \in Seq(Rsdps) /\ fw.rom \in Seq(Rsdps) /\ fw.ebda_ok \in BOOLEAN
    BY FirmwareAssumption
  <1>2. ebda \in Seq(Rsdps) /\ ToSet(ebda) = IF fw.ebda_ok THEN ToSet(fw.ebda) ELSE {}
    BY <1>1 DEF ToSet
  <1>3. RsdpsOf(fw) = {r \in ToSet(fw.rom) \cup ToSet(ebda) : Valid(r)}
    BY <1>2 DEF RsdpsOf
  <1>4. acpi_find_rsdp(fw) = IF k = 0 THEN <<>> ELSE <<slots[k]>>
    BY DEF acpi_find_rsdp, SelectInSeq
  <1> HIDE DEF ebda
  <1>5. /\ Len(slots) = Len(ebda) + Len(fw.rom) /\ Len(ebda) \in Nat /\ Len(fw.rom) \in Nat
        /\ \A i \in 1 .. Len(slots) :
             slots[i] = IF i <= Len(ebda) THEN ebda[i] ELSE fw.rom[i - Len(ebda)]
    BY <1>1, <1>2
  <1>6. \A i \in 1 .. Len(slots) : slots[i] \in ToSet(fw.rom) \cup ToSet(ebda)
    <2> SUFFICES ASSUME NEW i \in 1 .. Len(slots)
                 PROVE  slots[i] \in ToSet(fw.rom) \cup ToSet(ebda)
      OBVIOUS
    <2>1. CASE i <= Len(ebda)
      <3>1. i \in DOMAIN ebda /\ slots[i] = ebda[i]
        BY <1>2, <1>5, <2>1
      <3> QED
        BY <3>1 DEF ToSet
    <2>2. CASE ~ (i <= Len(ebda))
      <3>1. i - Len(ebda) \in DOMAIN fw.rom /\ slots[i] = fw.rom[i - Len(ebda)]
        BY <1>1, <1>5, <2>2
      <3> HIDE DEF slots
      <3> QED
        BY <3>1 DEF ToSet
    <2> QED
      BY <2>1, <2>2
  <1>7. \A r \in ToSet(fw.rom) \cup ToSet(ebda) : \E i \in 1 .. Len(slots) : slots[i] = r
    <2>1. ASSUME NEW i \in DOMAIN ebda PROVE i \in 1 .. Len(slots) /\ slots[i] = ebda[i]
      BY <1>2, <1>5
    <2>2. ASSUME NEW i \in DOMAIN fw.rom
          PROVE  Len(ebda) + i \in 1 .. Len(slots) /\ slots[Len(ebda) + i] = fw.rom[i]
      <3>1. i \in 1 .. Len(fw.rom)
        BY <1>1
      <3>2. Len(ebda) + i \in 1 .. Len(slots) /\ ~ (Len(ebda) + i <= Len(ebda))
            /\ (Len(ebda) + i) - Len(ebda) = i
        BY <1>5, <3>1
      <3> HIDE DEF slots
      <3> QED
        BY <1>5, <3>2
    <2> HIDE DEF slots
    <2> QED
      BY <2>1, <2>2 DEF ToSet
  <1> HIDE DEF slots
  <1>8. good # {} => k \in good /\ k # 0
    <2>1. good \subseteq Nat
      BY <1>5
    <2>2. good # {} => Min(good) \in good
      <3> HIDE DEF good
      <3> QED
        BY <2>1, MinFacts
    <2>3. 0 \notin good
      BY <1>5
    <2> HIDE DEF good
    <2> QED
      BY <2>2, <2>3
  <1>9. good = {} <=> RsdpsOf(fw) = {}
    BY <1>3, <1>6, <1>7
  <1>10. \A i \in good : slots[i] \in RsdpsOf(fw)
    BY <1>3, <1>6
  <1> HIDE DEF good
  <1>11. CASE good = {}
    BY <1>4, <1>9, <1>11
  <1>12. CASE good # {}
    <2>1. k \in good /\ k # 0
      BY <1>8, <1>12
    <2> HIDE DEF k
    <2> QED
      BY <1>4, <1>9, <1>10, <1>12, <2>1
  <1> QED
    BY <1>11, <1>12

\* The MADTs a root table names, those that are sound, and the roots behind which there
\* is nothing but sound ones.
PointedBy(fw, root) == {p \in ToSet(fw.mem[root].ptrs) : Names(fw, p, "APIC")}

MadtsOf(fw) ==
    {m \in {fw.mem[a] : a \in DOMAIN fw.mem} : m.sig = "APIC" /\ m.sum /\ m.length >= MadtHeader}

LeadsTo(fw, root) == /\ root # 0 /\ fw.mem[root].sum
                     /\ PointedBy(fw, root) # {}
                     /\ \A p \in PointedBy(fw, root) : fw.mem[p] \in MadtsOf(fw)

LEMMA TableIs ==
    ASSUME NEW fw \in Firmwares, NEW r \in RsdpsOf(fw), NEW root, root = RootAt(r)
    PROVE  \/ acpi_find_table(fw, root, "APIC") = NoTable /\ ~ LeadsTo(fw, root)
           \/ \E p \in PointedBy(fw, root) : /\ acpi_find_table(fw, root, "APIC") = fw.mem[p]
                                             /\ p \in DOMAIN fw.mem /\ fw.mem[p] \in Madts
  <1> DEFINE ptrs == fw.mem[root].ptrs
             found == {i \in 1 .. Len(ptrs) : Names(fw, ptrs[i], "APIC")}
             k == IF found # {} THEN Min(found) ELSE 0
  <1>1. acpi_find_table(fw, root, "APIC")
          = IF root = 0 \/ ~ fw.mem[root].sum \/ k = 0 THEN NoTable ELSE fw.mem[ptrs[k]]
    BY DEF acpi_find_table, SelectInSeq
  <1>2. r \in ToSet(fw.ebda) \cup ToSet(fw.rom) /\ Valid(r)
    BY DEF RsdpsOf
  <1>3. CASE root = 0
    BY <1>1, <1>3 DEF LeadsTo
  <1>4. CASE root # 0
    <2>1. /\ fw.mem[root].sum \in BOOLEAN /\ ptrs \in Seq(Nat)
          /\ \A p \in ToSet(ptrs) : p # 0 /\ p <= AddressLimit => p \in DOMAIN fw.mem
          /\ \A p \in DOMAIN fw.mem : fw.mem[p].sig = "APIC" => fw.mem[p] \in Madts
      BY <1>2, <1>4, FirmwareAssumption
    <2>2. ToSet(ptrs) = {ptrs[i] : i \in 1 .. Len(ptrs)} /\ Len(ptrs) \in Nat
      BY <2>1 DEF ToSet
    <2>3. found = {} <=> PointedBy(fw, root) = {}
      BY <2>2 DEF PointedBy
    <2>4. \A i \in found : ptrs[i] \in PointedBy(fw, root)
      BY <2>2 DEF PointedBy
    <2>5. found # {} => k \in found /\ k # 0
      <3>1. found \subseteq Nat /\ 0 \notin found
        BY <2>2
      <3>2. found # {} => Min(found) \in found
        <4> HIDE DEF found
        <4> QED
          BY <3>1, MinFacts
      <3> HIDE DEF found
      <3> QED
        BY <3>1, <3>2
    <2> HIDE DEF found
    <2>6. CASE found = {} \/ ~ fw.mem[root].sum
      BY <1>1, <2>3, <2>6 DEF LeadsTo
    <2>7. CASE found # {} /\ fw.mem[root].sum
      <3>1. k \in found /\ k # 0
        BY <2>5, <2>7
      <3> HIDE DEF k
      <3>2. ptrs[k] \in PointedBy(fw, root) /\ acpi_find_table(fw, root, "APIC") = fw.mem[ptrs[k]]
        BY <1>1, <1>4, <2>4, <2>7, <3>1
      <3>3. /\ ptrs[k] \in ToSet(ptrs) /\ ptrs[k] # 0 /\ ptrs[k] <= AddressLimit
            /\ fw.mem[ptrs[k]].sig = "APIC"
        BY <3>2 DEF PointedBy, Names
      <3> QED
        BY <2>1, <3>2, <3>3
    <2> QED
      BY <2>6, <2>7
  <1> QED
    BY <1>3, <1>4

\* What acpi_init says of the machine: the defaults, or what a sound MADT counts.
LEMMA AcpiIs ==
    ASSUME NEW fw \in Firmwares
    PROVE  \/ /\ RsdpsOf(fw) = {} /\ acpi_init(fw) = Defaults
           \/ /\ \E r \in RsdpsOf(fw) : ~ LeadsTo(fw, RootAt(r))
              /\ acpi_init(fw) = [Defaults EXCEPT !.ret = 1]
           \/ /\ RsdpsOf(fw) # {}
              /\ \E m \in MadtsOf(fw) \cap Madts : acpi_init(fw) = CountedTo(m, Len(m.entries))
  <1> DEFINE found == [Defaults EXCEPT !.ret = 1]
  <1>1. CASE RsdpsOf(fw) = {}
    <2>1. acpi_find_rsdp(fw) = <<>>
      BY <1>1, RsdpIs
    <2> QED
      BY <1>1, <2>1 DEF acpi_init
  <1>2. CASE RsdpsOf(fw) # {}
    <2>1. PICK r \in RsdpsOf(fw) : acpi_find_rsdp(fw) = <<r>>
      BY <1>2, RsdpIs
    <2> DEFINE root == RootAt(r)
               madt == acpi_find_table(fw, root, "APIC")
    <2>2. acpi_init(fw) = IF madt = NoTable THEN found ELSE acpi_parse_madt(found, madt)
      <3>1. acpi_find_rsdp(fw) # <<>> /\ acpi_find_rsdp(fw)[1] = r
        BY <2>1
      <3> QED
        BY <3>1 DEF acpi_init
    <2>3. \/ madt = NoTable /\ ~ LeadsTo(fw, root)
          \/ \E p \in PointedBy(fw, root) :
               madt = fw.mem[p] /\ p \in DOMAIN fw.mem /\ fw.mem[p] \in Madts
      BY TableIs
    <2> HIDE DEF madt, found
    <2>4. CASE madt = NoTable /\ ~ LeadsTo(fw, root)
      BY <2>2, <2>4 DEF found
    <2>5. CASE \E p \in PointedBy(fw, root) :
                 madt = fw.mem[p] /\ p \in DOMAIN fw.mem /\ fw.mem[p] \in Madts
      <3>1. PICK p \in PointedBy(fw, root) :
                   madt = fw.mem[p] /\ p \in DOMAIN fw.mem /\ fw.mem[p] \in Madts
        BY <2>5
      <3>2. /\ madt \in Madts /\ madt.sig = "APIC" /\ madt.sum \in BOOLEAN /\ madt.length \in Nat
            /\ madt # NoTable
        BY <3>1 DEF Madts, NoTable
      <3>3. acpi_init(fw) = acpi_parse_madt(found, madt)
        BY <2>2, <3>2
      <3>4. CASE madt.length < MadtHeader \/ ~ madt.sum
        <4>1. acpi_init(fw) = found
          BY <3>3, <3>4 DEF acpi_parse_madt
        <4>2. madt \notin MadtsOf(fw)
          BY <3>2, <3>4, AcpiAssumptions DEF MadtsOf
        <4>3. ~ LeadsTo(fw, root)
          BY <3>1, <4>2 DEF LeadsTo
        <4> QED
          BY <4>1, <4>3 DEF found
      <3>5. CASE ~ (madt.length < MadtHeader \/ ~ madt.sum)
        <4>1. acpi_init(fw) = MadtWalk([found EXCEPT !.lapic_base = madt.lapic], madt)
          BY <3>3, <3>5 DEF acpi_parse_madt
        <4>2. [found EXCEPT !.lapic_base = madt.lapic] = CountedTo(madt, 0)
          <5>1. WholeOf(madt, 0) = {}
            BY DEF WholeOf
          <5>2. EnabledOf(madt, 0) = {} /\ ApicsOf(madt, 0) = {}
            BY <5>1 DEF EnabledOf, ApicsOf
          <5>3. FirstApic(madt, 0) = 0 /\ (1 + Cardinality(EnabledOf(madt, 0))) % CpuByte = 1
            <6>1. Cardinality(EnabledOf(madt, 0)) = 0
              BY <5>2, FS_EmptySet
            <6> QED
              BY <5>2, <6>1 DEF FirstApic, CpuByte
          <5> DEFINE l == madt.lapic
          <5>4. CountedTo(madt, 0) = [ret |-> 1, cpu_count |-> 1, lapic_base |-> l, ioapic_base |-> 0]
            BY <5>3 DEF CountedTo
          <5> HIDE DEF l
          <5>5. [[Defaults EXCEPT !.ret = 1] EXCEPT !.lapic_base = l]
                  = [ret |-> 1, cpu_count |-> 1, lapic_base |-> l, ioapic_base |-> 0]
            <6> DEFINE d == [ret |-> 1, cpu_count |-> 1, lapic_base |-> LAPIC_DEFAULT,
                             ioapic_base |-> 0]
            <6>1. [Defaults EXCEPT !.ret = 1] = d
              BY DEF Defaults
            <6>2. [d EXCEPT !.lapic_base = l]
                    = [ret |-> 1, cpu_count |-> 1, lapic_base |-> l, ioapic_base |-> 0]
              OBVIOUS
            <6> QED
              BY <6>1, <6>2
          <5> QED
            BY <5>4, <5>5 DEF found, l
        <4>3. acpi_init(fw) = CountedTo(madt, Len(madt.entries))
          BY <3>2, <4>1, <4>2, MadtWalkIs
        <4>4. madt \in MadtsOf(fw) \cap Madts
          BY <3>1, <3>2, <3>5, AcpiAssumptions DEF MadtsOf
        <4> QED
          BY <1>2, <4>3, <4>4
      <3> QED
        BY <3>4, <3>5
    <2> QED
      BY <2>3, <2>4, <2>5
  <1> QED
    BY <1>1, <1>2

\* Processors and the I/O APIC are counted from the whole entries of a sound MADT, and
\* the defaults stand only where some table on the way is missing or damaged.
THEOREM AcpiCountsExactly == Spec => []AcpiExact
  <1>1. ASSUME CallInv PROVE AcpiExact
    <2> SUFFICES ASSUME After("acpi") PROVE AcpiExact
      BY DEF AcpiExact
    <2>1. in \in Firmwares /\ out = acpi_init(in)
      BY <1>1 DEF CallInv
    <2> DEFINE Offset(m, k) == MadtHeader + SumFunction([j \in 1 .. k - 1 |-> m.entries[j].length])
               Whole(m) == {k \in DOMAIN m.entries :
                              \A j \in 1 .. k : /\ m.entries[j].length >= 2
                                                /\ Offset(m, j) + m.entries[j].length <= m.length}
               Enabled(m) == {k \in Whole(m) : m.entries[k].type = 0 /\ m.entries[k].enabled
                                             /\ m.entries[k].length >= LapicSize}
               Apics(m) == {k \in Whole(m) : m.entries[k].type = 1 /\ m.entries[k].address # 0
                                           /\ m.entries[k].length >= IoapicSize}
               Counts(m) == /\ out.cpu_count = (1 + Cardinality(Enabled(m))) % CpuByte
                            /\ out.lapic_base = m.lapic
                            /\ out.ioapic_base = IF Apics(m) = {} THEN 0
                                                 ELSE m.entries[Min(Apics(m))].address
    <2>2. ASSUME NEW m \in Madts
          PROVE  Enabled(m) = EnabledOf(m, Len(m.entries)) /\ Apics(m) = ApicsOf(m, Len(m.entries))
      <3>1. DOMAIN m.entries = 1 .. Len(m.entries) /\ Len(m.entries) \in Nat
        BY MadtFields
      <3>2. \A k \in 1 .. Len(m.entries) : Offset(m, k) = EntryAt(m, k)
        BY OffsetIs
      <3>3. \A k \in 1 .. Len(m.entries) : \A j \in 1 .. k : j \in 1 .. Len(m.entries)
        BY <3>1
      <3> HIDE DEF Offset
      <3>4. Whole(m) = WholeOf(m, Len(m.entries))
        BY <3>1, <3>2, <3>3 DEF WholeOf, InTable
      <3> QED
        BY <3>4 DEF EnabledOf, ApicsOf
    <2>3. ASSUME NEW m \in Madts, out = CountedTo(m, Len(m.entries)) PROVE out.ret = 1 /\ Counts(m)
      <3>1. /\ out.ret = 1 /\ out.lapic_base = m.lapic
            /\ out.cpu_count = (1 + Cardinality(EnabledOf(m, Len(m.entries)))) % CpuByte
            /\ out.ioapic_base = FirstApic(m, Len(m.entries))
        BY <2>3 DEF CountedTo
      <3> HIDE DEF Enabled, Apics
      <3> QED
        BY <2>2, <3>1 DEF FirstApic
    <2> HIDE DEF Counts
    <2>4. \/ /\ RsdpsOf(in) = {} /\ out = Defaults
          \/ /\ \E r \in RsdpsOf(in) : ~ LeadsTo(in, RootAt(r))
             /\ out = [Defaults EXCEPT !.ret = 1]
          \/ /\ RsdpsOf(in) # {}
             /\ \E m \in MadtsOf(in) \cap Madts : out = CountedTo(m, Len(m.entries))
      BY <2>1, AcpiIs
    <2>5. (out.ret = 1) = (RsdpsOf(in) # {})
      <3>1. Defaults.ret = 0 /\ [Defaults EXCEPT !.ret = 1].ret = 1
        BY DEF Defaults
      <3>2. CASE RsdpsOf(in) = {}
        <4>1. out = Defaults
          BY <2>4, <3>2
        <4> QED
          BY <3>1, <3>2, <4>1
      <3>3. CASE RsdpsOf(in) # {}
        <4>1. out.ret = 1
          BY <2>3, <2>4, <3>1, <3>3
        <4> QED
          BY <3>3, <4>1
      <3> QED
        BY <3>2, <3>3
    <2>6. \/ /\ out = [Defaults EXCEPT !.ret = out.ret]
             /\ RsdpsOf(in) = {} \/ \E r \in RsdpsOf(in) : ~ LeadsTo(in, RootAt(r))
          \/ \E m \in MadtsOf(in) : Counts(m)
      <3>1. /\ Defaults = [Defaults EXCEPT !.ret = Defaults.ret]
            /\ [Defaults EXCEPT !.ret = 1] = [Defaults EXCEPT !.ret = [Defaults EXCEPT !.ret = 1].ret]
        BY DEF Defaults
      <3> QED
        BY <2>3, <2>4, <3>1
    <2> QED
      BY <2>5, <2>6 DEF AcpiExact, RsdpsOf, LeadsTo, PointedBy, MadtsOf, Counts
  <1> QED
    BY <1>1, CallsKept, PTL

------------------------------------------------------------------------------
(***************************************************************************)
(* The boot loader's tags                                                  *)
(***************************************************************************)

\* The tags before the end, and before anything behind one of size zero.
SeenOf(info) == {k \in DOMAIN info : /\ \A j \in 1 .. k : info[j].type # "end"
                                     /\ \A j \in 1 .. k - 1 : info[j].size # 0}

\* The walk looks at those tags and no others.
LEMMA WalkedIs ==
    ASSUME NEW info \in Infos
    PROVE  /\ Walked(info) \in Seq(Tags) /\ Len(Walked(info)) \in 0 .. Len(info)
           /\ SeenOf(info) = 1 .. Len(Walked(info))
           /\ \A k \in 1 .. Len(Walked(info)) : Walked(info)[k] = info[k]
           /\ Len(info) \in Nat
  <1> DEFINE stops == {i \in 1 .. Len(info) : info[i].type = "end" \/ info[i].size = 0}
             s == IF stops # {} THEN Min(stops) ELSE 0
             w == IF info[s].type = "end" THEN s - 1 ELSE s
  <1>1. /\ info \in Seq(Tags) /\ Len(info) \in Nat /\ DOMAIN info = 1 .. Len(info)
        /\ Len(info) >= 1 /\ info[Len(info)].type = "end"
    <2>1. info \in Seq(Tags) /\ info # <<>> /\ info[Len(info)].type = "end"
      BY TagAssumption
    <2> QED
      BY <2>1
  <1>2. Walked(info) = SubSeq(info, 1, w)
    BY DEF Walked, SelectInSeq
  <1>3. s \in stops /\ \A i \in stops : s <= i
    <2>1. stops \subseteq Nat /\ Len(info) \in stops
      BY <1>1
    <2> HIDE DEF stops
    <2> QED
      BY <2>1, MinFacts
  <1>4. s \in 1 .. Len(info) /\ (info[s].type = "end" \/ info[s].size = 0)
    BY <1>3
  <1>5. \A i \in 1 .. s - 1 : info[i].type # "end" /\ info[i].size # 0
    BY <1>1, <1>3, <1>4
  <1> HIDE DEF stops, s
  <1>6. w \in 0 .. Len(info)
    BY <1>1, <1>4
  <1>7. SeenOf(info) = 1 .. w
    <2>1. ASSUME NEW k \in SeenOf(info) PROVE k \in 1 .. w
      <3>1. /\ k \in 1 .. Len(info) /\ \A j \in 1 .. k : info[j].type # "end"
            /\ \A j \in 1 .. k - 1 : info[j].size # 0
        BY <1>1 DEF SeenOf
      <3>2. CASE k > s
        <4>1. s \in 1 .. k /\ s \in 1 .. k - 1
          BY <1>1, <1>4, <3>1, <3>2
        <4> QED
          BY <1>4, <3>1, <4>1
      <3>3. CASE k = s
        <4>1. s \in 1 .. k
          BY <1>4, <3>3
        <4>2. w = s
          BY <3>1, <4>1
        <4> QED
          BY <3>1, <3>3, <4>2
      <3>4. CASE k < s
        BY <1>1, <1>4, <3>1, <3>4
      <3> QED
        BY <1>1, <1>4, <3>1, <3>2, <3>3, <3>4
    <2>2. ASSUME NEW k \in 1 .. w PROVE k \in SeenOf(info)
      <3>1. k \in 1 .. Len(info) /\ k <= s
        BY <1>1, <1>4, <1>6
      <3>2. \A j \in 1 .. k - 1 : j \in 1 .. s - 1
        BY <1>4, <3>1
      <3>3. \A j \in 1 .. k : info[j].type # "end"
        <4>1. CASE k = s
          <5>1. info[s].type # "end"
            BY <1>4, <4>1
          <5>2. \A j \in 1 .. k : j \in 1 .. s - 1 \/ j = s
            BY <1>4, <4>1
          <5> QED
            BY <1>5, <5>1, <5>2
        <4>2. CASE k # s
          <5>1. \A j \in 1 .. k : j \in 1 .. s - 1
            BY <1>4, <3>1, <4>2
          <5> QED
            BY <1>5, <5>1
        <4> QED
          BY <4>1, <4>2
      <3> QED
        BY <1>1, <1>5, <3>1, <3>2, <3>3 DEF SeenOf
    <2> HIDE DEF w
    <2> QED
      BY <2>1, <2>2
  <1> HIDE DEF w
  <1>8. /\ SubSeq(info, 1, w) \in Seq(Tags) /\ Len(SubSeq(info, 1, w)) = w
        /\ \A k \in 1 .. w : SubSeq(info, 1, w)[k] = info[k]
    BY <1>1, <1>6
  <1> QED
    BY <1>1, <1>2, <1>6, <1>7, <1>8

\* The fields of a tag by its type.
LEMMA TagFields ==
    ASSUME NEW tag \in Tags
    PROVE  /\ tag.type \in {"end", "other", "mmap", "fb", "module"}
           /\ tag.type = "mmap" => tag.entries \in Seq([available : BOOLEAN, length : Nat])
           /\ tag.type = "fb" => tag.width \in Nat
           /\ tag.type = "module" => tag.cmdline \in Seq(STRING)
  BY DEF Tags

\* The first of the tags seen that are in S.
LEMMA FirstSeen ==
    ASSUME NEW info \in Infos, NEW S, S \subseteq 1 .. Len(Walked(info)),
           NEW k, k = IF S # {} THEN Min(S) ELSE 0
    PROVE  /\ S = {} <=> k = 0
           /\ S # {} => /\ k = Min(S) /\ k \in S
                        /\ Walked(info)[k] = info[k] /\ info[k] \in Tags
  <1>1. CASE S = {}
    BY <1>1
  <1>2. CASE S # {}
    <2>1. Len(Walked(info)) \in Nat /\ S \subseteq Nat
      BY WalkedIs
    <2>2. k = Min(S) /\ k \in S /\ k \in 1 .. Len(Walked(info))
      BY <1>2, <2>1, MinFacts
    <2>3. k # 0
      BY <2>1, <2>2
    <2>4. Walked(info)[k] = info[k] /\ Walked(info)[k] \in Tags
      BY <2>2, WalkedIs, ElementOfSeq
    <2> QED
      BY <1>2, <2>2, <2>3, <2>4
  <1> QED
    BY <1>1, <1>2

\* The framebuffer and the modules found are the first of their kind.
LEMMA ModulesAre ==
    ASSUME NEW info \in Infos, NEW S, S = {k \in SeenOf(info) : info[k].type = "module"}
    PROVE  IF S = {} THEN FirstModule(info) = NoTag ELSE FirstModule(info) = info[Min(S)]
  <1> DEFINE T == {i \in 1 .. Len(Walked(info)) : Walked(info)[i].type = "module"}
             k == IF T # {} THEN Min(T) ELSE 0
  <1>1. FirstModule(info) = IF k = 0 THEN NoTag ELSE Walked(info)[k]
    BY DEF FirstModule, FirstTag, SelectInSeq
  <1>2. T = S /\ S \subseteq 1 .. Len(Walked(info))
    BY WalkedIs
  <1>3. k = IF S # {} THEN Min(S) ELSE 0
    BY <1>2
  <1> HIDE DEF k, T
  <1>4. /\ S = {} <=> k = 0
        /\ S # {} => k = Min(S) /\ k \in S /\ Walked(info)[k] = info[k]
    BY <1>2, <1>3, FirstSeen, ZenonT(30)
  <1> QED
    BY ONLY <1>1, <1>4, SMTT(30)

LEMMA FramebufferIs ==
    ASSUME NEW info \in Infos, NEW S, S = {k \in SeenOf(info) : info[k].type = "fb"}
    PROVE  mcp_scan_fb(info) = IF S = {} THEN 0 ELSE info[Min(S)].width
  <1> DEFINE T == {i \in 1 .. Len(Walked(info)) : Walked(info)[i].type = "fb"}
             k == IF T # {} THEN Min(T) ELSE 0
             fb == IF k = 0 THEN NoTag ELSE Walked(info)[k]
  <1>1. mcp_scan_fb(info) = IF fb = NoTag THEN 0 ELSE fb.width
    BY DEF mcp_scan_fb, FirstTag, SelectInSeq
  <1>2. T = S /\ S \subseteq 1 .. Len(Walked(info))
    BY WalkedIs
  <1>3. k = IF S # {} THEN Min(S) ELSE 0
    BY <1>2
  <1>4. \A i \in S : info[i].type = "fb"
    OBVIOUS
  <1> HIDE DEF k, T
  <1>5. /\ S = {} <=> k = 0
        /\ S # {} => k = Min(S) /\ k \in S /\ Walked(info)[k] = info[k]
    BY <1>2, <1>3, FirstSeen
  <1>6. CASE S = {}
    BY <1>1, <1>5, <1>6
  <1>7. CASE S # {}
    <2>1. fb = info[k] /\ fb.type = "fb"
      BY <1>4, <1>5, <1>7
    <2>2. fb # NoTag
      BY <2>1 DEF NoTag
    <2> QED
      BY <1>1, <1>5, <1>7, <2>1, <2>2
  <1> QED
    BY <1>6, <1>7

\* A command line begins with one name if its first word is that.
LEMMA NamedModuleIs ==
    ASSUME NEW info \in Infos, NEW name,
           NEW S, S = {k \in SeenOf(info) : /\ info[k].type = "module"
                                            /\ info[k].cmdline # <<>> /\ info[k].cmdline[1] = name}
    PROVE  IF S = {} THEN FindModule(info, <<name>>) = NoTag
           ELSE FindModule(info, <<name>>) = info[Min(S)]
  <1> DEFINE T == {i \in 1 .. Len(Walked(info)) :
                     /\ Walked(info)[i].type = "module"
                     /\ IsPrefix(<<name>>, Walked(info)[i].cmdline)}
             k == IF T # {} THEN Min(T) ELSE 0
  <1>1. FindModule(info, <<name>>) = IF k = 0 THEN NoTag ELSE Walked(info)[k]
    BY DEF FindModule, FirstTag, SelectInSeq
  <1>2. ASSUME NEW c \in Seq(STRING)
        PROVE  IsPrefix(<<name>>, c) <=> c # <<>> /\ c[1] = name
    <2> DEFINE W == STRING \union {name}
    <2>0. name \in W /\ c \in Seq(W)
      OBVIOUS
    <2> HIDE DEF W
    <2>1. Len(<<name>>) = 1
      OBVIOUS
    <2>2. IsPrefix(<<name>>, c) <=> 1 <= Len(c) /\ SubSeq(<<name>>, 1, 1) = SubSeq(c, 1, 1)
      BY <2>1 DEF IsPrefix
    <2> DEFINE a == SubSeq(<<name>>, 1, 1)
               b == SubSeq(c, 1, 1)
    <2>3. a \in Seq(W) /\ Len(a) = 1 /\ a[1] = name
      <3>1. <<name>> \in Seq(W)
        BY <2>0
      <3> DEFINE one == <<name>>
      <3>2. one[1] = name /\ Len(one) = 1
        OBVIOUS
      <3> HIDE DEF one
      <3> QED
        BY <3>1, <3>2 DEF one
    <2>4. ASSUME 1 <= Len(c) PROVE a = b <=> c[1] = name
      <3>1. b \in Seq(W) /\ Len(b) = 1 /\ b[1] = c[1]
        BY <2>0, <2>4
      <3> HIDE DEF a, b
      <3>2. a[1] = b[1] => a = b
        <4>1. a[1] = b[1] => \A i \in 1 .. Len(a) : a[i] = b[i]
          BY <2>3
        <4> QED
          BY <2>3, <3>1, <4>1, SeqEqual
      <3> QED
        BY <2>3, <3>1, <3>2
    <2>5. 1 <= Len(c) <=> c # <<>>
      BY <2>0
    <2> HIDE DEF a, b
    <2> QED
      BY <2>2, <2>4, <2>5 DEF a, b
  <1>3. ASSUME NEW i \in 1 .. Len(Walked(info)), info[i].type = "module"
        PROVE  info[i].cmdline \in Seq(STRING)
    <2>1. info[i] \in Tags
      BY WalkedIs, ElementOfSeq
    <2> QED
      BY <1>3, <2>1, TagFields
  <1>4. T = S /\ S \subseteq 1 .. Len(Walked(info))
    BY <1>2, <1>3, WalkedIs
  <1>5. k = IF S # {} THEN Min(S) ELSE 0
    BY <1>4
  <1> HIDE DEF k, T
  <1>6. /\ S = {} <=> k = 0
        /\ S # {} => k = Min(S) /\ k \in S /\ Walked(info)[k] = info[k]
    BY <1>4, <1>5, FirstSeen, ZenonT(30)
  <1> QED
    BY <1>1, <1>6, SMTT(30)

\* The lengths of a map's entries of some kinds, and their sum.
ByKind(es, kinds) ==
    [e \in 1 .. Len(es) |-> IF es[e].available \in kinds THEN es[e].length ELSE 0]

KindBytes(es, kinds) == SumTo(ByKind(es, kinds), Len(es))

MapEntries == Seq([available : BOOLEAN, length : Nat])

LEMMA ByKindFacts ==
    ASSUME NEW es \in MapEntries, NEW kinds
    PROVE  /\ Len(es) \in Nat /\ DOMAIN es = 1 .. Len(es)
           /\ \A k \in 1 .. Len(es) : es[k].available \in BOOLEAN /\ es[k].length \in Nat
           /\ \A k \in 1 .. Len(es) :
                /\ ByKind(es, kinds)[k] = IF es[k].available \in kinds THEN es[k].length ELSE 0
                /\ ByKind(es, kinds)[k] \in Int
           /\ SumTo(ByKind(es, kinds), 0) = 0
           /\ \A n \in 0 .. Len(es) : SumTo(ByKind(es, kinds), n) \in Int
           /\ \A n \in 1 .. Len(es) :
                SumTo(ByKind(es, kinds), n) = SumTo(ByKind(es, kinds), n - 1) + ByKind(es, kinds)[n]
           /\ KindBytes(es, kinds) \in Int
  <1> DEFINE f == ByKind(es, kinds)
             n == Len(es)
  <1>1. n \in Nat /\ DOMAIN es = 1 .. n
    BY DEF MapEntries
  <1>2. \A k \in 1 .. n : es[k].available \in BOOLEAN /\ es[k].length \in Nat
    <2>1. \A k \in 1 .. n : es[k] \in [available : BOOLEAN, length : Nat]
      BY ElementOfSeq DEF MapEntries
    <2> QED
      BY <2>1
  <1>3. \A k \in 1 .. n : f[k] = (IF es[k].available \in kinds THEN es[k].length ELSE 0)
    BY DEF ByKind
  <1> HIDE DEF f, n
  <1>4. \A k \in 1 .. n : f[k] \in Int
    BY <1>2, <1>3
  <1>5. /\ SumTo(f, 0) = 0
        /\ \A k \in 0 .. n : SumTo(f, k) \in Int
        /\ \A k \in 1 .. n : SumTo(f, k) = SumTo(f, k - 1) + f[k]
    BY <1>1, <1>4, SumToFacts
  <1>6. SumTo(f, n) \in Int
    BY <1>1, <1>5
  <1> QED
    BY <1>1, <1>2, <1>3, <1>4, <1>5, <1>6 DEF f, n, KindBytes

\* The same sum as the library's.
LEMMA KindBytesIs ==
    ASSUME NEW es \in MapEntries, NEW kinds
    PROVE  SumFunction([e \in DOMAIN es |-> IF es[e].available \in kinds THEN es[e].length ELSE 0])
             = KindBytes(es, kinds)
  <1> DEFINE f == ByKind(es, kinds)
             n == Len(es)
  <1>1. n \in Nat /\ DOMAIN es = 1 .. n /\ \A k \in 1 .. n : f[k] \in Int
    BY ByKindFacts
  <1>2. [e \in DOMAIN es |-> IF es[e].available \in kinds THEN es[e].length ELSE 0] = f
    BY <1>1 DEF ByKind
  <1>3. DOMAIN f = 1 .. n
    BY DEF ByKind
  <1> HIDE DEF f, n
  <1>4. SumFunction(f) = SumFunctionOnSet(f, 1 .. n)
    BY <1>3 DEF SumFunction
  <1>5. SumFunctionOnSet(f, 1 .. n) = SumTo(f, n)
    BY <1>1, SumOnInterval
  <1> QED
    BY <1>2, <1>4, <1>5 DEF KindBytes, f, n

\* The inner loop adds a map's bytes.
LEMMA MapAddedIs ==
    ASSUME NEW es \in MapEntries, NEW raw \in Int, NEW usable \in Int
    PROVE  MapAdded([raw |-> raw, usable |-> usable], es)
             = [raw |-> raw + KindBytes(es, BOOLEAN), usable |-> usable + KindBytes(es, {TRUE})]
  <1> DEFINE n == Len(es)
             all == ByKind(es, BOOLEAN)
             some == ByKind(es, {TRUE})
             x0 == [raw |-> raw, usable |-> usable]
             turn(x, k) == [raw |-> x.raw + es[k].length,
                            usable |-> x.usable + (IF es[k].available THEN es[k].length ELSE 0)]
             f == [k \in 0 .. n |-> [raw |-> raw + SumTo(all, k), usable |-> usable + SumTo(some, k)]]
             Obeys(t) == t = [k \in 0 .. n |-> IF k = 0 THEN x0 ELSE
                            [raw |-> t[k - 1].raw + es[k].length,
                             usable |-> t[k - 1].usable
                                        + (IF es[k].available THEN es[k].length ELSE 0)]]
             st == CHOOSE t : Obeys(t)
  <1>1. /\ n \in Nat
        /\ \A k \in 1 .. n : es[k].available \in BOOLEAN /\ es[k].length \in Nat
        /\ SumTo(all, 0) = 0 /\ SumTo(some, 0) = 0
        /\ \A k \in 0 .. n : SumTo(all, k) \in Int /\ SumTo(some, k) \in Int
        /\ \A k \in 1 .. n : /\ SumTo(all, k) = SumTo(all, k - 1) + all[k]
                             /\ SumTo(some, k) = SumTo(some, k - 1) + some[k]
    <2>1. ASSUME NEW kinds, NEW g, g = ByKind(es, kinds)
          PROVE  /\ SumTo(g, 0) = 0 /\ \A k \in 0 .. n : SumTo(g, k) \in Int
                 /\ \A k \in 1 .. n : SumTo(g, k) = SumTo(g, k - 1) + g[k]
      BY <2>1, ByKindFacts
    <2>2. all = ByKind(es, BOOLEAN) /\ some = ByKind(es, {TRUE})
      OBVIOUS
    <2>3. n \in Nat /\ \A k \in 1 .. n : es[k].available \in BOOLEAN /\ es[k].length \in Nat
      BY ByKindFacts
    <2> HIDE DEF all, some, n
    <2>4. /\ SumTo(all, 0) = 0 /\ \A k \in 0 .. n : SumTo(all, k) \in Int
          /\ \A k \in 1 .. n : SumTo(all, k) = SumTo(all, k - 1) + all[k]
      BY <2>1, <2>2, Zenon
    <2>5. /\ SumTo(some, 0) = 0 /\ \A k \in 0 .. n : SumTo(some, k) \in Int
          /\ \A k \in 1 .. n : SumTo(some, k) = SumTo(some, k - 1) + some[k]
      BY <2>1, <2>2, Zenon
    <2> QED
      BY <2>3, <2>4, <2>5
  <1>2. \A k \in 1 .. n : /\ all[k] = es[k].length
                          /\ some[k] = IF es[k].available THEN es[k].length ELSE 0
    <2> SUFFICES ASSUME NEW k \in 1 .. n
                 PROVE  all[k] = es[k].length
                        /\ some[k] = IF es[k].available THEN es[k].length ELSE 0
      OBVIOUS
    <2>1. /\ all[k] = IF es[k].available \in BOOLEAN THEN es[k].length ELSE 0
          /\ some[k] = IF es[k].available \in {TRUE} THEN es[k].length ELSE 0
      BY DEF ByKind
    <2> HIDE DEF all, some
    <2>2. CASE es[k].available = TRUE
      BY <2>1, <2>2
    <2>3. CASE es[k].available = FALSE
      BY <2>1, <2>3
    <2> QED
      BY <1>1, <2>2, <2>3
  <1> HIDE DEF all, some, n
  <1>3. f[0] = x0
    BY <1>1
  <1>4. ASSUME NEW k \in 1 .. n
        PROVE  f[k] = turn(f[k - 1], k)
    <2>1. k - 1 \in 0 .. n /\ k \in 0 .. n
      BY <1>1
    <2>2. /\ f[k] = [raw |-> raw + SumTo(all, k), usable |-> usable + SumTo(some, k)]
          /\ f[k - 1].raw = raw + SumTo(all, k - 1)
          /\ f[k - 1].usable = usable + SumTo(some, k - 1)
      BY <2>1
    <2>3. /\ raw + SumTo(all, k) = raw + SumTo(all, k - 1) + es[k].length
          /\ usable + SumTo(some, k) = usable + SumTo(some, k - 1)
                                       + (IF es[k].available THEN es[k].length ELSE 0)
      BY <1>1, <1>2, <2>1
    <2> HIDE DEF f
    <2> QED
      BY <2>2, <2>3
  <1>5. Obeys(f)
    <2>1. ASSUME NEW k \in 0 .. n PROVE f[k] = IF k = 0 THEN x0 ELSE turn(f[k - 1], k)
      <3>1. CASE k = 0
        BY <1>3, <3>1
      <3>2. CASE k # 0
        <4>1. k \in 1 .. n
          BY <3>2
        <4> HIDE DEF f
        <4> QED
          BY <1>4, <3>2, <4>1
      <3> QED
        BY <3>1, <3>2
    <2>2. f = [k \in 0 .. n |-> f[k]]
      OBVIOUS
    <2> HIDE DEF f, x0
    <2> QED
      BY <2>1, <2>2
  <1>6. Obeys(st)
    <2> HIDE DEF Obeys, f
    <2> QED
      BY <1>5
  <1>7. MapAdded(x0, es) = st[n]
    BY DEF MapAdded, n
  <1> HIDE DEF st, f, x0
  <1> DEFINE Same == {k \in Nat : k <= n => st[k] = f[k]}
  <1>8. 0 \in Same
    BY <1>1, <1>3, <1>6
  <1>9. ASSUME NEW k \in Nat, k \in Same PROVE k + 1 \in Same
    <2>1. CASE k + 1 <= n
      <3>1. k + 1 \in 1 .. n /\ k + 1 \in 0 .. n /\ k + 1 # 0 /\ (k + 1) - 1 = k /\ st[k] = f[k]
        BY <1>1, <1>9, <2>1
      <3>2. st[k + 1] = turn(st[(k + 1) - 1], k + 1)
        BY <1>6, <3>1
      <3>3. f[k + 1] = turn(f[(k + 1) - 1], k + 1)
        BY <1>4, <3>1
      <3> QED
        BY <3>1, <3>2, <3>3
    <2>2. CASE ~ (k + 1 <= n)
      BY <2>2
    <2> QED
      BY <2>1, <2>2
  <1>10. st[n] = f[n]
    <2>1. n \in Same
      <3> HIDE DEF Same
      <3> QED
        BY <1>1, <1>8, <1>9, NatSetInduction
    <2> QED
      BY <1>1, <2>1
  <1>11. f[n] = [raw |-> raw + KindBytes(es, BOOLEAN), usable |-> usable + KindBytes(es, {TRUE})]
    BY <1>1 DEF f, KindBytes, all, some, n
  <1> QED
    BY <1>7, <1>10, <1>11 DEF x0

\* The bytes of each tag that is a memory map, and the sum over the tags seen.
MapBytes(info, kinds) ==
    [k \in 1 .. Len(Walked(info)) |->
        IF info[k].type = "mmap" THEN KindBytes(info[k].entries, kinds) ELSE 0]

RamBytes(info, kinds) == SumTo(MapBytes(info, kinds), Len(Walked(info)))

LEMMA MapBytesFacts ==
    ASSUME NEW info \in Infos, NEW kinds
    PROVE  /\ \A k \in 1 .. Len(Walked(info)) :
                /\ info[k].type = "mmap" => info[k].entries \in MapEntries
                /\ MapBytes(info, kinds)[k]
                     = IF info[k].type = "mmap" THEN KindBytes(info[k].entries, kinds) ELSE 0
                /\ MapBytes(info, kinds)[k] \in Int
           /\ SumTo(MapBytes(info, kinds), 0) = 0
           /\ \A n \in 0 .. Len(Walked(info)) : SumTo(MapBytes(info, kinds), n) \in Int
           /\ \A n \in 1 .. Len(Walked(info)) :
                SumTo(MapBytes(info, kinds), n)
                  = SumTo(MapBytes(info, kinds), n - 1) + MapBytes(info, kinds)[n]
           /\ RamBytes(info, kinds) \in Int
  <1> DEFINE n == Len(Walked(info))
             f == MapBytes(info, kinds)
  <1>1. n \in Nat
    BY WalkedIs
  <1>2. ASSUME NEW k \in 1 .. n, info[k].type = "mmap" PROVE info[k].entries \in MapEntries
    <2>1. info[k] \in Tags
      BY WalkedIs, ElementOfSeq
    <2> QED
      BY <1>2, <2>1, TagFields DEF MapEntries
  <1>3. \A k \in 1 .. n : f[k] = (IF info[k].type = "mmap"
                                  THEN KindBytes(info[k].entries, kinds) ELSE 0)
    BY DEF MapBytes
  <1>4. ASSUME NEW k \in 1 .. n PROVE f[k] \in Int
    <2>1. CASE info[k].type = "mmap"
      <3>1. KindBytes(info[k].entries, kinds) \in Int
        BY <1>2, <2>1, ByKindFacts
      <3> HIDE DEF f, n
      <3> QED
        BY <1>3, <2>1, <3>1
    <2>2. CASE info[k].type # "mmap"
      <3> HIDE DEF f, n
      <3> QED
        BY <1>3, <2>2
    <2> QED
      BY <2>1, <2>2
  <1> HIDE DEF f, n
  <1>5. /\ SumTo(f, 0) = 0
        /\ \A k \in 0 .. n : SumTo(f, k) \in Int
        /\ \A k \in 1 .. n : SumTo(f, k) = SumTo(f, k - 1) + f[k]
    BY <1>1, <1>4, SumToFacts
  <1>6. SumTo(f, n) \in Int
    BY <1>1, <1>5
  <1> QED
    BY <1>2, <1>3, <1>4, <1>5, <1>6 DEF f, n, RamBytes

\* Both loops together.
LEMMA RamIs ==
    ASSUME NEW info \in Infos
    PROVE  /\ mcp_scan_ram(info).ram_mb = RoundedUp(RamBytes(info, {TRUE}))
           /\ mcp_scan_ram(info).ram_mb_raw = RoundedUp(RamBytes(info, BOOLEAN))
           /\ mcp_scan_ram(info).mmap_valid
                = \E k \in 1 .. Len(Walked(info)) : info[k].type = "mmap"
  <1> DEFINE tags == Walked(info)
             n == Len(tags)
             all == MapBytes(info, BOOLEAN)
             some == MapBytes(info, {TRUE})
             x0 == [raw |-> 0, usable |-> 0]
             f == [k \in 0 .. n |-> [raw |-> SumTo(all, k), usable |-> SumTo(some, k)]]
             Obeys(t) == t = [k \in 0 .. n |->
                            IF k = 0 THEN x0
                            ELSE IF tags[k].type = "mmap" THEN MapAdded(t[k - 1], tags[k].entries)
                            ELSE t[k - 1]]
             st == CHOOSE t : Obeys(t)
  <1>1. n \in Nat /\ \A k \in 1 .. n : tags[k] = info[k]
    BY WalkedIs
  <1>2. ASSUME NEW kinds, NEW g, g = MapBytes(info, kinds)
        PROVE  /\ SumTo(g, 0) = 0 /\ \A k \in 0 .. n : SumTo(g, k) \in Int
               /\ \A k \in 1 .. n : SumTo(g, k) = SumTo(g, k - 1) + g[k]
               /\ \A k \in 1 .. n :
                    g[k] = IF info[k].type = "mmap" THEN KindBytes(info[k].entries, kinds) ELSE 0
    BY <1>2, MapBytesFacts
  <1>3. all = MapBytes(info, BOOLEAN) /\ some = MapBytes(info, {TRUE})
    OBVIOUS
  <1>4. ASSUME NEW k \in 1 .. n, info[k].type = "mmap" PROVE info[k].entries \in MapEntries
    BY <1>4, MapBytesFacts
  <1>5. mcp_scan_ram(info)
          = [ram_mb |-> RoundedUp(st[n].usable), ram_mb_raw |-> RoundedUp(st[n].raw),
             mmap_valid |-> \E k \in 1 .. n : tags[k].type = "mmap"]
    BY DEF mcp_scan_ram
  <1> HIDE DEF all, some, n, tags
  <1>6. /\ SumTo(all, 0) = 0 /\ \A k \in 0 .. n : SumTo(all, k) \in Int
        /\ \A k \in 1 .. n : SumTo(all, k) = SumTo(all, k - 1) + all[k]
        /\ \A k \in 1 .. n :
             all[k] = IF info[k].type = "mmap" THEN KindBytes(info[k].entries, BOOLEAN) ELSE 0
    BY <1>2, <1>3, Zenon
  <1>7. /\ SumTo(some, 0) = 0 /\ \A k \in 0 .. n : SumTo(some, k) \in Int
        /\ \A k \in 1 .. n : SumTo(some, k) = SumTo(some, k - 1) + some[k]
        /\ \A k \in 1 .. n :
             some[k] = IF info[k].type = "mmap" THEN KindBytes(info[k].entries, {TRUE}) ELSE 0
    BY <1>2, <1>3, Zenon
  <1>8. f[0] = x0
    BY <1>1, <1>6, <1>7
  <1>9. ASSUME NEW k \in 1 .. n
        PROVE  f[k] = IF tags[k].type = "mmap" THEN MapAdded(f[k - 1], tags[k].entries)
                      ELSE f[k - 1]
    <2> DEFINE raw == SumTo(all, k - 1)
               usable == SumTo(some, k - 1)
               es == info[k].entries
    <2>1. k - 1 \in 0 .. n /\ k \in 0 .. n /\ tags[k] = info[k]
      BY <1>1
    <2>2. /\ f[k] = [raw |-> SumTo(all, k), usable |-> SumTo(some, k)]
          /\ f[k - 1] = [raw |-> raw, usable |-> usable]
      BY <2>1
    <2>3. raw \in Int /\ usable \in Int /\ SumTo(all, k) = raw + all[k]
          /\ SumTo(some, k) = usable + some[k]
      BY <1>6, <1>7, <2>1
    <2> HIDE DEF f, raw, usable
    <2>4. CASE info[k].type = "mmap"
      <3>1. MapAdded([raw |-> raw, usable |-> usable], es)
              = [raw |-> raw + KindBytes(es, BOOLEAN), usable |-> usable + KindBytes(es, {TRUE})]
        BY <1>4, <2>3, <2>4, MapAddedIs
      <3>2. all[k] = KindBytes(es, BOOLEAN) /\ some[k] = KindBytes(es, {TRUE})
        BY <1>6, <1>7, <2>4
      <3> QED
        BY <2>1, <2>2, <2>3, <2>4, <3>1, <3>2
    <2>5. CASE info[k].type # "mmap"
      <3>1. all[k] = 0 /\ some[k] = 0
        BY <1>6, <1>7, <2>5
      <3>2. SumTo(all, k) = raw /\ SumTo(some, k) = usable
        BY <2>3, <3>1
      <3> QED
        BY <2>1, <2>2, <2>5, <3>2
    <2> QED
      BY <2>4, <2>5
  <1>10. Obeys(f)
    <2>1. ASSUME NEW k \in 0 .. n
          PROVE  f[k] = IF k = 0 THEN x0
                        ELSE IF tags[k].type = "mmap" THEN MapAdded(f[k - 1], tags[k].entries)
                        ELSE f[k - 1]
      <3>1. CASE k = 0
        BY <1>8, <3>1
      <3>2. CASE k # 0
        <4>1. k \in 1 .. n
          BY <3>2
        <4> HIDE DEF f
        <4> QED
          BY <1>9, <3>2, <4>1
      <3> QED
        BY <3>1, <3>2
    <2>2. f = [k \in 0 .. n |-> f[k]]
      OBVIOUS
    <2> HIDE DEF f, x0
    <2> QED
      BY <2>1, <2>2
  <1>11. Obeys(st)
    <2> HIDE DEF Obeys, f
    <2> QED
      BY <1>10
  <1> HIDE DEF st, f, x0
  <1> DEFINE Same == {k \in Nat : k <= n => st[k] = f[k]}
  <1>12. 0 \in Same
    BY <1>1, <1>8, <1>11
  <1>13. ASSUME NEW k \in Nat, k \in Same PROVE k + 1 \in Same
    <2>1. CASE k + 1 <= n
      <3>1. k + 1 \in 1 .. n /\ k + 1 \in 0 .. n /\ k + 1 # 0 /\ (k + 1) - 1 = k /\ st[k] = f[k]
        BY <1>1, <1>13, <2>1
      <3>2. st[k + 1] = IF tags[k + 1].type = "mmap"
                        THEN MapAdded(st[(k + 1) - 1], tags[k + 1].entries) ELSE st[(k + 1) - 1]
        BY <1>11, <3>1
      <3>3. f[k + 1] = IF tags[k + 1].type = "mmap"
                       THEN MapAdded(f[(k + 1) - 1], tags[k + 1].entries) ELSE f[(k + 1) - 1]
        BY <1>9, <3>1
      <3> QED
        BY <3>1, <3>2, <3>3
    <2>2. CASE ~ (k + 1 <= n)
      BY <2>2
    <2> QED
      BY <2>1, <2>2
  <1>14. st[n] = f[n]
    <2>1. n \in Same
      <3> HIDE DEF Same
      <3> QED
        BY <1>1, <1>12, <1>13, NatSetInduction
    <2> QED
      BY <1>1, <2>1
  <1>15. st[n].raw = RamBytes(info, BOOLEAN) /\ st[n].usable = RamBytes(info, {TRUE})
    BY <1>1, <1>14 DEF f, RamBytes, all, some, n, tags
  <1>16. (\E k \in 1 .. n : tags[k].type = "mmap") = \E k \in 1 .. n : info[k].type = "mmap"
    BY <1>1
  <1> QED
    BY <1>5, <1>15, <1>16 DEF n, tags

\* The least number of MiB that holds them.
LEMMA RoundedUpIs ==
    ASSUME NEW b \in Int
    PROVE  (RoundedUp(b) - 1) * MiB < b /\ b <= RoundedUp(b) * MiB
  <1> DEFINE a == b + MiB - 1
             q == a \div MiB
  <1>1. MiB \in Nat /\ MiB > 0
    BY McpAssumptions
  <1>2. a \in Int
    BY <1>1
  <1> HIDE DEF a
  <1>3. q \in Int /\ q * MiB <= a /\ a < q * MiB + MiB
    BY <1>1, <1>2, Z3
  <1> HIDE DEF q
  <1>4. (q - 1) * MiB = q * MiB - MiB /\ q * MiB \in Int
    BY <1>1, <1>3
  <1>5. (q - 1) * MiB < b /\ b <= q * MiB
    BY <1>1, <1>3, <1>4 DEF a
  <1> QED
    BY <1>5 DEF RoundedUp, q, a

\* The library's sum over the maps seen.
LEMMA RamBytesIs ==
    ASSUME NEW info \in Infos, NEW kinds,
           NEW maps, maps = {k \in SeenOf(info) : info[k].type = "mmap"}
    PROVE  SumFunction([k \in maps |->
               LET es == info[k].entries
               IN  SumFunction([e \in DOMAIN es |->
                       IF es[e].available \in kinds THEN es[e].length ELSE 0])])
             = RamBytes(info, kinds)
  <1> DEFINE n == Len(Walked(info))
             f == [k \in maps |-> SumFunction([e \in DOMAIN info[k].entries |->
                       IF info[k].entries[e].available \in kinds
                         THEN info[k].entries[e].length ELSE 0])]
             g == [k \in 1 .. n |-> IF k \in maps THEN f[k] ELSE 0]
  <1>1. n \in Nat /\ maps \subseteq 1 .. n
    BY WalkedIs
  <1>2. ASSUME NEW k \in maps PROVE f[k] = KindBytes(info[k].entries, kinds) /\ f[k] \in Int
    <2>1. k \in 1 .. n /\ info[k].type = "mmap"
      BY <1>1
    <2>2. info[k].entries \in MapEntries
      BY <2>1, MapBytesFacts
    <2>3. f[k] = KindBytes(info[k].entries, kinds)
      BY <2>2, KindBytesIs
    <2>4. KindBytes(info[k].entries, kinds) \in Int
      BY <2>2, ByKindFacts
    <2> HIDE DEF f
    <2> QED
      BY <2>3, <2>4
  <1>3. DOMAIN f = maps
    OBVIOUS
  <1>4. \A k \in 1 .. n : k \in maps <=> info[k].type = "mmap"
    BY WalkedIs
  <1> HIDE DEF f, n
  <1>5. SumFunction(f) = SumFunctionOnSet(f, maps)
    BY <1>3 DEF SumFunction
  <1>6. SumFunctionOnSet(f, maps) = SumTo(g, n)
    BY <1>1, <1>2, SumOnSet
  <1>7. g = MapBytes(info, kinds)
    <2>1. \A k \in 1 .. n : g[k] = IF info[k].type = "mmap"
                                     THEN KindBytes(info[k].entries, kinds) ELSE 0
      BY <1>2, <1>4
    <2>2. g = [k \in 1 .. n |-> g[k]]
      OBVIOUS
    <2> HIDE DEF g
    <2> QED
      BY <2>1, <2>2 DEF MapBytes, n
  <1> QED
    BY <1>5, <1>6, <1>7 DEF RamBytes, f, n

\* Memory, framebuffer and modules are those of the tags before the end, whatever tags
\* there are.
THEOREM TagsReadExactly == Spec => []TagsExact
  <1>1. ASSUME CallInv PROVE TagsExact
    <2> SUFFICES ASSUME After("tags") PROVE TagsExact
      BY DEF TagsExact
    <2>1. in \in Infos /\ out = TagsRead(in)
      BY <1>1 DEF CallInv
    <2> DEFINE seen == SeenOf(in)
               maps == {k \in seen : in[k].type = "mmap"}
               Bytes(kinds) == SumFunction([k \in maps |->
                   LET es == in[k].entries
                   IN  SumFunction([e \in DOMAIN es |->
                           IF es[e].available \in kinds THEN es[e].length ELSE 0])])
               Holds(mb, bytes) == (mb - 1) * MiB < bytes /\ bytes <= mb * MiB
               fbs == {k \in seen : in[k].type = "fb"}
               OfName(w) == {k \in seen : /\ in[k].type = "module"
                                          /\ in[k].cmdline # <<>> /\ in[k].cmdline[1] = w}
               First(m, ks) == IF ks = {} THEN m = NoTag ELSE m = in[Min(ks)]
    <2>2. /\ out.ram = mcp_scan_ram(in) /\ out.fb = mcp_scan_fb(in) /\ out.gguf = FirstModule(in)
          /\ out.stf = FindModule(in, <<"stf_model">>) /\ out.initrd = FindModule(in, <<"initrd">>)
      BY <2>1 DEF TagsRead
    <2>3. ASSUME NEW kinds
          PROVE  Bytes(kinds) = RamBytes(in, kinds) /\ Holds(RoundedUp(RamBytes(in, kinds)), Bytes(kinds))
      <3>1. Bytes(kinds) = RamBytes(in, kinds)
        BY <2>1, RamBytesIs
      <3>2. RamBytes(in, kinds) \in Int
        BY <2>1, MapBytesFacts
      <3> HIDE DEF Bytes
      <3> QED
        BY <3>1, <3>2, RoundedUpIs
    <2> HIDE DEF Bytes
    <2>4. Holds(out.ram.ram_mb, Bytes({TRUE})) /\ Holds(out.ram.ram_mb_raw, Bytes(BOOLEAN))
      <3>1. out.ram.ram_mb = RoundedUp(RamBytes(in, {TRUE}))
            /\ out.ram.ram_mb_raw = RoundedUp(RamBytes(in, BOOLEAN))
        BY <2>1, <2>2, RamIs
      <3> HIDE DEF Holds
      <3>2. Holds(RoundedUp(RamBytes(in, {TRUE})), Bytes({TRUE}))
            /\ Holds(RoundedUp(RamBytes(in, BOOLEAN)), Bytes(BOOLEAN))
        BY <2>3, Zenon
      <3> QED
        BY <3>1, <3>2
    <2>5. out.ram.mmap_valid = (maps # {})
      <3>1. out.ram.mmap_valid = \E k \in 1 .. Len(Walked(in)) : in[k].type = "mmap"
        BY <2>1, <2>2, RamIs
      <3>2. seen = 1 .. Len(Walked(in))
        BY <2>1, WalkedIs
      <3>3. (\E k \in 1 .. Len(Walked(in)) : in[k].type = "mmap") <=> maps # {}
        BY <3>2
      <3> QED
        BY <3>1, <3>3
    <2>6. out.fb = IF fbs = {} THEN 0 ELSE in[Min(fbs)].width
      BY <2>1, <2>2, FramebufferIs
    <2>7. First(out.gguf, {k \in seen : in[k].type = "module"})
      BY <2>1, <2>2, ModulesAre
    <2>8. First(out.stf, OfName("stf_model")) /\ First(out.initrd, OfName("initrd"))
      <3>1. ASSUME NEW w PROVE First(FindModule(in, <<w>>), OfName(w))
        BY <2>1, NamedModuleIs
      <3> HIDE DEF First, OfName
      <3> QED
        BY <2>2, <3>1, Zenon
    <2> QED
      BY <2>4, <2>5, <2>6, <2>7, <2>8 DEF TagsExact, SeenOf, Bytes
  <1> QED
    BY <1>1, CallsKept, PTL

------------------------------------------------------------------------------
(***************************************************************************)
(* PCI.  The functions classified and those still to look at have no       *)
(* repetition and are together what answers on the marked buses; what has  *)
(* been classified says what the profile holds.                            *)
(***************************************************************************)
NoRepetition(s) == \A i, j \in 1 .. Len(s) : s[i] = s[j] => i = j

LEMMA AppendSet ==
    ASSUME NEW S, NEW s \in Seq(S), NEW e \in S
    PROVE  /\ Append(s, e) \in Seq(S) /\ Len(Append(s, e)) = Len(s) + 1
           /\ ToSet(Append(s, e)) = ToSet(s) \cup {e}
           /\ NoRepetition(s) /\ e \notin ToSet(s) => NoRepetition(Append(s, e))
  <1> DEFINE a == Append(s, e)
             n == Len(s)
  <1>1. /\ n \in Nat /\ DOMAIN s = 1 .. n /\ a \in Seq(S) /\ Len(a) = n + 1
        /\ \A i \in 1 .. n : a[i] = s[i]
        /\ a[n + 1] = e
    OBVIOUS
  <1>2. DOMAIN a = 1 .. n + 1
    BY <1>1, LenProperties
  <1> HIDE DEF a, n
  <1>3. ToSet(a) = ToSet(s) \cup {e}
    <2>1. \A i \in DOMAIN a : a[i] \in ToSet(s) \cup {e}
      BY <1>1, <1>2 DEF ToSet
    <2>2. \A i \in DOMAIN s : s[i] \in ToSet(a)
      <3>1. ASSUME NEW i \in DOMAIN s PROVE s[i] \in ToSet(a)
        <4>1. i \in DOMAIN a /\ a[i] = s[i]
          BY <1>1, <1>2
        <4> QED
          BY <4>1 DEF ToSet
      <3> QED
        BY <3>1
    <2>3. e \in ToSet(a)
      <3>1. n + 1 \in DOMAIN a
        BY <1>1, <1>2
      <3> QED
        BY <1>1, <3>1 DEF ToSet
    <2> QED
      BY <2>1, <2>2, <2>3 DEF ToSet
  <1>4. ASSUME NoRepetition(s), e \notin ToSet(s),
               NEW i \in 1 .. n + 1, NEW j \in 1 .. n + 1, a[i] = a[j]
        PROVE  i = j
    <2>1. \A k \in 1 .. n : a[k] # e
      BY <1>1, <1>4 DEF ToSet
    <2>2. CASE i \in 1 .. n /\ j \in 1 .. n
      BY <1>1, <1>4, <2>2 DEF NoRepetition, n
    <2>3. CASE ~ (i \in 1 .. n /\ j \in 1 .. n)
      BY <1>1, <1>4, <2>1, <2>3
    <2> QED
      BY <2>2, <2>3
  <1> QED
    BY <1>1, <1>3, <1>4 DEF NoRepetition, a, n

LEMMA HeadTailSet ==
    ASSUME NEW S, NEW s \in Seq(S), s # <<>>
    PROVE  /\ Head(s) \in S /\ Tail(s) \in Seq(S)
           /\ ToSet(s) = {Head(s)} \cup ToSet(Tail(s))
           /\ NoRepetition(s) => Head(s) \notin ToSet(Tail(s)) /\ NoRepetition(Tail(s))
  <1> DEFINE t == Tail(s)
             h == Head(s)
             n == Len(s)
  <1>1. /\ n \in Nat /\ n >= 1 /\ DOMAIN s = 1 .. n /\ h = s[1] /\ h \in S
        /\ t \in Seq(S) /\ Len(t) = n - 1
        /\ \A i \in 1 .. n - 1 : t[i] = s[i + 1]
    BY HeadTailProperties, EmptySeq, LenProperties
  <1>2. DOMAIN t = 1 .. n - 1
    BY <1>1, LenProperties
  <1> HIDE DEF t, h, n
  <1>3. ToSet(s) = {h} \cup ToSet(t)
    <2>1. ASSUME NEW i \in DOMAIN s PROVE s[i] \in {h} \cup ToSet(t)
      <3>1. CASE i = 1
        BY <1>1, <3>1
      <3>2. CASE i # 1
        <4>1. i - 1 \in DOMAIN t /\ t[i - 1] = s[i]
          BY <1>1, <1>2, <3>2
        <4> QED
          BY <4>1 DEF ToSet
      <3> QED
        BY <3>1, <3>2
    <2>2. ASSUME NEW i \in DOMAIN t PROVE t[i] \in ToSet(s)
      <3>1. i + 1 \in DOMAIN s /\ t[i] = s[i + 1]
        BY <1>1, <1>2
      <3> QED
        BY <3>1 DEF ToSet
    <2>3. h \in ToSet(s)
      <3>1. 1 \in DOMAIN s
        BY <1>1
      <3> QED
        BY <1>1, <3>1 DEF ToSet
    <2> QED
      BY <2>1, <2>2, <2>3 DEF ToSet
  <1>4. ASSUME NoRepetition(s) PROVE h \notin ToSet(t) /\ NoRepetition(t)
    <2>1. \A i, j \in 1 .. n : s[i] = s[j] => i = j
      BY <1>4 DEF NoRepetition, n
    <2>2. \A i \in 1 .. n - 1 : i + 1 \in 1 .. n /\ 1 \in 1 .. n /\ i + 1 # 1
      BY <1>1
    <2>3. h \notin ToSet(t)
      BY <1>1, <1>2, <2>1, <2>2 DEF ToSet
    <2>4. ASSUME NEW i \in 1 .. n - 1, NEW j \in 1 .. n - 1, t[i] = t[j] PROVE i = j
      <3>1. i + 1 = j + 1
        BY <1>1, <2>1, <2>2, <2>4
      <3> QED
        BY <1>1, <3>1
    <2> QED
      BY <1>1, <2>3, <2>4 DEF NoRepetition
  <1> QED
    BY <1>1, <1>3, <1>4 DEF t, h

LEMMA ConcatSet ==
    ASSUME NEW S, NEW s \in Seq(S), NEW t \in Seq(S)
    PROVE  /\ s \o t \in Seq(S)
           /\ ToSet(s \o t) = ToSet(s) \cup ToSet(t)
           /\ NoRepetition(s) /\ NoRepetition(t) /\ ToSet(s) \cap ToSet(t) = {}
                => NoRepetition(s \o t)
  <1> DEFINE a == s \o t
             m == Len(s)
             n == Len(t)
  <1>1. /\ m \in Nat /\ n \in Nat /\ DOMAIN s = 1 .. m /\ DOMAIN t = 1 .. n
        /\ a \in Seq(S) /\ Len(a) = m + n
        /\ \A i \in 1 .. m + n : a[i] = IF i <= m THEN s[i] ELSE t[i - m]
    BY ConcatProperties, LenProperties
  <1>2. DOMAIN a = 1 .. m + n
    BY <1>1, LenProperties
  <1> HIDE DEF a, m, n
  <1>3. ToSet(a) = ToSet(s) \cup ToSet(t)
    <2>1. ASSUME NEW i \in DOMAIN a PROVE a[i] \in ToSet(s) \cup ToSet(t)
      <3>1. CASE i <= m
        <4>1. i \in DOMAIN s /\ a[i] = s[i]
          BY <1>1, <1>2, <3>1
        <4> QED
          BY <4>1 DEF ToSet
      <3>2. CASE ~ (i <= m)
        <4>1. i - m \in DOMAIN t /\ a[i] = t[i - m]
          BY <1>1, <1>2, <3>2
        <4> QED
          BY <4>1 DEF ToSet
      <3> QED
        BY <3>1, <3>2
    <2>2. ASSUME NEW i \in DOMAIN s PROVE s[i] \in ToSet(a)
      <3>1. i \in DOMAIN a /\ a[i] = s[i]
        BY <1>1, <1>2
      <3> QED
        BY <3>1 DEF ToSet
    <2>3. ASSUME NEW i \in DOMAIN t PROVE t[i] \in ToSet(a)
      <3>1. m + i \in DOMAIN a /\ a[m + i] = t[i]
        <4>1. m + i \in 1 .. m + n /\ ~ (m + i <= m) /\ (m + i) - m = i
          BY <1>1
        <4> QED
          BY <1>1, <1>2, <4>1
      <3> QED
        BY <3>1 DEF ToSet
    <2> QED
      BY <2>1, <2>2, <2>3 DEF ToSet
  <1>4. ASSUME NoRepetition(s), NoRepetition(t), ToSet(s) \cap ToSet(t) = {},
               NEW i \in 1 .. m + n, NEW j \in 1 .. m + n, a[i] = a[j]
        PROVE  i = j
    <2>1. /\ \A x, y \in 1 .. m : s[x] = s[y] => x = y
          /\ \A x, y \in 1 .. n : t[x] = t[y] => x = y
      BY <1>4 DEF NoRepetition, m, n
    <2>2. \A x \in 1 .. m, y \in 1 .. n : s[x] # t[y]
      BY <1>1, <1>4 DEF ToSet
    <2>3. CASE i <= m /\ j <= m
      <3>1. i \in 1 .. m /\ j \in 1 .. m /\ s[i] = s[j]
        BY <1>1, <1>4, <2>3
      <3> QED
        BY <2>1, <3>1
    <2>4. CASE ~ (i <= m) /\ ~ (j <= m)
      <3>1. i - m \in 1 .. n /\ j - m \in 1 .. n /\ t[i - m] = t[j - m]
        BY <1>1, <1>4, <2>4
      <3>2. i - m = j - m
        BY <2>1, <3>1
      <3> QED
        BY <1>1, <3>2
    <2>5. CASE i <= m /\ ~ (j <= m)
      <3>1. i \in 1 .. m /\ j - m \in 1 .. n /\ s[i] = t[j - m]
        BY <1>1, <1>4, <2>5
      <3> QED
        BY <2>2, <3>1
    <2>6. CASE ~ (i <= m) /\ j <= m
      <3>1. j \in 1 .. m /\ i - m \in 1 .. n /\ s[j] = t[i - m]
        BY <1>1, <1>4, <2>6
      <3> QED
        BY <2>2, <3>1
    <2> QED
      BY <2>3, <2>4, <2>5, <2>6
  <1> QED
    BY <1>1, <1>3, <1>4 DEF NoRepetition, a

\* What answers, and what of it is on the buses B.
Answering(pci) == {at \in DOMAIN pci : Answers(pci, at)}
OnBuses(pci, B) == {at \in Answering(pci) : at[1] \in B}

LEMMA PciFacts ==
    ASSUME NEW pci \in Pcis
    PROVE  /\ IsFiniteSet(DOMAIN pci)
           /\ \A at \in DOMAIN pci :
                /\ at = <<at[1], at[2], at[3]>>
                /\ at[1] \in Buses /\ at[2] \in 0 .. Devices - 1 /\ at[3] \in 0 .. Functions - 1
                /\ pci[at].class \in STRING /\ pci[at].bar \in Nat /\ pci[at].bridge \in BOOLEAN
                /\ pci[at].secondary \in Buses
  <1> DEFINE A == 0 .. Devices - 1
             B == 0 .. Functions - 1
             AB == A \X B
             All == Buses \X A \X B
             f == [p \in Buses \X AB |-> <<p[1], p[2][1], p[2][2]>>]
  <1>1. Devices \in Nat /\ Functions \in Nat
    BY McpAssumptions
  <1>2. IsFiniteSet(Buses) /\ IsFiniteSet(A) /\ IsFiniteSet(B)
    <2>1. 0 \in Int /\ 255 \in Int /\ Devices - 1 \in Int /\ Functions - 1 \in Int
      BY <1>1
    <2> QED
      BY <2>1, FS_Interval DEF Buses
  <1>3. IsFiniteSet(Buses \X AB)
    <2>1. IsFiniteSet(AB)
      BY <1>2, FS_Product
    <2> QED
      BY <1>2, <2>1, FS_Product
  <1> HIDE DEF A, B
  <1>4. f \in Surjection(Buses \X AB, All)
    <2>1. f \in [Buses \X AB -> All]
      OBVIOUS
    <2>2. ASSUME NEW t \in All PROVE \E p \in Buses \X AB : f[p] = t
      <3>1. <<t[1], <<t[2], t[3]>>>> \in Buses \X AB
        BY <2>2
      <3>2. f[<<t[1], <<t[2], t[3]>>>>] = t
        BY <2>2, <3>1
      <3> QED
        BY <3>1, <3>2
    <2> HIDE DEF f
    <2> QED
      BY <2>1, <2>2 DEF Surjection
  <1>5. IsFiniteSet(All)
    <2> HIDE DEF f, All, AB
    <2> QED
      BY <1>3, <1>4, FS_Surjection
  <1>6. DOMAIN pci \subseteq All /\ \A at \in DOMAIN pci : pci[at] \in Registers
    BY PciAssumption DEF A, B
  <1>7. IsFiniteSet(DOMAIN pci)
    <2> HIDE DEF All
    <2> QED
      BY <1>5, <1>6, FS_Subset
  <1>8. ASSUME NEW at \in All
        PROVE  at = <<at[1], at[2], at[3]>> /\ at[1] \in Buses /\ at[2] \in A /\ at[3] \in B
    OBVIOUS
  <1>9. ASSUME NEW r \in Registers
        PROVE  r.class \in STRING /\ r.bar \in Nat /\ r.bridge \in BOOLEAN /\ r.secondary \in Buses
    BY DEF Registers
  <1> HIDE DEF All
  <1> QED
    BY <1>6, <1>7, <1>8, <1>9 DEF A, B

\* The k-th place of a bus: every device and function once.
Place(bus, k) == <<bus, (k - 1) \div Functions, (k - 1) % Functions>>

LEMMA PlacesAre ==
    ASSUME NEW bus
    PROVE  /\ Devices * Functions \in Nat
           /\ \A j \in 1 .. Devices * Functions, k \in 1 .. Devices * Functions :
                Place(bus, j) = Place(bus, k) => j = k
           /\ \A d \in 0 .. Devices - 1, f \in 0 .. Functions - 1 :
                \E k \in 1 .. Devices * Functions : Place(bus, k) = <<bus, d, f>>
  <1> DEFINE n == Devices * Functions
  <1>1. Devices \in Nat \ {0} /\ Functions \in Nat \ {0} /\ n \in Nat
    BY McpAssumptions
  <1> DEFINE q(k) == (k - 1) \div Functions
             r(k) == (k - 1) % Functions
  <1>2. ASSUME NEW k \in 1 .. n
        PROVE  q(k) \in Int /\ r(k) \in 0 .. Functions - 1 /\ k - 1 = Functions * q(k) + r(k)
    <2>1. k - 1 \in Nat
      BY <1>1
    <2> HIDE DEF n
    <2> QED
      BY <1>1, <2>1
  <1>3. ASSUME NEW j \in 1 .. n, NEW k \in 1 .. n, Place(bus, j) = Place(bus, k)
        PROVE  j = k
    <2>1. q(j) = q(k) /\ r(j) = r(k)
      BY <1>3 DEF Place
    <2>2. j - 1 = k - 1
      <3> HIDE DEF q, r, n
      <3> QED
        BY <1>2, <2>1
    <2> HIDE DEF n
    <2> QED
      BY <1>1, <2>2
  <1>4. ASSUME NEW d \in 0 .. Devices - 1, NEW f \in 0 .. Functions - 1
        PROVE  \E k \in 1 .. n : Place(bus, k) = <<bus, d, f>>
    <2> DEFINE m == d * Functions + f
    <2>1. d \in Nat /\ f \in Nat /\ d < Devices /\ f < Functions /\ m \in Nat
      BY <1>1
    <2>2. m \div Functions = d /\ m % Functions = f
      BY <1>1, <2>1, Position
    <2>3. d * Functions + Functions <= n
      BY <1>1, <2>1, NextMultiple
    <2>4. d * Functions \in Nat
      BY <1>1, <2>1
    <2>5. m + 1 \in 1 .. n
      <3> HIDE DEF n
      <3> QED
        BY <1>1, <2>1, <2>3, <2>4
    <2>6. (m + 1) - 1 = m
      BY <2>1
    <2> HIDE DEF m, n
    <2>7. Place(bus, m + 1) = <<bus, d, f>>
      BY <2>2, <2>6 DEF Place
    <2> QED
      BY <2>5, <2>7
  <1> QED
    BY <1>1, <1>3, <1>4

LEMMA FunctionsAre ==
    ASSUME NEW pci \in Pcis, NEW bus \in Buses
    PROVE  /\ FunctionsOf(pci, bus) \in Seq(DOMAIN pci)
           /\ NoRepetition(FunctionsOf(pci, bus))
           /\ ToSet(FunctionsOf(pci, bus)) = OnBuses(pci, {bus})
  <1> DEFINE n == Devices * Functions
             D == DOMAIN pci
             Obeys(t) == t = [k \in 0 .. n |->
                 IF k = 0 THEN <<>>
                 ELSE IF Answers(pci, Place(bus, k)) THEN Append(t[k - 1], Place(bus, k))
                 ELSE t[k - 1]]
             s == CHOOSE t : Obeys(t)
             step == [k \in 1 .. n |-> [x \in Seq(D) |->
                 IF Answers(pci, Place(bus, k)) THEN Append(x, Place(bus, k)) ELSE x]]
  <1>1. FunctionsOf(pci, bus) = s[n]
    BY DEF FunctionsOf, Place
  <1>2. n \in Nat
    BY PlacesAre
  <1>3. \A k \in 1 .. n : Answers(pci, Place(bus, k)) => Place(bus, k) \in D
    BY DEF Answers
  <1>4. step \in [1 .. n -> [Seq(D) -> Seq(D)]]
    <2>1. ASSUME NEW k \in 1 .. n, NEW x \in Seq(D), Answers(pci, Place(bus, k))
          PROVE  Append(x, Place(bus, k)) \in Seq(D)
      <3> HIDE DEF n, D
      <3> QED
        BY <1>3, <2>1, AppendSet
    <2> HIDE DEF n, D
    <2> QED
      BY <2>1
  <1> HIDE DEF n
  <1>5. \E t : Obeys(t)
    <2>1. <<>> \in Seq(D)
      OBVIOUS
    <2>2. PICK f \in [0 .. n -> Seq(D)] : Iterates(f, n, <<>>, step)
      <3> HIDE DEF step, D
      <3> QED
        BY <1>2, <1>4, <2>1, RecursionExists, Zenon
    <2>3. ASSUME NEW k \in 0 .. n
          PROVE  f[k] = IF k = 0 THEN <<>>
                        ELSE IF Answers(pci, Place(bus, k)) THEN Append(f[k - 1], Place(bus, k))
                        ELSE f[k - 1]
      <3>1. CASE k = 0
        BY <2>2, <3>1 DEF Iterates
      <3>2. CASE k # 0
        <4>1. k \in 1 .. n /\ k - 1 \in 0 .. n
          BY <1>2, <3>2
        <4>2. f[k - 1] \in Seq(D)
          BY <2>2, <4>1
        <4>3. f[k] = step[k][f[k - 1]]
          <5> HIDE DEF step
          <5> QED
            BY <2>2, <4>1 DEF Iterates
        <4> QED
          BY <3>2, <4>1, <4>2, <4>3
      <3> QED
        BY <3>1, <3>2
    <2>4. f = [k \in 0 .. n |-> f[k]]
      BY <2>2
    <2>5. Obeys(f)
      <3> HIDE DEF step
      <3> QED
        BY <2>3, <2>4
    <2> HIDE DEF Obeys
    <2> QED
      BY <2>5
  <1>6. Obeys(s)
    <2> HIDE DEF Obeys
    <2> QED
      BY <1>5
  <1> HIDE DEF s, step
  <1>7. /\ s[0] = <<>>
        /\ \A k \in 1 .. n : s[k] = IF Answers(pci, Place(bus, k))
                                    THEN Append(s[k - 1], Place(bus, k)) ELSE s[k - 1]
    <2>1. 0 \in 0 .. n /\ \A k \in 1 .. n : k \in 0 .. n /\ k # 0
      BY <1>2
    <2>2. \A k \in 0 .. n :
             s[k] = IF k = 0 THEN <<>>
                    ELSE IF Answers(pci, Place(bus, k)) THEN Append(s[k - 1], Place(bus, k))
                    ELSE s[k - 1]
      BY <1>6
    <2>3. ASSUME NEW k \in 1 .. n
          PROVE  s[k] = IF Answers(pci, Place(bus, k))
                        THEN Append(s[k - 1], Place(bus, k)) ELSE s[k - 1]
      <3>1. k \in 0 .. n /\ k # 0
        BY <2>1
      <3> HIDE DEF Obeys
      <3> QED
        BY <2>2, <3>1
    <2> HIDE DEF Obeys
    <2>4. s[0] = <<>>
      BY <2>1, <2>2
    <2> QED
      BY <2>3, <2>4
  <1> HIDE DEF Obeys, D
  <1> DEFINE Upto(k) == {Place(bus, j) : j \in {i \in 1 .. k : Answers(pci, Place(bus, i))}}
             Good == {k \in Nat : k <= n =>
                        s[k] \in Seq(D) /\ NoRepetition(s[k]) /\ ToSet(s[k]) = Upto(k)}
  <1>8. 0 \in Good
    <2>1. <<>> \in Seq(D) /\ NoRepetition(<<>>) /\ ToSet(<<>>) = {}
      BY DEF NoRepetition, ToSet
    <2>2. Upto(0) = {}
      OBVIOUS
    <2> QED
      BY <1>7, <2>1, <2>2
  <1>9. ASSUME NEW k \in Nat, k \in Good PROVE k + 1 \in Good
    <2> SUFFICES ASSUME k + 1 <= n
                 PROVE  /\ s[k + 1] \in Seq(D) /\ NoRepetition(s[k + 1])
                        /\ ToSet(s[k + 1]) = Upto(k + 1)
      OBVIOUS
    <2> DEFINE p == Place(bus, k + 1)
    <2>1. s[k] \in Seq(D) /\ NoRepetition(s[k]) /\ ToSet(s[k]) = Upto(k)
      BY <1>2, <1>9
    <2>2. k + 1 \in 1 .. n /\ (k + 1) - 1 = k
      BY <1>2
    <2>3. s[k + 1] = IF Answers(pci, p) THEN Append(s[k], p) ELSE s[k]
      BY <1>7, <2>2
    <2>4. Upto(k + 1) = Upto(k) \cup (IF Answers(pci, p) THEN {p} ELSE {})
      <3>1. 1 .. k + 1 = (1 .. k) \cup {k + 1}
        BY <1>9
      <3> QED
        BY <3>1
    <2>5. p \notin Upto(k)
      <3>1. \A j \in 1 .. k : j \in 1 .. n /\ j # k + 1
        BY <1>2, <2>2
      <3>2. \A j \in 1 .. k : Place(bus, j) # p
        BY <2>2, <3>1, PlacesAre DEF n
      <3> QED
        BY <3>2
    <2>6. CASE Answers(pci, p)
      <3>1. p \in D
        BY <1>3, <2>2, <2>6
      <3> HIDE DEF p, Upto
      <3>2. Append(s[k], p) \in Seq(D) /\ NoRepetition(Append(s[k], p))
            /\ ToSet(Append(s[k], p)) = ToSet(s[k]) \cup {p}
        BY <2>1, <2>5, <3>1, AppendSet
      <3> QED
        BY <2>1, <2>3, <2>4, <2>6, <3>2
    <2>7. CASE ~ Answers(pci, p)
      <3> HIDE DEF p, Upto
      <3> QED
        BY <2>1, <2>3, <2>4, <2>7
    <2> QED
      BY <2>6, <2>7
  <1>10. s[n] \in Seq(D) /\ NoRepetition(s[n]) /\ ToSet(s[n]) = Upto(n)
    <2>1. n \in Good
      <3> HIDE DEF Good
      <3> QED
        BY <1>2, <1>8, <1>9, NatSetInduction
    <2> HIDE DEF Upto
    <2> QED
      BY <1>2, <2>1
  <1>11. Upto(n) = OnBuses(pci, {bus})
    <2>1. ASSUME NEW k \in 1 .. n, Answers(pci, Place(bus, k))
          PROVE  Place(bus, k) \in OnBuses(pci, {bus})
      <3>1. Place(bus, k)[1] = bus
        BY DEF Place
      <3> QED
        BY <1>3, <2>1, <3>1 DEF OnBuses, Answering, D
    <2>2. ASSUME NEW at \in OnBuses(pci, {bus}) PROVE at \in Upto(n)
      <3>1. /\ at \in DOMAIN pci /\ Answers(pci, at) /\ at[1] = bus
        BY <2>2 DEF OnBuses, Answering
      <3>2. /\ at = <<bus, at[2], at[3]>> /\ at[2] \in 0 .. Devices - 1
            /\ at[3] \in 0 .. Functions - 1
        BY <3>1, PciFacts
      <3>3. PICK k \in 1 .. n : Place(bus, k) = at
        BY <3>2, PlacesAre DEF n
      <3> QED
        BY <3>1, <3>3
    <2> QED
      BY <2>1, <2>2
  <1> QED
    BY <1>1, <1>10, <1>11 DEF D

ScanStates(pci) ==
    [visited : SUBSET Buses, todo : Seq(DOMAIN pci), found : Seq(DOMAIN pci),
     gpu : {"none", "integrated", "multi"}, gpu_at : DOMAIN pci \cup {<<>>}, has : SUBSET STRING,
     storage_count : Nat, ahci_bar5 : Nat, ata_iobase : Nat]

OfClasses(pci, F, cs) == {at \in F : pci[at].class \in cs}

\* What the profile says of the functions classified so far.
Summed(pci, s) ==
    LET F == ToSet(s.found)
        displays == Cardinality(OfClasses(pci, F, {"display"}))
        disks == OfClasses(pci, F, {"ahci"})
    IN  /\ s.has = {pci[at].class : at \in F}
        /\ s.gpu = (IF displays = 0 THEN "none" ELSE IF displays = 1 THEN "integrated" ELSE "multi")
        /\ s.storage_count = Cardinality(OfClasses(pci, F, {"ahci", "nvme"})) % CountByte
        /\ s.ahci_bar5 \in {pci[at].bar : at \in disks} \cup {0}
        /\ s.ahci_bar5 = 0 => \A at \in disks : pci[at].bar = 0
        /\ s.ata_iobase = LegacyAta

LEMMA ClassifiedIs ==
    ASSUME NEW pci \in Pcis, NEW s \in ScanStates(pci), NEW at \in DOMAIN pci,
           NEW c, c = _pci_classify(s, pci, at), NEW class, class = pci[at].class
    PROVE  /\ c \in ScanStates(pci)
           /\ c.visited = s.visited /\ c.todo = s.todo /\ c.found = Append(s.found, at)
           /\ c.has = s.has \cup {class}
           /\ c.gpu = IF class # "display" THEN s.gpu
                      ELSE IF s.gpu = "none" THEN "integrated" ELSE "multi"
           /\ c.storage_count = IF class \in {"ahci", "nvme"}
                                THEN (s.storage_count + 1) % CountByte ELSE s.storage_count
           /\ c.ahci_bar5 = IF class = "ahci" /\ s.ahci_bar5 = 0 THEN pci[at].bar ELSE s.ahci_bar5
           /\ s.ata_iobase # 0 => c.ata_iobase = s.ata_iobase
  <1> DEFINE D == DOMAIN pci
             found1 == Append(s.found, at)
             gpu1 == IF class # "display" THEN s.gpu
                     ELSE IF s.gpu = "none" THEN "integrated" ELSE "multi"
             gpu_at1 == IF class = "display" /\ s.gpu = "none" THEN at ELSE s.gpu_at
             has1 == s.has \cup {class}
             count1 == IF class \in {"ahci", "nvme"} THEN (s.storage_count + 1) % CountByte
                       ELSE s.storage_count
             bar1 == IF class = "ahci" /\ s.ahci_bar5 = 0 THEN pci[at].bar ELSE s.ahci_bar5
             io1 == IF class # "ide" \/ s.ata_iobase # 0 THEN s.ata_iobase
                    ELSE IF pci[at].bar = 0 THEN LegacyAta ELSE pci[at].bar
             r == [s EXCEPT !.found = found1, !.gpu = gpu1, !.gpu_at = gpu_at1, !.has = has1,
                            !.storage_count = count1, !.ahci_bar5 = bar1, !.ata_iobase = io1]
  <1>1. s \in ScanStates(pci) /\ at \in D /\ class = pci[at].class /\ c = _pci_classify(s, pci, at)
    OBVIOUS
  <1>2. pci[at].bar \in Nat /\ class \in STRING
    BY PciFacts
  <1>3. c = r
    BY <1>1 DEF _pci_classify
  <1>4. /\ found1 \in Seq(D) /\ gpu1 \in {"none", "integrated", "multi"}
        /\ gpu_at1 \in D \cup {<<>>} /\ has1 \in SUBSET STRING
        /\ count1 \in Nat /\ bar1 \in Nat /\ io1 \in Nat
    <2>1. /\ s.found \in Seq(D) /\ s.gpu \in {"none", "integrated", "multi"}
          /\ s.gpu_at \in D \cup {<<>>} /\ s.has \in SUBSET STRING /\ s.storage_count \in Nat
          /\ s.ahci_bar5 \in Nat /\ s.ata_iobase \in Nat
      BY <1>1 DEF ScanStates
    <2>2. found1 \in Seq(D)
      BY <1>1, <2>1, AppendSet
    <2>3. (s.storage_count + 1) % CountByte \in Nat /\ LegacyAta \in Nat
      BY <2>1 DEF CountByte, LegacyAta
    <2> HIDE DEF D, found1
    <2> QED
      BY <1>1, <1>2, <2>1, <2>2, <2>3
  <1> HIDE DEF found1, gpu1, gpu_at1, has1, count1, bar1, io1
  <1>5. /\ r \in ScanStates(pci)
        /\ r.visited = s.visited /\ r.todo = s.todo /\ r.found = found1 /\ r.has = has1
        /\ r.gpu = gpu1 /\ r.storage_count = count1 /\ r.ahci_bar5 = bar1 /\ r.ata_iobase = io1
    BY <1>1, <1>4 DEF ScanStates
  <1>6. s.ata_iobase # 0 => io1 = s.ata_iobase
    BY DEF io1
  <1> HIDE DEF r
  <1> QED
    BY <1>3, <1>5, <1>6 DEF found1, gpu1, has1, count1, bar1

\* One more function, which was not among those before.
LEMMA SummedKept ==
    ASSUME NEW pci \in Pcis, NEW s \in ScanStates(pci), NEW at \in DOMAIN pci,
           at \notin ToSet(s.found), Summed(pci, s)
    PROVE  Summed(pci, _pci_classify(s, pci, at))
  <1> DEFINE c == _pci_classify(s, pci, at)
             class == pci[at].class
             F == ToSet(s.found)
             G == ToSet(c.found)
             Part(T, cs) == OfClasses(pci, T, cs)
  <1>1. /\ c.found = Append(s.found, at)
        /\ c.has = s.has \cup {class}
        /\ c.gpu = IF class # "display" THEN s.gpu
                   ELSE IF s.gpu = "none" THEN "integrated" ELSE "multi"
        /\ c.storage_count = IF class \in {"ahci", "nvme"}
                             THEN (s.storage_count + 1) % CountByte ELSE s.storage_count
        /\ c.ahci_bar5 = IF class = "ahci" /\ s.ahci_bar5 = 0 THEN pci[at].bar ELSE s.ahci_bar5
        /\ s.ata_iobase # 0 => c.ata_iobase = s.ata_iobase
    BY ClassifiedIs
  <1>2. s.found \in Seq(DOMAIN pci)
    BY DEF ScanStates
  <1>3. G = F \cup {at} /\ at \notin F /\ F \subseteq DOMAIN pci
    <2>1. ToSet(s.found) \subseteq DOMAIN pci
      BY <1>2 DEF ToSet
    <2> QED
      BY <1>1, <1>2, <2>1, AppendSet
  <1>4. ASSUME NEW cs
        PROVE  /\ IsFiniteSet(Part(F, cs)) /\ Cardinality(Part(F, cs)) \in Nat
               /\ Part(G, cs) = IF class \in cs THEN Part(F, cs) \cup {at} ELSE Part(F, cs)
               /\ Cardinality(Part(G, cs)) = IF class \in cs THEN Cardinality(Part(F, cs)) + 1
                                             ELSE Cardinality(Part(F, cs))
               /\ Cardinality(Part(F, cs)) = 0 <=> Part(F, cs) = {}
    <2>1. Part(F, cs) \subseteq DOMAIN pci /\ at \notin Part(F, cs)
      BY <1>3 DEF OfClasses
    <2>2. IsFiniteSet(Part(F, cs)) /\ Cardinality(Part(F, cs)) \in Nat
      BY <2>1, PciFacts, FS_Subset, FS_CardinalityType
    <2>3. Part(G, cs) = IF class \in cs THEN Part(F, cs) \cup {at} ELSE Part(F, cs)
      BY <1>3 DEF OfClasses
    <2> HIDE DEF Part, F, G
    <2>4. Cardinality(Part(F, cs) \cup {at}) = Cardinality(Part(F, cs)) + 1
      BY <2>1, <2>2, FS_AddElement
    <2> QED
      BY <2>2, <2>3, <2>4, FS_EmptySet
  <1>5. /\ s.has = {pci[x].class : x \in F}
        /\ s.gpu = (IF Cardinality(Part(F, {"display"})) = 0 THEN "none"
                    ELSE IF Cardinality(Part(F, {"display"})) = 1 THEN "integrated" ELSE "multi")
        /\ s.storage_count = Cardinality(Part(F, {"ahci", "nvme"})) % CountByte
        /\ s.ahci_bar5 \in {pci[x].bar : x \in Part(F, {"ahci"})} \cup {0}
        /\ s.ahci_bar5 = 0 => \A x \in Part(F, {"ahci"}) : pci[x].bar = 0
        /\ s.ata_iobase = LegacyAta
    BY DEF Summed
  <1> HIDE DEF c, F, G
  <1>6. c.has = {pci[x].class : x \in G}
    BY <1>1, <1>3, <1>5
  <1> HIDE DEF Part
  <1>7. c.gpu = (IF Cardinality(Part(G, {"display"})) = 0 THEN "none"
                 ELSE IF Cardinality(Part(G, {"display"})) = 1 THEN "integrated" ELSE "multi")
    <2> DEFINE n == Cardinality(Part(F, {"display"}))
               k == Cardinality(Part(G, {"display"}))
    <2>1. n \in Nat /\ k = IF class = "display" THEN n + 1 ELSE n
      <3>1. class \in {"display"} <=> class = "display"
        OBVIOUS
      <3> HIDE DEF class
      <3> QED
        BY <1>4, <3>1
    <2> HIDE DEF n, k, class
    <2> QED
      BY <1>1, <1>5, <2>1 DEF n, k
  <1>8. c.storage_count = Cardinality(Part(G, {"ahci", "nvme"})) % CountByte
    <2> DEFINE n == Cardinality(Part(F, {"ahci", "nvme"}))
               k == Cardinality(Part(G, {"ahci", "nvme"}))
    <2>1. n \in Nat /\ k = IF class \in {"ahci", "nvme"} THEN n + 1 ELSE n
      <3> HIDE DEF class
      <3> QED
        BY <1>4, Zenon
    <2>2. s.storage_count = n % CountByte
      BY <1>5
    <2> HIDE DEF n, k, class
    <2>3. ((n % CountByte) + 1) % CountByte = (n + 1) % CountByte
      BY <2>1 DEF CountByte
    <2>4. c.storage_count = k % CountByte
      BY <1>1, <2>1, <2>2, <2>3
    <2> QED
      BY <2>4 DEF k
  <1>9. /\ c.ahci_bar5 \in {pci[x].bar : x \in Part(G, {"ahci"})} \cup {0}
        /\ c.ahci_bar5 = 0 => \A x \in Part(G, {"ahci"}) : pci[x].bar = 0
    <2> DEFINE P == Part(F, {"ahci"})
               Q == Part(G, {"ahci"})
    <2>1. Q = IF class = "ahci" THEN P \cup {at} ELSE P
      <3>1. class \in {"ahci"} <=> class = "ahci"
        OBVIOUS
      <3> HIDE DEF class
      <3> QED
        BY <1>4, <3>1
    <2>2. /\ s.ahci_bar5 \in {pci[x].bar : x \in P} \cup {0}
          /\ s.ahci_bar5 = 0 => \A x \in P : pci[x].bar = 0
      BY <1>5
    <2> HIDE DEF P, Q, class
    <2>3. /\ c.ahci_bar5 \in {pci[x].bar : x \in Q} \cup {0}
          /\ c.ahci_bar5 = 0 => \A x \in Q : pci[x].bar = 0
      BY <1>1, <2>1, <2>2
    <2> QED
      BY <2>3 DEF Q
  <1>10. c.ata_iobase = LegacyAta
    BY <1>1, <1>5 DEF LegacyAta
  <1>11. Summed(pci, c)
    BY <1>6, <1>7, <1>8, <1>9, <1>10 DEF Summed, G, Part
  <1> QED
    BY <1>11 DEF c

BusNumbers(pci) ==
    {at[1] : at \in DOMAIN pci} \cup {pci[at].secondary : at \in DOMAIN pci} \cup {0}

ClosedUnder(pci, B) ==
    \A at \in Answering(pci) : at[1] \in B /\ pci[at].bridge => pci[at].secondary \in B

\* How far the walk has come: what answers on the marked buses is classified or still to
\* do, never both; buses are marked that have to be, and the bridges classified lead
\* to marked ones.
Traversed(pci, s) ==
    LET F == ToSet(s.found)
        T == ToSet(s.todo)
    IN  /\ 0 \in s.visited /\ s.visited \subseteq BusNumbers(pci)
        /\ \A B : 0 \in B /\ ClosedUnder(pci, B) => s.visited \subseteq B
        /\ NoRepetition(s.todo) /\ F \cap T = {} /\ F \cup T = OnBuses(pci, s.visited)
        /\ Len(s.found) = Cardinality(F)
        /\ \A at \in F : pci[at].bridge => pci[at].secondary \in s.visited

Scanned(pci) == {s \in ScanStates(pci) : Traversed(pci, s) /\ Summed(pci, s)}

\* One turn classifies the next function, or there is none.
LEMMA ScanTurn ==
    ASSUME NEW pci \in Pcis, NEW s \in Scanned(pci), NEW r, r = ScanFunction(pci, s)
    PROVE  /\ r \in Scanned(pci)
           /\ s.todo = <<>> => r = s
           /\ s.todo # <<>> => Len(r.found) = Len(s.found) + 1
  <1> DEFINE D == DOMAIN pci
             F == ToSet(s.found)
             T == ToSet(s.todo)
             V == s.visited
  <1>1. CASE s.todo = <<>>
    BY <1>1 DEF ScanFunction
  <1>2. CASE s.todo # <<>>
    <2> DEFINE at == Head(s.todo)
               rest == Tail(s.todo)
               R == ToSet(rest)
               bus == pci[at].secondary
               new == Follows(pci, at) /\ bus \notin V
               functions == FunctionsOf(pci, bus)
    <2>1. /\ s \in ScanStates(pci) /\ Summed(pci, s) /\ s.found \in Seq(D) /\ s.todo \in Seq(D)
          /\ V \subseteq Buses
      BY DEF Scanned, ScanStates
    <2>2. /\ 0 \in V /\ V \subseteq BusNumbers(pci)
          /\ \A B : 0 \in B /\ ClosedUnder(pci, B) => V \subseteq B
          /\ NoRepetition(s.todo) /\ F \cap T = {} /\ F \cup T = OnBuses(pci, V)
          /\ Len(s.found) = Cardinality(F)
          /\ \A x \in F : pci[x].bridge => pci[x].secondary \in V
      BY DEF Scanned, Traversed
    <2>3. /\ at \in D /\ rest \in Seq(D) /\ T = {at} \cup R
          /\ at \notin R /\ NoRepetition(rest)
      BY <1>2, <2>1, <2>2, HeadTailSet
    <2>4. at \notin F
      BY <2>2, <2>3
    <2>5. bus \in Buses
      BY <2>3, PciFacts
    <2>6. /\ r \in ScanStates(pci) /\ Summed(pci, r) /\ r.found = Append(s.found, at)
          /\ new => r.visited = V \cup {bus} /\ r.todo = functions \o rest
          /\ ~ new => r.visited = V /\ r.todo = rest
      <3> DEFINE u == [s EXCEPT !.todo = rest]
                 c == _pci_classify(u, pci, at)
                 more == [c EXCEPT !.visited = c.visited \cup {bus},
                                   !.todo = FunctionsOf(pci, bus) \o c.todo]
      <3>1. s.todo \in Seq(D) /\ s.visited \subseteq Buses /\ s.found \in Seq(D)
        BY <2>1
      <3>2. at \in D /\ rest \in Seq(D) /\ bus \in Buses
        BY <2>3, <2>5
      <3>3. r = IF Follows(pci, at) /\ bus \notin s.visited THEN more ELSE c
        BY <1>2 DEF ScanFunction
      <3>4. /\ u \in ScanStates(pci) /\ u.visited = s.visited /\ u.todo = rest /\ u.found = s.found
            /\ u.has = s.has /\ u.gpu = s.gpu /\ u.storage_count = s.storage_count
            /\ u.ahci_bar5 = s.ahci_bar5 /\ u.ata_iobase = s.ata_iobase
        BY <2>1, <3>2 DEF ScanStates
      <3> HIDE DEF u
      <3>5. Summed(pci, u)
        BY <2>1, <3>4 DEF Summed
      <3>6. /\ c \in ScanStates(pci) /\ c.visited = s.visited /\ c.todo = rest
            /\ c.found = Append(s.found, at)
        BY <3>2, <3>4, ClassifiedIs
      <3>7. Summed(pci, c)
        <4>1. at \notin ToSet(u.found)
          BY <2>4, <3>4
        <4> QED
          BY <3>2, <3>4, <3>5, <4>1, SummedKept
      <3> HIDE DEF c
      <3>8. FunctionsOf(pci, bus) \o rest \in Seq(D) /\ s.visited \cup {bus} \subseteq Buses
        <4>1. FunctionsOf(pci, bus) \in Seq(D)
          BY <3>2, FunctionsAre
        <4> HIDE DEF D
        <4> QED
          BY <3>1, <3>2, <4>1, ConcatProperties
      <3>9. /\ more \in ScanStates(pci) /\ more.visited = s.visited \cup {bus}
            /\ more.todo = FunctionsOf(pci, bus) \o rest /\ more.found = c.found
            /\ more.has = c.has /\ more.gpu = c.gpu /\ more.storage_count = c.storage_count
            /\ more.ahci_bar5 = c.ahci_bar5 /\ more.ata_iobase = c.ata_iobase
        BY <3>6, <3>8 DEF ScanStates
      <3> HIDE DEF more
      <3>10. Summed(pci, more)
        BY <3>7, <3>9 DEF Summed
      <3> QED
        BY <3>3, <3>6, <3>7, <3>9, <3>10
    <2>7. at \in Answering(pci) /\ at[1] \in V
      BY <2>2, <2>3 DEF OnBuses
    <2>8. ToSet(r.found) = F \cup {at} /\ Len(r.found) = Len(s.found) + 1
      BY <2>1, <2>3, <2>6, AppendSet
    <2>9. Cardinality(F \cup {at}) = Cardinality(F) + 1
      <3>1. F \subseteq D
        BY <2>1 DEF ToSet
      <3>2. IsFiniteSet(F)
        BY <3>1, PciFacts, FS_Subset
      <3> HIDE DEF F, at
      <3> QED
        BY <2>4, <3>2, FS_AddElement
    <2>10. bus \in BusNumbers(pci)
      BY <2>3 DEF BusNumbers
    <2>11. CASE new
      <3>1. functions \in Seq(D) /\ NoRepetition(functions) /\ ToSet(functions) = OnBuses(pci, {bus})
        BY <2>5, FunctionsAre
      <3>2. OnBuses(pci, {bus}) \cap OnBuses(pci, V) = {}
            /\ OnBuses(pci, V) \cup OnBuses(pci, {bus}) = OnBuses(pci, V \cup {bus})
        BY <2>11 DEF OnBuses
      <3>3. R \subseteq OnBuses(pci, V) /\ F \subseteq OnBuses(pci, V) /\ at \in OnBuses(pci, V)
        BY <2>2, <2>3
      <3>4. /\ functions \o rest \in Seq(D)
            /\ ToSet(functions \o rest) = OnBuses(pci, {bus}) \cup R
            /\ NoRepetition(functions \o rest)
        <4>1. ToSet(functions) \cap R = {}
          BY <3>1, <3>2, <3>3
        <4>2. R = ToSet(rest)
          OBVIOUS
        <4> HIDE DEF functions, rest, D, R
        <4>3. /\ functions \o rest \in Seq(D)
              /\ ToSet(functions \o rest) = ToSet(functions) \cup ToSet(rest)
              /\ NoRepetition(functions) /\ NoRepetition(rest)
                 /\ ToSet(functions) \cap ToSet(rest) = {} => NoRepetition(functions \o rest)
          BY <2>3, <3>1, ConcatSet
        <4> QED
          BY <2>3, <3>1, <4>1, <4>2, <4>3
      <3>5. r.visited = V \cup {bus} /\ r.todo = functions \o rest
        BY <2>6, <2>11
      <3>6. (F \cup {at}) \cap (OnBuses(pci, {bus}) \cup R) = {}
        BY <2>2, <2>3, <2>4, <3>2, <3>3
      <3>7. (F \cup {at}) \cup (OnBuses(pci, {bus}) \cup R) = OnBuses(pci, V \cup {bus})
        BY <2>2, <2>3, <3>2
      <3>8. ASSUME NEW B, 0 \in B, ClosedUnder(pci, B) PROVE V \cup {bus} \subseteq B
        <4>1. V \subseteq B
          BY <2>2, <3>8
        <4>2. pci[at].bridge
          BY <2>11 DEF Follows
        <4>3. bus \in B
          BY <2>7, <3>8, <4>1, <4>2 DEF ClosedUnder
        <4> QED
          BY <4>1, <4>3
      <3>9. \A x \in F \cup {at} : pci[x].bridge => pci[x].secondary \in V \cup {bus}
        BY <2>2
      <3>10. Traversed(pci, r)
        <4> HIDE DEF F, V, at, bus, functions, rest, R, T, new
        <4> QED
          BY <2>2, <2>8, <2>9, <2>10, <3>4, <3>5, <3>6, <3>7, <3>8, <3>9 DEF Traversed
      <3> QED
        BY <1>2, <2>6, <2>8, <3>10 DEF Scanned
    <2>12. CASE ~ new
      <3>1. r.visited = V /\ r.todo = rest
        BY <2>6, <2>12
      <3>2. (F \cup {at}) \cap R = {} /\ (F \cup {at}) \cup R = OnBuses(pci, V)
        BY <2>2, <2>3, <2>4
      <3>3. pci[at].bridge => bus \in V
        BY <2>2, <2>7, <2>12 DEF Follows
      <3>4. \A x \in F \cup {at} : pci[x].bridge => pci[x].secondary \in V
        BY <2>2, <3>3
      <3>5. Traversed(pci, r)
        <4> HIDE DEF F, V, at, bus, functions, rest, R, T, new
        <4> QED
          BY <2>2, <2>3, <2>8, <2>9, <3>1, <3>2, <3>4 DEF Traversed, R
      <3> QED
        BY <1>2, <2>6, <2>8, <3>5 DEF Scanned
    <2> QED
      BY <2>11, <2>12
  <1> QED
    BY <1>1, <1>2

LEMMA ScanStarts ==
    ASSUME NEW pci \in Pcis, NEW s, s = [Profile EXCEPT !.todo = FunctionsOf(pci, 0)]
    PROVE  s \in Scanned(pci) /\ s.found = <<>>
  <1> DEFINE D == DOMAIN pci
             functions == FunctionsOf(pci, 0)
             empty == {}
  <1>1. /\ functions \in Seq(D) /\ NoRepetition(functions)
        /\ ToSet(functions) = OnBuses(pci, {0})
    <2>1. 0 \in Buses
      BY DEF Buses
    <2> QED
      BY <2>1, FunctionsAre
  <1> HIDE DEF functions, D
  <1>2. /\ s.visited = {0} /\ s.todo = functions /\ s.found = <<>> /\ s.gpu = "none"
        /\ s.has = {} /\ s.storage_count = 0 /\ s.ahci_bar5 = 0 /\ s.ata_iobase = LegacyAta
        /\ s.gpu_at = <<>>
    BY DEF Profile, functions
  <1>3. s = [visited |-> {0}, todo |-> functions, found |-> <<>>, gpu |-> "none",
             gpu_at |-> <<>>, has |-> {}, storage_count |-> 0, ahci_bar5 |-> 0,
             ata_iobase |-> LegacyAta]
    BY DEF Profile, functions
  <1>4. s \in ScanStates(pci)
    <2> DEFINE none == <<>>
               first == {0}
               nothing == {}
               u == [visited |-> first, todo |-> functions, found |-> none, gpu |-> "none",
                     gpu_at |-> none, has |-> nothing, storage_count |-> 0, ahci_bar5 |-> 0,
                     ata_iobase |-> LegacyAta]
    <2>1. /\ first \in SUBSET Buses /\ none \in Seq(D) /\ none \in D \cup {<<>>}
          /\ LegacyAta \in Nat /\ nothing \in SUBSET STRING
      BY DEF Buses, LegacyAta
    <2>2. s = u
      BY <1>3
    <2> HIDE DEF none, first, nothing
    <2>3. u \in ScanStates(pci)
      BY <1>1, <2>1 DEF ScanStates, D
    <2> HIDE DEF u
    <2> QED
      BY <2>2, <2>3
  <1>5. ToSet(<<>>) = {} /\ Len(<<>>) = 0 /\ Cardinality(empty) = 0
    BY FS_EmptySet DEF ToSet
  <1>6. Traversed(pci, s)
    <2>1. 0 \in BusNumbers(pci)
      BY DEF BusNumbers
    <2> QED
      BY <1>1, <1>2, <1>5, <2>1 DEF Traversed
  <1>7. Summed(pci, s)
    <2>1. ASSUME NEW cs PROVE OfClasses(pci, {}, cs) = {}
      BY DEF OfClasses
    <2>2. 0 % CountByte = 0
      BY DEF CountByte
    <2> QED
      BY <1>2, <1>5, <2>1, <2>2 DEF Summed
  <1> QED
    BY <1>2, <1>4, <1>6, <1>7 DEF Scanned

\* There are turns enough.
LEMMA ScanIs ==
    ASSUME NEW pci \in Pcis
    PROVE  mcp_scan_pci(pci) \in Scanned(pci) /\ mcp_scan_pci(pci).todo = <<>>
  <1> DEFINE D == DOMAIN pci
             n == Cardinality(D)
             X == Scanned(pci)
             x0 == [Profile EXCEPT !.todo = FunctionsOf(pci, 0)]
             Obeys(t) == t = [k \in 0 .. n |-> IF k = 0 THEN x0 ELSE ScanFunction(pci, t[k - 1])]
             st == CHOOSE t : Obeys(t)
             turn == [x \in X |-> ScanFunction(pci, x)]
             step == [k \in 1 .. n |-> turn]
  <1>1. mcp_scan_pci(pci) = st[n]
    BY DEF mcp_scan_pci
  <1>2. IsFiniteSet(D) /\ n \in Nat
    BY PciFacts, FS_CardinalityType
  <1>3. x0 \in X /\ x0.found = <<>>
    BY ScanStarts
  <1> HIDE DEF n, D, x0
  <1>4. ASSUME NEW x \in X PROVE ScanFunction(pci, x) \in X
    BY ScanTurn
  <1> HIDE DEF X
  <1>5. step \in [1 .. n -> [X -> X]]
    BY <1>4
  <1>6. \E t : Obeys(t)
    <2>1. PICK f \in [0 .. n -> X] : Iterates(f, n, x0, step)
      <3> HIDE DEF step
      <3> QED
        BY <1>2, <1>3, <1>5, RecursionExists, Zenon
    <2>2. ASSUME NEW k \in 0 .. n
          PROVE  f[k] = IF k = 0 THEN x0 ELSE ScanFunction(pci, f[k - 1])
      <3>1. CASE k = 0
        BY <2>1, <3>1 DEF Iterates
      <3>2. CASE k # 0
        <4>1. k \in 1 .. n /\ k - 1 \in 0 .. n
          BY <1>2, <3>2
        <4>2. f[k - 1] \in X
          BY <2>1, <4>1
        <4>3. f[k] = step[k][f[k - 1]]
          <5> HIDE DEF step
          <5> QED
            BY <2>1, <4>1 DEF Iterates
        <4> QED
          BY <3>2, <4>1, <4>2, <4>3
      <3> QED
        BY <3>1, <3>2
    <2>3. f = [k \in 0 .. n |-> f[k]]
      BY <2>1
    <2>4. Obeys(f)
      <3> HIDE DEF step
      <3> QED
        BY <2>2, <2>3
    <2> HIDE DEF Obeys
    <2> QED
      BY <2>4
  <1>7. Obeys(st)
    <2> HIDE DEF Obeys
    <2> QED
      BY <1>6
  <1> HIDE DEF st, step
  <1>8. st[0] = x0 /\ \A k \in 1 .. n : st[k] = ScanFunction(pci, st[k - 1])
    <2>1. 0 \in 0 .. n /\ \A k \in 1 .. n : k \in 0 .. n /\ k # 0
      BY <1>2
    <2>2. \A k \in 0 .. n : st[k] = IF k = 0 THEN x0 ELSE ScanFunction(pci, st[k - 1])
      BY <1>7
    <2> HIDE DEF Obeys
    <2> QED
      BY <2>1, <2>2
  <1> HIDE DEF Obeys
  <1> DEFINE Far(k) == st[k].todo = <<>> \/ Len(st[k].found) = k
             Good == {k \in Nat : k <= n => st[k] \in X /\ Far(k)}
  <1>9. 0 \in Good
    BY <1>3, <1>8
  <1>10. ASSUME NEW k \in Nat, k \in Good PROVE k + 1 \in Good
    <2> SUFFICES ASSUME k + 1 <= n PROVE st[k + 1] \in X /\ Far(k + 1)
      OBVIOUS
    <2>1. st[k] \in X /\ Far(k)
      BY <1>2, <1>10
    <2>2. st[k + 1] = ScanFunction(pci, st[k])
      <3>1. k + 1 \in 1 .. n /\ (k + 1) - 1 = k
        BY <1>2
      <3> QED
        BY <1>8, <3>1
    <2>3. /\ st[k + 1] \in X
          /\ st[k].todo = <<>> => st[k + 1] = st[k]
          /\ st[k].todo # <<>> => Len(st[k + 1].found) = Len(st[k].found) + 1
      BY <2>1, <2>2, ScanTurn DEF X
    <2> QED
      BY <2>1, <2>3
  <1>11. st[n] \in X /\ Far(n)
    <2>1. n \in Good
      <3> HIDE DEF Good
      <3> QED
        BY <1>2, <1>9, <1>10, NatSetInduction
    <2> QED
      BY <1>2, <2>1
  <1>12. st[n].todo = <<>>
    <2> SUFFICES ASSUME st[n].todo # <<>> PROVE FALSE
      OBVIOUS
    <2> DEFINE F == ToSet(st[n].found)
               at == Head(st[n].todo)
    <2>1. /\ st[n].found \in Seq(D) /\ st[n].todo \in Seq(D)
          /\ F \cap ToSet(st[n].todo) = {} /\ Len(st[n].found) = Cardinality(F)
      BY <1>11 DEF X, Scanned, ScanStates, Traversed, D
    <2>2. at \in D /\ at \in ToSet(st[n].todo)
      BY <2>1, HeadTailSet
    <2>3. F \subseteq D
      BY <2>1 DEF ToSet
    <2>4. Cardinality(F) = Cardinality(D)
      BY <1>11, <2>1 DEF n
    <2>5. F = D
      <3> HIDE DEF F
      <3> QED
        BY <1>2, <2>3, <2>4, FS_Subset
    <2> QED
      BY <2>1, <2>2, <2>5
  <1> QED
    BY <1>1, <1>11, <1>12 DEF X

\* The marked buses are those that bridges connect to bus 0.
LEMMA ReachedIs ==
    ASSUME NEW pci \in Pcis, NEW s \in Scanned(pci), s.todo = <<>>
    PROVE  ToSet(s.found) = Reached(pci)
  <1> DEFINE buses == {at[1] : at \in DOMAIN pci} \cup {pci[at].secondary : at \in DOMAIN pci} \cup {0}
             Present(at) == at \in DOMAIN pci /\ (at[3] = 0 \/
                              (<<at[1], at[2], 0>> \in DOMAIN pci
                               /\ pci[<<at[1], at[2], 0>>].multifunction))
             Closed(B) == \A at \in DOMAIN pci :
                             Present(at) /\ at[1] \in B /\ pci[at].bridge => pci[at].secondary \in B
             Bus == {b \in buses : \A B \in SUBSET buses : 0 \in B /\ Closed(B) => b \in B}
             V == s.visited
  <1>1. Reached(pci) = {at \in DOMAIN pci : Present(at) /\ at[1] \in Bus}
    BY DEF Reached
  <1>2. \A at \in DOMAIN pci : Present(at) <=> at \in Answering(pci)
    BY DEF Answering, Answers
  <1>3. buses = BusNumbers(pci)
    BY DEF BusNumbers
  <1>4. /\ 0 \in V /\ V \subseteq BusNumbers(pci)
        /\ \A B : 0 \in B /\ ClosedUnder(pci, B) => V \subseteq B
        /\ ToSet(s.found) \cup ToSet(s.todo) = OnBuses(pci, V)
        /\ \A at \in ToSet(s.found) : pci[at].bridge => pci[at].secondary \in V
    BY DEF Scanned, Traversed
  <1>5. ToSet(s.found) = OnBuses(pci, V)
    <2>1. ToSet(<<>>) = {}
      BY DEF ToSet
    <2> QED
      BY <1>4, <2>1
  <1>6. \A B : Closed(B) <=> ClosedUnder(pci, B)
    <2>1. Answering(pci) \subseteq DOMAIN pci
      BY DEF Answering
    <2> HIDE DEF Present
    <2> QED
      BY <1>2, <2>1 DEF ClosedUnder
  <1>7. ClosedUnder(pci, V)
    BY <1>4, <1>5 DEF ClosedUnder, OnBuses
  <1> HIDE DEF buses, Closed
  <1>8. Bus = V
    BY <1>3, <1>4, <1>6, <1>7
  <1>9. {at \in DOMAIN pci : Present(at) /\ at[1] \in V} = OnBuses(pci, V)
    <2>1. Answering(pci) \subseteq DOMAIN pci
      BY DEF Answering
    <2> HIDE DEF Present
    <2> QED
      BY <1>2, <2>1 DEF OnBuses
  <1> QED
    BY <1>1, <1>5, <1>8, <1>9

\* The scan classifies every function that can be reached, each once, and the profile
\* sums them up, for every number of devices and every way bridges lead.
THEOREM ScanIsExact == Spec => []PciExact
  <1>1. ASSUME CallInv PROVE PciExact
    <2> SUFFICES ASSUME After("pci") PROVE PciExact
      BY DEF PciExact
    <2>1. in \in Pcis /\ out = mcp_scan_pci(in)
      BY <1>1 DEF CallInv
    <2> DEFINE reached == Reached(in)
               Of(class) == {at \in reached : in[at].class = class}
               n == Cardinality(Of("display"))
    <2>2. out \in Scanned(in) /\ out.todo = <<>>
      BY <2>1, ScanIs
    <2>3. ToSet(out.found) = reached
      BY <2>1, <2>2, ReachedIs
    <2>4. Len(out.found) = Cardinality(ToSet(out.found)) /\ Summed(in, out)
      BY <2>2 DEF Scanned, Traversed
    <2>5. ASSUME NEW cs PROVE OfClasses(in, ToSet(out.found), cs) = {at \in reached : in[at].class \in cs}
      BY <2>3 DEF OfClasses
    <2>6. /\ OfClasses(in, ToSet(out.found), {"display"}) = Of("display")
          /\ OfClasses(in, ToSet(out.found), {"ahci"}) = Of("ahci")
          /\ OfClasses(in, ToSet(out.found), {"ahci", "nvme"}) = Of("ahci") \cup Of("nvme")
      <3> HIDE DEF reached
      <3> QED
        BY <2>5
    <2>7. IsFiniteSet(Of("display")) /\ n \in Nat
      <3>1. Of("display") \subseteq DOMAIN in
        BY DEF Reached
      <3> HIDE DEF Of
      <3>2. IsFiniteSet(Of("display"))
        BY <2>1, <3>1, PciFacts, FS_Subset
      <3> QED
        BY <3>2, FS_CardinalityType
    <2> HIDE DEF reached
    <2>8. /\ out.has = {in[at].class : at \in reached}
          /\ out.gpu = (IF n = 0 THEN "none" ELSE IF n = 1 THEN "integrated" ELSE "multi")
          /\ out.storage_count = Cardinality(Of("ahci") \cup Of("nvme")) % CountByte
          /\ out.ahci_bar5 \in {in[at].bar : at \in Of("ahci")} \cup {0}
          /\ out.ahci_bar5 = 0 => \A at \in Of("ahci") : in[at].bar = 0
          /\ out.ata_iobase = LegacyAta
      <3> HIDE DEF Of
      <3> QED
        BY <2>3, <2>4, <2>6 DEF Summed
    <2>9. n = 0 <=> Of("display") = {}
      <3> HIDE DEF Of
      <3> QED
        BY <2>7, FS_EmptySet
    <2>10. out.gpu = (CASE Of("display") = {} -> "none"
                        [] n = 1 -> "integrated"
                        [] OTHER -> "multi")
      <3> HIDE DEF Of, n
      <3> QED
        BY <2>8, <2>9
    <2> HIDE DEF Of
    <2> QED
      BY <2>3, <2>4, <2>8, <2>10 DEF PciExact, reached, Of
  <1> QED
    BY <1>1, CallsKept, PTL

------------------------------------------------------------------------------
(***************************************************************************)
(* Arguments.  First the words of a line: after k characters there is one  *)
(* for each start so far, and it reaches as far as its letters do.         *)
(***************************************************************************)
Char == 1 .. 255

Starts(line, k) == {i \in 1 .. k : line[i] # BLANK /\ (i = 1 \/ line[i - 1] = BLANK)}

Reaches(line, k, i, e) == (\A x \in i .. e : line[x] # BLANK) /\ (e = k \/ line[e + 1] = BLANK)

SplitStates == {x \in [words : Seq(Seq(Char)), inside : BOOLEAN] : x.inside => x.words # <<>>}

HasWords(line, k, st) ==
    LET S == Starts(line, k)
    IN  /\ st.inside <=> (k # 0 /\ line[k] # BLANK)
        /\ Len(st.words) = Cardinality(S)
        /\ \A i \in S : \A e \in i .. k :
              Reaches(line, k, i, e) => st.words[Rank(S, i)] = SubSeq(line, i, e)

LEMMA SplitStays ==
    ASSUME NEW st \in SplitStates, NEW c \in Char
    PROVE  Split(st, c) \in SplitStates
  <1> DEFINE w == st.words
             n == Len(w)
  <1>1. w \in Seq(Seq(Char)) /\ st.inside \in BOOLEAN /\ (st.inside => w # <<>>)
    BY DEF SplitStates
  <1>2. CASE c = BLANK
    BY <1>1, <1>2 DEF Split, SplitStates
  <1>3. CASE c # BLANK /\ st.inside
    <2>1. n \in 1 .. n /\ n \in Nat
      BY <1>1, <1>3, EmptySeq
    <2>2. w[n] \in Seq(Char)
      BY <1>1, <2>1, ElementOfSeq
    <2>3. Append(w[n], c) \in Seq(Char)
      BY <2>2, AppendSet
    <2> DEFINE e == Append(w[n], c)
               v == [w EXCEPT ![n] = e]
    <2>4. Split(st, c) = [words |-> v, inside |-> TRUE]
      BY <1>3 DEF Split
    <2> HIDE DEF e
    <2>5. v \in Seq(Seq(Char)) /\ Len(v) = n
      BY <1>1, <2>1, <2>3, ExceptSeq DEF e
    <2> HIDE DEF v
    <2>6. v # <<>>
      BY <2>1, <2>5, EmptySeq
    <2> QED
      BY <2>4, <2>5, <2>6 DEF SplitStates
  <1>4. CASE c # BLANK /\ ~ st.inside
    <2> DEFINE one == <<c>>
               v == Append(w, one)
    <2>1. Split(st, c) = [words |-> v, inside |-> TRUE]
      BY <1>4 DEF Split
    <2>2. one \in Seq(Char)
      OBVIOUS
    <2> HIDE DEF one
    <2> DEFINE T == Seq(Char)
    <2> HIDE DEF T
    <2>3. v \in Seq(T) /\ v # <<>>
      <3>1. w \in Seq(T) /\ one \in T
        BY <1>1, <2>2 DEF T
      <3> QED
        BY ONLY <3>1, AppendProperties
    <2> HIDE DEF v
    <2>4. v \in Seq(Seq(Char)) /\ v # <<>>
      BY <2>3 DEF T
    <2> QED
      BY <2>1, <2>4 DEF SplitStates
  <1> QED
    BY <1>2, <1>3, <1>4

\* One more start at the end leaves the ranks of those before.
LEMMA StartsTurn ==
    ASSUME NEW line \in Seq(Char), NEW k \in Nat, k + 1 <= Len(line)
    PROVE  LET S == Starts(line, k)
               T == Starts(line, k + 1)
           IN  /\ T = IF line[k + 1] # BLANK /\ (k = 0 \/ line[k] = BLANK) THEN S \cup {k + 1} ELSE S
               /\ S \subseteq 1 .. k /\ T \subseteq 1 .. k + 1
               /\ \A i \in S : i \in T /\ Rank(T, i) = Rank(S, i)
               /\ k + 1 \in T => Rank(T, k + 1) = Cardinality(S) + 1 /\ Cardinality(T) = Cardinality(S) + 1
  <1> DEFINE S == Starts(line, k)
             T == Starts(line, k + 1)
  <1>1. S \subseteq 1 .. k /\ T \subseteq 1 .. k + 1
    BY DEF Starts
  <1>2. T = IF line[k + 1] # BLANK /\ (k = 0 \/ line[k] = BLANK) THEN S \cup {k + 1} ELSE S
    <2>1. 1 .. k + 1 = (1 .. k) \cup {k + 1} /\ (k + 1) - 1 = k /\ (k + 1 = 1 <=> k = 0)
      OBVIOUS
    <2> QED
      BY <2>1 DEF Starts
  <1> HIDE DEF S, T
  <1>3. IsFiniteSet(S) /\ Cardinality(S) \in Nat
    BY <1>1, RankFacts
  <1>4. ASSUME NEW i \in S PROVE i \in T /\ Rank(T, i) = Rank(S, i)
    <2>1. i \in 1 .. k
      BY <1>1
    <2>2. {j \in T : j <= i} = {j \in S : j <= i}
      BY <1>2, <2>1
    <2> QED
      BY <1>2, <2>2 DEF Rank
  <1>5. ASSUME k + 1 \in T
        PROVE  Rank(T, k + 1) = Cardinality(S) + 1 /\ Cardinality(T) = Cardinality(S) + 1
    <2>1. k + 1 \notin S
      BY <1>1
    <2>2. T = S \cup {k + 1}
      BY <1>2, <1>5, <2>1
    <2>3. {j \in T : j <= k + 1} = T
      <3>1. \A j \in T : j <= k + 1
        BY <1>1
      <3> QED
        BY <3>1
    <2>4. Cardinality(S \cup {k + 1}) = Cardinality(S) + 1
      BY <1>3, <2>1, FS_AddElement
    <2> QED
      BY <2>2, <2>3, <2>4 DEF Rank
  <1> QED
    BY <1>1, <1>2, <1>4, <1>5 DEF S, T

\* A blank before k and a letter at k: a word starts between them.
LEMMA StartAfterBlank ==
    ASSUME NEW line \in Seq(Char), NEW k \in 1 .. Len(line), line[k] # BLANK,
           NEW b \in 1 .. k, line[b] = BLANK
    PROVE  \E i \in Starts(line, k) : b < i
  <1> DEFINE After1 == {x \in b + 1 .. k : line[x] # BLANK}
             i == Min(After1)
  <1>1. k \in Nat /\ b \in Nat /\ b < k
    BY LenProperties
  <1>2. k \in After1 /\ After1 \subseteq Nat
    BY <1>1
  <1>3. i \in After1 /\ \A x \in After1 : i <= x
    <2> HIDE DEF After1
    <2> QED
      BY <1>2, MinFacts
  <1> HIDE DEF i
  <1>4. i \in b + 1 .. k /\ line[i] # BLANK
    BY <1>3
  <1>5. line[i - 1] = BLANK
    <2>1. CASE i = b + 1
      BY <1>1, <2>1
    <2>2. CASE i # b + 1
      <3>1. i - 1 \in b + 1 .. k /\ ~ (i <= i - 1)
        BY <1>1, <1>4, <2>2
      <3> QED
        BY <1>3, <3>1
    <2> QED
      BY <2>1, <2>2
  <1>6. i \in Starts(line, k) /\ b < i
    BY <1>1, <1>4, <1>5 DEF Starts
  <1> QED
    BY <1>6

LEMMA SplitTurn ==
    ASSUME NEW line \in Seq(Char), NEW k \in Nat, k + 1 <= Len(line),
           NEW st \in SplitStates, HasWords(line, k, st),
           NEW r, r = Split(st, line[k + 1])
    PROVE  HasWords(line, k + 1, r)
  <1> DEFINE S == Starts(line, k)
             T == Starts(line, k + 1)
             c == line[k + 1]
             w == st.words
             n == Len(w)
  <1>1. /\ T = IF c # BLANK /\ (k = 0 \/ line[k] = BLANK) THEN S \cup {k + 1} ELSE S
        /\ S \subseteq 1 .. k /\ T \subseteq 1 .. k + 1
        /\ \A i \in S : i \in T /\ Rank(T, i) = Rank(S, i)
        /\ k + 1 \in T => Rank(T, k + 1) = Cardinality(S) + 1 /\ Cardinality(T) = Cardinality(S) + 1
    <2> HIDE DEF S, T, c
    <2> QED
      BY StartsTurn DEF S, T, c
  <1>2. /\ st.inside <=> (k # 0 /\ line[k] # BLANK)
        /\ n = Cardinality(S)
        /\ \A i \in S : \A e \in i .. k : Reaches(line, k, i, e) => w[Rank(S, i)] = SubSeq(line, i, e)
    BY DEF HasWords
  <1>3. w \in Seq(Seq(Char)) /\ st.inside \in BOOLEAN /\ n \in Nat
    BY DEF SplitStates
  <1>4. \A i \in S : Rank(S, i) \in 1 .. n
    BY <1>1, <1>2, RankFacts
  <1>5. \A i \in 1 .. k + 1 : line[i] \in Char
    BY ElementOfSeq
  <1> HIDE DEF S, T, c, n, w
  <1>6. CASE c = BLANK
    <2>1. r = [words |-> w, inside |-> FALSE] /\ T = S
      BY <1>1, <1>6 DEF Split, c, w
    <2>2. ASSUME NEW i \in T, NEW e \in i .. k + 1, Reaches(line, k + 1, i, e)
          PROVE  w[Rank(T, i)] = SubSeq(line, i, e)
      <3>1. i \in 1 .. k /\ e \in Int
        BY <1>1, <2>1
      <3>2. e # k + 1
        BY <1>6, <2>2, <3>1 DEF Reaches, c
      <3>3. e \in i .. k /\ Reaches(line, k, i, e)
        BY <2>2, <3>1, <3>2 DEF Reaches
      <3> QED
        BY <1>1, <1>2, <2>1, <3>3
    <2>3. ~ (k + 1 # 0 /\ line[k + 1] # BLANK)
      BY <1>6 DEF c
    <2> QED
      BY <1>2, <2>1, <2>2, <2>3 DEF HasWords, T, n
  <1>7. CASE c # BLANK /\ st.inside
    <2> DEFINE one == Append(w[n], c)
               v == [w EXCEPT ![n] = one]
    <2>1. r = [words |-> v, inside |-> TRUE] /\ T = S /\ k \in 1 .. k /\ line[k] # BLANK
      BY <1>1, <1>2, <1>7 DEF Split, c, w, n
    <2>2. n \in 1 .. n
      <3>1. w # <<>>
        BY <1>7 DEF SplitStates, w
      <3> QED
        BY <1>3, <3>1, EmptySeq DEF n
    <2>3. one \in Seq(Char)
      <3>1. w[n] \in Seq(Char)
        BY <1>3, <2>2, ElementOfSeq DEF n
      <3>2. c \in Char
        BY <1>5 DEF c
      <3> HIDE DEF one
      <3> QED
        BY <3>1, <3>2, AppendSet DEF one
    <2>4. Len(v) = n /\ \A j \in 1 .. n : v[j] = IF j = n THEN one ELSE w[j]
      <3> HIDE DEF one
      <3> QED
        BY <1>3, <2>2, <2>3, ExceptSeq DEF n
    <2>5. ASSUME NEW i \in T, NEW e \in i .. k + 1, Reaches(line, k + 1, i, e)
          PROVE  v[Rank(T, i)] = SubSeq(line, i, e)
      <3>1. i \in S /\ i \in 1 .. k /\ e \in Int /\ Rank(T, i) = Rank(S, i) /\ Rank(S, i) \in 1 .. n
        BY <1>1, <1>4, <2>1
      <3>2. CASE e = k + 1
        <4>1. \A x \in i .. k : line[x] # BLANK
          BY <2>5, <3>1, <3>2 DEF Reaches
        <4>2. w[Rank(S, i)] = SubSeq(line, i, k)
          <5>1. k \in i .. k /\ Reaches(line, k, i, k)
            BY <3>1, <4>1 DEF Reaches
          <5> QED
            BY <1>2, <3>1, <5>1
        <4>3. ASSUME NEW j \in S PROVE j <= i
          <5>1. SUFFICES ASSUME i < j PROVE FALSE
            BY <1>1, <3>1
          <5>2. j \in 1 .. k /\ j # 1 /\ j - 1 \in i .. k
            BY <1>1, <3>1, <5>1
          <5>3. line[j - 1] = BLANK
            BY <5>2 DEF S, Starts
          <5> QED
            BY <4>1, <5>2, <5>3
        <4>4. Rank(S, i) = n
          <5>1. {j \in S : j <= i} = S
            BY <4>3
          <5> QED
            BY <1>2, <5>1 DEF Rank
        <4>5. SubSeq(line, i, k + 1) = Append(SubSeq(line, i, k), c)
          <5>1. /\ line \in Seq(Char) /\ i \in 1 .. Len(line) /\ k + 1 \in i .. Len(line)
            BY <3>1, LenProperties
          <5>2. SubSeq(line, i, k + 1) = SubSeq(line, i, (k + 1) - 1) \o <<line[k + 1]>>
            BY <5>1, SubSeqRecursiveSecond
          <5>3. (k + 1) - 1 = k /\ SubSeq(line, i, k) \in Seq(Char) /\ c \in Char
            <6>1. w[n] \in Seq(Char)
              BY <1>3, <2>2, ElementOfSeq DEF n
            <6>2. c \in Char
              BY <1>5 DEF c
            <6>3. SubSeq(line, i, k) = w[n]
              BY <4>2, <4>4
            <6>4. (k + 1) - 1 = k
              OBVIOUS
            <6> HIDE DEF one, v
            <6> QED
              BY <6>1, <6>2, <6>3, <6>4
          <5>4. Append(SubSeq(line, i, k), c) = SubSeq(line, i, k) \o <<c>>
            BY <5>3, AppendIsConcat
          <5> QED
            BY <5>2, <5>3, <5>4 DEF c
        <4> QED
          BY <2>2, <2>4, <3>1, <3>2, <4>2, <4>4, <4>5
      <3>3. CASE e # k + 1
        <4>1. e \in i .. k /\ line[e + 1] = BLANK
          BY <2>5, <3>1, <3>3 DEF Reaches
        <4>2. e + 1 \in 1 .. k
          <5>1. e # k
            BY <1>7, <4>1 DEF c
          <5> QED
            BY <3>1, <4>1, <5>1
        <4>3. Reaches(line, k, i, e)
          BY <2>5, <4>1 DEF Reaches
        <4>4. PICK j \in S : e + 1 < j
          BY <2>1, <4>1, <4>2, StartAfterBlank DEF S
        <4>5. i < j
          BY <1>1, <3>1, <4>1, <4>4
        <4>6. Rank(S, i) # n
          <5>1. Rank(S, i) < Rank(S, j)
            BY <1>1, <3>1, <4>4, <4>5, RankFacts
          <5>2. Rank(S, j) \in 1 .. n /\ n \in Nat
            BY <1>3, <1>4
          <5> HIDE DEF one, v
          <5> QED
            BY <3>1, <5>1, <5>2
        <4> QED
          BY <1>2, <2>4, <3>1, <4>1, <4>3, <4>6
      <3> QED
        BY <3>2, <3>3
    <2>6. k + 1 # 0 /\ line[k + 1] # BLANK
      BY <1>7 DEF c
    <2> HIDE DEF v
    <2> QED
      BY <1>2, <2>1, <2>4, <2>5, <2>6 DEF HasWords, T
  <1>8. CASE c # BLANK /\ ~ st.inside
    <2> DEFINE one == <<c>>
               v == Append(w, one)
    <2>1. r = [words |-> v, inside |-> TRUE] /\ T = S \cup {k + 1} /\ (k = 0 \/ line[k] = BLANK)
      BY <1>1, <1>2, <1>8 DEF Split, c, w
    <2>2. one \in Seq(Char)
      <3>1. c \in Char
        BY <1>5 DEF c
      <3> QED
        BY <3>1
    <2>3. Len(v) = n + 1 /\ v[n + 1] = one /\ \A j \in 1 .. n : v[j] = w[j]
      <3> HIDE DEF one
      <3> QED
        BY <1>3, <2>2, AppendProperties DEF n
    <2>4. SubSeq(line, k + 1, k + 1) = one
      <3>1. k + 1 \in 1 .. Len(line) /\ k + 1 \in Int
        BY LenProperties
      <3>2. /\ SubSeq(line, k + 1, k + 1) \in Seq(Char) /\ Len(SubSeq(line, k + 1, k + 1)) = 1
            /\ SubSeq(line, k + 1, k + 1)[1] = line[k + 1]
        BY <1>5, <3>1, SubSeqProperties
      <3>3. Len(one) = 1 /\ one[1] = line[k + 1]
        BY DEF c
      <3> HIDE DEF one
      <3>4. \A i \in 1 .. 1 : SubSeq(line, k + 1, k + 1)[i] = one[i]
        BY <3>2, <3>3
      <3> QED
        BY <2>2, <3>2, <3>3, <3>4, SeqEqual
    <2>5. ASSUME NEW i \in T, NEW e \in i .. k + 1, Reaches(line, k + 1, i, e)
          PROVE  v[Rank(T, i)] = SubSeq(line, i, e)
      <3>1. CASE i = k + 1
        <4>1. e = k + 1 /\ Rank(T, i) = n + 1
          BY <1>1, <1>2, <2>1, <3>1
        <4> HIDE DEF one, v
        <4> QED
          BY <2>3, <2>4, <3>1, <4>1
      <3>2. CASE i # k + 1
        <4>1. i \in S /\ i \in 1 .. k /\ e \in Int /\ Rank(T, i) = Rank(S, i) /\ Rank(S, i) \in 1 .. n
          <5>1. i \in S
            BY <2>1, <3>2
          <5>2. i \in 1 .. k /\ e \in Int
            BY <1>1, <5>1
          <5> HIDE DEF one, v
          <5> QED
            BY <1>1, <1>4, <5>1, <5>2
        <4>2. e # k + 1
          <5>1. line[k] = BLANK /\ k \in i .. k + 1
            BY <2>1, <4>1
          <5> QED
            BY <2>5, <5>1 DEF Reaches
        <4>3. e \in i .. k /\ Reaches(line, k, i, e)
          BY <2>5, <4>1, <4>2 DEF Reaches
        <4> HIDE DEF one, v
        <4> QED
          BY <1>2, <2>3, <4>1, <4>3
      <3> QED
        BY <3>1, <3>2
    <2>6. k + 1 # 0 /\ line[k + 1] # BLANK
      BY <1>8 DEF c
    <2>7. n + 1 = Cardinality(T)
      BY <1>1, <1>2, <2>1
    <2> HIDE DEF v
    <2> QED
      BY <2>1, <2>3, <2>5, <2>6, <2>7 DEF HasWords, T
  <1> QED
    BY <1>3, <1>6, <1>7, <1>8
LEMMA RunEnds ==
    ASSUME NEW line \in Seq(Char), NEW i \in 1 .. Len(line), line[i] # BLANK
    PROVE  \E e \in i .. Len(line) : Reaches(line, Len(line), i, e)
  <1> DEFINE N == Len(line)
             B == {x \in i .. N : line[x] = BLANK}
             b == Min(B)
  <1>1. N \in Nat /\ i \in Nat /\ i <= N
    BY LenProperties
  <1>2. CASE B = {}
    <2>1. N \in i .. N /\ Reaches(line, N, i, N)
      BY <1>1, <1>2 DEF Reaches
    <2> QED
      BY <2>1
  <1>3. CASE B # {}
    <2>1. B \subseteq Nat
      BY <1>1
    <2>2. b \in B /\ \A x \in B : b <= x
      <3> HIDE DEF B
      <3> QED
        BY <1>3, <2>1, MinFacts
    <2> HIDE DEF b
    <2>3. b \in i .. N /\ line[b] = BLANK /\ b # i
      BY <2>2
    <2>4. b - 1 \in i .. N /\ (b - 1) + 1 = b
      BY <1>1, <2>3
    <2>5. ASSUME NEW x \in i .. b - 1 PROVE line[x] # BLANK
      <3>1. x \in i .. N /\ ~ (b <= x)
        BY <1>1, <2>3
      <3> QED
        BY <2>2, <3>1
    <2>6. Reaches(line, N, i, b - 1)
      BY <2>3, <2>4, <2>5 DEF Reaches
    <2> QED
      BY <2>4, <2>6
  <1> QED
    BY <1>2, <1>3

\* What cmd_run has after the whole line.
LEMMA SplitIs ==
    ASSUME NEW line \in Seq(Char)
    PROVE  \E st \in SplitStates : /\ HasWords(line, Len(line), st)
                                   /\ cmd_run(line) = AtMost(st.words, MaxArgs)
  <1> DEFINE n == Len(line)
             x0 == [words |-> <<>>, inside |-> FALSE]
             X == SplitStates
             step == [k \in 1 .. n |-> [x \in X |-> Split(x, line[k])]]
             Obeys(t) == t = [k \in 0 .. n |-> IF k = 0 THEN x0 ELSE Split(t[k - 1], line[k])]
             st == CHOOSE t : Obeys(t)
  <1>1. n \in Nat /\ \A k \in 1 .. n : line[k] \in Char
    BY LenProperties, ElementOfSeq
  <1>2. x0 \in X
    <2> DEFINE none == <<>>
    <2>1. none \in Seq(Seq(Char))
      BY EmptySeq
    <2> HIDE DEF none
    <2>2. [words |-> none, inside |-> FALSE] \in SplitStates
      BY <2>1 DEF SplitStates
    <2> QED
      BY <2>2 DEF none
  <1>3. step \in [1 .. n -> [X -> X]]
    BY <1>1, SplitStays
  <1> HIDE DEF x0, X
  <1>4. \E t : Obeys(t)
    <2>1. PICK f \in [0 .. n -> X] : Iterates(f, n, x0, step)
      <3> HIDE DEF n, step
      <3> QED
        BY <1>1, <1>2, <1>3, RecursionExists, Zenon
    <2>2. ASSUME NEW k \in 0 .. n
          PROVE  f[k] = IF k = 0 THEN x0 ELSE Split(f[k - 1], line[k])
      <3>1. CASE k = 0
        BY <2>1, <3>1 DEF Iterates
      <3>2. CASE k # 0
        <4>1. k \in 1 .. n /\ k - 1 \in 0 .. n
          BY <1>1, <3>2
        <4>2. f[k - 1] \in X
          BY <2>1, <4>1
        <4>3. f[k] = step[k][f[k - 1]]
          BY <2>1, <4>1 DEF Iterates
        <4> QED
          BY <3>2, <4>1, <4>2, <4>3
      <3> QED
        BY <3>1, <3>2
    <2>3. f = [k \in 0 .. n |-> f[k]]
      BY <2>1
    <2>4. Obeys(f)
      <3> HIDE DEF n
      <3> QED
        BY <2>2, <2>3
    <2> QED
      BY <2>4
  <1>5. Obeys(st)
    <2> HIDE DEF Obeys
    <2> QED
      BY <1>4
  <1>6. cmd_run(line) = AtMost(st[n].words, MaxArgs)
    BY DEF cmd_run, x0
  <1> HIDE DEF st, step
  <1> DEFINE Good(k) == st[k] \in X /\ HasWords(line, k, st[k])
             S == {k \in Nat : k <= n => Good(k)}
  <1>7. 0 \in S
    <2>1. st[0] = x0
      BY <1>1, <1>5
    <2>2. Starts(line, 0) = {} /\ Cardinality({}) = 0
      BY FS_EmptySet DEF Starts
    <2>3. x0.inside = FALSE /\ x0.words = <<>>
      BY DEF x0
    <2>4. Len(<<>>) = 0
      OBVIOUS
    <2>5. HasWords(line, 0, x0)
      BY <2>2, <2>3, <2>4 DEF HasWords
    <2> QED
      BY <1>2, <2>1, <2>5
  <1>8. ASSUME NEW k \in Nat, k \in S PROVE k + 1 \in S
    <2>1. SUFFICES ASSUME k + 1 <= n PROVE Good(k + 1)
      OBVIOUS
    <2>2. k + 1 \in 1 .. n /\ k + 1 \in 0 .. n /\ k + 1 # 0 /\ (k + 1) - 1 = k
      BY <1>1, <2>1
    <2>3. st[k + 1] = Split(st[k], line[k + 1])
      BY <1>5, <2>2
    <2>4. Good(k)
      BY <1>1, <1>8, <2>1
    <2>5. st[k] \in SplitStates /\ line[k + 1] \in Char
      BY <1>1, <2>2, <2>4 DEF X
    <2>6. st[k + 1] \in X
      BY <2>3, <2>5, SplitStays DEF X
    <2>7. HasWords(line, k + 1, st[k + 1])
      BY <2>1, <2>3, <2>4, <2>5, SplitTurn
    <2> QED
      BY <2>6, <2>7
  <1>9. n \in S
    <2> HIDE DEF S
    <2> QED
      BY <1>1, <1>7, <1>8, NatSetInduction
  <1> QED
    BY <1>1, <1>6, <1>9 DEF X

\* The words are the line's longest runs without a blank.
LEMMA CmdRunIs ==
    ASSUME NEW line \in Seq(Char)
    PROVE  /\ cmd_run(line) = AtMost(WordsOf(line), MaxArgs)
           /\ WordsOf(line) \in Seq(Seq(Char))
           /\ \A k \in 1 .. Len(WordsOf(line)) : Len(WordsOf(line)[k]) \in 0 .. Len(line)
  <1> DEFINE N == Len(line)
             Run(i, j) == /\ \A k \in i .. j : line[k] # BLANK
                          /\ i = 1 \/ line[i - 1] = BLANK
                          /\ j = Len(line) \/ line[j + 1] = BLANK
             starts == {i \in DOMAIN line : \E j \in i .. Len(line) : Run(i, j)}
             Start(n) == CHOOSE i \in starts : Cardinality({j \in starts : j <= i}) = n
             End(i) == CHOOSE j \in i .. Len(line) : Run(i, j)
             c == Cardinality(starts)
             words == [n \in 1 .. c |-> SubSeq(line, Start(n), End(Start(n)))]
             S == Starts(line, N)
  <1>1. WordsOf(line) = words
    BY DEF WordsOf
  <1>2. N \in Nat /\ DOMAIN line = 1 .. N
    BY LenProperties
  <1>3. ASSUME NEW i \in S PROVE \E j \in i .. N : Run(i, j)
    <2>1. i \in 1 .. N /\ line[i] # BLANK /\ (i = 1 \/ line[i - 1] = BLANK)
      BY DEF Starts
    <2>2. PICK e \in i .. N : Reaches(line, N, i, e)
      BY <2>1, RunEnds
    <2> QED
      BY <2>1, <2>2 DEF Reaches
  <1>4. starts = S
    <2>1. ASSUME NEW i \in starts PROVE i \in S
      <3>1. PICK j \in i .. N : Run(i, j)
        OBVIOUS
      <3>2. i \in 1 .. N /\ i \in i .. j
        <4>1. i \in DOMAIN line
          OBVIOUS
        <4> HIDE DEF starts, Run
        <4> QED
          BY <1>2, <3>1, <4>1
      <3> QED
        BY <3>1, <3>2 DEF Starts
    <2>2. ASSUME NEW i \in S PROVE i \in starts
      <3>1. i \in 1 .. N
        BY DEF Starts
      <3> HIDE DEF Run, S
      <3> QED
        BY <1>2, <1>3, <3>1
    <2> QED
      BY <2>1, <2>2
  <1>5. \A i \in starts : \A j \in i .. N : Run(i, j) => Reaches(line, N, i, j)
    BY DEF Reaches
  <1>6. starts \subseteq 1 .. N
    BY <1>2
  <1>7. \A i \in starts : End(i) \in i .. N /\ Run(i, End(i))
    OBVIOUS
  <1> HIDE DEF Run, starts, End, S
  <1>8. c \in Nat /\ \A n \in 1 .. c : \E i \in starts : Rank(starts, i) = n
    BY <1>2, <1>6, RankFacts
  <1>9. \A n \in 1 .. c : Start(n) \in starts /\ Rank(starts, Start(n)) = n
    BY <1>8 DEF Rank
  <1> HIDE DEF Start, c
  <1>10. PICK st \in SplitStates : HasWords(line, N, st) /\ cmd_run(line) = AtMost(st.words, MaxArgs)
    BY SplitIs
  <1> DEFINE w == st.words
  <1>11. w \in Seq(Seq(Char)) /\ Len(w) = c
    BY <1>4, <1>10 DEF HasWords, SplitStates, c, S
  <1>12. ASSUME NEW n \in 1 .. c
         PROVE  /\ w[n] = SubSeq(line, Start(n), End(Start(n)))
                /\ Len(w[n]) \in 0 .. N
    <2> DEFINE i == Start(n)
               e == End(i)
    <2>1. i \in starts /\ Rank(starts, i) = n /\ i \in 1 .. N
      BY <1>6, <1>9
    <2>2. e \in i .. N /\ Reaches(line, N, i, e)
      BY <1>5, <1>7, <2>1
    <2> HIDE DEF i, e
    <2>3. w[Rank(starts, i)] = SubSeq(line, i, e)
      BY <1>4, <1>10, <2>1, <2>2 DEF HasWords, S
    <2>4. Len(SubSeq(line, i, e)) = e - i + 1
      <3>1. \A x \in i .. e : line[x] \in Char
        BY <1>2, <2>1, <2>2, ElementOfSeq
      <3>2. i \in Int /\ e \in Int /\ i <= e
        BY <1>2, <2>1, <2>2
      <3> QED
        BY <2>1, <2>2, <3>1, <3>2, SubSeqProperties
    <2>5. e - i + 1 \in 0 .. N
      BY <1>2, <2>1, <2>2
    <2> QED
      BY <2>1, <2>3, <2>4, <2>5 DEF i, e
  <1>13. w = words
    <2>1. w = [n \in 1 .. c |-> w[n]]
      BY <1>11, LenProperties
    <2> HIDE DEF w
    <2> QED
      BY <1>12, <2>1
  <1> HIDE DEF w, words
  <1> QED
    BY <1>1, <1>10, <1>11, <1>12, <1>13 DEF w
------------------------------------------------------------------------------
(***************************************************************************)
(* The stack.  Loops that go down from n + 1 are those of RecursionExists  *)
(* seen from the other end.                                                *)
(***************************************************************************)
Descends(f, n, x0, step) == f[n + 1] = x0 /\ \A i \in 1 .. n : f[i] = step[i][f[i + 1]]

LEMMA DownwardExists ==
    ASSUME NEW n \in Nat, NEW X, NEW x0 \in X, NEW step \in [1 .. n -> [X -> X]]
    PROVE  \E f \in [1 .. n + 1 -> X] : Descends(f, n, x0, step)
  <1> DEFINE up == [k \in 1 .. n |-> step[n + 1 - k]]
  <1>1. up \in [1 .. n -> [X -> X]]
    <2>1. \A k \in 1 .. n : n + 1 - k \in 1 .. n
      OBVIOUS
    <2> QED
      BY <2>1
  <1>2. PICK g \in [0 .. n -> X] : Iterates(g, n, x0, up)
    <2> HIDE DEF up
    <2> QED
      BY <1>1, RecursionExists, Zenon
  <1> DEFINE f == [i \in 1 .. n + 1 |-> g[n + 1 - i]]
  <1>3. f \in [1 .. n + 1 -> X]
    <2>1. \A i \in 1 .. n + 1 : n + 1 - i \in 0 .. n
      OBVIOUS
    <2> QED
      BY <2>1
  <1>4. f[n + 1] = x0
    <2>1. n + 1 \in 1 .. n + 1 /\ (n + 1) - (n + 1) = 0
      OBVIOUS
    <2> QED
      BY <1>2, <2>1 DEF Iterates
  <1>5. ASSUME NEW i \in 1 .. n PROVE f[i] = step[i][f[i + 1]]
    <2> DEFINE k == n + 1 - i
    <2>1. k \in 1 .. n /\ n + 1 - k = i /\ k - 1 = n + 1 - (i + 1)
          /\ i \in 1 .. n + 1 /\ i + 1 \in 1 .. n + 1
      OBVIOUS
    <2>2. f[i] = g[k] /\ f[i + 1] = g[k - 1]
      BY <2>1
    <2>3. g[k] = up[k][g[k - 1]] /\ up[k] = step[i]
      <3> HIDE DEF k
      <3> QED
        BY <1>2, <2>1 DEF Iterates
    <2> HIDE DEF f, up, k
    <2> QED
      BY <2>2, <2>3
  <1> HIDE DEF f
  <1> QED
    BY <1>3, <1>4, <1>5 DEF Descends

LEMMA DownwardInduction ==
    ASSUME NEW n \in Nat, NEW S, n + 1 \in S, \A i \in 1 .. n : i + 1 \in S => i \in S
    PROVE  1 .. n + 1 \subseteq S
  <1> DEFINE T == {k \in Nat : k <= n => n + 1 - k \in S}
  <1>1. 0 \in T
    OBVIOUS
  <1>2. ASSUME NEW k \in Nat, k \in T PROVE k + 1 \in T
    <2>1. SUFFICES ASSUME k + 1 <= n PROVE n + 1 - (k + 1) \in S
      OBVIOUS
    <2>2. n + 1 - (k + 1) \in 1 .. n /\ (n + 1 - (k + 1)) + 1 = n + 1 - k
      BY <2>1
    <2>3. n + 1 - k \in S
      BY <1>2, <2>1
    <2> QED
      BY <2>2, <2>3
  <1>3. Nat \subseteq T
    <2> HIDE DEF T
    <2> QED
      BY <1>1, <1>2, NatSetInduction
  <1>4. ASSUME NEW i \in 1 .. n + 1 PROVE i \in S
    <2>1. CASE i = n + 1
      BY <2>1
    <2>2. CASE i # n + 1
      <3>1. n + 1 - i \in Nat /\ n + 1 - i <= n /\ n + 1 - (n + 1 - i) = i
        BY <2>2
      <3>2. n + 1 - i \in T
        BY <1>3, <3>1
      <3> QED
        BY <3>1, <3>2
    <2> QED
      BY <2>1, <2>2
  <1> QED
    BY <1>4

LEMMA AtMostFacts ==
    ASSUME NEW X, NEW s \in Seq(X), NEW n \in Nat
    PROVE  /\ AtMost(s, n) \in Seq(X)
           /\ Len(AtMost(s, n)) = IF Len(s) < n THEN Len(s) ELSE n
           /\ \A i \in 1 .. Len(AtMost(s, n)) : AtMost(s, n)[i] = s[i]
           /\ Len(s) <= n => AtMost(s, n) = s
  <1> DEFINE m == IF Len(s) < n THEN Len(s) ELSE n
             r == SubSeq(s, 1, m)
  <1>1. m \in Nat /\ m <= Len(s) /\ Len(s) \in Nat /\ (Len(s) <= n => m = Len(s))
    BY LenProperties
  <1>2. AtMost(s, n) = r
    BY DEF AtMost
  <1> HIDE DEF m
  <1>3. \A i \in 1 .. m : s[i] \in X
    BY <1>1, ElementOfSeq
  <1>4. /\ r \in Seq(X) /\ Len(r) = m
        /\ \A i \in 1 .. m : r[i] = s[i]
    <2>1. r \in Seq(X) /\ Len(r) = IF 1 <= m THEN m - 1 + 1 ELSE 0
      BY <1>1, <1>3, SubSeqProperties
    <2>2. \A i \in 1 .. m - 1 + 1 : r[i] = s[1 + i - 1]
      BY <1>1, <1>3, SubSeqProperties
    <2> HIDE DEF r
    <2> QED
      BY <1>1, <2>1, <2>2
  <1> HIDE DEF r
  <1>5. Len(s) <= n => r = s
    <2>1. SUFFICES ASSUME Len(s) <= n PROVE r = s
      OBVIOUS
    <2>2. Len(r) = Len(s) /\ \A i \in 1 .. Len(r) : r[i] = s[i]
      BY <1>1, <1>4, <2>1
    <2> QED
      BY <1>4, <2>2, SeqEqual
  <1> QED
    BY <1>2, <1>4, <1>5 DEF m

LEMMA PutNumberFacts ==
    ASSUME NEW m \in [Stack -> Int], NEW a \in Stack, NEW n \in Int
    PROVE  /\ PutNumber(m, a, n) \in [Stack -> Int]
           /\ PutNumber(m, a, n)[a] = n
           /\ \A x \in Stack : x < a \/ x >= a + PointerSize => PutNumber(m, a, n)[x] = m[x]
  <1>1. PointerSize \in Nat \ {0} /\ Stack \subseteq Int
    BY ArgsAssumptions, StackAssumption DEF Stack
  <1>2. REST \in Int
    BY DEF REST
  <1>3. ASSUME NEW x \in Stack, x < a \/ x >= a + PointerSize
        PROVE  x # a /\ x \notin a + 1 .. a + PointerSize - 1
    BY <1>1, <1>3
  <1> QED
    BY <1>2, <1>3 DEF PutNumber

LEMMA PutStringFacts ==
    ASSUME NEW m \in [Stack -> Int], NEW a \in Int, NEW s \in Seq(Char)
    PROVE  LET r == PutString(m, a, s)
           IN  /\ r \in [Stack -> Int]
               /\ \A k \in 1 .. Len(s) : a + k - 1 \in Stack => r[a + k - 1] = s[k]
               /\ a + Len(s) \in Stack => r[a + Len(s)] = NUL
               /\ \A x \in Stack : x > a + Len(s) => r[x] = m[x]
  <1> DEFINE n == Len(s)
  <1>1. n \in Nat /\ \A k \in 1 .. n : s[k] \in Char /\ s[k] \in Int
    <2>1. n \in Nat /\ \A k \in 1 .. n : s[k] \in Char
      BY LenProperties, ElementOfSeq
    <2>2. Char \subseteq Int
      BY DEF Char
    <2> QED
      BY <2>1, <2>2
  <1>2. Stack \subseteq Int
    BY StackAssumption DEF Stack
  <1> HIDE DEF n
  <1>3. PutString(m, a, s) = [x \in Stack |-> IF x \in a .. a + n - 1 THEN s[x - a + 1]
                                              ELSE IF x = a + n THEN NUL ELSE m[x]]
    BY DEF PutString, n
  <1>4. \A x \in a .. a + n - 1 : x - a + 1 \in 1 .. n
    BY <1>1
  <1>5. \A k \in 1 .. n : a + k - 1 \in a .. a + n - 1 /\ (a + k - 1) - a + 1 = k
    BY <1>1
  <1>6. a + n \notin a .. a + n - 1 /\ \A x \in Int : x > a + n => x # a + n /\ x \notin a .. a + n - 1
    BY <1>1
  <1>7. PutString(m, a, s) \in [Stack -> Int]
    BY <1>1, <1>3, <1>4 DEF NUL
  <1>8. \A k \in 1 .. n : a + k - 1 \in Stack => PutString(m, a, s)[a + k - 1] = s[k]
    BY <1>3, <1>5
  <1>9. a + n \in Stack => PutString(m, a, s)[a + n] = NUL
    BY <1>3, <1>6
  <1>10. \A x \in Stack : x > a + n => PutString(m, a, s)[x] = m[x]
    BY <1>2, <1>3, <1>6
  <1> QED
    BY <1>7, <1>8, <1>9, <1>10 DEF n
\* The loops of sam_build_args.
PtrOf(argv, n, top) ==
    LET ptr[i \in 1 .. n + 1] == IF i > n THEN top ELSE ptr[i + 1] - (Len(argv[i]) + 1) IN ptr

StringsOf(m, argv, ptr, n) ==
    LET strings[i \in 1 .. n + 1] ==
            IF i > n THEN m ELSE PutString(strings[i + 1], ptr[i], argv[i])
    IN  strings

PointersOf(m, av, ptr, n) ==
    LET pointers[i \in 0 .. n] ==
            IF i = 0 THEN m ELSE PutNumber(pointers[i - 1], av + PointerSize * (i - 1), ptr[i])
    IN  pointers

LEMMA PtrIs ==
    ASSUME NEW argv \in Seq(Seq(Char)), NEW n \in Nat, n <= Len(argv), NEW top \in Int
    PROVE  LET ptr == PtrOf(argv, n, top)
           IN  /\ ptr \in [1 .. n + 1 -> Int] /\ ptr[n + 1] = top
               /\ \A i \in 1 .. n : ptr[i] = ptr[i + 1] - (Len(argv[i]) + 1)
  <1> DEFINE size == [i \in 1 .. n |-> Len(argv[i]) + 1]
             step == [i \in 1 .. n |-> [x \in Int |-> x - size[i]]]
             Obeys(t) == t = [i \in 1 .. n + 1 |->
                                 IF i > n THEN top ELSE t[i + 1] - (Len(argv[i]) + 1)]
             p == CHOOSE t : Obeys(t)
  <1>1. ASSUME NEW i \in 1 .. n PROVE size[i] \in Nat /\ size[i] = Len(argv[i]) + 1
    <2>1. i \in 1 .. Len(argv)
      BY LenProperties
    <2>2. argv[i] \in Seq(Char)
      BY <2>1, ElementOfSeq
    <2> QED
      BY <2>2, LenProperties
  <1> HIDE DEF size
  <1>2. step \in [1 .. n -> [Int -> Int]]
    BY <1>1
  <1>3. PICK f \in [1 .. n + 1 -> Int] : f[n + 1] = top /\ \A i \in 1 .. n : f[i] = step[i][f[i + 1]]
    <2> DEFINE X == Int
    <2>1. top \in X /\ step \in [1 .. n -> [X -> X]]
      BY <1>2
    <2> HIDE DEF step, X
    <2>2. \E f \in [1 .. n + 1 -> X] : Descends(f, n, top, step)
      BY <2>1, DownwardExists, Zenon
    <2> QED
      BY <2>2 DEF X, Descends
  <1>4. ASSUME NEW i \in 1 .. n + 1
        PROVE  f[i] = IF i > n THEN top ELSE f[i + 1] - (Len(argv[i]) + 1)
    <2>1. CASE i = n + 1
      BY <1>3, <2>1
    <2>2. CASE i # n + 1
      <3>1. i \in 1 .. n /\ i + 1 \in 1 .. n + 1 /\ ~ (i > n)
        BY <2>2
      <3>2. f[i] = step[i][f[i + 1]] /\ f[i + 1] \in Int
        BY <1>3, <3>1
      <3>3. f[i] = f[i + 1] - size[i]
        BY <3>1, <3>2
      <3> QED
        BY <1>1, <3>1, <3>3
    <2> QED
      BY <2>1, <2>2
  <1>5. f = [i \in 1 .. n + 1 |-> f[i]]
    BY <1>3
  <1>6. Obeys(f)
    BY <1>4, <1>5
  <1>7. Obeys(p)
    <2> HIDE DEF Obeys
    <2> QED
      BY <1>6
  <1>8. PtrOf(argv, n, top) = p
    BY DEF PtrOf
  <1> HIDE DEF p
  <1>9. ASSUME NEW i \in 1 .. n + 1 PROVE p[i] = IF i > n THEN top ELSE p[i + 1] - (Len(argv[i]) + 1)
    BY <1>7
  <1>10. p[n + 1] = top
    BY <1>9
  <1>11. \A i \in 1 .. n : p[i] = p[i + 1] - size[i]
    <2>1. \A i \in 1 .. n : i \in 1 .. n + 1 /\ ~ (i > n)
      OBVIOUS
    <2> QED
      BY <1>1, <1>9, <2>1
  <1> DEFINE S == {i \in 1 .. n + 1 : p[i] \in Int}
  <1>12. 1 .. n + 1 \subseteq S
    <2>1. n + 1 \in S
      BY <1>10
    <2>2. \A i \in 1 .. n : i + 1 \in S => i \in S
      <3> SUFFICES ASSUME NEW i \in 1 .. n, p[i + 1] \in Int PROVE i \in 1 .. n + 1 /\ p[i] \in Int
        OBVIOUS
      <3>1. i \in 1 .. n + 1
        OBVIOUS
      <3>2. p[i] = p[i + 1] - size[i] /\ size[i] \in Int
        BY <1>1, <1>11
      <3> QED
        BY <3>1, <3>2
    <2> HIDE DEF S
    <2> QED
      BY <2>1, <2>2, DownwardInduction
  <1>13. p \in [1 .. n + 1 -> Int]
    <2>1. p = [i \in 1 .. n + 1 |-> p[i]]
      BY <1>7
    <2> QED
      BY <1>12, <2>1
  <1> QED
    BY <1>1, <1>8, <1>10, <1>11, <1>13

\* Strings lie one behind the other; what they take together is bounded.
LEMMA PtrFacts ==
    ASSUME NEW argv \in Seq(Seq(Char)), NEW n \in Nat, n <= Len(argv), NEW L \in Nat,
           \A i \in 1 .. n : Len(argv[i]) \in 0 .. L,
           NEW ptr \in [1 .. n + 1 -> Int],
           \A i \in 1 .. n : ptr[i] = ptr[i + 1] - (Len(argv[i]) + 1)
    PROVE  /\ \A i \in 1 .. n : \A j \in i + 1 .. n + 1 : ptr[i] + Len(argv[i]) < ptr[j]
           /\ \A i \in 1 .. n + 1 : ptr[1] <= ptr[i]
           /\ ptr[1] >= ptr[n + 1] - n * (L + 1)
  <1> DEFINE Behind(i) == \A j \in i + 1 .. n + 1 : ptr[i] + Len(argv[i]) < ptr[j]
             B == {i \in 1 .. n + 1 : i <= n => Behind(i)}
             room(i) == (n + 1 - i) * (L + 1)
             R == {i \in 1 .. n + 1 : ptr[i] >= ptr[n + 1] - room(i)}
  <1>1. \A i \in 1 .. n : i \in 1 .. n + 1 /\ i + 1 \in 1 .. n + 1 /\ Len(argv[i]) \in Nat
    OBVIOUS
  <1>2. n + 1 \in 1 .. n + 1
    OBVIOUS
  <1>3. 1 .. n + 1 \subseteq B
    <2>1. n + 1 \in B
      BY <1>2
    <2>2. ASSUME NEW i \in 1 .. n, i + 1 \in B PROVE i \in B
      <3>1. ASSUME NEW j \in i + 1 .. n + 1 PROVE ptr[i] + Len(argv[i]) < ptr[j]
        <4>1. ptr[i] + Len(argv[i]) < ptr[i + 1]
          <5> DEFINE a == ptr[i]
                     b == ptr[i + 1]
                     x == Len(argv[i])
          <5>1. a = b - (x + 1)
            OBVIOUS
          <5>2. b \in Int /\ x \in Nat
            BY <1>1
          <5> HIDE DEF a, b, x
          <5>3. a + x < b
            BY ONLY <5>1, <5>2
          <5> QED
            BY <5>3 DEF a, b, x
        <4>2. CASE j = i + 1
          BY <4>1, <4>2
        <4>3. CASE j # i + 1
          <5>1. i + 1 \in 1 .. n /\ j \in (i + 1) + 1 .. n + 1 /\ j \in 1 .. n + 1
            BY <4>3
          <5>2. Behind(i + 1)
            BY <2>2, <5>1
          <5>3. ptr[i + 1] + Len(argv[i + 1]) < ptr[j]
            BY <5>1, <5>2
          <5>4. Len(argv[i + 1]) \in Nat /\ ptr[i] \in Int /\ Len(argv[i]) \in Nat
                /\ ptr[i + 1] \in Int /\ ptr[j] \in Int
            BY <1>1, <5>1
          <5> DEFINE a == ptr[i]
                     b == ptr[i + 1]
                     c == ptr[j]
                     x == Len(argv[i])
                     y == Len(argv[i + 1])
          <5>5. /\ a \in Int /\ b \in Int /\ c \in Int /\ x \in Nat /\ y \in Nat
                /\ a + x < b /\ b + y < c
            BY <4>1, <5>3, <5>4
          <5> HIDE DEF Behind, B, R, room, a, b, c, x, y
          <5>6. a + x < c
            BY ONLY <5>5
          <5> QED
            BY <5>6 DEF a, c, x
        <4> QED
          BY <4>2, <4>3
      <3>2. Behind(i)
        BY <3>1
      <3> HIDE DEF Behind
      <3> QED
        BY <1>1, <3>2
    <2> HIDE DEF B
    <2> QED
      BY <2>1, <2>2, DownwardInduction
  <1>4. \A i \in 1 .. n : Behind(i)
    <2>1. \A i \in 1 .. n : i \in 1 .. n + 1 /\ i <= n
      OBVIOUS
    <2> HIDE DEF Behind
    <2> QED
      BY <1>3, <2>1
  <1>5. ASSUME NEW i \in 1 .. n + 1 PROVE ptr[1] <= ptr[i]
    <2>1. CASE i = 1
      BY <2>1
    <2>2. CASE i # 1
      <3>1. 1 \in 1 .. n /\ i \in 1 + 1 .. n + 1
        BY <2>2
      <3>2. ptr[1] + Len(argv[1]) < ptr[i]
        BY <1>4, <3>1
      <3>3. ptr[1] \in Int /\ ptr[i] \in Int /\ Len(argv[1]) \in Nat
        BY <1>1, <3>1
      <3> QED
        BY <3>2, <3>3
    <2> QED
      BY <2>1, <2>2
  <1>6. 1 .. n + 1 \subseteq R
    <2>1. n + 1 \in R
      <3>1. room(n + 1) = 0
        OBVIOUS
      <3> HIDE DEF room
      <3> QED
        BY <1>2, <3>1
    <2>2. ASSUME NEW i \in 1 .. n, i + 1 \in R PROVE i \in R
      <3>1. room(i) = room(i + 1) + (L + 1) /\ room(i) \in Int /\ room(i + 1) \in Int
        OBVIOUS
      <3>2. ptr[i] = ptr[i + 1] - (Len(argv[i]) + 1) /\ Len(argv[i]) <= L /\ Len(argv[i]) \in Nat
        BY <1>1
      <3>3. ptr[i + 1] >= ptr[n + 1] - room(i + 1)
        BY <2>2
      <3>4. ptr[i] \in Int /\ ptr[i + 1] \in Int /\ ptr[n + 1] \in Int
        BY <1>1, <1>2
      <3> HIDE DEF room
      <3>5. ptr[i] >= ptr[n + 1] - room(i)
        <4> DEFINE x == Len(argv[i])
                   a == ptr[i]
                   b == ptr[i + 1]
                   e == ptr[n + 1]
        <4>1. /\ a = b - (x + 1) /\ x <= L /\ x \in Nat /\ b >= e - room(i + 1)
              /\ a \in Int /\ b \in Int /\ e \in Int
          BY <3>2, <3>3, <3>4
        <4> DEFINE r == room(i)
                   r1 == room(i + 1)
        <4>2. r = r1 + (L + 1) /\ r \in Int /\ r1 \in Int /\ L \in Nat /\ b >= e - r1
          BY <3>1, <4>1
        <4> HIDE DEF x, a, b, e, r, r1, R, B, Behind
        <4>3. a >= e - r
          BY ONLY <4>1, <4>2
        <4> QED
          BY <4>3 DEF a, e, r
      <3> QED
        BY <1>1, <3>5
    <2> HIDE DEF R
    <2> QED
      BY <2>1, <2>2, DownwardInduction
  <1>7. ptr[1] >= ptr[n + 1] - n * (L + 1)
    <2>1. 1 \in 1 .. n + 1 /\ room(1) = n * (L + 1)
      OBVIOUS
    <2> HIDE DEF room
    <2>2. ptr[1] >= ptr[n + 1] - room(1)
      BY <1>6, <2>1
    <2> QED
      BY <2>1, <2>2
  <1> QED
    BY <1>4, <1>5, <1>7
\* Memory m has the string s at a.
Holds(m, a, s) == (\A k \in 1 .. Len(s) : m[a + k - 1] = s[k]) /\ m[a + Len(s)] = NUL

\* Writing a string puts it there, and leaves those behind it.
LEMMA HoldsPut ==
    ASSUME NEW m \in [Stack -> Int], NEW a \in Int, NEW s \in Seq(Char),
           \A x \in a .. a + Len(s) : x \in Stack
    PROVE  /\ PutString(m, a, s) \in [Stack -> Int] /\ Holds(PutString(m, a, s), a, s)
           /\ \A b \in Int : \A t \in Seq(Char) :
                 /\ a + Len(s) < b /\ Holds(m, b, t)
                 /\ \A x \in b .. b + Len(t) : x \in Stack
                 => Holds(PutString(m, a, s), b, t)
  <1> DEFINE r == PutString(m, a, s)
  <1>1. /\ r \in [Stack -> Int]
        /\ \A k \in 1 .. Len(s) : a + k - 1 \in Stack => r[a + k - 1] = s[k]
        /\ a + Len(s) \in Stack => r[a + Len(s)] = NUL
        /\ \A x \in Stack : x > a + Len(s) => r[x] = m[x]
    BY PutStringFacts
  <1>2. Len(s) \in Nat
    BY LenProperties
  <1> HIDE DEF r
  <1>3. Holds(r, a, s)
    <2>1. a + Len(s) \in a .. a + Len(s) /\ \A k \in 1 .. Len(s) : a + k - 1 \in a .. a + Len(s)
      BY <1>2
    <2> QED
      BY <1>1, <2>1 DEF Holds
  <1>4. ASSUME NEW b \in Int, NEW t \in Seq(Char), a + Len(s) < b, Holds(m, b, t),
               \A x \in b .. b + Len(t) : x \in Stack
        PROVE  Holds(r, b, t)
    <2>1. Len(t) \in Nat
      BY LenProperties
    <2>2. \A x \in b .. b + Len(t) : x \in Stack /\ x > a + Len(s)
      BY <1>2, <1>4
    <2>3. \A x \in b .. b + Len(t) : r[x] = m[x]
      BY <1>1, <2>2
    <2>4. b + Len(t) \in b .. b + Len(t) /\ \A k \in 1 .. Len(t) : b + k - 1 \in b .. b + Len(t)
      BY <2>1
    <2> QED
      BY <1>4, <2>3, <2>4 DEF Holds
  <1> QED
    BY <1>1, <1>3, <1>4 DEF r

\* A program reads the string at a.
LEMMA StringRead ==
    ASSUME NEW m, DOMAIN m = Stack, NEW a \in Int, NEW s \in Seq(Char), Holds(m, a, s),
           \A x \in a .. a + Len(s) : x \in Stack
    PROVE  StringAt(m, a) = s
  <1> DEFINE n == Len(s)
             ends == {x \in DOMAIN m : x >= a /\ m[x] = NUL}
             end == CHOOSE x \in ends : \A y \in ends : x <= y
  <1>1. n \in Nat /\ (\A k \in 1 .. n : s[k] \in Char) /\ s = [k \in 1 .. n |-> s[k]]
    BY LenProperties, ElementOfSeq
  <1>2. Stack \subseteq Int
    BY StackAssumption DEF Stack
  <1>3. \A k \in 1 .. n : s[k] # NUL
    <2>1. \A c \in Char : c # NUL
      BY DEF Char, NUL
    <2> QED
      BY <1>1, <2>1
  <1>4. a + n \in ends
    <2>1. a + n \in a .. a + n /\ a + n >= a
      BY <1>1
    <2> QED
      BY <2>1 DEF Holds
  <1>5. ASSUME NEW y \in ends PROVE a + n <= y
    <2>1. y \in Int /\ y >= a /\ m[y] = NUL
      BY <1>2
    <2>2. SUFFICES ASSUME y < a + n PROVE FALSE
      BY <1>1, <2>1
    <2>3. y - a + 1 \in 1 .. n /\ a + (y - a + 1) - 1 = y
      BY <1>1, <2>1, <2>2
    <2>4. m[y] = s[y - a + 1]
      BY <2>3 DEF Holds
    <2> QED
      BY <1>3, <2>1, <2>3, <2>4
  <1>6. ends \subseteq Int
    BY <1>2
  <1>7. end = a + n
    <2>1. end \in ends /\ \A y \in ends : end <= y
      <3> HIDE DEF ends
      <3> QED
        BY <1>4, <1>5
    <2>2. end \in Int /\ end <= a + n /\ a + n <= end
      <3> HIDE DEF ends, end
      <3> QED
        BY <1>4, <1>5, <1>6, <2>1
    <2> HIDE DEF end
    <2> QED
      BY <1>1, <2>2
  <1>8. StringAt(m, a) = [k \in 1 .. end - a |-> m[a + k - 1]]
    BY DEF StringAt
  <1> HIDE DEF end, n
  <1>9. end - a = n
    BY <1>1, <1>7
  <1>10. \A k \in 1 .. n : m[a + k - 1] = s[k]
    BY DEF Holds, n
  <1> QED
    BY <1>1, <1>8, <1>9, <1>10

\* The array's loop writes each pointer at its place and nothing outside.
LEMMA PointersAre ==
    ASSUME NEW m \in [Stack -> Int], NEW av \in Int, NEW n \in Nat, NEW ptr \in [1 .. n + 1 -> Int],
           \A x \in av .. av + PointerSize * n : x \in Stack
    PROVE  LET r == PointersOf(m, av, ptr, n)[n]
           IN  /\ r \in [Stack -> Int]
               /\ \A i \in 1 .. n : r[av + PointerSize * (i - 1)] = ptr[i]
               /\ \A x \in Stack : x < av \/ x >= av + PointerSize * n => r[x] = m[x]
  <1> DEFINE X == [Stack -> Int]
             at == [i \in 1 .. n + 1 |-> av + PointerSize * (i - 1)]
             step == [i \in 1 .. n |-> [x \in X |-> PutNumber(x, at[i], ptr[i])]]
             Obeys(t) == t = [i \in 0 .. n |->
                 IF i = 0 THEN m ELSE PutNumber(t[i - 1], av + PointerSize * (i - 1), ptr[i])]
             p == CHOOSE t : Obeys(t)
  <1>1. PointerSize \in Nat /\ PointerSize > 0
    BY ArgsAssumptions
  <1>2. /\ at[1] = av /\ at[n + 1] = av + PointerSize * n
        /\ \A i \in 1 .. n : at[i] = av + PointerSize * (i - 1)
        /\ \A i \in 1 .. n : i \in 1 .. n + 1 /\ i + 1 \in 1 .. n + 1
        /\ \A i \in 1 .. n : at[i + 1] = at[i] + PointerSize
        /\ at \in [1 .. n + 1 -> Int]
    <2>1. \A i \in 1 .. n + 1 : PointerSize * (i - 1) \in Int
      BY <1>1
    <2>2. \A i \in 1 .. n : i \in 1 .. n + 1 /\ i + 1 \in 1 .. n + 1 /\ (i + 1) - 1 = i
      OBVIOUS
    <2>3. \A i \in 1 .. n : PointerSize * i = PointerSize * (i - 1) + PointerSize
      BY <1>1
    <2>4. 1 \in 1 .. n + 1 /\ n + 1 \in 1 .. n + 1 /\ PointerSize * (1 - 1) = 0 /\ (n + 1) - 1 = n
      BY <1>1
    <2>5. \A i \in 1 .. n : at[i + 1] = at[i] + PointerSize
      <3> TAKE i \in 1 .. n
      <3>1. at[i + 1] = av + PointerSize * i /\ at[i] = av + PointerSize * (i - 1)
        BY <2>2
      <3> DEFINE a == PointerSize * i
                 b == PointerSize * (i - 1)
      <3>2. a = b + PointerSize /\ a \in Int /\ b \in Int
        BY <1>1, <2>3
      <3>3. at[i + 1] = av + a /\ at[i] = av + b
        BY <3>1
      <3> HIDE DEF a, b, at
      <3> QED
        BY <1>1, <3>2, <3>3
    <2>6. at \in [1 .. n + 1 -> Int]
      BY <2>1
    <2>7. at[1] = av /\ at[n + 1] = av + PointerSize * n
      <3>1. at[1] = av + PointerSize * (1 - 1) /\ at[n + 1] = av + PointerSize * ((n + 1) - 1)
        BY <2>4
      <3> HIDE DEF at
      <3> QED
        BY <2>4, <3>1
    <2>8. \A i \in 1 .. n : at[i] = av + PointerSize * (i - 1)
      BY <2>2
    <2> HIDE DEF at
    <2> QED
      BY <2>2, <2>5, <2>6, <2>7, <2>8
  <1>3. \A x \in at[1] .. at[n + 1] : x \in Stack
    BY <1>2
  <1>4. \A t : Obeys(t) <=> t = [i \in 0 .. n |-> IF i = 0 THEN m ELSE PutNumber(t[i - 1], at[i], ptr[i])]
    <2>1. ASSUME NEW t
          PROVE  [i \in 0 .. n |-> IF i = 0 THEN m
                                   ELSE PutNumber(t[i - 1], av + PointerSize * (i - 1), ptr[i])]
                 = [i \in 0 .. n |-> IF i = 0 THEN m ELSE PutNumber(t[i - 1], at[i], ptr[i])]
      <3>1. \A i \in 0 .. n : i # 0 => at[i] = av + PointerSize * (i - 1)
        <4>1. \A i \in 0 .. n : i # 0 => i \in 1 .. n
          OBVIOUS
        <4> QED
          BY <1>2, <4>1
      <3> HIDE DEF at
      <3> QED
        BY <3>1
    <2> HIDE DEF at
    <2> QED
      BY <2>1
  <1>5. PointersOf(m, av, ptr, n) = p
    BY DEF PointersOf
  <1> HIDE DEF at, Obeys
  <1>6. \A i \in 1 .. n + 1, j \in 1 .. n + 1 : i < j => at[i] + PointerSize <= at[j]
    <2> SUFFICES ASSUME NEW i \in 1 .. n + 1, NEW j \in 1 .. n + 1, i < j
                 PROVE  at[i] + PointerSize <= at[j]
      OBVIOUS
    <2> DEFINE a == (i - 1) * PointerSize
               b == (j - 1) * PointerSize
    <2>1. a + PointerSize <= b
      <3>1. i - 1 \in Int /\ j - 1 \in Int /\ i - 1 < j - 1
        OBVIOUS
      <3> QED
        BY <1>1, <3>1, NextMultiple
    <2>2. a \in Int /\ b \in Int
      BY <1>1
    <2>3. at[i] = av + a /\ at[j] = av + b
      BY <1>1 DEF at
    <2> HIDE DEF a, b
    <2> QED
      BY <1>1, <2>1, <2>2, <2>3
  <1>7. \A i \in 1 .. n : at[1] <= at[i] /\ at[i] <= at[n + 1]
    <2> SUFFICES ASSUME NEW i \in 1 .. n PROVE at[1] <= at[i] /\ at[i] <= at[n + 1]
      OBVIOUS
    <2>1. 1 \in 1 .. n + 1 /\ i \in 1 .. n + 1 /\ n + 1 \in 1 .. n + 1 /\ i < n + 1 /\ (i = 1 \/ 1 < i)
      OBVIOUS
    <2>2. at[i] + PointerSize <= at[n + 1] /\ (1 < i => at[1] + PointerSize <= at[i])
      BY <1>6, <2>1
    <2>3. at[1] \in Int /\ at[i] \in Int /\ at[n + 1] \in Int
      BY <1>2, <2>1
    <2> QED
      BY <1>1, <2>1, <2>2, <2>3
  <1>8. \A i \in 1 .. n : at[i] \in Stack
    <2>1. ASSUME NEW i \in 1 .. n PROVE at[i] \in at[1] .. at[n + 1]
      <3>1. at[i] \in Int /\ at[1] <= at[i] /\ at[i] <= at[n + 1]
        BY <1>2, <1>7
      <3>2. at[1] \in Int /\ at[n + 1] \in Int
        BY <1>2
      <3> QED
        BY <3>1, <3>2
    <2> QED
      BY <1>3, <2>1
  <1>9. \A i \in 1 .. n : ptr[i] \in Int
    BY <1>2
  <1>10. ASSUME NEW x \in X, NEW i \in 1 .. n
         PROVE  /\ PutNumber(x, at[i], ptr[i]) \in X /\ PutNumber(x, at[i], ptr[i])[at[i]] = ptr[i]
                /\ \A y \in Stack : y < at[i] \/ y >= at[i + 1] => PutNumber(x, at[i], ptr[i])[y] = x[y]
    <2>1. at[i] \in Stack /\ ptr[i] \in Int /\ at[i + 1] = at[i] + PointerSize
      BY <1>2, <1>8, <1>9
    <2> DEFINE a == at[i]
               v == ptr[i]
    <2>2. x \in [Stack -> Int] /\ a \in Stack /\ v \in Int
      BY <2>1
    <2> HIDE DEF a, v
    <2>3. /\ PutNumber(x, a, v) \in [Stack -> Int] /\ PutNumber(x, a, v)[a] = v
          /\ \A y \in Stack : y < a \/ y >= a + PointerSize => PutNumber(x, a, v)[y] = x[y]
      BY <2>2, PutNumberFacts
    <2> QED
      BY <2>1, <2>3 DEF a, v
  <1>11. step \in [1 .. n -> [X -> X]]
    <2> HIDE DEF X
    <2> QED
      BY <1>10
  <1>12. \E t : Obeys(t)
    <2>1. PICK f \in [0 .. n -> X] : Iterates(f, n, m, step)
      <3> HIDE DEF X, step
      <3>1. m \in X
        BY DEF X
      <3> QED
        BY <1>11, <3>1, RecursionExists, Zenon
    <2> HIDE DEF X
    <2>2. ASSUME NEW k \in 0 .. n
          PROVE  f[k] = IF k = 0 THEN m ELSE PutNumber(f[k - 1], at[k], ptr[k])
      <3>1. CASE k = 0
        BY <2>1, <3>1 DEF Iterates
      <3>2. CASE k # 0
        <4>1. k \in 1 .. n /\ k - 1 \in 0 .. n
          BY <3>2
        <4>2. f[k - 1] \in X
          BY <2>1, <4>1
        <4>3. f[k] = step[k][f[k - 1]]
          BY <2>1, <4>1 DEF Iterates
        <4> QED
          BY <3>2, <4>1, <4>2, <4>3
      <3> QED
        BY <3>1, <3>2
    <2>3. f = [k \in 0 .. n |-> f[k]]
      BY <2>1
    <2>4. Obeys(f)
      BY <1>4, <2>2, <2>3
    <2> QED
      BY <2>4
  <1>13. Obeys(p)
    BY <1>12
  <1> HIDE DEF p, step
  <1>14. p = [i \in 0 .. n |-> IF i = 0 THEN m ELSE PutNumber(p[i - 1], at[i], ptr[i])]
    BY <1>4, <1>13
  <1> DEFINE Good(k) == /\ p[k] \in X
                        /\ \A i \in 1 .. k : p[k][at[i]] = ptr[i]
                        /\ \A x \in Stack : x < at[1] \/ x >= at[k + 1] => p[k][x] = m[x]
             S == {k \in Nat : k <= n => Good(k)}
  <1>15. 0 \in S
    <2>1. p[0] = m
      BY <1>14
    <2> QED
      BY <2>1
  <1>16. ASSUME NEW k \in Nat, k \in S PROVE k + 1 \in S
    <2>1. SUFFICES ASSUME k + 1 <= n PROVE Good(k + 1)
      OBVIOUS
    <2>2. /\ k + 1 \in 1 .. n /\ k + 1 \in 0 .. n /\ k + 1 # 0 /\ (k + 1) - 1 = k
          /\ 1 .. k \subseteq 1 .. n /\ 1 .. k + 1 = (1 .. k) \cup {k + 1}
      BY <2>1
    <2>3. p[k + 1] = PutNumber(p[k], at[k + 1], ptr[k + 1])
      BY <1>14, <2>2
    <2>4. Good(k)
      BY <1>16, <2>1
    <2> DEFINE q == p[k + 1]
    <2>5. /\ q \in X /\ q[at[k + 1]] = ptr[k + 1]
          /\ \A y \in Stack : y < at[k + 1] \/ y >= at[(k + 1) + 1] => q[y] = p[k][y]
      <3>1. p[k] \in X /\ k + 1 \in 1 .. n
        BY <2>2, <2>4
      <3> HIDE DEF X
      <3>2. /\ PutNumber(p[k], at[k + 1], ptr[k + 1]) \in X
            /\ PutNumber(p[k], at[k + 1], ptr[k + 1])[at[k + 1]] = ptr[k + 1]
            /\ \A y \in Stack : y < at[k + 1] \/ y >= at[(k + 1) + 1]
                  => PutNumber(p[k], at[k + 1], ptr[k + 1])[y] = p[k][y]
        BY <1>10, <3>1
      <3> QED
        BY <2>3, <3>2
    <2>6. at[1] <= at[k + 1] /\ at[(k + 1) + 1] = at[k + 1] + PointerSize
      BY <1>2, <1>7, <2>2
    <2>7. /\ at[1] \in Int /\ at[k + 1] \in Int /\ at[(k + 1) + 1] \in Int
      BY <1>2, <2>2
    <2>8. Stack \subseteq Int
      BY StackAssumption DEF Stack
    <2> HIDE DEF q, X
    <2>9. ASSUME NEW i \in 1 .. k PROVE q[at[i]] = ptr[i]
      <3>1. at[i] \in Stack /\ at[i] \in Int
        BY <1>2, <1>8, <2>2
      <3>2. at[i] < at[k + 1]
        <4>1. i \in 1 .. n + 1 /\ k + 1 \in 1 .. n + 1 /\ i < k + 1
          BY <2>2
        <4>2. at[i] + PointerSize <= at[k + 1]
          BY <1>6, <4>1
        <4> QED
          BY <1>1, <2>7, <3>1, <4>2
      <3> QED
        BY <2>4, <2>5, <3>1, <3>2
    <2>10. ASSUME NEW x \in Stack, x < at[1] \/ x >= at[(k + 1) + 1] PROVE q[x] = m[x]
      <3>1. x \in Int
        BY <2>8
      <3>2. x < at[k + 1] \/ x >= at[(k + 1) + 1]
        BY <2>6, <2>7, <2>10, <3>1
      <3>3. x < at[1] \/ x >= at[k + 1]
        BY <1>1, <2>6, <2>7, <2>10, <3>1
      <3> QED
        BY <2>4, <2>5, <3>2, <3>3
    <2> QED
      BY <2>2, <2>5, <2>9, <2>10 DEF q
  <1>17. n \in S
    <2> HIDE DEF S
    <2> QED
      BY <1>15, <1>16, NatSetInduction
  <1>18. Good(n)
    BY <1>17
  <1> QED
    BY <1>2, <1>5, <1>18
\* Every string is where its pointer says.
LEMMA StringsAre ==
    ASSUME NEW argv \in Seq(Seq(Char)), NEW n \in Nat, n <= Len(argv), NEW m \in [Stack -> Int],
           NEW ptr \in [1 .. n + 1 -> Int],
           \A i \in 1 .. n : \A x \in ptr[i] .. ptr[i] + Len(argv[i]) : x \in Stack,
           \A i \in 1 .. n : \A j \in i + 1 .. n + 1 : ptr[i] + Len(argv[i]) < ptr[j]
    PROVE  LET r == StringsOf(m, argv, ptr, n)[1]
           IN  r \in [Stack -> Int] /\ \A j \in 1 .. n : Holds(r, ptr[j], argv[j])
  <1> DEFINE X == [Stack -> Int]
             step == [i \in 1 .. n |-> [x \in X |-> PutString(x, ptr[i], argv[i])]]
             Obeys(t) == t = [i \in 1 .. n + 1 |->
                                 IF i > n THEN m ELSE PutString(t[i + 1], ptr[i], argv[i])]
             s == CHOOSE t : Obeys(t)
  <1>1. \A i \in 1 .. n : i \in 1 .. n + 1 /\ i + 1 \in 1 .. n + 1 /\ ~ (i > n)
    OBVIOUS
  <1>2. \A i \in 1 .. n : ptr[i] \in Int /\ argv[i] \in Seq(Char)
    <2>1. \A i \in 1 .. n : i \in 1 .. Len(argv)
      BY LenProperties
    <2>2. \A i \in 1 .. n : argv[i] \in Seq(Char)
      BY <2>1, ElementOfSeq
    <2> QED
      BY <1>1, <2>2
  <1>3. ASSUME NEW x \in X, NEW i \in 1 .. n
        PROVE  LET r == PutString(x, ptr[i], argv[i])
               IN  /\ r \in X /\ Holds(r, ptr[i], argv[i])
                   /\ \A j \in i + 1 .. n : Holds(x, ptr[j], argv[j]) => Holds(r, ptr[j], argv[j])
    <2> DEFINE a == ptr[i]
               w == argv[i]
               r == PutString(x, a, w)
    <2>1. x \in [Stack -> Int] /\ a \in Int /\ w \in Seq(Char) /\ \A y \in a .. a + Len(w) : y \in Stack
      BY <1>2
    <2>2. /\ r \in [Stack -> Int] /\ Holds(r, a, w)
          /\ \A b \in Int : \A t \in Seq(Char) :
                 /\ a + Len(w) < b /\ Holds(x, b, t)
                 /\ \A y \in b .. b + Len(t) : y \in Stack
                 => Holds(r, b, t)
      <3> HIDE DEF a, w
      <3> QED
        BY <2>1, HoldsPut
    <2>3. ASSUME NEW j \in i + 1 .. n, Holds(x, ptr[j], argv[j]) PROVE Holds(r, ptr[j], argv[j])
      <3>1. j \in 1 .. n /\ j \in i + 1 .. n + 1
        OBVIOUS
      <3>2. /\ ptr[j] \in Int /\ argv[j] \in Seq(Char) /\ a + Len(w) < ptr[j]
            /\ \A y \in ptr[j] .. ptr[j] + Len(argv[j]) : y \in Stack
        BY <1>2, <3>1
      <3> DEFINE b == ptr[j]
                 t == argv[j]
      <3>3. /\ b \in Int /\ t \in Seq(Char) /\ a + Len(w) < b /\ Holds(x, b, t)
            /\ \A y \in b .. b + Len(t) : y \in Stack
        BY <2>3, <3>2
      <3> HIDE DEF a, w, b, t, r
      <3>4. Holds(r, b, t)
        BY <2>2, <3>3
      <3> QED
        BY <3>4 DEF b, t
    <2> HIDE DEF r
    <2>4. r \in X /\ Holds(r, ptr[i], argv[i])
          /\ \A j \in i + 1 .. n : Holds(x, ptr[j], argv[j]) => Holds(r, ptr[j], argv[j])
      BY <2>2, <2>3
    <2> QED
      BY <2>4, Zenon DEF r
  <1>4. StringsOf(m, argv, ptr, n) = s
    BY DEF StringsOf
  <1>5. step \in [1 .. n -> [X -> X]]
    <2> HIDE DEF X
    <2> QED
      BY <1>3
  <1>6. \E t : Obeys(t)
    <2>1. PICK f \in [1 .. n + 1 -> X] : Descends(f, n, m, step)
      <3>1. m \in X
        OBVIOUS
      <3> HIDE DEF X, step
      <3> QED
        BY <1>5, <3>1, DownwardExists, Zenon
    <2> HIDE DEF X
    <2>2. ASSUME NEW i \in 1 .. n + 1
          PROVE  f[i] = IF i > n THEN m ELSE PutString(f[i + 1], ptr[i], argv[i])
      <3>1. CASE i = n + 1
        BY <2>1, <3>1 DEF Descends
      <3>2. CASE i # n + 1
        <4>1. i \in 1 .. n /\ i + 1 \in 1 .. n + 1 /\ ~ (i > n)
          BY <3>2
        <4>2. f[i] = step[i][f[i + 1]] /\ f[i + 1] \in X
          BY <2>1, <4>1 DEF Descends
        <4> QED
          BY <4>1, <4>2
      <3> QED
        BY <3>1, <3>2
    <2>3. f = [i \in 1 .. n + 1 |-> f[i]]
      BY <2>1
    <2>4. Obeys(f)
      BY <2>2, <2>3
    <2> QED
      BY <2>4
  <1>7. Obeys(s)
    <2> HIDE DEF Obeys
    <2> QED
      BY <1>6
  <1> HIDE DEF s, step
  <1> DEFINE Good(i) == s[i] \in X /\ \A j \in i .. n : Holds(s[i], ptr[j], argv[j])
             S == {i \in 1 .. n + 1 : Good(i)}
  <1>8. n + 1 \in S
    <2>1. s[n + 1] = m
      BY <1>7
    <2>2. \A j \in n + 1 .. n : FALSE
      OBVIOUS
    <2> QED
      BY <2>1, <2>2
  <1>9. ASSUME NEW i \in 1 .. n, i + 1 \in S PROVE i \in S
    <2>1. s[i] = PutString(s[i + 1], ptr[i], argv[i])
      BY <1>1, <1>7
    <2>2. Good(i + 1)
      BY <1>9
    <2>3. /\ s[i] \in X /\ Holds(s[i], ptr[i], argv[i])
          /\ \A j \in i + 1 .. n : Holds(s[i + 1], ptr[j], argv[j]) => Holds(s[i], ptr[j], argv[j])
      <3> HIDE DEF X
      <3> QED
        BY <1>3, <2>1, <2>2
    <2>4. \A j \in i .. n : j = i \/ j \in i + 1 .. n
      OBVIOUS
    <2> HIDE DEF X
    <2>5. Good(i)
      BY <2>2, <2>3, <2>4
    <2> QED
      BY <1>1, <2>5
  <1>10. 1 \in S
    <2>1. 1 \in 1 .. n + 1
      OBVIOUS
    <2> HIDE DEF S
    <2> QED
      BY <1>8, <1>9, <2>1, DownwardInduction
  <1> QED
    BY <1>4, <1>10

LEMMA Aligned ==
    ASSUME NEW size \in Nat \ {0}, NEW a \in Int
    PROVE  (a \div size) * size \in Int /\ (a \div size) * size <= a /\ a < (a \div size) * size + size
  <1> DEFINE q == a \div size
  <1>1. q \in Int
    OBVIOUS
  <1>2. q * size <= a /\ a < q * size + size
    BY Z3
  <1> HIDE DEF q
  <1>3. q * size \in Int
    BY <1>1
  <1> QED
    BY <1>2, <1>3 DEF q
\* From the stack's first cell to its end there is room for all of it.
LEMMA RoomIs ==
    ASSUME NEW L \in Nat, NEW n \in 1 .. MaxArgs, NEW low \in Int,
           StackLow + MaxArgs * (L + 1) + StackAlign + PointerSize * (MaxArgs + 2) <= StackTop,
           low >= StackTop - n * (L + 1)
    PROVE  /\ (low \div StackAlign) * StackAlign \in Int /\ (low \div StackAlign) * StackAlign <= low
           /\ StackLow < (low \div StackAlign) * StackAlign - PointerSize * (n + 2)
           /\ PointerSize * (n + 2) = PointerSize * (n + 1) + PointerSize
           /\ PointerSize * (n + 1) = PointerSize * n + PointerSize
           /\ PointerSize * n \in Nat /\ PointerSize * (n + 1) \in Nat /\ PointerSize * (n + 2) \in Nat
  <1> DEFINE al == (low \div StackAlign) * StackAlign
             words == n * (L + 1)
             most == MaxArgs * (L + 1)
             cells == PointerSize * (n + 2)
             all == PointerSize * (MaxArgs + 2)
  <1>1. MaxArgs \in Nat /\ PointerSize \in Nat /\ StackAlign \in Nat \ {0} /\ n \in Nat
    BY ArgsAssumptions
  <1>2. StackLow \in Int /\ StackTop \in Int
    BY StackAssumption
  <1>3. al \in Int /\ al <= low /\ low < al + StackAlign
    BY <1>1, Aligned
  <1>4. PICK d \in Nat : MaxArgs = n + d
    BY <1>1, MaxArgs - n \in Nat /\ MaxArgs = n + (MaxArgs - n)
  <1>5. most = words + d * (L + 1) /\ all = cells + PointerSize * d
    BY <1>1, <1>4, Z3
  <1>6. d * (L + 1) \in Nat /\ PointerSize * d \in Nat /\ words \in Nat /\ cells \in Nat
        /\ most \in Nat /\ all \in Nat
    BY <1>1
  <1>7. StackLow + most + StackAlign + all <= StackTop /\ low >= StackTop - words
    OBVIOUS
  <1>8. cells = PointerSize * (n + 1) + PointerSize /\ PointerSize * (n + 1) = PointerSize * n + PointerSize
        /\ PointerSize * n \in Nat /\ PointerSize * (n + 1) \in Nat
    BY <1>1
  <1> DEFINE x == d * (L + 1)
             y == PointerSize * d
  <1>9. most = words + x /\ all = cells + y /\ x \in Nat /\ y \in Nat
    BY <1>5, <1>6
  <1> HIDE DEF al, words, most, cells, all, x, y
  <1>10. StackLow < al - cells
    BY <1>1, <1>2, <1>3, <1>6, <1>7, <1>9
  <1> QED
    BY <1>3, <1>6, <1>8, <1>10 DEF al, cells

\* What a program that is given words finds.
LEMMA BuiltIs ==
    ASSUME NEW argv \in Seq(Seq(Char)), Len(argv) \in 1 .. MaxArgs, NEW L \in Nat,
           \A i \in 1 .. Len(argv) : Len(argv[i]) \in 0 .. L,
           StackLow + MaxArgs * (L + 1) + StackAlign + PointerSize * (MaxArgs + 2) <= StackTop
    PROVE  LET st == sam_build_args([a \in Stack |-> OLD], StackTop, argv)
           IN  /\ st.mem[st.rsp] = Len(argv) /\ Echo(st) = argv
               /\ st.mem[st.rsp + PointerSize * (Len(argv) + 1)] = NUL
  <1> DEFINE m == [a \in Stack |-> OLD]
             n == Len(AtMost(argv, MaxArgs))
             ptr == PtrOf(argv, n, StackTop)
             low == ptr[1]
             al == (low \div StackAlign) * StackAlign
             av == Pointers(al, n)
             strings == StringsOf(m, argv, ptr, n)
             m0 == strings[1]
             m1 == PointersOf(m0, av, ptr, n)[n]
             null == av + PointerSize * n
             rsp == av - PointerSize
             m2 == PutNumber(m1, null, NUL)
             m3 == PutNumber(m2, rsp, n)
             st == sam_build_args(m, StackTop, argv)
  <1>1. MaxArgs \in Nat /\ PointerSize \in Nat /\ PointerSize > 0 /\ StackTop \in Int /\ StackLow \in Int
    BY ArgsAssumptions, StackAssumption
  <1>2. n = Len(argv) /\ n \in 1 .. MaxArgs /\ n \in Nat /\ n # 0
    <2>1. n = IF Len(argv) < MaxArgs THEN Len(argv) ELSE MaxArgs
      BY <1>1, AtMostFacts
    <2> HIDE DEF n
    <2> QED
      BY <1>1, <2>1
  <1>3. st = [rsp |-> rsp, mem |-> m3]
    <2>1. st = IF n = 0 THEN [rsp |-> StackTop, mem |-> m] ELSE [rsp |-> rsp, mem |-> m3]
      BY DEF sam_build_args, PtrOf, StringsOf, PointersOf
    <2> QED
      BY <1>2, <2>1
  <1> HIDE DEF n
  <1>4. m \in [Stack -> Int]
    BY DEF OLD
  <1>5. /\ ptr \in [1 .. n + 1 -> Int] /\ ptr[n + 1] = StackTop
        /\ \A i \in 1 .. n : ptr[i] = ptr[i + 1] - (Len(argv[i]) + 1)
    <2>1. n <= Len(argv)
      BY <1>2
    <2> HIDE DEF ptr
    <2> QED
      BY <1>1, <1>2, <2>1, PtrIs, Zenon DEF ptr
  <1>6. \A i \in 1 .. n : Len(argv[i]) \in 0 .. L
    BY <1>2
  <1> HIDE DEF ptr
  <1>7. /\ \A i \in 1 .. n : \A j \in i + 1 .. n + 1 : ptr[i] + Len(argv[i]) < ptr[j]
        /\ \A i \in 1 .. n + 1 : ptr[1] <= ptr[i]
        /\ low >= StackTop - n * (L + 1)
    <2>1. n <= Len(argv)
      BY <1>2
    <2>2. ptr[1] >= ptr[n + 1] - n * (L + 1)
      BY <1>2, <1>5, <1>6, <2>1, PtrFacts, Zenon
    <2>3. /\ \A i \in 1 .. n : \A j \in i + 1 .. n + 1 : ptr[i] + Len(argv[i]) < ptr[j]
          /\ \A i \in 1 .. n + 1 : ptr[1] <= ptr[i]
      BY <1>2, <1>5, <1>6, <2>1, PtrFacts, Zenon
    <2> QED
      BY <1>5, <2>2, <2>3
  <1>8. low \in Int
    BY SMTT(30), <1>2, <1>5
  <1> HIDE DEF low
  <1>9. /\ al \in Int /\ al <= low /\ StackLow < al - PointerSize * (n + 2)
        /\ PointerSize * (n + 2) = PointerSize * (n + 1) + PointerSize
        /\ PointerSize * (n + 1) = PointerSize * n + PointerSize
        /\ PointerSize * n \in Nat /\ PointerSize * (n + 1) \in Nat /\ PointerSize * (n + 2) \in Nat
    BY <1>2, <1>7, <1>8, RoomIs
  <1>10. \A i \in 1 .. n : ptr[i] + Len(argv[i]) < StackTop /\ low <= ptr[i] /\ ptr[i] \in Int
    <2> TAKE i \in 1 .. n
    <2>1. n + 1 \in i + 1 .. n + 1 /\ i \in 1 .. n + 1
      BY <1>2
    <2> QED
      BY <1>5, <1>7, <2>1 DEF low
  <1>11. low < StackTop
    <2>1. 1 \in 1 .. n
      BY <1>2
    <2>2. low + Len(argv[1]) < StackTop /\ Len(argv[1]) \in Nat
      BY <1>6, <1>10, <2>1 DEF low
    <2> QED
      BY <1>1, <1>8, <2>2
  <1> HIDE DEF al
  \* Where things lie.
  <1>12. /\ av \in Int /\ rsp \in Int /\ null \in Int
         /\ rsp + PointerSize = av /\ null + PointerSize = al /\ av <= null
         /\ StackLow < rsp /\ al < StackTop
    <2> DEFINE a == PointerSize * n
               b == PointerSize * (n + 1)
               c == PointerSize * (n + 2)
    <2>1. /\ al <= low /\ StackLow < al - c /\ c = b + PointerSize /\ b = a + PointerSize
          /\ a \in Nat /\ b \in Nat /\ c \in Nat /\ al \in Int
      BY <1>9
    <2>2. av = al - b /\ rsp = av - PointerSize /\ null = av + a
      BY DEF Pointers
    <2> HIDE DEF a, b, c, av, rsp, null
    <2> QED
      BY <1>1, <1>8, <1>11, <2>1, <2>2
  <1>13. \A x \in Int : StackLow <= x /\ x < StackTop => x \in Stack
    BY <1>1 DEF Stack
  <1>14. Stack \subseteq Int
    BY <1>1 DEF Stack
  <1>15. ASSUME NEW i \in 1 .. n, NEW x \in ptr[i] .. ptr[i] + Len(argv[i])
         PROVE  x \in Stack /\ x >= al
    <2>1. ptr[i] \in Int /\ low <= ptr[i] /\ ptr[i] + Len(argv[i]) < StackTop /\ Len(argv[i]) \in Nat
      BY <1>6, <1>10
    <2>2. x \in Int /\ al <= x /\ StackLow <= x /\ x < StackTop
      <3> DEFINE e == ptr[i] + Len(argv[i])
      <3>1. e \in Int /\ e < StackTop /\ x \in ptr[i] .. e
        BY <2>1
      <3>2. al <= low /\ al \in Int /\ StackLow <= al
        <4> HIDE DEF rsp, null, av
        <4> QED
          BY <1>1, <1>9, <1>12
      <3> HIDE DEF e
      <3> QED
        BY <1>1, <1>8, <2>1, <3>1, <3>2
    <2> QED
      BY <1>13, <2>2
  <1>16. m0 \in [Stack -> Int] /\ \A j \in 1 .. n : Holds(m0, ptr[j], argv[j])
    <2>1. n <= Len(argv)
      BY <1>2
    <2>2. \A i \in 1 .. n : \A x \in ptr[i] .. ptr[i] + Len(argv[i]) : x \in Stack
      BY <1>15
    <2> HIDE DEF m, m0
    <2> QED
      BY <1>2, <1>4, <1>5, <1>7, <2>1, <2>2, StringsAre, Zenon DEF m0
  <1> HIDE DEF m0
  <1>17. \A x \in av .. av + PointerSize * n : x \in Stack
    <2> TAKE x \in av .. null
    <2>1. StackLow <= x /\ x < StackTop /\ x \in Int
      <3> HIDE DEF av, rsp, null
      <3>1. x \in av .. null
        OBVIOUS
      <3>2. al \in Int /\ StackTop \in Int /\ StackLow \in Int /\ PointerSize \in Nat
        BY <1>1, <1>9
      <3> QED
        BY ONLY <1>12, <3>1, <3>2
    <2> QED
      BY <1>13, <2>1
  <1>18. /\ m1 \in [Stack -> Int]
         /\ \A i \in 1 .. n : m1[av + PointerSize * (i - 1)] = ptr[i]
         /\ \A x \in Stack : x < av \/ x >= null => m1[x] = m0[x]
    <2>1. av \in Int /\ n \in Nat /\ m0 \in [Stack -> Int] /\ ptr \in [1 .. n + 1 -> Int]
      BY <1>2, <1>5, <1>12, <1>16
    <2> HIDE DEF av
    <2> QED
      BY ONLY <1>17, <2>1, PointersAre, ZenonT(30)
  <1> HIDE DEF m1, av
  <1>19. null \in Stack /\ rsp \in Stack
    <2> HIDE DEF null, rsp
    <2>1. al \in Int /\ StackTop \in Int /\ StackLow \in Int /\ PointerSize \in Nat
      BY <1>1, <1>9
    <2>2. /\ StackLow <= null /\ null < StackTop /\ null \in Int
          /\ StackLow <= rsp /\ rsp < StackTop /\ rsp \in Int
      BY ONLY <1>12, <2>1
    <2> QED
      BY ONLY <1>13, <2>2, Zenon
  <1> DEFINE cell(i) == av + PointerSize * (i - 1)
  <1>20. ASSUME NEW i \in 1 .. n
         PROVE  /\ cell(i) \in Stack /\ av <= cell(i) /\ cell(i) < null
                /\ rsp + PointerSize * i = cell(i)
    <2> DEFINE a == PointerSize * (i - 1)
               b == PointerSize * n
    <2>1. a \in Nat /\ b \in Nat /\ PointerSize * i = a + PointerSize
      BY <1>1, <1>2
    <2>2. a + PointerSize <= b
      <3>1. i - 1 \in Int /\ n \in Int /\ i - 1 < n
        BY <1>2
      <3>2. (i - 1) * PointerSize + PointerSize <= n * PointerSize
        BY <1>1, <3>1, NextMultiple
      <3>3. (i - 1) * PointerSize = a /\ n * PointerSize = b
        BY <1>1, <1>2
      <3> HIDE DEF a, b
      <3> QED
        BY <3>2, <3>3
    <2>3. cell(i) = av + a /\ null = av + b /\ rsp = av - PointerSize
      OBVIOUS
    <2> DEFINE x == cell(i)
    <2> HIDE DEF a, b, rsp, null, x
    <2>4. x \in Int /\ av <= x /\ x < null /\ rsp + (a + PointerSize) = x
      BY <1>1, <1>12, <2>1, <2>2, <2>3 DEF x
    <2>5. x \in Stack
      BY <1>1, <1>9, <1>12, <1>13, <2>4
    <2> QED
      BY <2>1, <2>4, <2>5 DEF x
  <1> HIDE DEF null, rsp, cell
  <1>21. /\ m2 \in [Stack -> Int] /\ m2[null] = NUL
         /\ \A x \in Stack : x < null \/ x >= null + PointerSize => m2[x] = m1[x]
    <2>1. NUL \in Int
      BY DEF NUL
    <2>2. m1 \in [Stack -> Int] /\ null \in Stack
      BY <1>18, <1>19
    <2> DEFINE zero == NUL
    <2>3. zero \in Int
      BY <2>1
    <2> HIDE DEF zero
    <2>4. LET r == PutNumber(m1, null, zero)
          IN  /\ r \in [Stack -> Int] /\ r[null] = zero
              /\ \A x \in Stack : x < null \/ x >= null + PointerSize => r[x] = m1[x]
      BY ONLY <2>2, <2>3, PutNumberFacts
    <2> QED
      BY <2>4 DEF zero
  <1> HIDE DEF m2
  <1>22. /\ m3 \in [Stack -> Int] /\ m3[rsp] = n
         /\ \A x \in Stack : x < rsp \/ x >= rsp + PointerSize => m3[x] = m2[x]
    <2>1. m2 \in [Stack -> Int] /\ rsp \in Stack
      BY <1>19, <1>21
    <2> DEFINE count == n
    <2>2. count \in Int
      BY <1>2
    <2> HIDE DEF count
    <2>3. LET r == PutNumber(m2, rsp, count)
          IN  /\ r \in [Stack -> Int] /\ r[rsp] = count
              /\ \A x \in Stack : x < rsp \/ x >= rsp + PointerSize => r[x] = m2[x]
      BY ONLY <2>1, <2>2, PutNumberFacts
    <2> QED
      BY <2>3 DEF count
  <1> HIDE DEF m3
  <1>23. m3[null] = NUL
    <2>1. null >= rsp + PointerSize
      BY <1>1, <1>12
    <2> QED
      BY <1>19, <1>21, <1>22, <2>1
  <1>24. ASSUME NEW i \in 1 .. n PROVE m3[rsp + PointerSize * i] = ptr[i]
    <2>1. /\ cell(i) \in Stack /\ av <= cell(i) /\ cell(i) < null /\ rsp + PointerSize * i = cell(i)
      BY <1>20
    <2>2. m1[cell(i)] = ptr[i]
      BY <1>18 DEF cell
    <2>3. m3[cell(i)] = m2[cell(i)]
      BY <1>12, <1>22, <2>1
    <2>4. m2[cell(i)] = m1[cell(i)]
      BY <1>21, <2>1
    <2> QED
      BY <2>1, <2>2, <2>3, <2>4
  <1>25. \A x \in Stack : x >= al => m3[x] = m0[x]
    <2> TAKE x \in Stack
    <2> SUFFICES ASSUME x >= al PROVE m3[x] = m0[x]
      OBVIOUS
    <2>1. x \in Int
      BY <1>14
    <2>2. al \in Int /\ PointerSize \in Nat
      BY <1>1, <1>9
    <2>3. x >= rsp + PointerSize /\ x >= null + PointerSize /\ x >= null
      <3>1. x >= al
        OBVIOUS
      <3> QED
        BY ONLY <1>12, <2>1, <2>2, <3>1
    <2> QED
      BY <1>18, <1>21, <1>22, <2>3
  <1>26. ASSUME NEW i \in 1 .. n PROVE StringAt(m3, ptr[i]) = argv[i]
    <2> DEFINE a == ptr[i]
               s == argv[i]
    <2>1. a \in Int /\ s \in Seq(Char)
      <3>1. i \in 1 .. n + 1 /\ i \in 1 .. Len(argv)
        BY <1>2
      <3> QED
        BY <1>5, <3>1, ElementOfSeq
    <2>2. Holds(m0, a, s) /\ \A x \in a .. a + Len(s) : x \in Stack /\ x >= al
      BY <1>15, <1>16
    <2> HIDE DEF a, s
    <2>3. \A x \in a .. a + Len(s) : m3[x] = m0[x]
      BY <1>25, <2>2
    <2>4. Len(s) \in Nat
      BY <2>1, LenProperties
    <2>5. a + Len(s) \in a .. a + Len(s) /\ \A k \in 1 .. Len(s) : a + k - 1 \in a .. a + Len(s)
      BY <2>1, <2>4
    <2>6. Holds(m3, a, s)
      BY <2>2, <2>3, <2>5 DEF Holds
    <2>7. DOMAIN m3 = Stack
      BY <1>22
    <2>8. StringAt(m3, a) = s
      BY <2>1, <2>2, <2>6, <2>7, StringRead
    <2> QED
      BY <2>8 DEF a, s
  <1> HIDE DEF st, m
  <1>27. st.rsp = rsp /\ st.mem = m3
    BY <1>3
  <1>28. Echo(st) = argv
    <2>1. Echo(st) = [k \in 1 .. n |-> StringAt(m3, m3[rsp + PointerSize * k])]
      BY <1>22, <1>27 DEF Echo
    <2>2. \A k \in 1 .. n : StringAt(m3, m3[rsp + PointerSize * k]) = argv[k]
      BY <1>24, <1>26
    <2>3. Echo(st) = [k \in 1 .. n |-> argv[k]]
      BY <2>1, <2>2
    <2>4. argv = [k \in 1 .. n |-> argv[k]]
      BY <1>2, LenProperties
    <2> QED
      BY <2>3, <2>4
  <1>29. rsp + PointerSize * (n + 1) = null
    <2> DEFINE a == PointerSize * n
               b == PointerSize * (n + 1)
    <2>1. b = a + PointerSize /\ a \in Nat /\ null = av + a
      BY <1>9 DEF null
    <2> HIDE DEF a, b
    <2>2. rsp + b = null
      BY <1>1, <1>12, <2>1
    <2> QED
      BY <2>2 DEF b
  <1> QED
    BY <1>2, <1>22, <1>23, <1>27, <1>28, <1>29 DEF st, m

(***************************************************************************)
(* Whatever is typed behind "run", the program finds its first words, and  *)
(* nothing behind them (sam_build_args, main.c).                           *)
(***************************************************************************)
THEOREM ArgumentsArrive == Spec => []ArgsExact
  <1>1. CallInv => ArgsExact
    <2> SUFFICES ASSUME CallInv, After("args") PROVE ArgsExact
      BY DEF ArgsExact
    <2> DEFINE line == in
               argv == cmd_run(line)
               words == AtMost(WordsOf(line), MaxArgs)
               L == Len(line)
    <2>1. line \in Lines /\ out = sam_build_args([a \in Stack |-> OLD], StackTop, argv)
      BY DEF CallInv
    <2>2. line \in Seq(Char) /\ L \in Nat
          /\ StackLow + MaxArgs * (L + 1) + StackAlign + PointerSize * (MaxArgs + 2) <= StackTop
      BY <2>1, StackAssumption, LenProperties DEF Char
    <2>3. MaxArgs \in Nat
      BY ArgsAssumptions
    <2> HIDE DEF line, L
    <2>4. /\ argv = words /\ WordsOf(line) \in Seq(Seq(Char))
          /\ \A k \in 1 .. Len(WordsOf(line)) : Len(WordsOf(line)[k]) \in 0 .. L
      BY <2>2, CmdRunIs DEF L
    <2> DEFINE all == WordsOf(line)
    <2>5. /\ words \in Seq(Seq(Char)) /\ Len(words) = IF Len(all) < MaxArgs THEN Len(all) ELSE MaxArgs
          /\ \A i \in 1 .. Len(words) : words[i] = all[i]
      <3> HIDE DEF all
      <3>1. all \in Seq(Seq(Char))
        BY <2>4 DEF all
      <3> QED
        BY <2>3, <3>1, AtMostFacts DEF all
    <2>6. Len(all) \in Nat
      BY <2>4, LenProperties
    <2> HIDE DEF argv, words, all
    <2>7. Len(words) \in 0 .. MaxArgs /\ \A i \in 1 .. Len(words) : Len(words[i]) \in 0 .. L
      <3>1. Len(words) \in 0 .. MaxArgs /\ Len(words) <= Len(all) /\ Len(words) \in Nat
        BY <2>3, <2>5, <2>6
      <3>2. \A i \in 1 .. Len(words) : i \in 1 .. Len(all)
        BY <2>6, <3>1
      <3> QED
        BY <2>4, <2>5, <3>1, <3>2 DEF all
    <2>8. CASE words = <<>>
      <3>1. Len(argv) = 0 /\ argv \in Seq(Seq(Char))
        BY <2>4, <2>5, <2>8, EmptySeq
      <3>2. Len(AtMost(argv, MaxArgs)) = 0
        <4>1. Len(AtMost(argv, MaxArgs)) = IF Len(argv) < MaxArgs THEN Len(argv) ELSE MaxArgs
          BY <2>3, <3>1, AtMostFacts, Zenon
        <4> QED
          BY <2>3, <3>1, <4>1
      <3>3. out = [rsp |-> StackTop, mem |-> [a \in Stack |-> OLD]]
        BY <2>1, <3>2 DEF sam_build_args
      <3> QED
        BY <2>8, <3>3 DEF ArgsExact, words, line
    <2>9. CASE words # <<>>
      <3>1. Len(words) \in 1 .. MaxArgs
        <4>1. Len(words) # 0
          BY <2>5, <2>9, EmptySeq
        <4> QED
          BY <2>3, <2>7, <4>1
      <3>2. /\ out.mem[out.rsp] = Len(words) /\ Echo(out) = words
            /\ out.mem[out.rsp + PointerSize * (Len(words) + 1)] = NUL
        BY <2>1, <2>2, <2>4, <2>5, <2>7, <3>1, BuiltIs
      <3> QED
        BY <2>9, <3>2 DEF ArgsExact, words, line
    <2> QED
      BY <2>8, <2>9
  <1> QED
    BY <1>1, CallsKept, PTL
================================================================================
