-------------------------- MODULE CandidateProofs --------------------------
(* QueryMatchResult finds the leftmost match, and finds one whenever there  *)
(* is one; the features it computes are those the ranking is about, and the *)
(* ranking is a strict weak order.  For all words.                          *)
EXTENDS Matching, Ranking, SequenceTheorems, FiniteSetTheorems, WellFoundedInduction, TLAPS

(* Induction over natural numbers, as a fact about sets of them.            *)
LEMMA LeastNumber ==
  ASSUME NEW S \in SUBSET Nat, S # {} PROVE \E n \in S : \A m \in S : n <= m
<1> DEFINE R == OpToRel(<, Nat)
<1>1. IsWellFoundedOn(R, Nat)
  BY NatLessThanWellFounded
<1>2. \A p, q \in Nat : p < q => <<p, q>> \in R
  BY DEF OpToRel
<1> HIDE DEF R
<1>3. PICK n \in S : \A m \in S : <<m, n>> \notin R
  BY <1>1, WFMin
<1>4. ASSUME NEW m \in S PROVE n <= m
  <2>1. n \in Nat /\ m \in Nat
    OBVIOUS
  <2>2. ~(m < n)
    BY <1>2, <1>3, <2>1
  <2> QED BY <2>1, <2>2
<1> QED BY <1>4

LEMMA Induction ==
  ASSUME NEW n \in Nat, NEW S, 0 \in S, \A k \in 1..n : k - 1 \in S => k \in S
  PROVE  n \in S /\ \A k \in 0..n : k \in S
<1> SUFFICES \A k \in 0..n : k \in S
  OBVIOUS
<1> DEFINE Bad == (0..n) \ S
<1> SUFFICES ASSUME Bad # {} PROVE FALSE
  OBVIOUS
<1>1. Bad \in SUBSET Nat
  OBVIOUS
<1> HIDE DEF Bad
<1>2. PICK k \in Bad : \A m \in Bad : k <= m
  BY <1>1, LeastNumber
<1> USE DEF Bad
<1>3. k \in 1..n /\ k - 1 \in 0..n /\ k - 1 \notin Bad
  BY <1>2
<1> QED BY <1>2, <1>3

(* A function can be defined by recursion over its index: First holds what  *)
(* it may begin with, and R relates an index and the value before it to the *)
(* value at it.                                                             *)
LEMMA RecursionExists ==
  ASSUME NEW n \in Nat, NEW S, NEW First, \E x \in S : x \in First, NEW R,
         \A i \in 1..n, x \in S : \E y \in S : <<i, x, y>> \in R
  PROVE  \E g \in [0..n -> S] : g[0] \in First /\ \A i \in 1..n : <<i, g[i - 1], g[i]>> \in R
<1> DEFINE Graphs(k) == {g \in [0..k -> S] : /\ g[0] \in First
                                             /\ \A i \in 1..k : <<i, g[i - 1], g[i]>> \in R}
           Good == {k \in 0..n : Graphs(k) # {}}
<1>1. 0 \in Good
  <2>1. PICK x \in S : x \in First
    OBVIOUS
  <2>2. [i \in 0..0 |-> x] \in Graphs(0)
    BY <2>1
  <2> QED BY <2>2
<1>2. ASSUME NEW k \in 1..n, k - 1 \in Good PROVE k \in Good
  <2>1. PICK g \in Graphs(k - 1) : TRUE
    BY <1>2
  <2>2. g \in [0..(k - 1) -> S] /\ g[0] \in First
        /\ \A i \in 1..(k - 1) : <<i, g[i - 1], g[i]>> \in R
    BY <2>1
  <2>3. g[k - 1] \in S
    BY <2>2
  <2>4. PICK y \in S : <<k, g[k - 1], y>> \in R
    BY <2>3
  <2> DEFINE f == [i \in 0..k |-> IF i = k THEN y ELSE g[i]]
  <2>5. f \in [0..k -> S]
    BY <2>2
  <2>6. f[0] \in First
    BY <2>2
  <2>7. ASSUME NEW i \in 1..k PROVE <<i, f[i - 1], f[i]>> \in R
    <3>1. f[i - 1] = g[i - 1]
      OBVIOUS
    <3>2. CASE i = k
      BY <2>4, <3>1, <3>2
    <3>3. CASE i # k
      BY <2>2, <3>1, <3>3
    <3> QED BY <3>2, <3>3
  <2> HIDE DEF f
  <2>8. f \in Graphs(k)
    BY <2>5, <2>6, <2>7
  <2> QED BY <2>8
<1> HIDE DEF Good
<1>3. n \in Good
  BY <1>1, <1>2, Induction
<1> QED BY <1>3 DEF Good

(* The recursive function behind SumOfIndexes.                              *)
SumsTo(f, n) == CHOOSE s : s = [i \in 0..n |-> IF i = 0 THEN 0 ELSE s[i - 1] + f[i] - 1]

LEMMA SumDef ==
  ASSUME NEW n \in Nat, NEW f, \A i \in 1..n : f[i] \in Int
  PROVE  /\ SumOfIndexes(f, n) = SumsTo(f, n)[n]
         /\ SumsTo(f, n) \in [0..n -> Int]
         /\ SumsTo(f, n)[0] = 0
         /\ \A i \in 1..n : SumsTo(f, n)[i] = SumsTo(f, n)[i - 1] + f[i] - 1
<1> DEFINE Rec(s) == s = [i \in 0..n |-> IF i = 0 THEN 0 ELSE s[i - 1] + f[i] - 1]
           sum == SumsTo(f, n)
           R == {t \in (1..n) \X Int \X Int : t[3] = t[2] + f[t[1]] - 1}
<1>1. PICK g \in [0..n -> Int] : g[0] \in {0} /\ \A i \in 1..n : <<i, g[i - 1], g[i]>> \in R
  <2>1. \E x \in Int : x \in {0}
    OBVIOUS
  <2>2. ASSUME NEW i \in 1..n, NEW x \in Int PROVE \E y \in Int : <<i, x, y>> \in R
    <3>1. x + f[i] - 1 \in Int /\ <<i, x, x + f[i] - 1>> \in R
      OBVIOUS
    <3> QED BY <3>1
  <2> HIDE DEF R
  <2> QED BY <2>1, <2>2, RecursionExists, Zenon
<1>2. Rec(g)
  <2>1. ASSUME NEW i \in 1..n PROVE g[i] = g[i - 1] + f[i] - 1
    <3>1. <<i, g[i - 1], g[i]>> \in R
      BY <1>1
    <3> QED BY <3>1
  <2> QED BY <1>1, <2>1
<1>3. Rec(sum)
  BY <1>2 DEF SumsTo
<1>4. SumOfIndexes(f, n) = sum[n]
  BY DEF SumOfIndexes, SumsTo
<1> HIDE DEF sum
<1>5. sum[0] = 0 /\ \A i \in 1..n : sum[i] = sum[i - 1] + f[i] - 1
  BY <1>3
<1> HIDE DEF Rec
<1>6. sum \in [0..n -> Int]
  <2> DEFINE S == {i \in 0..n : sum[i] \in Int}
  <2>1. 0 \in S
    BY <1>5
  <2>2. ASSUME NEW k \in 1..n, k - 1 \in S PROVE k \in S
    <3>1. sum[k - 1] \in Int /\ f[k] \in Int /\ sum[k] = sum[k - 1] + f[k] - 1
      BY <1>5, <2>2
    <3>2. sum[k] \in Int
      BY <3>1
    <3> QED BY <3>2
  <2> HIDE DEF S
  <2>3. \A k \in 0..n : k \in S
    BY <2>1, <2>2, Induction
  <2> QED BY <1>3, <2>3 DEF S, Rec
<1> QED BY <1>4, <1>5, <1>6 DEF sum

LEMMA SumIsMonotone ==
  ASSUME NEW n \in Nat, NEW f, NEW g,
         \A i \in 1..n : f[i] \in Int /\ g[i] \in Int /\ f[i] <= g[i]
  PROVE  /\ SumOfIndexes(f, n) \in Int /\ SumOfIndexes(g, n) \in Int
         /\ SumOfIndexes(f, n) <= SumOfIndexes(g, n)
<1> DEFINE s == SumsTo(f, n)  t == SumsTo(g, n)
           S == {i \in 0..n : s[i] <= t[i]}
<1>1. /\ SumOfIndexes(f, n) = s[n] /\ s \in [0..n -> Int] /\ s[0] = 0
      /\ \A i \in 1..n : s[i] = s[i - 1] + f[i] - 1
  BY SumDef
<1>2. /\ SumOfIndexes(g, n) = t[n] /\ t \in [0..n -> Int] /\ t[0] = 0
      /\ \A i \in 1..n : t[i] = t[i - 1] + g[i] - 1
  BY SumDef
<1> HIDE DEF s, t
<1>3. 0 \in S
  BY <1>1, <1>2
<1>4. ASSUME NEW k \in 1..n, k - 1 \in S PROVE k \in S
  <2>1. k - 1 \in 0..n /\ s[k - 1] \in Int /\ t[k - 1] \in Int /\ s[k - 1] <= t[k - 1]
    BY <1>1, <1>2, <1>4
  <2>2. f[k] \in Int /\ g[k] \in Int /\ f[k] <= g[k]
    OBVIOUS
  <2>3. s[k] = s[k - 1] + f[k] - 1 /\ t[k] = t[k - 1] + g[k] - 1
    BY <1>1, <1>2
  <2> HIDE DEF S
  <2>4. s[k] <= t[k]
    BY <2>1, <2>2, <2>3
  <2> QED BY <2>4 DEF S
<1> HIDE DEF S
<1>5. n \in S
  BY <1>3, <1>4, Induction
<1> QED BY <1>1, <1>2, <1>5 DEF S

LEMMA SameSum ==
  ASSUME NEW n \in Nat, NEW f, NEW g, \A i \in 1..n : f[i] \in Int /\ f[i] = g[i]
  PROVE  SumOfIndexes(f, n) \in Int /\ SumOfIndexes(f, n) = SumOfIndexes(g, n)
<1>1. SumOfIndexes(f, n) <= SumOfIndexes(g, n) /\ SumOfIndexes(g, n) <= SumOfIndexes(f, n)
  BY SumIsMonotone
<1>2. SumOfIndexes(f, n) \in Int /\ SumOfIndexes(g, n) \in Int
  BY SumIsMonotone
<1> QED BY <1>1, <1>2

LEMMA SumStep ==
  ASSUME NEW n \in Nat, NEW k \in Nat, k = n + 1, NEW f, \A i \in 1..k : f[i] \in Int
  PROVE  SumOfIndexes(f, k) = SumOfIndexes(f, n) + f[k] - 1
<1> DEFINE s == SumsTo(f, k)  t == SumsTo(f, n)
           S == {i \in 0..n : s[i] = t[i]}
<1>1. /\ SumOfIndexes(f, k) = s[k] /\ s \in [0..k -> Int] /\ s[0] = 0
      /\ \A i \in 1..k : s[i] = s[i - 1] + f[i] - 1
  BY SumDef
<1>2. /\ SumOfIndexes(f, n) = t[n] /\ t \in [0..n -> Int] /\ t[0] = 0
      /\ \A i \in 1..n : t[i] = t[i - 1] + f[i] - 1
  <2>1. \A i \in 1..n : f[i] \in Int
    OBVIOUS
  <2> QED BY <2>1, SumDef
<1> HIDE DEF s, t
<1>3. 0 \in S /\ \A i \in 1..n : i - 1 \in S => i \in S
  BY <1>1, <1>2
<1> HIDE DEF S
<1>4. n \in S
  BY <1>3, Induction
<1>5. s[n] = t[n] /\ s[k] = s[n] + f[k] - 1
  BY <1>1, <1>4 DEF S
<1> QED BY <1>1, <1>2, <1>5

LEMMA SumOfNone == ASSUME NEW f PROVE SumOfIndexes(f, 0) = 0
<1>1. \A i \in 1..0 : f[i] \in Int
  OBVIOUS
<1> QED BY <1>1, SumDef
----------------------------------------------------------------------------
(* A common subsequence of length n of the first i characters of v and the  *)
(* first j of w.                                                            *)
CommonUpTo(n, v, i, w, j) ==
  \E f \in [1..n -> 1..i], g \in [1..n -> 1..j] :
    /\ \A a, b \in 1..n : a < b => f[a] < f[b] /\ g[a] < g[b]
    /\ \A a \in 1..n : EqualsBase(v[f[a]], w[g[a]])

LEMMA CommonGrows ==
  ASSUME NEW n \in Nat, NEW v, NEW w, NEW i \in Nat, NEW j \in Nat, CommonUpTo(n, v, i, w, j),
         NEW k \in Nat, NEW m \in Nat, i <= k, j <= m
  PROVE  CommonUpTo(n, v, k, w, m)
<1>1. PICK f \in [1..n -> 1..i], g \in [1..n -> 1..j] :
         /\ \A a, b \in 1..n : a < b => f[a] < f[b] /\ g[a] < g[b]
         /\ \A a \in 1..n : EqualsBase(v[f[a]], w[g[a]])
  BY DEF CommonUpTo
<1>2. f \in [1..n -> 1..k] /\ g \in [1..n -> 1..m]
  OBVIOUS
<1> QED BY <1>1, <1>2 DEF CommonUpTo

LEMMA CommonExtends ==
  ASSUME NEW n \in Nat, NEW v, NEW w, NEW i \in Nat \ {0}, NEW j \in Nat \ {0},
         CommonUpTo(n, v, i - 1, w, j - 1), EqualsBase(v[i], w[j])
  PROVE  CommonUpTo(n + 1, v, i, w, j)
<1>1. PICK f \in [1..n -> 1..(i - 1)], g \in [1..n -> 1..(j - 1)] :
         /\ \A a, b \in 1..n : a < b => f[a] < f[b] /\ g[a] < g[b]
         /\ \A a \in 1..n : EqualsBase(v[f[a]], w[g[a]])
  BY DEF CommonUpTo
<1> DEFINE ff == [a \in 1..(n + 1) |-> IF a = n + 1 THEN i ELSE f[a]]
           gg == [a \in 1..(n + 1) |-> IF a = n + 1 THEN j ELSE g[a]]
<1>2. ff \in [1..(n + 1) -> 1..i] /\ gg \in [1..(n + 1) -> 1..j]
  OBVIOUS
<1>3. ASSUME NEW a \in 1..(n + 1), NEW b \in 1..(n + 1), a < b
      PROVE  ff[a] < ff[b] /\ gg[a] < gg[b]
  <2>1. a \in 1..n /\ f[a] \in 1..(i - 1) /\ g[a] \in 1..(j - 1)
    BY <1>3
  <2>2. CASE b = n + 1
    BY <2>1, <2>2
  <2>3. CASE b # n + 1
    <3>1. b \in 1..n
      BY <2>3
    <3> QED BY <1>1, <1>3, <2>1, <3>1
  <2> QED BY <2>2, <2>3
<1>4. ASSUME NEW a \in 1..(n + 1) PROVE EqualsBase(v[ff[a]], w[gg[a]])
  BY <1>1
<1> HIDE DEF ff, gg
<1> QED BY <1>2, <1>3, <1>4 DEF CommonUpTo

LEMMA CommonShrinks ==
  ASSUME NEW n \in Nat \ {0}, NEW v, NEW w, NEW i \in Nat, NEW j \in Nat,
         CommonUpTo(n, v, i, w, j)
  PROVE  i > 0 /\ j > 0 /\ CommonUpTo(n - 1, v, i - 1, w, j - 1)
<1>1. PICK f \in [1..n -> 1..i], g \in [1..n -> 1..j] :
         /\ \A a, b \in 1..n : a < b => f[a] < f[b] /\ g[a] < g[b]
         /\ \A a \in 1..n : EqualsBase(v[f[a]], w[g[a]])
  BY DEF CommonUpTo
<1>2. n \in 1..n /\ f[n] \in 1..i /\ g[n] \in 1..j
  OBVIOUS
<1> DEFINE ff == [a \in 1..(n - 1) |-> f[a]]
           gg == [a \in 1..(n - 1) |-> g[a]]
<1>3. ff \in [1..(n - 1) -> 1..(i - 1)] /\ gg \in [1..(n - 1) -> 1..(j - 1)]
  <2>1. ASSUME NEW a \in 1..(n - 1) PROVE f[a] \in 1..(i - 1) /\ g[a] \in 1..(j - 1)
    <3>1. a \in 1..n /\ a < n /\ f[a] \in 1..i /\ g[a] \in 1..j
      OBVIOUS
    <3>2. f[a] < f[n] /\ g[a] < g[n]
      BY <1>1, <1>2, <3>1
    <3> QED BY <1>2, <3>1, <3>2
  <2> QED BY <2>1
<1>4. \A a, b \in 1..(n - 1) : a < b => ff[a] < ff[b] /\ gg[a] < gg[b]
  BY <1>1
<1>5. \A a \in 1..(n - 1) : EqualsBase(v[ff[a]], w[gg[a]])
  BY <1>1
<1> HIDE DEF ff, gg
<1>6. CommonUpTo(n - 1, v, i - 1, w, j - 1)
  BY <1>3, <1>4, <1>5 DEF CommonUpTo
<1> QED BY <1>2, <1>6

(* Without an equal last character one of the last characters is not used.  *)
LEMMA CommonSplits ==
  ASSUME NEW n \in Nat \ {0}, NEW v, NEW w, NEW i \in Nat, NEW j \in Nat,
         CommonUpTo(n, v, i, w, j), ~EqualsBase(v[i], w[j])
  PROVE  CommonUpTo(n, v, i - 1, w, j) \/ CommonUpTo(n, v, i, w, j - 1)
<1>1. PICK f \in [1..n -> 1..i], g \in [1..n -> 1..j] :
         /\ \A a, b \in 1..n : a < b => f[a] < f[b] /\ g[a] < g[b]
         /\ \A a \in 1..n : EqualsBase(v[f[a]], w[g[a]])
  BY DEF CommonUpTo
<1>2. n \in 1..n /\ f[n] \in 1..i /\ g[n] \in 1..j
  OBVIOUS
<1>3. f[n] # i \/ g[n] # j
  BY <1>1, <1>2
<1>4. ASSUME NEW a \in 1..n
      PROVE  f[a] \in 1..i /\ f[a] <= f[n] /\ g[a] \in 1..j /\ g[a] <= g[n]
  <2>1. CASE a = n
    BY <1>2, <2>1
  <2>2. CASE a # n
    <3>1. a < n
      BY <2>2
    <3> QED BY <1>1, <1>2, <3>1
  <2> QED BY <2>1, <2>2
<1>5. CASE f[n] # i
  <2>1. f \in [1..n -> 1..(i - 1)]
    <3>1. \A a \in 1..n : f[a] \in 1..(i - 1)
      BY <1>2, <1>4, <1>5
    <3> QED BY <3>1
  <2> QED BY <1>1, <2>1 DEF CommonUpTo
<1>6. CASE g[n] # j
  <2>1. g \in [1..n -> 1..(j - 1)]
    <3>1. \A a \in 1..n : g[a] \in 1..(j - 1)
      BY <1>2, <1>4, <1>6
    <3> QED BY <3>1
  <2> QED BY <1>1, <2>1 DEF CommonUpTo
<1> QED BY <1>3, <1>5, <1>6
----------------------------------------------------------------------------
(* A row of the table, given the one before.                                *)
LEMMA RowDef ==
  ASSUME NEW w, Len(w) \in Nat, NEW previous \in [0..Len(w) -> Int], NEW c
  PROVE  /\ Row(previous, c, w) \in [0..Len(w) -> Int]
         /\ Row(previous, c, w)[0] = 0
         /\ \A j \in 1..Len(w) : Row(previous, c, w)[j] =
              IF EqualsBase(c, w[j]) THEN previous[j - 1] + 1
              ELSE Larger(Row(previous, c, w)[j - 1], previous[j])
<1> DEFINE Rec(r) == r = [j \in 0..Len(w) |-> IF j = 0 THEN 0
                                         ELSE IF EqualsBase(c, w[j]) THEN previous[j - 1] + 1
                                         ELSE Larger(r[j - 1], previous[j])]
           row == CHOOSE r : Rec(r)
           R == {t \in (1..Len(w)) \X Int \X Int :
                   t[3] = IF EqualsBase(c, w[t[1]]) THEN previous[t[1] - 1] + 1
                          ELSE Larger(t[2], previous[t[1]])}
<1>1. PICK g \in [0..Len(w) -> Int] : g[0] \in {0} /\ \A j \in 1..Len(w) : <<j, g[j - 1], g[j]>> \in R
  <2>1. \E x \in Int : x \in {0}
    OBVIOUS
  <2>2. ASSUME NEW j \in 1..Len(w), NEW x \in Int PROVE \E y \in Int : <<j, x, y>> \in R
    <3> DEFINE y == IF EqualsBase(c, w[j]) THEN previous[j - 1] + 1 ELSE Larger(x, previous[j])
    <3>1. y \in Int
      BY DEF Larger
    <3> HIDE DEF y
    <3>2. <<j, x, y>> \in R
      BY <3>1 DEF y
    <3> QED BY <3>1, <3>2
  <2> HIDE DEF R
  <2> QED BY <2>1, <2>2, RecursionExists, Zenon
<1>2. Rec(g)
  <2>1. ASSUME NEW j \in 1..Len(w)
        PROVE g[j] = IF EqualsBase(c, w[j]) THEN previous[j - 1] + 1
                     ELSE Larger(g[j - 1], previous[j])
    <3>1. <<j, g[j - 1], g[j]>> \in R
      BY <1>1
    <3> QED BY <3>1
  <2> HIDE DEF R
  <2> QED BY <1>1, <2>1
<1>3. Rec(row)
  BY <1>2
<1>4. Row(previous, c, w) = row
  BY DEF Row
<1> HIDE DEF row, R
<1>5. /\ row[0] = 0
      /\ \A j \in 1..Len(w) : row[j] = IF EqualsBase(c, w[j]) THEN previous[j - 1] + 1
                                  ELSE Larger(row[j - 1], previous[j])
  BY <1>3
<1> HIDE DEF Rec
<1>6. row \in [0..Len(w) -> Int]
  <2> DEFINE S == {j \in 0..Len(w) : row[j] \in Int}
  <2>1. 0 \in S
    BY <1>5
  <2>2. ASSUME NEW k \in 1..Len(w), k - 1 \in S PROVE k \in S
    <3>1. row[k - 1] \in Int /\ previous[k - 1] \in Int /\ previous[k] \in Int
      BY <2>2
    <3>2. CASE EqualsBase(c, w[k])
      <4>1. row[k] = previous[k - 1] + 1
        BY <1>5, <3>2
      <4> QED BY <3>1, <4>1
    <3>3. CASE ~EqualsBase(c, w[k])
      <4>1. row[k] = Larger(row[k - 1], previous[k])
        BY <1>5, <3>3
      <4>2. row[k] \in Int
        BY <3>1, <4>1 DEF Larger
      <4> QED BY <4>2
    <3> QED BY <3>2, <3>3
  <2> HIDE DEF S
  <2>3. \A j \in 0..Len(w) : j \in S
    BY <2>1, <2>2, Induction
  <2> QED BY <1>3, <2>3 DEF S, Rec
<1> QED BY <1>4, <1>5, <1>6

(* The table of the dynamic program.                                        *)
LEMMA TableDef ==
  ASSUME NEW v, Len(v) \in Nat, NEW w, Len(w) \in Nat
  PROVE  \E L \in [0..Len(v) -> [0..Len(w) -> Int]] :
           /\ LastRow(v, w) = L[Len(v)]
           /\ \A j \in 0..Len(w) : L[0][j] = 0
           /\ \A i \in 1..Len(v) : L[i][0] = 0
           /\ \A i \in 1..Len(v), j \in 1..Len(w) :
                L[i][j] = IF EqualsBase(v[i], w[j]) THEN L[i - 1][j - 1] + 1
                          ELSE Larger(L[i][j - 1], L[i - 1][j])
<1> DEFINE Zeros == [j \in 0..Len(w) |-> 0]
           Rec(t) == t = [i \in 0..Len(v) |-> IF i = 0 THEN Zeros ELSE Row(t[i - 1], v[i], w)]
           L == CHOOSE t : Rec(t)
           S == [0..Len(w) -> Int]
           R == {t \in (1..Len(v)) \X S \X S : t[3] = Row(t[2], v[t[1]], w)}
<1>1. Zeros \in S
  OBVIOUS
<1>2. \A i \in 1..Len(v), previous \in S : Row(previous, v[i], w) \in S
  BY RowDef
<1>3. PICK g \in [0..Len(v) -> S] :
        g[0] \in {Zeros} /\ \A i \in 1..Len(v) : <<i, g[i - 1], g[i]>> \in R
  <2>1. ASSUME NEW i \in 1..Len(v), NEW x \in S PROVE \E y \in S : <<i, x, y>> \in R
    <3>1. Row(x, v[i], w) \in S
      BY <1>2
    <3> HIDE DEF S
    <3> QED BY <3>1
  <2> HIDE DEF R, S, Zeros
  <2>2. \E x \in S : x \in {Zeros}
    BY <1>1
  <2> QED BY <2>1, <2>2, RecursionExists, Zenon
<1>4. Rec(g)
  <2>1. ASSUME NEW i \in 1..Len(v) PROVE g[i] = Row(g[i - 1], v[i], w)
    <3> HIDE DEF S
    <3>1. <<i, g[i - 1], g[i]>> \in R
      BY <1>3
    <3> QED BY <3>1
  <2> HIDE DEF S, R, Zeros
  <2> QED BY <1>3, <2>1
<1>5. Rec(L)
  BY <1>4
<1>6. LastRow(v, w) = L[Len(v)]
  BY DEF LastRow
<1> HIDE DEF L, R
<1>7. L[0] = Zeros /\ \A i \in 1..Len(v) : L[i] = Row(L[i - 1], v[i], w)
  <2> HIDE DEF Zeros
  <2> QED BY <1>5
<1>8. \A i \in 0..Len(v) : L[i] \in S
  <2> DEFINE T == {i \in 0..Len(v) : L[i] \in S}
  <2> HIDE DEF S
  <2>1. 0 \in T
    BY <1>1, <1>7
  <2>2. ASSUME NEW k \in 1..Len(v), k - 1 \in T PROVE k \in T
    BY <1>2, <1>7, <2>2
  <2> HIDE DEF T
  <2>3. \A i \in 0..Len(v) : i \in T
    BY <2>1, <2>2, Induction
  <2> QED BY <2>3 DEF T
<1>9. L \in [0..Len(v) -> S]
  <2> HIDE DEF S, Zeros
  <2> QED BY <1>5, <1>8
<1> HIDE DEF Rec
<1>10. ASSUME NEW i \in 1..Len(v)
       PROVE  /\ L[i][0] = 0
              /\ \A j \in 1..Len(w) : L[i][j] = IF EqualsBase(v[i], w[j]) THEN L[i - 1][j - 1] + 1
                                           ELSE Larger(L[i][j - 1], L[i - 1][j])
  <2>1. L[i - 1] \in S /\ L[i] = Row(L[i - 1], v[i], w)
    <3> HIDE DEF S
    <3> QED BY <1>7, <1>8
  <2> DEFINE previous == L[i - 1]
  <2>2. previous \in [0..Len(w) -> Int] /\ L[i] = Row(previous, v[i], w)
    BY <2>1
  <2> HIDE DEF previous
  <2>3. /\ Row(previous, v[i], w)[0] = 0
        /\ \A j \in 1..Len(w) : Row(previous, v[i], w)[j] =
             IF EqualsBase(v[i], w[j]) THEN previous[j - 1] + 1
             ELSE Larger(Row(previous, v[i], w)[j - 1], previous[j])
    BY <2>2, RowDef, Zenon
  <2> QED BY <2>2, <2>3 DEF previous
<1>11. \A j \in 0..Len(w) : L[0][j] = 0
  BY <1>7
<1> QED BY <1>6, <1>9, <1>10, <1>11

(* An entry of the table is the length of the longest common subsequence of *)
(* the two words up to there.                                               *)
LEMMA TableIsRight ==
  ASSUME NEW n \in Nat, NEW v, NEW m \in Nat, NEW w, NEW L \in [0..n -> [0..m -> Int]],
         \A j \in 0..m : L[0][j] = 0,
         \A i \in 1..n : L[i][0] = 0,
         \A i \in 1..n, j \in 1..m :
           L[i][j] = IF EqualsBase(v[i], w[j]) THEN L[i - 1][j - 1] + 1
                     ELSE Larger(L[i][j - 1], L[i - 1][j])
  PROVE  \A i \in 0..n, j \in 0..m :
           /\ L[i][j] \in 0..i /\ L[i][j] <= j
           /\ CommonUpTo(L[i][j], v, i, w, j)
           /\ \A k \in Nat : CommonUpTo(k, v, i, w, j) => k <= L[i][j]
<1> DEFINE Right(i, j) ==
             /\ L[i][j] \in 0..i /\ L[i][j] <= j
             /\ CommonUpTo(L[i][j], v, i, w, j)
             /\ \A k \in Nat : CommonUpTo(k, v, i, w, j) => k <= L[i][j]
           Rows == {i \in 0..n : \A j \in 0..m : Right(i, j)}
<1>1. ASSUME NEW i \in Nat, NEW j \in Nat PROVE CommonUpTo(0, v, i, w, j)
  <2>1. 1..0 = {}
    OBVIOUS
  <2>2. <<>> \in [1..0 -> 1..i] /\ <<>> \in [1..0 -> 1..j]
    BY <2>1
  <2> QED BY <2>1, <2>2 DEF CommonUpTo
<1>2. ASSUME NEW i \in Nat, NEW j \in Nat, i = 0 \/ j = 0, NEW k \in Nat,
             CommonUpTo(k, v, i, w, j)
      PROVE  k = 0
  <2> SUFFICES ASSUME k # 0 PROVE FALSE
    OBVIOUS
  <2>1. i > 0 /\ j > 0
    BY <1>2, CommonShrinks
  <2> QED BY <1>2, <2>1
<1>3. ASSUME NEW i \in 0..n, NEW j \in 0..m, i = 0 \/ j = 0 PROVE Right(i, j)
  <2>1. L[i][j] = 0
    BY <1>3
  <2>2. \A k \in Nat : CommonUpTo(k, v, i, w, j) => k <= L[i][j]
    BY <1>2, <1>3, <2>1
  <2> QED BY <1>1, <2>1, <2>2
<1>4. ASSUME NEW i \in 1..n, NEW j \in 1..m, Right(i - 1, j - 1), Right(i - 1, j), Right(i, j - 1)
      PROVE  Right(i, j)
  <2>0. L[i][j] = IF EqualsBase(v[i], w[j]) THEN L[i - 1][j - 1] + 1
                  ELSE Larger(L[i][j - 1], L[i - 1][j])
    OBVIOUS
  <2>1. i - 1 \in Nat /\ j - 1 \in Nat /\ i \in Nat \ {0} /\ j \in Nat \ {0}
    OBVIOUS
  <2> DEFINE x == L[i - 1][j - 1]  y == L[i][j - 1]  z == L[i - 1][j]
  <2>2. /\ x \in Nat /\ x <= i - 1 /\ x <= j - 1 /\ CommonUpTo(x, v, i - 1, w, j - 1)
        /\ \A k \in Nat : CommonUpTo(k, v, i - 1, w, j - 1) => k <= x
    BY <1>4
  <2>3. /\ y \in Nat /\ y <= i /\ y <= j - 1 /\ CommonUpTo(y, v, i, w, j - 1)
        /\ \A k \in Nat : CommonUpTo(k, v, i, w, j - 1) => k <= y
    BY <1>4
  <2>4. /\ z \in Nat /\ z <= i - 1 /\ z <= j /\ CommonUpTo(z, v, i - 1, w, j)
        /\ \A k \in Nat : CommonUpTo(k, v, i - 1, w, j) => k <= z
    <3>1. Right(i - 1, j)
      BY <1>4
    <3>2. /\ z \in 0..(i - 1) /\ z <= j /\ CommonUpTo(z, v, i - 1, w, j)
          /\ \A k \in Nat : CommonUpTo(k, v, i - 1, w, j) => k <= z
      BY <3>1, Zenon
    <3> HIDE DEF z, Right
    <3> QED BY <3>2
  <2>5. L[i][j] = IF EqualsBase(v[i], w[j]) THEN x + 1 ELSE Larger(y, z)
    BY <2>0
  <2> HIDE DEF x, y, z
  <2> DEFINE e == L[i][j]
  <2>6. e = IF EqualsBase(v[i], w[j]) THEN x + 1 ELSE Larger(y, z)
    BY <2>5
  <2> SUFFICES /\ e \in 0..i /\ e <= j
               /\ CommonUpTo(e, v, i, w, j)
               /\ \A k \in Nat : CommonUpTo(k, v, i, w, j) => k <= e
    OBVIOUS
  <2> HIDE DEF e, Right
  <2>7. CASE EqualsBase(v[i], w[j])
    <3>1. e = x + 1 /\ e \in 0..i /\ e <= j
      BY <2>2, <2>6, <2>7
    <3>2. CommonUpTo(e, v, i, w, j)
      BY <2>1, <2>2, <2>7, <3>1, CommonExtends
    <3>3. ASSUME NEW k \in Nat, CommonUpTo(k, v, i, w, j) PROVE k <= e
      <4>1. CASE k = 0
        BY <3>1, <4>1
      <4>2. CASE k # 0
        <5>1. CommonUpTo(k - 1, v, i - 1, w, j - 1) /\ k - 1 \in Nat
          BY <3>3, <4>2, CommonShrinks
        <5>2. k - 1 <= x
          BY <2>2, <5>1
        <5> QED BY <2>2, <3>1, <5>2
      <4> QED BY <4>1, <4>2
    <3> QED BY <3>1, <3>2, <3>3
  <2>8. CASE ~EqualsBase(v[i], w[j])
    <3>1. e = Larger(y, z)
      BY <2>6, <2>8
    <3>2. e \in 0..i /\ e <= j /\ y <= e /\ z <= e /\ (e = y \/ e = z)
      BY <2>3, <2>4, <3>1 DEF Larger
    <3>3. CommonUpTo(e, v, i, w, j)
      <4>1. CommonUpTo(y, v, i, w, j)
        BY <2>1, <2>3, CommonGrows
      <4>2. CommonUpTo(z, v, i, w, j)
        BY <2>1, <2>4, CommonGrows
      <4> QED BY <3>2, <4>1, <4>2
    <3>4. ASSUME NEW k \in Nat, CommonUpTo(k, v, i, w, j) PROVE k <= e
      <4>1. CASE k = 0
        BY <3>2, <4>1
      <4>2. CASE k # 0
        <5>0. k \in Nat \ {0} /\ i \in Nat /\ j \in Nat
          BY <4>2
        <5>1. CommonUpTo(k, v, i - 1, w, j) \/ CommonUpTo(k, v, i, w, j - 1)
          BY <2>8, <3>4, <5>0, CommonSplits
        <5>2. k <= z \/ k <= y
          BY <2>3, <2>4, <5>1
        <5>3. y \in Int /\ z \in Int /\ e \in Int /\ y <= e /\ z <= e
          BY <2>3, <2>4, <3>2
        <5> QED BY <5>2, <5>3
      <4> QED BY <4>1, <4>2
    <3> QED BY <3>2, <3>3, <3>4
  <2> QED BY <2>7, <2>8
<1> HIDE DEF Right
<1>5. 0 \in Rows
  BY <1>3
<1>6. ASSUME NEW i \in 1..n, i - 1 \in Rows PROVE i \in Rows
  <2> DEFINE Columns == {j \in 0..m : Right(i, j)}
  <2>1. 0 \in Columns
    BY <1>3
  <2>2. ASSUME NEW j \in 1..m, j - 1 \in Columns PROVE j \in Columns
    <3>1. Right(i - 1, j - 1) /\ Right(i - 1, j) /\ Right(i, j - 1)
      BY <1>6, <2>2
    <3> QED BY <1>4, <3>1
  <2> HIDE DEF Columns
  <2>3. \A j \in 0..m : j \in Columns
    BY <2>1, <2>2, Induction
  <2> QED BY <2>3 DEF Columns
<1> HIDE DEF Rows
<1>7. \A i \in 0..n : i \in Rows
  BY <1>5, <1>6, Induction
<1> QED BY <1>7 DEF Rows, Right

LEMMA CommonIsSymmetric ==
  ASSUME NEW n \in Nat, NEW v, NEW i, NEW w, NEW j, CommonUpTo(n, v, i, w, j)
  PROVE  CommonUpTo(n, w, j, v, i)
<1>1. PICK f \in [1..n -> 1..i], g \in [1..n -> 1..j] :
         /\ \A a, b \in 1..n : a < b => f[a] < f[b] /\ g[a] < g[b]
         /\ \A a \in 1..n : EqualsBase(v[f[a]], w[g[a]])
  BY DEF CommonUpTo
<1>2. \A a \in 1..n : EqualsBase(w[g[a]], v[f[a]])
  BY <1>1 DEF EqualsBase
<1> QED BY <1>1, <1>2 DEF CommonUpTo

LEMMA LastEntryIsRight ==
  ASSUME NEW v, Len(v) \in Nat, NEW w, Len(w) \in Nat
  PROVE  /\ LastRow(v, w)[Len(w)] \in 0..Len(v) /\ LastRow(v, w)[Len(w)] <= Len(w)
         /\ CommonUpTo(LastRow(v, w)[Len(w)], v, Len(v), w, Len(w))
         /\ \A k \in Nat : CommonUpTo(k, v, Len(v), w, Len(w)) => k <= LastRow(v, w)[Len(w)]
<1>1. PICK L \in [0..Len(v) -> [0..Len(w) -> Int]] :
         /\ LastRow(v, w) = L[Len(v)]
         /\ \A j \in 0..Len(w) : L[0][j] = 0
         /\ \A i \in 1..Len(v) : L[i][0] = 0
         /\ \A i \in 1..Len(v), j \in 1..Len(w) :
              L[i][j] = IF EqualsBase(v[i], w[j]) THEN L[i - 1][j - 1] + 1
                        ELSE Larger(L[i][j - 1], L[i - 1][j])
  BY TableDef
<1>2. \A i \in 0..Len(v), j \in 0..Len(w) :
        /\ L[i][j] \in 0..i /\ L[i][j] <= j
        /\ CommonUpTo(L[i][j], v, i, w, j)
        /\ \A k \in Nat : CommonUpTo(k, v, i, w, j) => k <= L[i][j]
  BY <1>1, TableIsRight
<1>3. Len(v) \in 0..Len(v) /\ Len(w) \in 0..Len(w)
  OBVIOUS
<1> QED BY <1>1, <1>2, <1>3

(* The dynamic program computes the length of the longest common            *)
(* subsequence, whichever of the words is the longer one.                   *)
LEMMA LcsIsRight ==
  ASSUME NEW v, Len(v) \in Nat, NEW w, Len(w) \in Nat
  PROVE  /\ LongestCommonSubsequenceLength(v, w) \in 0..Len(v)
         /\ LongestCommonSubsequenceLength(v, w) <= Len(w)
         /\ CommonUpTo(LongestCommonSubsequenceLength(v, w), v, Len(v), w, Len(w))
         /\ \A k \in Nat : CommonUpTo(k, v, Len(v), w, Len(w)) =>
                             k <= LongestCommonSubsequenceLength(v, w)
<1>1. CASE Len(v) > Len(w)
  <2>1. LongestCommonSubsequenceLength(v, w) = LastRow(v, w)[Len(w)]
    BY <1>1 DEF LongestCommonSubsequenceLength
  <2> QED BY <2>1, LastEntryIsRight
<1>2. CASE ~(Len(v) > Len(w))
  <2> DEFINE n == LongestCommonSubsequenceLength(v, w)
  <2>1. n = LastRow(w, v)[Len(v)]
    BY <1>2 DEF LongestCommonSubsequenceLength
  <2>2. /\ n \in 0..Len(w) /\ n <= Len(v)
        /\ CommonUpTo(n, w, Len(w), v, Len(v))
        /\ \A k \in Nat : CommonUpTo(k, w, Len(w), v, Len(v)) => k <= n
    BY <2>1, LastEntryIsRight
  <2> HIDE DEF n
  <2>3. n \in 0..Len(v) /\ n <= Len(w) /\ CommonUpTo(n, v, Len(v), w, Len(w))
    BY <2>2, CommonIsSymmetric
  <2>4. ASSUME NEW k \in Nat, CommonUpTo(k, v, Len(v), w, Len(w)) PROVE k <= n
    BY <2>2, <2>4, CommonIsSymmetric
  <2> QED BY <2>3, <2>4 DEF n
<1> QED BY <1>1, <1>2

LEMMA WordBoundaryCharsType ==
  ASSUME NEW w \in Word
  PROVE  WordBoundaryChars(w) \in Word
<1> DEFINE n == Len(w)
           Longer(s, i) == IF IsWordBoundary(w, i) THEN Append(s, w[i]) ELSE s
           Rec(t) == t = [i \in 0..n |-> IF i = 0 THEN <<>> ELSE Longer(t[i - 1], i)]
           chars == CHOOSE t : Rec(t)
           R == {t \in (1..n) \X Word \X Word : t[3] = Longer(t[2], t[1])}
<1>1. n \in Nat /\ \A i \in 1..n : w[i] \in Character
  BY DEF Word
<1>2. <<>> \in Word
  BY DEF Word
<1>3. \A i \in 1..n, s \in Word : Longer(s, i) \in Word
  BY <1>1, AppendProperties DEF Word
<1>4. WordBoundaryChars(w) = chars[n]
  BY DEF WordBoundaryChars
<1> HIDE DEF n
<1>5. PICK g \in [0..n -> Word] : g[0] \in {<<>>} /\ \A i \in 1..n : <<i, g[i - 1], g[i]>> \in R
  <2>1. ASSUME NEW i \in 1..n, NEW s \in Word PROVE \E y \in Word : <<i, s, y>> \in R
    <3>1. Longer(s, i) \in Word
      BY <1>3
    <3> HIDE DEF Longer
    <3> QED BY <3>1
  <2> HIDE DEF R
  <2>2. \E x \in Word : x \in {<<>>}
    BY <1>2
  <2> QED BY <1>1, <2>1, <2>2, RecursionExists, Zenon
<1>6. Rec(g)
  <2>1. ASSUME NEW i \in 1..n PROVE g[i] = Longer(g[i - 1], i)
    <3> HIDE DEF Longer
    <3>1. <<i, g[i - 1], g[i]>> \in R
      BY <1>5
    <3> QED BY <3>1
  <2> HIDE DEF R, Longer
  <2> QED BY <1>1, <1>5, <2>1
<1>7. Rec(chars)
  BY <1>6
<1> HIDE DEF chars, R, Longer
<1>8. chars[0] = <<>> /\ \A i \in 1..n : chars[i] = Longer(chars[i - 1], i)
  BY <1>1, <1>7
<1> DEFINE T == {i \in 0..n : chars[i] \in Word}
<1>9. 0 \in T
  BY <1>1, <1>2, <1>8
<1>10. ASSUME NEW k \in 1..n, k - 1 \in T PROVE k \in T
  BY <1>3, <1>8, <1>10
<1> HIDE DEF T
<1>11. n \in T
  BY <1>1, <1>9, <1>10, Induction
<1> QED BY <1>4, <1>11 DEF T
----------------------------------------------------------------------------
(* A place is 0 from the first character on that has none, else the first   *)
(* match after the place before.                                            *)
LEMMA PlacesDef ==
  ASSUME NEW q \in Word, NEW w \in Word
  PROVE  /\ Places(q, w) \in [0..Len(q) -> 0..Len(w)]
         /\ Places(q, w)[0] = 0
         /\ \A i \in 1..Len(q) : Places(q, w)[i] # 0 =>
              /\ Places(q, w)[i] > Places(q, w)[i - 1]
              /\ MatchesSmart(q[i], w[Places(q, w)[i]])
              /\ i > 1 => Places(q, w)[i - 1] # 0
              /\ \A m \in 1..Len(w) : m > Places(q, w)[i - 1] /\ MatchesSmart(q[i], w[m])
                                        => Places(q, w)[i] <= m
         /\ \A i \in 1..Len(q) : Places(q, w)[i] = 0 =>
              \/ i > 1 /\ Places(q, w)[i - 1] = 0
              \/ \A m \in 1..Len(w) : ~(m > Places(q, w)[i - 1] /\ MatchesSmart(q[i], w[m]))
<1> DEFINE n == Len(q)
           P == 0..Len(w)
           Later(p, i) == {k \in 1..Len(w) : k > p /\ MatchesSmart(q[i], w[k])}
           Place(p, i) == IF Later(p, i) = {} \/ (i > 1 /\ p = 0) THEN 0
                          ELSE CHOOSE k \in Later(p, i) : \A m \in Later(p, i) : k <= m
           Rec(t) == t = [i \in 0..n |-> IF i = 0 THEN 0 ELSE Place(t[i - 1], i)]
           place == CHOOSE t : Rec(t)
           R == {t \in (1..n) \X P \X P : t[3] = Place(t[2], t[1])}
<1>1. n \in Nat /\ Len(w) \in Nat
  BY DEF Word
<1>2. ASSUME NEW p \in P, NEW i \in 1..n
      PROVE  \/ Place(p, i) = 0 /\ (Later(p, i) = {} \/ (i > 1 /\ p = 0))
             \/ /\ Place(p, i) \in Later(p, i) /\ (i > 1 => p # 0)
                /\ \A m \in Later(p, i) : Place(p, i) <= m
  <2>1. Later(p, i) \in SUBSET Nat
    BY <1>1
  <2>2. CASE Later(p, i) = {} \/ (i > 1 /\ p = 0)
    <3> HIDE DEF Later
    <3> QED BY <2>2
  <2>3. CASE ~(Later(p, i) = {} \/ (i > 1 /\ p = 0))
    <3> HIDE DEF Later
    <3>1. \E k \in Later(p, i) : \A m \in Later(p, i) : k <= m
      BY <2>1, <2>3, LeastNumber
    <3>2. Place(p, i) = CHOOSE k \in Later(p, i) : \A m \in Later(p, i) : k <= m
      BY <2>3
    <3> HIDE DEF Place
    <3> QED BY <2>3, <3>1, <3>2
  <2> QED BY <2>2, <2>3
<1>3. Places(q, w) = place
  BY DEF Places
<1> HIDE DEF n, Place
<1>4. ASSUME NEW p \in P, NEW i \in 1..n PROVE Place(p, i) \in P
  <2>1. Place(p, i) = 0 \/ Place(p, i) \in Later(p, i)
    BY <1>2
  <2> QED BY <1>1, <2>1
<1>5. PICK g \in [0..n -> P] : g[0] \in {0} /\ \A i \in 1..n : <<i, g[i - 1], g[i]>> \in R
  <2>1. ASSUME NEW i \in 1..n, NEW p \in P PROVE \E y \in P : <<i, p, y>> \in R
    <3>1. Place(p, i) \in P
      BY <1>4
    <3> HIDE DEF P
    <3> QED BY <3>1
  <2>2. \E x \in P : x \in {0}
    BY <1>1
  <2> HIDE DEF R, P
  <2> QED BY <1>1, <2>1, <2>2, RecursionExists, Zenon
<1>6. Rec(g)
  <2>1. ASSUME NEW i \in 1..n PROVE g[i] = Place(g[i - 1], i)
    <3> HIDE DEF P
    <3>1. <<i, g[i - 1], g[i]>> \in R
      BY <1>5
    <3> QED BY <3>1
  <2> HIDE DEF R, P
  <2> QED BY <1>1, <1>5, <2>1
<1>7. Rec(place)
  BY <1>6
<1> HIDE DEF place, R
<1>8. place[0] = 0 /\ \A i \in 1..n : place[i] = Place(place[i - 1], i)
  <2> HIDE DEF P
  <2> QED BY <1>1, <1>7
<1> DEFINE T == {i \in 0..n : place[i] \in P}
<1>9. \A i \in 0..n : place[i] \in P
  <2> HIDE DEF P
  <2>1. 0 \in T
    <3>1. 0 \in P
      BY <1>1 DEF P
    <3> QED BY <1>1, <1>8, <3>1
  <2>2. ASSUME NEW k \in 1..n, k - 1 \in T PROVE k \in T
    BY <1>4, <1>8, <2>2
  <2> HIDE DEF T
  <2>3. \A i \in 0..n : i \in T
    BY <1>1, <2>1, <2>2, Induction
  <2> QED BY <2>3 DEF T
<1>10. place \in [0..n -> P]
  <2> HIDE DEF P
  <2> QED BY <1>7, <1>9
<1> HIDE DEF Rec
<1>11. ASSUME NEW i \in 1..n
       PROVE  \/ place[i] = 0 /\ (Later(place[i - 1], i) = {} \/ (i > 1 /\ place[i - 1] = 0))
              \/ /\ place[i] \in Later(place[i - 1], i) /\ (i > 1 => place[i - 1] # 0)
                 /\ \A m \in Later(place[i - 1], i) : place[i] <= m
  <2>1. place[i - 1] \in P /\ place[i] = Place(place[i - 1], i)
    <3> HIDE DEF P
    <3> QED BY <1>1, <1>8, <1>9
  <2> HIDE DEF P, Later
  <2> QED BY <1>2, <2>1
<1>12. ASSUME NEW i \in 1..n, place[i] # 0
       PROVE  /\ place[i] > place[i - 1] /\ MatchesSmart(q[i], w[place[i]])
              /\ i > 1 => place[i - 1] # 0
              /\ \A m \in 1..Len(w) : m > place[i - 1] /\ MatchesSmart(q[i], w[m])
                                        => place[i] <= m
  BY <1>11, <1>12
<1>13. ASSUME NEW i \in 1..n, place[i] = 0
       PROVE  \/ i > 1 /\ place[i - 1] = 0
              \/ \A m \in 1..Len(w) : ~(m > place[i - 1] /\ MatchesSmart(q[i], w[m]))
  <2>1. 0 \notin Later(place[i - 1], i)
    OBVIOUS
  <2>2. (i > 1 /\ place[i - 1] = 0) \/ Later(place[i - 1], i) = {}
    <3> HIDE DEF Later
    <3> QED BY <1>11, <1>13, <2>1
  <2> QED BY <2>2
<1> HIDE DEF Later
<1> QED BY <1>3, <1>8, <1>10, <1>12, <1>13, Zenon DEF n, P

(* Where the leftmost match lies.                                           *)
LEMMA PlacesOfLeftmost ==
  ASSUME query \in Word, candidate \in Word, NEW f \in Embeddings,
         \A g \in Embeddings : \A i \in 1..Len(query) : f[i] <= g[i]
  PROVE  \A i \in 1..Len(query) : Places(query, candidate)[i] = f[i]
<1> DEFINE n == Len(query)
           m == Len(candidate)
           place == Places(query, candidate)
           S == {i \in 0..n : i > 0 => place[i] = f[i]}
<1>1. n \in Nat /\ m \in Nat
  BY DEF Word
<1>2. /\ place \in [0..n -> 0..m]
      /\ place[0] = 0
      /\ \A i \in 1..n : place[i] # 0 =>
           /\ place[i] > place[i - 1] /\ MatchesSmart(query[i], candidate[place[i]])
           /\ i > 1 => place[i - 1] # 0
           /\ \A k \in 1..m : k > place[i - 1] /\ MatchesSmart(query[i], candidate[k])
                                => place[i] <= k
      /\ \A i \in 1..n : place[i] = 0 =>
           \/ i > 1 /\ place[i - 1] = 0
           \/ \A k \in 1..m : ~(k > place[i - 1] /\ MatchesSmart(query[i], candidate[k]))
  BY PlacesDef
<1>3. /\ f \in [1..n -> 1..m]
      /\ \A i, j \in 1..n : i < j => f[i] < f[j]
      /\ \A i \in 1..n : MatchesSmart(query[i], candidate[f[i]])
  BY DEF Embeddings, IsEmbedding
<1>4. \A g : /\ g \in [1..n -> 1..m]
             /\ \A i, j \in 1..n : i < j => g[i] < g[j]
             /\ \A i \in 1..n : MatchesSmart(query[i], candidate[g[i]])
             => \A i \in 1..n : f[i] <= g[i]
  BY Zenon DEF Embeddings, IsEmbedding
<1> HIDE DEF n, m, place
<1>5. 0 \in S
  BY <1>1
<1>6. ASSUME NEW k \in 1..n, k - 1 \in S PROVE k \in S
  <2>1. f[k] \in 1..m /\ place[k - 1] \in 0..m /\ place[k] \in 0..m
    BY <1>1, <1>2, <1>3
  <2>2. place[k - 1] < f[k] /\ (k > 1 => place[k - 1] # 0 /\ place[k - 1] = f[k - 1])
    <3>1. CASE k = 1
      BY <1>2, <2>1, <3>1
    <3>2. CASE k > 1
      <4>1. k - 1 \in 1..n /\ place[k - 1] = f[k - 1] /\ f[k - 1] \in 1..m
        BY <1>3, <1>6, <3>2
      <4>2. f[k - 1] < f[k]
        BY <1>3, <4>1
      <4> QED BY <4>1, <4>2
    <3> QED BY <3>1, <3>2
  <2>3. place[k] # 0
    BY <1>2, <1>3, <2>1, <2>2
  <2>4. place[k] <= f[k] /\ place[k] > place[k - 1] /\ MatchesSmart(query[k], candidate[place[k]])
    BY <1>2, <1>3, <2>1, <2>2, <2>3
  <2> DEFINE g == [f EXCEPT ![k] = place[k]]
  <2>5. g \in [1..n -> 1..m] /\ g[k] = place[k] /\ \A i \in 1..n : i # k => g[i] = f[i]
    BY <1>3, <2>1, <2>3
  <2> HIDE DEF g
  <2>6. ASSUME NEW i \in 1..n, NEW j \in 1..n, i < j PROVE g[i] < g[j]
    <3>1. f[i] \in 1..m /\ f[j] \in 1..m /\ f[i] < f[j]
      BY <1>3, <2>6
    <3>2. CASE i # k /\ j # k
      BY <2>5, <3>1, <3>2
    <3>3. CASE i = k
      <4>1. g[i] = place[k] /\ g[j] = f[j] /\ place[k] <= f[i]
        BY <2>4, <2>5, <2>6, <3>3
      <4> QED BY <2>1, <3>1, <4>1
    <3>4. CASE j = k
      <4>1. g[j] = place[k] /\ g[i] = f[i] /\ k > 1
        BY <2>5, <2>6, <3>4
      <4>2. f[i] <= f[k - 1]
        <5>1. CASE i = k - 1
          BY <1>3, <3>1, <5>1
        <5>2. CASE i # k - 1
          <6>1. i < k - 1 /\ k - 1 \in 1..n
            BY <1>1, <2>6, <3>4, <5>2
          <6>2. f[i] < f[k - 1] /\ f[k - 1] \in 1..m
            BY <1>3, <6>1
          <6> QED BY <3>1, <6>2
        <5> QED BY <5>1, <5>2
      <4>3. f[i] <= place[k - 1]
        BY <2>2, <4>1, <4>2
      <4> QED BY <2>1, <2>4, <3>1, <4>1, <4>3
    <3> QED BY <3>2, <3>3, <3>4
  <2>7. ASSUME NEW i \in 1..n PROVE MatchesSmart(query[i], candidate[g[i]])
    <3>1. CASE i = k
      BY <2>4, <2>5, <3>1
    <3>2. CASE i # k
      BY <1>3, <2>5, <3>2
    <3> QED BY <3>1, <3>2
  <2>8. f[k] <= g[k]
    BY <1>4, <2>5, <2>6, <2>7
  <2>9. place[k] = f[k]
    BY <2>1, <2>4, <2>5, <2>8
  <2> QED BY <2>9
<1> HIDE DEF S
<1>7. \A i \in 0..n : i \in S
  BY <1>1, <1>5, <1>6, Induction
<1>8. \A i \in 1..n : place[i] = f[i]
  BY <1>7 DEF S
<1> QED BY <1>8 DEF n, place

(* Places for all characters are a match.                                   *)
LEMMA PlacesEmbed ==
  ASSUME query \in Word, candidate \in Word, query # <<>>, IsSubsequence(query, candidate)
  PROVE  Embeddings # {}
<1> DEFINE n == Len(query)
           m == Len(candidate)
           place == Places(query, candidate)
           S == {i \in 0..n : place[n - i] = 0 => i = n}
<1>1. n \in Nat /\ m \in Nat /\ n > 0
  BY EmptySeq DEF Word
<1>2. /\ place \in [0..n -> 0..m]
      /\ \A i \in 1..n : place[i] # 0 =>
           /\ place[i] > place[i - 1] /\ MatchesSmart(query[i], candidate[place[i]])
           /\ i > 1 => place[i - 1] # 0
  BY PlacesDef
<1>3. place[n] > 0
  BY DEF IsSubsequence
<1> HIDE DEF n, m, place
<1>4. 0 \in S
  BY <1>1, <1>3
<1>5. ASSUME NEW k \in 1..n, k - 1 \in S PROVE k \in S
  <2> SUFFICES ASSUME k # n PROVE place[n - k] # 0
    OBVIOUS
  <2>1. place[n - (k - 1)] # 0
    BY <1>5
  <2>2. n - (k - 1) \in 1..n /\ n - (k - 1) > 1 /\ n - (k - 1) - 1 = n - k
    BY <1>1
  <2> QED BY <1>2, <2>1, <2>2
<1> HIDE DEF S
<1>6. \A i \in 0..n : i \in S
  BY <1>1, <1>4, <1>5, Induction
<1>7. ASSUME NEW i \in 1..n
      PROVE  /\ place[i] \in 1..m /\ place[i - 1] < place[i]
             /\ MatchesSmart(query[i], candidate[place[i]])
  <2>1. n - i \in 0..n /\ n - (n - i) = i /\ n - i # n
    BY <1>1
  <2>2. place[i] # 0
    BY <1>6, <2>1 DEF S
  <2> QED BY <1>1, <1>2, <2>2
<1>8. ASSUME NEW i \in 1..n PROVE \A j \in 1..n : i < j => place[i] < place[j]
  <2> DEFINE T == {k \in 0..n : k > i => place[i] < place[k]}
  <2>1. 0 \in T
    BY <1>1
  <2>2. ASSUME NEW k \in 1..n, k - 1 \in T PROVE k \in T
    <3>1. place[k - 1] \in 0..m /\ place[k] \in 1..m /\ place[i] \in 1..m /\ place[k - 1] < place[k]
      BY <1>1, <1>2, <1>7
    <3>2. k > i => place[i] <= place[k - 1]
      <4>1. CASE k - 1 > i
        BY <2>2, <3>1, <4>1
      <4>2. CASE k - 1 = i
        BY <3>1, <4>2
      <4> QED BY <4>1, <4>2
    <3> QED BY <3>1, <3>2
  <2> HIDE DEF T
  <2>3. \A k \in 0..n : k \in T
    BY <1>1, <2>1, <2>2, Induction
  <2> QED BY <2>3 DEF T
<1> DEFINE f == [i \in 1..n |-> place[i]]
<1>9. f \in [1..n -> 1..m] /\ \A i \in 1..n : f[i] = place[i]
  BY <1>7
<1> HIDE DEF f
<1>10. \A i, j \in 1..n : i < j => f[i] < f[j]
  BY <1>8, <1>9
<1>11. \A i \in 1..n : MatchesSmart(query[i], candidate[f[i]])
  BY <1>7, <1>9
<1>12. f \in Embeddings
  BY <1>9, <1>10, <1>11, Zenon DEF Embeddings, IsEmbedding, n, m
<1> QED BY <1>12
----------------------------------------------------------------------------
(* What has been matched so far. *)
MatchedSoFar ==
  /\ \A i \in 1..query_index : /\ matched[i] <= candidate_index
                               /\ MatchesSmart(query[i], candidate[matched[i]])
  /\ \A i, j \in 1..query_index : i < j => matched[i] < matched[j]

(* Every match of the whole query is ahead of the loop: it uses later       *)
(* places for what was matched, and what is not matched yet lies ahead.     *)
StaysAhead ==
  \A f \in Embeddings :
    /\ \A i \in 1..query_index : matched[i] <= f[i]
    /\ query_index < Len(query) => f[query_index + 1] > candidate_index

(* Until the first miss both indexes are equal.                             *)
InStep ==
  /\ query_index <= candidate_index
  /\ candidate_index = query_index =>
       \A i \in 1..query_index : MatchesSmart(query[i], candidate[i])
  /\ candidate_index > query_index =>
       \E i \in 1..Len(query) : i <= Len(candidate) /\ ~MatchesSmart(query[i], candidate[i])

Fresh == candidate_index = 0 /\ query_index = 0 /\ matched = <<>>
         /\ query_is_candidate_prefix = FALSE

IInv ==
  /\ TypeOK
  /\ outcome = "starting" => Fresh
  /\ outcome = "looking" =>
       /\ query_index < Len(query)
       /\ MatchedSoFar /\ StaysAhead /\ InStep
  /\ NoneIsNone /\ Leftmost /\ PrefixIsPrefix
----------------------------------------------------------------------------
LEMMA LenFacts == ASSUME NEW w \in Word PROVE Len(w) \in Nat /\ DOMAIN w = 1..Len(w)
BY DEF Word

(* Characters that match have the same base.                                *)
LEMMA MatchingBases ==
  ASSUME NEW c, NEW d, MatchesSmart(c, d) PROVE Base(c) = Base(d)
BY DEF MatchesSmart, EqualsBase, EqualsIgnoreCase, FoldedCase, Base

(* The bytes never sift out a match.                                        *)
LEMMA SiftIsSound ==
  ASSUME query \in Word, candidate \in Word, ~ContainsBytes(candidate, query)
  PROVE  Embeddings = {}
<1> SUFFICES ASSUME NEW f \in Embeddings PROVE ContainsBytes(candidate, query)
  OBVIOUS
<1>1. Len(query) \in Nat /\ DOMAIN query = 1..Len(query)
      /\ DOMAIN candidate = 1..Len(candidate)
  BY LenFacts
<1>2. f \in [1..Len(query) -> 1..Len(candidate)]
      /\ \A i \in 1..Len(query) : MatchesSmart(query[i], candidate[f[i]])
  BY DEF Embeddings, IsEmbedding
<1>3. ASSUME NEW i \in DOMAIN query PROVE Base(query[i]) \in BytesPresent(candidate)
  <2>1. f[i] \in DOMAIN candidate /\ Base(query[i]) = Base(candidate[f[i]])
    BY <1>1, <1>2, MatchingBases
  <2> QED BY <2>1 DEF BytesPresent
<1> QED BY <1>3 DEF ContainsBytes, BytesPresent

(* A query longer than the candidate has no match.                          *)
LEMMA TooLongHasNone ==
  ASSUME query \in Word, candidate \in Word, Len(candidate) < Len(query)
  PROVE  Embeddings = {}
<1> SUFFICES ASSUME NEW f \in Embeddings PROVE FALSE
  OBVIOUS
<1>1. Len(query) \in Nat /\ Len(candidate) \in Nat
  BY LenFacts
<1>2. f \in [1..Len(query) -> 1..Len(candidate)]
      /\ \A i, j \in 1..Len(query) : i < j => f[i] < f[j]
  BY DEF Embeddings, IsEmbedding
<1>3. \A n \in Nat : IsFiniteSet(1..n) /\ Cardinality(1..n) = n
  <2> SUFFICES ASSUME NEW n \in Nat PROVE IsFiniteSet(1..n) /\ Cardinality(1..n) = n
    OBVIOUS
  <2>1. 1 \in Int /\ n \in Int
    OBVIOUS
  <2>2. IsFiniteSet(1..n)
    BY <2>1, FS_Interval, Zenon
  <2>3. Cardinality(1..n) = IF 1 > n THEN 0 ELSE n - 1 + 1
    BY <2>1, FS_Interval, Zenon
  <2> QED BY <2>2, <2>3
<1>4. PICK x, y \in 1..Len(query) : x # y /\ f[x] = f[y]
  BY <1>1, <1>2, <1>3, FS_PigeonHole
<1>5. f[x] \in Int /\ (f[x] < f[y] \/ f[y] < f[x])
  BY <1>1, <1>2, <1>4
<1> QED BY <1>1, <1>2, <1>4, <1>5

(* The empty query has one match.                                           *)
LEMMA EmptyHasMatch ==
  ASSUME query = <<>>, candidate \in Word
  PROVE  <<>> \in Embeddings
<1>1. Len(query) = 0 /\ 1..Len(query) = {}
  OBVIOUS
<1>2. <<>> \in [1..Len(query) -> 1..Len(candidate)]
  BY <1>1
<1> QED BY <1>1, <1>2 DEF Embeddings, IsEmbedding

LEMMA SameEmbeddings == ASSUME UNCHANGED inputs PROVE Embeddings' = Embeddings
BY DEF inputs, Embeddings, IsEmbedding
----------------------------------------------------------------------------
LEMMA InitHolds == Init => IInv
<1> SUFFICES ASSUME Init PROVE IInv
  OBVIOUS
<1>1. query \in Word /\ candidate \in Word
  BY WordsAssumption DEF Init
<1>2. Len(query) \in Nat /\ Len(candidate) \in Nat
  BY <1>1, LenFacts
<1>3. matched \in Seq(1..Len(candidate)) /\ Len(matched) = 0
  BY EmptySeq DEF Init
<1>4. query_is_candidate_prefix \in BOOLEAN
  BY Zenon DEF Init
<1>5. TypeOK
  BY <1>1, <1>2, <1>3, <1>4 DEF Init, TypeOK
<1> QED BY <1>5 DEF Init, IInv, Fresh, NoneIsNone, Leftmost, PrefixIsPrefix

LEMMA SiftOutHolds == ASSUME IInv, SiftOut PROVE IInv'
<1>1. /\ outcome' = "sifted" /\ UNCHANGED inputs /\ UNCHANGED progress
      /\ candidate = <<>> \/ ~ContainsBytes(candidate, query)
  BY DEF SiftOut
<1>2. TypeOK'
  BY <1>1 DEF IInv, TypeOK, inputs, progress
<1>3. candidate = <<>> \/ Embeddings = {}
  BY <1>1, SiftIsSound DEF IInv, TypeOK
<1>4. candidate' = <<>> \/ Embeddings' = {}
  BY <1>1, <1>3, SameEmbeddings DEF inputs
<1> QED BY <1>1, <1>2, <1>4 DEF IInv, NoneIsNone, Leftmost, PrefixIsPrefix

LEMMA StartHolds == ASSUME IInv, Start PROVE IInv'
<1>1. /\ outcome = "starting" /\ UNCHANGED inputs /\ UNCHANGED progress
      /\ outcome' = CASE query = <<>> -> "match"
                      [] query # <<>> /\ Len(candidate) < Len(query) -> "none"
                      [] OTHER -> "looking"
  BY DEF Start
<1>2. query \in Word /\ candidate \in Word /\ Fresh
  BY <1>1 DEF IInv, TypeOK
<1>3. Len(query) \in Nat /\ Len(candidate) \in Nat /\ DOMAIN query = 1..Len(query)
  BY <1>2, LenFacts
<1>4. query # <<>> => Len(query) > 0
  BY <1>2, <1>3, EmptySeq DEF Word
<1>5. query' = query /\ candidate' = candidate /\ Embeddings' = Embeddings
  BY <1>1, SameEmbeddings DEF inputs
<1>6. /\ candidate_index' = 0 /\ query_index' = 0 /\ matched' = <<>>
      /\ query_is_candidate_prefix' = FALSE
  BY <1>1, <1>2 DEF Fresh, progress
<1>7. ASSUME outcome' \in {"match", "none", "looking"} PROVE TypeOK'
  BY <1>1, <1>7 DEF IInv, TypeOK, inputs, progress
<1>8. CASE query = <<>>
  <2>1. outcome' = "match"
    BY <1>1, <1>8
  <2>2. TypeOK'
    BY <1>7, <2>1
  <2>3. Leftmost'
    <3>1. matched' \in Embeddings'
      BY <1>2, <1>5, <1>6, <1>8, EmptyHasMatch
    <3>2. 1..Len(query') = {}
      BY <1>5, <1>8
    <3> QED BY <3>1, <3>2 DEF Leftmost
  <2>4. PrefixIsPrefix'
    BY <1>5, <1>6, <1>8 DEF PrefixIsPrefix
  <2> QED BY <2>1, <2>2, <2>3, <2>4 DEF IInv, NoneIsNone
<1>9. CASE query # <<>> /\ Len(candidate) < Len(query)
  <2>1. outcome' = "none"
    BY <1>1, <1>9
  <2>2. TypeOK'
    BY <1>7, <2>1
  <2>3. Embeddings' = {}
    BY <1>2, <1>5, <1>9, TooLongHasNone
  <2> QED BY <2>1, <2>2, <2>3 DEF IInv, NoneIsNone, Leftmost, PrefixIsPrefix
<1>10. CASE query # <<>> /\ ~(Len(candidate) < Len(query))
  <2>1. outcome' = "looking"
    BY <1>1, <1>10
  <2>2. TypeOK'
    BY <1>7, <2>1
  <2>3. query_index' < Len(query')
    BY <1>4, <1>5, <1>6, <1>10
  <2>4. MatchedSoFar'
    BY <1>6 DEF MatchedSoFar
  <2>5. StaysAhead'
    <3>1. ASSUME NEW f \in Embeddings PROVE f[1] > 0
      <4>1. f \in [1..Len(query) -> 1..Len(candidate)]
        BY DEF Embeddings
      <4>2. 1 \in 1..Len(query)
        BY <1>3, <1>4, <1>10
      <4> QED BY <1>3, <4>1, <4>2
    <3> QED BY <1>5, <1>6, <3>1 DEF StaysAhead
  <2>6. InStep'
    BY <1>6 DEF InStep
  <2> QED BY <2>1, <2>2, <2>3, <2>4, <2>5, <2>6 DEF IInv, NoneIsNone, Leftmost, PrefixIsPrefix
<1> QED BY <1>8, <1>9, <1>10

(* The facts every step of the loop starts from.                            *)
LEMMA LoopFacts ==
  ASSUME IInv, outcome = "looking"
  PROVE  /\ query \in Word /\ candidate \in Word
         /\ Len(query) \in Nat /\ Len(candidate) \in Nat
         /\ candidate_index \in 0..Len(candidate)
         /\ query_index \in 0..Len(query) /\ query_index < Len(query)
         /\ index_sum \in Nat
         /\ matched \in Seq(1..Len(candidate)) /\ Len(matched) = query_index
         /\ MatchedSoFar /\ StaysAhead /\ InStep
         /\ \A f \in Embeddings :
              /\ \A i \in 1..Len(query) :
                   f[i] \in 1..Len(candidate) /\ MatchesSmart(query[i], candidate[f[i]])
              /\ \A i, j \in 1..Len(query) : i < j => f[i] < f[j]
<1>1. query \in Word /\ candidate \in Word
  BY DEF IInv, TypeOK
<1>2. Len(query) \in Nat /\ Len(candidate) \in Nat
  BY <1>1, LenFacts
<1> QED BY <1>1, <1>2 DEF IInv, TypeOK, Embeddings, IsEmbedding

LEMMA MissHolds == ASSUME IInv, Miss PROVE IInv'
<1>1. /\ outcome = "looking" /\ candidate_index < Len(candidate)
      /\ ~MatchesSmart(query[query_index + 1], candidate[candidate_index + 1])
      /\ candidate_index' = candidate_index + 1
      /\ query' = query /\ candidate' = candidate /\ query_index' = query_index
      /\ index_sum' = index_sum /\ outcome' = outcome /\ matched' = matched
      /\ query_is_candidate_prefix' = query_is_candidate_prefix
  BY DEF Miss, Looking, Hit, inputs
<1>2. Embeddings' = Embeddings
  BY <1>1, SameEmbeddings DEF inputs
<1> USE LoopFacts
<1>3. TypeOK'
  BY <1>1 DEF IInv, TypeOK
<1>4. MatchedSoFar'
  <2>1. ASSUME NEW i \in 1..query_index
        PROVE  /\ matched[i] <= candidate_index + 1
               /\ MatchesSmart(query[i], candidate[matched[i]])
    <3>1. matched[i] \in 1..Len(candidate) /\ matched[i] <= candidate_index
      BY <1>1 DEF MatchedSoFar
    <3> QED BY <1>1, <3>1 DEF MatchedSoFar
  <2> QED BY <1>1, <2>1 DEF MatchedSoFar
<1>5. StaysAhead'
  <2>1. ASSUME NEW f \in Embeddings PROVE f[query_index + 1] > candidate_index + 1
    <3>1. query_index + 1 \in 1..Len(query)
      BY <1>1
    <3>2. f[query_index + 1] \in 1..Len(candidate) /\ f[query_index + 1] > candidate_index
      BY <1>1, <3>1 DEF StaysAhead
    <3>3. f[query_index + 1] # candidate_index + 1
      BY <1>1, <3>1
    <3> QED BY <1>1, <3>2, <3>3
  <2> QED BY <1>1, <1>2, <2>1 DEF StaysAhead
<1>6. InStep'
  <2>1. query_index' <= candidate_index' /\ candidate_index' > query_index'
    BY <1>1 DEF InStep
  <2>2. \E i \in 1..Len(query) : i <= Len(candidate) /\ ~MatchesSmart(query[i], candidate[i])
    <3>1. CASE candidate_index = query_index
      <4>1. query_index + 1 \in 1..Len(query) /\ query_index + 1 <= Len(candidate)
        BY <1>1, <3>1
      <4> QED BY <1>1, <3>1, <4>1
    <3>2. CASE candidate_index > query_index
      BY <1>1, <3>2 DEF InStep
    <3> QED BY <1>1, <3>1, <3>2 DEF InStep
  <2> QED BY <1>1, <2>1, <2>2 DEF InStep
<1>7. outcome' = "looking" /\ query_index' < Len(query')
  BY <1>1
<1> QED BY <1>3, <1>4, <1>5, <1>6, <1>7 DEF IInv, NoneIsNone, Leftmost, PrefixIsPrefix

(* A match extends what was matched, and still leads every other match.     *)
LEMMA MatchHereHolds ==
  ASSUME IInv, MatchHere
  PROVE  /\ outcome = "looking" /\ query' = query /\ candidate' = candidate
         /\ Embeddings' = Embeddings
         /\ candidate_index' \in 0..Len(candidate) /\ query_index' \in 0..Len(query)
         /\ candidate_index' = candidate_index + 1 /\ query_index' = query_index + 1
         /\ index_sum' \in Nat
         /\ matched' \in Seq(1..Len(candidate)) /\ Len(matched') = query_index'
         /\ MatchedSoFar' /\ InStep'
         /\ \A f \in Embeddings : \A i \in 1..query_index' : matched'[i] <= f[i]
         /\ MatchesSmart(query[query_index + 1], candidate[candidate_index + 1])
<1>1. /\ outcome = "looking" /\ candidate_index < Len(candidate)
      /\ MatchesSmart(query[query_index + 1], candidate[candidate_index + 1])
      /\ candidate_index' = candidate_index + 1 /\ query_index' = query_index + 1
      /\ index_sum' = index_sum + candidate_index
      /\ matched' = Append(matched, candidate_index + 1)
      /\ query' = query /\ candidate' = candidate
  BY DEF MatchHere, Looking, Hit, inputs
<1>2. Embeddings' = Embeddings
  BY <1>1, SameEmbeddings DEF inputs
<1>3. /\ Len(query) \in Nat /\ Len(candidate) \in Nat
      /\ candidate_index \in Nat /\ query_index \in Nat
      /\ query_index < Len(query) /\ index_sum \in Nat
      /\ matched \in Seq(1..Len(candidate)) /\ Len(matched) = query_index
      /\ MatchedSoFar /\ StaysAhead /\ InStep
  BY <1>1, LoopFacts
<1>4. /\ candidate_index + 1 \in 1..Len(candidate)
      /\ candidate_index' \in 0..Len(candidate) /\ query_index' \in 0..Len(query)
      /\ index_sum' \in Nat
  BY <1>1, <1>3
<1>5. /\ matched' \in Seq(1..Len(candidate)) /\ Len(matched') = query_index + 1
      /\ \A i \in 1..query_index : matched'[i] = matched[i]
      /\ matched'[query_index + 1] = candidate_index + 1
  BY <1>1, <1>3, <1>4, AppendProperties
<1>6. \A i \in 1..query_index : matched[i] \in 1..Len(candidate)
  BY <1>3
<1>7. \A i \in 1..(query_index + 1) : i = query_index + 1 \/ i \in 1..query_index
  BY <1>3
<1>8. MatchedSoFar'
  <2>1. ASSUME NEW i \in 1..(query_index + 1)
        PROVE  /\ matched'[i] <= candidate_index + 1
               /\ MatchesSmart(query[i], candidate[matched'[i]])
    <3>1. CASE i = query_index + 1
      BY <1>1, <1>3, <1>5, <3>1
    <3>2. CASE i \in 1..query_index
      <4>1. matched'[i] = matched[i] /\ matched[i] \in Nat
        BY <1>5, <1>6, <3>2
      <4>2. /\ matched[i] <= candidate_index
            /\ MatchesSmart(query[i], candidate[matched[i]])
        BY <1>3, <3>2 DEF MatchedSoFar
      <4> QED BY <1>3, <4>1, <4>2
    <3> QED BY <1>7, <3>1, <3>2
  <2>2. ASSUME NEW i \in 1..(query_index + 1), NEW j \in 1..(query_index + 1), i < j
        PROVE  matched'[i] < matched'[j]
    <3>1. i \in 1..query_index /\ matched'[i] = matched[i] /\ matched[i] \in Nat
      BY <1>3, <1>5, <1>6, <2>2
    <3>2. CASE j = query_index + 1
      <4>1. matched[i] <= candidate_index
        BY <1>3, <3>1 DEF MatchedSoFar
      <4> QED BY <1>3, <1>5, <3>1, <3>2, <4>1
    <3>3. CASE j \in 1..query_index
      <4>1. matched'[j] = matched[j]
        BY <1>5, <3>3
      <4>2. matched[i] < matched[j]
        BY <1>3, <2>2, <3>1, <3>3 DEF MatchedSoFar
      <4> QED BY <3>1, <4>1, <4>2
    <3> QED BY <1>7, <3>2, <3>3
  <2> QED BY <1>1, <2>1, <2>2 DEF MatchedSoFar
<1>9. ASSUME NEW f \in Embeddings, NEW i \in 1..(query_index + 1)
      PROVE  matched'[i] <= f[i]
  <2>1. CASE i = query_index + 1
    <3>1. f[i] > candidate_index
      BY <1>3, <2>1 DEF StaysAhead
    <3>2. f[i] \in 1..Len(candidate)
      BY <1>1, <1>3, <2>1, LoopFacts
    <3> QED BY <1>3, <1>5, <2>1, <3>1, <3>2
  <2>2. CASE i \in 1..query_index
    BY <1>3, <1>5, <2>2 DEF StaysAhead
  <2> QED BY <1>7, <2>1, <2>2
<1>10. InStep'
  <2>1. query_index' <= candidate_index'
    BY <1>1, <1>3 DEF InStep
  <2>2. ASSUME candidate_index' = query_index', NEW i \in 1..query_index'
        PROVE  MatchesSmart(query[i], candidate[i])
    <3>1. candidate_index = query_index
      BY <1>1, <1>3, <2>2
    <3>2. CASE i = query_index + 1
      BY <1>1, <3>1, <3>2
    <3>3. CASE i \in 1..query_index
      BY <1>3, <3>1, <3>3 DEF InStep
    <3> QED BY <1>1, <1>7, <3>2, <3>3
  <2>3. candidate_index' > query_index' =>
          \E i \in 1..Len(query) : i <= Len(candidate) /\ ~MatchesSmart(query[i], candidate[i])
    BY <1>1, <1>3 DEF InStep
  <2> QED BY <1>1, <2>1, <2>2, <2>3 DEF InStep
<1> QED BY <1>1, <1>2, <1>4, <1>5, <1>8, <1>9, <1>10

LEMMA MatchNextHolds == ASSUME IInv, MatchNext PROVE IInv'
<1>1. /\ MatchHere /\ query_index + 1 # Len(query) /\ outcome' = outcome
      /\ query_is_candidate_prefix' = query_is_candidate_prefix
  BY DEF MatchNext, Last
<1>2. /\ outcome = "looking" /\ query' = query /\ candidate' = candidate
      /\ Embeddings' = Embeddings
      /\ candidate_index' \in 0..Len(candidate) /\ query_index' \in 0..Len(query)
      /\ candidate_index' = candidate_index + 1 /\ query_index' = query_index + 1
      /\ index_sum' \in Nat
      /\ matched' \in Seq(1..Len(candidate)) /\ Len(matched') = query_index'
      /\ MatchedSoFar' /\ InStep'
      /\ \A f \in Embeddings : \A i \in 1..query_index' : matched'[i] <= f[i]
  BY <1>1, MatchHereHolds
<1>3. /\ Len(query) \in Nat /\ candidate_index \in Nat /\ query_index \in Nat
      /\ query_index < Len(query) /\ StaysAhead
  BY <1>2, LoopFacts
<1>4. TypeOK'
  BY <1>1, <1>2 DEF IInv, TypeOK
<1>5. query_index' < Len(query')
  BY <1>1, <1>2, <1>3
<1>6. StaysAhead'
  <2>1. ASSUME NEW f \in Embeddings PROVE f[query_index + 2] > candidate_index + 1
    <3>1. query_index + 1 \in 1..Len(query) /\ query_index + 2 \in 1..Len(query)
      BY <1>1, <1>3
    <3>2. f[query_index + 1] > candidate_index
      BY <1>3 DEF StaysAhead
    <3>3. /\ f[query_index + 1] \in 1..Len(candidate)
          /\ f[query_index + 2] \in 1..Len(candidate)
          /\ f[query_index + 1] < f[query_index + 2]
      BY <1>2, <1>3, <3>1, LoopFacts
    <3> QED BY <1>3, <3>2, <3>3
  <2>2. query_index' + 1 = query_index + 2
    BY <1>2, <1>3
  <2> QED BY <1>2, <2>1, <2>2 DEF StaysAhead
<1> QED BY <1>1, <1>2, <1>4, <1>5, <1>6 DEF IInv, NoneIsNone, Leftmost, PrefixIsPrefix

LEMMA MatchLastHolds == ASSUME IInv, MatchLast PROVE IInv'
<1>1. /\ MatchHere /\ query_index + 1 = Len(query) /\ outcome' = "match"
      /\ query_is_candidate_prefix' = (candidate_index = query_index)
  BY DEF MatchLast, Last
<1> USE <1>1, MatchHereHolds, LoopFacts
<1>2. query_is_candidate_prefix' \in BOOLEAN
  BY <1>1, Zenon
<1>3. TypeOK'
  BY <1>2 DEF IInv, TypeOK
<1>4. query_index' = Len(query)
  OBVIOUS
<1>5. matched' \in Embeddings
  <2>1. matched' \in [1..Len(query) -> 1..Len(candidate)]
    <3>1. matched' \in Seq(1..Len(candidate)) /\ Len(matched') = Len(query)
      BY <1>4
    <3> HIDE <1>1, MatchHereHolds, LoopFacts
    <3> QED BY <3>1
  <2>2. \A i, j \in 1..Len(query) : i < j => matched'[i] < matched'[j]
    BY <1>4 DEF MatchedSoFar
  <2>3. \A i \in 1..Len(query) : MatchesSmart(query[i], candidate[matched'[i]])
    BY <1>4 DEF MatchedSoFar
  <2> QED BY <2>1, <2>2, <2>3 DEF Embeddings, IsEmbedding
<1>6. Leftmost'
  BY <1>4, <1>5 DEF Leftmost
<1>7. PrefixIsPrefix'
  <2>1. query # <<>>
    OBVIOUS
  <2>2. CASE candidate_index = query_index
    <3>1. query_is_candidate_prefix' = TRUE
      BY <1>1, <2>2, Zenon
    <3>2. \A i \in 1..Len(query) : MatchesSmart(query[i], candidate[i])
      BY <1>4, <2>2 DEF InStep
    <3> QED BY <2>1, <3>1, <3>2 DEF PrefixIsPrefix
  <2>3. CASE candidate_index # query_index
    <3>1. query_is_candidate_prefix' = FALSE
      BY <1>1, <2>3, Zenon
    <3>2. \E i \in 1..Len(query) : ~MatchesSmart(query[i], candidate[i])
      BY <2>3 DEF InStep
    <3> QED BY <3>1, <3>2 DEF PrefixIsPrefix
  <2> QED BY <2>2, <2>3
<1> QED BY <1>3, <1>6, <1>7 DEF IInv, NoneIsNone

LEMMA ExhaustedHolds == ASSUME IInv, Exhausted PROVE IInv'
<1>1. /\ outcome = "looking" /\ candidate_index = Len(candidate) /\ outcome' = "none"
      /\ UNCHANGED inputs /\ UNCHANGED progress
  BY DEF Exhausted
<1>2. Embeddings' = Embeddings
  BY <1>1, SameEmbeddings
<1>3. TypeOK'
  BY <1>1 DEF IInv, TypeOK, inputs, progress
<1>4. Embeddings = {}
  <2> SUFFICES ASSUME NEW f \in Embeddings PROVE FALSE
    OBVIOUS
  <2>1. query_index + 1 \in 1..Len(query)
    BY <1>1, LoopFacts
  <2>2. f[query_index + 1] \in 1..Len(candidate)
    BY <1>1, <2>1, LoopFacts
  <2>3. f[query_index + 1] > candidate_index
    BY <1>1, LoopFacts DEF StaysAhead
  <2> QED BY <1>1, <2>2, <2>3, LoopFacts
<1> QED BY <1>1, <1>2, <1>3, <1>4 DEF IInv, NoneIsNone, Leftmost, PrefixIsPrefix

LEMMA StepHolds == IInv /\ [Next]_vars => IInv'
<1> SUFFICES ASSUME IInv, [Next]_vars PROVE IInv'
  OBVIOUS
<1>1. CASE UNCHANGED vars
  <2>1. /\ UNCHANGED <<query, candidate, candidate_index, query_index, index_sum>>
        /\ UNCHANGED <<query_is_candidate_prefix, outcome, matched>>
    BY <1>1 DEF vars
  <2>2. Embeddings' = Embeddings
    BY <2>1, SameEmbeddings DEF inputs
  <2> QED BY <2>1, <2>2 DEF IInv, TypeOK, Fresh, MatchedSoFar, StaysAhead, InStep, NoneIsNone,
                            Leftmost, PrefixIsPrefix
<1> QED BY <1>1, SiftOutHolds, StartHolds, MissHolds, MatchNextHolds, MatchLastHolds,
           ExhaustedHolds DEF Next

LEMMA Invariance == Spec => []IInv
<1>1. Init => IInv
  BY InitHolds
<1>2. IInv /\ [Next]_vars => IInv'
  BY StepHolds
<1> QED BY <1>1, <1>2, PTL DEF Spec

----------------------------------------------------------------------------
(* The features of a match.                                                 *)

(* index_sum belongs to the places matched so far, the prefix flag to the   *)
(* last of them, and the bytes were looked at first.                        *)
FeaturesAreRight ==
  /\ index_sum = SumOfIndexes(matched, query_index)
  /\ outcome = "match" =>
       /\ query_index = Len(query)
       /\ query_is_candidate_prefix <=> query # <<>> /\ matched[Len(query)] = Len(query)
  /\ outcome \in {"looking", "match"} => candidate # <<>> /\ ContainsBytes(candidate, query)

LEMMA FeaturesInit == Init => FeaturesAreRight
BY SumOfNone DEF Init, FeaturesAreRight

LEMMA MatchHereSum ==
  ASSUME IInv, FeaturesAreRight, MatchHere
  PROVE  index_sum' = SumOfIndexes(matched', query_index')
<1>1. /\ outcome = "looking" /\ candidate_index < Len(candidate)
      /\ query_index' = query_index + 1
      /\ index_sum' = index_sum + candidate_index
      /\ matched' = Append(matched, candidate_index + 1)
  BY DEF MatchHere, Looking
<1>2. /\ Len(candidate) \in Nat /\ candidate_index \in Nat /\ query_index \in Nat
      /\ matched \in Seq(1..Len(candidate)) /\ Len(matched) = query_index
  BY <1>1, LoopFacts
<1>3. candidate_index + 1 \in 1..Len(candidate)
  BY <1>1, <1>2
<1>4. /\ matched' \in Seq(1..Len(candidate)) /\ Len(matched') = query_index + 1
      /\ \A i \in 1..query_index : matched'[i] = matched[i]
      /\ matched'[query_index + 1] = candidate_index + 1
  BY <1>1, <1>2, <1>3, AppendProperties
<1>5. \A i \in 1..query_index : matched[i] \in Int
  BY <1>2
<1>6. \A i \in 1..query_index' : matched'[i] \in Int
  BY <1>1, <1>2, <1>4
<1>7. SumOfIndexes(matched, query_index) = SumOfIndexes(matched', query_index)
      /\ SumOfIndexes(matched, query_index) \in Int
  BY <1>2, <1>4, <1>5, SameSum
<1>8. SumOfIndexes(matched', query_index')
        = SumOfIndexes(matched', query_index) + matched'[query_index'] - 1
  <2>1. query_index \in Nat /\ query_index' \in Nat /\ query_index' = query_index + 1
    BY <1>1, <1>2
  <2> QED BY <1>6, <2>1, SumStep
<1>9. matched'[query_index'] = candidate_index + 1
  BY <1>1, <1>4
<1>10. index_sum = SumOfIndexes(matched, query_index)
  BY DEF FeaturesAreRight
<1> QED BY <1>1, <1>2, <1>7, <1>8, <1>9, <1>10

LEMMA FeaturesHold == IInv /\ FeaturesAreRight /\ [Next]_vars => FeaturesAreRight'
<1> SUFFICES ASSUME IInv, FeaturesAreRight, [Next]_vars PROVE FeaturesAreRight'
  OBVIOUS
<1>1. CASE UNCHANGED vars
  BY <1>1 DEF vars, FeaturesAreRight
<1>2. CASE SiftOut
  BY <1>2 DEF SiftOut, inputs, progress, FeaturesAreRight
<1>3. CASE Start
  <2>1. /\ UNCHANGED inputs /\ UNCHANGED progress /\ outcome = "starting"
        /\ candidate # <<>> /\ ContainsBytes(candidate, query)
        /\ outcome' = CASE query = <<>> -> "match"
                        [] query # <<>> /\ Len(candidate) < Len(query) -> "none"
                        [] OTHER -> "looking"
    BY <1>3 DEF Start
  <2>2. query_index = 0 /\ query_is_candidate_prefix = FALSE
    BY <2>1 DEF IInv, Fresh
  <2>3. outcome' = "match" => query = <<>> /\ Len(query) = 0
    BY <2>1
  <2> QED BY <2>1, <2>2, <2>3 DEF inputs, progress, FeaturesAreRight
<1>4. CASE Miss
  BY <1>4 DEF Miss, Looking, inputs, FeaturesAreRight
<1>5. CASE MatchNext
  <2>1. index_sum' = SumOfIndexes(matched', query_index')
    BY <1>5, MatchHereSum DEF MatchNext
  <2> QED BY <1>5, <2>1 DEF MatchNext, MatchHere, Looking, inputs, FeaturesAreRight
<1>6. CASE MatchLast
  <2>1. /\ outcome = "looking" /\ UNCHANGED inputs /\ outcome' = "match"
        /\ query_index' = query_index + 1 /\ query_index + 1 = Len(query)
        /\ matched' = Append(matched, candidate_index + 1)
        /\ query_is_candidate_prefix' = (candidate_index = query_index)
    BY <1>6 DEF MatchLast, Last, MatchHere, Looking
  <2>2. index_sum' = SumOfIndexes(matched', query_index')
    BY <1>6, MatchHereSum DEF MatchLast
  <2>3. /\ query \in Word /\ query # <<>>
        /\ candidate_index \in Nat /\ query_index \in Nat
        /\ matched \in Seq(1..Len(candidate)) /\ Len(matched) = query_index
    <3>1. query_index < Len(query)
      BY <2>1, LoopFacts
    <3> QED BY <2>1, <3>1, LoopFacts
  <2>4. matched'[Len(query)] = candidate_index + 1
    BY <2>1, <2>3
  <2>5. candidate_index = query_index <=> matched'[Len(query)] = Len(query)
    BY <2>1, <2>3, <2>4
  <2>6. query_is_candidate_prefix' <=> matched'[Len(query)] = Len(query)
    BY <2>1, <2>5, Zenon
  <2> QED BY <2>1, <2>2, <2>3, <2>6 DEF inputs, FeaturesAreRight
<1>7. CASE Exhausted
  BY <1>7 DEF Exhausted, inputs, progress, FeaturesAreRight
<1> QED BY <1>1, <1>2, <1>3, <1>4, <1>5, <1>6, <1>7 DEF Next

LEMMA FeaturesInvariance == Spec => [](IInv /\ FeaturesAreRight)
<1>1. Init => IInv /\ FeaturesAreRight
  BY InitHolds, FeaturesInit
<1>2. IInv /\ FeaturesAreRight /\ [Next]_vars => (IInv /\ FeaturesAreRight)'
  BY StepHolds, FeaturesHold
<1> QED BY <1>1, <1>2, PTL DEF Spec

LEMMA LeftmostSumIsSmallest == IInv /\ FeaturesAreRight => SmallestSum
<1> SUFFICES ASSUME IInv, FeaturesAreRight, outcome = "match", query # <<>>
             PROVE  /\ \E f \in Embeddings : index_sum = SumOfIndexes(f, Len(query))
                    /\ \A f \in Embeddings : index_sum <= SumOfIndexes(f, Len(query))
  BY DEF SmallestSum
<1>1. /\ matched \in Embeddings
      /\ \A f \in Embeddings : \A i \in 1..Len(query) : matched[i] <= f[i]
  BY DEF IInv, Leftmost
<1>2. index_sum = SumOfIndexes(matched, Len(query)) /\ Len(query) \in Nat
  BY LenFacts DEF FeaturesAreRight, IInv, TypeOK
<1>3. ASSUME NEW f \in Embeddings PROVE index_sum <= SumOfIndexes(f, Len(query))
  <2>1. \A g \in Embeddings : \A i \in 1..Len(query) : g[i] \in Int
    BY DEF Embeddings
  <2>2. \A i \in 1..Len(query) : matched[i] \in Int /\ f[i] \in Int /\ matched[i] <= f[i]
    BY <1>1, <2>1
  <2> QED BY <1>2, <2>2, SumIsMonotone
<1> QED BY <1>1, <1>2, <1>3

LEMMA MatchesAsExplained ==
  ASSUME NEW c \in Character, NEW d \in Character
  PROVE  MatchesSmart(c, d) <=> /\ c.letter = d.letter
                                /\ c.mark # NoMark => c.mark = d.mark
                                /\ c.upper => d.upper
<1>1. c = [letter |-> c.letter, mark |-> c.mark, upper |-> c.upper]
      /\ d = [letter |-> d.letter, mark |-> d.mark, upper |-> d.upper]
  BY DEF Character
<1>2. c.upper \in BOOLEAN /\ d.upper \in BOOLEAN
  BY DEF Character
<1>3. c = d <=> c.letter = d.letter /\ c.mark = d.mark /\ c.upper = d.upper
  BY <1>1
<1>4. FoldedCase(c) = FoldedCase(d) <=> c.letter = d.letter /\ c.mark = d.mark
  BY DEF FoldedCase
<1> QED BY <1>2, <1>3, <1>4 DEF MatchesSmart, IsBase, EqualsBase, Base, IsUppercase, EqualsIgnoreCase

LEMMA TypedWordsMatchSmart == TypeOK => SmartMatching
<1> SUFFICES ASSUME TypeOK, NEW i \in DOMAIN query, NEW j \in DOMAIN candidate
             PROVE  LET c == query[i]  d == candidate[j]
                    IN  MatchesSmart(c, d) <=> /\ c.letter = d.letter
                                               /\ c.mark # NoMark => c.mark = d.mark
                                               /\ c.upper => d.upper
  BY DEF SmartMatching
<1>1. query[i] \in Character /\ candidate[j] \in Character
  BY DEF TypeOK, Word
<1> QED BY <1>1, MatchesAsExplained

LEMMA TypedWordsCount == TypeOK => WordBoundaryMatches
<1> SUFFICES ASSUME TypeOK
             PROVE  LET w == WordBoundaryChars(candidate)
                        n == LongestCommonSubsequenceLength(query, w)
                    IN  Common(n, w) /\ ~Common(n + 1, w)
  BY DEF WordBoundaryMatches
<1> DEFINE w == WordBoundaryChars(candidate)
           n == LongestCommonSubsequenceLength(query, w)
<1>1. Len(query) \in Nat /\ Len(w) \in Nat
  BY WordBoundaryCharsType, LenFacts DEF TypeOK
<1> HIDE DEF w
<1>2. /\ n \in 0..Len(query) /\ CommonUpTo(n, query, Len(query), w, Len(w))
      /\ \A k \in Nat : CommonUpTo(k, query, Len(query), w, Len(w)) => k <= n
  BY <1>1, LcsIsRight
<1> HIDE DEF n
<1>3. \A k : Common(k, w) <=> CommonUpTo(k, query, Len(query), w, Len(w))
  BY Zenon DEF Common, CommonUpTo
<1>4. n + 1 \in Nat /\ ~(n + 1 <= n)
  BY <1>1, <1>2
<1>5. Common(n, w) /\ ~Common(n + 1, w)
  BY <1>2, <1>3, <1>4
<1> QED BY <1>5 DEF w, n

(* What the ranking takes for granted of QueryMatchResult: that its filter  *)
(* passes what the loop matches, and that the features of the Result are    *)
(* the loop's.                                                              *)
LoopAgrees ==
  /\ outcome \in {"sifted", "none"} => ~Passes(candidate)
  /\ outcome = "match" =>
       /\ Passes(candidate)
       /\ index_sum = Result(query, candidate).index_sum
       /\ query_is_candidate_prefix <=> Result(query, candidate).prefix

LEMMA FeaturesAgree == IInv /\ FeaturesAreRight => LoopAgrees
<1> SUFFICES ASSUME IInv, FeaturesAreRight PROVE LoopAgrees
  OBVIOUS
<1>1. /\ query \in Word /\ candidate \in Word
      /\ Len(query) \in Nat /\ (query # <<>> => Len(query) \in 1..Len(query))
  <2>1. query \in Word /\ candidate \in Word
    BY DEF IInv, TypeOK
  <2>2. query # <<>> => Len(query) \in Nat \ {0}
    BY <2>1, EmptySeq DEF Word
  <2> QED BY <2>1, <2>2, LenFacts
<1>2. ASSUME outcome \in {"sifted", "none"} PROVE ~Passes(candidate)
  <2> SUFFICES ASSUME Passes(candidate) PROVE FALSE
    OBVIOUS
  <2>1. candidate # <<>> /\ IsSubsequence(query, candidate)
    BY DEF Passes
  <2>2. Embeddings = {}
    BY <1>2, <2>1 DEF IInv, NoneIsNone
  <2> QED BY <1>1, <2>1, <2>2, EmptyHasMatch, PlacesEmbed
<1>3. ASSUME outcome = "match"
      PROVE  /\ Passes(candidate)
             /\ index_sum = IndexSum(query, candidate)
             /\ query_is_candidate_prefix <=>
                  query # <<>> /\ Places(query, candidate)[Len(query)] = Len(query)
  <2>1. /\ matched \in Embeddings
        /\ \A f \in Embeddings : \A i \in 1..Len(query) : matched[i] <= f[i]
    BY <1>3 DEF IInv, Leftmost
  <2>2. \A i \in 1..Len(query) : Places(query, candidate)[i] = matched[i]
    BY <1>1, <2>1, PlacesOfLeftmost
  <2>3. \A i \in 1..Len(query) : matched[i] \in Int /\ matched[i] > 0
    BY <2>1 DEF Embeddings
  <2>4. SumOfIndexes(matched, Len(query)) = IndexSum(query, candidate)
    BY <1>1, <2>2, <2>3, SameSum DEF IndexSum
  <2>5. /\ index_sum = SumOfIndexes(matched, Len(query))
        /\ query_is_candidate_prefix <=> query # <<>> /\ matched[Len(query)] = Len(query)
        /\ candidate # <<>> /\ ContainsBytes(candidate, query)
    BY <1>3 DEF FeaturesAreRight
  <2>6. query # <<>> => Places(query, candidate)[Len(query)] = matched[Len(query)]
                        /\ matched[Len(query)] > 0
    BY <1>1, <2>2, <2>3
  <2>7. Passes(candidate)
    BY <2>5, <2>6 DEF Passes, IsSubsequence
  <2> QED BY <2>4, <2>5, <2>6, <2>7
<1> QED BY <1>2, <1>3 DEF LoopAgrees, Result
----------------------------------------------------------------------------
(* The order of the results.                                                *)

LEMMA LexAsymmetric ==
  ASSUME NEW s \in Seq(Int), NEW t \in Seq(Int), LexLess(s, t), LexLess(t, s)
  PROVE  FALSE
<1>1. Len(s) \in Nat /\ Len(t) \in Nat
      /\ (\A i \in 1..Len(s) : s[i] \in Int) /\ (\A i \in 1..Len(t) : t[i] \in Int)
  OBVIOUS
<1>2. PICK n \in 0..Len(s) :
         /\ n <= Len(t)
         /\ \A i \in 1..n : s[i] = t[i]
         /\ \/ n = Len(s) /\ n < Len(t)
            \/ n < Len(s) /\ n < Len(t) /\ s[n + 1] < t[n + 1]
  BY DEF LexLess
<1>3. PICK m \in 0..Len(t) :
         /\ m <= Len(s)
         /\ \A i \in 1..m : t[i] = s[i]
         /\ \/ m = Len(t) /\ m < Len(s)
            \/ m < Len(t) /\ m < Len(s) /\ t[m + 1] < s[m + 1]
  BY DEF LexLess
<1>4. CASE n < m
  <2>1. n + 1 \in 1..m /\ s[n + 1] < t[n + 1] /\ s[n + 1] \in Int
    BY <1>1, <1>2, <1>3, <1>4
  <2> QED BY <1>3, <2>1
<1>5. CASE m < n
  <2>1. m + 1 \in 1..n /\ t[m + 1] < s[m + 1] /\ s[m + 1] \in Int
    BY <1>1, <1>2, <1>3, <1>5
  <2> QED BY <1>2, <2>1
<1>6. CASE m = n
  <2>1. n < Len(s) => n + 1 \in 1..Len(s) /\ s[n + 1] \in Int
    BY <1>1
  <2>2. n < Len(t) => n + 1 \in 1..Len(t) /\ t[n + 1] \in Int
    BY <1>1
  <2> QED BY <1>1, <1>2, <1>3, <1>6, <2>1, <2>2
<1> QED BY <1>4, <1>5, <1>6

LEMMA LexWitness ==
  ASSUME NEW s, NEW t, NEW n \in 0..Len(s), n <= Len(t), \A i \in 1..n : s[i] = t[i],
         \/ n = Len(s) /\ n < Len(t)
         \/ n < Len(s) /\ n < Len(t) /\ s[n + 1] < t[n + 1]
  PROVE  LexLess(s, t)
BY DEF LexLess

LEMMA LexTransitive ==
  ASSUME NEW s \in Seq(Int), NEW t \in Seq(Int), NEW u \in Seq(Int),
         LexLess(s, t), LexLess(t, u)
  PROVE  LexLess(s, u)
<1>1. /\ Len(s) \in Nat /\ Len(t) \in Nat /\ Len(u) \in Nat
      /\ \A i \in 1..Len(s) : s[i] \in Int
      /\ \A i \in 1..Len(t) : t[i] \in Int
      /\ \A i \in 1..Len(u) : u[i] \in Int
  OBVIOUS
<1>2. PICK n \in 0..Len(s) :
         /\ n <= Len(t)
         /\ \A i \in 1..n : s[i] = t[i]
         /\ \/ n = Len(s) /\ n < Len(t)
            \/ n < Len(s) /\ n < Len(t) /\ s[n + 1] < t[n + 1]
  BY DEF LexLess
<1>3. PICK m \in 0..Len(t) :
         /\ m <= Len(u)
         /\ \A i \in 1..m : t[i] = u[i]
         /\ \/ m = Len(t) /\ m < Len(u)
            \/ m < Len(t) /\ m < Len(u) /\ t[m + 1] < u[m + 1]
  BY DEF LexLess
<1>4. CASE n < m
  <2>1. n + 1 \in 1..m /\ n < Len(u) /\ t[n + 1] = u[n + 1]
    BY <1>1, <1>2, <1>3, <1>4
  <2>2. \A i \in 1..n : s[i] = u[i]
    BY <1>2, <1>3, <1>4
  <2>3. n = Len(s) \/ (n < Len(s) /\ s[n + 1] < u[n + 1])
    BY <1>2, <2>1
  <2>4. n <= Len(u)
        /\ ((n = Len(s) /\ n < Len(u)) \/ (n < Len(s) /\ n < Len(u) /\ s[n + 1] < u[n + 1]))
    BY <1>1, <2>1, <2>3
  <2> QED BY <2>2, <2>4, LexWitness
<1>5. CASE m < n
  <2>1. m + 1 \in 1..n /\ m < Len(s) /\ m < Len(t) /\ s[m + 1] = t[m + 1]
    BY <1>1, <1>2, <1>3, <1>5
  <2>2. m < Len(u) /\ s[m + 1] < u[m + 1]
    BY <1>1, <1>3, <2>1
  <2>3. \A i \in 1..m : s[i] = u[i]
    BY <1>2, <1>3, <1>5
  <2>4. m \in 0..Len(s) /\ m <= Len(u)
    BY <1>1, <1>3, <2>1
  <2> QED BY <2>1, <2>2, <2>3, <2>4, LexWitness
<1>6. CASE m = n
  <2>1. n < Len(t)
    BY <1>2
  <2>2. n < Len(u) /\ t[n + 1] < u[n + 1]
    BY <1>1, <1>3, <1>6, <2>1
  <2>3. n = Len(s) \/ (n < Len(s) /\ s[n + 1] < u[n + 1])
    <3>1. CASE n = Len(s)
      BY <3>1
    <3>2. CASE n # Len(s)
      <4>1. n < Len(s) /\ s[n + 1] < t[n + 1]
        BY <1>2, <3>2
      <4>2. s[n + 1] \in Int /\ t[n + 1] \in Int /\ u[n + 1] \in Int
        BY <1>1, <2>1, <2>2, <4>1
      <4> QED BY <2>2, <4>1, <4>2
    <3> QED BY <3>1, <3>2
  <2>4. \A i \in 1..n : s[i] = u[i]
    BY <1>2, <1>3, <1>6
  <2>5. n <= Len(u)
        /\ ((n = Len(s) /\ n < Len(u)) \/ (n < Len(s) /\ n < Len(u) /\ s[n + 1] < u[n + 1]))
    BY <1>1, <2>2, <2>3
  <2> QED BY <2>4, <2>5, LexWitness
<1> QED BY <1>4, <1>5, <1>6

LEMMA LexTotal ==
  ASSUME NEW s \in Seq(Int), NEW t \in Seq(Int), ~LexLess(s, t), ~LexLess(t, s)
  PROVE  s = t
<1> DEFINE Apart == {i \in Nat \ {0} : i <= Len(s) /\ i <= Len(t) /\ s[i] # t[i]}
<1>1. Len(s) \in Nat /\ Len(t) \in Nat
      /\ (\A i \in 1..Len(s) : s[i] \in Int) /\ (\A i \in 1..Len(t) : t[i] \in Int)
  OBVIOUS
<1>2. CASE Apart = {}
  <2>1. \A i \in Nat \ {0} : i <= Len(s) /\ i <= Len(t) => s[i] = t[i]
    BY <1>2
  <2>2. ASSUME Len(s) < Len(t) PROVE FALSE
    <3>1. \A i \in 1..Len(s) : s[i] = t[i]
      BY <1>1, <2>1, <2>2
    <3>2. Len(s) \in 0..Len(s) /\ Len(s) <= Len(t)
      BY <1>1, <2>2
    <3> QED BY <2>2, <3>1, <3>2, LexWitness
  <2>3. ASSUME Len(t) < Len(s) PROVE FALSE
    <3>1. \A i \in 1..Len(t) : t[i] = s[i]
      BY <1>1, <2>1, <2>3
    <3>2. Len(t) \in 0..Len(t) /\ Len(t) <= Len(s)
      BY <1>1, <2>3
    <3> QED BY <2>3, <3>1, <3>2, LexWitness
  <2>4. Len(s) = Len(t) /\ \A i \in 1..Len(s) : s[i] = t[i]
    BY <1>1, <2>1, <2>2, <2>3
  <2> QED BY <2>4, SeqEqual
<1>3. CASE Apart # {}
  <2>1. Apart \in SUBSET Nat
    OBVIOUS
  <2> HIDE DEF Apart
  <2>2. PICK k \in Apart : \A i \in Apart : k <= i
    BY <1>3, <2>1, LeastNumber
  <2> DEFINE n == k - 1
  <2>3. /\ n \in Nat /\ n < Len(s) /\ n < Len(t) /\ k = n + 1 /\ s[k] # t[k]
        /\ s[k] \in Int /\ t[k] \in Int
    BY <1>1, <2>2 DEF Apart
  <2>4. \A i \in 1..n : s[i] = t[i]
    <3>1. ASSUME NEW i \in 1..n PROVE i \notin Apart
      BY <2>2, <2>3
    <3>2. ASSUME NEW i \in 1..n PROVE i \in Nat \ {0} /\ i <= Len(s) /\ i <= Len(t)
      <4> HIDE DEF n
      <4> QED BY <1>1, <2>3
    <3> HIDE DEF n
    <3> QED BY <3>1, <3>2 DEF Apart
  <2>5. s[n + 1] < t[n + 1] \/ t[n + 1] < s[n + 1]
    BY <2>3
  <2> HIDE DEF n
  <2>6. n \in 0..Len(s) /\ n \in 0..Len(t) /\ n <= Len(s) /\ n <= Len(t)
    BY <1>1, <2>3
  <2>7. \A i \in 1..n : t[i] = s[i]
    BY <2>4
  <2>8. LexLess(s, t) \/ LexLess(t, s)
    BY <2>3, <2>4, <2>5, <2>6, <2>7, LexWitness
  <2> QED BY <2>8
<1> QED BY <1>2, <1>3

LEMMA CaseSwappedType ==
  ASSUME NEW w \in Word
  PROVE  CaseSwappedText(w) \in Seq(Int)
<1>1. Len(w) \in Nat /\ \A i \in 1..Len(w) : w[i] \in Character
  BY DEF Word
<1>2. \A i \in 1..Len(w) : SwappedCase[w[i]] \in Int
  BY <1>1, ListsAssumption
<1> QED BY <1>1, <1>2 DEF CaseSwappedText

(* The features of a Result and the bound on which its order relies.        *)
LEMMA ResultType ==
  ASSUME NEW q \in Word, NEW w \in Word, NEW r, r = Result(q, w)
  PROVE  /\ r.text = w
         /\ r.first_char_same \in BOOLEAN /\ r.prefix \in BOOLEAN /\ r.lowercase \in BOOLEAN
         /\ r.index_sum \in Int /\ r.num_wb \in Nat /\ r.num_wb <= Len(q)
         /\ r.wb_chars \in Nat /\ r.length \in Nat
<1>1. Len(q) \in Nat /\ Len(w) \in Nat
  BY LenFacts
<1>2. Len(WordBoundaryChars(w)) \in Nat
  BY WordBoundaryCharsType, LenFacts
<1>3. LongestCommonSubsequenceLength(q, WordBoundaryChars(w)) \in 0..Len(q)
  BY <1>1, <1>2, LcsIsRight
<1>4. IndexSum(q, w) \in Int
  <2>1. \A i \in 1..Len(q) : Places(q, w)[i] \in Int
    BY <1>1, PlacesDef
  <2> QED BY <1>1, <2>1, SameSum DEF IndexSum
<1>5. /\ r.text = w /\ r.index_sum = IndexSum(q, w)
      /\ r.num_wb = LongestCommonSubsequenceLength(q, WordBoundaryChars(w))
      /\ r.wb_chars = Len(WordBoundaryChars(w)) /\ r.length = Len(w)
  BY DEF Result
<1>6. r.first_char_same = (q # <<>> /\ w # <<>> /\ EqualsBase(q[1], w[1]))
      /\ r.prefix = (q # <<>> /\ Places(q, w)[Len(q)] = Len(q))
      /\ r.lowercase = TextIsLowercase(w)
  BY DEF Result
<1>7. r.first_char_same \in BOOLEAN /\ r.prefix \in BOOLEAN /\ r.lowercase \in BOOLEAN
  BY <1>6, Zenon DEF TextIsLowercase
<1> QED BY <1>1, <1>2, <1>3, <1>4, <1>5, <1>7

(* The numbers by which operator< compares before it comes to the texts.    *)
Rank(q, r) ==
  <<IF r.first_char_same THEN 0 ELSE 1,
    IF r.num_wb = Len(q) THEN 0 ELSE 1,
    IF r.num_wb = Len(q) THEN r.wb_chars ELSE 0,
    IF r.prefix THEN 0 ELSE 1,
    0 - r.num_wb, r.wb_chars, r.index_sum, r.length,
    IF r.lowercase THEN 0 ELSE 1>>

(* What the features of a match are.                                        *)
IsResult(q, r) ==
  /\ r.text \in Word
  /\ r.first_char_same \in BOOLEAN /\ r.prefix \in BOOLEAN /\ r.lowercase \in BOOLEAN
  /\ r.index_sum \in Int /\ r.num_wb \in Nat /\ r.num_wb <= Len(q)
  /\ r.wb_chars \in Nat /\ r.length \in Nat

LEMMA RankType ==
  ASSUME NEW q \in Word, NEW r, IsResult(q, r)
  PROVE  Rank(q, r) \in Seq(Int) /\ Len(Rank(q, r)) = 9
<1>1. Len(q) \in Nat
  BY LenFacts
<1> QED BY <1>1 DEF Rank, IsResult

(* The tests of operator<, one after the other: the first that tells a from *)
(* b decides.                                                               *)
SameCaps(q, a, b) == OneMatchesQuery(q, a, b) => a.num_wb = b.num_wb /\ a.wb_chars = b.wb_chars

LEMMA FirstTests ==
  ASSUME NEW q, q # <<>>, NEW a, NEW b
  PROVE  /\ a.first_char_same # b.first_char_same => (Less(q, a, b) <=> a.first_char_same)
         /\ a.first_char_same = b.first_char_same /\ OneMatchesQuery(q, a, b)
              => /\ a.num_wb # b.num_wb => (Less(q, a, b) <=> a.num_wb > b.num_wb)
                 /\ a.num_wb = b.num_wb /\ a.wb_chars # b.wb_chars =>
                      (Less(q, a, b) <=> a.wb_chars < b.wb_chars)
<1>1. a.first_char_same # b.first_char_same => (Less(q, a, b) <=> a.first_char_same)
  BY Zenon DEF Less
<1>2. ASSUME a.first_char_same = b.first_char_same, OneMatchesQuery(q, a, b), a.num_wb # b.num_wb
      PROVE  Less(q, a, b) <=> a.num_wb > b.num_wb
  BY <1>2, Zenon DEF Less
<1>3. ASSUME a.first_char_same = b.first_char_same, OneMatchesQuery(q, a, b), a.num_wb = b.num_wb,
             a.wb_chars # b.wb_chars
      PROVE  Less(q, a, b) <=> a.wb_chars < b.wb_chars
  BY <1>3, Zenon DEF Less
<1> QED BY <1>1, <1>2, <1>3, Zenon

LEMMA LaterTests ==
  ASSUME NEW q, q # <<>>, NEW a, NEW b, a.first_char_same = b.first_char_same, SameCaps(q, a, b)
  PROVE  /\ a.prefix # b.prefix => (Less(q, a, b) <=> a.prefix)
         /\ a.prefix = b.prefix
              => /\ a.num_wb # b.num_wb => (Less(q, a, b) <=> a.num_wb > b.num_wb)
                 /\ a.num_wb = b.num_wb /\ a.wb_chars # b.wb_chars =>
                      (Less(q, a, b) <=> a.wb_chars < b.wb_chars)
<1>1. a.prefix # b.prefix => (Less(q, a, b) <=> a.prefix)
  BY Zenon DEF Less, SameCaps
<1>2. ASSUME a.prefix = b.prefix, a.num_wb # b.num_wb
      PROVE  Less(q, a, b) <=> a.num_wb > b.num_wb
  BY <1>2, Zenon DEF Less, SameCaps
<1>3. ASSUME a.prefix = b.prefix, a.num_wb = b.num_wb, a.wb_chars # b.wb_chars
      PROVE  Less(q, a, b) <=> a.wb_chars < b.wb_chars
  BY <1>3, Zenon DEF Less, SameCaps
<1> QED BY <1>1, <1>2, <1>3, Zenon

LEMMA LastTests ==
  ASSUME NEW q, q # <<>>, NEW a, NEW b, a.first_char_same = b.first_char_same,
         a.prefix = b.prefix, a.num_wb = b.num_wb, a.wb_chars = b.wb_chars
  PROVE  /\ a.index_sum # b.index_sum => (Less(q, a, b) <=> a.index_sum < b.index_sum)
         /\ a.index_sum = b.index_sum
              => /\ a.length # b.length => (Less(q, a, b) <=> a.length < b.length)
                 /\ a.length = b.length
                      => /\ a.lowercase # b.lowercase => (Less(q, a, b) <=> a.lowercase)
                         /\ a.lowercase = b.lowercase => (Less(q, a, b) <=> TextLess(a, b))
<1>1. a.index_sum # b.index_sum => (Less(q, a, b) <=> a.index_sum < b.index_sum)
  BY Zenon DEF Less
<1>2. ASSUME a.index_sum = b.index_sum, a.length # b.length
      PROVE  Less(q, a, b) <=> a.length < b.length
  BY <1>2, Zenon DEF Less
<1>3. ASSUME a.index_sum = b.index_sum, a.length = b.length, a.lowercase # b.lowercase
      PROVE  Less(q, a, b) <=> a.lowercase
  BY <1>3, Zenon DEF Less
<1>4. ASSUME a.index_sum = b.index_sum, a.length = b.length, a.lowercase = b.lowercase
      PROVE  Less(q, a, b) <=> TextLess(a, b)
  BY <1>4, Zenon DEF Less
<1> QED BY <1>1, <1>2, <1>3, <1>4, Zenon

LEMMA TruthInNumbers ==
  ASSUME NEW f \in BOOLEAN, NEW g \in BOOLEAN, NEW x, NEW y,
         x = IF f THEN 0 ELSE 1, y = IF g THEN 0 ELSE 1
  PROVE  /\ x \in Int /\ y \in Int
         /\ x < y => f = TRUE /\ g = FALSE
         /\ x = y => f = g
<1>1. (f = TRUE \/ f = FALSE) /\ (g = TRUE \/ g = FALSE)
  BY Zenon
<1>2. (f = TRUE => x = 0) /\ (g = TRUE => y = 0)
  BY Zenon
<1>3. (f = FALSE => x = 1) /\ (g = FALSE => y = 1)
  BY Zenon
<1>4. 0 < 1 /\ ~(0 < 0) /\ ~(1 < 0) /\ ~(1 < 1) /\ 0 # 1 /\ 0 \in Int /\ 1 \in Int
  OBVIOUS
<1> QED BY <1>1, <1>2, <1>3, <1>4, Zenon

(* A lower rank decides, and equal ranks leave it to the texts.             *)
LEMMA LowerRankIsLess ==
  ASSUME NEW q \in Word, q # <<>>, NEW a, IsResult(q, a), NEW b, IsResult(q, b),
         LexLess(Rank(q, a), Rank(q, b))
  PROVE  Less(q, a, b) /\ ~Less(q, b, a)
<1> DEFINE s == Rank(q, a)  t == Rank(q, b)
<1>1. Len(s) = 9 /\ Len(t) = 9 /\ Len(q) \in Nat
  BY RankType, LenFacts
<1>2. PICK n \in 0..8 : (\A i \in 1..n : s[i] = t[i]) /\ s[n + 1] < t[n + 1]
  <2> HIDE DEF s, t
  <2> QED BY <1>1 DEF LexLess, s, t
<1>3. /\ s[1] = (IF a.first_char_same THEN 0 ELSE 1) /\ t[1] = (IF b.first_char_same THEN 0 ELSE 1)
      /\ s[4] = (IF a.prefix THEN 0 ELSE 1) /\ t[4] = (IF b.prefix THEN 0 ELSE 1)
      /\ s[9] = (IF a.lowercase THEN 0 ELSE 1) /\ t[9] = (IF b.lowercase THEN 0 ELSE 1)
  BY DEF Rank
<1>4. /\ s[2] = IF a.num_wb = Len(q) THEN 0 ELSE 1
      /\ s[3] = IF a.num_wb = Len(q) THEN a.wb_chars ELSE 0
      /\ s[5] = 0 - a.num_wb /\ s[6] = a.wb_chars /\ s[7] = a.index_sum /\ s[8] = a.length
  BY DEF Rank
<1>5. /\ t[2] = IF b.num_wb = Len(q) THEN 0 ELSE 1
      /\ t[3] = IF b.num_wb = Len(q) THEN b.wb_chars ELSE 0
      /\ t[5] = 0 - b.num_wb /\ t[6] = b.wb_chars /\ t[7] = b.index_sum /\ t[8] = b.length
  BY DEF Rank
<1> HIDE DEF s, t
<1>6. /\ n > 0 => s[1] = t[1]
      /\ n > 1 => s[2] = t[2]
      /\ n > 2 => s[3] = t[3]
      /\ n > 3 => s[4] = t[4]
      /\ n > 4 => s[5] = t[5]
      /\ n > 5 => s[6] = t[6]
      /\ n > 6 => s[7] = t[7]
      /\ n > 7 => s[8] = t[8]
  BY <1>2
<1>7. /\ n = 0 => s[1] < t[1]
      /\ n = 1 => s[2] < t[2]
      /\ n = 2 => s[3] < t[3]
      /\ n = 3 => s[4] < t[4]
      /\ n = 4 => s[5] < t[5]
      /\ n = 5 => s[6] < t[6]
      /\ n = 6 => s[7] < t[7]
      /\ n = 7 => s[8] < t[8]
      /\ n = 8 => s[9] < t[9]
  BY <1>2
<1>8. /\ a.num_wb \in Nat /\ a.num_wb <= Len(q) /\ b.num_wb \in Nat /\ b.num_wb <= Len(q)
      /\ a.wb_chars \in Nat /\ b.wb_chars \in Nat /\ a.index_sum \in Int /\ b.index_sum \in Int
      /\ a.length \in Nat /\ b.length \in Nat
  BY DEF IsResult
<1>9. /\ s[1] < t[1] => a.first_char_same = TRUE /\ b.first_char_same = FALSE
      /\ s[1] = t[1] => a.first_char_same = b.first_char_same
  BY <1>3, TruthInNumbers DEF IsResult
<1>10. /\ s[4] < t[4] => a.prefix = TRUE /\ b.prefix = FALSE
       /\ s[4] = t[4] => a.prefix = b.prefix
  BY <1>3, TruthInNumbers DEF IsResult
<1>11. s[9] < t[9] => a.lowercase = TRUE /\ b.lowercase = FALSE
  BY <1>3, TruthInNumbers DEF IsResult
<1>12. /\ s[5] = t[5] => a.num_wb = b.num_wb
       /\ s[6] = t[6] => a.wb_chars = b.wb_chars
       /\ s[7] = t[7] => a.index_sum = b.index_sum
       /\ s[8] = t[8] => a.length = b.length
  BY <1>4, <1>5, <1>8
<1>13. /\ s[5] < t[5] => a.num_wb # b.num_wb /\ a.num_wb > b.num_wb /\ ~(b.num_wb > a.num_wb)
       /\ s[6] < t[6] =>
            a.wb_chars # b.wb_chars /\ a.wb_chars < b.wb_chars /\ ~(b.wb_chars < a.wb_chars)
       /\ s[7] < t[7] =>
            a.index_sum # b.index_sum /\ a.index_sum < b.index_sum /\ ~(b.index_sum < a.index_sum)
       /\ s[8] < t[8] => a.length # b.length /\ a.length < b.length /\ ~(b.length < a.length)
  <2>1. \A x, y \in Int : x < y => x # y /\ ~(y < x)
    OBVIOUS
  <2>2. /\ a.num_wb \in Int /\ b.num_wb \in Int /\ a.wb_chars \in Int /\ b.wb_chars \in Int
        /\ a.length \in Int /\ b.length \in Int
    BY <1>8
  <2>3. s[5] < t[5] => a.num_wb # b.num_wb /\ a.num_wb > b.num_wb /\ ~(b.num_wb > a.num_wb)
    <3>1. s[5] = 0 - a.num_wb /\ t[5] = 0 - b.num_wb
      BY <1>4, <1>5
    <3> QED BY <2>2, <3>1
  <2> QED BY <1>4, <1>5, <1>8, <2>1, <2>2, <2>3, Zenon
<1>14. CASE n = 0
  <2>1. a.first_char_same = TRUE /\ b.first_char_same = FALSE
    <3>1. s[1] < t[1]
      BY <1>7, <1>14
    <3> QED BY <1>9, <3>1, Zenon
  <2> QED BY <2>1, FirstTests, Zenon
<1>15. ASSUME n > 0 PROVE a.first_char_same = b.first_char_same
  BY <1>6, <1>9, <1>15, Zenon
<1>16. CASE n = 1
  <2>1. a.num_wb = Len(q) /\ b.num_wb < a.num_wb
    BY <1>1, <1>2, <1>4, <1>5, <1>8, <1>16
  <2>2. OneMatchesQuery(q, a, b) /\ OneMatchesQuery(q, b, a)
    BY <2>1 DEF OneMatchesQuery
  <2>3. a.num_wb # b.num_wb /\ a.num_wb > b.num_wb /\ ~(b.num_wb > a.num_wb)
    BY <1>8, <2>1
  <2>4. a.first_char_same = b.first_char_same
    BY <1>15, <1>16
  <2> QED BY <2>2, <2>3, <2>4, FirstTests, Zenon
<1>17. CASE n = 2
  <2>1. a.num_wb = Len(q) /\ b.num_wb = a.num_wb /\ a.wb_chars < b.wb_chars
    BY <1>4, <1>5, <1>6, <1>7, <1>17
  <2>2. OneMatchesQuery(q, a, b) /\ OneMatchesQuery(q, b, a)
    BY <2>1 DEF OneMatchesQuery
  <2>3. a.wb_chars # b.wb_chars /\ ~(b.wb_chars < a.wb_chars)
    BY <1>8, <2>1
  <2>4. a.first_char_same = b.first_char_same
    BY <1>15, <1>17
  <2> QED BY <2>1, <2>2, <2>3, <2>4, FirstTests, Zenon
<1>18. CASE n > 2
  <2>1. SameCaps(q, a, b) /\ SameCaps(q, b, a)
    BY <1>4, <1>5, <1>6, <1>18 DEF SameCaps, OneMatchesQuery
  <2>2. a.first_char_same = b.first_char_same
    BY <1>15, <1>18
  <2>3. CASE n = 3
    <3>1. s[4] < t[4]
      BY <1>7, <2>3
    <3> QED BY <1>10, <2>1, <2>2, <3>1, LaterTests, Zenon
  <2>4. ASSUME n > 3 PROVE a.prefix = b.prefix
    BY <1>6, <1>10, <2>4, Zenon
  <2>5. CASE n = 4
    <3>1. n > 3 /\ s[5] < t[5]
      BY <1>7, <2>5
    <3> QED BY <1>13, <2>1, <2>2, <2>4, <3>1, LaterTests, Zenon
  <2>6. CASE n = 5
    <3>1. n > 3 /\ s[5] = t[5] /\ s[6] < t[6]
      BY <1>6, <1>7, <2>6
    <3> QED BY <1>12, <1>13, <2>1, <2>2, <2>4, <3>1, LaterTests, Zenon
  <2>7. CASE n > 5
    <3>1. n > 3 /\ s[5] = t[5] /\ s[6] = t[6]
      BY <1>6, <2>7
    <3>2. a.prefix = b.prefix /\ a.num_wb = b.num_wb /\ a.wb_chars = b.wb_chars
      BY <1>12, <2>4, <3>1, Zenon
    <3>3. CASE n = 6
      <4>1. s[7] < t[7]
        BY <1>7, <3>3
      <4> QED BY <1>13, <2>2, <3>2, <4>1, LastTests, Zenon
    <3>4. CASE n = 7
      <4>1. s[7] = t[7] /\ s[8] < t[8]
        BY <1>6, <1>7, <3>4
      <4> QED BY <1>12, <1>13, <2>2, <3>2, <4>1, LastTests, Zenon
    <3>5. CASE n = 8
      <4>1. s[7] = t[7] /\ s[8] = t[8] /\ s[9] < t[9]
        BY <1>6, <1>7, <3>5
      <4> QED BY <1>11, <1>12, <2>2, <3>2, <4>1, LastTests, Zenon
    <3> QED BY <2>7, <3>3, <3>4, <3>5
  <2> QED BY <1>18, <2>3, <2>5, <2>6, <2>7
<1> QED BY <1>14, <1>16, <1>17, <1>18

LEMMA SameRankLeavesTexts ==
  ASSUME NEW q \in Word, q # <<>>, NEW a, IsResult(q, a), NEW b, IsResult(q, b),
         Rank(q, a) = Rank(q, b)
  PROVE  Less(q, a, b) <=> TextLess(a, b)
<1> DEFINE s == Rank(q, a)  t == Rank(q, b)
<1>1. /\ s[1] = (IF a.first_char_same THEN 0 ELSE 1) /\ t[1] = (IF b.first_char_same THEN 0 ELSE 1)
      /\ s[4] = (IF a.prefix THEN 0 ELSE 1) /\ t[4] = (IF b.prefix THEN 0 ELSE 1)
      /\ s[9] = (IF a.lowercase THEN 0 ELSE 1) /\ t[9] = (IF b.lowercase THEN 0 ELSE 1)
  BY DEF Rank
<1>2. a.num_wb \in Nat /\ b.num_wb \in Nat
      /\ s[5] = 0 - a.num_wb /\ s[6] = a.wb_chars /\ s[7] = a.index_sum /\ s[8] = a.length
      /\ t[5] = 0 - b.num_wb /\ t[6] = b.wb_chars /\ t[7] = b.index_sum /\ t[8] = b.length
  BY DEF Rank, IsResult
<1>3. s = t
  OBVIOUS
<1> HIDE DEF s, t
<1>4. a.first_char_same = b.first_char_same
  BY <1>1, <1>3, TruthInNumbers DEF IsResult
<1>5. a.prefix = b.prefix
  BY <1>1, <1>3, TruthInNumbers DEF IsResult
<1>6. a.lowercase = b.lowercase
  BY <1>1, <1>3, TruthInNumbers DEF IsResult
<1>7. /\ a.num_wb = b.num_wb /\ a.wb_chars = b.wb_chars
      /\ a.index_sum = b.index_sum /\ a.length = b.length
  BY <1>2, <1>3
<1> QED BY <1>4, <1>5, <1>6, <1>7, LastTests, Zenon

(* What operator< means: the ranks in lexicographic order, and the texts    *)
(* where there is no query or the ranks are the same.                       *)
LEMMA LessIsLexicographic ==
  ASSUME NEW q \in Word, NEW a, IsResult(q, a), NEW b, IsResult(q, b)
  PROVE  Less(q, a, b) <=> \/ q # <<>> /\ LexLess(Rank(q, a), Rank(q, b))
                           \/ (q = <<>> \/ Rank(q, a) = Rank(q, b)) /\ TextLess(a, b)
<1>1. CASE q = <<>>
  BY <1>1, Zenon DEF Less
<1>2. CASE q # <<>>
  <2>1. LexLess(Rank(q, a), Rank(q, b)) \/ LexLess(Rank(q, b), Rank(q, a))
        \/ Rank(q, a) = Rank(q, b)
    BY RankType, LexTotal
  <2>2. LexLess(Rank(q, a), Rank(q, b)) => Less(q, a, b)
    BY <1>2, LowerRankIsLess
  <2>3. LexLess(Rank(q, b), Rank(q, a)) =>
          ~Less(q, a, b) /\ Rank(q, a) # Rank(q, b) /\ ~LexLess(Rank(q, a), Rank(q, b))
    <3>1. ASSUME LexLess(Rank(q, b), Rank(q, a)) PROVE ~Less(q, a, b)
      BY <1>2, <3>1, LowerRankIsLess
    <3>2. ASSUME LexLess(Rank(q, b), Rank(q, a)) PROVE ~LexLess(Rank(q, a), Rank(q, b))
      BY <3>2, RankType, LexAsymmetric
    <3> QED BY <3>1, <3>2
  <2>4. Rank(q, a) = Rank(q, b) => (Less(q, a, b) <=> TextLess(a, b))
    BY <1>2, SameRankLeavesTexts
  <2> QED BY <1>2, <2>1, <2>2, <2>3, <2>4, Zenon
<1> QED BY <1>1, <1>2

LEMMA LessAsymmetric ==
  ASSUME NEW q \in Word, NEW a, IsResult(q, a), NEW b, IsResult(q, b),
         Less(q, a, b), Less(q, b, a)
  PROVE  FALSE
<1> DEFINE s == Rank(q, a)  t == Rank(q, b)
<1>1. s \in Seq(Int) /\ t \in Seq(Int)
  BY RankType
<1>2. ~(LexLess(s, t) /\ LexLess(t, s)) /\ ~(s = t /\ LexLess(s, t)) /\ ~(s = t /\ LexLess(t, s))
  BY <1>1, LexAsymmetric
<1>3. ~(TextLess(a, b) /\ TextLess(b, a))
  <2>1. CaseSwappedText(a.text) \in Seq(Int) /\ CaseSwappedText(b.text) \in Seq(Int)
    BY CaseSwappedType DEF IsResult
  <2> QED BY <2>1, LexAsymmetric DEF TextLess
<1>4. Less(q, a, b) <=> \/ q # <<>> /\ LexLess(s, t)
                        \/ (q = <<>> \/ s = t) /\ TextLess(a, b)
  BY LessIsLexicographic
<1>5. Less(q, b, a) <=> \/ q # <<>> /\ LexLess(t, s)
                        \/ (q = <<>> \/ t = s) /\ TextLess(b, a)
  BY LessIsLexicographic
<1> HIDE DEF s, t
<1> QED BY <1>2, <1>3, <1>4, <1>5, Zenon

LEMMA LessTransitive ==
  ASSUME NEW q \in Word, NEW a, IsResult(q, a), NEW b, IsResult(q, b), NEW c, IsResult(q, c),
         Less(q, a, b), Less(q, b, c)
  PROVE  Less(q, a, c)
<1> DEFINE s == Rank(q, a)  t == Rank(q, b)  u == Rank(q, c)
<1>1. s \in Seq(Int) /\ t \in Seq(Int) /\ u \in Seq(Int)
  BY RankType
<1>2. LexLess(s, t) /\ LexLess(t, u) => LexLess(s, u)
  BY <1>1, LexTransitive
<1>3. TextLess(a, b) /\ TextLess(b, c) => TextLess(a, c)
  <2>1. /\ CaseSwappedText(a.text) \in Seq(Int) /\ CaseSwappedText(b.text) \in Seq(Int)
        /\ CaseSwappedText(c.text) \in Seq(Int)
    BY CaseSwappedType DEF IsResult
  <2> QED BY <2>1, LexTransitive DEF TextLess
<1>4. Less(q, a, b) <=> \/ q # <<>> /\ LexLess(s, t)
                        \/ (q = <<>> \/ s = t) /\ TextLess(a, b)
  BY LessIsLexicographic
<1>5. Less(q, b, c) <=> \/ q # <<>> /\ LexLess(t, u)
                        \/ (q = <<>> \/ t = u) /\ TextLess(b, c)
  BY LessIsLexicographic
<1>6. Less(q, a, c) <=> \/ q # <<>> /\ LexLess(s, u)
                        \/ (q = <<>> \/ s = u) /\ TextLess(a, c)
  BY LessIsLexicographic
<1> HIDE DEF s, t, u
<1> QED BY <1>2, <1>3, <1>4, <1>5, <1>6, Zenon

(* Only results of the same rank whose texts look the same once the case    *)
(* is swapped tie.                                                          *)
LEMMA TieMeansSame ==
  ASSUME NEW q \in Word, NEW a, IsResult(q, a), NEW b, IsResult(q, b),
         Incomparable(q, a, b)
  PROVE  /\ q # <<>> => Rank(q, a) = Rank(q, b)
         /\ CaseSwappedText(a.text) = CaseSwappedText(b.text)
<1> DEFINE s == Rank(q, a)  t == Rank(q, b)
<1>1. s \in Seq(Int) /\ t \in Seq(Int)
  BY RankType
<1>2. LexLess(s, t) \/ LexLess(t, s) \/ s = t
  BY <1>1, LexTotal
<1>3. TextLess(a, b) \/ TextLess(b, a) \/ CaseSwappedText(a.text) = CaseSwappedText(b.text)
  <2>1. CaseSwappedText(a.text) \in Seq(Int) /\ CaseSwappedText(b.text) \in Seq(Int)
    BY CaseSwappedType DEF IsResult
  <2> QED BY <2>1, LexTotal DEF TextLess
<1>4. Less(q, a, b) <=> \/ q # <<>> /\ LexLess(s, t)
                        \/ (q = <<>> \/ s = t) /\ TextLess(a, b)
  BY LessIsLexicographic
<1>5. Less(q, b, a) <=> \/ q # <<>> /\ LexLess(t, s)
                        \/ (q = <<>> \/ t = s) /\ TextLess(b, a)
  BY LessIsLexicographic
<1> HIDE DEF s, t
<1>6. (q # <<>> => s = t) /\ CaseSwappedText(a.text) = CaseSwappedText(b.text)
  BY <1>2, <1>3, <1>4, <1>5, Zenon DEF Incomparable
<1> QED BY <1>6 DEF s, t

LEMMA SameTies ==
  ASSUME NEW q \in Word, NEW a, IsResult(q, a), NEW b, IsResult(q, b),
         q # <<>> => Rank(q, a) = Rank(q, b),
         CaseSwappedText(a.text) = CaseSwappedText(b.text)
  PROVE  Incomparable(q, a, b)
<1> DEFINE s == Rank(q, a)  t == Rank(q, b)
<1>1. s \in Seq(Int) /\ t \in Seq(Int)
  BY RankType
<1>2. ~LexLess(s, s)
  BY <1>1, LexAsymmetric
<1>3. ~TextLess(a, b) /\ ~TextLess(b, a)
  <2>1. CaseSwappedText(a.text) \in Seq(Int)
    BY CaseSwappedType DEF IsResult
  <2> QED BY <2>1, LexAsymmetric DEF TextLess
<1>4. Less(q, a, b) <=> \/ q # <<>> /\ LexLess(s, t)
                        \/ (q = <<>> \/ s = t) /\ TextLess(a, b)
  BY LessIsLexicographic
<1>5. Less(q, b, a) <=> \/ q # <<>> /\ LexLess(t, s)
                        \/ (q = <<>> \/ t = s) /\ TextLess(b, a)
  BY LessIsLexicographic
<1>6. q # <<>> => s = t
  OBVIOUS
<1> HIDE DEF s, t
<1> QED BY <1>2, <1>3, <1>4, <1>5, <1>6, Zenon DEF Incomparable

LEMMA TiesAreTransitive ==
  ASSUME NEW q \in Word, NEW a, IsResult(q, a), NEW b, IsResult(q, b), NEW c, IsResult(q, c),
         Incomparable(q, a, b), Incomparable(q, b, c)
  PROVE  Incomparable(q, a, c)
<1>1. /\ q # <<>> => Rank(q, a) = Rank(q, b)
      /\ CaseSwappedText(a.text) = CaseSwappedText(b.text)
  BY TieMeansSame
<1>2. /\ q # <<>> => Rank(q, b) = Rank(q, c)
      /\ CaseSwappedText(b.text) = CaseSwappedText(c.text)
  BY TieMeansSame
<1>3. /\ q # <<>> => Rank(q, a) = Rank(q, c)
      /\ CaseSwappedText(a.text) = CaseSwappedText(c.text)
  BY <1>1, <1>2, Zenon
<1> QED BY <1>3, SameTies

LEMMA ResultIsResult ==
  ASSUME NEW q \in Word, NEW w \in Word
  PROVE  IsResult(q, Result(q, w)) /\ Result(q, w).text = w
<1> DEFINE r == Result(q, w)
<1>1. r = Result(q, w)
  OBVIOUS
<1> HIDE DEF r
<1>2. /\ r.text = w
      /\ r.first_char_same \in BOOLEAN /\ r.prefix \in BOOLEAN /\ r.lowercase \in BOOLEAN
      /\ r.index_sum \in Int /\ r.num_wb \in Nat /\ r.num_wb <= Len(q)
      /\ r.wb_chars \in Nat /\ r.length \in Nat
  BY <1>1, ResultType
<1>3. IsResult(q, r) /\ r.text = w
  BY <1>2 DEF IsResult
<1> QED BY <1>1, <1>3

(* The inductive invariant of the ranking: every result is that of a word   *)
(* of the request, and the answer is in order.                              *)
RankingInv ==
  /\ query \in Word
  /\ candidates \in Seq(Word)
  /\ results \in Seq({Result(query, w) : w \in Word})
  /\ answer # NoAnswer => \E s \in Seq({Result(query, w) : w \in Word}) :
       /\ answer = [i \in DOMAIN s |-> s[i].text]
       /\ \A i, j \in DOMAIN s : i < j => ~Less(query, s[j], s[i])

LEMMA RankingInvInit == RankingInit => RankingInv
BY ListsAssumption DEF RankingInit, RankingInv

LEMMA RearrangementIsSeq ==
  ASSUME NEW S, NEW s \in Seq(S), NEW t \in Rearrangements(s)
  PROVE  t \in Seq(S)
<1>1. PICK f \in Bijection(DOMAIN s, DOMAIN s) : t = [i \in DOMAIN s |-> s[f[i]]]
  BY DEF Rearrangements
<1>2. \A i \in DOMAIN s : f[i] \in DOMAIN s
  BY DEF Bijection, Injection, Surjection
<1>3. Len(s) \in Nat /\ DOMAIN s = 1..Len(s) /\ \A i \in 1..Len(s) : s[i] \in S
  OBVIOUS
<1> QED BY <1>1, <1>2, <1>3

LEMMA RankingInvNext == RankingInv /\ [RankingNext]_rankingVars => RankingInv'
<1> SUFFICES ASSUME RankingInv, [RankingNext]_rankingVars PROVE RankingInv'
  OBVIOUS
<1>1. CASE Filter
  <2>1. UNCHANGED <<query, answer>> /\ candidates # <<>> /\ candidates' = Tail(candidates)
    BY <1>1 DEF Filter
  <2> DEFINE stored == Stored(Head(candidates))
  <2>2. candidates' \in Seq(Word) /\ stored \in Word
    BY <2>1, EmptySeq DEF RankingInv, Stored, Word
  <2>3. results' = results \/ results' = Append(results, Result(query, stored))
    BY <1>1 DEF Filter
  <2> HIDE DEF stored
  <2>4. results' \in Seq({Result(query, w) : w \in Word})
    <3> DEFINE S == {Result(query, w) : w \in Word}
    <3>1. results \in Seq(S) /\ Result(query, stored) \in S
      BY <2>2 DEF RankingInv
    <3> HIDE DEF S
    <3>2. results' \in Seq(S)
      BY <2>3, <3>1
    <3> QED BY <3>2 DEF S
  <2> QED BY <2>1, <2>2, <2>4 DEF RankingInv
<1>2. CASE PartialSort
  <2>1. UNCHANGED <<query, candidates, results>>
    BY <1>2 DEF PartialSort
  <2>2. PICK s \in Rearrangements(results) :
          /\ \A i, j \in DOMAIN s : i < j => ~Less(query, s[j], s[i])
          /\ answer' = [i \in DOMAIN s |-> s[i].text]
    BY <1>2 DEF PartialSort
  <2>3. s \in Seq({Result(query, w) : w \in Word})
    BY RearrangementIsSeq DEF RankingInv
  <2> QED BY <2>1, <2>2, <2>3, Zenon DEF RankingInv
<1>3. CASE UNCHANGED rankingVars
  BY <1>3 DEF RankingInv, rankingVars
<1> QED BY <1>1, <1>2, <1>3 DEF RankingNext

LEMMA RankingInvariance == RankingSpec => []RankingInv
BY RankingInvInit, RankingInvNext, PTL DEF RankingSpec

LEMMA ResultsAreOrdered == RankingInv => OrderIsStrictWeak
<1> SUFFICES ASSUME RankingInv, NEW a \in Range(results), NEW b \in Range(results),
                    NEW c \in Range(results)
             PROVE  /\ ~(Less(query, a, b) /\ Less(query, b, a))
                    /\ Less(query, a, b) /\ Less(query, b, c) => Less(query, a, c)
                    /\ Incomparable(query, a, b) /\ Incomparable(query, b, c) =>
                         Incomparable(query, a, c)
  BY DEF OrderIsStrictWeak
<1>1. query \in Word
  BY DEF RankingInv
<1>2. ASSUME NEW r \in Range(results) PROVE IsResult(query, r)
  <2>1. r \in {Result(query, w) : w \in Word}
    BY DEF RankingInv, Range
  <2>2. PICK w \in Word : r = Result(query, w)
    BY <2>1
  <2> QED BY <1>1, <2>2, ResultIsResult
<1> QED BY <1>1, <1>2, LessAsymmetric, LessTransitive, TiesAreTransitive

(* Texts in the answer at two places are in order, or tie.                  *)
LEMMA AnswerInOrder ==
  ASSUME RankingInv, answer # NoAnswer, NEW i \in DOMAIN answer, NEW j \in DOMAIN answer, i < j
  PROVE  /\ answer[i] \in Word /\ answer[j] \in Word
         /\ \/ CaseSwappedText(answer[i]) = CaseSwappedText(answer[j])
            \/ Less(query, Result(query, answer[i]), Result(query, answer[j]))
<1>1. query \in Word
  BY DEF RankingInv
<1>2. PICK s \in Seq({Result(query, w) : w \in Word}) :
        /\ answer = [k \in DOMAIN s |-> s[k].text]
        /\ \A k, m \in DOMAIN s : k < m => ~Less(query, s[m], s[k])
  BY DEF RankingInv
<1>3. i \in DOMAIN s /\ j \in DOMAIN s /\ answer[i] = s[i].text /\ answer[j] = s[j].text
  BY <1>2
<1>4. s[i] \in {Result(query, w) : w \in Word} /\ s[j] \in {Result(query, w) : w \in Word}
  BY <1>3
<1>5. PICK v \in Word : s[i] = Result(query, v)
  BY <1>4
<1>6. PICK w \in Word : s[j] = Result(query, w)
  BY <1>4
<1>7. IsResult(query, s[i]) /\ IsResult(query, s[j]) /\ answer[i] = v /\ answer[j] = w
  BY <1>1, <1>3, <1>5, <1>6, ResultIsResult
<1>8. ~Less(query, s[j], s[i])
  BY <1>2, <1>3
<1>9. \/ Less(query, s[i], s[j])
      \/ CaseSwappedText(s[i].text) = CaseSwappedText(s[j].text)
  BY <1>1, <1>7, <1>8, TieMeansSame DEF Incomparable
<1> QED BY <1>3, <1>5, <1>6, <1>7, <1>9

LEMMA SwapIsOneToOne ==
  ASSUME \A c, d \in Character : SwappedCase[c] = SwappedCase[d] => c = d,
         NEW v \in Word, NEW w \in Word, CaseSwappedText(v) = CaseSwappedText(w)
  PROVE  v = w
<1>1. /\ Len(v) \in Nat /\ Len(w) \in Nat
      /\ \A i \in 1..Len(v) : v[i] \in Character
      /\ \A i \in 1..Len(w) : w[i] \in Character
  BY DEF Word
<1>2. DOMAIN CaseSwappedText(v) = 1..Len(v) /\ DOMAIN CaseSwappedText(w) = 1..Len(w)
  BY DEF CaseSwappedText
<1>3. Len(v) = Len(w)
  BY <1>1, <1>2
<1>4. ASSUME NEW i \in 1..Len(v) PROVE v[i] = w[i]
  <2>1. CaseSwappedText(v)[i] = SwappedCase[v[i]] /\ CaseSwappedText(w)[i] = SwappedCase[w[i]]
    BY <1>3 DEF CaseSwappedText
  <2> QED BY <1>1, <1>3, <2>1
<1> QED BY <1>3, <1>4, SeqEqual DEF Word
----------------------------------------------------------------------------
(* The variables of QueryMatchResult keep their types.                      *)
THEOREM TypeCorrect == Spec => []TypeOK
<1>1. IInv => TypeOK
  BY DEF IInv
<1> QED BY <1>1, Invariance, PTL

(* A candidate that is skipped for its bytes, its length or after the loop  *)
(* does not contain the query, for words of any length.                     *)
THEOREM NothingIsMissed == Spec => []NoneIsNone
<1>1. IInv => NoneIsNone
  BY DEF IInv
<1> QED BY <1>1, Invariance, PTL

(* The match QueryMatchResult finds is the leftmost one.                    *)
THEOREM FindsLeftmost == Spec => []Leftmost
<1>1. IInv => Leftmost
  BY DEF IInv
<1> QED BY <1>1, Invariance, PTL

(* candidate_index = query_index at the last match says exactly that the    *)
(* query is a prefix.                                                       *)
THEOREM PrefixIsExact == Spec => []PrefixIsPrefix
<1>1. IInv => PrefixIsPrefix
  BY DEF IInv
<1> QED BY <1>1, Invariance, PTL

(* The sum of the indexes of the match found is the smallest of any match.  *)
THEOREM SumIsSmallest == Spec => []SmallestSum
BY FeaturesInvariance, LeftmostSumIsSmallest, PTL

(* MatchesSmart is what the comment on it explains.                         *)
THEOREM MatchesSmartly == Spec => []SmartMatching
BY TypeCorrect, TypedWordsMatchSmart, PTL

(* The two rows of LongestCommonSubsequenceLength compute the length of the *)
(* longest common subsequence, for words of any length.                     *)
THEOREM CountsWordBoundaryMatches == Spec => []WordBoundaryMatches
BY TypeCorrect, TypedWordsCount, PTL

(* The filter and the features by which candidates are ranked are those of  *)
(* QueryMatchResult's loop, for words of any length.                        *)
THEOREM RanksWhatLoopFinds == Spec => []LoopAgrees
BY FeaturesInvariance, FeaturesAgree, PTL

(* operator< is a strict weak order on the results of a request, as         *)
(* std::partial_sort and std::sort demand, for any words and any query.     *)
THEOREM ResultsStrictlyOrdered == RankingSpec => []OrderIsStrictWeak
BY RankingInvariance, ResultsAreOrdered, PTL

(* Without any hypothesis: two texts of the response that are not in order  *)
(* by operator< look the same once their case is swapped, as texts that     *)
(* differ in "i" and the dotless "i" do.                                    *)
SortedButForTies ==
  answer # NoAnswer =>
    \A i, j \in DOMAIN answer :
      i < j => \/ CaseSwappedText(answer[i]) = CaseSwappedText(answer[j])
               \/ Less(query, Result(query, answer[i]), Result(query, answer[j]))

THEOREM AnswerIsSorted == RankingSpec => []SortedButForTies
<1>1. RankingInv => SortedButForTies
  BY AnswerInOrder DEF SortedButForTies
<1> QED BY <1>1, RankingInvariance, PTL

(* Where swapping the case keeps the characters apart, as it does those of  *)
(* ASCII, only equal texts tie: the order of the response does not depend   *)
(* on that of the candidates.                                               *)
THEOREM OneAnswerOnly ==
  ASSUME \A c, d \in Character : SwappedCase[c] = SwappedCase[d] => c = d
  PROVE  RankingSpec => []AnswerDetermined
<1>1. RankingInv => AnswerDetermined
  BY AnswerInOrder, SwapIsOneToOne DEF AnswerDetermined
<1> QED BY <1>1, RankingInvariance, PTL
=============================================================================
