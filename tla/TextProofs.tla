----------------------------- MODULE TextProofs -----------------------------
(* Proofs about text: the columns of a request, the query and the           *)
(* identifiers at the cursor are what they stand for, on lines of any       *)
(* length (RequestColumns); the loop that breaks words into characters      *)
(* follows UAX #29, for every word (Graphemes).                             *)
EXTENDS RequestColumns, Graphemes, SequenceTheorems, WellFoundedInduction, TLAPS

(* Induction over natural numbers, as a fact about sets of them.            *)
LEMMA LeastNumber ==
  ASSUME NEW S \in SUBSET Nat, S # {} PROVE \E n \in S : \A m \in S : n <= m
<1> DEFINE R == OpToRel(<, Nat)
<1>1. IsWellFoundedOn(R, Nat)
  BY NatLessThanWellFounded
<1>2. \A p, q \in Nat : p < q => <<p, q>> \in R
  BY DEF OpToRel
<1> HIDE DEF R
<1>3. PICK n \in S : \A m \in S : <<m, n>> \notin R
  BY <1>1, WFMin
<1>4. ASSUME NEW m \in S PROVE n <= m
  <2>1. n \in Nat /\ m \in Nat
    OBVIOUS
  <2>2. ~(m < n)
    BY <1>2, <1>3, <2>1
  <2> QED BY <2>1, <2>2
<1> QED BY <1>4

LEMMA GreatestNumber ==
  ASSUME NEW b \in Nat, NEW S \in SUBSET (0..b), S # {}
  PROVE  \E n \in S : \A m \in S : m <= n
<1> DEFINE T == {b - n : n \in S}
<1>1. T \in SUBSET Nat /\ T # {}
  <2>1. ASSUME NEW n \in S PROVE b - n \in Nat
    <3>1. n \in 0..b
      OBVIOUS
    <3> QED BY <3>1
  <2> QED BY <2>1
<1> HIDE DEF T
<1>2. PICK k \in T : \A m \in T : k <= m
  BY <1>1, LeastNumber
<1>3. PICK n \in S : k = b - n
  BY DEF T
<1>4. ASSUME NEW m \in S PROVE m <= n
  <2>1. b - m \in T
    BY DEF T
  <2>2. b - n <= b - m /\ m \in 0..b /\ n \in 0..b
    BY <1>2, <1>3, <2>1
  <2> QED BY <2>2
<1> QED BY <1>4

LEMMA Induction ==
  ASSUME NEW n \in Nat, NEW S, 0 \in S, \A k \in 1..n : k - 1 \in S => k \in S
  PROVE  n \in S /\ \A k \in 0..n : k \in S
<1> SUFFICES \A k \in 0..n : k \in S
  OBVIOUS
<1> DEFINE Bad == (0..n) \ S
<1> SUFFICES ASSUME Bad # {} PROVE FALSE
  OBVIOUS
<1>1. Bad \in SUBSET Nat
  OBVIOUS
<1> HIDE DEF Bad
<1>2. PICK k \in Bad : \A m \in Bad : k <= m
  BY <1>1, LeastNumber
<1> USE DEF Bad
<1>3. k \in 1..n /\ k - 1 \in 0..n /\ k - 1 \notin Bad
  BY <1>2
<1> QED BY <1>2, <1>3
----------------------------------------------------------------------------
(* The request: a line and a place in it.                                   *)
Inputs == line \in Seq(Char) /\ cursor \in 0..Len(line)

LEMMA LineFacts ==
  ASSUME Inputs
  PROVE  /\ Len(line) \in Nat /\ cursor \in Nat /\ cursor <= Len(line)
         /\ \A i \in 1..Len(line) : line[i] \in Char /\ Memory[i] = line[i]
         /\ Len(Memory) = Len(line) + 1 /\ Memory[Len(line) + 1] = Terminator
         /\ \A i \in 1..(Len(line) + 1) : Memory[i].width \in Nat \ {0}
<1>1. /\ Len(line) \in Nat /\ cursor \in Nat /\ cursor <= Len(line)
      /\ \A i \in 1..Len(line) : line[i] \in Char
  BY DEF Inputs
<1>2. /\ \A i \in 1..Len(line) : Memory[i] = line[i]
      /\ Len(Memory) = Len(line) + 1 /\ Memory[Len(line) + 1] = Terminator
  BY DEF Inputs, Memory
<1>3. ASSUME NEW i \in 1..(Len(line) + 1) PROVE Memory[i].width \in Nat \ {0}
  <2>1. CASE i \in 1..Len(line)
    <3>1. Memory[i] \in Char
      BY <1>1, <1>2, <2>1
    <3> QED BY <3>1 DEF Char
  <2>2. CASE i = Len(line) + 1
    BY <1>2, <2>2 DEF Terminator
  <2> QED BY <1>1, <2>1, <2>2
<1> QED BY <1>1, <1>2, <1>3

(* The recursive function behind Bytes.                                     *)
BytesTo(n) == CHOOSE s : s = [k \in 0..n |-> IF k = 0 THEN 0 ELSE s[k - 1] + Memory[k].width]

LEMMA BytesDef ==
  ASSUME Inputs, NEW n \in 0..(Len(line) + 1)
  PROVE  /\ Bytes(n) = BytesTo(n)[n]
         /\ BytesTo(n) \in [0..n -> Nat]
         /\ BytesTo(n)[0] = 0
         /\ \A k \in 1..n : BytesTo(n)[k] = BytesTo(n)[k - 1] + Memory[k].width
<1> DEFINE Rec(s, m) == s = [k \in 0..m |-> IF k = 0 THEN 0 ELSE s[k - 1] + Memory[k].width]
           Good == {m \in 0..n : \E s \in [0..m -> Nat] : Rec(s, m)}
<1>1. n \in Nat /\ \A k \in 1..n : Memory[k].width \in Nat
  BY LineFacts
<1>2. 0 \in Good
  <2> DEFINE z == [k \in 0..0 |-> 0]
  <2>1. z \in [0..0 -> Nat] /\ Rec(z, 0)
    OBVIOUS
  <2> HIDE DEF Rec
  <2> QED BY <1>1, <2>1
<1>3. ASSUME NEW m \in 1..n, m - 1 \in Good PROVE m \in Good
  <2>1. PICK s \in [0..(m - 1) -> Nat] : Rec(s, m - 1)
    BY <1>3
  <2> DEFINE x == s[m - 1] + Memory[m].width
             t == [k \in 0..m |-> IF k = m THEN x ELSE s[k]]
  <2>2. x \in Nat
    BY <1>1, <2>1
  <2>3. t \in [0..m -> Nat]
    BY <2>2
  <2>4. ASSUME NEW k \in 0..m PROVE t[k] = IF k = 0 THEN 0 ELSE t[k - 1] + Memory[k].width
    <3>1. CASE k = m
      BY <3>1
    <3>2. CASE k # m
      <4>1. k \in 0..(m - 1) /\ t[k] = s[k] /\ (k # 0 => t[k - 1] = s[k - 1])
        BY <3>2
      <4>2. s[k] = IF k = 0 THEN 0 ELSE s[k - 1] + Memory[k].width
        BY <2>1, <4>1
      <4> QED BY <4>1, <4>2
    <3> QED BY <3>1, <3>2
  <2> HIDE DEF t
  <2>5. Rec(t, m)
    BY <2>3, <2>4
  <2> HIDE DEF Rec
  <2>6. \E r \in [0..m -> Nat] : Rec(r, m)
    BY <2>3, <2>5, Zenon
  <2>7. m \in 0..n
    BY <1>1
  <2> QED BY <2>6, <2>7, Zenon
<1> HIDE DEF Good
<1>4. n \in Good
  BY <1>1, <1>2, <1>3, Induction
<1>5. PICK s \in [0..n -> Nat] : Rec(s, n)
  BY <1>4 DEF Good
<1> DEFINE b == BytesTo(n)
<1>6. Rec(b, n)
  BY <1>5 DEF BytesTo
<1>7. Bytes(n) = b[n]
  BY DEF Bytes, BytesTo
<1> HIDE DEF b
<1>8. b[0] = 0 /\ \A k \in 1..n : b[k] = b[k - 1] + Memory[k].width
  BY <1>1, <1>6
<1>9. b \in [0..n -> Nat]
  <2> DEFINE S == {k \in 0..n : b[k] \in Nat}
  <2>1. 0 \in S
    BY <1>1, <1>8
  <2>2. ASSUME NEW k \in 1..n, k - 1 \in S PROVE k \in S
    <3>1. b[k - 1] \in Nat /\ Memory[k].width \in Nat /\ b[k] = b[k - 1] + Memory[k].width
      BY <1>1, <1>8, <2>2
    <3> QED BY <3>1
  <2> HIDE DEF S
  <2>3. \A k \in 0..n : k \in S
    BY <1>1, <2>1, <2>2, Induction
  <2>4. \A k \in 0..n : b[k] \in Nat
    BY <2>3 DEF S
  <2>5. b = [k \in 0..n |-> b[k]]
    BY <1>6
  <2> QED BY <2>4, <2>5
<1> QED BY <1>7, <1>8, <1>9 DEF b

(* Every code point adds its width.                                         *)
LEMMA BytesStep ==
  ASSUME Inputs
  PROVE  /\ Bytes(0) = 0
         /\ \A n \in 0..(Len(line) + 1) : Bytes(n) \in Nat
         /\ \A n \in 1..(Len(line) + 1) : Bytes(n) = Bytes(n - 1) + Memory[n].width
<1>1. Len(line) \in Nat
  BY LineFacts
<1>2. Bytes(0) = 0
  BY <1>1, BytesDef
<1>3. ASSUME NEW n \in 0..(Len(line) + 1) PROVE Bytes(n) \in Nat
  BY <1>1, BytesDef
<1>4. ASSUME NEW n \in 1..(Len(line) + 1) PROVE Bytes(n) = Bytes(n - 1) + Memory[n].width
  <2> DEFINE s == BytesTo(n)  t == BytesTo(n - 1)
             S == {k \in 0..(n - 1) : s[k] = t[k]}
  <2>1. n - 1 \in 0..(Len(line) + 1) /\ n - 1 \in Nat /\ n \in 0..(Len(line) + 1)
    BY <1>1
  <2>2. /\ Bytes(n) = s[n] /\ s[0] = 0
        /\ \A k \in 1..n : s[k] = s[k - 1] + Memory[k].width
    BY <2>1, BytesDef
  <2>3. /\ Bytes(n - 1) = t[n - 1] /\ t[0] = 0
        /\ \A k \in 1..(n - 1) : t[k] = t[k - 1] + Memory[k].width
    BY <2>1, BytesDef
  <2> HIDE DEF s, t
  <2>4. 0 \in S /\ \A k \in 1..(n - 1) : k - 1 \in S => k \in S
    BY <2>1, <2>2, <2>3
  <2> HIDE DEF S
  <2>5. n - 1 \in S
    BY <2>1, <2>4, Induction
  <2>6. s[n - 1] = t[n - 1] /\ s[n] = s[n - 1] + Memory[n].width
    BY <2>1, <2>2, <2>5 DEF S
  <2> QED BY <2>2, <2>3, <2>6
<1> QED BY <1>2, <1>3, <1>4

LEMMA BytesGrow ==
  ASSUME Inputs, NEW i \in 0..(Len(line) + 1), NEW j \in 0..(Len(line) + 1), i < j
  PROVE  Bytes(i) \in Nat /\ Bytes(j) \in Nat /\ Bytes(i) < Bytes(j)
<1> DEFINE n == Len(line) + 1
           S == {k \in 0..n : i < k => Bytes(i) < Bytes(k)}
<1>1. /\ n \in Nat /\ \A k \in 1..n : Memory[k].width \in Nat \ {0}
      /\ \A k \in 0..n : Bytes(k) \in Nat
      /\ \A k \in 1..n : Bytes(k) = Bytes(k - 1) + Memory[k].width
  BY LineFacts, BytesStep
<1> HIDE DEF n
<1>2. i \in 0..n /\ j \in 0..n
  BY DEF n
<1>3. 0 \in S
  BY <1>1, <1>2
<1>4. ASSUME NEW k \in 1..n, k - 1 \in S PROVE k \in S
  <2>1. /\ k - 1 \in 0..n /\ Bytes(k - 1) \in Nat /\ Bytes(i) \in Nat
        /\ Memory[k].width \in Nat \ {0} /\ Bytes(k) = Bytes(k - 1) + Memory[k].width
    BY <1>1, <1>2
  <2>2. Bytes(k - 1) < Bytes(k)
    BY <2>1
  <2>3. CASE i < k - 1
    <3>1. Bytes(i) < Bytes(k - 1)
      BY <1>4, <2>3
    <3> QED BY <2>1, <2>2, <3>1
  <2>4. CASE ~(i < k - 1)
    <3>1. i < k => i = k - 1
      BY <1>2, <2>4
    <3> QED BY <2>2, <3>1
  <2> QED BY <2>3, <2>4
<1> HIDE DEF S
<1>5. \A k \in 0..n : k \in S
  BY <1>1, <1>3, <1>4, Induction
<1> QED BY <1>1, <1>2, <1>5 DEF S

(* The code point at the cursor is the one after those before it.           *)
LEMMA ColumnIsCodepoint ==
  ASSUME Inputs
  PROVE  column_codepoint = cursor + 1 /\ end = cursor
<1> DEFINE Begun == {i \in 1..Len(Memory) : Bytes(i - 1) < column_num}
<1>1. /\ Len(line) \in Nat /\ cursor \in Nat /\ cursor <= Len(line)
      /\ Len(Memory) = Len(line) + 1
  BY LineFacts
<1>2. Bytes(cursor) \in Nat /\ column_num = Bytes(cursor) + 1
  BY <1>1, BytesStep DEF column_num
<1>3. cursor + 1 \in Begun
  BY <1>1, <1>2
<1>4. ASSUME NEW i \in Begun PROVE i <= cursor + 1
  <2> SUFFICES ASSUME ~(i <= cursor + 1) PROVE FALSE
    OBVIOUS
  <2>1. i - 1 \in 0..(Len(line) + 1) /\ cursor \in 0..(Len(line) + 1) /\ cursor < i - 1
    BY <1>1
  <2>2. Bytes(cursor) < Bytes(i - 1) /\ Bytes(i - 1) \in Nat
    BY <2>1, BytesGrow
  <2> QED BY <1>2, <2>2
<1>5. ASSUME NEW n \in Begun, \A i \in Begun : i <= n PROVE n = cursor + 1
  <2>1. n \in Nat /\ n <= cursor + 1
    BY <1>1, <1>4
  <2>2. cursor + 1 <= n
    BY <1>3, <1>5
  <2> QED BY <1>1, <2>1, <2>2
<1> HIDE DEF Begun
<1>6. (CHOOSE n \in Begun : \A i \in Begun : i <= n) = cursor + 1
  BY <1>3, <1>4, <1>5
<1>7. column_codepoint = cursor + 1
  BY <1>6 DEF column_codepoint, Begun
<1> QED BY <1>1, <1>7 DEF end
----------------------------------------------------------------------------
(* The loop: what is right of its start is an identifier up to the cursor,  *)
(* and nothing all of letters that ends at the cursor begins further left   *)
(* than what the loop returns.                                              *)
LettersFrom(s) == \A i \in s..cursor : line[i].kind = "letter"

LoopInv ==
  /\ start \in -1..(cursor - 1)
  /\ start_codepoint \in 0..(cursor + 1)
  /\ Computing /\ start >= 0 /\ start + 2 <= cursor => IsIdentifier(start + 2, cursor)
  /\ Known => /\ start_codepoint <= cursor => IsIdentifier(start_codepoint, cursor)
              /\ \A s \in 1..cursor : LettersFrom(s) => start_codepoint <= s

ColumnsInv == Inputs /\ LoopInv

LEMMA ColumnsInit == Init => ColumnsInv
<1> SUFFICES ASSUME Init PROVE ColumnsInv
  OBVIOUS
<1>1. Inputs
  BY LinesAssumption DEF Init, Inputs
<1>2. cursor \in Nat /\ start = -1 /\ start_codepoint = 0
  BY <1>1, LineFacts DEF Init
<1> QED BY <1>1, <1>2 DEF ColumnsInv, LoopInv, Known, Computing

(* A suffix of letters is an identifier.                                    *)
LEMMA LettersAreIdentifier ==
  ASSUME Inputs, NEW s \in 1..cursor, NEW t \in 1..cursor, s <= t, LettersFrom(s)
  PROVE  IsIdentifier(t, cursor)
<1>1. cursor \in Nat
  BY LineFacts
<1>2. \A i \in t..cursor : line[i].kind = "letter"
  BY <1>1 DEF LettersFrom
<1> QED BY <1>1, <1>2 DEF IsIdentifier, Word

LEMMA ColumnsNext == ColumnsInv /\ [Next]_vars => ColumnsInv'
<1> SUFFICES ASSUME ColumnsInv, [Next]_vars PROVE ColumnsInv'
  OBVIOUS
<1>1. UNCHANGED <<line, cursor>>
  BY DEF Next, NothingBefore, Begin, FirstNonIdentifier, LineBegins, GoLeft, vars
<1>2. Inputs /\ Inputs'
  BY <1>1 DEF ColumnsInv, Inputs
<1>3. end = cursor /\ cursor \in Nat
  BY <1>2, ColumnIsCodepoint, LineFacts
<1>4. /\ \A i, j : IsIdentifier(i, j)' <=> IsIdentifier(i, j)
      /\ \A i : LettersFrom(i)' <=> LettersFrom(i)
  BY <1>1 DEF IsIdentifier, LettersFrom
<1>5. LoopInv
  BY DEF ColumnsInv
<1>6. CASE NothingBefore
  <2>1. cursor = 0 /\ start' = -1 /\ start_codepoint' = 1
    BY <1>3, <1>6 DEF NothingBefore
  <2> QED BY <1>1, <1>2, <2>1 DEF ColumnsInv, LoopInv, Known, Computing
<1>7. CASE Begin
  <2>1. start' = cursor - 1 /\ start_codepoint' = 0 /\ cursor > 0
    BY <1>3, <1>7 DEF Begin, Computing
  <2> QED BY <1>1, <1>2, <1>3, <2>1 DEF ColumnsInv, LoopInv, Known, Computing
<1>8. CASE FirstNonIdentifier
  <2>1. /\ Computing /\ start \in 0..(cursor - 1) /\ start' = start
        /\ ~IsIdentifier(start + 1, cursor) /\ start_codepoint' = start + 2
    BY <1>3, <1>5, <1>8 DEF FirstNonIdentifier, LoopInv
  <2>2. start + 2 <= cursor => IsIdentifier(start + 2, cursor)
    BY <1>3, <1>5, <2>1 DEF LoopInv
  <2>3. ASSUME NEW s \in 1..cursor, LettersFrom(s) PROVE start + 2 <= s
    <3> SUFFICES ASSUME s <= start + 1 PROVE FALSE
      BY <1>3, <2>1
    <3>1. start + 1 \in 1..cursor
      BY <1>3, <2>1
    <3> QED BY <1>2, <2>1, <2>3, <3>1, LettersAreIdentifier
  <2>4. /\ start_codepoint' \in 0..(cursor + 1)
        /\ start_codepoint' <= cursor => IsIdentifier(start_codepoint', cursor)
        /\ \A s \in 1..cursor : LettersFrom(s) => start_codepoint' <= s
    BY <1>3, <2>1, <2>2, <2>3
  <2>5. ~Computing' /\ start' \in -1..(cursor - 1)
    BY <1>3, <2>1 DEF Computing
  <2> QED BY <1>1, <1>2, <1>4, <2>4, <2>5 DEF ColumnsInv, LoopInv
<1>9. CASE LineBegins
  <2>1. IsIdentifier(1, cursor) /\ start_codepoint' = 1 /\ start' = start /\ start = 0
    BY <1>3, <1>9 DEF LineBegins
  <2>2. /\ start_codepoint' \in 0..(cursor + 1)
        /\ start_codepoint' <= cursor => IsIdentifier(start_codepoint', cursor)
        /\ \A s \in 1..cursor : LettersFrom(s) => start_codepoint' <= s
    BY <1>3, <2>1
  <2>3. ~Computing' /\ start' \in -1..(cursor - 1)
    BY <1>3, <1>5, <2>1 DEF Computing, LoopInv
  <2> QED BY <1>1, <1>2, <1>4, <2>2, <2>3 DEF ColumnsInv, LoopInv
<1>10. CASE GoLeft
  <2>1. /\ IsIdentifier(start + 1, cursor) /\ start > 0 /\ start' = start - 1
        /\ start_codepoint' = 0
    BY <1>3, <1>10 DEF GoLeft, Computing
  <2>2. start' + 2 = start + 1 /\ start' \in -1..(cursor - 1)
    BY <1>3, <1>5, <2>1 DEF LoopInv
  <2> QED BY <1>1, <1>2, <1>3, <1>4, <2>1, <2>2 DEF ColumnsInv, LoopInv, Known
<1>11. CASE UNCHANGED vars
  BY <1>11 DEF ColumnsInv, LoopInv, vars, Inputs, Known, Computing, IsIdentifier, LettersFrom
<1> QED BY <1>6, <1>7, <1>8, <1>9, <1>10, <1>11 DEF Next

LEMMA ColumnsInvariance == Spec => []ColumnsInv
BY ColumnsInit, ColumnsNext, PTL DEF Spec

LEMMA FoundIdentifier == ColumnsInv => QueryIsIdentifier
<1> SUFFICES ASSUME ColumnsInv, Known PROVE QueryIsIdentifier
  BY DEF QueryIsIdentifier
<1> QED BY DEF ColumnsInv, LoopInv, QueryIsIdentifier, LettersFrom

LEMMA BytesDescribeQuery == ColumnsInv => BytesAgree
<1> SUFFICES ASSUME ColumnsInv, Known,
                    start_codepoint <= Len(line) => line[start_codepoint].width = 1
             PROVE  query_bytes = Bytes(start_codepoint - 1)..(Bytes(cursor) - 1)
  BY DEF BytesAgree
<1>1. /\ Inputs /\ Len(line) \in Nat /\ cursor \in Nat /\ cursor <= Len(line)
      /\ start_codepoint \in 1..(cursor + 1)
  BY LineFacts DEF ColumnsInv, LoopInv, Known
<1>2. Memory[start_codepoint].width = 1
  <2>1. CASE start_codepoint <= Len(line)
    <3>1. Memory[start_codepoint] = line[start_codepoint]
      BY <1>1, <2>1, LineFacts
    <3> QED BY <2>1, <3>1
  <2>2. CASE start_codepoint = Len(line) + 1
    BY <1>1, <2>2, LineFacts DEF Terminator
  <2> QED BY <1>1, <2>1, <2>2
<1> DEFINE p == start_codepoint - 1
<1>3. p \in 0..(Len(line) + 1) /\ p <= cursor /\ cursor \in 0..(Len(line) + 1)
  BY <1>1
<1>4. Bytes(start_codepoint) = Bytes(p) + 1 /\ Bytes(p) \in Nat /\ Bytes(cursor) \in Nat
  BY <1>1, <1>2, <1>3, BytesStep
<1>5. Bytes(p) <= Bytes(cursor)
  <2>1. CASE p = cursor
    BY <1>4, <2>1
  <2>2. CASE p # cursor
    <3>1. p < cursor
      BY <1>1, <1>3, <2>2
    <3>2. Bytes(p) < Bytes(cursor)
      BY <1>1, <1>3, <3>1, BytesGrow
    <3> QED BY <1>4, <3>2
  <2> QED BY <2>1, <2>2
<1>6. start_column = Bytes(p) + 1 /\ column_num = Bytes(cursor) + 1
  BY <1>4 DEF start_column, column_num
<1> HIDE DEF p
<1>7. query_bytes = Bytes(p)..(Bytes(cursor) - 1)
  <2>1. start_column <= column_num /\ start_column - 1 = Bytes(p)
        /\ column_num - 2 = Bytes(cursor) - 1
    BY <1>4, <1>5, <1>6
  <2> QED BY <2>1 DEF query_bytes
<1> QED BY <1>7 DEF p
----------------------------------------------------------------------------
(* What the regex finds.                                                    *)
LEMMA MatchFacts ==
  ASSUME Inputs, NEW m \in Matches
  PROVE  /\ m[1] \in 1..Len(line) /\ m[2] \in 1..Len(line) /\ m[1] <= m[2]
         /\ line[m[1]].kind = "letter"
         /\ \A i \in m[1]..m[2] : Word(line[i])
         /\ m[2] < Len(line) => ~Word(line[m[2] + 1])
         /\ \A i \in 1..(m[1] - 1) :
              (\A k \in i..(m[1] - 1) : Word(line[k])) => line[i].kind = "digit"
BY DEF Matches, IsIdentifier

(* Where a match ends in bytes, against the cursor.                         *)
LEMMA EndsAtOrBefore ==
  ASSUME Inputs, NEW m \in Matches
  PROVE  (EndOf(m) <= index <=> m[2] <= cursor) /\ (EndOf(m) > index <=> cursor < m[2])
<1>1. /\ Len(line) \in Nat /\ cursor \in Nat /\ cursor <= Len(line)
      /\ m[2] \in 1..Len(line)
  BY LineFacts, MatchFacts
<1> DEFINE j == m[2]
<1>2. j \in 0..(Len(line) + 1) /\ cursor \in 0..(Len(line) + 1)
  BY <1>1
<1>3. Bytes(cursor) \in Nat /\ Bytes(j) \in Nat
  BY <1>2, BytesStep
<1>4. index = Bytes(cursor) /\ EndOf(m) = Bytes(j)
  BY <1>3 DEF index, column_num, EndOf
<1> HIDE DEF j
<1>5. CASE j < cursor
  <2>1. Bytes(j) < Bytes(cursor)
    BY <1>2, <1>5, BytesGrow
  <2> QED BY <1>1, <1>2, <1>3, <1>4, <1>5, <2>1 DEF j
<1>6. CASE j = cursor
  BY <1>1, <1>3, <1>4, <1>6 DEF j
<1>7. CASE cursor < j
  <2>1. Bytes(cursor) < Bytes(j)
    BY <1>2, <1>7, BytesGrow
  <2> QED BY <1>1, <1>2, <1>3, <1>4, <1>7, <2>1 DEF j
<1> QED BY <1>1, <1>2, <1>5, <1>6, <1>7

(* No two matches overlap.                                                  *)
LEMMA MatchesApart ==
  ASSUME Inputs, NEW m \in Matches, NEW o \in Matches, m[2] < o[2]
  PROVE  m[2] < o[1]
<1> SUFFICES ASSUME o[1] <= m[2] PROVE FALSE
  BY LineFacts, MatchFacts
<1>1. m[2] + 1 \in o[1]..o[2] /\ m[2] < Len(line)
  BY LineFacts, MatchFacts
<1>2. Word(line[m[2] + 1])
  BY <1>1, MatchFacts
<1> QED BY <1>1, <1>2, MatchFacts

(* A match begins where no other one that has its first letter begins.      *)
LEMMA NoneBeginsInside ==
  ASSUME Inputs, NEW o \in Matches, NEW i \in 1..Len(line), i < o[1],
         line[i].kind = "letter", \A k \in i..(o[1] - 1) : Word(line[k])
  PROVE  FALSE
<1>1. Len(line) \in Nat /\ o[1] \in 1..Len(line)
  BY LineFacts, MatchFacts
<1>2. i \in 1..(o[1] - 1)
  BY <1>1
<1>3. line[i].kind = "digit"
  BY <1>2, MatchFacts
<1> QED BY <1>3

LEMMA LearntEndsWithQuery == ColumnsInv => LearnsWhatWasTyped
<1> SUFFICES ASSUME ColumnsInv, Known, start_codepoint <= cursor,
                    cursor < Len(line) => ~Word(line[cursor + 1])
             PROVE  \E m \in IdentifierBeforeCursor : m[1] <= start_codepoint /\ m[2] = cursor
  BY DEF LearnsWhatWasTyped
<1> DEFINE S == {i \in 1..cursor : line[i].kind = "letter" /\ \A k \in i..cursor : Word(line[k])}
<1>1. /\ Inputs /\ Len(line) \in Nat /\ cursor \in Nat /\ cursor <= Len(line)
      /\ start_codepoint \in 1..cursor /\ IsIdentifier(start_codepoint, cursor)
  BY LineFacts DEF ColumnsInv, LoopInv, Known
<1>2. start_codepoint \in S
  BY <1>1 DEF IsIdentifier
<1>3. S \in SUBSET Nat
  OBVIOUS
<1> HIDE DEF S
<1>4. PICK f \in S : \A i \in S : f <= i
  BY <1>2, <1>3, LeastNumber
<1>5. /\ f \in 1..cursor /\ f <= start_codepoint /\ line[f].kind = "letter"
      /\ \A k \in f..cursor : Word(line[k])
  BY <1>2, <1>4 DEF S
<1> DEFINE m == <<f, cursor>>
<1>6. m \in Matches
  <2>1. m \in (1..Len(line)) \X (1..Len(line)) /\ m[1] = f /\ m[2] = cursor
    BY <1>1, <1>5
  <2>2. IsIdentifier(f, cursor)
    BY <1>1, <1>5 DEF IsIdentifier
  <2>3. ASSUME NEW i \in 1..(f - 1), \A k \in i..(f - 1) : Word(line[k])
        PROVE  line[i].kind = "digit"
    <3>1. i \in 1..cursor /\ i < f /\ i \in i..(f - 1)
      BY <1>1, <1>5
    <3>2. i \notin S
      BY <1>3, <1>4, <3>1
    <3>3. \A k \in i..cursor : Word(line[k])
      BY <1>1, <1>5, <2>3
    <3>4. line[i].kind # "letter"
      BY <3>1, <3>2, <3>3 DEF S
    <3>5. Word(line[i])
      BY <2>3, <3>1
    <3> QED BY <3>4, <3>5 DEF Word
  <2> HIDE DEF m
  <2> QED BY <2>1, <2>2, <2>3 DEF Matches
<1>7. m[1] = f /\ m[2] = cursor
  OBVIOUS
<1> HIDE DEF m
<1>8. EndOf(m) <= index
  BY <1>1, <1>6, <1>7, EndsAtOrBefore
<1>9. ASSUME NEW o \in Matches, EndOf(o) <= index PROVE o[1] <= m[1]
  <2>1. o[2] <= cursor /\ o[1] \in 1..Len(line) /\ o[2] \in 1..Len(line) /\ o[1] <= o[2]
    BY <1>1, <1>9, EndsAtOrBefore, MatchFacts
  <2> SUFFICES ASSUME f < o[1] PROVE FALSE
    BY <1>5, <1>7, <2>1
  <2>2. f \in 1..Len(line) /\ \A k \in f..(o[1] - 1) : Word(line[k])
    BY <1>1, <1>5, <2>1
  <2> QED BY <1>1, <1>5, <2>2, NoneBeginsInside
<1>10. m \in IdentifierBeforeCursor
  BY <1>6, <1>8, <1>9 DEF IdentifierBeforeCursor
<1> QED BY <1>5, <1>7, <1>10

LEMMA CursorLiesBetween == ColumnsInv => CursorBetween
<1> SUFFICES ASSUME Inputs PROVE CursorBetween
  BY DEF ColumnsInv
<1>1. Len(line) \in Nat /\ cursor \in Nat
  BY LineFacts
<1>2. ASSUME NEW b \in IdentifierBeforeCursor, NEW u \in IdentifierUnderCursor
      PROVE  b[2] < u[1] /\ \A m \in Matches : m[1] <= b[1] \/ u[1] <= m[1]
  <2>1. b \in Matches /\ u \in Matches /\ EndOf(b) <= index /\ EndOf(u) > index
    BY DEF IdentifierBeforeCursor, IdentifierUnderCursor
  <2>2. b[2] <= cursor /\ cursor < u[2] /\ b[2] \in Nat /\ u[2] \in Nat
    BY <2>1, EndsAtOrBefore, MatchFacts
  <2>3. b[2] < u[1]
    BY <1>1, <2>1, <2>2, MatchesApart
  <2>4. ASSUME NEW m \in Matches PROVE m[1] <= b[1] \/ u[1] <= m[1]
    <3>1. EndOf(m) <= index \/ EndOf(m) > index
      BY <1>1, EndsAtOrBefore, MatchFacts
    <3>2. EndOf(m) <= index => m[1] <= b[1]
      BY DEF IdentifierBeforeCursor
    <3>3. EndOf(m) > index => u[1] <= m[1]
      BY DEF IdentifierUnderCursor
    <3> QED BY <3>1, <3>2, <3>3
  <2> QED BY <2>3, <2>4
<1>3. ASSUME Matches # {} PROVE IdentifierBeforeCursor \cup IdentifierUnderCursor # {}
  <2>1. CASE \E m \in Matches : EndOf(m) > index
    <3> DEFINE S == {m[1] : m \in {o \in Matches : EndOf(o) > index}}
    <3>1. S \in SUBSET Nat /\ S # {}
      BY <2>1, MatchFacts
    <3> HIDE DEF S
    <3>2. PICK n \in S : \A i \in S : n <= i
      BY <3>1, LeastNumber
    <3>3. PICK u \in Matches : EndOf(u) > index /\ u[1] = n
      BY DEF S
    <3>4. \A o \in Matches : EndOf(o) > index => u[1] <= o[1]
      BY <3>2, <3>3 DEF S
    <3>5. u \in IdentifierUnderCursor
      BY <3>3, <3>4 DEF IdentifierUnderCursor
    <3> QED BY <3>5
  <2>2. CASE \A m \in Matches : ~(EndOf(m) > index)
    <3> DEFINE S == {m[1] : m \in Matches}
    <3>1. S \in SUBSET (0..Len(line)) /\ S # {}
      BY <1>3, MatchFacts
    <3>2. \A m \in Matches : EndOf(m) <= index
      BY <1>1, <2>2, EndsAtOrBefore, MatchFacts
    <3> HIDE DEF S
    <3>3. PICK n \in S : \A i \in S : i <= n
      BY <1>1, <3>1, GreatestNumber
    <3>4. PICK b \in Matches : b[1] = n
      BY DEF S
    <3>5. \A o \in Matches : o[1] <= b[1]
      BY <3>3, <3>4 DEF S
    <3>6. b \in IdentifierBeforeCursor
      BY <3>2, <3>5 DEF IdentifierBeforeCursor
    <3> QED BY <3>6
  <2> QED BY <2>1, <2>2
<1> QED BY <1>2, <1>3 DEF CursorBetween
----------------------------------------------------------------------------
(* The query is empty or an identifier that ends at the cursor, and begins  *)
(* no later than the longest one of letters: for lines of any length.       *)
THEOREM QueryIsFound == Spec => []QueryIsIdentifier
BY ColumnsInvariance, FoundIdentifier, PTL

(* The query in code points and the query in bytes are the same text, where *)
(* it starts with a one-byte character.                                     *)
THEOREM BytesAndCodePointsAgree == Spec => []BytesAgree
BY ColumnsInvariance, BytesDescribeQuery, PTL

(* At the end of a word, what is learnt ends with what was typed.           *)
THEOREM LearnsTheQuery == Spec => []LearnsWhatWasTyped
BY ColumnsInvariance, LearntEndsWithQuery, PTL

(* The identifiers before and under the cursor are neighbours, and only a   *)
(* line without identifiers has neither.                                    *)
THEOREM CursorIsBetween == Spec => []CursorBetween
BY ColumnsInvariance, CursorLiesBetween, PTL
----------------------------------------------------------------------------
(* Characters: the loop's two flags say of the text passed what the rules   *)
(* ask of it.                                                               *)
RunOdd(t, i) == \E j \in 1..(i - 1) : RunFrom(t, j, i) /\ (i - j) % 2 = 1
RunEven(t, i) == \E j \in 1..(i - 1) : RunFrom(t, j, i) /\ (i - j) % 2 = 0

(* Before position i there is a pictograph followed by extending characters *)
(* only, or by such and a joiner.                                           *)
Pict(t, i) ==
  /\ t[i - 1] \in {"EXTEND", "ZWJ"}
  /\ \E j \in 1..(i - 2) : /\ t[j] = "EXTPICT"
                           /\ \A k \in (j + 1)..(i - 2) : t[k] = "EXTEND"

OddMeaning ==
  IF previous_property = "RI"
  THEN IF is_regional_indicator_nb_odd THEN RunEven(code_points, pos)
                                       ELSE RunOdd(code_points, pos)
  ELSE ~is_regional_indicator_nb_odd

WithinMeaning == within_emoji_modifier <=> Pict(code_points, pos)

BreakInv == /\ TypeOK
            /\ code_points # <<>> => OddMeaning /\ WithinMeaning
            /\ BreaksFollowRules
----------------------------------------------------------------------------
(* What the tables of the switch have in common with the rules.             *)
LEMMA TablesFollowRules ==
  ASSUME NEW a \in BreakProperty, NEW b \in BreakProperty
  PROVE  b \in JoinedBy(a) <=> Joined(a, b)
<1> USE DEF BreakProperty, JoinedBy, Joined, Extending, Controls
<1>1. CASE a \in {"CR", "CONTROL", "LF"}
  BY <1>1
<1>2. CASE a \in {"L", "LV", "V", "LVT", "T"}
  BY <1>2
<1>3. CASE a = "PREPEND"
  BY <1>3
<1>4. CASE a \in {"OTHER", "EXTEND", "ZWJ", "RI", "SPACINGMARK", "EXTPICT"}
  BY <1>4
<1> QED BY <1>1, <1>2, <1>3, <1>4

(* A run of regional indicators has one start, hence one parity.            *)
LEMMA OneParity ==
  ASSUME NEW t \in Seq(BreakProperty), NEW i \in Nat
  PROVE  ~(RunOdd(t, i) /\ RunEven(t, i))
<1> SUFFICES ASSUME RunOdd(t, i), RunEven(t, i) PROVE FALSE
  OBVIOUS
<1>1. PICK j \in 1..(i - 1) : RunFrom(t, j, i) /\ (i - j) % 2 = 1
  BY DEF RunOdd
<1>2. PICK m \in 1..(i - 1) : RunFrom(t, m, i) /\ (i - m) % 2 = 0
  BY DEF RunEven
<1>3. CASE j = m
  BY <1>1, <1>2, <1>3
<1>4. CASE j < m
  <2>1. m > 1 /\ m - 1 \in j..(i - 1)
    BY <1>4
  <2> QED BY <1>1, <1>2, <2>1 DEF RunFrom
<1>5. CASE m < j
  <2>1. j > 1 /\ j - 1 \in m..(i - 1)
    BY <1>5
  <2> QED BY <1>1, <1>2, <2>1 DEF RunFrom
<1> QED BY <1>3, <1>4, <1>5

LEMMA NoRun ==
  ASSUME NEW t \in Seq(BreakProperty), NEW i \in 2..(Len(t) + 1), t[i - 1] # "RI"
  PROVE  ~RunOdd(t, i) /\ ~RunEven(t, i)
<1>1. \A j \in 1..(i - 1) : ~RunFrom(t, j, i)
  <2> SUFFICES ASSUME NEW j \in 1..(i - 1), RunFrom(t, j, i) PROVE FALSE
    OBVIOUS
  <2>1. i - 1 \in j..(i - 1)
    OBVIOUS
  <2> QED BY <2>1 DEF RunFrom
<1> QED BY <1>1 DEF RunOdd, RunEven

(* One more regional indicator changes the parity of its run.               *)
LEMMA RunStep ==
  ASSUME NEW t \in Seq(BreakProperty), NEW i \in 2..Len(t), t[i] = "RI"
  PROVE  /\ RunOdd(t, i) => RunEven(t, i + 1)
         /\ RunEven(t, i) => RunOdd(t, i + 1)
         /\ t[i - 1] # "RI" => RunOdd(t, i + 1)
<1>1. ASSUME NEW j \in 1..(i - 1), RunFrom(t, j, i) PROVE RunFrom(t, j, i + 1)
  <2>1. \A k \in j..((i + 1) - 1) : k \in j..(i - 1) \/ k = i
    OBVIOUS
  <2> QED BY <1>1, <2>1 DEF RunFrom
<1>2. ASSUME RunOdd(t, i) PROVE RunEven(t, i + 1)
  <2>1. PICK j \in 1..(i - 1) : RunFrom(t, j, i) /\ (i - j) % 2 = 1
    BY <1>2 DEF RunOdd
  <2>2. j \in 1..((i + 1) - 1) /\ ((i + 1) - j) % 2 = 0
    BY <2>1
  <2> QED BY <1>1, <2>1, <2>2 DEF RunEven
<1>3. ASSUME RunEven(t, i) PROVE RunOdd(t, i + 1)
  <2>1. PICK j \in 1..(i - 1) : RunFrom(t, j, i) /\ (i - j) % 2 = 0
    BY <1>3 DEF RunEven
  <2>2. j \in 1..((i + 1) - 1) /\ ((i + 1) - j) % 2 = 1
    BY <2>1
  <2> QED BY <1>1, <2>1, <2>2 DEF RunOdd
<1>4. ASSUME t[i - 1] # "RI" PROVE RunOdd(t, i + 1)
  <2>1. RunFrom(t, i, i + 1)
    <3>1. \A k \in i..((i + 1) - 1) : k = i
      OBVIOUS
    <3> QED BY <1>4, <3>1 DEF RunFrom
  <2>2. i \in 1..((i + 1) - 1) /\ ((i + 1) - i) % 2 = 1
    OBVIOUS
  <2> QED BY <2>1, <2>2 DEF RunOdd
<1> QED BY <1>2, <1>3, <1>4

(* How the emoji condition moves on by one code point.                      *)
LEMMA PictStep ==
  ASSUME NEW t \in Seq(BreakProperty), NEW i \in 2..Len(t)
  PROVE  Pict(t, i + 1) <=>
           /\ t[i] \in {"EXTEND", "ZWJ"}
           /\ t[i - 1] = "EXTPICT" \/ (t[i - 1] = "EXTEND" /\ Pict(t, i))
<1> DEFINE From(j, n) == t[j] = "EXTPICT" /\ \A k \in (j + 1)..n : t[k] = "EXTEND"
<1>1. Pict(t, i) <=> t[i - 1] \in {"EXTEND", "ZWJ"} /\ \E j \in 1..(i - 2) : From(j, i - 2)
  BY DEF Pict
<1>2. Pict(t, i + 1) <=> t[i] \in {"EXTEND", "ZWJ"} /\ \E j \in 1..(i - 1) : From(j, i - 1)
  <2>1. (i + 1) - 1 = i /\ (i + 1) - 2 = i - 1
    OBVIOUS
  <2> QED BY <2>1 DEF Pict
<1>3. \A j \in 1..(i - 2) : From(j, i - 1) <=> From(j, i - 2) /\ t[i - 1] = "EXTEND"
  <2> TAKE j \in 1..(i - 2)
  <2>1. \A k : k \in (j + 1)..(i - 1) <=> k \in (j + 1)..(i - 2) \/ k = i - 1
    OBVIOUS
  <2> QED BY <2>1
<1>4. From(i - 1, i - 1) <=> t[i - 1] = "EXTPICT"
  OBVIOUS
<1>5. \A j : j \in 1..(i - 1) <=> j \in 1..(i - 2) \/ j = i - 1
  OBVIOUS
<1> HIDE DEF From
<1> QED BY <1>1, <1>2, <1>3, <1>4, <1>5

LEMMA BoundariesStep ==
  ASSUME NEW t, NEW i \in Nat, i >= 2
  PROVE  Boundaries(t, i) = Boundaries(t, i - 1) \cup {k \in {i} : ~NoBoundary(t, i)}
<1>1. \A k : k \in 1..i <=> k \in 1..(i - 1) \/ k = i
  OBVIOUS
<1> HIDE DEF NoBoundary
<1> QED BY <1>1 DEF Boundaries
----------------------------------------------------------------------------
LEMMA InitEstablishes == BreakInit => BreakInv
<1> SUFFICES ASSUME BreakInit PROVE BreakInv
  OBVIOUS
<1> USE TextsAssumption DEF BreakInit
<1>1. TypeOK
  <2>1. code_points \in Seq(BreakProperty)
    OBVIOUS
  <2>2. pos <= Len(code_points) + 1 \/ (pos = 2 /\ code_points = <<>>)
    <3>1. code_points = <<>> \/ Len(code_points) > 0
      <4>1. code_points # <<>> => Len(code_points) \in Nat \ {0}
        BY <2>1, EmptySeq, Zenon
      <4> QED BY <4>1
    <3> QED BY <2>1, <3>1
  <2>3. starts \subseteq 1..(pos - 1)
    OBVIOUS
  <2>4. pos \in Nat /\ pos >= 2
    OBVIOUS
  <2>5. is_regional_indicator_nb_odd \in BOOLEAN /\ within_emoji_modifier \in BOOLEAN
    OBVIOUS
  <2> QED BY <2>1, <2>2, <2>3, <2>4, <2>5, Zenon DEF TypeOK
<1>2. CASE code_points = <<>>
  <2>1. starts = {} /\ Passed = 0
    BY <1>2 DEF Passed
  <2>2. Boundaries(code_points, 0) = {}
    BY DEF Boundaries
  <2> QED BY <1>1, <1>2, <2>1, <2>2 DEF BreakInv, BreaksFollowRules
<1>3. CASE code_points # <<>>
  <2>1. starts = {1} /\ Passed = 1
    BY <1>3 DEF Passed
  <2>2. Boundaries(code_points, 1) = {1}
    BY DEF Boundaries
  <2>3. RunOdd(code_points, 2) <=> code_points[1] = "RI"
    <3>1. RunFrom(code_points, 1, 2) <=> code_points[1] = "RI"
      <4>1. \A k : k \in 1..(2 - 1) <=> k = 1
        OBVIOUS
      <4> QED BY <4>1 DEF RunFrom
    <3>2. \A j : j \in 1..(2 - 1) <=> j = 1
      OBVIOUS
    <3> QED BY <3>1, <3>2 DEF RunOdd
  <2>4. ~Pict(code_points, 2)
    BY DEF Pict
  <2>5. OddMeaning /\ WithinMeaning
    BY <2>3, <2>4 DEF OddMeaning, WithinMeaning, previous_property
  <2> QED BY <1>1, <2>1, <2>2, <2>5 DEF BreakInv, BreaksFollowRules
<1> QED BY <1>2, <1>3

LEMMA StepPreserves == BreakInv /\ [Iterate]_breakVars => BreakInv'
<1> SUFFICES ASSUME BreakInv, [Iterate]_breakVars PROVE BreakInv'
  OBVIOUS
<1>1. CASE Iterate
  <2> DEFINE t == code_points
             a == t[pos - 1]
             b == t[pos]
  <2>1. /\ t \in Seq(BreakProperty) /\ t # <<>> /\ pos \in 2..Len(t)
        /\ a \in BreakProperty /\ b \in BreakProperty
        /\ t' = t /\ pos' = pos + 1
    BY <1>1 DEF BreakInv, TypeOK, Iterate, Running
  <2>2. OddMeaning /\ WithinMeaning /\ BreaksFollowRules
    BY <2>1 DEF BreakInv
  <2>3. previous_property' = b
    BY <2>1 DEF previous_property
  <2>4. OddMeaning'
    <3>1. is_regional_indicator_nb_odd' =
            IF a = "RI" THEN b = "RI" /\ ~is_regional_indicator_nb_odd
            ELSE is_regional_indicator_nb_odd
      BY <1>1 DEF Iterate, OddAfter, previous_property, property
    <3>2. CASE b # "RI"
      <4>1. ~is_regional_indicator_nb_odd'
        BY <2>2, <3>1, <3>2, Zenon DEF OddMeaning, previous_property
      <4> QED BY <2>3, <3>2, <4>1 DEF OddMeaning
    <3>3. CASE b = "RI" /\ a = "RI"
      <4>1. CASE is_regional_indicator_nb_odd
        <5>1. RunOdd(t, pos + 1)
          BY <2>1, <2>2, <3>3, <4>1, RunStep DEF OddMeaning, previous_property
        <5>2. ~is_regional_indicator_nb_odd'
          BY <3>1, <3>3, <4>1, Zenon
        <5> QED BY <2>1, <2>3, <3>3, <5>1, <5>2, Zenon DEF OddMeaning
      <4>2. CASE ~is_regional_indicator_nb_odd
        <5>1. RunEven(t, pos + 1)
          BY <2>1, <2>2, <3>3, <4>2, RunStep DEF OddMeaning, previous_property
        <5>2. is_regional_indicator_nb_odd'
          BY <3>1, <3>3, <4>2, Zenon
        <5> QED BY <2>1, <2>3, <3>3, <5>1, <5>2, Zenon DEF OddMeaning
      <4> QED BY <4>1, <4>2
    <3>4. CASE b = "RI" /\ a # "RI"
      <4>1. RunOdd(t, pos + 1)
        BY <2>1, <3>4, RunStep
      <4>2. ~is_regional_indicator_nb_odd'
        BY <2>2, <3>1, <3>4, Zenon DEF OddMeaning, previous_property
      <4> QED BY <2>1, <2>3, <3>4, <4>1, <4>2, Zenon DEF OddMeaning
    <3> QED BY <3>2, <3>3, <3>4
  <2>5. WithinMeaning'
    <3>1. Pict(t, pos + 1) <=>
            /\ b \in {"EXTEND", "ZWJ"}
            /\ a = "EXTPICT" \/ (a = "EXTEND" /\ Pict(t, pos))
      BY <2>1, PictStep
    <3>2. Pict(t, pos) => a \in {"EXTEND", "ZWJ"}
      BY DEF Pict
    <3>3. within_emoji_modifier <=> Pict(t, pos)
      BY <2>2 DEF WithinMeaning
    <3>4. within_emoji_modifier' =
            CASE a = "EXTPICT" -> b \in {"EXTEND", "ZWJ"} \/ within_emoji_modifier
              [] a = "EXTEND" -> b \in {"EXTEND", "ZWJ"} /\ within_emoji_modifier
              [] a = "ZWJ" -> FALSE
              [] OTHER -> within_emoji_modifier
      BY <1>1 DEF Iterate, WithinAfter, previous_property, property
    <3> HIDE DEF t, a, b
    <3>5. within_emoji_modifier' <=> Pict(t, pos + 1)
      <4>1. CASE a = "EXTPICT"
        <5>1. within_emoji_modifier' <=> b \in {"EXTEND", "ZWJ"} \/ within_emoji_modifier
          BY <3>4, <4>1
        <5>2. ~within_emoji_modifier
          BY <3>2, <3>3, <4>1
        <5> QED BY <3>1, <4>1, <5>1, <5>2
      <4>2. CASE a = "EXTEND"
        <5>1. within_emoji_modifier' <=> b \in {"EXTEND", "ZWJ"} /\ within_emoji_modifier
          BY <3>4, <4>2
        <5> QED BY <3>1, <3>3, <4>2, <5>1
      <4>3. CASE a = "ZWJ"
        <5>1. ~within_emoji_modifier'
          BY <3>4, <4>3
        <5> QED BY <3>1, <4>3, <5>1
      <4>4. CASE a \notin {"EXTPICT", "EXTEND", "ZWJ"}
        <5>1. within_emoji_modifier' <=> within_emoji_modifier
          BY <3>4, <4>4
        <5> QED BY <3>1, <3>2, <3>3, <4>4, <5>1
      <4> QED BY <4>1, <4>2, <4>3, <4>4
    <3> QED BY <2>1, <3>5 DEF WithinMeaning, t
  <2>6. Continues <=> NoBoundary(t, pos)
    <3>1. property \in JoinedBy(previous_property) <=> Joined(a, b)
      BY <2>1, TablesFollowRules DEF property, previous_property
    <3>2. Emoji(t, pos) <=> a = "ZWJ" /\ b = "EXTPICT" /\ within_emoji_modifier
      BY <2>2 DEF Emoji, WithinMeaning, Pict
    <3>3. Flag(t, pos) <=> a = "RI" /\ b = "RI" /\ OddAfter
      <4>1. Flag(t, pos) <=> b = "RI" /\ RunOdd(t, pos)
        BY DEF Flag, RunOdd
      <4>2. CASE a = "RI"
        <5>1. RunOdd(t, pos) <=> ~is_regional_indicator_nb_odd
          <6>1. ~(RunOdd(t, pos) /\ RunEven(t, pos))
            BY <2>1, OneParity
          <6> QED BY <2>2, <4>2, <6>1, Zenon DEF OddMeaning, previous_property
        <5>2. OddAfter <=> b = "RI" /\ ~is_regional_indicator_nb_odd
          BY <4>2 DEF OddAfter, previous_property, property
        <5> QED BY <4>1, <4>2, <5>1, <5>2, Zenon
      <4>3. CASE a # "RI"
        <5>1. ~RunOdd(t, pos)
          BY <2>1, <4>3, NoRun
        <5> QED BY <4>1, <4>3, <5>1, Zenon
      <4> QED BY <4>2, <4>3
    <3> QED BY <3>1, <3>2, <3>3, Zenon DEF Continues, NoBoundary, property,
                                          previous_property
  <2>7. BreaksFollowRules'
    <3>1. Passed = pos - 1 /\ Passed' = pos
      BY <2>1 DEF Passed
    <3>2. starts' = IF Continues THEN starts ELSE starts \cup {pos}
      BY <1>1 DEF Iterate
    <3>3. Boundaries(t, pos) =
            Boundaries(t, pos - 1) \cup {k \in {pos} : ~NoBoundary(t, pos)}
      BY <2>1, BoundariesStep
    <3>4. starts = Boundaries(t, pos - 1)
      BY <2>2, <3>1 DEF BreaksFollowRules
    <3>5. starts' = Boundaries(t, pos)
      BY <2>6, <3>2, <3>3, <3>4
    <3> QED BY <2>1, <3>1, <3>5 DEF BreaksFollowRules
  <2>8. TypeOK'
    <3>1. is_regional_indicator_nb_odd' \in BOOLEAN
      BY <1>1, Zenon DEF Iterate, OddAfter, BreakInv, TypeOK
    <3>2. within_emoji_modifier' \in BOOLEAN
      <4>1. WithinAfter \in BOOLEAN
        BY DEF WithinAfter, BreakInv, TypeOK
      <4> QED BY <1>1, <4>1 DEF Iterate
    <3>3. starts' \subseteq 1..(pos' - 1)
      <4>1. starts' \subseteq starts \cup {pos}
        BY <1>1 DEF Iterate
      <4> QED BY <2>1, <4>1 DEF BreakInv, TypeOK
    <3> QED BY <2>1, <3>1, <3>2, <3>3 DEF TypeOK
  <2> QED BY <2>1, <2>4, <2>5, <2>7, <2>8 DEF BreakInv
<1>2. CASE UNCHANGED breakVars
  BY <1>2 DEF breakVars, BreakInv, TypeOK, OddMeaning, WithinMeaning, BreaksFollowRules,
              Passed, previous_property
<1> QED BY <1>1, <1>2

(* The loop's variables keep their shapes; it never passes the end.         *)
THEOREM TypeCorrect == BreakSpec => []TypeOK
<1>1. BreakInv => TypeOK
  BY DEF BreakInv
<1> QED BY <1>1, InitEstablishes, StepPreserves, PTL DEF BreakSpec

(* Every word is broken where UAX #29 breaks it.                            *)
THEOREM FollowsRules == BreakSpec => []BreaksFollowRules
<1>1. BreakInv => BreaksFollowRules
  BY DEF BreakInv
<1> QED BY <1>1, InitEstablishes, StepPreserves, PTL DEF BreakSpec
=============================================================================
