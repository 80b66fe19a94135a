----------------------------- MODULE Candidates -----------------------------
(***************************************************************************)
(* What the core library knows of a candidate and a query before it        *)
(* matches them: characters (src/src/core/Character.h), the bytes present  *)
(* and word boundary characters (Word.cpp, Candidate.cpp) and the longest  *)
(* common subsequence (Result.cpp).                                        *)
(*                                                                         *)
(* A character is a letter, a mark that combines with it, and its case.    *)
(* Digits and the underscore are letters without case here.                *)
(***************************************************************************)
EXTENDS Integers, Sequences

CONSTANTS
  Letters,       \* what is left of a character without mark and case
  Marks,         \* combining marks
  NoMark,
  Alphabetic,    \* the code points with is_letter_
  Punctuation,   \* the code points with is_punctuation_
  Queries        \* the queries

ASSUME LettersAssumption == NoMark \in Marks

VARIABLE query   \* what the candidates are matched against

Character == [letter : Letters, mark : Marks, upper : BOOLEAN]
Word == Seq(Character)

(* Normal is the character itself; folding removes the case, and the base   *)
(* also the marks.                                                          *)
FoldedCase(c) == <<c.letter, c.mark>>
Base(c) == c.letter
IsBase(c) == c.mark = NoMark
IsUppercase(c) == c.upper
IsLetter(c) == c.letter \in Alphabetic
IsPunctuation(c) == c.letter \in Punctuation

EqualsBase(c, d) == Base(c) = Base(d)
EqualsIgnoreCase(c, d) == FoldedCase(c) = FoldedCase(d)

(* Mutant: the operands of the case test are swapped.                      *)
MatchesSwapped(c, d) ==
  \/ IsBase(c) /\ EqualsBase(c, d) /\ (IsUppercase(d) => IsUppercase(c))
  \/ ~IsUppercase(c) /\ EqualsIgnoreCase(c, d)
  \/ c = d

(* c is of the query, d of the candidate.                                   *)
MatchesSmart(c, d) ==
  \/ IsBase(c) /\ EqualsBase(c, d) /\ (IsUppercase(c) => IsUppercase(d))
  \/ ~IsUppercase(c) /\ EqualsIgnoreCase(c, d)
  \/ c = d

(* Mutant: bytes of the characters as they are written.                     *)
BytesOfCase(w) == {<<w[i].letter, w[i].upper>> : i \in DOMAIN w}

(* bytes_present_; equal bases have equal bytes.                            *)
BytesPresent(w) == {Base(w[i]) : i \in DOMAIN w}
ContainsBytes(w, other) == BytesPresent(other) \subseteq BytesPresent(w)

(* ComputeWordBoundaryChars: the positions.                                 *)
IsWordBoundary(w, i) ==
  IF i = 1 THEN ~IsPunctuation(w[1])
  ELSE \/ ~IsUppercase(w[i - 1]) /\ IsUppercase(w[i])
       \/ IsPunctuation(w[i - 1]) /\ IsLetter(w[i])

WordBoundaryChars(w) ==
  LET chars[i \in 0..Len(w)] ==
        IF i = 0 THEN <<>>
        ELSE IF IsWordBoundary(w, i) THEN Append(chars[i - 1], w[i]) ELSE chars[i - 1]
  IN  chars[Len(w)]

TextIsLowercase(w) == \A i \in DOMAIN w : ~IsUppercase(w[i])

Larger(m, n) == IF m > n THEN m ELSE n

(* Mutant: a match is counted without looking at the row before.            *)
CountingRow(previous, c, w) ==
  LET current[j \in 0..Len(w)] ==
        IF j = 0 THEN 0
        ELSE Larger(current[j - 1], previous[j]) + (IF EqualsBase(c, w[j]) THEN 1 ELSE 0)
  IN  current

(* One round of the outer loop, with a character of the longer word.        *)
Row(previous, c, w) ==
  LET current[j \in 0..Len(w)] ==
        IF j = 0 THEN 0
        ELSE IF EqualsBase(c, w[j]) THEN previous[j - 1] + 1
        ELSE Larger(current[j - 1], previous[j])
  IN  current

LastRow(longer, shorter) ==
  LET rows[i \in 0..Len(longer)] ==
        IF i = 0 THEN [j \in 0..Len(shorter) |-> 0] ELSE Row(rows[i - 1], longer[i], shorter)
  IN  rows[Len(longer)]

LongestCommonSubsequenceLength(v, w) ==
  IF Len(v) > Len(w) THEN LastRow(v, w)[Len(w)] ELSE LastRow(w, v)[Len(v)]

(* What index_sum is in the end, when character i matched at place[i].      *)
SumOfIndexes(place, n) ==
  LET sum[i \in 0..n] == IF i = 0 THEN 0 ELSE sum[i - 1] + place[i] - 1
  IN  sum[n]
=============================================================================
