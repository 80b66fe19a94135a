------------------------------- MODULE Ranking -------------------------------
(***************************************************************************)
(* The order of completions: the features of a Result and operator<        *)
(* (src/src/core/Result.cpp), and the filter_and_sort_candidates request   *)
(* (src/src/handlers.cpp) that filters a list and sorts what is left with  *)
(* PartialSort (src/src/core/Utils.h).  The algorithms of the standard     *)
(* library need a strict weak order, and are not stable.                   *)
(***************************************************************************)
EXTENDS Candidates, FiniteSets, Functions

CONSTANTS
  Lists,       \* the lists of candidates' texts
  TooLong,     \* the texts of more than 80 bytes
  SwappedCase, \* the place of each character, lower before upper case
  NoAnswer

ASSUME ListsAssumption ==
  /\ Queries \subseteq Word
  /\ \A list \in Lists : list \in Seq(Word)
  /\ SwappedCase \in [Character -> Nat]

VARIABLES
  candidates,   \* the request's texts not yet looked at
  results,      \* result_and_objects
  answer        \* the texts of the response, in order

rankingVars == <<query, candidates, results, answer>>

----------------------------------------------------------------------------
(* Where the characters of q match first in w; 0 once there is none left.   *)
Places(q, w) ==
  LET place[i \in 0..Len(q)] ==
        IF i = 0 THEN 0
        ELSE LET Later == {k \in 1..Len(w) : k > place[i - 1] /\ MatchesSmart(q[i], w[k])}
             IN  IF Later = {} \/ (i > 1 /\ place[i - 1] = 0) THEN 0
                 ELSE CHOOSE k \in Later : \A m \in Later : k <= m
  IN  place

IsSubsequence(q, w) == q # <<>> => Places(q, w)[Len(q)] > 0

IndexSum(q, w) == SumOfIndexes(Places(q, w), Len(q))

(* Candidate::QueryMatchResult and SetResultFeaturesFromQuery, for a match.  *)
Result(q, w) ==
  [text |-> w,
   first_char_same |-> q # <<>> /\ w # <<>> /\ EqualsBase(q[1], w[1]),
   prefix |-> q # <<>> /\ Places(q, w)[Len(q)] = Len(q),
   index_sum |-> IndexSum(q, w),
   num_wb |-> LongestCommonSubsequenceLength(q, WordBoundaryChars(w)),
   wb_chars |-> Len(WordBoundaryChars(w)),
   length |-> Len(w),
   lowercase |-> TextIsLowercase(w)]

(* The lexicographic order of sequences of numbers. *)
LexLess(s, t) ==
  \E n \in 0..Len(s) :
    /\ n <= Len(t)
    /\ \A i \in 1..n : s[i] = t[i]
    /\ \/ n = Len(s) /\ n < Len(t)
       \/ n < Len(s) /\ n < Len(t) /\ s[n + 1] < t[n + 1]

CaseSwappedText(w) == [i \in 1..Len(w) |-> SwappedCase[w[i]]]

(* Mutant: the lengths decide at last.                                      *)
ShorterText(a, b) == Len(a.text) < Len(b.text)

TextLess(a, b) == LexLess(CaseSwappedText(a.text), CaseSwappedText(b.text))

(* Mutant: only the left operand is looked at.                              *)
LeftMatchesQuery(q, a, b) == a.num_wb = Len(q)

(* All characters of the query match word boundary characters of one.       *)
OneMatchesQuery(q, a, b) == a.num_wb = Len(q) \/ b.num_wb = Len(q)

(* Result::operator<                                                        *)
Less(q, a, b) ==
  IF q = <<>> THEN TextLess(a, b)
  ELSE IF a.first_char_same # b.first_char_same THEN a.first_char_same
  ELSE IF OneMatchesQuery(q, a, b) /\ a.num_wb # b.num_wb THEN a.num_wb > b.num_wb
  ELSE IF OneMatchesQuery(q, a, b) /\ a.wb_chars # b.wb_chars THEN a.wb_chars < b.wb_chars
  ELSE IF a.prefix # b.prefix THEN a.prefix
  ELSE IF a.num_wb # b.num_wb THEN a.num_wb > b.num_wb
  ELSE IF a.wb_chars # b.wb_chars THEN a.wb_chars < b.wb_chars
  ELSE IF a.index_sum # b.index_sum THEN a.index_sum < b.index_sum
  ELSE IF a.length # b.length THEN a.length < b.length
  ELSE IF a.lowercase # b.lowercase THEN a.lowercase
  ELSE TextLess(a, b)
----------------------------------------------------------------------------
RankingInit ==
  /\ query \in Queries
  /\ candidates \in Lists
  /\ results = <<>>
  /\ answer = NoAnswer

(* Repository::GetElements replaces an overlong text by the empty one.       *)
Stored(w) == IF w \in TooLong THEN <<>> ELSE w

Passes(w) == w # <<>> /\ ContainsBytes(w, query) /\ IsSubsequence(query, w)

(* One round of the loop over the candidates.  A text stands for the object  *)
(* of the request that it comes from.                                        *)
Filter ==
  /\ candidates # <<>>
  /\ candidates' = Tail(candidates)
  /\ LET w == Stored(Head(candidates))
     IN  results' = IF Passes(w) THEN Append(results, Result(query, w)) ELSE results
  /\ UNCHANGED <<query, answer>>

Rearrangements(s) == {[i \in DOMAIN s |-> s[f[i]]] : f \in Bijection(DOMAIN s, DOMAIN s)}

(* PartialSort of all elements: some rearrangement in which no later element *)
(* is less than an earlier one.                                              *)
PartialSort ==
  /\ candidates = <<>> /\ answer = NoAnswer
  /\ \E s \in Rearrangements(results) :
       /\ \A i, j \in DOMAIN s : i < j => ~Less(query, s[j], s[i])
       /\ answer' = [i \in DOMAIN s |-> s[i].text]
  /\ UNCHANGED <<query, candidates, results>>

RankingNext == Filter \/ PartialSort

RankingSpec == RankingInit /\ [][RankingNext]_rankingVars
----------------------------------------------------------------------------
(* The order of the results is a strict weak order, as std::partial_sort    *)
(* and std::sort demand: otherwise their behaviour is undefined.            *)
Incomparable(q, a, b) == ~Less(q, a, b) /\ ~Less(q, b, a)

OrderIsStrictWeak ==
  \A a, b, c \in Range(results) :
    /\ ~(Less(query, a, b) /\ Less(query, b, a))
    /\ Less(query, a, b) /\ Less(query, b, c) => Less(query, a, c)
    /\ Incomparable(query, a, b) /\ Incomparable(query, b, c) =>
         Incomparable(query, a, c)

(* Only equal texts tie, so that an unstable sort still gives one answer,   *)
(* whatever the order of the candidates.                                    *)
AnswerDetermined ==
  answer # NoAnswer =>
    \A i, j \in DOMAIN answer :
      i < j => \/ answer[i] = answer[j]
               \/ Less(query, Result(query, answer[i]), Result(query, answer[j]))
=============================================================================
