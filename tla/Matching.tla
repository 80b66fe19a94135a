------------------------------ MODULE Matching ------------------------------
(***************************************************************************)
(* Does a candidate match the query?  The test every caller makes first    *)
(* (IdentifierDatabase.cpp, handlers.cpp) and the loop of                  *)
(* Candidate::QueryMatchResult (src/src/core/Candidate.cpp), which walks   *)
(* over both words once.  It must find out whether the query is a          *)
(* subsequence of the candidate, and where, without ever going back.       *)
(***************************************************************************)
EXTENDS Candidates

CONSTANT Texts   \* the words of the candidates

ASSUME WordsAssumption == Queries \subseteq Word /\ Texts \subseteq Word

VARIABLES
  candidate,
  candidate_index, query_index,   \* how many characters were passed
  index_sum,
  query_is_candidate_prefix,
  outcome                         \* what the caller gets in the end

(* Not in the code: where the characters of the query matched.              *)
VARIABLE matched

vars == <<query, candidate, candidate_index, query_index, index_sum,
          query_is_candidate_prefix, outcome, matched>>

Init ==
  /\ query \in Queries /\ candidate \in Texts
  /\ candidate_index = 0 /\ query_index = 0
  /\ index_sum = 0
  /\ query_is_candidate_prefix = FALSE
  /\ outcome = "starting"
  /\ matched = <<>>

inputs == <<query, candidate>>
progress == <<candidate_index, query_index, index_sum, query_is_candidate_prefix, matched>>

(* The caller skips the candidate.                                          *)
SiftOut ==
  /\ outcome = "starting"
  /\ candidate = <<>> \/ ~ContainsBytes(candidate, query)
  /\ outcome' = "sifted"
  /\ UNCHANGED <<inputs, progress>>

(* QueryMatchResult up to its loop.                                         *)
Start ==
  /\ outcome = "starting"
  /\ candidate # <<>> /\ ContainsBytes(candidate, query)
  /\ outcome' = CASE query = <<>> -> "match"
                  [] query # <<>> /\ Len(candidate) < Len(query) -> "none"
                  [] OTHER -> "looking"
  /\ UNCHANGED <<inputs, progress>>

Looking == outcome = "looking" /\ candidate_index < Len(candidate)
Hit == MatchesSmart(query[query_index + 1], candidate[candidate_index + 1])
Last == query_index + 1 = Len(query)

(* Mutant: a match may be passed by.                                        *)
MissAnyway ==
  /\ Looking
  /\ candidate_index' = candidate_index + 1
  /\ UNCHANGED <<inputs, query_index, index_sum, query_is_candidate_prefix, outcome,
                 matched>>

Miss ==
  /\ Looking /\ ~Hit
  /\ candidate_index' = candidate_index + 1
  /\ UNCHANGED <<inputs, query_index, index_sum, query_is_candidate_prefix, outcome,
                 matched>>

(* Mutant: the wrong index is summed up.                                    *)
MatchHereQuery ==
  /\ Looking /\ Hit
  /\ index_sum' = index_sum + query_index
  /\ matched' = Append(matched, candidate_index + 1)
  /\ candidate_index' = candidate_index + 1
  /\ query_index' = query_index + 1
  /\ UNCHANGED inputs

MatchHere ==
  /\ Looking /\ Hit
  /\ index_sum' = index_sum + candidate_index
  /\ matched' = Append(matched, candidate_index + 1)
  /\ candidate_index' = candidate_index + 1
  /\ query_index' = query_index + 1
  /\ UNCHANGED inputs

MatchNext == MatchHere /\ ~Last /\ UNCHANGED <<query_is_candidate_prefix, outcome>>

(* Mutant: as many characters passed as matched, whatever the order.        *)
MatchLastLoosely ==
  /\ MatchHere /\ Last
  /\ query_is_candidate_prefix' = (candidate_index <= query_index + 1)
  /\ outcome' = "match"

MatchLast ==
  /\ MatchHere /\ Last
  /\ query_is_candidate_prefix' = (candidate_index = query_index)
  /\ outcome' = "match"

Exhausted ==
  /\ outcome = "looking"
  /\ candidate_index = Len(candidate)
  /\ outcome' = "none"
  /\ UNCHANGED <<inputs, progress>>

Next == SiftOut \/ Start \/ Miss \/ MatchNext \/ MatchLast \/ Exhausted

Spec == Init /\ [][Next]_vars
----------------------------------------------------------------------------
(* The ways the query is a subsequence of the candidate.                    *)
IsEmbedding(f) ==
  /\ \A i, j \in 1..Len(query) : i < j => f[i] < f[j]
  /\ \A i \in 1..Len(query) : MatchesSmart(query[i], candidate[f[i]])

Embeddings == {f \in [1..Len(query) -> 1..Len(candidate)] : IsEmbedding(f)}

TypeOK ==
  /\ query \in Word /\ candidate \in Word
  /\ candidate_index \in 0..Len(candidate)
  /\ query_index \in 0..Len(query)
  /\ index_sum \in Nat
  /\ query_is_candidate_prefix \in BOOLEAN
  /\ outcome \in {"starting", "sifted", "looking", "none", "match"}
  /\ matched \in Seq(1..Len(candidate)) /\ Len(matched) = query_index

(* No candidate is lost: what the bytes sift out or the loop gives up on    *)
(* does not contain the query, although the loop never tries a later place  *)
(* for a character it has matched.                                          *)
NoneIsNone == outcome \in {"sifted", "none"} => candidate = <<>> \/ Embeddings = {}

(* What is found is a match, and each of its characters is as far to the    *)
(* left as in any other match.                                              *)
Leftmost ==
  outcome = "match" =>
    /\ matched \in Embeddings
    /\ \A f \in Embeddings : \A i \in 1..Len(query) : matched[i] <= f[i]

(* Hence the sum of indexes that ranks the match is the smallest of any.    *)
SmallestSum ==
  (outcome = "match" /\ query # <<>>) =>
    LET n == Len(query)
    IN  /\ \E f \in Embeddings : index_sum = SumOfIndexes(f, n)
        /\ \A f \in Embeddings : index_sum <= SumOfIndexes(f, n)

(* query_is_candidate_prefix compares two counters; it must be the prefix    *)
(* relation of the words.                                                   *)
PrefixIsPrefix ==
  outcome = "match" =>
    (query_is_candidate_prefix <=>
       /\ query # <<>>
       /\ \A i \in 1..Len(query) : MatchesSmart(query[i], candidate[i]))

(* Smart matching as the comment on MatchesSmart explains it: a mark in the  *)
(* query and an upper case letter in the query must be in the candidate.    *)
SmartMatching ==
  \A i \in DOMAIN query, j \in DOMAIN candidate :
    LET c == query[i]  d == candidate[j]
    IN  MatchesSmart(c, d) <=> /\ c.letter = d.letter
                               /\ c.mark # NoMark => c.mark = d.mark
                               /\ c.upper => d.upper

(* A common subsequence of length n of query and word boundary characters.  *)
Common(n, w) ==
  \E f \in [1..n -> 1..Len(query)], g \in [1..n -> 1..Len(w)] :
    /\ \A i, j \in 1..n : i < j => f[i] < f[j] /\ g[i] < g[j]
    /\ \A i \in 1..n : EqualsBase(query[f[i]], w[g[i]])

(* The two rows of the table compute the length of the longest one: never   *)
(* more than the query is long, which the order of results relies on.       *)
WordBoundaryMatches ==
  outcome = "starting" =>
    LET w == WordBoundaryChars(candidate)
        n == LongestCommonSubsequenceLength(query, w)
    IN  Common(n, w) /\ ~Common(n + 1, w)
=============================================================================
