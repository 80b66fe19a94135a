---------------------- MODULE IdentifierCompleterProofs ----------------------
(* The identifier database answers with exactly the matching names, for     *)
(* every set of files, names, queries and every order of the map.           *)
EXTENDS IdentifierCompleter, SequenceTheorems, FiniteSetTheorems, TLAPS

DatabaseOK ==
  /\ DOMAIN filetype_candidate_map \subseteq Files
  /\ \A file \in DOMAIN filetype_candidate_map :
       filetype_candidate_map[file] \in Seq(Texts)

LoopOK ==
  /\ request \in [Requests -> Request \cup {NoAnswer}]
  /\ asking \in Requests \cup {NoRequest}
  /\ paths_left \in SUBSET Paths
  /\ rest \in Seq(Texts)
  /\ seen_candidates \in SUBSET Texts
  /\ results \in Seq(Names)

(* The texts of the paths still to be visited. *)
Ahead == UNION {Range(filetype_candidate_map[<<request[asking].filetype, p>>]) :
                p \in paths_left}

(* What has been seen and what is ahead are the texts of the filetype, and  *)
(* the results are the wanted ones of those seen.                           *)
Progress ==
  asking # NoRequest =>
    /\ request[asking] \in Request
    /\ \A p \in paths_left :
         <<request[asking].filetype, p>> \in DOMAIN filetype_candidate_map
    /\ seen_candidates \cup Range(rest) \cup Ahead = TextsOf(request[asking].filetype)
    /\ Range(results) = (seen_candidates \cap Matches[query]) \ {NoName}
    /\ IsInjective(results)

IdleIsClean == asking = NoRequest => rest = <<>>

IInv == DatabaseOK /\ LoopOK /\ Progress /\ IdleIsClean
----------------------------------------------------------------------------
LEMMA RangeOfAppend ==
  ASSUME NEW S, NEW s \in Seq(S), NEW e \in S
  PROVE  Range(Append(s, e)) = Range(s) \cup {e}
<1> DEFINE t == Append(s, e)
<1>1. /\ t \in Seq(S) /\ Len(t) = Len(s) + 1
      /\ \A i \in 1..Len(s) : t[i] = s[i]
      /\ t[Len(s) + 1] = e
  BY AppendProperties
<1>2. DOMAIN t = 1..(Len(s) + 1) /\ DOMAIN s = 1..Len(s) /\ Len(s) \in Nat
  BY <1>1
<1> HIDE DEF t
<1> QED BY <1>1, <1>2 DEF Range

LEMMA InjectiveAppend ==
  ASSUME NEW S, NEW s \in Seq(S), NEW e \in S, IsInjective(s), e \notin Range(s)
  PROVE  IsInjective(Append(s, e))
<1> DEFINE t == Append(s, e)
<1>1. /\ t \in Seq(S) /\ Len(t) = Len(s) + 1
      /\ \A i \in 1..Len(s) : t[i] = s[i]
      /\ t[Len(s) + 1] = e
  BY AppendProperties
<1>2. DOMAIN t = 1..(Len(s) + 1) /\ DOMAIN s = 1..Len(s) /\ Len(s) \in Nat
  BY <1>1
<1>3. \A i \in 1..Len(s) : s[i] # e
  BY <1>2 DEF Range
<1> HIDE DEF t
<1> QED BY <1>1, <1>2, <1>3 DEF IsInjective

LEMMA RangeOfTail ==
  ASSUME NEW S, NEW s \in Seq(S), s # <<>>
  PROVE  Range(s) = {Head(s)} \cup Range(Tail(s))
<1> DEFINE t == Tail(s)
<1>1. t \in Seq(S) /\ Len(t) = Len(s) - 1 /\ \A i \in 1..Len(t) : t[i] = s[i + 1]
  BY HeadTailProperties
<1>2. Len(s) \in Nat /\ Len(s) > 0 /\ DOMAIN s = 1..Len(s) /\ DOMAIN t = 1..(Len(s) - 1)
  BY <1>1, EmptySeq
<1>3. Head(s) = s[1]
  BY <1>2
<1> HIDE DEF t
<1>4. ASSUME NEW i \in DOMAIN s PROVE s[i] \in {Head(s)} \cup Range(t)
  <2>1. CASE i = 1
    BY <2>1, <1>3
  <2>2. CASE i # 1
    <3>1. i - 1 \in DOMAIN t /\ t[i - 1] = s[i]
      BY <2>2, <1>1, <1>2
    <3> QED BY <3>1 DEF Range
  <2> QED BY <2>1, <2>2
<1>5. ASSUME NEW i \in DOMAIN t PROVE t[i] \in Range(s)
  <2>1. i + 1 \in DOMAIN s /\ t[i] = s[i + 1]
    BY <1>1, <1>2
  <2> QED BY <2>1 DEF Range
<1>6. Head(s) \in Range(s)
  BY <1>2, <1>3 DEF Range
<1> QED BY <1>4, <1>5, <1>6 DEF t, Range

LEMMA StoredIsText ==
  ASSUME NEW name \in Names \cup {NoName} PROVE Stored(name) \in Texts
BY DEF Stored, Texts

LEMMA PutOK ==
  ASSUME DatabaseOK, NEW file \in Files, NEW texts \in Seq(Texts), Put(file, texts)
  PROVE  DatabaseOK'
<1>1. DOMAIN filetype_candidate_map' = DOMAIN filetype_candidate_map \cup {file}
  BY DEF Put
<1>2. \A f \in DOMAIN filetype_candidate_map' :
        filetype_candidate_map'[f] = IF f = file THEN texts ELSE filetype_candidate_map[f]
  BY DEF Put
<1> QED BY <1>1, <1>2 DEF DatabaseOK

LEMMA CandidateSetType ==
  ASSUME DatabaseOK, NEW file PROVE CandidateSet(file) \in Seq(Texts)
BY EmptySeq DEF DatabaseOK, CandidateSet

LEMMA EmptyRange == Range(<<>>) = {}
BY DEF Range
----------------------------------------------------------------------------
LEMMA InitHolds == Init => IInv
<1> SUFFICES ASSUME Init PROVE IInv
  OBVIOUS
<1>1. DOMAIN filetype_candidate_map = {}
  BY DEF Init, NoFunction
<1>2. DatabaseOK
  BY <1>1 DEF DatabaseOK
<1>3. LoopOK
  BY EmptySeq DEF Init, LoopOK
<1> QED BY <1>2, <1>3 DEF Init, IInv, Progress, IdleIsClean

(* A step outside the loop that leaves the database alone.                  *)
LEMMA QuietHolds ==
  ASSUME IInv, asking = NoRequest, UNCHANGED <<filetype_candidate_map, loop>>,
         request' \in [Requests -> Request \cup {NoAnswer}]
  PROVE  IInv'
BY DEF IInv, DatabaseOK, LoopOK, Progress, IdleIsClean, loop

(* A query starts with everything ahead, or the process ends.               *)
LEMMA StartQueryHolds ==
  ASSUME IInv, NEW r \in Requests, request'[r] \in Request,
         request' \in [Requests -> Request \cup {NoAnswer}],
         StartQuery(r, request'[r]), asking = NoRequest, UNCHANGED filetype_candidate_map
  PROVE  IInv'
<1>a. CASE UNCHANGED loop
  BY <1>a, QuietHolds
<1>b. SUFFICES ASSUME ~UNCHANGED loop
               PROVE  IInv'
  BY <1>a
<1>ft. PICK ft \in Filetypes : ft = request'[r].filetype
  BY DEF Request
<1>0. asking' = r /\ asking' # NoRequest /\ rest' = <<>>
  BY <1>b, NamesAssumption DEF StartQuery
<1>1. paths_left' = {p \in Paths : <<ft, p>> \in DOMAIN filetype_candidate_map}
  BY <1>b, <1>ft DEF StartQuery, PathsOf
<1>2. DatabaseOK'
  BY DEF IInv, DatabaseOK
<1>3. LoopOK'
  BY <1>b, <1>0, <1>1, EmptySeq DEF IInv, LoopOK, StartQuery
<1>4. TextsOf(ft)' = Ahead'
  <2>1. ASSUME NEW p \in Paths
        PROVE  CandidateSet(<<ft, p>>)' = IF p \in paths_left'
                                          THEN filetype_candidate_map'[<<ft, p>>] ELSE <<>>
    <3>1. p \in paths_left' <=> <<ft, p>> \in DOMAIN filetype_candidate_map'
      BY <1>1
    <3>2. CandidateSet(<<ft, p>>)' = IF <<ft, p>> \in DOMAIN filetype_candidate_map'
                                     THEN filetype_candidate_map'[<<ft, p>>] ELSE <<>>
      BY Zenon DEF CandidateSet
    <3> QED BY <3>1, <3>2
  <2>2. TextsOf(ft)' = UNION {Range(CandidateSet(<<ft, p>>))' : p \in Paths}
    BY DEF TextsOf
  <2>3. Ahead' = UNION {Range(filetype_candidate_map'[<<ft, p>>]) : p \in paths_left'}
    BY <1>0, <1>ft DEF Ahead
  <2>4. paths_left' \subseteq Paths
    BY <1>1
  <2> QED BY <2>1, <2>2, <2>3, <2>4, EmptyRange
<1>5. seen_candidates' = {} /\ results' = <<>>
  BY <1>b DEF StartQuery
<1>6. Range(results') = {} /\ Range(rest') = {} /\ IsInjective(results')
  BY <1>0, <1>5, EmptyRange DEF IsInjective
<1>7. Progress'
  <2>1. request'[asking'] \in Request /\ request'[asking'].filetype = ft
    BY <1>0, <1>ft
  <2>2. seen_candidates' \cup Range(rest') \cup Ahead' = TextsOf(ft)'
    BY <1>4, <1>5, <1>6
  <2>3. Range(results') = (seen_candidates' \cap Matches[query']) \ {NoName}
    BY <1>5, <1>6
  <2>4. \A p \in paths_left' : <<ft, p>> \in DOMAIN filetype_candidate_map'
    BY <1>1
  <2> QED BY <1>0, <1>6, <2>1, <2>2, <2>3, <2>4 DEF Progress
<1> QED BY <1>0, <1>2, <1>3, <1>7 DEF IInv, IdleIsClean

LEMMA EventHolds ==
  ASSUME IInv, Event, DatabaseOK' PROVE IInv'
BY DEF IInv, Event, LoopOK, Progress, IdleIsClean, loop
----------------------------------------------------------------------------
LEMMA FileReadyToParseHolds ==
  ASSUME IInv, NEW file \in Files, NEW identifiers \in Buffers,
         FileReadyToParse(file, identifiers)
  PROVE  IInv'
<1> DEFINE texts == [i \in DOMAIN identifiers |-> Stored(identifiers[i])]
<1>1. identifiers \in Seq(Names)
  BY NamesAssumption
<1>2. DOMAIN identifiers = 1..Len(identifiers) /\ Len(identifiers) \in Nat
      /\ \A i \in DOMAIN identifiers : identifiers[i] \in Names
  BY <1>1
<1>3. \A i \in DOMAIN identifiers : Stored(identifiers[i]) \in Texts
  BY <1>2, StoredIsText
<1>4. texts \in Seq(Texts)
  BY <1>2, <1>3, IsASeq
<1>5. Put(file, texts) /\ Event
  BY DEF FileReadyToParse
<1> QED BY <1>4, <1>5, PutOK, EventHolds DEF IInv

LEMMA AddSingleIdentifierHolds ==
  ASSUME IInv, NEW file \in Files, NEW name \in Names \cup {NoName},
         AddSingleIdentifier(file, name)
  PROVE  IInv'
<1> DEFINE texts == CandidateSet(file)
           new == IF Stored(name) \in Range(texts) THEN texts
                  ELSE Append(texts, Stored(name))
<1>1. texts \in Seq(Texts) /\ Stored(name) \in Texts
  BY CandidateSetType, StoredIsText DEF IInv
<1>2. new \in Seq(Texts)
  BY <1>1, AppendProperties
<1>3. Put(file, new) /\ Event
  BY DEF AddSingleIdentifier
<1> QED BY <1>2, <1>3, PutOK, EventHolds DEF IInv

LEMMA HandleCompletionsHolds ==
  ASSUME IInv, NEW r \in Requests, NEW q \in Request, HandleCompletions(r, q)
  PROVE  IInv'
<1>1. request' \in [Requests -> Request \cup {NoAnswer}] /\ request'[r] = q
  BY DEF HandleCompletions, IInv, LoopOK
<1>2. asking = NoRequest /\ UNCHANGED filetype_candidate_map
  BY DEF HandleCompletions, database
<1>3. CASE UNCHANGED loop
  BY <1>1, <1>2, <1>3, QuietHolds
<1>4. CASE StartQuery(r, q)
  BY <1>1, <1>2, <1>4, StartQueryHolds
<1> QED BY <1>3, <1>4 DEF HandleCompletions

LEMMA SemanticAnswersHolds ==
  ASSUME IInv, NEW r \in Requests, SemanticAnswers(r) PROVE IInv'
<1>1. asking = NoRequest /\ UNCHANGED <<filetype_candidate_map, loop>> /\ UNCHANGED request
  BY DEF SemanticAnswers, Waiting, database
<1> QED BY <1>1, QuietHolds DEF IInv, LoopOK

LEMMA SemanticHasNothingHolds ==
  ASSUME IInv, NEW r \in Requests, SemanticHasNothing(r) PROVE IInv'
<1>1. UNCHANGED <<filetype_candidate_map, request>> /\ request[r] # NoAnswer
      /\ StartQuery(r, request[r]) /\ asking = NoRequest
  BY DEF SemanticHasNothing, Waiting, database
<1>2. request'[r] \in Request /\ request' \in [Requests -> Request \cup {NoAnswer}]
  BY <1>1 DEF IInv, LoopOK
<1> QED BY <1>1, <1>2, StartQueryHolds

LEMMA NextPathHolds ==
  ASSUME IInv, NEW p \in Paths, NextPath(p) PROVE IInv'
<1> DEFINE ft == request[asking].filetype
<1>1. /\ asking # NoRequest /\ rest = <<>> /\ p \in paths_left
      /\ paths_left' = paths_left \ {p}
      /\ rest' = filetype_candidate_map[<<ft, p>>]
      /\ UNCHANGED <<filetype_candidate_map, request, asking, seen_candidates, results>>
  BY DEF NextPath, database
<1>2. Progress
  BY DEF IInv
<1>3. <<ft, p>> \in DOMAIN filetype_candidate_map
  BY <1>1, <1>2 DEF Progress
<1>4. rest' \in Seq(Texts)
  BY <1>1, <1>3 DEF IInv, DatabaseOK
<1>5. LoopOK'
  BY <1>1, <1>4 DEF IInv, LoopOK
<1>6. DatabaseOK'
  BY <1>1 DEF IInv, DatabaseOK
<1>7. Ahead = Range(rest') \cup Ahead'
  <2>1. Ahead' = UNION {Range(filetype_candidate_map[<<ft, o>>]) : o \in paths_left \ {p}}
    BY <1>1 DEF Ahead
  <2>2. Ahead = UNION {Range(filetype_candidate_map[<<ft, o>>]) : o \in paths_left}
    BY DEF Ahead
  <2> QED BY <1>1, <2>1, <2>2
<1>8. TextsOf(ft)' = TextsOf(ft)
  BY <1>1 DEF TextsOf, CandidateSet
<1>9. seen_candidates' \cup Range(rest') \cup Ahead' = TextsOf(ft)'
  BY <1>1, <1>2, <1>7, <1>8, EmptyRange DEF Progress
<1>10. query' = query
  BY <1>1 DEF query
<1>11. Progress'
  BY <1>1, <1>2, <1>9, <1>10 DEF Progress
<1> QED BY <1>1, <1>5, <1>6, <1>11 DEF IInv, IdleIsClean

(* Passing a candidate moves it from rest to seen_candidates.               *)
LEMMA PassHolds ==
  ASSUME IInv, Pass
  PROVE  /\ asking # NoRequest /\ asking' = asking /\ query' = query
         /\ Head(rest) \in Texts
         /\ seen_candidates' = seen_candidates \cup {Head(rest)}
         /\ DatabaseOK' /\ IdleIsClean'
         /\ (results' \in Seq(Names) => LoopOK')
         /\ (/\ Range(results') = (seen_candidates' \cap Matches[query]) \ {NoName}
             /\ IsInjective(results')) => Progress'
<1> DEFINE ft == request[asking].filetype
<1>1. /\ rest # <<>> /\ rest' = Tail(rest)
      /\ seen_candidates' = seen_candidates \cup {Head(rest)}
      /\ UNCHANGED <<filetype_candidate_map, request, asking, paths_left>>
  BY DEF Pass, database
<1>2. asking # NoRequest
  BY <1>1 DEF IInv, IdleIsClean
<1>3. rest \in Seq(Texts)
  BY DEF IInv, LoopOK
<1>4. Head(rest) \in Texts /\ Tail(rest) \in Seq(Texts)
  BY <1>1, <1>3, HeadTailProperties
<1>5. Range(rest) = {Head(rest)} \cup Range(rest')
  BY <1>1, <1>3, RangeOfTail
<1>6. Ahead' = Ahead /\ TextsOf(ft)' = TextsOf(ft) /\ query' = query
  BY <1>1 DEF Ahead, TextsOf, CandidateSet, query
<1>7. Progress
  BY DEF IInv
<1>8. seen_candidates' \cup Range(rest') \cup Ahead' = TextsOf(ft)'
  BY <1>1, <1>2, <1>5, <1>6, <1>7 DEF Progress
<1>9. DatabaseOK'
  BY <1>1 DEF IInv, DatabaseOK
<1>10. results' \in Seq(Names) => LoopOK'
  BY <1>1, <1>4 DEF IInv, LoopOK
<1>11. IdleIsClean'
  BY <1>1, <1>2 DEF IdleIsClean
<1>12. (/\ Range(results') = (seen_candidates' \cap Matches[query]) \ {NoName}
        /\ IsInjective(results')) => Progress'
  BY <1>1, <1>2, <1>6, <1>7, <1>8 DEF Progress
<1> QED BY <1>1, <1>2, <1>4, <1>6, <1>9, <1>10, <1>11, <1>12

LEMMA SkipHolds == ASSUME IInv, Skip PROVE IInv'
<1>1. Pass /\ ~Wanted(Head(rest)) /\ results' = results
  BY DEF Skip
<1>2. asking # NoRequest /\ seen_candidates' = seen_candidates \cup {Head(rest)}
  BY <1>1, PassHolds
<1>3. Range(results) = (seen_candidates \cap Matches[query]) \ {NoName} /\ IsInjective(results)
  BY <1>2 DEF IInv, Progress
<1>4. Range(results') = (seen_candidates' \cap Matches[query]) \ {NoName}
  BY <1>1, <1>2, <1>3 DEF Wanted
<1>5. results' \in Seq(Names) /\ IsInjective(results')
  BY <1>1, <1>3 DEF IInv, LoopOK
<1> QED BY <1>1, <1>4, <1>5, PassHolds DEF IInv

LEMMA TakeHolds == ASSUME IInv, Take PROVE IInv'
<1> DEFINE text == Head(rest)
<1>1. Pass /\ Wanted(text) /\ results' = Append(results, text)
  BY DEF Take
<1>2. /\ asking # NoRequest /\ seen_candidates' = seen_candidates \cup {text}
      /\ text \in Texts
  BY <1>1, PassHolds
<1>3. Range(results) = (seen_candidates \cap Matches[query]) \ {NoName} /\ IsInjective(results)
  BY <1>2 DEF IInv, Progress
<1>4. text \notin seen_candidates /\ text # NoName /\ text \in Matches[query]
  BY <1>1 DEF Wanted
<1>5. results \in Seq(Names) /\ text \in Names
  BY <1>2, <1>4 DEF IInv, LoopOK, Texts
<1>6. results' \in Seq(Names)
  BY <1>1, <1>5, AppendProperties
<1>7. Range(results') = (seen_candidates' \cap Matches[query]) \ {NoName}
  <2>1. Range(results') = Range(results) \cup {text}
    BY <1>1, <1>5, RangeOfAppend
  <2> QED BY <1>2, <1>3, <1>4, <2>1
<1>8. IsInjective(results')
  <2>1. text \notin Range(results)
    BY <1>3, <1>4
  <2> QED BY <1>1, <1>3, <1>5, <2>1, InjectiveAppend
<1> QED BY <1>1, <1>6, <1>7, <1>8, PassHolds DEF IInv

LEMMA ReplyHolds == ASSUME IInv, Reply PROVE IInv'
<1>1. /\ asking' = NoRequest /\ rest = <<>> /\ UNCHANGED <<filetype_candidate_map, request>>
      /\ UNCHANGED <<paths_left, rest>> /\ seen_candidates' = {} /\ results' = <<>>
  BY DEF Reply, database
<1>2. LoopOK'
  BY <1>1, EmptySeq DEF IInv, LoopOK
<1> QED BY <1>1, <1>2 DEF IInv, DatabaseOK, Progress, IdleIsClean

LEMMA StepHolds == IInv /\ [Next]_vars => IInv'
<1> SUFFICES ASSUME IInv, [Next]_vars PROVE IInv'
  OBVIOUS
<1>1. CASE UNCHANGED vars
  <2>1. UNCHANGED <<filetype_candidate_map, request, asking, paths_left, rest,
                    seen_candidates, results>>
    BY <1>1 DEF vars
  <2>2. DatabaseOK' /\ LoopOK' /\ IdleIsClean'
    BY <2>1 DEF IInv, DatabaseOK, LoopOK, IdleIsClean
  <2>3. Ahead' = Ahead /\ query' = query
    BY <2>1 DEF Ahead, query
  <2>4. \A ft \in Filetypes : TextsOf(ft)' = TextsOf(ft)
    BY <2>1 DEF TextsOf, CandidateSet
  <2>5. Progress'
    BY <2>1, <2>3, <2>4 DEF IInv, Progress, Request
  <2> QED BY <2>2, <2>5 DEF IInv
<1>2. ASSUME NEW file \in Files, NEW identifiers \in Buffers,
             FileReadyToParse(file, identifiers)
      PROVE  IInv'
  BY <1>2, FileReadyToParseHolds
<1>3. ASSUME NEW file \in Files, NEW name \in Names \cup {NoName},
             AddSingleIdentifier(file, name)
      PROVE  IInv'
  BY <1>3, AddSingleIdentifierHolds
<1>4. ASSUME NEW r \in Requests, NEW q \in Request, HandleCompletions(r, q) PROVE IInv'
  BY <1>4, HandleCompletionsHolds
<1>5. ASSUME NEW r \in Requests, SemanticAnswers(r) \/ SemanticHasNothing(r) PROVE IInv'
  BY <1>5, SemanticAnswersHolds, SemanticHasNothingHolds
<1>6. ASSUME NEW p \in Paths, NextPath(p) PROVE IInv'
  BY <1>6, NextPathHolds
<1> QED BY <1>1, <1>2, <1>3, <1>4, <1>5, <1>6, SkipHolds, TakeHolds, ReplyHolds DEF Next

LEMMA ProgressGivesResults == IInv => ResultsExact
<1> SUFFICES ASSUME IInv, asking # NoRequest, rest = <<>>, paths_left = {}
             PROVE  /\ Range(results) = (TextsOf(request[asking].filetype)
                                           \cap Matches[query]) \ {NoName}
                    /\ IsInjective(results)
  BY DEF ResultsExact
<1>1. Progress
  BY DEF IInv
<1>2. Ahead = {}
  BY DEF Ahead
<1> QED BY <1>1, <1>2, EmptyRange DEF Progress

(* The results of a query are exactly the names of the filetype's files     *)
(* that match, each once, whatever events came before and in whatever order *)
(* the unordered maps of IdentifierDatabase are visited.                    *)
THEOREM ResultsAreExact == Spec => []ResultsExact
<1>1. Init => IInv
  BY InitHolds
<1>2. IInv /\ [Next]_vars => IInv'
  BY StepHolds
<1>3. IInv => ResultsExact
  BY ProgressGivesResults
<1> QED BY <1>1, <1>2, <1>3, PTL DEF Spec
----------------------------------------------------------------------------
(* The refinement: what a query answers is what is known at that moment,    *)
(* although the answer is built in many steps.                              *)

(* A request is answered at most once, and not while its query runs.        *)
AnswersOK ==
  /\ answers \in [Requests -> Answer \cup {NoAnswer}]
  /\ \A r \in Requests : request[r] = NoAnswer => answers[r] = NoAnswer
  /\ asking # NoRequest => answers[asking] = NoAnswer

(* What IdentifierSets sees of the database and of the answers.             *)
Known == [file \in Files |-> Range(CandidateSet(file)) \ {NoName}]
Seen(a) == IF a = NoAnswer THEN NoAnswer ELSE [from |-> a.from, names |-> Range(a.items)]
Responses == [r \in Requests |-> Seen(answers[r])]

LEMMA SortingsFacts ==
  ASSUME NEW s \in Seq(Names), NEW t \in Sortings(s)
  PROVE  t \in Seq(Names) /\ Range(t) = Range(s) \ Short
<1> DEFINE kept == {i \in DOMAIN s : LongEnough(s[i])}
           n == Cardinality(kept)
<1>1. DOMAIN s = 1..Len(s) /\ Len(s) \in Nat /\ \A i \in DOMAIN s : s[i] \in Names
  OBVIOUS
<1>2. n \in Nat
  <2>1. IsFiniteSet(1..Len(s))
    BY <1>1, FS_Interval
  <2>2. kept \subseteq 1..Len(s)
    BY <1>1
  <2>3. IsFiniteSet(kept)
    BY <2>1, <2>2, FS_Subset
  <2> QED BY <2>3, FS_CardinalityType
<1>3. PICK f \in Bijection(1..n, kept) : t = [i \in 1..n |-> s[f[i]]]
  BY DEF Sortings
<1>4. f \in [1..n -> kept] /\ \A i \in kept : \E j \in 1..n : f[j] = i
  BY <1>3, Zenon DEF Bijection, Surjection
<1>5. \A i \in kept : i \in DOMAIN s /\ s[i] \notin Short
  BY DEF LongEnough
<1>6. \A i \in DOMAIN s : s[i] \notin Short => i \in kept
  BY DEF LongEnough
<1> HIDE DEF kept, n
<1>7. DOMAIN t = 1..n /\ \A i \in 1..n : t[i] = s[f[i]] /\ f[i] \in kept
  BY <1>3, <1>4
<1>8. t \in Seq(Names)
  BY <1>1, <1>2, <1>3, <1>5, <1>7, IsASeq
<1>9. Range(t) \subseteq Range(s) \ Short
  BY <1>5, <1>7 DEF Range
<1>10. ASSUME NEW i \in DOMAIN s, s[i] \notin Short PROVE s[i] \in Range(t)
  BY <1>4, <1>6, <1>7, <1>10 DEF Range
<1> QED BY <1>8, <1>9, <1>10 DEF Range

LEMMA RespondFacts ==
  ASSUME AnswersOK, NEW r \in Requests, NEW from \in {"semantic", "nobody", "identifiers"},
         NEW items \in Seq(Names), Respond(r, from, items)
  PROVE  /\ answers' \in [Requests -> Answer \cup {NoAnswer}]
         /\ \A o \in Requests : o # r => answers'[o] = answers[o]
         /\ Responses' = [Responses EXCEPT ![r] = [from |-> from, names |-> Range(items)]]
<1> DEFINE a == [from |-> from, items |-> items]
<1>1. a \in Answer /\ a.from = from /\ a.items = items
  BY DEF Answer
<1>2. a # NoAnswer
  BY <1>1, NamesAssumption
<1>3. Seen(a) = [from |-> from, names |-> Range(items)]
  BY <1>1, <1>2, Zenon DEF Seen
<1>4. answers' = [answers EXCEPT ![r] = a]
  BY DEF Respond
<1> HIDE DEF a
<1>5. /\ answers' \in [Requests -> Answer \cup {NoAnswer}]
      /\ answers'[r] = a
      /\ \A o \in Requests : o # r => answers'[o] = answers[o]
  BY <1>1, <1>4 DEF AnswersOK
<1>6. Responses' = [Responses EXCEPT ![r] = Seen(a)]
  <2>1. Responses' = [o \in Requests |-> Seen(answers'[o])]
    BY DEF Responses, Seen
  <2>2. \A o \in Requests : Seen(answers'[o]) = IF o = r THEN Seen(a) ELSE Seen(answers[o])
    BY <1>5
  <2> QED BY <2>1, <2>2 DEF Responses
<1> QED BY <1>3, <1>5, <1>6

LEMMA KnownAfterPut ==
  ASSUME NEW file \in Files, NEW texts, Put(file, texts)
  PROVE  Known' = [Known EXCEPT ![file] = Range(texts) \ {NoName}]
<1>1. ASSUME NEW f \in Files
      PROVE  CandidateSet(f)' = IF f = file THEN texts ELSE CandidateSet(f)
  <2>1. /\ DOMAIN filetype_candidate_map' = DOMAIN filetype_candidate_map \cup {file}
        /\ \A g \in DOMAIN filetype_candidate_map' :
             filetype_candidate_map'[g] = IF g = file THEN texts ELSE filetype_candidate_map[g]
    BY DEF Put
  <2>2. CandidateSet(f)' = IF f \in DOMAIN filetype_candidate_map'
                           THEN filetype_candidate_map'[f] ELSE <<>>
    BY Zenon DEF CandidateSet
  <2>3. CandidateSet(f) = IF f \in DOMAIN filetype_candidate_map
                          THEN filetype_candidate_map[f] ELSE <<>>
    BY Zenon DEF CandidateSet
  <2> QED BY <2>1, <2>2, <2>3
<1>2. Known' = [f \in Files |-> Range(CandidateSet(f)') \ {NoName}]
  BY DEF Known
<1> QED BY <1>1, <1>2 DEF Known

LEMMA KnownKept ==
  ASSUME UNCHANGED filetype_candidate_map PROVE Known' = Known
BY DEF Known, CandidateSet

LEMMA ResponsesKept ==
  ASSUME UNCHANGED answers PROVE Responses' = Responses
BY DEF Responses, Seen
----------------------------------------------------------------------------
(* The steps of IdentifierSets, in these terms.                             *)

PromiseStep == [Promise!Next]_(Promise!vars)

LEMMA StutterStep ==
  ASSUME Known' = Known, request' = request, Responses' = Responses
  PROVE  PromiseStep
BY DEF PromiseStep, Promise!vars, Known, Responses, Seen

LEMMA ReplaceStep ==
  ASSUME NEW file \in Files, NEW S \in SUBSET (Names \ TooLong),
         Known' = [Known EXCEPT ![file] = S], request' = request, Responses' = Responses
  PROVE  PromiseStep
<1>1. Promise!Replace(file, S)
  BY DEF Promise!Replace, Known, Responses, Seen
<1> QED BY <1>1 DEF PromiseStep, Promise!Next, Files

LEMMA LearnStep ==
  ASSUME NEW file \in Files, NEW name \in Names \ TooLong,
         Known' = [Known EXCEPT ![file] = @ \cup {name}],
         request' = request, Responses' = Responses
  PROVE  PromiseStep
<1>1. Promise!Learn(file, name)
  BY DEF Promise!Learn, Known, Responses, Seen
<1> QED BY <1>1 DEF PromiseStep, Promise!Next, Files

LEMMA AskStep ==
  ASSUME NEW r \in Requests, NEW q \in Request, request[r] = NoAnswer,
         request' = [request EXCEPT ![r] = q], Known' = Known,
         \/ Responses' = Responses
         \/ Responses' = [Responses EXCEPT ![r] = [from |-> "nobody", names |-> {}]]
  PROVE  PromiseStep
<1>1. q \in Promise!Asked
  BY DEF Promise!Asked, Request
<1>2. Promise!Ask(r)
  BY <1>1 DEF Promise!Ask, Known, Responses, Seen
<1> QED BY <1>2 DEF PromiseStep, Promise!Next

LEMMA RespondStep ==
  ASSUME NEW r \in Requests, request[r] # NoAnswer, answers[r] = NoAnswer,
         request' = request, Known' = Known,
         \/ \E from \in {"semantic", "nobody"} :
              Responses' = [Responses EXCEPT ![r] = [from |-> from, names |-> {}]]
         \/ Responses' = [Responses EXCEPT ![r] =
                            [from |-> "identifiers", names |-> Promise!Suggestions(request[r])]]
  PROVE  PromiseStep
<1>1. Promise!Respond(r)
  BY DEF Promise!Respond, Known, Responses, Seen
<1> QED BY <1>1 DEF PromiseStep, Promise!Next
----------------------------------------------------------------------------
LEMMA FileReadyToParsePromised ==
  ASSUME IInv, AnswersOK, NEW file \in Files, NEW identifiers \in Buffers,
         FileReadyToParse(file, identifiers)
  PROVE  AnswersOK' /\ PromiseStep
<1> DEFINE texts == [i \in DOMAIN identifiers |-> Stored(identifiers[i])]
<1>1. identifiers \in Seq(Names)
  BY NamesAssumption
<1>2. \A i \in DOMAIN identifiers : Stored(identifiers[i]) \in Texts
  BY <1>1, StoredIsText
<1>3. Range(texts) \ {NoName} \in SUBSET (Names \ TooLong)
  BY <1>2 DEF Range, Texts
<1>4. Put(file, texts) /\ UNCHANGED <<request, answers, asking>>
  BY DEF FileReadyToParse, Event, loop
<1>5. AnswersOK'
  BY <1>4 DEF AnswersOK
<1> HIDE DEF texts
<1> QED BY <1>3, <1>4, <1>5, KnownAfterPut, ResponsesKept, ReplaceStep

LEMMA AddSingleIdentifierPromised ==
  ASSUME IInv, AnswersOK, NEW file \in Files, NEW name \in Names \cup {NoName},
         AddSingleIdentifier(file, name)
  PROVE  AnswersOK' /\ PromiseStep
<1> DEFINE texts == CandidateSet(file)
           text == Stored(name)
           new == IF text \in Range(texts) THEN texts ELSE Append(texts, text)
<1>1. texts \in Seq(Texts) /\ text \in Texts
  BY CandidateSetType, StoredIsText DEF IInv
<1>2. Put(file, new) /\ UNCHANGED <<request, answers, asking>>
  BY DEF AddSingleIdentifier, Event, loop
<1>3. AnswersOK' /\ Responses' = Responses
  BY <1>2, ResponsesKept DEF AnswersOK
<1>4. Range(new) = Range(texts) \cup {text}
  BY <1>1, RangeOfAppend
<1>5. Known[file] = Range(texts) \ {NoName} /\ DOMAIN Known = Files
  BY DEF Known
<1> HIDE DEF texts, text, new
<1>6. Known' = [Known EXCEPT ![file] = (Range(texts) \cup {text}) \ {NoName}]
  BY <1>2, <1>4, KnownAfterPut
<1>7. CASE text = NoName
  <2>1. (Range(texts) \cup {text}) \ {NoName} = Known[file]
    BY <1>5, <1>7
  <2>2. Known' = Known
    BY <1>6, <2>1 DEF Known
  <2> QED BY <1>2, <1>3, <2>2, StutterStep
<1>8. CASE text # NoName
  <2>1. (Range(texts) \cup {text}) \ {NoName} = Known[file] \cup {text}
    BY <1>5, <1>8
  <2>2. text \in Names \ TooLong
    BY <1>1, <1>8 DEF Texts
  <2> QED BY <1>2, <1>3, <1>6, <2>1, <2>2, LearnStep
<1> QED BY <1>7, <1>8

LEMMA HandleCompletionsPromised ==
  ASSUME IInv, AnswersOK, NEW r \in Requests, NEW q \in Request, HandleCompletions(r, q)
  PROVE  AnswersOK' /\ PromiseStep
<1>1. /\ asking = NoRequest /\ request[r] = NoAnswer
      /\ request' = [request EXCEPT ![r] = q]
      /\ UNCHANGED filetype_candidate_map
  BY DEF HandleCompletions, database
<1>2. q # NoAnswer /\ answers[r] = NoAnswer
  BY <1>1, NamesAssumption DEF AnswersOK
<1>3. /\ \A o \in Requests : o # r => request'[o] = request[o]
      /\ request'[r] = q
  BY <1>1 DEF IInv, LoopOK
<1>4. Known' = Known
  BY <1>1, KnownKept
<1>5. CASE UNCHANGED answers
  <2>1. asking' = NoRequest \/ asking' = r
    BY <1>1 DEF HandleCompletions, loop, StartQuery
  <2>2. AnswersOK'
    BY <1>2, <1>3, <1>5, <2>1 DEF AnswersOK
  <2> QED BY <1>1, <1>4, <1>5, <2>2, ResponsesKept, AskStep
<1>6. CASE Respond(r, "nobody", <<>>) /\ UNCHANGED loop
  <2>1. /\ answers' \in [Requests -> Answer \cup {NoAnswer}]
        /\ \A o \in Requests : o # r => answers'[o] = answers[o]
        /\ Responses' = [Responses EXCEPT ![r] = [from |-> "nobody", names |-> Range(<<>>)]]
    BY <1>6, RespondFacts, EmptySeq
  <2>2. AnswersOK'
    BY <1>1, <1>2, <1>3, <1>6, <2>1 DEF AnswersOK, loop
  <2> QED BY <1>1, <1>4, <2>1, <2>2, EmptyRange, AskStep
<1> QED BY <1>5, <1>6 DEF HandleCompletions

LEMMA SemanticAnswersPromised ==
  ASSUME IInv, AnswersOK, NEW r \in Requests, SemanticAnswers(r)
  PROVE  AnswersOK' /\ PromiseStep
<1>1. /\ request[r] # NoAnswer /\ answers[r] = NoAnswer /\ asking = NoRequest
      /\ UNCHANGED <<filetype_candidate_map, request, asking>>
  BY DEF SemanticAnswers, Waiting, database, loop
<1>2. PICK from \in {"semantic", "nobody"} : Respond(r, from, <<>>)
  BY DEF SemanticAnswers
<1>3. /\ answers' \in [Requests -> Answer \cup {NoAnswer}]
      /\ \A o \in Requests : o # r => answers'[o] = answers[o]
      /\ Responses' = [Responses EXCEPT ![r] = [from |-> from, names |-> Range(<<>>)]]
  <2>1. from \in {"semantic", "nobody", "identifiers"} /\ <<>> \in Seq(Names)
    OBVIOUS
  <2> QED BY <1>2, <2>1, RespondFacts
<1>4. AnswersOK'
  BY <1>1, <1>3 DEF AnswersOK
<1> QED BY <1>1, <1>3, <1>4, EmptyRange, KnownKept, RespondStep

(* A query begins or goes on: IdentifierSets sees nothing of it.            *)
LEMMA QueryPromised ==
  ASSUME IInv, AnswersOK, UNCHANGED <<filetype_candidate_map, request, answers>>,
         asking' # asking => asking' \in Requests /\ answers[asking'] = NoAnswer
  PROVE  AnswersOK' /\ PromiseStep
<1>1. AnswersOK'
  BY DEF AnswersOK
<1> QED BY <1>1, KnownKept, ResponsesKept, StutterStep

LEMMA KnownOfFiletype ==
  ASSUME NEW ft \in Filetypes
  PROVE  UNION {Known[file] : file \in {ft} \X Paths} = TextsOf(ft) \ {NoName}
<1>1. \A p \in Paths : Known[<<ft, p>>] = Range(CandidateSet(<<ft, p>>)) \ {NoName}
  BY DEF Known, Files
<1>2. \A file \in {ft} \X Paths : \E p \in Paths : file = <<ft, p>>
  OBVIOUS
<1>3. \A p \in Paths : <<ft, p>> \in {ft} \X Paths
  OBVIOUS
<1>4. ASSUME NEW name, NEW file \in {ft} \X Paths, name \in Known[file]
      PROVE  name \in TextsOf(ft) \ {NoName}
  <2>1. PICK p \in Paths : file = <<ft, p>>
    BY <1>2
  <2>2. name \in Range(CandidateSet(<<ft, p>>)) /\ name # NoName
    BY <1>1, <1>4, <2>1
  <2> QED BY <2>2 DEF TextsOf
<1>5. ASSUME NEW name \in TextsOf(ft), name # NoName
      PROVE  \E file \in {ft} \X Paths : name \in Known[file]
  <2>1. PICK p \in Paths : name \in Range(CandidateSet(<<ft, p>>))
    BY DEF TextsOf
  <2>2. name \in Known[<<ft, p>>]
    BY <1>1, <1>5, <2>1
  <2> QED BY <1>3, <2>2
<1> QED BY <1>4, <1>5

LEMMA ReplyPromised ==
  ASSUME IInv, AnswersOK, Reply PROVE AnswersOK' /\ PromiseStep
<1> DEFINE r == asking
           a == request[asking]
<1>1. /\ asking # NoRequest /\ rest = <<>> /\ paths_left = {} /\ asking' = NoRequest
      /\ UNCHANGED <<filetype_candidate_map, request>>
  BY DEF Reply, database
<1>2. r \in Requests /\ a \in Request /\ a # NoAnswer /\ answers[r] = NoAnswer
      /\ results \in Seq(Names)
  BY <1>1, NamesAssumption DEF IInv, LoopOK, Progress, AnswersOK
<1>3. PICK items \in Sortings(results) : Respond(r, "identifiers", items)
  BY DEF Reply
<1>4. items \in Seq(Names) /\ Range(items) = Range(results) \ Short
  BY <1>2, <1>3, SortingsFacts
<1>5. Range(results) = (TextsOf(a.filetype) \cap Matches[a.query]) \ {NoName}
  BY <1>1, ProgressGivesResults DEF ResultsExact, query
<1>6. UNION {Known[file] : file \in {a.filetype} \X Paths} = TextsOf(a.filetype) \ {NoName}
  <2>1. a.filetype \in Filetypes
    BY <1>2 DEF Request
  <2> QED BY <2>1, KnownOfFiletype
<1>7. Range(items) = Promise!Suggestions(a)
  <2> DEFINE known == UNION {Known[file] : file \in {a.filetype} \X Paths}
             texts == TextsOf(a.filetype)
             matching == Matches[a.query]
  <2>1. Promise!Suggestions(a) = (known \cap matching) \ Short
    BY DEF Promise!Suggestions, Known
  <2>2. known = texts \ {NoName}
    BY <1>6
  <2>3. Range(results) = (texts \cap matching) \ {NoName}
    BY <1>5
  <2> HIDE DEF known, texts, matching
  <2>4. (known \cap matching) \ Short = Range(results) \ Short
    BY <2>2, <2>3
  <2> QED BY <1>4, <2>1, <2>4
<1>8. /\ answers' \in [Requests -> Answer \cup {NoAnswer}]
      /\ \A o \in Requests : o # r => answers'[o] = answers[o]
      /\ Responses' = [Responses EXCEPT ![r] = [from |-> "identifiers", names |-> Range(items)]]
  BY <1>2, <1>3, <1>4, RespondFacts
<1>9. AnswersOK'
  BY <1>1, <1>2, <1>8 DEF AnswersOK
<1> QED BY <1>1, <1>2, <1>7, <1>8, <1>9, KnownKept, RespondStep

LEMMA StepPromised == IInv /\ AnswersOK /\ [Next]_vars => AnswersOK' /\ PromiseStep
<1> SUFFICES ASSUME IInv, AnswersOK, [Next]_vars PROVE AnswersOK' /\ PromiseStep
  OBVIOUS
<1>1. CASE UNCHANGED vars
  BY <1>1, QueryPromised DEF vars
<1>2. ASSUME NEW file \in Files, NEW identifiers \in Buffers,
             FileReadyToParse(file, identifiers)
      PROVE  AnswersOK' /\ PromiseStep
  BY <1>2, FileReadyToParsePromised
<1>3. ASSUME NEW file \in Files, NEW name \in Names \cup {NoName},
             AddSingleIdentifier(file, name)
      PROVE  AnswersOK' /\ PromiseStep
  BY <1>3, AddSingleIdentifierPromised
<1>4. ASSUME NEW r \in Requests, NEW q \in Request, HandleCompletions(r, q)
      PROVE  AnswersOK' /\ PromiseStep
  BY <1>4, HandleCompletionsPromised
<1>5. ASSUME NEW r \in Requests, SemanticAnswers(r) PROVE AnswersOK' /\ PromiseStep
  BY <1>5, SemanticAnswersPromised
<1>6. ASSUME NEW r \in Requests, SemanticHasNothing(r) PROVE AnswersOK' /\ PromiseStep
  BY <1>6, QueryPromised DEF SemanticHasNothing, Waiting, StartQuery, database, loop
<1>7. ASSUME NEW p \in Paths, NextPath(p) PROVE AnswersOK' /\ PromiseStep
  BY <1>7, QueryPromised DEF NextPath, database
<1>8. CASE Skip \/ Take
  BY <1>8, QueryPromised DEF Skip, Take, Pass, database
<1> QED BY <1>1, <1>2, <1>3, <1>4, <1>5, <1>6, <1>7, <1>8, ReplyPromised DEF Next

(* The database and the handler implement IdentifierSets: an answer made    *)
(* of identifiers is exactly what is known, matches and is long enough at   *)
(* the moment it is given, although events of other sessions are handled    *)
(* between the request and the query.                                       *)
THEOREM ImplementsPromise == Spec => PromiseHolds
<1>1. Init => Promise!Init
  <2> SUFFICES ASSUME Init PROVE Promise!Init
    OBVIOUS
  <2>1. \A file : CandidateSet(file) = <<>>
    BY DEF Init, NoFunction, CandidateSet
  <2> QED BY <2>1, EmptyRange DEF Init, Promise!Init, Files
<1>2. Init => IInv /\ AnswersOK
  BY InitHolds DEF Init, AnswersOK
<1>3. IInv /\ AnswersOK /\ [Next]_vars => IInv' /\ AnswersOK' /\ PromiseStep
  BY StepHolds, StepPromised
<1> QED BY <1>1, <1>2, <1>3, PTL DEF Spec, PromiseHolds, Promise!Spec, PromiseStep
=============================================================================
