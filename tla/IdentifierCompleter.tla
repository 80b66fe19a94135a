------------------------- MODULE IdentifierCompleter -------------------------
(***************************************************************************)
(* Completion from identifiers: the events that teach the identifier       *)
(* database (general/identifier_completer.cpp, IdentifierDatabase.cpp),    *)
(* and handle_completions (handlers.cpp), which falls back to it when the  *)
(* semantic completer has nothing.  The fallback runs after an await:      *)
(* events of other sessions are handled in between.                        *)
(*                                                                         *)
(* How a name matches a query and which of two results ranks first are     *)
(* constants here; Matching and Ranking model them.                        *)
(***************************************************************************)
EXTENDS Integers, Sequences, Functions, FiniteSets

CONSTANTS
  Filetypes, Paths, Names, Requests, Queries,
  Buffers,       \* the identifiers of a text, in order and with repetitions
  TooLong,       \* the names of more than 80 bytes
  Short,         \* the names of at most min_num_identifier_candidate_chars
  ShortQueries,  \* the queries below min_num_of_chars_for_completion
  CutQueries,    \* the queries that are not whole characters
  Semantic,      \* the filetypes with a semantic completer
  Matches,       \* Matches[q]: the names that contain the query's bytes and match
  Rank,          \* Rank[q][name]: its place among the results for q
  NoName,        \* ""
  NoAnswer, NoRequest,
  MaxEvents      \* bound on the number of events

Files == Filetypes \X Paths
Texts == (Names \ TooLong) \cup {NoName}
Request == [filetype : Filetypes, query : Queries, force_semantic : BOOLEAN]
Answer == [from : {"semantic", "nobody", "identifiers"}, items : Seq(Names)]

ASSUME NamesAssumption ==
  /\ NoName \notin Names
  /\ NoRequest \notin Requests
  /\ NoAnswer \notin Request /\ NoAnswer \notin Answer
  /\ Buffers \subseteq Seq(Names)
  /\ Matches \in [Queries -> SUBSET Names]
  /\ ShortQueries \subseteq Queries /\ CutQueries \subseteq Queries

VARIABLES
  filetype_candidate_map,   \* (filetype, path) -> the candidates' texts
  events,                   \* how many events were handled
  request, answers,         \* the completion requests and their responses
  asking,                   \* whose request ResultsForQueryAndType works on
  paths_left, rest,         \* the loops over paths and candidates
  seen_candidates, results,
  aborted                   \* an exception of a handler has ended the process

database == <<filetype_candidate_map, events>>
loop == <<asking, paths_left, rest, seen_candidates, results>>
vars == <<filetype_candidate_map, events, request, answers, asking, paths_left, rest,
          seen_candidates, results, aborted>>

(* Repository::GetElements replaces an overlong text by the empty one.      *)
Stored(name) == IF name \in TooLong THEN NoName ELSE name

(* Mutant: GetCandidateSet forgets the other paths of the filetype.         *)
PutAlone(file, texts) ==
  filetype_candidate_map' =
    [f \in {g \in DOMAIN filetype_candidate_map : g[1] # file[1]} \cup {file} |->
       IF f = file THEN texts ELSE filetype_candidate_map[f]]

(* GetCandidateSet creates the entries it does not find.                    *)
Put(file, texts) ==
  filetype_candidate_map' =
    [f \in DOMAIN filetype_candidate_map \cup {file} |->
       IF f = file THEN texts ELSE filetype_candidate_map[f]]

CandidateSet(file) ==
  IF file \in DOMAIN filetype_candidate_map THEN filetype_candidate_map[file] ELSE <<>>

NoFunction == [f \in {} |-> <<>>]

Init ==
  /\ filetype_candidate_map = NoFunction
  /\ events = 0
  /\ request = [r \in Requests |-> NoAnswer]
  /\ answers = [r \in Requests |-> NoAnswer]
  /\ asking = NoRequest
  /\ paths_left = {} /\ rest = <<>>
  /\ seen_candidates = {} /\ results = <<>>
  /\ aborted = FALSE
----------------------------------------------------------------------------
(* Everything runs on one thread and the query has no suspension: no event *)
(* is handled while it runs.                                               *)
Event ==
  /\ asking = NoRequest
  /\ events < MaxEvents
  /\ events' = events + 1
  /\ UNCHANGED <<request, answers, loop, aborted>>

(* FileReadyToParse: RecreateIdentifiers.                                   *)
FileReadyToParse(file, identifiers) ==
  /\ Event
  /\ Put(file, [i \in DOMAIN identifiers |-> Stored(identifiers[i])])

(* InsertLeave, CurrentIdentifierFinished: AddSingleIdentifier of the       *)
(* identifier under or before the cursor, "" if there is none.              *)
AddSingleIdentifier(file, name) ==
  /\ Event
  /\ LET texts == CandidateSet(file)
     IN  Put(file, IF Stored(name) \in Range(texts) THEN texts
                   ELSE Append(texts, Stored(name)))
----------------------------------------------------------------------------
Respond(r, from, items) ==
  answers' = [answers EXCEPT ![r] = [from |-> from, items |-> items]]

PathsOf(filetype) == {p \in Paths : <<filetype, p>> \in DOMAIN filetype_candidate_map}

(* The start of ResultsForQueryAndType.  Nothing is found for a filetype    *)
(* that is not in the map; for others Word(query) throws if the query is    *)
(* cut inside a character.                                                  *)
StartQuery(r, q) ==
  \/ /\ PathsOf(q.filetype) = {} \/ q.query \notin CutQueries
     /\ asking' = r
     /\ paths_left' = PathsOf(q.filetype)
     /\ rest' = <<>> /\ seen_candidates' = {} /\ results' = <<>>
     /\ UNCHANGED aborted
  \/ /\ PathsOf(q.filetype) # {} /\ q.query \in CutQueries
     /\ aborted' = TRUE
     /\ UNCHANGED loop

(* handle_completions up to its first suspension, for a cursor on its line  *)
(* and complete options (Handlers has the others).                          *)
HandleCompletions(r, q) ==
  /\ asking = NoRequest
  /\ request[r] = NoAnswer
  /\ request' = [request EXCEPT ![r] = q]
  /\ \/ /\ ~q.force_semantic /\ q.query \in ShortQueries
        /\ Respond(r, "nobody", <<>>)
        /\ UNCHANGED <<loop, aborted>>
     \/ /\ q.force_semantic \/ q.query \notin ShortQueries
        /\ q.filetype \in Semantic
        /\ UNCHANGED <<answers, loop, aborted>>
     \/ /\ q.force_semantic
        /\ q.filetype \notin Semantic
        /\ Respond(r, "nobody", <<>>)
        /\ UNCHANGED <<loop, aborted>>
     \/ /\ ~q.force_semantic /\ q.query \notin ShortQueries
        /\ q.filetype \notin Semantic
        /\ StartQuery(r, q)
        /\ UNCHANGED answers
  /\ UNCHANGED database

Waiting(r) == request[r] # NoAnswer /\ answers[r] = NoAnswer /\ asking = NoRequest

(* compute_candiatdes of the semantic completer returns.                    *)
SemanticAnswers(r) ==
  /\ Waiting(r)
  /\ \E from \in {"semantic", "nobody"} :
       /\ from = "nobody" => request[r].force_semantic
       /\ Respond(r, from, <<>>)
  /\ UNCHANGED <<database, request, loop, aborted>>

SemanticHasNothing(r) ==
  /\ Waiting(r)
  /\ ~request[r].force_semantic
  /\ StartQuery(r, request[r])
  /\ UNCHANGED <<database, request, answers>>
----------------------------------------------------------------------------
query == request[asking].query

(* The map is unordered: the next path is any of those left.                *)
NextPath(p) ==
  /\ asking # NoRequest /\ rest = <<>>
  /\ p \in paths_left
  /\ paths_left' = paths_left \ {p}
  /\ rest' = filetype_candidate_map[<<request[asking].filetype, p>>]
  /\ UNCHANGED <<database, request, answers, asking, seen_candidates, results, aborted>>

Pass ==
  /\ rest # <<>>
  /\ rest' = Tail(rest)
  /\ seen_candidates' = seen_candidates \cup {Head(rest)}
  /\ UNCHANGED <<database, request, answers, asking, paths_left, aborted>>

(* Mutant: the candidate is compared with the query before it is looked up.  *)
WantedAgain(text) == text # NoName /\ text \in Matches[query]

Wanted(text) ==
  text \notin seen_candidates /\ text # NoName /\ text \in Matches[query]

Skip == Pass /\ ~Wanted(Head(rest)) /\ UNCHANGED results

Take == Pass /\ Wanted(Head(rest)) /\ results' = Append(results, Head(rest))

LongEnough(name) == name \notin Short

(* PartialSort is not stable: any order of the results that no pair         *)
(* contradicts, of which those long enough are kept.                        *)
Sortings(s) ==
  LET kept == {i \in DOMAIN s : LongEnough(s[i])}
      ranks == 1..Cardinality(kept)
  IN  {t \in {[i \in ranks |-> s[f[i]]] : f \in Bijection(ranks, kept)} :
         \A i, j \in ranks : i < j => Rank[query][t[i]] <= Rank[query][t[j]]}

Reply ==
  /\ asking # NoRequest /\ rest = <<>> /\ paths_left = {}
  /\ \E items \in Sortings(results) : Respond(asking, "identifiers", items)
  /\ asking' = NoRequest
  /\ seen_candidates' = {} /\ results' = <<>>
  /\ UNCHANGED <<database, request, paths_left, rest, aborted>>

Next ==
  /\ ~aborted
  /\ \/ \E file \in Files :
          \/ \E identifiers \in Buffers : FileReadyToParse(file, identifiers)
          \/ \E name \in Names \cup {NoName} : AddSingleIdentifier(file, name)
     \/ \E r \in Requests :
          \/ \E q \in Request : HandleCompletions(r, q)
          \/ SemanticAnswers(r) \/ SemanticHasNothing(r)
     \/ \E p \in Paths : NextPath(p)
     \/ Skip \/ Take \/ Reply

Spec == Init /\ [][Next]_vars
----------------------------------------------------------------------------
(* The texts of all files of a filetype.                                    *)
TextsOf(filetype) ==
  UNION {Range(CandidateSet(<<filetype, p>>)) : p \in Paths}

(* When the loops end, the results are the matching names of the filetype's *)
(* files, each once: repetitions in a text, the same name in several files  *)
(* and the order of the map do not show.                                    *)
ResultsExact ==
  (asking # NoRequest /\ rest = <<>> /\ paths_left = {}) =>
    /\ Range(results) = (TextsOf(request[asking].filetype) \cap Matches[query]) \ {NoName}
    /\ IsInjective(results)

(* The database and the handler do what IdentifierSets promises.  The       *)
(* empty text stands for no name.                                           *)
Promise == INSTANCE IdentifierSets WITH
  Names <- Names \ TooLong,
  known <- [file \in Files |-> Range(CandidateSet(file)) \ {NoName}],
  asked <- request,
  answer <- [r \in Requests |->
               IF answers[r] = NoAnswer THEN NoAnswer
               ELSE [from |-> answers[r].from, names |-> Range(answers[r].items)]]

PromiseHolds == Promise!Spec
=============================================================================
