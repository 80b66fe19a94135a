--------------------------- MODULE IdentifierSets ---------------------------
(***************************************************************************)
(* What identifier completion promises: a set of names for each file, and  *)
(* for each completion request one answer, made from the sets as they are  *)
(* at one moment between the request and its response.                     *)
(***************************************************************************)
CONSTANTS Filetypes, Paths, Names, Requests,
          Queries,    \* what can be typed before the cursor
          Matches,    \* Matches[q]: the names that match query q
          Short,      \* the names too short to be shown
          NoAnswer

VARIABLES known,   \* the names of each file, by filetype and path
          asked,   \* the requests so far
          answer   \* who answered each, with which names

vars == <<known, asked, answer>>

Asked == [filetype : Filetypes, query : Queries, force_semantic : BOOLEAN]

Init ==
  /\ known = [file \in Filetypes \X Paths |-> {}]
  /\ asked = [r \in Requests |-> NoAnswer]
  /\ answer = [r \in Requests |-> NoAnswer]

(* The file's names become those of its text.                              *)
Replace(file, S) ==
  /\ known' = [known EXCEPT ![file] = S]
  /\ UNCHANGED <<asked, answer>>

(* The name at the cursor is learnt.                                       *)
Learn(file, name) ==
  /\ known' = [known EXCEPT ![file] = @ \cup {name}]
  /\ UNCHANGED <<asked, answer>>

(* A request may be declined at once.                                      *)
Ask(r) ==
  /\ asked[r] = NoAnswer
  /\ \E a \in Asked : asked' = [asked EXCEPT ![r] = a]
  /\ answer' \in {answer, [answer EXCEPT ![r] = [from |-> "nobody", names |-> {}]]}
  /\ UNCHANGED known

Suggestions(a) ==
  LET names == UNION {known[file] : file \in {a.filetype} \X Paths}
  IN  (names \cap Matches[a.query]) \ Short

(* The answer comes from the language server, from nobody, or is exactly   *)
(* what is known now.                                                      *)
Respond(r) ==
  /\ asked[r] # NoAnswer /\ answer[r] = NoAnswer
  /\ \/ \E from \in {"semantic", "nobody"} :
          answer' = [answer EXCEPT ![r] = [from |-> from, names |-> {}]]
     \/ answer' = [answer EXCEPT ![r] =
                     [from |-> "identifiers", names |-> Suggestions(asked[r])]]
  /\ UNCHANGED <<known, asked>>

Next ==
  \/ \E file \in Filetypes \X Paths :
       \/ \E S \in SUBSET Names : Replace(file, S)
       \/ \E name \in Names : Learn(file, name)
  \/ \E r \in Requests : Ask(r) \/ Respond(r)

Spec == Init /\ [][Next]_vars
=============================================================================
