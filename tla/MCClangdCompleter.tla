-------------------------- MODULE MCClangdCompleter --------------------------
(* Instances of ClangdCompleter for TLC.                                     *)
EXTENDS ClangdCompleter, TLC

CONSTANTS f1, f2, f3, c1, c2

Ev(kind, files) == [kind |-> kind, files |-> files]

(* Events and completions over three files, with an edit of f1.             *)
ThreeFiles ==
  {Ev("FileReadyToParse", f1 :> c1),
   Ev("FileReadyToParse", f1 :> c2 @@ f2 :> c1),
   Ev("OtherEvent", f1 :> c1),
   Ev("Completion", f2 :> c1), Ev("Completion", f3 :> c1)}

(* Enough sessions to close a file and open it again while others edit it.  *)
OpenCloseEdit ==
  {Ev("FileReadyToParse", f1 :> c1), Ev("FileReadyToParse", f1 :> c2),
   Ev("FileReadyToParse", f2 :> c1)}

Nothing == Ev("None", [f \in {} |-> c1])
AllRequests == ThreeFiles \cup OpenCloseEdit \cup {Nothing}

(* Every session gets any request of the first kind.                        *)
Mixed == [Sessions -> ThreeFiles]

(* Four sessions open, edit and close; or three of them overlap with        *)
(* events and completions of more kinds.                                    *)
Overlaps ==
  [Sessions -> OpenCloseEdit] \cup
  {w \in [Sessions -> ThreeFiles \cup {Nothing}] :
     Cardinality({s \in Sessions : w[s] = Nothing}) = 1}

SessionSymmetry == Permutations(Sessions)
============================================================================
