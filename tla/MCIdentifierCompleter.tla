------------------------ MODULE MCIdentifierCompleter ------------------------
(* A filetype with and one without a semantic completer, two paths, names   *)
(* of which one is too long and one too short; texts with repetitions.      *)
EXTENDS IdentifierCompleter, TLC

CONSTANTS ab, abc, b, long

SomeBuffers == {<<>>, <<abc, ab, abc>>, <<b, long, ab>>}
SomeMatches == ("" :> {ab, abc, b}) @@ ("a" :> {ab, abc}) @@ ("b" :> {ab, abc, b})
               @@ ("cut" :> {})

(* "a" ranks ab before abc; b comes first for "b".                          *)
SomeRanks ==
  [q \in {"", "a", "b", "cut"} |->
     (ab :> 2) @@ (abc :> 3) @@ (b :> IF q = "b" THEN 1 ELSE 4) @@ (long :> 5)]
============================================================================
