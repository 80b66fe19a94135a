----------------------------- MODULE MCRanking -----------------------------
(* Lists of up to three identifiers in the styles that the order tells apart*)
EXTENDS Ranking

a == [letter |-> "a", mark |-> NoMark, upper |-> FALSE]
b == [letter |-> "b", mark |-> NoMark, upper |-> FALSE]
c == [letter |-> "c", mark |-> NoMark, upper |-> FALSE]
A == [a EXCEPT !.upper = TRUE]
B == [b EXCEPT !.upper = TRUE]
C == [c EXCEPT !.upper = TRUE]
under == [a EXCEPT !.letter = "_"]

SomeQueries == {<<>>, <<a>>, <<a, b>>, <<a, b, c>>}

Identifiers ==
  {<<>>, <<a>>, <<A>>, <<a, b>>, <<A, b>>, <<a, B>>, <<A, B>>, <<a, b, c>>, <<a, B, c>>,
   <<a, b, b>>, <<a, c, b>>, <<b, a, b>>, <<b, A, b>>, <<under, a, b>>, <<a, under, b>>, <<a, under, a>>,
   <<a, b, under, c>>, <<a, B, a, c>>, <<a, c, B, c>>, <<b, under, a, B>>}

Longest == {<<a, c, B, c>>}

SomeLists == UNION {[1..n -> Identifiers] : n \in 0..3}

LowerFirst ==
  [ch \in Character |->
     CASE ch.letter = "_" -> 4
       [] OTHER -> (CASE ch.letter = "a" -> 1 [] ch.letter = "b" -> 2 [] OTHER -> 3)
                   + (IF ch.upper THEN 4 ELSE 0)]
============================================================================
