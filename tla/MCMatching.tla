----------------------------- MODULE MCMatching -----------------------------
(* Queries up to three and candidates up to four characters over plain and  *)
(* marked letters in both cases, another letter and the underscore.         *)
EXTENDS Matching

Plain(l) == [letter |-> l, mark |-> NoMark, upper |-> FALSE]
Upper(l) == [letter |-> l, mark |-> NoMark, upper |-> TRUE]
Acute(l) == [letter |-> l, mark |-> "acute", upper |-> FALSE]
AcuteUpper(l) == [letter |-> l, mark |-> "acute", upper |-> TRUE]

UpTo(S, n) == UNION {[1..k -> S] : k \in 0..n}

SomeQueries == UpTo({Plain("e"), Upper("e"), Acute("e"), Plain("a")}, 3)
               \cup UpTo({AcuteUpper("e"), Upper("e")}, 2)
SomeTexts == UpTo({Plain("e"), Upper("e"), AcuteUpper("e"), Plain("a"), Plain("_")}, 4)
             \cup UpTo({Acute("e"), AcuteUpper("e"), Plain("a"), Plain("_")}, 3)
============================================================================
