-------------------------- MODULE MCRequestColumns --------------------------
(* Lines up to length 5 of one- and two-byte letters, digits and spaces.    *)
EXTENDS RequestColumns

SomeChars == {[kind |-> "letter", width |-> 1], [kind |-> "letter", width |-> 2],
              [kind |-> "digit", width |-> 1], [kind |-> "other", width |-> 1]}

ShortLines == UNION {[1..n -> SomeChars] : n \in 0..5}
============================================================================
