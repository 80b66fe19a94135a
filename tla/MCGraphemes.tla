----------------------------- MODULE MCGraphemes -----------------------------
(* All words up to a length over the properties a rule with a flag is about,*)
(* and shorter ones over all properties.                                   *)
EXTENDS Graphemes

UpTo(S, n) == UNION {[1..k -> S] : k \in 0..n}

Words == UpTo(BreakProperty, 3) \cup
         UpTo({"RI", "EXTPICT", "ZWJ", "EXTEND", "OTHER"}, 6)
============================================================================
