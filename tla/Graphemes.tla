------------------------------ MODULE Graphemes ------------------------------
(***************************************************************************)
(* BreakCodePointsIntoCharacters (src/src/core/Word.cpp): the loop that    *)
(* breaks the code points of a word into characters (grapheme clusters).   *)
(* The loop looks at the break properties of two neighbours and carries    *)
(* two flags along; the rules of UAX #29, which its comments cite, speak   *)
(* of the whole text.  A code point is its break property here, and the    *)
(* characters are given by the positions where one starts.                 *)
(***************************************************************************)
EXTENDS Integers, Sequences

BreakProperty == {"OTHER", "CR", "LF", "CONTROL", "EXTEND", "ZWJ", "RI", "PREPEND",
                  "SPACINGMARK", "L", "V", "T", "LV", "LVT", "EXTPICT"}

CONSTANT Texts   \* the words: sequences of break properties

ASSUME TextsAssumption == Texts \subseteq Seq(BreakProperty)

VARIABLES
  code_points,   \* the word
  pos,           \* code_point_pos; the one before it is previous_code_point_pos
  is_regional_indicator_nb_odd,
  within_emoji_modifier,
  starts         \* where the characters start

breakVars == <<code_points, pos, is_regional_indicator_nb_odd, within_emoji_modifier,
               starts>>

BreakInit ==
  /\ code_points \in Texts
  /\ pos = 2
  /\ is_regional_indicator_nb_odd = FALSE
  /\ within_emoji_modifier = FALSE
  /\ starts = {i \in {1} : code_points # <<>>}

previous_property == code_points[pos - 1]
property == code_points[pos]

Extending == {"EXTEND", "ZWJ", "SPACINGMARK"}
Controls == {"CONTROL", "CR", "LF"}

(* The properties that continue a character after p whatever the flags say. *)
JoinedBy(p) ==
  CASE p = "CR" -> {"LF"}
    [] p \in {"CONTROL", "LF"} -> {}
    [] p = "L" -> {"L", "V", "LV", "LVT"} \cup Extending
    [] p \in {"LV", "V"} -> {"V", "T"} \cup Extending
    [] p \in {"LVT", "T"} -> {"T"} \cup Extending
    [] p = "PREPEND" -> BreakProperty \ Controls
    [] OTHER -> Extending

(* The flag counts the regional indicators of a run, modulo 2; everything  *)
(* that follows the run resets it.                                         *)
OddAfter ==
  IF previous_property = "RI"
  THEN property = "RI" /\ ~is_regional_indicator_nb_odd
  ELSE is_regional_indicator_nb_odd

(* Mutant: the flag survives a joiner that follows a joiner.                *)
WithinAfterKept ==
  CASE previous_property = "EXTPICT" ->
         property \in {"EXTEND", "ZWJ"} \/ within_emoji_modifier
    [] previous_property \in {"EXTEND", "ZWJ"} ->
         property \in {"EXTEND", "ZWJ"} /\ within_emoji_modifier
    [] OTHER -> within_emoji_modifier

(* Set after a pictograph, kept through extending characters and the first *)
(* joiner, reset by whatever follows.                                      *)
WithinAfter ==
  CASE previous_property = "EXTPICT" ->
         property \in {"EXTEND", "ZWJ"} \/ within_emoji_modifier
    [] previous_property = "EXTEND" ->
         property \in {"EXTEND", "ZWJ"} /\ within_emoji_modifier
    [] previous_property = "ZWJ" -> FALSE
    [] OTHER -> within_emoji_modifier

Continues ==
  \/ property \in JoinedBy(previous_property)
  \/ previous_property = "ZWJ" /\ property = "EXTPICT" /\ within_emoji_modifier
  \/ previous_property = "RI" /\ property = "RI" /\ OddAfter

Running == pos <= Len(code_points)

(* One iteration: the code point is appended to the character, or the      *)
(* character is complete and the code point starts the next one.           *)
Iterate ==
  /\ Running
  /\ starts' = IF Continues THEN starts ELSE starts \cup {pos}
  /\ pos' = pos + 1
  /\ is_regional_indicator_nb_odd' = OddAfter
  /\ within_emoji_modifier' = WithinAfter
  /\ UNCHANGED code_points

BreakSpec == BreakInit /\ [][Iterate]_breakVars
----------------------------------------------------------------------------
(* UAX #29: no boundary between positions i - 1 and i of text t.           *)

(* GB3, GB6 to GB9b *)
Joined(a, b) ==
  \/ a = "CR" /\ b = "LF"
  \/ a = "L" /\ b \in {"L", "V", "LV", "LVT"}
  \/ a \in {"LV", "V"} /\ b \in {"V", "T"}
  \/ a \in {"LVT", "T"} /\ b = "T"
  \/ a \notin Controls /\ b \in {"EXTEND", "ZWJ", "SPACINGMARK"}
  \/ a = "PREPEND" /\ b \notin Controls

(* GB11: a pictograph, extending characters, a joiner, a pictograph *)
Emoji(t, i) ==
  /\ t[i] = "EXTPICT" /\ t[i - 1] = "ZWJ"
  /\ \E j \in 1..(i - 2) : /\ t[j] = "EXTPICT"
                           /\ \A k \in (j + 1)..(i - 2) : t[k] = "EXTEND"

(* A run of regional indicators that starts at j and reaches i - 1 *)
RunFrom(t, j, i) ==
  /\ \A k \in j..(i - 1) : t[k] = "RI"
  /\ j > 1 => t[j - 1] # "RI"

(* GB12, GB13: an odd number of regional indicators before the break point *)
Flag(t, i) ==
  /\ t[i] = "RI"
  /\ \E j \in 1..(i - 1) : RunFrom(t, j, i) /\ (i - j) % 2 = 1

NoBoundary(t, i) == Joined(t[i - 1], t[i]) \/ Emoji(t, i) \/ Flag(t, i)

Boundaries(t, n) == {i \in 1..n : i > 1 => ~NoBoundary(t, i)}

(* The shapes of the loop's state.                                         *)
TypeOK ==
  /\ code_points \in Seq(BreakProperty)
  /\ pos \in Nat /\ pos >= 2
  /\ pos <= Len(code_points) + 1 \/ (pos = 2 /\ code_points = <<>>)
  /\ is_regional_indicator_nb_odd \in BOOLEAN
  /\ within_emoji_modifier \in BOOLEAN
  /\ starts \subseteq 1..(pos - 1)

(* How many code points the loop has dealt with.                           *)
Passed == IF code_points = <<>> THEN 0 ELSE pos - 1

(* However long the sequences of joiners, pictographs and regional         *)
(* indicators are, the loop's two flags are enough: the code points it has *)
(* passed are broken where UAX #29 breaks them.                            *)
BreaksFollowRules == starts = Boundaries(code_points, Passed)
============================================================================
