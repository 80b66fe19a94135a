--------------------------- MODULE RequestColumns ---------------------------
(***************************************************************************)
(* What a request's cursor means on its line: the columns and the query of *)
(* RequestWrapper (src/src/request_wrap.cpp) and the identifiers around    *)
(* the cursor (src/src/identifier_utils.cpp).  A request gives a 1-based   *)
(* BYTE offset; ycmd computes in code points and converts back to bytes.   *)
(*                                                                         *)
(* A character is what the identifier regex [^\W\d]\w* tells apart, and    *)
(* the number of bytes of its UTF-8 encoding.  The search for the start of *)
(* the identifier is a loop, so it is modelled step by step.               *)
(***************************************************************************)
EXTENDS Integers, Sequences

CharKinds == {"letter", "digit", "other"}

CONSTANTS
  Lines   \* the lines: sequences of characters [kind, width]

Char == [kind : CharKinds, width : 1..4]

ASSUME LinesAssumption == Lines \subseteq Seq(Char)

VARIABLES
  line,              \* line_value: the code points of the line
  cursor,            \* code points before the cursor
  start,             \* the loop's 0-based start, -1 before the loop
  start_codepoint    \* what it returns, 0 until then

vars == <<line, cursor, start, start_codepoint>>

(* The line as it lies in memory: followed by its newline or the NUL.      *)
Terminator == [kind |-> "other", width |-> 1]
Memory == Append(line, Terminator)

(* Bytes before code point i + 1 of the line.                              *)
Bytes(i) ==
  LET sum[k \in 0..i] == IF k = 0 THEN 0 ELSE sum[k - 1] + Memory[k].width
  IN  sum[i]

column_num == Bytes(cursor) + 1

(* count_as_decoded of the first column_num BYTES: the code point at the   *)
(* cursor is counted although only its first byte is there.                *)
column_codepoint ==
  LET Begun == {i \in 1..Len(Memory) : Bytes(i - 1) < column_num}
  IN  CHOOSE n \in Begun : \A i \in Begun : i <= n

end == column_codepoint - 1

Init ==
  /\ line \in Lines
  /\ cursor \in 0..Len(line)
  /\ start = -1
  /\ start_codepoint = 0

Word(c) == c.kind \in {"letter", "digit"}

(* boost::u32regex_match of the code points from..to (1-based).            *)
IsIdentifier(from, to) ==
  /\ from <= to
  /\ line[from].kind = "letter"
  /\ \A i \in from..to : Word(line[i])
----------------------------------------------------------------------------
(* StartOfLongestIdentifierEndingAt.                                       *)
Computing == start_codepoint = 0

NothingBefore ==
  /\ Computing /\ start = -1
  /\ end <= 0
  /\ start_codepoint' = 1
  /\ UNCHANGED <<line, cursor, start>>

Begin ==
  /\ Computing /\ start = -1
  /\ end > 0
  /\ start' = end - 1
  /\ UNCHANGED <<line, cursor, start_codepoint>>

(* Mutant: one character too many is taken.                                *)
FirstNonIdentifierKept ==
  /\ Computing /\ start >= 0
  /\ ~IsIdentifier(start + 1, end)
  /\ start_codepoint' = start + 1
  /\ UNCHANGED <<line, cursor, start>>

(* "this is the first non-identifier character"                            *)
FirstNonIdentifier ==
  /\ Computing /\ start >= 0
  /\ ~IsIdentifier(start + 1, end)
  /\ start_codepoint' = start + 2
  /\ UNCHANGED <<line, cursor, start>>

LineBegins ==
  /\ Computing /\ start = 0
  /\ IsIdentifier(start + 1, end)
  /\ start_codepoint' = 1
  /\ UNCHANGED <<line, cursor, start>>

GoLeft ==
  /\ Computing /\ start > 0
  /\ IsIdentifier(start + 1, end)
  /\ start' = start - 1
  /\ UNCHANGED <<line, cursor, start_codepoint>>

Next == NothingBefore \/ Begin \/ FirstNonIdentifier \/ LineBegins \/ GoLeft

Spec == Init /\ [][Next]_vars
----------------------------------------------------------------------------
(* The remaining fields, once start_codepoint is known.                    *)

(* Mutant: the prefix ends before the cursor's identifier.                  *)
StartColumnOfPrefix == Bytes(start_codepoint - 1)

(* count_as_encoded of a prefix of start_codepoint code points: it includes *)
(* the character the identifier starts with.                                *)
start_column == Bytes(start_codepoint)

(* query(): line_value().substr(start_codepoint - 1, ...), as positions     *)
query == start_codepoint..(column_codepoint - 1)

(* query_bytes(): line_bytes().substr(start_column - 1, column_num -        *)
(* start_column), as 0-based byte offsets.  The length is unsigned: below   *)
(* zero it wraps around and substr gives the rest of the line.              *)
query_bytes ==
  IF start_column <= column_num
  THEN (start_column - 1)..(column_num - 2)
  ELSE (start_column - 1)..(Bytes(Len(line)) - 1)
----------------------------------------------------------------------------
(* What the regex finds in the line, leftmost and greedy.                   *)
Matches ==
  {m \in (1..Len(line)) \X (1..Len(line)) :
     /\ IsIdentifier(m[1], m[2])
     /\ m[2] < Len(line) => ~Word(line[m[2] + 1])
     /\ \A i \in 1..(m[1] - 1) :
          (\A k \in i..(m[1] - 1) : Word(line[k])) => line[i].kind = "digit"}

index == column_num - 1
EndOf(m) == Bytes(m[2])

(* Mutant: the identifier at the cursor must begin before it.               *)
UnderCursorStrict ==
  {m \in Matches : EndOf(m) > index /\ Bytes(m[1] - 1) < index}

(* The first match that ends after the cursor: {} if there is none.         *)
IdentifierUnderCursor ==
  {m \in Matches : /\ EndOf(m) > index
                   /\ \A o \in Matches : EndOf(o) > index => m[1] <= o[1]}

(* Mutant: an identifier that ends at the cursor does not count.            *)
BeforeCursorStrict ==
  {m \in Matches : /\ EndOf(m) < index
                   /\ \A o \in Matches : EndOf(o) < index => o[1] <= m[1]}

(* The last match that ends at or before the cursor.                        *)
IdentifierBeforeCursor ==
  {m \in Matches : /\ EndOf(m) <= index
                   /\ \A o \in Matches : EndOf(o) <= index => o[1] <= m[1]}
----------------------------------------------------------------------------
Known == start_codepoint > 0

(* The completion of what was typed starts at an identifier: the query is  *)
(* empty or an identifier, lies before the cursor, and is the longest      *)
(* identifier that ends there, as long as that has no digit.               *)
QueryIsIdentifier ==
  Known =>
    /\ start_codepoint <= cursor + 1
    /\ start_codepoint <= cursor => IsIdentifier(start_codepoint, cursor)
    /\ \A s \in 1..cursor :
         (IsIdentifier(s, cursor) /\ \A i \in s..cursor : line[i].kind = "letter") =>
           start_codepoint <= s

(* Bytes and code points describe the same query, as long as the query     *)
(* starts with a one-byte character.                                       *)
BytesAgree ==
  (Known /\ (start_codepoint <= Len(line) => line[start_codepoint].width = 1)) =>
    query_bytes = Bytes(start_codepoint - 1)..(Bytes(cursor) - 1)

(* What is typed and what is learnt agree: when the cursor is at the end   *)
(* of a word, the identifier that CurrentIdentifierFinished learns ends    *)
(* with the query.                                                         *)
LearnsWhatWasTyped ==
  (Known /\ start_codepoint <= cursor
         /\ (cursor < Len(line) => ~Word(line[cursor + 1]))) =>
    \E m \in IdentifierBeforeCursor : m[1] <= start_codepoint /\ m[2] = cursor

(* What CurrentIdentifierFinished and InsertLeave learn at one cursor are  *)
(* different identifiers with nothing between them, and a line that has an *)
(* identifier is never without both.                                       *)
CursorBetween ==
  /\ \A b \in IdentifierBeforeCursor, u \in IdentifierUnderCursor :
       /\ b[2] < u[1]
       /\ \A m \in Matches : m[1] <= b[1] \/ u[1] <= m[1]
  /\ Matches # {} => IdentifierBeforeCursor \cup IdentifierUnderCursor # {}
============================================================================
