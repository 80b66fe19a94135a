------------------------------ MODULE LspReader ------------------------------
(***************************************************************************)
(* lsp::read_message (src/src/lsp/comms.cpp): the generator that turns the *)
(* bytes of clangd's stdout into messages.  The bytes arrive in pieces of  *)
(* any size; async_read_until may read beyond the line it looks for, and   *)
(* what it read too much stays in `buf`.                                   *)
(*                                                                         *)
(* The bytes clangd writes are numbered from 1; `buf` is the window        *)
(* consumed+1 .. received of them.  A cell is a byte of a message, or a    *)
(* token of a header line.                                                 *)
(***************************************************************************)
EXTENDS Integers, Sequences, FiniteSets

CONSTANTS
  Streams,     \* what clangd may write, see StreamsAssumption
  JsonTexts    \* the texts json::parse accepts

(* LENGTH is the name content-length in any case, HUGE a number that does  *)
(* not fit into a size_t, x stands for every other byte.                   *)
Number == [c \in {"0", "1", "2", "3"} |->
             CASE c = "0" -> 0 [] c = "1" -> 1 [] c = "2" -> 2 [] OTHER -> 3]
Cells == DOMAIN Number \cup {"LF", "CR", ":", " ", "LENGTH", "HUGE", "{", "}", "x"}

VARIABLES
  stream,           \* what clangd writes in this behaviour
  written, closed,  \* the pipe: the bytes it has carried; clangd has gone
  received, consumed,
  content_length,
  pc,               \* what the generator reads: "header" or "content";
                    \* "failed" once an exception has ended it
  delivered         \* the texts of the messages yielded

vars == <<stream, written, closed, received, consumed, content_length, pc, delivered>>

Init ==
  /\ stream \in Streams
  /\ written = 0 /\ closed = FALSE
  /\ received = 0 /\ consumed = 0
  /\ content_length = 0
  /\ pc = "header"
  /\ delivered = <<>>
----------------------------------------------------------------------------
(* clangd.                                                                 *)
ClangdWrites ==
  /\ ~closed
  /\ written' \in (written + 1)..Len(stream.cells)
  /\ UNCHANGED <<stream, closed, received, consumed, content_length, pc, delivered>>

ClangdExits ==
  /\ ~closed
  /\ closed' = TRUE
  /\ UNCHANGED <<stream, written, received, consumed, content_length, pc, delivered>>
----------------------------------------------------------------------------
(* A header line.                                                          *)

(* The cells p .. q without the carriage returns at their end              *)
LineEnd(s, p, q) ==
  CHOOSE e \in (p - 1)..q : /\ \A i \in (e + 1)..q : s.cells[i] = "CR"
                            /\ e >= p => s.cells[e] # "CR"

Blank(s, p, q) == LineEnd(s, p, q) < p

(* The line's name, the text before the first colon, is content-length.    *)
IsLength(s, p, q) ==
  LET e == LineEnd(s, p, q)
  IN  e > p /\ s.cells[p] = "LENGTH" /\ s.cells[p + 1] = ":"

(* Where the value starts, white space skipped; behind the line if the     *)
(* value is empty                                                          *)
ValueAt(s, p, q) ==
  CHOOSE v \in (p + 2)..(LineEnd(s, p, q) + 1) :
    /\ \A i \in (p + 2)..(v - 1) : s.cells[i] \in {" ", "CR"}
    /\ v <= LineEnd(s, p, q) => s.cells[v] \notin {" ", "CR"}

(* std::from_chars succeeds.                                               *)
HasNumber(s, p, q) ==
  /\ IsLength(s, p, q)
  /\ ValueAt(s, p, q) <= LineEnd(s, p, q)
  /\ s.cells[ValueAt(s, p, q)] \in DOMAIN Number

NumberIn(s, p, q) == Number[s.cells[ValueAt(s, p, q)]]

(* An empty value and a bad number leave the loop over the headers, too.   *)
EndsHeaders(s, p, q) ==
  Blank(s, p, q) \/ (IsLength(s, p, q) /\ ~HasNumber(s, p, q))

LengthAfter(s, p, q, length) ==
  IF HasNumber(s, p, q) THEN NumberIn(s, p, q) ELSE length
----------------------------------------------------------------------------
(* read_message.                                                           *)

LineFeeds(s, p, q) == {i \in p..q : s.cells[i] = "LF"}
FirstLineFeed(s, p, q) ==
  CHOOSE i \in LineFeeds(s, p, q) : \A j \in LineFeeds(s, p, q) : i <= j

HasLine == LineFeeds(stream, consumed + 1, received) # {}
BufSize == received - consumed

(* async_read_until reads until there is a line, async_read exactly what   *)
(* is missing of the content.                                              *)
Wanted ==
  CASE pc = "header" -> IF HasLine THEN 0 ELSE written - received
    [] pc = "content" -> content_length - BufSize
    [] OTHER -> 0

ReadSome ==
  /\ Wanted > 0
  /\ received' \in {n \in (received + 1)..written : n - received <= Wanted}
  /\ UNCHANGED <<stream, written, closed, consumed, content_length, pc, delivered>>

(* Mutant: the end of the pipe counts before what is still in the buffer.  *)
EndOfPipeFirst ==
  /\ pc # "failed" /\ closed /\ received = written
  /\ pc' = "failed"
  /\ UNCHANGED <<stream, written, closed, received, consumed, content_length, delivered>>

(* Both reads throw at the end of the pipe.                                *)
EndOfPipe ==
  /\ \/ pc = "header" /\ ~HasLine
     \/ pc = "content" /\ BufSize < content_length
  /\ closed /\ received = written
  /\ pc' = "failed"
  /\ UNCHANGED <<stream, written, closed, received, consumed, content_length, delivered>>

(* Mutant: the number is read by std::stoul, which throws.                 *)
HeaderLineThrows ==
  /\ pc = "header" /\ HasLine
  /\ LET from == consumed + 1
         lf == FirstLineFeed(stream, from, received)
         Bad == IsLength(stream, from, lf - 1) /\ ~HasNumber(stream, from, lf - 1)
     IN  /\ consumed' = lf
         /\ content_length' = LengthAfter(stream, from, lf - 1, content_length)
         /\ pc' = CASE Bad -> "failed"
                    [] Blank(stream, from, lf - 1) /\ content_length > 0 -> "content"
                    [] OTHER -> "header"
  /\ UNCHANGED <<stream, written, closed, received, delivered>>

(* One line of the headers.  Behind the last one the content is read, or,  *)
(* without a length, the loop starts over.                                 *)
HeaderLine ==
  /\ pc = "header" /\ HasLine
  /\ LET from == consumed + 1
         lf == FirstLineFeed(stream, from, received)
     IN  /\ consumed' = lf
         /\ content_length' = LengthAfter(stream, from, lf - 1, content_length)
         /\ pc' = IF EndsHeaders(stream, from, lf - 1) /\ content_length > 0
                  THEN "content" ELSE "header"
  /\ UNCHANGED <<stream, written, closed, received, delivered>>

Content == SubSeq(stream.cells, consumed + 1, consumed + content_length)

(* Mutants: more than the content is waited for; the content is not taken  *)
(* out of the buffer.                                                      *)
HasContentLate == pc = "content" /\ BufSize > content_length
YieldKeepsContent ==
  /\ pc = "content" /\ BufSize >= content_length /\ Content \in JsonTexts
  /\ delivered' = Append(delivered, Content)
  /\ content_length' = 0
  /\ pc' = "header"
  /\ UNCHANGED <<stream, written, closed, received, consumed>>

HasContent == pc = "content" /\ BufSize >= content_length

Yield ==
  /\ HasContent /\ Content \in JsonTexts
  /\ delivered' = Append(delivered, Content)
  /\ consumed' = consumed + content_length
  /\ content_length' = 0
  /\ pc' = "header"
  /\ UNCHANGED <<stream, written, closed, received>>

(* json::parse throws.                                                     *)
ParseFails ==
  /\ HasContent /\ Content \notin JsonTexts
  /\ consumed' = consumed + content_length
  /\ pc' = "failed"
  /\ UNCHANGED <<stream, written, closed, received, content_length, delivered>>

ReadMessage == ReadSome \/ HeaderLine \/ Yield \/ ParseFails \/ EndOfPipe
Next == ClangdWrites \/ ClangdExits \/ ReadMessage

Spec == Init /\ [][Next]_vars /\ WF_vars(ReadMessage)
----------------------------------------------------------------------------
(* What a stream is made of.  A frame is what the reader meets up to the   *)
(* end of a message: lines that do not matter (rubbish, blank lines        *)
(* between two messages), a line with the length, more lines that do not   *)
(* matter, a line that ends the headers, the text.  `starts` are the       *)
(* positions where its lines start, `length` that of the line with the     *)
(* length.  Behind the last frame, at the positions of `tail`, are only    *)
(* lines that do not matter.                                               *)
Frames(s) == Len(s.frames)
From(s, i) == IF i = 1 THEN 1 ELSE s.frames[i - 1].stop + 1
TextLength(f) == f.stop - f.body + 1
Text(s, i) == SubSeq(s.cells, s.frames[i].body, s.frames[i].stop)

(* The line feed that ends the line starting at p                          *)
EndOfLine(s, p) == FirstLineFeed(s, p, Len(s.cells))

HeaderOK(s, f, p) ==
  LET lf == EndOfLine(s, p)
  IN  /\ LineFeeds(s, p, f.body - 1) # {}
      /\ p < f.length => /\ LengthAfter(s, p, lf - 1, 0) = 0
                         /\ lf + 1 \in f.starts /\ lf + 1 <= f.length
      /\ p = f.length => /\ HasNumber(s, p, lf - 1)
                         /\ NumberIn(s, p, lf - 1) = TextLength(f)
                         /\ lf + 1 \in f.starts
      /\ p > f.length => /\ ~HasNumber(s, p, lf - 1)
                         /\ IF EndsHeaders(s, p, lf - 1) THEN lf + 1 = f.body
                            ELSE lf + 1 \in f.starts

FrameOK(s, i) ==
  LET f == s.frames[i]
  IN  /\ From(s, i) \in f.starts /\ f.length \in f.starts
      /\ From(s, i) <= f.length
      /\ f.starts \subseteq From(s, i)..(f.body - 1)
      /\ f.body <= f.stop /\ f.stop <= Len(s.cells)
      /\ \A p \in f.starts : HeaderOK(s, f, p)
      /\ i < Frames(s) => Text(s, i) \in JsonTexts

TailOK(s) ==
  /\ From(s, Frames(s) + 1) \in s.tail
  /\ \A p \in s.tail :
       LineFeeds(s, p, Len(s.cells)) # {} =>
         /\ LengthAfter(s, p, EndOfLine(s, p) - 1, 0) = 0
         /\ EndOfLine(s, p) + 1 \in s.tail

Frame == [starts : SUBSET Nat, length : Nat, body : Nat, stop : Nat]

StreamOK(s) ==
  /\ s.cells \in Seq(Cells) /\ s.frames \in Seq(Frame) /\ s.tail \in SUBSET Nat
  /\ \A i \in 1..Frames(s) : FrameOK(s, i)
  /\ TailOK(s)

ASSUME StreamsAssumption == \A s \in Streams : StreamOK(s)

(* The messages: the text of the last frame may be no JSON.                *)
Messages(s) == {i \in 1..Frames(s) : Text(s, i) \in JsonTexts}
Complete == {i \in Messages(stream) : stream.frames[i].stop <= written}
----------------------------------------------------------------------------
(* The shapes of the variables: the pipe holds what is written of the      *)
(* stream, the buffer a window of that.                                    *)
ReaderTypeOK ==
  /\ stream.cells \in Seq(Cells)
  /\ closed \in BOOLEAN
  /\ written \in 0..Len(stream.cells)
  /\ received \in 0..written
  /\ consumed \in 0..received
  /\ content_length \in Nat
  /\ pc \in {"header", "content", "failed"}
  /\ delivered \in Seq(JsonTexts)

(* However the pipe cuts the bytes, the texts that read_message hands to   *)
(* json::parse are those of the messages clangd sent, in their order: no   *)
(* byte of a header or of another message gets into one.                   *)
Framed ==
  /\ Len(delivered) <= Cardinality(Messages(stream))
  /\ \A i \in 1..Len(delivered) : delivered[i] = Text(stream, i)

(* The generator ends for two reasons only: all the pipe carried has been  *)
(* read and clangd is gone, or a message is no JSON; a line that is no     *)
(* header does not end it (comms.cpp: "probably an error, try and listen   *)
(* for the next recognisable message").                                    *)
EndsForCause ==
  pc = "failed" =>
    \/ closed /\ received = written
    \/ Len(delivered) + 1 \in (1..Frames(stream)) \ Messages(stream)

Stream == INSTANCE LspStream WITH complete <- Cardinality(Complete),
                                  yielded <- Len(delivered),
                                  ended <- pc = "failed"

(* The reader implements LspStream: a message is yielded after it is       *)
(* complete, and the generator does not end while one is left.             *)
ReadsStream == Stream!StreamSpec

(* A message is yielded once its last byte is in the pipe: nothing has to  *)
(* follow it, neither a line feed nor the next message.                    *)
EventuallyYielded ==
  \A n \in 1..3 : Cardinality(Complete) >= n ~> Len(delivered) >= n
=============================================================================
