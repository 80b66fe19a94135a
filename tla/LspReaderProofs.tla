--------------------------- MODULE LspReaderProofs ---------------------------
(* Proofs about read_message, for every set of streams.                    *)
EXTENDS LspReader, SequenceTheorems, FiniteSetTheorems, WellFoundedInduction, TLAPS

Read == Len(delivered)

(* Where the reader is in the stream: at a line of the frame it reads, with *)
(* the length once it has passed the line that gives it, or behind the last *)
(* frame.                                                                   *)
AtLine ==
  IF Read < Frames(stream)
  THEN LET f == stream.frames[Read + 1]
       IN  /\ consumed + 1 \in f.starts
           /\ content_length = IF consumed + 1 <= f.length THEN 0 ELSE TextLength(f)
  ELSE consumed + 1 \in stream.tail /\ content_length = 0

AtText ==
  /\ Read < Frames(stream)
  /\ consumed + 1 = stream.frames[Read + 1].body
  /\ content_length = TextLength(stream.frames[Read + 1])

Position ==
  /\ pc = "header" => AtLine
  /\ pc = "content" => AtText

(* What has been yielded are the messages up to here.                       *)
Yielded ==
  /\ Read <= Frames(stream)
  /\ \A i \in 1..Read : /\ Text(stream, i) \in JsonTexts /\ delivered[i] = Text(stream, i)
                     /\ stream.frames[i].stop <= consumed

RInv ==
  /\ stream \in Streams
  /\ ReaderTypeOK
  /\ Position
  /\ Yielded
  /\ EndsForCause
----------------------------------------------------------------------------
(* Facts about streams.                                                     *)

LEMMA StreamFacts ==
  ASSUME NEW s \in Streams
  PROVE  /\ s.cells \in Seq(Cells) /\ Len(s.cells) \in Nat
         /\ s.frames \in Seq(Frame) /\ Frames(s) \in Nat
         /\ s.tail \in SUBSET Nat
         /\ \A i \in 1..Frames(s) : FrameOK(s, i)
         /\ TailOK(s)
  BY StreamsAssumption, LenProperties DEF StreamOK, Frames

LEMMA FrameFacts ==
  ASSUME NEW s \in Streams, NEW i \in 1..Frames(s)
  PROVE  /\ s.frames[i].length \in Nat /\ s.frames[i].body \in Nat
         /\ s.frames[i].stop \in Nat /\ s.frames[i].starts \in SUBSET Nat
         /\ From(s, i) \in Nat /\ From(s, i) >= 1
         /\ From(s, i) < s.frames[i].body
         /\ s.frames[i].body <= s.frames[i].stop
         /\ s.frames[i].stop <= Len(s.cells)
         /\ TextLength(s.frames[i]) \in Nat /\ TextLength(s.frames[i]) > 0
<1>1. \A j \in 1..Frames(s) : s.frames[j] \in Frame
  BY StreamFacts, ElementOfSeq DEF Frames
<1>2. \A j \in 1..Frames(s) :
        /\ s.frames[j].length \in Nat /\ s.frames[j].body \in Nat
        /\ s.frames[j].stop \in Nat /\ s.frames[j].starts \in SUBSET Nat
  BY <1>1 DEF Frame
<1>3. i = 1 \/ i - 1 \in 1..Frames(s)
  BY StreamFacts
<1>4. From(s, i) \in Nat /\ From(s, i) >= 1
  BY <1>2, <1>3 DEF From
<1>5. FrameOK(s, i)
  BY StreamFacts
<1>6. From(s, i) < s.frames[i].body
  BY <1>2, <1>4, <1>5 DEF FrameOK
<1>7. s.frames[i].body <= s.frames[i].stop /\ s.frames[i].stop <= Len(s.cells)
  BY <1>5 DEF FrameOK
<1>8. TextLength(s.frames[i]) \in Nat /\ TextLength(s.frames[i]) > 0
  BY <1>2, <1>7 DEF TextLength
<1> QED BY <1>2, <1>4, <1>6, <1>7, <1>8

(* A set of natural numbers has a least element.                            *)
LEMMA HasLeast ==
  ASSUME NEW A \in SUBSET Nat, A # {}
  PROVE  \E i \in A : \A j \in A : i <= j
<1>1. \E R : IsWellFoundedOn(R, Nat) /\ \A x, y \in Nat : <<x, y>> \in R <=> x < y
  <2>1. \A x, y \in Nat : <<x, y>> \in OpToRel(<, Nat) <=> x < y
    BY Zenon DEF OpToRel
  <2> QED BY <2>1, NatLessThanWellFounded, Zenon
<1>2. PICK R : IsWellFoundedOn(R, Nat) /\ \A x, y \in Nat : <<x, y>> \in R <=> x < y
  BY <1>1
<1>3. A \subseteq Nat
  OBVIOUS
<1>4. \E i \in A : \A j \in A : ~(<<j, i>> \in R)
  <2>1. IsWellFoundedOn(R, Nat)
    BY <1>2, Zenon
  <2>2. \A S, T : IsWellFoundedOn(R, S) /\ T \subseteq S /\ T # {} =>
                  \E x \in T : \A y \in T : ~(<<y, x>> \in R)
    BY WFMin, Zenon
  <2>3. IsWellFoundedOn(R, Nat) /\ A \subseteq Nat /\ A # {} =>
          \E x \in A : \A y \in A : ~(<<y, x>> \in R)
    BY <2>2, Zenon
  <2> QED BY <1>3, <2>1, <2>3, Zenon
<1>5. \A i, j \in Nat : <<j, i>> \in R <=> j < i
  BY <1>2
<1>6. \A i, j \in Nat : ~(j < i) => i <= j
  OBVIOUS
<1>7. \A i, j \in A : ~(<<j, i>> \in R) => i <= j
  BY <1>3, <1>5, <1>6, Zenon
<1> QED BY <1>4, <1>7, Zenon

(* The first line feed of a part of the text is the first of all of it.     *)
LEMMA FirstLineFeedFound ==
  ASSUME NEW s \in Streams, NEW p \in Nat \ {0}, NEW q \in 0..Len(s.cells),
         LineFeeds(s, p, q) # {}
  PROVE  /\ FirstLineFeed(s, p, q) = EndOfLine(s, p)
         /\ FirstLineFeed(s, p, q) \in p..q
         /\ LineFeeds(s, p, Len(s.cells)) # {}
<1> DEFINE A == LineFeeds(s, p, q)
           B == LineFeeds(s, p, Len(s.cells))
<1>1. Len(s.cells) \in Nat
  BY StreamFacts
<1>2. A \in SUBSET Nat /\ A \subseteq p..q
  BY <1>1 DEF LineFeeds
<1>3. PICK i \in A : \A j \in A : i <= j
  BY <1>2, HasLeast
<1>4. i \in B /\ \A j \in B : i <= j
  BY <1>1, <1>2, <1>3 DEF LineFeeds
<1>5. A \subseteq B /\ B \in SUBSET Nat
  BY <1>1 DEF LineFeeds
<1>6. FirstLineFeed(s, p, q) = i
  BY <1>2, <1>3 DEF FirstLineFeed
<1>7. EndOfLine(s, p) = i
  BY <1>4, <1>5 DEF EndOfLine, FirstLineFeed
<1> QED BY <1>2, <1>3, <1>4, <1>6, <1>7
----------------------------------------------------------------------------
(* Where a frame or the tail begins is where the reader is after the last.  *)
LEMMA BetweenFrames ==
  ASSUME stream \in Streams, Read \in 0..Frames(stream),
         consumed + 1 = From(stream, Read + 1), content_length = 0
  PROVE  AtLine
<1>1. CASE Read < Frames(stream)
  <2>1. Read + 1 \in 1..Frames(stream)
    BY <1>1, StreamFacts
  <2>2. FrameOK(stream, Read + 1)
    BY <2>1, StreamFacts
  <2> QED BY <1>1, <2>2 DEF AtLine, FrameOK
<1>2. CASE ~(Read < Frames(stream))
  <2>1. Read = Frames(stream)
    BY <1>2, StreamFacts
  <2>2. consumed + 1 \in stream.tail
    BY <2>1, StreamFacts DEF TailOK
  <2> QED BY <1>2, <2>2 DEF AtLine
<1> QED BY <1>1, <1>2

LEMMA InvInit == Init => RInv
<1> SUFFICES ASSUME Init PROVE RInv
  OBVIOUS
<1>1. Read = 0 /\ consumed = 0 /\ received = 0 /\ written = 0 /\ content_length = 0
  BY DEF Init, Read
<1>2. stream \in Streams /\ pc = "header" /\ closed = FALSE /\ delivered = <<>>
  BY DEF Init
<1>3. ReaderTypeOK
  <2>1. stream.cells \in Seq(Cells) /\ Len(stream.cells) \in Nat
    BY <1>2, StreamFacts
  <2>2. delivered \in Seq(JsonTexts)
    BY <1>2
  <2>3. written \in 0..Len(stream.cells) /\ received \in 0..written
        /\ consumed \in 0..received /\ content_length \in Nat
    BY <1>1, <2>1
  <2>4. closed \in BOOLEAN /\ pc \in {"header", "content", "failed"}
    BY <1>2
  <2> QED BY <2>1, <2>2, <2>3, <2>4, Zenon DEF ReaderTypeOK
<1>4. Position
  <2>1. From(stream, Read + 1) = 1
    BY <1>1 DEF From
  <2>2. Read \in 0..Frames(stream)
    BY <1>1, <1>2, StreamFacts
  <2> QED BY <1>1, <1>2, <2>1, <2>2, BetweenFrames DEF Position
<1>5. Yielded
  BY <1>1, <1>2, StreamFacts DEF Yielded
<1>6. EndsForCause
  BY <1>2 DEF EndsForCause
<1> QED BY <1>2, <1>3, <1>4, <1>5, <1>6 DEF RInv

(* The facts of the invariant in the form the steps need them.              *)
LEMMA InvFacts ==
  ASSUME RInv
  PROVE  /\ stream \in Streams /\ Len(stream.cells) \in Nat /\ Frames(stream) \in Nat
         /\ written \in Nat /\ received \in Nat /\ consumed \in Nat
         /\ consumed <= received /\ received <= written /\ written <= Len(stream.cells)
         /\ content_length \in Nat /\ Read \in Nat /\ Read <= Frames(stream)
         /\ \A i \in 1..Read : /\ stream.frames[i].stop \in Nat
                           /\ stream.frames[i].stop <= consumed
<1>1. stream \in Streams
  BY DEF RInv
<1>2. Len(stream.cells) \in Nat /\ Frames(stream) \in Nat
  BY <1>1, StreamFacts
<1>3. Read \in Nat
  BY LenProperties DEF RInv, ReaderTypeOK, Read
<1>4. written \in 0..Len(stream.cells) /\ received \in 0..written /\ consumed \in 0..received
  BY DEF RInv, ReaderTypeOK
<1>5. content_length \in Nat /\ Read <= Frames(stream)
  BY DEF RInv, ReaderTypeOK, Yielded
<1>6. \A i \in 1..Read : i \in 1..Frames(stream)
  BY <1>2, <1>3, <1>5
<1>7. \A i \in 1..Read : stream.frames[i].stop \in Nat
  BY <1>1, <1>6, FrameFacts
<1>8. \A i \in 1..Read : stream.frames[i].stop <= consumed
  BY DEF RInv, Yielded
<1> QED BY <1>1, <1>2, <1>3, <1>4, <1>5, <1>7, <1>8

(* The line at the head of the buffer is a line of the stream.              *)
LEMMA HeaderStep == RInv /\ HeaderLine => RInv'
<1> SUFFICES ASSUME RInv, HeaderLine PROVE RInv'
  OBVIOUS
<1> DEFINE from == consumed + 1
           lf == FirstLineFeed(stream, from, received)
<1>1. /\ stream' = stream /\ written' = written /\ closed' = closed
      /\ received' = received /\ delivered' = delivered /\ pc = "header"
  BY DEF HeaderLine
<1>2. /\ consumed' = lf
      /\ content_length' = LengthAfter(stream, from, lf - 1, content_length)
      /\ pc' = IF EndsHeaders(stream, from, lf - 1) /\ content_length > 0
               THEN "content" ELSE "header"
  BY DEF HeaderLine
<1>3. Read' = Read /\ AtLine
  BY <1>1 DEF Read, RInv, Position
<1>4. from \in Nat \ {0} /\ received \in 0..Len(stream.cells)
  BY InvFacts
<1>5. lf = EndOfLine(stream, from) /\ lf \in from..received
      /\ LineFeeds(stream, from, Len(stream.cells)) # {}
  BY <1>1, <1>4, InvFacts, FirstLineFeedFound DEF HeaderLine, HasLine
<1>6. lf \in Nat /\ consumed < lf /\ lf <= received
  BY <1>4, <1>5, InvFacts
<1>7. content_length' \in Nat /\ Position'
  <2> HIDE DEF lf, from
  <2>1. CASE Read < Frames(stream)
    <3> DEFINE f == stream.frames[Read + 1]
    <3>1. Read + 1 \in 1..Frames(stream)
      BY <2>1, InvFacts
    <3>2. from \in f.starts
          /\ content_length = IF from <= f.length THEN 0 ELSE TextLength(f)
      BY <1>3, <2>1 DEF AtLine, from
    <3>3. HeaderOK(stream, f, from)
      BY <3>1, <3>2, InvFacts, StreamFacts DEF FrameOK
    <3>4. f.length \in Nat /\ TextLength(f) \in Nat /\ TextLength(f) > 0
      BY <3>1, InvFacts, FrameFacts
    <3>5. AtLine' <=> /\ lf + 1 \in f.starts
                     /\ content_length' = IF lf + 1 <= f.length THEN 0 ELSE TextLength(f)
      BY <1>1, <1>2, <1>3, <2>1 DEF AtLine
    <3>6. AtText' <=> lf + 1 = f.body /\ content_length' = TextLength(f)
      BY <1>1, <1>2, <1>3, <2>1 DEF AtText
    <3>7. from < lf + 1 /\ from \in Nat /\ lf \in Nat
      BY <1>6, InvFacts DEF from
    <3> HIDE DEF f
    <3>8. CASE from < f.length
      <4>1. content_length = 0 /\ pc' = "header" /\ content_length' = 0
        BY <1>2, <1>5, <3>2, <3>3, <3>4, <3>7, <3>8 DEF HeaderOK
      <4>2. lf + 1 \in f.starts /\ lf + 1 <= f.length
        BY <1>5, <3>3, <3>8 DEF HeaderOK
      <4> QED BY <3>5, <4>1, <4>2 DEF Position
    <3>9. CASE from = f.length
      <4>1. content_length = 0 /\ pc' = "header"
        BY <1>2, <3>2, <3>4, <3>9
      <4>2. /\ HasNumber(stream, from, lf - 1)
            /\ NumberIn(stream, from, lf - 1) = TextLength(f)
            /\ lf + 1 \in f.starts
        BY <1>5, <3>3, <3>9 DEF HeaderOK
      <4>3. content_length' = TextLength(f)
        BY <1>2, <4>2 DEF LengthAfter
      <4>4. ~(lf + 1 <= f.length)
        BY <3>4, <3>7, <3>9
      <4> QED BY <3>4, <3>5, <4>1, <4>2, <4>3, <4>4 DEF Position
    <3>10. CASE from > f.length
      <4>1. content_length = TextLength(f) /\ content_length > 0
        BY <3>2, <3>4, <3>7, <3>10
      <4>2. /\ ~HasNumber(stream, from, lf - 1)
            /\ IF EndsHeaders(stream, from, lf - 1) THEN lf + 1 = f.body
               ELSE lf + 1 \in f.starts
        BY <1>5, <3>3, <3>10 DEF HeaderOK
      <4>3. content_length' = TextLength(f)
        BY <1>2, <4>1, <4>2 DEF LengthAfter
      <4>4. ~(lf + 1 <= f.length)
        BY <3>4, <3>7, <3>10
      <4>5. CASE EndsHeaders(stream, from, lf - 1)
        <5>1. pc' = "content" /\ lf + 1 = f.body
          BY <1>2, <4>1, <4>2, <4>5
        <5> QED BY <3>4, <3>6, <4>3, <5>1 DEF Position
      <4>6. CASE ~EndsHeaders(stream, from, lf - 1)
        <5>1. pc' = "header" /\ lf + 1 \in f.starts
          BY <1>2, <4>2, <4>6
        <5> QED BY <3>4, <3>5, <4>3, <4>4, <5>1 DEF Position
      <4> QED BY <4>5, <4>6
    <3> QED BY <3>4, <3>7, <3>8, <3>9, <3>10
  <2>2. CASE ~(Read < Frames(stream))
    <3>1. from \in stream.tail /\ content_length = 0
      BY <1>3, <2>2 DEF AtLine, from
    <3>2. TailOK(stream)
      BY InvFacts, StreamFacts
    <3>3. LengthAfter(stream, from, lf - 1, 0) = 0 /\ lf + 1 \in stream.tail
      BY <1>5, <3>1, <3>2 DEF TailOK
    <3>4. content_length' = 0 /\ pc' = "header"
      BY <1>2, <3>1, <3>3
    <3>5. AtLine' <=> lf + 1 \in stream.tail /\ content_length' = 0
      BY <1>1, <1>2, <1>3, <2>2 DEF AtLine
    <3> QED BY <3>3, <3>4, <3>5 DEF Position
  <2> QED BY <2>1, <2>2
<1>8. ReaderTypeOK'
  <2>1. consumed' \in 0..received'
    BY <1>1, <1>2, <1>6, InvFacts
  <2>2. pc' \in {"header", "content", "failed"}
    BY <1>2
  <2> QED BY <1>1, <1>7, <2>1, <2>2 DEF RInv, ReaderTypeOK
<1>9. Yielded'
  <2>1. \A i \in 1..Read : stream.frames[i].stop <= lf
    BY <1>6, InvFacts
  <2> QED BY <1>1, <1>2, <1>3, <2>1 DEF RInv, Yielded
<1>10. EndsForCause'
  BY <1>2 DEF EndsForCause
<1> QED BY <1>1, <1>7, <1>8, <1>9, <1>10 DEF RInv
(* Yielding takes the reader from one frame to the next.                    *)
LEMMA TextHere ==
  ASSUME RInv, pc = "content"
  PROVE  /\ Read + 1 \in 1..Frames(stream)
         /\ Content = Text(stream, Read + 1)
         /\ stream.frames[Read + 1].stop = consumed + content_length
<1>1. AtText
  BY DEF RInv, Position
<1>2. Read + 1 \in 1..Frames(stream)
  BY <1>1, InvFacts DEF AtText
<1> DEFINE f == stream.frames[Read + 1]
<1>3. f.body \in Nat /\ f.stop \in Nat
  BY <1>2, InvFacts, FrameFacts
<1>4. consumed + 1 = f.body /\ content_length = f.stop - f.body + 1
  BY <1>1 DEF AtText, TextLength
<1>5. f.stop = consumed + content_length
  <2>1. consumed \in Nat
    BY InvFacts
  <2> HIDE DEF f
  <2> QED BY <1>3, <1>4, <2>1
<1> QED BY <1>2, <1>4, <1>5 DEF Content, Text

LEMMA YieldStep == RInv /\ Yield => RInv'
<1> SUFFICES ASSUME RInv, Yield PROVE RInv'
  OBVIOUS
<1>1. /\ stream' = stream /\ written' = written /\ closed' = closed
      /\ received' = received /\ pc = "content" /\ pc' = "header"
      /\ content_length' = 0 /\ consumed' = consumed + content_length
      /\ Content \in JsonTexts /\ delivered' = Append(delivered, Content)
      /\ received - consumed >= content_length
  BY DEF Yield, HasContent, BufSize
<1>2. delivered \in Seq(JsonTexts)
  BY DEF RInv, ReaderTypeOK
<1>3. /\ delivered' \in Seq(JsonTexts) /\ Read' = Read + 1
      /\ delivered'[Read + 1] = Content
      /\ \A i \in 1..Read : delivered'[i] = delivered[i]
  BY <1>1, <1>2, AppendProperties DEF Read
<1>4. /\ Read + 1 \in 1..Frames(stream) /\ Content = Text(stream, Read + 1)
      /\ stream.frames[Read + 1].stop = consumed'
  BY <1>1, TextHere
<1>5. consumed' \in Nat /\ consumed <= consumed' /\ consumed' <= received
  BY <1>1, InvFacts
<1>6. ReaderTypeOK'
  <2>1. consumed' \in 0..received'
    BY <1>1, <1>5, InvFacts
  <2>2. content_length' \in Nat /\ pc' \in {"header", "content", "failed"}
    BY <1>1
  <2> QED BY <1>1, <1>3, <2>1, <2>2 DEF RInv, ReaderTypeOK
<1>7. Position'
  <2>1. From(stream, Read + 2) = consumed' + 1
    BY <1>4, InvFacts DEF From
  <2>2. Read' + 1 = Read + 2 /\ Read' \in 0..Frames(stream)
    BY <1>3, <1>4, InvFacts
  <2>3. AtLine'
    <3>1. CASE Read' < Frames(stream)
      <4>1. Read + 2 \in 1..Frames(stream)
        BY <1>3, <3>1, InvFacts
      <4>2. FrameOK(stream, Read' + 1)
        BY <2>2, <4>1, InvFacts, StreamFacts
      <4>3. From(stream, Read' + 1) = consumed' + 1
        BY <2>1, <2>2
      <4> QED BY <1>1, <3>1, <4>2, <4>3 DEF AtLine, FrameOK
    <3>2. CASE ~(Read' < Frames(stream))
      <4>1. Read' = Frames(stream)
        BY <2>2, <3>2, InvFacts
      <4>2. consumed' + 1 \in stream.tail
        BY <2>1, <2>2, <4>1, InvFacts, StreamFacts DEF TailOK
      <4> QED BY <1>1, <3>2, <4>2 DEF AtLine
    <3> QED BY <3>1, <3>2
  <2> QED BY <1>1, <2>3 DEF Position
<1>8. Yielded'
  <2>1. \A i \in 1..Read : stream.frames[i].stop <= consumed'
    BY <1>5, InvFacts
  <2>2. \A i \in 1..(Read + 1) : i \in 1..Read \/ i = Read + 1
    BY InvFacts
  <2>3. \A i \in 1..Read : Text(stream, i) \in JsonTexts /\ delivered'[i] = Text(stream, i)
    BY <1>3 DEF RInv, Yielded
  <2>4. \A i \in 1..Read' : /\ Text(stream, i) \in JsonTexts /\ delivered'[i] = Text(stream, i)
                        /\ stream.frames[i].stop <= consumed'
    <3> TAKE i \in 1..Read'
    <3>1. i \in 1..Read \/ i = Read + 1
      BY <1>3, <2>2
    <3>2. CASE i \in 1..Read
      BY <2>1, <2>3, <3>2
    <3>3. CASE i = Read + 1
      <4>1. Text(stream, Read + 1) \in JsonTexts /\ delivered'[Read + 1] = Text(stream, Read + 1)
        BY <1>1, <1>3, <1>4
      <4>2. stream.frames[Read + 1].stop <= consumed'
        BY <1>4, <1>5
      <4> QED BY <3>3, <4>1, <4>2
    <3> QED BY <3>1, <3>2, <3>3
  <2>5. Read' <= Frames(stream)
    BY <1>3, <1>4, InvFacts
  <2> QED BY <1>1, <2>4, <2>5 DEF Yielded, Text, Frames
<1>9. EndsForCause'
  BY <1>1 DEF EndsForCause
<1> QED BY <1>1, <1>6, <1>7, <1>8, <1>9 DEF RInv

(* A text that is no JSON is the last of the stream.                        *)
LEMMA ParseStep == RInv /\ ParseFails => RInv'
<1> SUFFICES ASSUME RInv, ParseFails PROVE RInv'
  OBVIOUS
<1>1. /\ stream' = stream /\ written' = written /\ closed' = closed
      /\ received' = received /\ delivered' = delivered /\ content_length' = content_length
      /\ pc = "content" /\ pc' = "failed" /\ consumed' = consumed + content_length
      /\ Content \notin JsonTexts /\ received - consumed >= content_length
  BY DEF ParseFails, HasContent, BufSize
<1>2. consumed' \in Nat /\ consumed <= consumed' /\ consumed' <= received
  BY <1>1, InvFacts
<1>3. ReaderTypeOK'
  <2>1. consumed' \in 0..received'
    BY <1>1, <1>2, InvFacts
  <2>2. pc' \in {"header", "content", "failed"}
    BY <1>1
  <2> QED BY <1>1, <2>1, <2>2 DEF RInv, ReaderTypeOK
<1>4. Position'
  BY <1>1 DEF Position
<1>5. Yielded'
  <2>1. \A i \in 1..Read : stream.frames[i].stop <= consumed'
    BY <1>2, InvFacts
  <2> QED BY <1>1, <2>1 DEF RInv, Yielded, Read, Text, Frames
<1>6. EndsForCause'
  <2>1. Read + 1 \in 1..Frames(stream) /\ Text(stream, Read + 1) \notin JsonTexts
    BY <1>1, TextHere
  <2>2. Read + 1 \notin Messages(stream)
    BY <2>1 DEF Messages
  <2> QED BY <1>1, <2>1, <2>2 DEF EndsForCause, Read
<1> QED BY <1>1, <1>3, <1>4, <1>5, <1>6 DEF RInv

(* The pipe, and reading from it.                                           *)
LEMMA PipeStep ==
  ASSUME RInv, stream' = stream, consumed' = consumed, delivered' = delivered,
         content_length' = content_length, closed' \in BOOLEAN,
         written' \in Nat, received' \in Nat,
         received <= received', received' <= written', written' <= Len(stream.cells),
         \/ pc' = pc /\ pc # "failed"
         \/ pc' = pc /\ EndsForCause'
         \/ pc' = "failed" /\ closed' /\ received' = written'
  PROVE  RInv'
<1>1. ReaderTypeOK'
  <2>1. consumed' \in 0..received' /\ received' \in 0..written'
        /\ written' \in 0..Len(stream'.cells)
    BY InvFacts
  <2>2. pc' \in {"header", "content", "failed"}
    BY DEF RInv, ReaderTypeOK
  <2> QED BY <2>1, <2>2 DEF RInv, ReaderTypeOK
<1>2. Position'
  <2>1. pc' = "failed" \/ pc' = pc
    OBVIOUS
  <2>2. (AtLine' <=> AtLine) /\ (AtText' <=> AtText)
    BY DEF AtLine, AtText, Read, Frames
  <2> QED BY <2>1, <2>2 DEF RInv, Position
<1>3. Yielded'
  BY DEF RInv, Yielded, Read, Text, Frames
<1>4. EndsForCause'
  BY DEF EndsForCause
<1> QED BY <1>1, <1>2, <1>3, <1>4 DEF RInv

LEMMA InvStep == RInv /\ [Next]_vars => RInv'
<1> SUFFICES ASSUME RInv, [Next]_vars PROVE RInv'
  OBVIOUS
<1>1. CASE ClangdWrites
  <2>1. written' \in Nat /\ received <= written' /\ written' <= Len(stream.cells)
    BY <1>1, InvFacts DEF ClangdWrites
  <2>2. closed' = FALSE /\ closed = FALSE
    BY <1>1 DEF ClangdWrites, RInv, ReaderTypeOK
  <2>3. /\ stream' = stream /\ consumed' = consumed /\ delivered' = delivered
        /\ content_length' = content_length /\ received' = received /\ pc' = pc
    BY <1>1 DEF ClangdWrites
  <2>4. pc = "failed" => EndsForCause'
    BY <2>2, <2>3 DEF RInv, EndsForCause, Messages, Text, Frames
  <2>5. closed' \in BOOLEAN
    BY <2>2
  <2> QED BY <2>1, <2>3, <2>4, <2>5, InvFacts, PipeStep
<1>2. CASE ClangdExits
  <2>1. /\ stream' = stream /\ consumed' = consumed /\ delivered' = delivered
        /\ content_length' = content_length /\ received' = received /\ pc' = pc
        /\ written' = written /\ closed' = TRUE
    BY <1>2 DEF ClangdExits
  <2>2. pc = "failed" => EndsForCause'
    BY <2>1 DEF RInv, EndsForCause, Messages, Text, Frames
  <2> QED BY <2>1, <2>2, InvFacts, PipeStep
<1>3. CASE ReadSome
  <2>1. received' \in (received + 1)..written /\ pc # "failed"
    BY <1>3 DEF ReadSome, Wanted
  <2>2. /\ stream' = stream /\ consumed' = consumed /\ delivered' = delivered
        /\ content_length' = content_length /\ closed' = closed /\ pc' = pc
        /\ written' = written
    BY <1>3 DEF ReadSome
  <2>3. received' \in Nat /\ received <= received' /\ received' <= written
    BY <2>1, InvFacts
  <2>4. closed' \in BOOLEAN
    BY <2>2 DEF RInv, ReaderTypeOK
  <2> QED BY <2>1, <2>2, <2>3, <2>4, InvFacts, PipeStep
<1>4. CASE EndOfPipe
  <2>1. /\ stream' = stream /\ consumed' = consumed /\ delivered' = delivered
        /\ content_length' = content_length /\ closed' = closed /\ pc' = "failed"
        /\ written' = written /\ received' = received /\ closed /\ received = written
    BY <1>4 DEF EndOfPipe
  <2>2. closed' \in BOOLEAN
    BY <2>1 DEF RInv, ReaderTypeOK
  <2> QED BY <2>1, <2>2, InvFacts, PipeStep
<1>5. CASE HeaderLine
  BY <1>5, HeaderStep
<1>6. CASE Yield
  BY <1>6, YieldStep
<1>7. CASE ParseFails
  BY <1>7, ParseStep
<1>8. CASE UNCHANGED vars
  BY <1>8 DEF vars, RInv, ReaderTypeOK, Position, AtLine, AtText, Read, Yielded, EndsForCause,
              Frames, Text, Messages
<1> QED BY <1>1, <1>2, <1>3, <1>4, <1>5, <1>6, <1>7, <1>8 DEF Next, ReadMessage
----------------------------------------------------------------------------
LEMMA Invariant == Spec => []RInv
  BY InvInit, InvStep, PTL DEF Spec

(* The shapes of the reader's state.                                        *)
THEOREM TypeCorrect == Spec => []ReaderTypeOK
<1>1. RInv => ReaderTypeOK
  BY DEF RInv
<1> QED BY <1>1, Invariant, PTL

(* The generator ends only for an end of the pipe or a text that is no      *)
(* JSON: no header can end it.                                              *)
THEOREM EndsOnlyForCause == Spec => []EndsForCause
<1>1. RInv => EndsForCause
  BY DEF RInv
<1> QED BY <1>1, Invariant, PTL

LEMMA MessagesFinite ==
  ASSUME RInv
  PROVE  /\ IsFiniteSet(Messages(stream)) /\ IsFiniteSet(Complete)
         /\ Cardinality(Messages(stream)) \in Nat /\ Cardinality(Complete) \in Nat
<1>1. 1 \in Int /\ Frames(stream) \in Int
  BY InvFacts
<1>2. IsFiniteSet(1..Frames(stream))
  BY <1>1, FS_Interval, Zenon
<1>3. Messages(stream) \subseteq 1..Frames(stream) /\ Complete \subseteq 1..Frames(stream)
  BY DEF Messages, Complete
<1>4. IsFiniteSet(Messages(stream)) /\ IsFiniteSet(Complete)
  BY <1>2, <1>3, FS_Subset
<1> QED BY <1>4, FS_CardinalityType

LEMMA UpTo ==
  ASSUME NEW n \in Nat
  PROVE  IsFiniteSet(1..n) /\ Cardinality(1..n) = n
<1>1. 1 \in Int /\ n \in Int
  OBVIOUS
<1>2. IsFiniteSet(1..n) /\ Cardinality(1..n) = IF 1 > n THEN 0 ELSE n - 1 + 1
  BY <1>1, FS_Interval, Zenon
<1> QED BY <1>2

(* The texts handed to json::parse are those of the messages sent, in order *)
(* and whole, however the pipe cuts them.                                   *)
THEOREM TextsAreFramed == Spec => []Framed
<1>1. RInv => Framed
  <2> SUFFICES ASSUME RInv PROVE Framed
    OBVIOUS
  <2>1. \A i \in 1..Read : i \in Messages(stream) /\ delivered[i] = Text(stream, i)
    BY InvFacts DEF RInv, Yielded, Messages
  <2>2. 1..Read \subseteq Messages(stream)
    BY <2>1
  <2>3. Cardinality(1..Read) <= Cardinality(Messages(stream))
    BY <2>2, MessagesFinite, FS_Subset
  <2>4. Cardinality(1..Read) = Read
    BY InvFacts, UpTo
  <2> QED BY <2>1, <2>3, <2>4 DEF Framed, Read
<1> QED BY <1>1, Invariant, PTL
----------------------------------------------------------------------------
(* The refinement.                                                          *)

(* Frames end one after the other.                                          *)
LEMMA StopsGrow ==
  ASSUME NEW s \in Streams, NEW i \in 1..Frames(s), NEW j \in 1..Frames(s), i <= j
  PROVE  s.frames[i].stop <= s.frames[j].stop
<1>1. Frames(s) \in Nat /\ \A n \in 1..Frames(s) : s.frames[n].stop \in Nat
  BY StreamFacts, FrameFacts
<1>2. \A n \in 1..Frames(s) : n > 1 => s.frames[n - 1].stop <= s.frames[n].stop
  <2> SUFFICES ASSUME NEW n \in 1..Frames(s), n > 1
               PROVE  s.frames[n - 1].stop <= s.frames[n].stop
    OBVIOUS
  <2>1. From(s, n) = s.frames[n - 1].stop + 1
    BY DEF From
  <2>2. From(s, n) < s.frames[n].body /\ s.frames[n].body <= s.frames[n].stop
        /\ s.frames[n].body \in Nat /\ s.frames[n].stop \in Nat
    BY FrameFacts
  <2>3. s.frames[n - 1].stop \in Nat
    BY <1>1
  <2> QED BY <2>1, <2>2, <2>3
<1> DEFINE Bad == {n \in 1..Frames(s) : i <= n /\ ~(s.frames[i].stop <= s.frames[n].stop)}
<1>3. ASSUME Bad # {} PROVE FALSE
  <2>1. Bad \in SUBSET Nat
    BY <1>1
  <2>2. PICK n \in Bad : \A m \in Bad : n <= m
    BY <1>3, <2>1, HasLeast
  <2>3. n \in 1..Frames(s) /\ i <= n /\ n # i
    BY <1>1, <2>2
  <2>4. n - 1 \in 1..Frames(s) /\ i <= n - 1 /\ n > 1
    BY <1>1, <2>3
  <2>5. n - 1 \notin Bad
    BY <2>1, <2>2, <2>4
  <2>6. s.frames[i].stop <= s.frames[n - 1].stop
    BY <2>4, <2>5
  <2>7. s.frames[n - 1].stop <= s.frames[n].stop
    BY <1>2, <2>3, <2>4
  <2> QED BY <1>1, <2>2, <2>3, <2>4, <2>6, <2>7
<1> QED BY <1>1, <1>3

(* What is complete has been yielded if the next frame is not complete or   *)
(* no message.                                                              *)
LEMMA AllYielded ==
  ASSUME RInv,
         Read < Frames(stream) => \/ stream.frames[Read + 1].stop > written
                              \/ Text(stream, Read + 1) \notin JsonTexts
  PROVE  Cardinality(Complete) = Read
<1>1. \A i \in 1..Read : i \in Complete
  BY InvFacts DEF RInv, Yielded, Complete, Messages
<1>2. ASSUME NEW i \in Complete, i > Read PROVE FALSE
  <2>1. i \in 1..Frames(stream) /\ stream.frames[i].stop <= written
        /\ Text(stream, i) \in JsonTexts
    BY DEF Complete, Messages
  <2>2. Read + 1 \in 1..Frames(stream) /\ Read < Frames(stream) /\ Read + 1 <= i
    BY <1>2, <2>1, InvFacts
  <2>3. CASE Text(stream, Read + 1) \notin JsonTexts
    <3>1. ~(Read + 1 < Frames(stream))
      BY <2>2, <2>3, InvFacts, StreamFacts DEF FrameOK
    <3>2. i = Read + 1
      BY <2>1, <2>2, <3>1, InvFacts
    <3> QED BY <2>1, <2>3, <3>2
  <2>4. CASE stream.frames[Read + 1].stop > written
    <3>1. stream.frames[Read + 1].stop <= stream.frames[i].stop
      BY <2>1, <2>2, InvFacts, StopsGrow
    <3>2. stream.frames[Read + 1].stop \in Nat /\ stream.frames[i].stop \in Nat
          /\ written \in Nat
      BY <2>1, <2>2, InvFacts, FrameFacts
    <3> QED BY <2>1, <2>4, <3>1, <3>2
  <2> QED BY <2>2, <2>3, <2>4
<1>3. Complete \subseteq 1..Frames(stream)
  BY DEF Complete, Messages
<1>4. \A i \in 1..Frames(stream) : i > Read \/ i \in 1..Read
  BY InvFacts
<1>5. \A i \in Complete : i \in 1..Read
  BY <1>2, <1>3, <1>4
<1>6. Complete = 1..Read
  BY <1>1, <1>5
<1> QED BY <1>6, InvFacts, UpTo

LEMMA StreamStep ==
  RInv /\ [Next]_vars => [Stream!Arrive \/ Stream!YieldNext \/ Stream!End]_(Stream!streamVars)
<1> SUFFICES ASSUME RInv, [Next]_vars
             PROVE  \/ Stream!Arrive \/ Stream!YieldNext \/ Stream!End
                    \/ UNCHANGED Stream!streamVars
  OBVIOUS
<1>a. RInv'
  BY InvStep
<1>1. ASSUME ClangdWrites PROVE Stream!Arrive \/ UNCHANGED Stream!streamVars
  <2>1. stream' = stream /\ pc' = pc /\ delivered' = delivered
    BY <1>1 DEF ClangdWrites
  <2>2. written' \in Nat /\ written <= written'
    BY <1>1, InvFacts DEF ClangdWrites
  <2>3. Complete \subseteq Complete'
    BY <2>1, <2>2, InvFacts, FrameFacts DEF Complete, Messages, Text, Frames
  <2>4. IsFiniteSet(Complete') /\ Cardinality(Complete') \in Nat
    <3>1. 1 \in Int /\ Frames(stream) \in Int
      BY InvFacts
    <3>2. IsFiniteSet(1..Frames(stream))
      BY <3>1, FS_Interval, Zenon
    <3>3. Complete' \subseteq 1..Frames(stream)
      BY <2>1 DEF Complete, Messages, Frames
    <3>4. IsFiniteSet(Complete')
      BY <3>2, <3>3, FS_Subset
    <3> QED BY <3>4, FS_CardinalityType
  <2>5. Cardinality(Complete) <= Cardinality(Complete') /\ Cardinality(Complete) \in Nat
    BY <2>3, <2>4, MessagesFinite, FS_Subset
  <2>6. CASE Cardinality(Complete') = Cardinality(Complete)
    BY <2>1, <2>6 DEF Stream!streamVars
  <2>7. CASE Cardinality(Complete') > Cardinality(Complete)
    BY <2>1, <2>4, <2>7 DEF Stream!Arrive
  <2> QED BY <2>4, <2>5, <2>6, <2>7
<1>2. ASSUME stream' = stream, written' = written, delivered' = delivered,
             pc' # "failed", pc # "failed"
      PROVE  UNCHANGED Stream!streamVars
  BY <1>2 DEF Stream!streamVars, Complete, Messages, Text, Frames
<1>3. ASSUME ClangdExits \/ UNCHANGED vars PROVE UNCHANGED Stream!streamVars
  <2>1. stream' = stream /\ written' = written /\ delivered' = delivered /\ pc' = pc
    BY <1>3 DEF ClangdExits, vars
  <2> QED BY <2>1 DEF Stream!streamVars, Complete, Messages, Text, Frames
<1>4. ASSUME ReadSome PROVE UNCHANGED Stream!streamVars
  <2>1. /\ stream' = stream /\ written' = written /\ delivered' = delivered
        /\ pc' # "failed" /\ pc # "failed"
    BY <1>4 DEF ReadSome, Wanted
  <2> QED BY <1>2, <2>1
<1>5. ASSUME HeaderLine PROVE UNCHANGED Stream!streamVars
  <2>1. /\ stream' = stream /\ written' = written /\ delivered' = delivered
        /\ pc' # "failed" /\ pc # "failed"
    BY <1>5 DEF HeaderLine
  <2> QED BY <1>2, <2>1
<1>6. ASSUME Yield PROVE Stream!YieldNext
  <2>1. /\ stream' = stream /\ written' = written /\ pc = "content" /\ pc' = "header"
        /\ delivered' = Append(delivered, Content) /\ Content \in JsonTexts
        /\ received - consumed >= content_length
    BY <1>6 DEF Yield, HasContent, BufSize
  <2>2. Len(delivered') = Len(delivered) + 1
    BY <2>1, AppendProperties DEF RInv, ReaderTypeOK
  <2>3. /\ Read + 1 \in 1..Frames(stream) /\ Content = Text(stream, Read + 1)
        /\ stream.frames[Read + 1].stop = consumed + content_length
    BY <2>1, TextHere
  <2>4. consumed + content_length <= written
    BY <2>1, InvFacts
  <2>5. \A i \in 1..(Read + 1) : i \in Complete
    <3>1. Read + 1 \in Complete
      BY <2>1, <2>3, <2>4 DEF Complete, Messages
    <3>2. \A i \in 1..Read : i \in Complete
      BY InvFacts DEF RInv, Yielded, Complete, Messages
    <3> QED BY <3>1, <3>2, InvFacts
  <2>6. Read + 1 <= Cardinality(Complete)
    <3>1. Read + 1 \in Nat
      BY InvFacts
    <3>2. Cardinality(1..(Read + 1)) = Read + 1
      BY <3>1, UpTo
    <3>3. 1..(Read + 1) \subseteq Complete
      BY <2>5
    <3> QED BY <3>2, <3>3, MessagesFinite, FS_Subset
  <2>7. Len(delivered) < Cardinality(Complete)
    BY <2>6, InvFacts, MessagesFinite DEF Read
  <2>8. Complete' = Complete
    BY <2>1 DEF Complete, Messages, Text, Frames
  <2> QED BY <2>1, <2>2, <2>7, <2>8 DEF Stream!YieldNext
<1>7. ASSUME EndOfPipe \/ ParseFails PROVE Stream!End
  <2>1. /\ stream' = stream /\ written' = written /\ delivered' = delivered
        /\ pc' = "failed"
    BY <1>7 DEF EndOfPipe, ParseFails
  <2>2. Read < Frames(stream) => \/ stream.frames[Read + 1].stop > written
                             \/ Text(stream, Read + 1) \notin JsonTexts
    <3> SUFFICES ASSUME Read < Frames(stream)
                 PROVE  \/ stream.frames[Read + 1].stop > written
                        \/ Text(stream, Read + 1) \notin JsonTexts
      OBVIOUS
    <3>1. Read + 1 \in 1..Frames(stream)
      BY InvFacts
    <3>2. CASE ParseFails
      BY <3>2, TextHere DEF ParseFails, HasContent
    <3>3. CASE EndOfPipe /\ pc = "content"
      <4>1. received - consumed < content_length /\ received = written
        BY <3>3 DEF EndOfPipe, BufSize
      <4>2. stream.frames[Read + 1].stop = consumed + content_length
        BY <3>3, TextHere
      <4> QED BY <4>1, <4>2, InvFacts
    <3>4. CASE EndOfPipe /\ pc = "header"
      <4> DEFINE f == stream.frames[Read + 1]
                 p == consumed + 1
      <4>1. LineFeeds(stream, p, written) = {}
        BY <3>4 DEF EndOfPipe, HasLine
      <4>2. p \in f.starts
        BY <3>4 DEF RInv, Position, AtLine
      <4>3. LineFeeds(stream, p, f.body - 1) # {}
        BY <3>1, <4>2, InvFacts, StreamFacts DEF FrameOK, HeaderOK
      <4>4. f.body \in Nat /\ f.stop \in Nat /\ f.body <= f.stop
        BY <3>1, InvFacts, FrameFacts
      <4>5. ~(f.body - 1 <= written)
        <5> SUFFICES ASSUME f.body - 1 <= written PROVE FALSE
          OBVIOUS
        <5>1. PICK i \in p..(f.body - 1) : stream.cells[i] = "LF"
          BY <4>3 DEF LineFeeds
        <5>2. i \in p..written
          BY <4>4, <5>1, InvFacts
        <5> QED BY <4>1, <5>1, <5>2 DEF LineFeeds
      <4> QED BY <4>4, <4>5, InvFacts
    <3> QED BY <1>7, <3>2, <3>3, <3>4 DEF EndOfPipe
  <2>3. Cardinality(Complete) = Len(delivered)
    BY <2>2, AllYielded DEF Read
  <2>4. Complete' = Complete
    BY <2>1 DEF Complete, Messages, Text, Frames
  <2> QED BY <2>1, <2>3, <2>4 DEF Stream!End
<1>8. \/ ClangdWrites \/ ClangdExits \/ UNCHANGED vars \/ ReadSome \/ HeaderLine
      \/ Yield \/ EndOfPipe \/ ParseFails
  BY DEF Next, ReadMessage
<1> QED BY <1>1, <1>3, <1>4, <1>5, <1>6, <1>7, <1>8, Zenon

(* read_message keeps what message_pump relies on: complete messages come   *)
(* out one by one, and all of them before the generator ends.               *)
THEOREM ImplementsStream == Spec => ReadsStream
<1>1. Init => Stream!StreamInit
  <2> SUFFICES ASSUME Init PROVE Stream!StreamInit
    OBVIOUS
  <2>1. RInv /\ Read = 0 /\ written = 0 /\ pc = "header"
    BY InvInit DEF Init, Read
  <2>2. Read < Frames(stream) => stream.frames[Read + 1].stop > written
    <3> SUFFICES ASSUME Read < Frames(stream) PROVE stream.frames[Read + 1].stop > written
      OBVIOUS
    <3>1. Read + 1 \in 1..Frames(stream)
      BY <2>1, InvFacts
    <3> QED BY <2>1, <3>1, InvFacts, FrameFacts
  <2>3. Cardinality(Complete) = 0
    BY <2>1, <2>2, AllYielded
  <2> QED BY <2>1, <2>3 DEF Stream!StreamInit, Read
<1> QED BY <1>1, StreamStep, Invariant, PTL DEF Spec, ReadsStream, Stream!StreamSpec
============================================================================
