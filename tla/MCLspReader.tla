----------------------------- MODULE MCLspReader -----------------------------
(* Streams are put together from pieces: a piece is a message with its     *)
(* headers, or rubbish between two messages.                               *)
EXTENDS LspReader, SequencesExt

Texts == {<<"{", "}">>, <<"{", "LF", "}">>, <<"x">>}

Message(header, text) ==
  [header |-> header \o <<"CR", "LF", "CR", "LF">>, text |-> text]
Noise(cells) == [header |-> cells, text |-> <<>>]

Plain == Message(<<"LENGTH", ":", " ", "2">>, <<"{", "}">>)
MoreHeaders == Message(<<"x", ":", "x", "LF", "LENGTH", ":", "1", "CR", "LF", "x">>, <<"x">>)
BareLines == [header |-> <<"LENGTH", ":", "3", "LF", "LF">>, text |-> <<"{", "LF", "}">>]

(* An extra line feed; headers without a usable length, and the line that  *)
(* is then no message                                                      *)
Pieces == <<Plain, MoreHeaders, BareLines,
           Noise(<<"LF">>),
           Noise(<<"LENGTH", ":", "x", "CR", "LF", "CR", "LF", "{", "}", "LF">>),
           Noise(<<"LENGTH", ":", " ", "CR", "LF", "CR", "LF", "x", "LF">>),
           Noise(<<"LENGTH", ":", "HUGE", "LF", "x", ":", "1", "LF">>),
           Noise(<<"LENGTH", ":", "0", "LF", "LF">>)>>

(* Endings: no JSON; a length that is too short; a bad length after a good *)
(* one, whose text begins with a line feed; a message that hides the next  *)
(* one, because no line feed follows it                                    *)
Endings == <<Message(<<"LENGTH", ":", "2">>, <<"}", "{">>),
            [header |-> <<"LENGTH", ":", "1", "LF", "LF">>, text |-> <<"{">>],
            [header |-> <<"LENGTH", ":", "2", "LF", "LENGTH", ":", "x", "LF">>,
             text |-> <<"LF", "{">>],
            Noise(<<"LENGTH", ":", "x", "LF", "LF", "{", "}",
                    "LENGTH", ":", "2", "LF", "LF", "{", "}">>)>>

CellsOf(p) == p.header \o p.text
Size(ps) == Len(FlattenSeq([i \in DOMAIN ps |-> CellsOf(ps[i])]))

(* The lines that start in from .. upto                                    *)
Starts(cells, from, upto) ==
  {p \in from..upto : p = from \/ cells[p - 1] = "LF"}

StreamOf(ps) ==
  LET cells == FlattenSeq([i \in DOMAIN ps |-> CellsOf(ps[i])])
      messages == {i \in DOMAIN ps : ps[i].text # <<>>}
      at(i) == Size(SubSeq(ps, 1, i - 1))
      which == SetToSortSeq(messages, <)
      stop(k) == IF k = 0 THEN 0 ELSE at(which[k]) + Len(CellsOf(ps[which[k]]))
      frame(k) ==
        LET body == at(which[k]) + Len(ps[which[k]].header) + 1
        IN  [body |-> body, stop |-> stop(k),
             starts |-> Starts(cells, stop(k - 1) + 1, body - 1),
             length |-> CHOOSE p \in (at(which[k]) + 1)..body :
                          /\ cells[p] = "LENGTH"
                          /\ p = at(which[k]) + 1 \/ cells[p - 1] = "LF"]
      last == stop(Cardinality(messages))
  IN  [cells |-> cells,
       frames |-> [k \in 1..Cardinality(messages) |-> frame(k)] \o <<>>,
       tail |-> Starts(cells, last + 1, Len(cells) + 1)]

(* Every piece and every ending behind a message, every piece before a     *)
(* message, and some of three                                              *)
Elements(ps) == {ps[i] : i \in DOMAIN ps}
Written ==
  {StreamOf(<<Plain, p>>) : p \in Elements(Pieces \o Endings)}
  \cup {StreamOf(<<p, BareLines>>) : p \in Elements(Pieces)}
  \cup {StreamOf(<<Plain, BareLines, MoreHeaders>>)}
=============================================================================
