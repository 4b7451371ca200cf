---------------------------- MODULE StreamBlocks ----------------------------
(***************************************************************************)
(* What arena.ai sends: blocks of lines, each with what it is to say, and  *)
(* what it is to say if characters of it are cut apart.  A block says it   *)
(* alone, put together by the decoder (src/src/sse_parser.py) from its     *)
(* whole lines; what it says in a stream, among others and in chunks, is   *)
(* for the stream to show.                                                 *)
(***************************************************************************)
EXTENDS EventDecoder, FiniteSets

CONSTANT Tokens   \* what the wire and the text are made of

\* Where the jth of some parts ends, in the whole of them.
EndOfPart(parts, j) == Len(FlattenSeq(SubSeq(parts, 1, j)))

\* The bytes of a block, with the blank line that ends it; where its jth line ends.
Rows(block)       == [i \in DOMAIN block.lines |-> block.lines[i] \o <<"nl">>]
Bytes(block)      == FlattenSeq(Rows(block)) \o <<"nl">>
RowsEnd(block, j) == EndOfPart(Rows(block), j)

\* The first bytes of its characters of two bytes.
Highs(block) == {i \in DOMAIN Bytes(block) : Bytes(block)[i] = "hi"}

\* What bytes are as text, if the characters that begin at `cut' are cut apart.
Glyph(bytes, cut, i) ==
    CASE bytes[i] = "hi" -> IF i \in cut THEN <<"damage">> ELSE <<"char">>
      [] bytes[i] = "lo" -> IF i - 1 \in cut THEN <<"damage">> ELSE <<>>
      [] OTHER -> <<bytes[i]>>
Text(bytes, cut, from, to) == FlattenSeq([i \in 1 .. to - from |-> Glyph(bytes, cut, from + i)])

\* What a block is to say: its text, with two replacements for a character that is
\* cut, on its side; its models; whether it fails.
Legible(block, cut) ==
    LET Before(i) == Cardinality({j \in 1 .. i : block.text[j] = "char"})
        Damaged(i) == \E h \in cut : Cardinality({g \in Highs(block) : g <= h}) = Before(i)
    IN  FlattenSeq([i \in DOMAIN block.text |->
            IF block.text[i] = "char" /\ Damaged(i) THEN <<"damage", "damage">>
            ELSE <<block.text[i]>>])

Saying(block, cut) ==
    IF block.fails THEN [Unheard EXCEPT !.failed = TRUE]
    ELSE [Unheard EXCEPT !.a = IF block.side = "a" THEN Legible(block, cut) ELSE <<>>,
                         !.b = IF block.side = "b" THEN Legible(block, cut) ELSE <<>>,
                         !.modelA = block.modelA, !.modelB = block.modelB]

\* What the decoder has of a block after j of its lines, and what the battle route
\* would hear of it.
LineText(block, cut, j) ==
    Text(Bytes(block), cut, RowsEnd(block, j - 1), RowsEnd(block, j - 1) + Len(block.lines[j]))
Assembled(block, cut) ==
    LET after[j \in 0 .. Len(block.lines)] ==
            IF j = 0 THEN Clear({}, {}) ELSE Field(after[j - 1], LineText(block, cut, j))
    IN  after
Alone(block, cut) == AfterEvent([heard |-> Unheard, started |-> FALSE],
                                Assembled(block, cut)[Len(block.lines)])

WellFormed(block) ==
    /\ block.lines \in Seq(Seq(Tokens) \ {<<>>})
    /\ \A i \in DOMAIN block.lines : ~Contains(block.lines[i], "nl")
    /\ block.text \in Seq(Tokens)
    /\ block.fails \in BOOLEAN /\ block.silent \in BOOLEAN /\ block.dispatched \in BOOLEAN

SaysWhatItSays(block) ==
    \A cut \in SUBSET Highs(block) :
        LET d == Assembled(block, cut)[Len(block.lines)]
        IN  /\ block.dispatched = IsEvent(d)
            /\ block.dispatched => /\ block.event = d.event /\ block.id = d.id /\ block.retry = d.retry
                                   /\ Alone(block, cut).heard = Saying(block, cut)
                                   /\ block.silent = ~Alone(block, cut).started
            /\ ~block.dispatched => block.silent /\ Saying(block, cut) = Unheard
=============================================================================
