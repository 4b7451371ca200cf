----------------------------- MODULE ArenaStream -----------------------------
(***************************************************************************)
(* The read loop of a stream (src/src/client.py) and the decoder of server *)
(* sent events (src/src/sse_parser.py).  Bytes arrive cut anywhere; the    *)
(* decoder assembles lines, fields and events, and each event is parsed    *)
(* and heard by the battle route before the next line is looked at: the    *)
(* generators in between are lazy.                                         *)
(*                                                                         *)
(* The wire is a sequence of tokens, of which only "hi" "lo", the bytes of *)
(* one character, can be cut apart to an effect.  Two readers: the client, *)
(* which decodes chunk by chunk, and iter_arena_events, which is given     *)
(* text and flushes the decoder at the end.                                *)
(***************************************************************************)
EXTENDS StreamBlocks

CONSTANTS Streams,   \* what arena.ai may send: sequences of blocks
          Readers,   \* a subset of {"client", "iterator"}
          MaxChunk   \* bound: the longest chunk

VARIABLES blocks,    \* what is sent: lines of fields, and what they are to say
          wire,      \* its bytes
          reader,
          arrived,   \* how many bytes have been read
          buffer,    \* text that is not handled: lines, then the begin of one
          decoder,   \* the fields of the event being assembled
          sse,       \* the last event dispatched
          heard,     \* what the battle route has collected
          started,
          stage,     \* "reading", then "ended", "empty" (502) or "failed"
          cuts       \* history: where a character was cut

sources == <<blocks, wire, reader>>
results == <<sse, heard, started>>
vars == <<sources, arrived, buffer, decoder, results, stage, cuts>>

Parts(bs)    == [i \in DOMAIN bs |-> Bytes(bs[i])]
AllBytes(bs) == FlattenSeq(Parts(bs))

\* The first byte of a character is followed by its second, and by it alone.
Encoded(bytes) == /\ bytes \in Seq(Tokens)
                  /\ \A i \in 1 .. Len(bytes) :
                        /\ bytes[i] = "hi" => i < Len(bytes) /\ bytes[i + 1] = "lo"
                        /\ bytes[i] = "lo" => i > 1 /\ bytes[i - 1] = "hi"

ASSUME StreamAssumption == /\ \A bs \in Streams : Encoded(AllBytes(bs))
                           /\ Readers \subseteq {"client", "iterator"}
                           /\ MaxChunk \in Nat

\* The blocks that are sent.
Sent == UNION {{bs[k] : k \in DOMAIN bs} : bs \in Streams}

ASSUME BlockAssumption == /\ \A bs \in Streams : bs \in Seq(Sent)
                          /\ {"char", "damage", "nl"} \subseteq Tokens
                          /\ \A block \in Sent : WellFormed(block) /\ SaysWhatItSays(block)

Init == /\ blocks \in Streams
        /\ wire = AllBytes(blocks)
        /\ reader \in Readers
        /\ arrived = 0
        /\ buffer = <<>>
        /\ decoder = Clear({}, {})
        /\ sse = Clear({}, {})
        /\ heard = Unheard
        /\ started = FALSE
        /\ stage = "reading"
        /\ cuts = {}

-----------------------------------------------------------------------------
(* Reading.                                                                *)

\* bytes.decode(errors="replace"): half a character becomes a replacement character.
Decode(bytes) == FlattenSeq([i \in DOMAIN bytes |->
    CASE bytes[i] = "hi" -> IF i < Len(bytes) THEN <<"char">> ELSE <<"damage">>
      [] bytes[i] = "lo" -> IF i = 1 THEN <<"damage">> ELSE <<>>
      [] OTHER -> <<bytes[i]>>])

HasLine  == Contains(buffer, "nl")
CutsAt(n) == wire[n] = "hi"
Chunk(n) == Decode(SubSeq(wire, arrived + 1, arrived + n))

Receive(n) == /\ stage = "reading"
              /\ ~HasLine
              /\ arrived + n <= Len(wire)
              /\ reader = "iterator" => ~CutsAt(arrived + n)
              /\ arrived' = arrived + n
              /\ cuts' = IF CutsAt(arrived + n) THEN cuts \cup {arrived + n} ELSE cuts
              /\ UNCHANGED <<sources, decoder, results, stage>>

\* Slip: the begin of a line is dropped with its chunk.
ArriveUnbuffered(n) == Receive(n) /\ buffer' = Chunk(n)

\* feed() is given the next chunk once the lines of those before are handled.
Arrive(n) == Receive(n) /\ buffer' = buffer \o Chunk(n)

-----------------------------------------------------------------------------
(* Decoding.                                                               *)

IsNewline(token) == token = "nl"
LineEnd == SelectInSeq(buffer, IsNewline)
Line    == SubSeq(buffer, 1, LineEnd - 1)
Unread  == SubSeq(buffer, LineEnd + 1, Len(buffer))

Known == [decoder |-> decoder, sse |-> sse, heard |-> heard, started |-> started]

Dispatch(d) == LET after == AfterEvent(Known, d)
               IN  /\ decoder' = after.decoder
                   /\ sse' = after.sse
                   /\ heard' = after.heard
                   /\ started' = after.started

FieldLine == /\ stage = "reading"
             /\ HasLine
             /\ Line # <<>>
             /\ decoder' = Field(decoder, Line)
             /\ buffer' = Unread
             /\ UNCHANGED <<sources, arrived, results, stage, cuts>>

BlankLine == /\ stage = "reading"
             /\ HasLine
             /\ Line = <<>>
             /\ \/ /\ IsEvent(decoder)
                   /\ Dispatch(decoder)
                   /\ stage' = IF heard'.failed THEN "failed" ELSE stage
                \/ /\ ~IsEvent(decoder)
                   /\ decoder' = Reset(decoder)
                   /\ UNCHANGED <<results, stage>>
             /\ buffer' = Unread
             /\ UNCHANGED <<sources, arrived, cuts>>

-----------------------------------------------------------------------------
(* The stream ends, where it should or before.                             *)

ClientEnds == /\ reader = "client"
              /\ stage = "reading"
              /\ ~HasLine
              /\ stage' = IF started THEN "ended" ELSE "empty"
              /\ UNCHANGED <<sources, arrived, buffer, decoder, results, cuts>>

\* Slip: what is left of a line is dropped.
FlushedFields == decoder

\* flush(): what is left of a line is one.
Flushed == IF buffer = <<>> THEN decoder ELSE Field(decoder, buffer)

IteratorEnds == /\ reader = "iterator"
                /\ stage = "reading"
                /\ ~HasLine
                /\ \/ /\ IsLastEvent(Flushed)
                      /\ Dispatch(Flushed)
                   \/ /\ ~IsLastEvent(Flushed)
                      /\ decoder' = Flushed
                      /\ UNCHANGED results
                /\ buffer' = <<>>
                /\ stage' = IF heard'.failed THEN "failed" ELSE "ended"
                /\ UNCHANGED <<sources, arrived, cuts>>

Next == \/ \E n \in 1 .. MaxChunk : Arrive(n)
        \/ FieldLine \/ BlankLine
        \/ ClientEnds \/ IteratorEnds

Spec == Init /\ [][Next]_vars

-----------------------------------------------------------------------------
(* Properties.  They compare what is heard with what was meant, block by   *)
(* block.                                                                  *)

EndOf(k)  == EndOfPart(Parts(blocks), k)
Whole     == CHOOSE k \in 0 .. Len(blocks) :
                 EndOf(k) <= arrived /\ \A j \in k + 1 .. Len(blocks) : EndOf(j) > arrived
CutsIn(k) == {i \in Highs(blocks[k]) : EndOf(k - 1) + i \in cuts}

\* What has been said after k blocks; after an error nothing is.
Failing(k) == \E j \in 1 .. k : blocks[j].fails
Said(side, k) == FlattenSeq([j \in 1 .. k |->
    IF blocks[j].side = side /\ ~Failing(j) THEN Legible(blocks[j], CutsIn(j)) ELSE <<>>])
Named(model, k) == LET named == {j \in 1 .. k : blocks[j][model] # Absent /\ ~Failing(j)}
                   IN  IF named = {} THEN Absent
                       ELSE blocks[CHOOSE j \in named : \A i \in named : i <= j][model]
Meant(k) == [a |-> Said("a", k), b |-> Said("b", k), failed |-> Failing(k),
             modelA |-> Named("modelA", k), modelB |-> Named("modelB", k)]

Settled == ~HasLine \/ stage # "reading"

\* However the bytes are cut, what is heard is what the whole blocks that have
\* arrived mean; only a character that the client cut is damaged, and only it
\* (client.py:280-286, sse_parser.py:53-122 and 151-275, battle.py:31-46).
HeardIsMeant == Settled /\ (reader = "client" \/ stage = "reading") => heard = Meant(Whole)

\* At the end: iter_arena_events has heard the last block also without its blank
\* line, or without its last newline; the client reports an empty stream if and
\* only if no whole block was an event (sse_parser.py:65-71, client.py:288-289).
NothingLostAtEnd ==
    /\ reader = "iterator" /\ stage \in {"ended", "failed"} =>
         \A k \in DOMAIN blocks : arrived \in {EndOf(k) - 2, EndOf(k) - 1} => heard = Meant(k)
    /\ stage = "empty" => \A k \in 1 .. Whole : blocks[k].silent
    /\ reader = "client" /\ stage = "ended" => \E k \in 1 .. Whole : ~blocks[k].silent

\* An event has the fields of its own block and of no earlier one
\* (sse_parser.py:99-121).
FieldsAreTheirBlocks ==
    LET events == {k \in 1 .. Whole : blocks[k].dispatched}
        last   == CHOOSE k \in events : \A j \in events : j <= k
    IN  ~HasLine /\ stage = "reading" /\ events # {} =>
            /\ sse.event = blocks[last].event
            /\ sse.id = blocks[last].id
            /\ sse.retry = blocks[last].retry

\* Cut anywhere, and handled as it comes, the stream is what it would be if it had
\* come whole: that a chunk ends in a line, in a field or in an event shows nowhere,
\* and that it ends in a character shows only there (client.py:280-286,
\* sse_parser.py:53-71).
Unhandled == buffer \o Decode(SubSeq(wire, arrived + 1, Len(wire)))

AfterLine(known, line) ==
    IF line # <<>> THEN [known EXCEPT !.decoder = Field(@, line)]
    ELSE IF IsEvent(known.decoder) THEN AfterEvent(known, known.decoder)
    ELSE [known EXCEPT !.decoder = Reset(@)]

AfterEnd(known, begin) ==
    LET d == IF begin = <<>> THEN known.decoder ELSE Field(known.decoder, begin)
    IN  IF IsLastEvent(d) THEN AfterEvent(known, d) ELSE [known EXCEPT !.decoder = d]

Beginning == [decoder |-> Clear({}, {}), sse |-> Clear({}, {}), heard |-> Unheard, started |-> FALSE]

Undivided == INSTANCE WholeStream
             WITH text <- Unhandled, known <- Known

ImplementsWhole == Undivided!Spec
=============================================================================
