----------------------------- MODULE WholeStream -----------------------------
(***************************************************************************)
(* What the read loop of a stream (src/src/client.py) and the decoder      *)
(* (src/src/sse_parser.py) promise, without chunks and without a buffer:   *)
(* the text is there from the beginning and is handled line by line, for   *)
(* as long as the connection lasts.  One thing only may befall it: the     *)
(* client damages a character that has not been handled yet.  What a line  *)
(* adds to what is known is a parameter.                                   *)
(***************************************************************************)
EXTENDS Naturals, Sequences

CONSTANTS Tokens, Readers,
          Beginning,         \* what is known before the first line
          AfterLine(_, _),   \* what is known after a line
          AfterEnd(_, _)     \* and after the begin of one, at the end

VARIABLES text,      \* what has not been handled
          reader,
          known,     \* a record, with what has been `heard' and whether anything `started'
          stage

vars == <<text, reader, known, stage>>

Init == /\ text \in Seq(Tokens)
        /\ reader \in Readers
        /\ known = Beginning
        /\ stage = "reading"

\* The first p tokens, which have no newline, and what comes after n of them.
Begin(p) == /\ p \in 0 .. Len(text)
            /\ \A i \in 1 .. p : text[i] # "nl"
Upto(p)  == SubSeq(text, 1, p)
After(n) == SubSeq(text, n + 1, Len(text))

\* An error that is heard ends the stream.
Unless(other) == stage' = IF known'.heard.failed THEN "failed" ELSE other

ReadLine == /\ stage = "reading"
            /\ \E p \in 0 .. Len(text) - 1 :
                  /\ Begin(p) /\ text[p + 1] = "nl"
                  /\ known' = AfterLine(known, Upto(p))
                  /\ text' = After(p + 1)
            /\ Unless("reading")
            /\ UNCHANGED reader

Damage == /\ reader = "client"
          /\ stage = "reading"
          /\ \E i \in 1 .. Len(text) :
                /\ text[i] = "char"
                /\ text' = Upto(i - 1) \o <<"damage", "damage">> \o After(i)
          /\ UNCHANGED <<reader, known, stage>>

\* The connection ends, there or earlier; the client leaves the begin of a line.
ClientEnds == /\ reader = "client"
              /\ stage = "reading"
              /\ stage' = IF known.started THEN "ended" ELSE "empty"
              /\ UNCHANGED <<text, reader, known>>

\* The iterator takes it for a line, and what it has for an event.
IteratorEnds == /\ reader = "iterator"
                /\ stage = "reading"
                /\ \E p \in 0 .. Len(text) :
                      /\ Begin(p)
                      /\ known' = AfterEnd(known, Upto(p))
                      /\ text' = After(p)
                /\ Unless("ended")
                /\ UNCHANGED reader

Next == ReadLine \/ Damage \/ ClientEnds \/ IteratorEnds

Spec == Init /\ [][Next]_vars
=============================================================================
