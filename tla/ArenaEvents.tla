----------------------------- MODULE ArenaEvents -----------------------------
(***************************************************************************)
(* What the text of an event means (src/src/sse_parser.py, its second      *)
(* layer) and what the battle route makes of it (src/src/routes/battle.py).*)
(*                                                                         *)
(* Text is a sequence of tokens.  JSON is a token that names its shape,    *)
(* the characters of its text and a closing brace: Shape says what keys    *)
(* the object has.  A string is its characters between quotes, any other   *)
(* JSON a token.  The many spellings of a key, the roles and the ids that  *)
(* nobody reads are left out, and so are blanks in JSON.                   *)
(***************************************************************************)
EXTENDS Naturals, SequencesExt

Absent == "absent"

\* The keys of a JSON object, with its text where the shape has one.
Keys == [error |-> Absent, type |-> "", modelA |-> Absent, modelB |-> Absent, models |-> <<>>,
         delta |-> <<>>, deltaFinish |-> FALSE, text |-> <<>>, finish |-> FALSE, index |-> Absent]

Shapes == {"choice{", "last{", "a{", "b{", "stop{", "end{", "farewell{", "reveal{", "list{", "half{",
           "error{", "hush{", "wrong{", "meta{", "bare{"}

Shape(name, t) ==
    CASE name = "choice{"   -> [Keys EXCEPT !.delta = t]
      [] name = "last{"     -> [Keys EXCEPT !.delta = t, !.deltaFinish = TRUE]
      [] name = "a{"        -> [Keys EXCEPT !.text = t, !.index = "a"]
      [] name = "b{"        -> [Keys EXCEPT !.text = t, !.index = "b"]
      [] name = "stop{"     -> [Keys EXCEPT !.deltaFinish = TRUE]
      [] name = "end{"      -> [Keys EXCEPT !.type = "done"]
      [] name = "farewell{" -> [Keys EXCEPT !.type = "done", !.text = t]
      [] name = "reveal{"   -> [Keys EXCEPT !.type = "reveal", !.modelA = "m", !.modelB = "n"]
      [] name = "list{"     -> [Keys EXCEPT !.type = "reveal", !.models = <<"m", "n">>]
      [] name = "half{"     -> [Keys EXCEPT !.type = "reveal", !.modelA = "o"]
      [] name = "error{"    -> [Keys EXCEPT !.error = "said"]
      [] name = "hush{"     -> [Keys EXCEPT !.error = ""]
      [] name = "wrong{"    -> [Keys EXCEPT !.error = "raised"]
      [] name = "meta{"     -> [Keys EXCEPT !.type = "metadata", !.text = t]
      [] name = "bare{"     -> Keys

\* ArenaEvent, and what it is by default.
ArenaEvent == [kind |-> "delta", content |-> <<>>, finish |-> FALSE, index |-> Absent,
               modelA |-> Absent, modelB |-> Absent, error |-> ""]

Either(x, y) == IF x = Absent THEN y ELSE x

Reveal(c) ==
    LET listed == Len(c.models) >= 2 /\ (c.modelA = Absent \/ c.modelB = Absent)
    IN  [ArenaEvent EXCEPT !.kind = "reveal",
            !.modelA = IF listed THEN Either(c.modelA, c.models[1]) ELSE c.modelA,
            !.modelB = IF listed THEN Either(c.modelB, c.models[2]) ELSE c.modelB]

Content(c) == IF c.delta # <<>> THEN c.delta ELSE c.text

Finish(c) == \/ c.deltaFinish \/ c.finish
             \/ c.type = "done" /\ Content(c) = <<>>

\* _interpret_chunk: the first of these that applies.  An error that is neither text
\* nor an object raises AttributeError instead, which ends the stream at the routes as
\* an error event does.
Interpret(c) ==
    CASE c.error # Absent -> [ArenaEvent EXCEPT !.kind = "error", !.error = c.error]
      [] c.error = Absent /\ c.type = "reveal" -> Reveal(c)
      [] c.error = Absent /\ c.type = "metadata" -> [ArenaEvent EXCEPT !.kind = "metadata"]
      [] OTHER ->
           IF Content(c) = <<>> /\ ~Finish(c) /\ c.index = Absent
           THEN [ArenaEvent EXCEPT !.kind = "metadata"]
           ELSE [ArenaEvent EXCEPT !.kind = IF Finish(c) /\ Content(c) = <<>> THEN "done" ELSE "delta",
                                   !.content = Content(c), !.finish = Finish(c), !.index = c.index]

-----------------------------------------------------------------------------
IsInk(token) == token \notin {" ", "nl"}
Ink(data)    == FlattenSeq([i \in DOMAIN data |-> IF IsInk(data[i]) THEN <<data[i]>> ELSE <<>>])

\* JSON that is neither an object nor a string.
Scalars == {"1", "2", "7", "true", "null", "[]"}

\* JSON that begins with one of these tokens and ends with that one.
Enclosed(t, begins, end) == Len(t) > 1 /\ Head(t) \in begins /\ Last(t) = end

\* parse_arena_event: no event, or one.  What is no JSON is text, and so is a string;
\* other JSON but an object is nothing.
Parse(data) ==
    LET t      == Ink(data)
        inside == SubSeq(t, 2, Len(t) - 1)
    IN  IF t = <<>> THEN <<>>
        ELSE IF t = <<"[DONE]">> THEN <<[ArenaEvent EXCEPT !.kind = "done", !.finish = TRUE]>>
        ELSE IF Len(t) = 1 /\ Head(t) \in Scalars THEN <<>>
        ELSE IF Enclosed(t, {"quote"}, "quote")
             THEN IF inside = <<>> THEN <<>> ELSE <<[ArenaEvent EXCEPT !.content = inside]>>
        ELSE IF Enclosed(t, Shapes, "}") THEN <<Interpret(Shape(Head(t), inside))>>
        ELSE <<[ArenaEvent EXCEPT !.content = data]>>

-----------------------------------------------------------------------------
\* _run_battle: what has been collected, and the error that ends it.
Unheard == [a |-> <<>>, b |-> <<>>, modelA |-> Absent, modelB |-> Absent, failed |-> FALSE]

Hear(h, ev) ==
    CASE ev.kind = "error" /\ ev.error # "" -> [h EXCEPT !.failed = TRUE]
      [] ev.kind = "reveal" -> [h EXCEPT !.modelA = Either(ev.modelA, @),
                                         !.modelB = Either(ev.modelB, @)]
      [] ev.kind \notin {"done", "reveal"} /\ ev.content # <<>> ->
           IF ev.index \in {Absent, "a"} THEN [h EXCEPT !.a = @ \o ev.content]
           ELSE [h EXCEPT !.b = @ \o ev.content]
      [] OTHER -> h
=============================================================================
