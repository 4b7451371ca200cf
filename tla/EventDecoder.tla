---------------------------- MODULE EventDecoder ----------------------------
(***************************************************************************)
(* What SSEDecoder (src/src/sse_parser.py) makes of a line: the fields of  *)
(* the event being assembled, and the event that is dispatched.            *)
(***************************************************************************)
EXTENDS ArenaEvents

\* A field that is None is the empty set.
Clear(comment, lastId) == [event |-> {}, data |-> <<>>, id |-> {}, retry |-> {},
                           comment |-> comment, lastId |-> lastId]

IsColon(token) == token = ":"

\* _handle_line, for a line that is not blank.
Field(d, line) ==
    LET colon == SelectInSeq(line, IsColon)
        name  == IF colon = 0 THEN line ELSE SubSeq(line, 1, colon - 1)
        rest  == IF colon = 0 THEN <<>> ELSE SubSeq(line, colon + 1, Len(line))
        value == IF rest # <<>> /\ rest[1] = " " THEN Tail(rest) ELSE rest
    IN  CASE colon = 1         -> [d EXCEPT !.comment = {Ink(rest)}]
          [] name = <<"event">> -> [d EXCEPT !.event = {value}]
          [] name = <<"data">>  -> [d EXCEPT !.data = Append(@, value)]
          [] name = <<"id">>    -> [d EXCEPT !.id = {value}]
          [] name = <<"retry">> -> IF value = <<"7">> THEN [d EXCEPT !.retry = {value}] ELSE d
          [] OTHER -> d

\* Slip: the id is kept for the next event.
ResetButId(d) == [Clear(d.comment, d.lastId) EXCEPT !.id = d.id]

\* _reset: the last comment stays.
Reset(d) == Clear(d.comment, d.lastId)

Truthy(field)  == field # {} /\ field # {<<>>}
IsEvent(d)     == d.data # <<>> \/ d.event # {} \/ d.id # {}
IsLastEvent(d) == d.data # <<>> \/ Truthy(d.event) \/ Truthy(d.id)
Identified(d)  == IF Truthy(d.id) THEN [d EXCEPT !.lastId = d.id] ELSE d
Joined(pieces) == FlattenSeq([i \in DOMAIN pieces |->
                      IF i = 1 THEN pieces[i] ELSE <<"nl">> \o pieces[i]])

\* _dispatch, when it yields an event: what is known then.  What the event parses to
\* is heard at once.
AfterEvent(known, d) ==
    LET events == Parse(Joined(d.data))
    IN  [decoder |-> Reset(Identified(d)),
         sse     |-> [Identified(d) EXCEPT !.data = Joined(d.data)],
         heard   |-> IF events = <<>> THEN known.heard ELSE Hear(known.heard, events[1]),
         started |-> known.started \/ events # <<>>]
=============================================================================
