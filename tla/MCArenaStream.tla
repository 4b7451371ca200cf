---------------------------- MODULE MCArenaStream ----------------------------
(* Streams of up to two blocks.  A block is a payload that means something,*)
(* dressed as one line, as JSON over two data lines among other fields, or *)
(* without the space; some blocks have no data at all.                     *)
EXTENDS ArenaStream

MCTokens == STRING

Nothing == [lines |-> <<>>, side |-> Absent, text |-> <<>>, modelA |-> Absent, modelB |-> Absent,
            fails |-> FALSE, silent |-> FALSE, dispatched |-> TRUE,
            event |-> {}, id |-> {}, retry |-> {}]

Say(shape, side, bytes, text) ==
    [Nothing EXCEPT !.lines = <<shape, bytes>>, !.side = side, !.text = text]
Tell(shape) == [Nothing EXCEPT !.lines = <<shape, <<>>>>]

Sayings == {Say("choice{", "a", <<"hi", "lo">>, <<"char">>),
            Say("last{", "a", <<"x">>, <<"x">>),
            Say("a{", "a", <<"y">>, <<"y">>),
            Say("b{", "b", <<"hi", "lo", "x", "hi", "lo">>, <<"char", "x", "char">>),
            Say("farewell{", "a", <<"x">>, <<"x">>)}
Tellings == {Tell("stop{"), Tell("end{"), Tell("hush{"), Tell("meta{"), Tell("bare{"),
             [Tell("error{") EXCEPT !.fails = TRUE], [Tell("wrong{") EXCEPT !.fails = TRUE],
             [Tell("reveal{") EXCEPT !.modelA = "m", !.modelB = "n"],
             [Tell("list{") EXCEPT !.modelA = "m", !.modelB = "n"],
             [Tell("half{") EXCEPT !.modelA = "o"]}

Plain(p) == [p EXCEPT !.lines = << <<"data", ":", " ", p.lines[1]>> \o p.lines[2] \o <<"}">> >>]
Dressed(p) == [p EXCEPT !.lines = << <<":", "note">>,
                                     <<"event", ":", " ", "e">>,
                                     <<"retry", ":", "7">>,
                                     <<"data", ":", p.lines[1]>>,
                                     <<"data", ":", " ">> \o p.lines[2] \o <<"}">> >>,
                        !.event = {<<"e">>}, !.retry = {<<"7">>}]
Numbered(p) == [p EXCEPT !.lines = << <<"id", ":", " ", "1">>, <<"other", ":", "1">>,
                                      <<"data", ":", p.lines[1]>> \o p.lines[2] \o <<"}">> >>,
                         !.id = {<<"1">>}]

Bare == {[Nothing EXCEPT !.lines = << <<"data", ":", " ", "[DONE]">> >>],
         [Nothing EXCEPT !.lines = << <<"data", ":", "x", "hi", "lo">> >>,
                         !.side = "a", !.text = <<"x", "char">>],
         [Nothing EXCEPT !.lines = << <<"data", ":", "quote", "x", "hi", "lo", "quote">> >>,
                         !.side = "a", !.text = <<"x", "char">>],
         [Nothing EXCEPT !.lines = << <<"data", ":", "quote", "quote">> >>, !.silent = TRUE],
         [Nothing EXCEPT !.lines = << <<"data", ":", " ", "7">> >>, !.silent = TRUE],
         [Nothing EXCEPT !.lines = << <<":", " ", "ping">> >>, !.silent = TRUE, !.dispatched = FALSE],
         [Nothing EXCEPT !.lines = << <<"id", ":", "2">> >>, !.silent = TRUE, !.id = {<<"2">>}],
         [Nothing EXCEPT !.lines = << <<"retry", ":", "x">> >>, !.silent = TRUE, !.dispatched = FALSE],
         [Nothing EXCEPT !.lines = << <<"data">> >>, !.silent = TRUE]}

Payloads == Sayings \cup Tellings
Blocks   == Bare \cup {Plain(p) : p \in Payloads} \cup {Dressed(p) : p \in Payloads}
                 \cup {Numbered(p) : p \in Payloads}
MCStreams == {<<b>> : b \in Blocks} \cup (Blocks \X (Bare \cup {Plain(p) : p \in Payloads}))
=============================================================================
