---------------------------- MODULE MCUsageReaders ----------------------------
(***************************************************************************)
(* Every stream of three lines of each dialect, and of four of the lines   *)
(* that matter most with either kind of line ending; a few bodies.  "u2"  *)
(* is a JSON text that reports 2 tokens, "h1" and "h2" the halves of one   *)
(* that reports 4, "no" one without usage.                                 *)
(***************************************************************************)
EXTENDS UsageReaders

Blank == [type |-> "none", prompt |-> 0, completion |-> 0, total |-> 0,
          input |-> 0, output |-> 0, msgInput |-> 0, msgOutput |-> 0]

\* "u3" has no total; "m5" is a message_stop with a usage of its own besides its
\* message's, "m2" one with only its own, "delta" a message_delta.
MCDocument ==
    (<<"u2">> :> [Blank EXCEPT !.prompt = 1, !.completion = 1, !.total = 2])
    @@ (<<"u3">> :> [Blank EXCEPT !.prompt = 1, !.completion = 2])
    @@ (<<"h1", "h2">> :> [Blank EXCEPT !.prompt = 2, !.completion = 1, !.total = 4])
    @@ (<<"no">> :> Blank)
    @@ (<<"m5">> :> [Blank EXCEPT !.type = "message_stop", !.msgInput = 2, !.msgOutput = 3,
                                  !.output = 1])
    @@ (<<"m2">> :> [Blank EXCEPT !.type = "message_stop", !.input = 1, !.output = 1])
    @@ (<<"delta">> :> [Blank EXCEPT !.type = "message_delta", !.output = 1])
    @@ (<<"body">> :> [Blank EXCEPT !.type = "message", !.input = 1, !.output = 2])

Data(t) == <<"da", "ta:", "SP", t>>

Lines(d) ==
    {<<>>, <<":", "u2">>, <<"event", "SP", "x">>}
    \cup (IF d = "openai"
          THEN {Data("u2"), Data("u3"), Data("no"), Data("h1"), <<"da", "ta:", "h2">>,
                Data("[DONE]")}
          ELSE {Data("m5"), <<"da", "ta:", "m2">>, Data("delta")})

\* The lines that matter most, for longer streams.
Core(d) ==
    {<<>>} \cup (IF d = "openai"
                THEN {Data("u2"), Data("u3"), Data("h1"), <<"da", "ta:", "h2">>}
                ELSE {Data("m5"), <<"da", "ta:", "m2">>, Data("delta")})

Wire(ls, e) == FlattenSeq([i \in DOMAIN ls |-> ls[i] \o e])

\* A stream may break anywhere, so the ones that end in half a line need no more.
Streams(L, n, e) == {[stream |-> TRUE, bytes |-> Wire(ls, e)] : ls \in [1..n -> L]}

Bodies(d) ==
    {[stream |-> FALSE, bytes |-> b] :
        b \in IF d = "openai"
              THEN {<<>>, <<"u2">>, <<"h1", "LF", "h2", "LF">>, <<"h1", "CR", "LF", "h2">>,
                    <<"no">>, <<"u2", "u2">>}
              ELSE {<<>>, <<"body", "LF">>, <<"no">>}}

MCAnswer == [d \in Dialect |-> 
    Bodies(d) \cup Streams(Lines(d), 3, <<"LF">>)
    \cup Streams(Core(d), 4, <<"LF">>) \cup Streams(Core(d), 4, <<"CR", "LF">>)]

MCPath == {<<"openai">>, <<"openai", "v1">>, <<"anthropic", "v1">>, <<"openaix", "v1">>, <<"v1">>}
MCLegacyHost == {"api.openai.com", "api.anthropic.com"}
MCSpeaks == [h \in MCLegacyHost |-> IF h = "api.anthropic.com" THEN "anthropic" ELSE "openai"]
MCReserved == 1
=============================================================================
