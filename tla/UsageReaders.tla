----------------------------- MODULE UsageReaders -----------------------------
(***************************************************************************)
(* How the tokens a call used are found in its answer: the choice of a     *)
(* provider by the path, the extractors of that provider, and the two      *)
(* readers the proxy wraps round the body, which httputil.ReverseProxy     *)
(* reads in chunks while it copies them to the client, and then closes.    *)
(*                                                                         *)
(* One call: its reader belongs to one goroutine, and what races with it   *)
(* are the chunks the network makes and the departure of the client.       *)
(* RequestLifecycle has what follows: the attempts at settling.            *)
(***************************************************************************)
EXTENDS SSEParser, FiniteSets

CONSTANTS
    Path,       \* request paths, as sequences of their segments
    LegacyHost, \* values of UPSTREAM_HOST
    Speaks,     \* Speaks[h]: the dialect of the upstream at host h
    Answer,     \* Answer[d]: the answers of an upstream of dialect d
    Document,   \* Document[t]: the fields of the JSON text t
    Reserved    \* what the call reserved

Dialect == {"openai", "anthropic"}

Fields == {"prompt", "completion", "total", "input", "output", "msgInput", "msgOutput"}

\* The upstream at UPSTREAM_HOST speaks what the proxy reads there; an answer of
\* nothing but white space is no JSON text.
ASSUME ReadersAssumption ==
    /\ Reserved \in Nat
    /\ \A p \in Path : p \in Seq(STRING) /\ p # <<>>
    /\ \A d \in Dialect : \A a \in Answer[d] :
           a.stream \in BOOLEAN /\ a.bytes \in Seq(STRING)
    /\ \A h \in LegacyHost \cup {"api.openai.com", "api.anthropic.com"} :
           /\ h \in DOMAIN Speaks
           /\ Speaks[h] = IF h = "api.anthropic.com" THEN "anthropic" ELSE "openai"
    /\ <<>> \notin DOMAIN Document
    /\ \A t \in DOMAIN Document : \A f \in Fields : Document[t][f] \in Nat

VARIABLES
    route,      \* the upstream host and the extractors chosen
    answer,     \* the body the upstream sends, and whether it is an event stream
    delivered,  \* how many of its bytes have been read
    parser,     \* streamTap.parser
    buf,        \* settlingReader.buf
    lastUsage,  \* streamTap.lastUsage, NoUsage while hasUsage is false
    gone,       \* the request context is cancelled
    phase,      \* "reading", "ended" (a Read returned an error or EOF), "closed"
    settlements \* the settlements started, in order

readerVars ==
    <<route, answer, delivered, parser, buf, lastUsage, gone, phase, settlements>>

-----------------------------------------------------------------------------
(* provider.go, registry.go *)

NoUsage == [prompt |-> -1, completion |-> -1, total |-> -1]

RegistryForHost(host) == IF host = "api.anthropic.com" THEN "anthropic" ELSE "openai"

\* A path belongs to a provider if its first segment is the provider's name.
Resolve(path, legacy) ==
    CASE path[1] = "openai" ->
            [host |-> "api.openai.com", reads |-> RegistryForHost("api.openai.com")]
      [] path[1] = "anthropic" ->
            [host |-> "api.anthropic.com", reads |-> RegistryForHost("api.anthropic.com")]
      [] OTHER -> [host |-> legacy, reads |-> RegistryForHost(legacy)]

-----------------------------------------------------------------------------
(* openai.go, openai_stream.go, anthropic.go, anthropic_stream.go, usage.go *)

\* json.Unmarshal: white space between tokens is nothing; what is no document of
\* the language, for instance half of one, is an error.
Text(data) ==
    FlattenSeq([i \in DOMAIN data |-> IF data[i] \in Space THEN <<>> ELSE <<data[i]>>])

Total(u) == IF u.total > 0 THEN u.total ELSE u.prompt + u.completion

OpenAIUsage(doc) ==
    IF doc.prompt = 0 /\ doc.completion = 0 /\ doc.total = 0 THEN NoUsage
    ELSE [prompt |-> doc.prompt, completion |-> doc.completion, total |-> doc.total]

Tokens(in, out) == [prompt |-> in, completion |-> out, total |-> 0]

AnthropicUsage(doc) ==
    IF doc.input = 0 /\ doc.output = 0 THEN NoUsage ELSE Tokens(doc.input, doc.output)

ExtractFromJSON(reads, data) ==
    IF Text(data) \notin DOMAIN Document THEN NoUsage
    ELSE IF reads = "openai" THEN OpenAIUsage(Document[Text(data)])
    ELSE AnthropicUsage(Document[Text(data)])

\* Only message_stop counts; the usage of its message is preferred to its own.
AnthropicEvent(doc) ==
    CASE doc.type # "message_stop" -> NoUsage
      [] doc.type = "message_stop" /\ (doc.msgInput > 0 \/ doc.msgOutput > 0) ->
            Tokens(doc.msgInput, doc.msgOutput)
      [] OTHER -> AnthropicUsage(doc)

ExtractFromEvent(reads, event) ==
    IF event.done \/ Text(event.data) \notin DOMAIN Document THEN NoUsage
    ELSE IF reads = "anthropic" THEN AnthropicEvent(Document[Text(event.data)])
    ELSE LET u == ExtractFromJSON(reads, event.data)
         IN  IF Total(u) <= 0 THEN NoUsage ELSE u

-----------------------------------------------------------------------------
(* stream_tap.go, settling_reader.go *)

\* The last event that reports usage wins.
Latest(u, v) == IF v = NoUsage THEN u ELSE v

ProcessEvents(reads, last, events) ==
    FoldLeft(LAMBDA u, e : Latest(u, ExtractFromEvent(reads, e)), last, events)

\* A seeded bug: nothing remembers that a settlement was started.
SettleAlways(outcome, actual) ==
    settlements' = Append(settlements, [outcome |-> outcome, actual |-> actual])

\* once.Do: the first settlement is the only one.
SettleOnce(outcome, actual) ==
    settlements' = IF settlements # <<>> THEN settlements
                   ELSE <<[outcome |-> outcome, actual |-> actual]>>

\* A seeded bug: hasUsage is not looked at.
SettleUnchecked(u) == SettleOnce("settled", Total(u))

\* Settle at the usage found, or at the reservation when there is none.
SettleFound(u) ==
    IF u = NoUsage THEN SettleOnce("missing_usage", Reserved)
    ELSE SettleOnce("settled", Total(u))

\* finishAfterStream, after the parser p and the usage u of the bytes so far.
FinishStream(p, u) ==
    LET q == Flush([p EXCEPT !.events = <<>>])
        v == ProcessEvents(route.reads, u, q.events)
    IN  /\ SettleFound(v)
        /\ IF settlements = <<>>
           THEN parser' = [q EXCEPT !.events = <<>>] /\ lastUsage' = v
           ELSE parser' = p /\ lastUsage' = u
        /\ UNCHANGED buf

\* The bytes of a chunk are scanned, or buffered; at EOF the call is settled.
Take(chunk, eof) ==
    LET p == Feed([parser EXCEPT !.events = <<>>], chunk)
        u == ProcessEvents(route.reads, lastUsage, p.events)
    IN  IF answer.stream
        THEN IF eof THEN FinishStream([p EXCEPT !.events = <<>>], u)
             ELSE /\ parser' = [p EXCEPT !.events = <<>>]
                  /\ lastUsage' = u
                  /\ UNCHANGED <<buf, settlements>>
        ELSE /\ buf' = buf \o chunk
             /\ UNCHANGED <<parser, lastUsage>>
             /\ IF eof THEN SettleFound(ExtractFromJSON(route.reads, buf'))
                ELSE UNCHANGED settlements

Init ==
    /\ \E path \in Path, legacy \in LegacyHost : route = Resolve(path, legacy)
    /\ answer \in Answer[Speaks[route.host]]
    /\ delivered = 0
    /\ parser = NewParser
    /\ buf = <<>>
    /\ lastUsage = NoUsage
    /\ gone = FALSE
    /\ phase = "reading"
    /\ settlements = <<>>

\* Read, with the next n bytes.  The last of them may come with EOF or before it;
\* a connection that breaks ends with any other error, which settles nothing yet.
Read(n, result) ==
    /\ phase = "reading" /\ ~gone
    /\ delivered + n <= Len(answer.bytes)
    /\ result = "eof" => delivered + n = Len(answer.bytes)
    /\ n > 0 \/ result # "ok"
    /\ Take(SubSeq(answer.bytes, delivered + 1, delivered + n), result = "eof")
    /\ delivered' = delivered + n
    /\ phase' = IF result = "ok" THEN "reading" ELSE "ended"
    /\ UNCHANGED <<route, answer, gone>>

\* Read, after the client left.
ReadCancelled ==
    /\ phase = "reading" /\ gone
    /\ SettleOnce("disconnected", Reserved)
    /\ phase' = "ended"
    /\ UNCHANGED <<route, answer, delivered, parser, buf, lastUsage, gone>>

\* Close, after the copy of the body ended, or failed to write to a client that left.
CloseBody ==
    /\ phase = "ended" \/ (phase = "reading" /\ gone)
    /\ IF answer.stream THEN FinishStream(parser, lastUsage)
       ELSE /\ SettleFound(ExtractFromJSON(route.reads, buf))
            /\ UNCHANGED <<parser, buf, lastUsage>>
    /\ phase' = "closed"
    /\ UNCHANGED <<route, answer, delivered, gone>>

ClientLeaves ==
    /\ ~gone /\ phase # "closed"
    /\ gone' = TRUE
    /\ UNCHANGED <<route, answer, delivered, parser, buf, lastUsage, phase, settlements>>

Next ==
    \/ \E n \in 0..(Len(answer.bytes) - delivered), result \in {"ok", "eof", "error"} :
           Read(n, result)
    \/ ReadCancelled
    \/ CloseBody
    \/ ClientLeaves

ReadersSpec == Init /\ [][Next]_readerVars

-----------------------------------------------------------------------------
(* What bytes b say in dialect d, read off them without regard to chunks. *)

Newlines(b) == {i \in DOMAIN b : b[i] = "LF"}

\* Where lines begin and what they say; the last may have no end yet.
LineStarts(b) == {i \in DOMAIN b : i = 1 \/ i - 1 \in Newlines(b)}

LineFrom(b, i) ==
    LET ends == {j \in Newlines(b) : j >= i}
        stop == IF ends = {} THEN Len(b) ELSE Min(ends) - 1
    IN  SubSeq(b, i, IF stop >= i /\ b[stop] = "CR" THEN stop - 1 ELSE stop)

\* Where blank lines end an event, which the end of the stream does too.
Blanks(b) == {i \in LineStarts(b) : LineFrom(b, i) = <<>> /\ \E j \in Newlines(b) : j >= i}

\* The data lines, but for [DONE], of the event that ends at i.
IsData(b, i, j) ==
    /\ j \in LineStarts(b)
    /\ \A k \in Blanks(b) : k < i => k < j
    /\ IsPrefix(<<"da", "ta:">>, LineFrom(b, j))
    /\ Text(LineFrom(b, j)) # <<"da", "ta:", "[DONE]">>

\* The JSON text of the event that ends at i: what its data lines say, in order.
DataOf(b, i) ==
    FlattenSeq([j \in 1..i-1 |->
        IF IsData(b, i, j) THEN Text(SubSeq(LineFrom(b, j), 3, Len(LineFrom(b, j)))) ELSE <<>>])

\* What a JSON text says a call used in all, as an event of a stream or as a body.
Says(d, stream, text) ==
    LET doc == Document[text]
    IN  CASE text \notin DOMAIN Document -> 0
          [] text \in DOMAIN Document /\ d = "openai" ->
                IF doc.total > 0 THEN doc.total ELSE doc.prompt + doc.completion
          [] text \in DOMAIN Document /\ d = "anthropic" /\ ~stream -> doc.input + doc.output
          [] OTHER ->
                IF doc.type # "message_stop" THEN 0
                ELSE IF doc.msgInput + doc.msgOutput > 0 THEN doc.msgInput + doc.msgOutput
                ELSE doc.input + doc.output

\* What the last event that reports anything reports.
StreamSays(d, b, finished) ==
    LET ends == {i \in Blanks(b) \cup (IF finished THEN {Len(b) + 1} ELSE {}) :
                    Says(d, TRUE, DataOf(b, i)) > 0}
    IN  IF ends = {} THEN 0 ELSE Says(d, TRUE, DataOf(b, Max(ends)))

Bytes == SubSeq(answer.bytes, 1, delivered)

AnswerSays ==
    LET d == Speaks[route.host]
    IN  IF answer.stream THEN StreamSays(d, Bytes, TRUE) ELSE Says(d, FALSE, Text(Bytes))

-----------------------------------------------------------------------------
TypeOK ==
    /\ route \in [host : DOMAIN Speaks, reads : Dialect]
    /\ delivered \in 0..Len(answer.bytes)
    /\ parser.events = <<>>
    /\ phase \in {"reading", "ended", "closed"}
    /\ \A i \in DOMAIN settlements :
           /\ settlements[i].outcome \in {"settled", "missing_usage", "disconnected"}
           /\ settlements[i].actual \in Nat

\* The end of the stream, a cancelled Read and Close each want to settle: one does.
SettledOnce == Len(settlements) <= 1 /\ (phase = "closed" => settlements # <<>>)

\* The call is charged what the bytes that reached the client report, however they
\* were cut, whichever provider the path chose, whether or not a blank line or EOF
\* closed them; or its reservation if they report nothing.
ChargedAsReported ==
    \A i \in DOMAIN settlements :
        CASE settlements[i].outcome = "settled" ->
                AnswerSays > 0 /\ settlements[i].actual = AnswerSays
          [] settlements[i].outcome = "missing_usage" ->
                AnswerSays = 0 /\ settlements[i].actual = Reserved
          [] OTHER -> gone /\ settlements[i].actual = Reserved

\* The tap knows the usage of an event as soon as its blank line has come, in
\* whatever chunk: a stream that breaks then is still charged what it used.
KnownAtOnce ==
    (answer.stream /\ settlements = <<>>) =>
        StreamSays(Speaks[route.host], Bytes, FALSE) =
            IF lastUsage = NoUsage THEN 0 ELSE Total(lastUsage)
=============================================================================
