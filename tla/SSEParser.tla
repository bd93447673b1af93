------------------------------ MODULE SSEParser ------------------------------
(***************************************************************************)
(* internal/usage/sse: the parser that finds server-sent events in the     *)
(* bytes of a stream, whatever the chunks they arrive in.                  *)
(*                                                                         *)
(* A byte sequence is a sequence of tokens: "LF", "CR", "SP", ":", the two *)
(* halves "da" and "ta:" of the field name (so that a cut may fall inside  *)
(* it), "[DONE]", and tokens of JSON.  A parser is its line buffer, its    *)
(* pending data, and the events it has yielded in the call at hand.        *)
(***************************************************************************)
EXTENDS Integers, Sequences, SequencesExt

Space == {"SP", "CR", "LF"}

NewParser == [lineBuf |-> <<>>, pendingData |-> <<>>, events |-> <<>>]

Event(data) == [data |-> data, done |-> FALSE]

DoneEvent == [data |-> <<>>, done |-> TRUE]

Emit(p, event) == [p EXCEPT !.events = Append(@, event)]

\* strings.Join(parts, "\n")
Join(parts) ==
    IF parts = <<>> THEN <<>>
    ELSE Tail(FlattenSeq([i \in DOMAIN parts |-> <<"LF">> \o parts[i]]))

\* strings.TrimSpace
TrimSpace(s) ==
    LET first == SelectInSeq(s, LAMBDA x : x \notin Space)
        last == SelectLastInSeq(s, LAMBDA x : x \notin Space)
    IN  IF first = 0 THEN <<>> ELSE SubSeq(s, first, last)

\* strings.TrimSuffix(line, "\r")
TrimCR(line) == IF line # <<>> /\ Last(line) = "CR" THEN Front(line) ELSE line

FlushData(p) ==
    IF p.pendingData = <<>> THEN p
    ELSE Emit([p EXCEPT !.pendingData = <<>>], Event(Join(p.pendingData)))

\* A blank line ends an event; a comment and a field other than data are nothing;
\* "[DONE]" is an event of its own and leaves what is pending pending.
ProcessLine(p, line) ==
    LET data == TrimSpace(SubSeq(line, 3, Len(line)))
    IN  CASE line = <<>> -> FlushData(p)
          [] line # <<>> /\ ~IsPrefix(<<"da", "ta:">>, line) -> p
          [] OTHER -> IF data = <<"[DONE]">> THEN Emit(p, DoneEvent)
                      ELSE [p EXCEPT !.pendingData = Append(@, data)]

Newline(s) == SelectInSeq(s, LAMBDA x : x = "LF")

\* The first line of the buffer is taken off it.
DrainLine(p) ==
    LET idx == Newline(p.lineBuf)
    IN  ProcessLine([p EXCEPT !.lineBuf = SubSeq(@, idx + 1, Len(@))],
                    TrimCR(SubSeq(p.lineBuf, 1, idx - 1)))

\* The loop of drainLines: one iteration per newline of the buffer.
DrainStep(p, x) == IF x = "LF" THEN DrainLine(p) ELSE p

DrainLines(p) == FoldLeft(DrainStep, p, p.lineBuf)

\* A seeded bug: a chunk is taken to end at the end of a line.
FeedWhole(p, chunk) ==
    LET q == DrainLines([p EXCEPT !.lineBuf = @ \o chunk])
    IN  IF q.lineBuf = <<>> THEN q
        ELSE ProcessLine([q EXCEPT !.lineBuf = <<>>], TrimCR(q.lineBuf))

Feed(p, chunk) == DrainLines([p EXCEPT !.lineBuf = @ \o chunk])

\* A seeded bug: the last event counts only if a blank line closed it.
FlushPending(p) == DrainLines(p)

\* The end of the stream ends its last line and its last event.
Flush(p) ==
    LET q == DrainLines(p)
        r == IF q.lineBuf = <<>> THEN q
             ELSE ProcessLine([q EXCEPT !.lineBuf = <<>>], TrimCR(q.lineBuf))
    IN  FlushData(r)
=============================================================================
