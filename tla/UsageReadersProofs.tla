-------------------------- MODULE UsageReadersProofs --------------------------
(***************************************************************************)
(* However the answer of a call is cut into chunks, breaks or is left by   *)
(* its client, it is charged what its bytes report, once.                  *)
(*                                                                         *)
(* The argument compares the parser, which sees chunks, with the reference *)
(* reading StreamSays, which sees all the bytes.  After m bytes the two    *)
(* agree when the buffer is the last line begun, what is pending is the    *)
(* data of its event, and the usage known is what the ended events say     *)
(* (Matches).  A byte that is no newline changes neither side (StepPlain); *)
(* a newline ends a line, which is blank (StepBlank) or not (StepLine) for *)
(* both (ByteStep).  Where the chunks end plays no part (FeedMatches), and *)
(* the end of the stream ends a line and an event for both (FlushMatches). *)
(***************************************************************************)
EXTENDS UsageReaders, SSEParserProofs

-----------------------------------------------------------------------------
(* What the extractors find, and the tap keeps, is what a text says. *)

\* What the tap and the extractors keep: nothing, or counts that are not all zero.
Usage == {NoUsage} \cup {v \in [prompt : Nat, completion : Nat, total : Nat] : Total(v) > 0}

\* The tokens a usage stands for.
Used(u) == IF u = NoUsage THEN 0 ELSE Total(u)

\* The usage v counts n tokens, and is none if there are none.
Agrees(v, n) == v \in Usage /\ Used(v) = n /\ n \in Nat /\ (v = NoUsage <=> n = 0)

\* No usage is no tokens.
LEMMA AgreeNone == Agrees(NoUsage, 0)
BY DEF Agrees, Usage, Used

\* A usage counts its total.
LEMMA AgreeSome ==
    ASSUME NEW v \in [prompt : Nat, completion : Nat, total : Nat], Total(v) # 0
    PROVE  Agrees(v, Total(v))
<1>1. v # NoUsage /\ Total(v) \in Nat
  BY DEF NoUsage, Total
<1> QED
  BY <1>1 DEF Agrees, Usage, Used

\* OpenAI's counts: the total if it is there, else the sum.
LEMMA AgreeCounts ==
    ASSUME NEW a \in Nat, NEW b \in Nat, NEW c \in Nat, ~(a = 0 /\ b = 0 /\ c = 0)
    PROVE  Agrees([prompt |-> a, completion |-> b, total |-> c], IF c > 0 THEN c ELSE a + b)
<1> DEFINE v == [prompt |-> a, completion |-> b, total |-> c]
<1>1. v \in [prompt : Nat, completion : Nat, total : Nat]
  OBVIOUS
<1>2. Total(v) = (IF c > 0 THEN c ELSE a + b)
  BY DEF Total
<1>3. (IF c > 0 THEN c ELSE a + b) # 0
  OBVIOUS
<1> HIDE DEF v
<1>4. Agrees(v, IF c > 0 THEN c ELSE a + b)
  BY <1>1, <1>2, <1>3, AgreeSome
<1> QED
  BY <1>4 DEF v

\* Anthropic's counts: the sum.
LEMMA AgreeTokens ==
    ASSUME NEW a \in Nat, NEW b \in Nat, ~(a = 0 /\ b = 0)
    PROVE  Agrees(Tokens(a, b), a + b)
<1>1. ~(0 > 0) /\ 0 \in Nat
  OBVIOUS
<1> QED
  BY <1>1, AgreeCounts DEF Tokens

\* ExtractFromJSON finds what the text of a body says.
LEMMA JSONSays ==
    ASSUME NEW d \in Dialect, NEW data
    PROVE  Agrees(ExtractFromJSON(d, data), Says(d, FALSE, Text(data)))
<1> DEFINE t == Text(data)
           v == ExtractFromJSON(d, data)
           n == Says(d, FALSE, t)
<1> SUFFICES Agrees(v, n)
  OBVIOUS
<1>1. CASE t \notin DOMAIN Document
  <2>1. v = NoUsage /\ n = 0
    BY <1>1 DEF ExtractFromJSON, Says
  <2> HIDE DEF v, n
  <2> QED
    BY <2>1, AgreeNone
<1>2. CASE t \in DOMAIN Document
  <2> DEFINE doc == Document[t]
             a == doc.prompt
             b == doc.completion
             c == doc.total
             i == doc.input
             o == doc.output
  <2>1. a \in Nat /\ b \in Nat /\ c \in Nat /\ i \in Nat /\ o \in Nat
    BY <1>2, ReadersAssumption DEF Fields
  <2>2. CASE d = "openai"
    <3>1. v = IF a = 0 /\ b = 0 /\ c = 0 THEN NoUsage
              ELSE [prompt |-> a, completion |-> b, total |-> c]
      BY <1>2, <2>2 DEF ExtractFromJSON, OpenAIUsage
    <3>2. n = IF c > 0 THEN c ELSE a + b
      BY <1>2, <2>2 DEF Says
    <3> HIDE DEF a, b, c, v, n
    <3>3. CASE a = 0 /\ b = 0 /\ c = 0
      <4>1. v = NoUsage /\ n = 0
        BY <3>1, <3>2, <3>3
      <4> QED
        BY <4>1, AgreeNone
    <3>4. CASE ~(a = 0 /\ b = 0 /\ c = 0)
      <4>1. v = [prompt |-> a, completion |-> b, total |-> c]
        BY <3>1, <3>4
      <4> QED
        BY <2>1, <3>2, <3>4, <4>1, AgreeCounts
    <3> QED
      BY <3>3, <3>4
  <2>3. CASE d = "anthropic"
    <3>1. v = IF i = 0 /\ o = 0 THEN NoUsage ELSE Tokens(i, o)
      BY <1>2, <2>3 DEF ExtractFromJSON, AnthropicUsage
    <3>2. n = i + o
      BY <1>2, <2>3 DEF Says
    <3> HIDE DEF i, o, v, n
    <3>3. CASE i = 0 /\ o = 0
      <4>1. v = NoUsage /\ n = 0
        BY <3>1, <3>2, <3>3
      <4> QED
        BY <4>1, AgreeNone
    <3>4. CASE ~(i = 0 /\ o = 0)
      BY <2>1, <3>1, <3>2, <3>4, AgreeTokens
    <3> QED
      BY <3>3, <3>4
  <2> QED
    BY <2>2, <2>3 DEF Dialect
<1> QED
  BY <1>1, <1>2

\* ExtractFromEvent finds what the text of an event says.
LEMMA EventSays ==
    ASSUME NEW d \in Dialect, NEW e, ~e.done
    PROVE  Agrees(ExtractFromEvent(d, e), Says(d, TRUE, Text(e.data)))
<1> DEFINE t == Text(e.data)
           v == ExtractFromEvent(d, e)
           n == Says(d, TRUE, t)
<1> SUFFICES Agrees(v, n)
  OBVIOUS
<1>1. CASE t \notin DOMAIN Document
  <2>1. v = NoUsage /\ n = 0
    BY <1>1 DEF ExtractFromEvent, Says
  <2> HIDE DEF v, n
  <2> QED
    BY <2>1, AgreeNone
<1>2. CASE t \in DOMAIN Document /\ d = "openai"
  <2> DEFINE u == ExtractFromJSON(d, e.data)
  <2>1. n = Says(d, FALSE, t)
    BY <1>2 DEF Says
  <2>2. Agrees(u, n)
    BY <2>1, JSONSays
  <2>3. v = IF Total(u) <= 0 THEN NoUsage ELSE u
    BY <1>2 DEF ExtractFromEvent
  <2> HIDE DEF u, v, n
  <2>4. CASE u = NoUsage
    BY <2>2, <2>3, <2>4
  <2>5. CASE u # NoUsage
    <3>1. Total(u) = n
      BY <2>2, <2>5 DEF Agrees, Used
    <3>2. n \in Nat /\ n # 0
      BY <2>2, <2>5 DEF Agrees
    <3>3. v = u
      BY <2>3, <3>1, <3>2
    <3> QED
      BY <2>2, <3>3
  <2> QED
    BY <2>4, <2>5
<1>3. CASE t \in DOMAIN Document /\ d = "anthropic"
  <2> DEFINE doc == Document[t]
             a == doc.msgInput
             b == doc.msgOutput
             i == doc.input
             o == doc.output
             stop == doc.type = "message_stop"
  <2>1. a \in Nat /\ b \in Nat /\ i \in Nat /\ o \in Nat
    BY <1>3, ReadersAssumption DEF Fields
  <2>2. v = IF ~stop THEN NoUsage ELSE IF a > 0 \/ b > 0 THEN Tokens(a, b)
            ELSE IF i = 0 /\ o = 0 THEN NoUsage ELSE Tokens(i, o)
    BY <1>3 DEF ExtractFromEvent, AnthropicEvent, AnthropicUsage
  <2>3. n = IF ~stop THEN 0 ELSE IF a + b > 0 THEN a + b ELSE i + o
    BY <1>3 DEF Says
  <2> HIDE DEF a, b, i, o, v, n, stop
  <2>4. CASE ~stop \/ (~(a > 0 \/ b > 0) /\ i = 0 /\ o = 0)
    <3>1. v = NoUsage /\ n = 0
      BY <2>1, <2>2, <2>3, <2>4
    <3> QED
      BY <3>1, AgreeNone
  <2>5. CASE stop /\ (a > 0 \/ b > 0)
    <3>1. v = Tokens(a, b) /\ n = a + b /\ ~(a = 0 /\ b = 0)
      BY <2>1, <2>2, <2>3, <2>5
    <3> QED
      BY <2>1, <3>1, AgreeTokens
  <2>6. CASE stop /\ ~(a > 0 \/ b > 0) /\ ~(i = 0 /\ o = 0)
    <3>1. v = Tokens(i, o) /\ n = i + o
      BY <2>1, <2>2, <2>3, <2>6
    <3> QED
      BY <2>1, <2>6, <3>1, AgreeTokens
  <2> QED
    BY <2>4, <2>5, <2>6
<1> QED
  BY <1>1, <1>2, <1>3 DEF Dialect

\* "[DONE]" says nothing.
LEMMA DoneSays ==
    ASSUME NEW d, NEW e, e.done
    PROVE  ExtractFromEvent(d, e) = NoUsage
BY DEF ExtractFromEvent

\* The latest usage is a usage.
LEMMA LatestType ==
    ASSUME NEW d \in Dialect, NEW u \in Usage, NEW e
    PROVE  Latest(u, ExtractFromEvent(d, e)) \in Usage
<1>1. CASE e.done
  BY <1>1, DoneSays DEF Latest
<1>2. CASE ~e.done
  <2>1. ExtractFromEvent(d, e) \in Usage
    BY <1>2, EventSays DEF Agrees
  <2> QED
    BY <2>1 DEF Latest
<1> QED
  BY <1>1, <1>2

\* r runs through the usages of the loop over the events es from u.
IsFold(r, d, u, es) ==
    /\ r[0] = u
    /\ \A k \in 0..Len(es)-1 : r[k + 1] = Latest(r[k], ExtractFromEvent(d, es[k + 1]))

\* ProcessEvents is the last of the running usages.
LEMMA FoldIs ==
    ASSUME NEW d \in Dialect, NEW u \in Usage, NEW es \in Events, NEW r, IsFold(r, d, u, es)
    PROVE  ProcessEvents(d, u, es) = r[Len(es)]
<1> DEFINE n == Len(es)
           Step(v, k) == Latest(v, ExtractFromEvent(d, es[k]))
           g == [x \in (1..n) \X Usage |-> Step(x[2], x[1])]
           P(h) == h = [s \in SUBSET (1..n) |->
                           IF s = {} THEN u ELSE Step(h[s \ {Max(s)}], Max(s))]
           H == CHOOSE h : P(h)
<1>1. n \in Nat /\ DOMAIN es = 1..n
  BY LenProperties DEF Events
<1>2. \A k \in 1..n, v \in Usage : Step(v, k) \in Usage
  BY LatestType
<1>3. ProcessEvents(d, u, es) = H[1..n]
  BY <1>1 DEF ProcessEvents, FoldLeft, MapThenFoldSet
<1>4. r[0] = u /\ \A k \in 0..n-1 : r[k + 1] = Step(r[k], k + 1)
  BY DEF IsFold
<1> HIDE DEF Step
<1>5. g \in Steps(Usage, n) /\ \A k \in 1..n, q \in Usage : g[<<k, q>>] = Step(q, k)
  BY <1>2 DEF Steps
<1>6. \E h : P(h)
  <2> HIDE DEF n
  <2>1. PICK h : IsSetRun(h, Usage, u, n, g)
    <3> HIDE DEF g
    <3> QED
      BY <1>1, <1>5, SetRecursion
  <2>2. ASSUME NEW s \in SUBSET (1..n), s # {}
        PROVE  g[<<Max(s), h[s \ {Max(s)}]>>] = Step(h[s \ {Max(s)}], Max(s))
    <3>1. Max(s) \in 1..n
      BY <1>1, <2>2, MaxOfSome
    <3>2. s \ {Max(s)} \in SUBSET (1..n)
      OBVIOUS
    <3>3. h[s \ {Max(s)}] \in Usage
      BY <2>1, <3>2 DEF IsSetRun
    <3> HIDE DEF g
    <3> QED
      BY <1>5, <3>1, <3>3
  <2>3. \A s \in SUBSET (1..n) :
           h[s] = IF s = {} THEN u ELSE Step(h[s \ {Max(s)}], Max(s))
    <3> HIDE DEF g
    <3> QED
      BY <2>1, <2>2 DEF IsSetRun
  <2>4. h \in [SUBSET (1..n) -> Usage]
    BY <2>1 DEF IsSetRun
  <2>5. P(h)
    <3> HIDE DEF g
    <3> QED
      BY <2>3, <2>4
  <2> QED
    BY <2>5
<1>7. P(H)
  <2> HIDE DEF P
  <2> QED
    BY <1>6
<1> HIDE DEF H, g
<1>8. \A s \in SUBSET (1..n) :
         H[s] = IF s = {} THEN u ELSE Step(H[s \ {Max(s)}], Max(s))
  <2> HIDE DEF n
  <2> QED
    BY <1>7
<1> HIDE DEF P
<1> DEFINE T == {k \in 0..n : H[1..k] = r[k]}
<1> HIDE DEF n
<1>9. 0 \in T
  <2>1. 1..0 = {} /\ {} \in SUBSET (1..n)
    OBVIOUS
  <2>2. H[{}] = u
    BY <1>8, <2>1
  <2>3. H[1..0] = r[0] /\ 0 \in 0..n
    BY <1>1, <1>4, <2>1, <2>2
  <2> QED
    BY <2>3
<1>10. ASSUME NEW k \in 0..n-1, k \in T PROVE k + 1 \in T
  <2>1. k + 1 \in Nat \ {0} /\ (k + 1) - 1 = k /\ k + 1 \in 0..n
    BY <1>1
  <2>2. Max(1..k+1) = k + 1 /\ (1..k+1) \ {k + 1} = 1..k
    BY <2>1, MaxOfInterval
  <2>3. 1..k+1 \in SUBSET (1..n) /\ 1..k+1 # {}
    BY <1>1
  <2>4. H[1..k+1] = Step(H[1..k], k + 1)
    BY <1>8, <2>2, <2>3
  <2> QED
    BY <1>4, <1>10, <2>1, <2>4
<1>11. n \in T
  <2> HIDE DEF T
  <2>1. \A k \in 0..n-1 : k \in T => k + 1 \in T
    BY <1>10
  <2>2. n \in Nat /\ n \in 0..n
    BY <1>1
  <2>3. \A k \in 0..n : k \in T
    BY ONLY <1>9, <2>1, <2>2, UpTo
  <2> QED
    BY <2>2, <2>3
<1>12. ProcessEvents(d, u, es) = r[n]
  BY <1>3, <1>11
<1> QED
  BY <1>12 DEF n

\* The loop over the events of a call has a run, of usages.
LEMMA FoldRuns ==
    ASSUME NEW d \in Dialect, NEW u \in Usage, NEW es \in Events
    PROVE  \E r : IsFold(r, d, u, es) /\ \A k \in 0..Len(es) : r[k] \in Usage
<1> DEFINE n == Len(es)
           Step(v, k) == Latest(v, ExtractFromEvent(d, es[k]))
           g == [x \in (1..n) \X Usage |-> Step(x[2], x[1])]
<1>1. n \in Nat
  BY LenProperties DEF Events
<1>2. \A k \in 1..n, v \in Usage : Step(v, k) \in Usage
  BY LatestType
<1> HIDE DEF Step
<1>3. g \in Steps(Usage, n) /\ \A k \in 1..n, q \in Usage : g[<<k, q>>] = Step(q, k)
  BY <1>2 DEF Steps
<1> HIDE DEF n, g
<1>4. PICK r : IsRun(r, Usage, u, n, g)
  BY <1>1, <1>3, Recursion
<1>5. r[0] = u /\ \A k \in 0..n : r[k] \in Usage
  BY <1>4 DEF IsRun
<1>6. ASSUME NEW k \in 0..n-1 PROVE r[k + 1] = Step(r[k], k + 1)
  <2>1. k + 1 \in 1..n /\ k \in 0..n
    BY <1>1
  <2>2. r[k + 1] = g[<<k + 1, r[k]>>]
    BY <1>4 DEF IsRun
  <2> QED
    BY <1>3, <1>5, <2>1, <2>2
<1> QED
  BY <1>5, <1>6 DEF IsFold, n, Step

\* processEvents leaves a usage.
LEMMA ProcessType ==
    ASSUME NEW d \in Dialect, NEW u \in Usage, NEW es \in Events
    PROVE  ProcessEvents(d, u, es) \in Usage
<1>1. PICK r : IsFold(r, d, u, es) /\ \A k \in 0..Len(es) : r[k] \in Usage
  BY FoldRuns
<1>2. Len(es) \in 0..Len(es)
  BY LenProperties DEF Events
<1> QED
  BY <1>1, <1>2, FoldIs

\* No event changes nothing.
LEMMA ProcessNone ==
    ASSUME NEW d \in Dialect, NEW u \in Usage
    PROVE  ProcessEvents(d, u, <<>>) = u
<1> DEFINE es == <<>>
<1>1. es \in Events /\ Len(es) = 0
  BY EmptySeq DEF Events
<1>2. PICK r : IsFold(r, d, u, es)
  <2> HIDE DEF es
  <2> QED
    BY <1>1, FoldRuns
<1>3. ProcessEvents(d, u, es) = r[0]
  <2> HIDE DEF es
  <2> QED
    BY <1>1, <1>2, FoldIs
<1> QED
  BY <1>2, <1>3 DEF IsFold

\* One more event is looked at last.
LEMMA ProcessMore ==
    ASSUME NEW d \in Dialect, NEW u \in Usage, NEW es \in Events,
           NEW e \in [data : Line, done : BOOLEAN]
    PROVE  ProcessEvents(d, u, Append(es, e)) =
               Latest(ProcessEvents(d, u, es), ExtractFromEvent(d, e))
<1> DEFINE n == Len(es)
           fs == Append(es, e)
<1>1. n \in Nat /\ fs \in Events /\ Len(fs) = n + 1 /\ fs[n + 1] = e
      /\ \A i \in 1..n : fs[i] = es[i]
  BY AppendProperties, LenProperties DEF Events
<1> HIDE DEF n, fs
<1>2. PICK r : IsFold(r, d, u, fs)
  BY <1>1, FoldRuns
<1>3. r[0] = u /\ \A k \in 0..n : r[k + 1] = Latest(r[k], ExtractFromEvent(d, fs[k + 1]))
  BY <1>1, <1>2 DEF IsFold
<1>4. ASSUME NEW k \in 0..n-1 PROVE r[k + 1] = Latest(r[k], ExtractFromEvent(d, es[k + 1]))
  <2>1. k \in 0..n /\ k + 1 \in 1..n
    BY <1>1
  <2> QED
    BY <1>1, <1>3, <2>1
<1>5. IsFold(r, d, u, es)
  BY <1>3, <1>4 DEF IsFold, n
<1>6. ProcessEvents(d, u, es) = r[n] /\ ProcessEvents(d, u, fs) = r[n + 1]
  BY <1>1, <1>2, <1>5, FoldIs DEF n
<1>7. r[n + 1] = Latest(r[n], ExtractFromEvent(d, e))
  BY <1>1, <1>3
<1> QED
  BY <1>6, <1>7 DEF fs

-----------------------------------------------------------------------------
(* The text of a line. *)

\* What a token adds to a text.
Word(x) == IF x \in Space THEN <<>> ELSE <<x>>

\* A token is a word or nothing.
LEMMA WordType ==
    ASSUME NEW x \in Token
    PROVE  Word(x) \in Line
<1>1. <<>> \in Line /\ Append(<<>>, x) \in Line
  BY EmptySeq, AppendProperties DEF Line
<1>2. Append(<<>>, x) = <<x>>
  OBVIOUS
<1> QED
  BY <1>1, <1>2 DEF Word

\* The words of a line are lines.
LEMMA TextParts ==
    ASSUME NEW s \in Line
    PROVE  AreSeqs([i \in 1..Len(s) |-> Word(s[i])], Len(s), Token)
<1>1. \A i \in 1..Len(s) : Word(s[i]) \in Line
  BY ElementOfSeq, WordType DEF Line
<1> QED
  BY <1>1 DEF AreSeqs, Line

\* The text of a line is its words, joined.
LEMMA TextIs ==
    ASSUME NEW s \in Line
    PROVE  Text(s) = Flat([i \in 1..Len(s) |-> Word(s[i])], Len(s))
<1>1. DOMAIN s = 1..Len(s)
  BY LenProperties DEF Line
<1>2. [i \in DOMAIN s |-> Word(s[i])] =
      [i \in 1..Len(s) |-> [j \in 1..Len(s) |-> Word(s[j])][i]]
  BY <1>1
<1> QED
  BY <1>2 DEF Text, Flat, Word

\* The text of a line is a line.
LEMMA TextType ==
    ASSUME NEW s \in Line
    PROVE  Text(s) \in Line
<1>1. Len(s) \in Nat
  BY LenProperties DEF Line
<1> QED
  BY <1>1, TextIs, TextParts, FlattenType, LineIsSeq

\* White space has no text.
LEMMA TextSpaces ==
    ASSUME NEW s \in Line, \A i \in 1..Len(s) : s[i] \in Space
    PROVE  Text(s) = <<>>
<1> DEFINE F == [i \in 1..Len(s) |-> Word(s[i])]
<1>1. Len(s) \in Nat /\ 0 \in 0..Len(s)
  BY LenProperties DEF Line
<1>2. \A i \in 1..Len(s) : F[i] = <<>>
  BY DEF Word
<1>3. AreSeqs(F, Len(s), Token)
  BY TextParts
<1> HIDE DEF F
<1>4. Flat(F, Len(s)) = Flat(F, 0)
  BY <1>1, <1>2, <1>3, FlattenRest
<1> QED
  BY <1>4, TextIs, FlattenNone DEF F

\* Nothing has no text.
LEMMA TextNone == Text(<<>>) = <<>>
<1>1. <<>> \in Line /\ \A i \in 1..Len(<<>>) : <<>>[i] \in Space
  BY LineIsSeq
<1> QED
  BY <1>1, TextSpaces

\* One more token adds its word.
LEMMA TextMore ==
    ASSUME NEW s \in Line, NEW x \in Token
    PROVE  Text(Append(s, x)) = Text(s) \o Word(x)
<1> DEFINE n == Len(s)
           q == Append(s, x)
           F == [i \in 1..n+1 |-> Word(q[i])]
           G == [i \in 1..n |-> Word(s[i])]
<1>1. n \in Nat /\ q \in Line /\ Len(q) = n + 1 /\ q[n + 1] = x /\ \A i \in 1..n : q[i] = s[i]
  BY AppendProperties, LenProperties DEF Line
<1> HIDE DEF n, q
<1>2. AreSeqs(F, n + 1, Token)
  BY <1>1, TextParts
<1>3. Flat(F, n + 1) = Flat(F, n) \o F[n + 1]
  BY <1>1, <1>2, FlattenOneMore
<1>4. F[n + 1] = Word(x)
  BY <1>1
<1>5. [i \in 1..n |-> F[i]] = [i \in 1..n |-> G[i]]
  BY <1>1
<1>6. Flat(F, n) = Flat(G, n)
  BY <1>5 DEF Flat
<1>7. Text(q) = Flat(F, n + 1)
  BY <1>1, TextIs
<1>8. Text(s) = Flat(G, n)
  BY TextIs DEF n
<1> QED
  BY <1>3, <1>4, <1>6, <1>7, <1>8 DEF q

\* The text of two lines is the texts of both.
LEMMA TextConcat ==
    ASSUME NEW s \in Line, NEW t \in Line
    PROVE  Text(s \o t) = Text(s) \o Text(t)
<1> DEFINE n == Len(t)
           Up(k) == SubSeq(t, 1, k)
           T == {k \in 0..n : Text(s \o Up(k)) = Text(s) \o Text(Up(k))}
<1>1. n \in Nat /\ \A k \in 0..n : Up(k) \in Line
  <2>1. n \in Nat
    BY LenProperties DEF Line
  <2>2. ASSUME NEW k \in 0..n PROVE Up(k) \in Line
    <3>1. 1 \in Int /\ 1 >= 1 /\ k \in Int /\ k <= Len(t)
      BY <2>1
    <3> QED
      BY <3>1, CutType DEF Line
  <2> QED
    BY <2>1, <2>2
<1>2. Up(0) = <<>> /\ Up(n) = t
  BY SubSeqEmpty, SubSeqFull DEF Line
<1>3. \A k \in 0..n-1 : t[k + 1] \in Token /\ Up(k + 1) = Append(Up(k), t[k + 1])
  <2> TAKE k \in 0..n-1
  <2>1. 1 \in 1..Len(t) /\ k + 1 \in 1..Len(t) /\ (k + 1) - 1 = k /\ k \in 0..n
    BY <1>1
  <2>2. t[k + 1] \in Token
    BY <2>1, ElementOfSeq DEF Line
  <2>3. Up(k + 1) = Up(k) \o <<t[k + 1]>>
    BY <2>1, SubSeqRecursiveSecond DEF Line
  <2>4. Up(k) \in Line
    BY <1>1, <2>1
  <2> HIDE DEF Up
  <2> QED
    BY <2>2, <2>3, <2>4, AppendIsConcat DEF Line
<1> HIDE DEF Up, n
<1>4. 0 \in T
  <2>1. s \o <<>> = s /\ Text(s) \o <<>> = Text(s)
    BY TextType, ConcatEmptySeq DEF Line
  <2>2. Text(Up(0)) = <<>> /\ s \o Up(0) = s
    BY <1>2, <2>1, TextNone
  <2>3. Text(s) \o Text(Up(0)) = Text(s)
    BY <2>1, <2>2
  <2>4. Text(s \o Up(0)) = Text(s) \o Text(Up(0))
    BY ONLY <2>2, <2>3
  <2>5. 0 \in 0..n
    BY <1>1
  <2> QED
    BY <2>4, <2>5
<1>5. ASSUME NEW k \in 0..n-1, k \in T PROVE k + 1 \in T
  <2> DEFINE w == t[k + 1]
             a == Up(k)
  <2>1. w \in Token /\ Up(k + 1) = Append(a, w) /\ a \in Line /\ k + 1 \in 0..n
    BY <1>1, <1>3
  <2>2. Text(s \o a) = Text(s) \o Text(a)
    BY <1>5
  <2> HIDE DEF a, w
  <2>3. Append(a, w) = a \o <<w>> /\ <<w>> \in Line
    <3>1. Append(<<>>, w) = <<w>> /\ <<>> \in Line
      BY LineIsSeq
    <3> QED
      BY <2>1, <3>1, AppendIsConcat, AppendProperties DEF Line
  <2>4. s \o a \in Line
    BY <2>1, ConcatProperties DEF Line
  <2>5. s \o Append(a, w) = (s \o a) \o <<w>>
    BY <2>1, <2>3, ConcatLines
  <2>6. (s \o a) \o <<w>> = Append(s \o a, w)
    BY <2>1, <2>4, AppendIsConcat DEF Line
  <2>7. Text(s \o Append(a, w)) = Text(s \o a) \o Word(w)
    BY <2>1, <2>4, <2>5, <2>6, TextMore
  <2>8. Text(Append(a, w)) = Text(a) \o Word(w)
    BY <2>1, TextMore
  <2>9. Text(s) \in Line /\ Text(a) \in Line /\ Word(w) \in Line
    BY <2>1, TextType, WordType
  <2>10. (Text(s) \o Text(a)) \o Word(w) = Text(s) \o (Text(a) \o Word(w))
    BY <2>9, ConcatLines
  <2>11. Text(s \o Up(k + 1)) = Text(s) \o Text(Up(k + 1))
    BY <2>1, <2>2, <2>7, <2>8, <2>10
  <2> QED
    BY <2>1, <2>11
<1>6. n \in T
  <2> HIDE DEF T
  <2>1. \A k \in 0..n-1 : k \in T => k + 1 \in T
    BY <1>5
  <2>2. n \in Nat /\ n \in 0..n
    BY <1>1
  <2>3. \A k \in 0..n : k \in T
    BY ONLY <1>4, <2>1, <2>2, UpTo
  <2> QED
    BY <2>2, <2>3
<1> QED
  BY <1>2, <1>6

\* What has no text adds none, on either side.
LEMMA TextAside ==
    ASSUME NEW a \in Line, NEW b \in Line, Text(a) = <<>>
    PROVE  Text(a \o b) = Text(b) /\ Text(b \o a) = Text(b)
<1>1. Text(a \o b) = <<>> \o Text(b) /\ Text(b \o a) = Text(b) \o <<>>
  BY TextConcat
<1>2. Text(b) \in Line
  BY TextType
<1>3. <<>> \o Text(b) = Text(b) /\ Text(b) \o <<>> = Text(b)
  BY <1>2, ConcatEmptySeq DEF Line
<1> QED
  BY <1>1, <1>3

\* White space round a text is nothing to it.
LEMMA TextTrim ==
    ASSUME NEW s \in Line
    PROVE  Text(TrimSpace(s)) = Text(s)
<1>1. CASE TrimSpace(s) = <<>> /\ \A i \in 1..Len(s) : s[i] \in Space
  BY <1>1, TextSpaces, TextNone
<1>2. CASE \E f \in 1..Len(s), l \in 1..Len(s) :
              /\ TrimSpace(s) = SubSeq(s, f, l) /\ f <= l
              /\ s[f] \notin Space /\ s[l] \notin Space
              /\ \A i \in 1..Len(s) : i < f \/ i > l => s[i] \in Space
  <2>1. PICK f \in 1..Len(s), l \in 1..Len(s) :
              /\ TrimSpace(s) = SubSeq(s, f, l) /\ f <= l
              /\ \A i \in 1..Len(s) : i < f \/ i > l => s[i] \in Space
    BY <1>2
  <2> DEFINE n == Len(s)
             a == SubSeq(s, 1, f - 1)
             b == SubSeq(s, f, l)
             c == SubSeq(s, l + 1, n)
  <2>2. n \in Nat /\ f \in Int /\ l \in Int /\ 1 <= f /\ f <= l /\ l <= n
    BY <2>1, LenProperties DEF Line
  <2>3. a \in Line /\ b \in Line /\ c \in Line
    <3> f - 1 \in Int /\ f - 1 <= n /\ l + 1 \in Int /\ l + 1 >= 1 /\ 1 \in Int /\ 1 >= 1
        /\ n \in Int /\ n <= n
      BY <2>2
    <3> QED
      BY <2>2, CutType DEF Line
  <2>4. b \o c = SubSeq(s, f, n) /\ SubSeq(s, f, n) \in Line
    <3>1. f \in 1..Len(s)+1 /\ l \in f-1..Len(s) /\ n \in l..Len(s) /\ f >= 1 /\ n <= Len(s)
          /\ n \in Int
      BY <2>2
    <3> QED
      BY <2>2, <3>1, ConcatAdjacentSubSeq, CutType DEF Line
  <2>5. a \o SubSeq(s, f, n) = s
    <3>1. 1 \in 1..Len(s)+1 /\ f - 1 \in 1-1..Len(s) /\ n \in f-1..Len(s) /\ (f - 1) + 1 = f
      BY <2>2
    <3>2. SubSeq(s, 1, f - 1) \o SubSeq(s, (f - 1) + 1, n) = SubSeq(s, 1, n)
      BY <3>1, ConcatAdjacentSubSeq DEF Line
    <3>3. SubSeq(s, 1, n) = s
      BY SubSeqFull DEF Line
    <3> QED
      BY <3>1, <3>2, <3>3
  <2>6. Text(a) = <<>>
    <3>1. Len(a) = f - 1 /\ \A i \in 1..f-1 : a[i] = s[i]
      BY <2>2 DEF Line
    <3>2. \A i \in 1..f-1 : s[i] \in Space
      BY <2>1, <2>2
    <3> HIDE DEF a
    <3> QED
      BY <2>3, <3>1, <3>2, TextSpaces
  <2>7. Text(c) = <<>>
    <3>1. Len(c) = n - l /\ \A i \in 1..n-l : c[i] = s[l + i]
      BY <2>2 DEF Line
    <3>2. \A i \in 1..n-l : s[l + i] \in Space
      <4> TAKE i \in 1..n-l
      <4>1. l + i \in 1..Len(s) /\ l + i > l
        BY <2>2
      <4> QED
        BY <2>1, <4>1
    <3> HIDE DEF c
    <3> QED
      BY <2>3, <3>1, <3>2, TextSpaces
  <2> HIDE DEF a, b, c, n
  <2>8. Text(s) = Text(SubSeq(s, f, n))
    <3> DEFINE t == SubSeq(s, f, n)
    <3>1. t \in Line /\ s = a \o t
      BY ONLY <2>4, <2>5
    <3> HIDE DEF t
    <3>2. Text(a \o t) = Text(t)
      BY ONLY <2>3, <2>6, <3>1, TextAside
    <3> QED
      BY ONLY <3>1, <3>2 DEF t
  <2>9. Text(s) = Text(b)
    <3>1. Text(b \o c) = Text(b)
      BY ONLY <2>3, <2>7, TextAside
    <3> QED
      BY ONLY <2>4, <2>5, <2>8, <3>1
  <2> QED
    BY <2>1, <2>9 DEF b
<1> QED
  BY <1>1, <1>2, TrimSpaceCuts

\* The newline before the first part adds no text.
LEMMA TextOfJoined ==
    ASSUME NEW pd \in Seq(Line)
    PROVE  Text(Joined(pd)) = Text(Join(pd))
<1>1. CASE pd = <<>>
  BY <1>1, JoinHead, JoinIs
<1>2. CASE pd # <<>>
  <2> DEFINE lf == <<"LF">>
             t == Join(pd)
  <2>1. lf \in Line /\ t \in Line /\ Joined(pd) = lf \o t
    BY <1>2, JoinHead, LineIsSeq
  <2>2. Text(lf) = <<>>
    <3>1. \A i \in 1..Len(lf) : lf[i] \in Space
      BY DEF Space
    <3> HIDE DEF lf
    <3> QED
      BY <2>1, <3>1, TextSpaces
  <2> HIDE DEF lf, t
  <2>3. Text(lf \o t) = Text(t)
    BY <2>1, <2>2, TextAside
  <2> QED
    BY <2>1, <2>3 DEF t
<1> QED
  BY <1>1, <1>2

\* The text of lines of data, joined, is the texts of the lines, one after the other.
LEMMA TextJoinMore ==
    ASSUME NEW pd \in Seq(Line), NEW x \in Line
    PROVE  Text(Join(Append(pd, x))) = Text(Join(pd)) \o Text(x)
<1> DEFINE lf == <<"LF">>
           j == Joined(pd)
           q == Append(pd, x)
<1>1. lf \in Line /\ j \in Line /\ q \in Seq(Line) /\ Joined(q) = j \o (lf \o x)
  BY LineIsSeq, JoinedType, JoinedMore, AppendProperties
<1>2. Text(lf) = <<>>
  <2>1. \A i \in 1..Len(lf) : lf[i] \in Space
    BY DEF Space
  <2> HIDE DEF lf
  <2> QED
    BY <1>1, <2>1, TextSpaces
<1> HIDE DEF lf, j, q
<1>3. lf \o x \in Line
  BY <1>1, ConcatProperties DEF Line
<1>4. Text(lf \o x) = Text(x)
  BY <1>1, <1>2, TextAside
<1>5. Text(Joined(q)) = Text(j) \o Text(x)
  BY <1>1, <1>3, <1>4, TextConcat
<1>6. Text(Joined(q)) = Text(Join(q))
  BY <1>1, TextOfJoined
<1>7. Text(j) = Text(Join(pd))
  BY TextOfJoined DEF j
<1> QED
  BY <1>5, <1>6, <1>7 DEF q

\* No part has no text.
LEMMA TextJoinNone == Text(Join(<<>>)) = <<>>
BY TextNone DEF Join

\* A word is its own text.
LEMMA TextWord ==
    ASSUME NEW x \in Token \ Space
    PROVE  <<x>> \in Line /\ Text(<<x>>) = <<x>>
<1>1. <<>> \in Line /\ Append(<<>>, x) = <<x>>
  BY LineIsSeq
<1>2. <<x>> \in Line
  BY <1>1, AppendProperties DEF Line
<1>3. Text(Append(<<>>, x)) = Text(<<>>) \o Word(x)
  BY <1>1, TextMore
<1>4. Word(x) = <<x>> /\ <<>> \o <<x>> = <<x>>
  BY DEF Word
<1> QED
  BY <1>1, <1>2, <1>3, <1>4, TextNone

\* A line of two tokens or more that begins and ends with a word has two words or more.
LEMMA TwoWords ==
    ASSUME NEW w \in Line, Len(w) > 1, w[1] \notin Space, w[Len(w)] \notin Space
    PROVE  Len(Text(w)) > 1
<1> DEFINE n == Len(w)
           a == <<w[1]>>
           m == SubSeq(w, 2, n - 1)
           f == SubSeq(w, 1, n - 1)
           z == <<w[n]>>
<1>1. n \in Nat /\ n > 1 /\ w[1] \in Token \ Space /\ w[n] \in Token \ Space
  <2>1. n \in Nat /\ 1 \in 1..n /\ n \in 1..n
    BY LenProperties DEF Line
  <2> QED
    BY <2>1, ElementOfSeq DEF Line
<1>2. a \in Line /\ z \in Line /\ Text(a) = a /\ Text(z) = z
  BY <1>1, TextWord
<1>3. f \in Line /\ m \in Line
  <2>1. n - 1 \in Int /\ n - 1 <= Len(w) /\ 1 \in Int /\ 2 \in Int /\ 1 >= 1 /\ 2 >= 1
    BY <1>1
  <2> HIDE DEF n
  <2> QED
    BY <2>1, CutType DEF Line
<1>4. f = a \o m /\ w = f \o z
  <2>1. 1 \in 1..Len(w) /\ n - 1 \in 1..Len(w) /\ n \in 1..Len(w)
    BY <1>1
  <2>2. SubSeq(w, 1, n - 1) = <<w[1]>> \o SubSeq(w, 1 + 1, n - 1)
    BY <2>1, SubSeqRecursiveFirst DEF Line
  <2>3. SubSeq(w, 1, n) = SubSeq(w, 1, n - 1) \o <<w[n]>>
    BY <2>1, SubSeqRecursiveSecond DEF Line
  <2>4. SubSeq(w, 1, n) = w
    BY SubSeqFull DEF Line
  <2>5. SubSeq(w, 1 + 1, n - 1) = m
    OBVIOUS
  <2>6. f = a \o m
    BY <2>2, <2>5
  <2> QED
    BY <2>3, <2>4, <2>6
<1> HIDE DEF a, m, f, z
<1>5. Text(w) = (a \o Text(m)) \o z
  <2>1. Text(w) = Text(f) \o Text(z)
    BY <1>2, <1>3, <1>4, TextConcat
  <2>2. Text(f) = Text(a) \o Text(m)
    BY <1>2, <1>3, <1>4, TextConcat
  <2> QED
    BY <1>2, <2>1, <2>2
<1>6. Text(m) \in Line
  BY <1>3, TextType
<1>7. Len(Text(w)) = Len(a) + Len(Text(m)) + Len(z) /\ Len(Text(m)) \in Nat
  BY <1>2, <1>5, <1>6, ConcatProperties, LenProperties DEF Line
<1>8. Len(a) = 1 /\ Len(z) = 1
  BY DEF a, z
<1> QED
  BY <1>7, <1>8

\* What is trimmed is one word if its text is.
LEMMA OneWord ==
    ASSUME NEW s \in Line, NEW x \in Token \ Space
    PROVE  TrimSpace(s) = <<x>> <=> Text(s) = <<x>>
<1>1. <<x>> \in Line /\ Text(<<x>>) = <<x>>
  BY TextWord
<1>2. ASSUME TrimSpace(s) = <<x>> PROVE Text(s) = <<x>>
  BY <1>1, <1>2, TextTrim
<1>3. ASSUME Text(s) = <<x>> PROVE TrimSpace(s) = <<x>>
  <2> DEFINE w == TrimSpace(s)
             n == Len(w)
  <2>1. w \in Line /\ Text(w) = <<x>> /\ n \in Nat
    BY <1>3, TrimSpaceType, TextTrim, LenProperties DEF Line
  <2>2. w # <<>>
    BY <2>1, TextNone
  <2>3. n # 0 /\ w[1] \notin Space /\ w[n] \notin Space /\ w[1] \in Token /\ w[n] \in Token
    <3>1. PICK f \in 1..Len(s), l \in 1..Len(s) :
              /\ w = SubSeq(s, f, l) /\ f <= l
              /\ s[f] \notin Space /\ s[l] \notin Space
      BY <2>2, TrimSpaceCuts
    <3>2. Len(s) \in Nat /\ f \in Int /\ l \in Int
      BY <3>1, LenProperties DEF Line
    <3>3. \A i \in f..l : s[i] \in Token
      BY <3>2 DEF Line
    <3>4. n = l - f + 1 /\ \A i \in 1..l-f+1 : w[i] = s[f + i - 1]
      BY <3>1, <3>2, <3>3, SubSeqProperties
    <3> HIDE DEF w, n
    <3>5. n # 0 /\ w[1] = s[f] /\ w[n] = s[l]
      BY <3>1, <3>2, <3>4
    <3> QED
      BY <3>1, <3>2, <3>3, <3>5
  <2>4. ~(n > 1)
    <3>1. Len(<<x>>) = 1
      OBVIOUS
    <3> HIDE DEF w
    <3>2. ASSUME n > 1 PROVE FALSE
      <4>1. Len(Text(w)) > 1
        BY <2>1, <2>3, <3>2, TwoWords
      <4> QED
        BY <2>1, <3>1, <4>1
    <3> QED
      BY <3>2
  <2>5. n = 1
    <3>1. n \in Nat /\ n # 0
      BY <2>1, <2>3
    <3> HIDE DEF n
    <3> QED
      BY <2>4, <3>1
  <2> HIDE DEF w, n
  <2>6. w = <<w[1]>>
    <3>1. w \in Seq(Token) /\ <<w[1]>> \in Seq(Token) /\ Len(<<w[1]>>) = 1 /\ Len(w) = 1
      BY <2>1, <2>3, <2>5, TextWord DEF Line, n
    <3>2. \A i \in 1..Len(w) : w[i] = <<w[1]>>[i]
      BY <3>1
    <3> QED
      BY <3>1, <3>2, SeqEqual
  <2>7. Text(w) = <<w[1]>>
    BY <2>3, <2>6, TextWord
  <2>8. w = <<x>>
    BY <2>1, <2>6, <2>7
  <2> QED
    BY <2>8 DEF w
<1> QED
  BY <1>2, <1>3

-----------------------------------------------------------------------------
(* Lines that have ended, and the last, which has not: what more bytes leave alone. *)

\* The line that begins at i ends before the newline at t + 1, or with the bytes.
IsStop(b, i, t) ==
    /\ t \in i-1..Len(b)
    /\ t = Len(b) \/ b[t + 1] = "LF"
    /\ \A j \in i..t : b[j] # "LF"

\* TrimCR of a part is a shorter part, as the reference cuts it.
LEMMA TrimCRIs ==
    ASSUME NEW b \in Line, NEW i \in Nat \ {0}, NEW t \in i-1..Len(b)
    PROVE  TrimCR(SubSeq(b, i, t)) = SubSeq(b, i, IF t >= i /\ b[t] = "CR" THEN t - 1 ELSE t)
<1> DEFINE x == SubSeq(b, i, t)
<1>1. t \in Int /\ i - 1 <= t /\ t <= Len(b)
  BY LineFacts
<1>2. x \in Line /\ Len(x) = t - i + 1 /\ \A k \in 1..t-i+1 : x[k] = b[i + k - 1]
  BY <1>1, CutLine
<1>3. CASE t < i
  <2>1. Len(x) = 0
    BY <1>1, <1>2, <1>3
  <2>2. x = <<>>
    BY <2>1, <1>2, EmptySeq DEF Line
  <2> QED
    BY <1>3, <2>2 DEF TrimCR
<1>4. CASE t >= i
  <2>1. x # <<>> /\ Last(x) = b[t]
    <3>1. Len(x) \in 1..t-i+1 /\ i + Len(x) - 1 = t
      BY <1>1, <1>2, <1>4
    <3>2. x # <<>>
      BY <3>1
    <3> HIDE DEF x
    <3> QED
      BY <1>2, <3>1, <3>2 DEF Last
  <2>2. Front(x) = SubSeq(b, i, t - 1)
    <3> DEFINE y == SubSeq(b, i, t - 1)
               z == SubSeq(x, 1, Len(x) - 1)
    <3>1. t - 1 \in Int /\ i - 1 <= t - 1 /\ t - 1 <= Len(b) /\ (t - 1) - i + 1 = t - i
      BY <1>1, <1>4
    <3>2. y \in Line /\ Len(y) = t - i /\ \A k \in 1..t-i : y[k] = b[i + k - 1]
      BY <3>1, CutLine
    <3> HIDE DEF x
    <3>3. Len(x) - 1 \in Int /\ 1 - 1 <= Len(x) - 1 /\ Len(x) - 1 <= Len(x)
          /\ (Len(x) - 1) - 1 + 1 = t - i /\ 1 \in Nat \ {0}
          /\ \A k \in 1..t-i : k \in 1..t-i+1 /\ 1 + k - 1 = k
      BY <1>1, <1>2, <1>4
    <3>4. z \in Line /\ Len(z) = t - i /\ \A k \in 1..t-i : z[k] = x[1 + k - 1]
      BY <1>2, <3>3, CutLine
    <3> HIDE DEF y, z
    <3>5. \A k \in 1..t-i : y[k] = z[k]
      BY <1>2, <3>2, <3>3, <3>4
    <3>6. y = z
      BY <3>2, <3>4, <3>5, SameLine
    <3> QED
      BY <3>6 DEF y, z, Front
  <2> HIDE DEF x
  <2>3. TrimCR(x) = IF b[t] = "CR" THEN SubSeq(b, i, t - 1) ELSE x
    BY <2>1, <2>2 DEF TrimCR
  <2> QED
    BY <1>4, <2>3 DEF x
<1> QED
  BY <1>1, <1>3, <1>4

\* The line at i is what lies before its stop, without the carriage return.
LEMMA LineFromIs ==
    ASSUME NEW b \in Line, NEW i \in Nat \ {0}, NEW t, IsStop(b, i, t)
    PROVE  LineFrom(b, i) = TrimCR(SubSeq(b, i, t)) /\ LineFrom(b, i) \in Line
<1> DEFINE ends == {j \in Newlines(b) : j >= i}
           stop == IF ends = {} THEN Len(b) ELSE Min(ends) - 1
<1>1. t \in i-1..Len(b) /\ (t = Len(b) \/ b[t + 1] = "LF") /\ \A j \in i..t : b[j] # "LF"
  BY DEF IsStop
<1>2. ends = {j \in 1..Len(b) : b[j] = "LF" /\ j >= i} /\ Len(b) \in Nat
  BY LineFacts DEF Newlines
<1>3. \A j \in ends : j \in Nat /\ j > t
  BY <1>1, <1>2
<1>4. stop = t
  <2>1. CASE t = Len(b)
    <3>1. ends = {}
      BY <1>2, <1>3, <2>1
    <3> QED
      BY <2>1, <3>1
  <2>2. CASE t # Len(b)
    <3>1. t + 1 \in ends
      BY <1>1, <1>2, <2>2
    <3>2. ends \in SUBSET Nat
      BY <1>3
    <3> HIDE DEF ends
    <3>3. Min(ends) \in ends /\ Min(ends) <= t + 1
      BY <3>1, <3>2, MinOfSome
    <3>4. Min(ends) = t + 1
      BY <1>1, <1>3, <3>3
    <3> QED
      BY <1>1, <3>1, <3>4
  <2> QED
    BY <2>1, <2>2
<1>5. LineFrom(b, i) = SubSeq(b, i, IF stop >= i /\ b[stop] = "CR" THEN stop - 1 ELSE stop)
  BY DEF LineFrom
<1> HIDE DEF stop
<1>6. LineFrom(b, i) = TrimCR(SubSeq(b, i, t))
  BY <1>1, <1>4, <1>5, TrimCRIs
<1>7. SubSeq(b, i, t) \in Line
  BY <1>1, <1>2, CutLine
<1> QED
  BY <1>6, <1>7, TrimCRType

\* Every line has a stop: its newline or the end of the bytes.
LEMMA StopExists ==
    ASSUME NEW b \in Line, NEW i \in 1..Len(b)+1
    PROVE  \E t : IsStop(b, i, t)
<1> DEFINE ends == {j \in 1..Len(b) : b[j] = "LF" /\ j >= i}
<1>1. Len(b) \in Nat
  BY LineFacts
<1>2. CASE ends = {}
  <2>1. IsStop(b, i, Len(b))
    BY <1>1, <1>2 DEF IsStop
  <2> QED
    BY <2>1
<1>3. CASE ends # {}
  <2>1. ends \in SUBSET Nat
    OBVIOUS
  <2> DEFINE e == Min(ends)
  <2>2. e \in ends /\ \A j \in ends : e <= j
    <3> HIDE DEF ends
    <3> QED
      BY <1>3, <2>1, MinOfSome
  <2> HIDE DEF e
  <2>3. e - 1 \in i-1..Len(b) /\ (e - 1) + 1 = e /\ b[e] = "LF"
    BY <1>1, <2>2
  <2>4. \A j \in i..e-1 : b[j] # "LF"
    BY <1>1, <2>2
  <2>5. IsStop(b, i, e - 1)
    BY <2>3, <2>4 DEF IsStop
  <2> QED
    BY <2>5
<1> QED
  BY <1>2, <1>3

\* What a line says is a line.
LEMMA LineFromType ==
    ASSUME NEW b \in Line, NEW i \in 1..Len(b)
    PROVE  LineFrom(b, i) \in Line
<1>1. i \in 1..Len(b)+1 /\ i \in Nat \ {0}
  BY LineFacts
<1> QED
  BY <1>1, StopExists, LineFromIs

Continues(b, c) == Len(b) <= Len(c) /\ \A i \in 1..Len(b) : c[i] = b[i]

\* The last line of b, which may have no byte yet, begins at s.
IsStart(b, s) ==
    /\ s \in 1..Len(b)+1
    /\ s = 1 \/ b[s - 1] = "LF"
    /\ \A j \in s..Len(b) : b[j] # "LF"

\* Where the newlines of b are.
LEMMA NewlinesAre ==
    ASSUME NEW b \in Line
    PROVE  Newlines(b) = {i \in 1..Len(b) : b[i] = "LF"}
BY LineFacts DEF Newlines

\* Where the lines of b begin.
LEMMA StartsAre ==
    ASSUME NEW b \in Line
    PROVE  LineStarts(b) = {i \in 1..Len(b) : i = 1 \/ b[i - 1] = "LF"}
<1>1. \A i \in 1..Len(b) : i # 1 => i - 1 \in 1..Len(b)
  BY LineFacts
<1>2. DOMAIN b = 1..Len(b)
  BY LineFacts
<1> QED
  BY <1>1, <1>2, NewlinesAre DEF LineStarts

\* A blank line says nothing and is ended by a newline.
LEMMA BlankIs ==
    ASSUME NEW b \in Line, NEW i
    PROVE  i \in Blanks(b) <=>
               i \in LineStarts(b) /\ LineFrom(b, i) = <<>>
               /\ \E j \in 1..Len(b) : b[j] = "LF" /\ j >= i
BY NewlinesAre DEF Blanks

\* More bytes do not move the beginnings of lines.
LEMMA StartsSame ==
    ASSUME NEW b \in Line, NEW c \in Line, Continues(b, c), NEW i \in 1..Len(b)
    PROVE  i \in LineStarts(c) <=> i \in LineStarts(b)
<1>1. Len(b) \in Nat /\ Len(c) \in Nat /\ i \in 1..Len(c) /\ (i # 1 => i - 1 \in 1..Len(b))
  BY LineFacts DEF Continues
<1>2. i # 1 => c[i - 1] = b[i - 1]
  BY <1>1 DEF Continues
<1> QED
  BY <1>1, <1>2, StartsAre

\* More bytes do not change a line that has ended.
LEMMA LineSame ==
    ASSUME NEW b \in Line, NEW c \in Line, Continues(b, c), NEW s, IsStart(b, s), NEW i \in 1..s-1
    PROVE  LineFrom(c, i) = LineFrom(b, i)
<1>1. Len(b) \in Nat /\ Len(c) \in Nat /\ Len(b) <= Len(c) /\ \A k \in 1..Len(b) : c[k] = b[k]
  BY LineFacts DEF Continues
<1>2. s \in 1..Len(b)+1 /\ (s = 1 \/ b[s - 1] = "LF")
  BY DEF IsStart
<1>3. s # 1 /\ s - 1 \in 1..Len(b) /\ i \in 1..Len(b)+1 /\ i \in Nat \ {0} /\ i <= s - 1
  BY <1>1, <1>2
<1>4. PICK t : IsStop(b, i, t)
  BY <1>3, StopExists
<1>5. t \in i-1..Len(b) /\ (t = Len(b) \/ b[t + 1] = "LF") /\ \A j \in i..t : b[j] # "LF"
  BY <1>4 DEF IsStop
<1>6. t < s - 1
  <2>1. ASSUME t >= s - 1 PROVE FALSE
    <3>1. s - 1 \in i..t
      BY <1>1, <1>3, <1>5, <2>1
    <3> QED
      BY <1>2, <1>3, <1>5, <3>1
  <2> QED
    BY <1>1, <1>3, <1>5, <2>1
<1>7. IsStop(c, i, t)
  <2>1. t + 1 \in 1..Len(b) /\ t # Len(b) /\ t \in i-1..Len(c)
    BY <1>1, <1>3, <1>5, <1>6
  <2>2. c[t + 1] = "LF"
    BY <1>1, <1>5, <2>1
  <2>3. \A j \in i..t : j \in 1..Len(b)
    BY <1>1, <1>3, <1>5
  <2>4. \A j \in i..t : c[j] # "LF"
    BY <1>1, <1>5, <2>3
  <2> QED
    BY <2>1, <2>2, <2>4 DEF IsStop
<1>8. SubSeq(b, i, t) = SubSeq(c, i, t)
  <2>1. t \in Int /\ i - 1 <= t /\ t <= Len(b) /\ t <= Len(c) /\ \A k \in 1..t : k \in 1..Len(b)
    BY <1>1, <1>3, <1>5
  <2>2. \A k \in 1..t : b[k] = c[k]
    BY <1>1, <2>1
  <2> QED
    BY <1>3, <2>1, <2>2, CutsSame
<1>9. i \in Nat \ {0}
  BY <1>3
<1>10. LineFrom(b, i) = TrimCR(SubSeq(b, i, t))
  BY ONLY <1>4, <1>9, b \in Line, LineFromIs
<1>11. LineFrom(c, i) = TrimCR(SubSeq(c, i, t))
  BY ONLY <1>7, <1>9, c \in Line, LineFromIs
<1> QED
  BY <1>8, <1>10, <1>11

\* More bytes do not change which ended lines are blank.
LEMMA BlanksSame ==
    ASSUME NEW b \in Line, NEW c \in Line, Continues(b, c), NEW s, IsStart(b, s), NEW i \in 1..s-1
    PROVE  i \in Blanks(c) <=> i \in Blanks(b)
<1>1. Len(b) \in Nat /\ Len(c) \in Nat /\ Len(b) <= Len(c) /\ \A k \in 1..Len(b) : c[k] = b[k]
  BY LineFacts DEF Continues
<1>2. s \in 1..Len(b)+1 /\ (s = 1 \/ b[s - 1] = "LF")
  BY DEF IsStart
<1>3. s - 1 \in 1..Len(b) /\ s - 1 \in 1..Len(c) /\ b[s - 1] = "LF" /\ i \in 1..Len(b) /\ s - 1 >= i
  BY <1>1, <1>2
<1>4. c[s - 1] = "LF"
  BY <1>1, <1>3
<1> QED
  BY <1>3, <1>4, BlankIs, LineSame, StartsSame

\* Blank lines come before the last line, which has not ended.
LEMMA BlanksBefore ==
    ASSUME NEW b \in Line, NEW s, IsStart(b, s), NEW i \in Blanks(b)
    PROVE  i \in 1..s-1
<1>1. i \in 1..Len(b) /\ \E j \in 1..Len(b) : b[j] = "LF" /\ j >= i
  BY BlankIs, StartsAre
<1>2. PICK j \in 1..Len(b) : b[j] = "LF" /\ j >= i
  BY <1>1
<1>3. s \in 1..Len(b)+1 /\ \A k \in s..Len(b) : b[k] # "LF"
  BY DEF IsStart
<1> QED
  BY <1>1, <1>2, <1>3, LineFacts

-----------------------------------------------------------------------------
(* The data of an event, and what one more byte adds to it. *)

\* What a line adds to the data of its event.
LineData(line) ==
    IF IsPrefix(<<"da", "ta:">>, line) /\ Text(line) # <<"da", "ta:", "[DONE]">>
    THEN Text(SubSeq(line, 3, Len(line))) ELSE <<>>

\* No blank line before i comes at j or after it.
Together(b, i, j) == \A k \in Blanks(b) : k < i => k < j

\* What the line at j adds to the event that ends at i.
Piece(b, i, j) ==
    IF j \in LineStarts(b) /\ Together(b, i, j) THEN LineData(LineFrom(b, j)) ELSE <<>>

\* The data of a line is a line.
LEMMA LineDataType ==
    ASSUME NEW line \in Line
    PROVE  LineData(line) \in Line
<1>1. Len(line) \in Int /\ Len(line) <= Len(line) /\ 3 \in Int /\ 3 >= 1
  BY LineFacts
<1>2. SubSeq(line, 3, Len(line)) \in Line
  BY <1>1, CutType DEF Line
<1> QED
  BY <1>2, TextType, LineIsSeq DEF LineData

\* The data of an event is what each of its lines adds.
LEMMA DataIs ==
    ASSUME NEW b, NEW i
    PROVE  DataOf(b, i) = FlattenSeq([j \in 1..i-1 |-> Piece(b, i, j)])
<1>1. ASSUME NEW j
      PROVE  Piece(b, i, j) = IF IsData(b, i, j)
                              THEN Text(SubSeq(LineFrom(b, j), 3, Len(LineFrom(b, j)))) ELSE <<>>
  BY DEF Piece, IsData, LineData, Together
<1> HIDE DEF Piece
<1> QED
  BY <1>1 DEF DataOf

\* Equal parts join to equal sequences.
LEMMA FlatSame ==
    ASSUME NEW n, NEW F, NEW G, \A i \in 1..n : F[i] = G[i]
    PROVE  Flat(F, n) = Flat(G, n)
<1>1. [i \in 1..n |-> F[i]] = [i \in 1..n |-> G[i]]
  OBVIOUS
<1> QED
  BY <1>1 DEF Flat

\* The data of an event as a Flat of typed parts.
LEMMA DataFlat ==
    ASSUME NEW b \in Line, NEW i \in Nat \ {0}
    PROVE  \E F : /\ DataOf(b, i) = Flat(F, i - 1)
                  /\ AreSeqs(F, i - 1, Token)
                  /\ \A j \in 1..i-1 : F[j] = Piece(b, i, j)
<1> DEFINE F == [j \in 1..i-1 |-> Piece(b, i, j)]
<1>1. \A j \in 1..i-1 : F[j] = Piece(b, i, j)
  OBVIOUS
<1>2. [j \in 1..i-1 |-> F[j]] = F
  OBVIOUS
<1>3. DataOf(b, i) = Flat(F, i - 1)
  BY <1>2, DataIs DEF Flat
<1>4. \A j : Piece(b, i, j) \in Line
  <2> TAKE j
  <2>1. CASE j \in LineStarts(b)
    <3>1. j \in 1..Len(b)
      BY <2>1, StartsAre
    <3> QED
      BY <3>1, LineFromType, LineDataType, LineIsSeq DEF Piece
  <2>2. CASE j \notin LineStarts(b)
    BY <2>2, LineIsSeq DEF Piece
  <2> QED
    BY <2>1, <2>2
<1> HIDE DEF F
<1>5. AreSeqs(F, i - 1, Token)
  BY <1>1, <1>4, LineIsSeq DEF AreSeqs
<1> QED
  BY <1>1, <1>3, <1>5

\* The data of an event is a line.
LEMMA DataType ==
    ASSUME NEW b \in Line, NEW i \in Nat \ {0}
    PROVE  DataOf(b, i) \in Line
<1>1. PICK F : DataOf(b, i) = Flat(F, i - 1) /\ AreSeqs(F, i - 1, Token)
  BY DataFlat
<1>2. i - 1 \in Nat
  OBVIOUS
<1> QED
  BY <1>1, <1>2, FlattenType, LineIsSeq

\* The pieces of what comes before s are those of any continuation.
LEMMA PieceSame ==
    ASSUME NEW b \in Line, NEW c \in Line, Continues(b, c), NEW s, IsStart(b, s),
           NEW i \in 1..s, NEW j \in 1..i-1, NEW e \in i..Len(c)+2,
           \A k \in Blanks(c) : ~(i <= k /\ k < e)
    PROVE  Piece(c, e, j) = Piece(b, i, j)
<1>1. Len(b) \in Nat /\ s \in 1..Len(b)+1 /\ j \in 1..s-1 /\ j \in 1..Len(b) /\ Len(c) \in Nat
  BY LineFacts DEF IsStart
<1>2. LineFrom(c, j) = LineFrom(b, j) /\ (j \in LineStarts(c) <=> j \in LineStarts(b))
  BY <1>1, LineSame, StartsSame
<1>3. Blanks(c) \subseteq 1..Len(c) /\ Blanks(b) \subseteq 1..s-1
  BY BlanksBefore, BlankIs, StartsAre
<1>4. Together(c, e, j) <=> Together(b, i, j)
  <2>1. ASSUME Together(c, e, j), NEW k \in Blanks(b), k < i PROVE k < j
    <3>1. k \in 1..s-1 /\ k < e
      BY <1>1, <1>3, <2>1
    <3>2. k \in Blanks(c)
      BY <2>1, <3>1, BlanksSame
    <3> QED
      BY <2>1, <3>1, <3>2 DEF Together
  <2>2. ASSUME Together(b, i, j), NEW k \in Blanks(c), k < e PROVE k < j
    <3>1. k \in Nat /\ k >= 1 /\ k < i
      BY <1>3, <2>2
    <3>2. k \in 1..s-1
      BY <1>1, <3>1
    <3>3. k \in Blanks(b)
      BY <2>2, <3>2, BlanksSame
    <3> QED
      BY <2>2, <3>1, <3>3 DEF Together
  <2> QED
    BY <2>1, <2>2 DEF Together
<1> QED
  BY <1>2, <1>4 DEF Piece

\* More bytes do not change the data before the last line.
LEMMA DataSame ==
    ASSUME NEW b \in Line, NEW c \in Line, Continues(b, c), NEW s, IsStart(b, s), NEW i \in 1..s
    PROVE  DataOf(c, i) = DataOf(b, i)
<1>1. Len(b) \in Nat /\ s \in 1..Len(b)+1 /\ Len(c) \in Nat /\ Len(b) <= Len(c)
  BY LineFacts DEF IsStart, Continues
<1>2. i \in Nat \ {0} /\ i \in i..Len(c)+2
  BY <1>1
<1>3. PICK F : DataOf(b, i) = Flat(F, i - 1) /\ \A j \in 1..i-1 : F[j] = Piece(b, i, j)
  BY <1>2, DataFlat
<1>4. PICK G : DataOf(c, i) = Flat(G, i - 1) /\ \A j \in 1..i-1 : G[j] = Piece(c, i, j)
  BY <1>2, DataFlat
<1>5. \A k \in Blanks(c) : ~(i <= k /\ k < i)
  <2>1. Blanks(c) \subseteq 1..Len(c)
    BY BlankIs, StartsAre
  <2> QED
    BY <1>2, <2>1
<1>6. \A j \in 1..i-1 : Piece(c, i, j) = Piece(b, i, j)
  BY <1>2, <1>5, PieceSame
<1>7. \A j \in 1..i-1 : F[j] = G[j]
  BY <1>3, <1>4, <1>6
<1> QED
  BY <1>3, <1>4, <1>7, FlatSame

\* The last line adds its data to what its event has.
LEMMA DataLast ==
    ASSUME NEW b \in Line, NEW c \in Line, Continues(b, c), NEW s, IsStart(b, s),
           NEW e \in s+1..Len(c)+2,
           \A k \in Blanks(c) : ~(s <= k /\ k < e),
           \A j \in s+1..e-1 : j \notin LineStarts(c),
           s \in LineStarts(c)
    PROVE  DataOf(c, e) = DataOf(b, s) \o LineData(LineFrom(c, s))
<1>1. Len(b) \in Nat /\ s \in 1..Len(b)+1 /\ Len(c) \in Nat /\ Len(b) <= Len(c)
  BY LineFacts DEF IsStart, Continues
<1>2. e \in Nat \ {0} /\ e - 1 \in Nat /\ s \in Nat \ {0} /\ s \in 1..s /\ s - 1 \in Nat
      /\ (s - 1) + 1 = s /\ s <= e - 1 /\ s \in 0..e-1 /\ e \in s..Len(c)+2
  BY <1>1
<1>3. PICK F : /\ DataOf(c, e) = Flat(F, e - 1)
               /\ AreSeqs(F, e - 1, Token)
               /\ \A j \in 1..e-1 : F[j] = Piece(c, e, j)
  BY <1>2, DataFlat
<1>4. PICK G : DataOf(b, s) = Flat(G, s - 1) /\ \A j \in 1..s-1 : G[j] = Piece(b, s, j)
  BY <1>2, DataFlat
<1>5. Flat(F, e - 1) = Flat(F, s)
  <2>1. \A i \in 1..e-1 : i > s => F[i] = <<>>
    <3> TAKE i \in 1..e-1
    <3>1. i > s => i \in s+1..e-1
      BY <1>2
    <3>2. i > s => Piece(c, e, i) = <<>>
      BY <3>1 DEF Piece
    <3> QED
      BY <1>3, <3>2
  <2>2. s \in 0..(e-1)
    BY <1>2
  <2> QED
    BY <1>2, <1>3, <2>1, <2>2, FlattenRest
<1>6. Flat(F, s) = Flat(F, s - 1) \o F[s]
  <2>1. \A i \in 1..(s-1)+1 : i \in 1..e-1
    BY <1>2
  <2>2. AreSeqs(F, (s - 1) + 1, Token)
    BY <1>3, <2>1 DEF AreSeqs
  <2>3. Flat(F, (s - 1) + 1) = Flat(F, s - 1) \o F[(s - 1) + 1]
    BY <1>2, <2>2, FlattenOneMore
  <2> QED
    BY <1>2, <2>3
<1>7. F[s] = LineData(LineFrom(c, s))
  <2>1. s \in 1..e-1
    BY <1>2
  <2>2. Blanks(c) \subseteq 1..Len(c)
    BY BlankIs, StartsAre
  <2>3. Together(c, e, s)
    BY <1>1, <1>2, <2>2 DEF Together
  <2> QED
    BY <1>3, <2>1, <2>3 DEF Piece
<1>8. Flat(F, s - 1) = Flat(G, s - 1)
  <2>1. \A j \in 1..s-1 : Piece(c, e, j) = Piece(b, s, j)
    BY <1>2, PieceSame
  <2>2. \A j \in 1..s-1 : j \in 1..e-1
    BY <1>2
  <2>3. \A j \in 1..s-1 : F[j] = G[j]
    BY <1>3, <1>4, <2>1, <2>2
  <2> QED
    BY <2>3, FlatSame
<1> QED
  BY <1>3, <1>4, <1>5, <1>6, <1>7, <1>8

\* After a blank line an event has nothing.
LEMMA DataBlank ==
    ASSUME NEW c \in Line, NEW s \in Blanks(c), NEW e \in s+1..Len(c)+2,
           \A j \in s+1..e-1 : j \notin LineStarts(c)
    PROVE  DataOf(c, e) = <<>>
<1>1. s \in 1..Len(c) /\ Len(c) \in Nat
  BY BlankIs, StartsAre, LineFacts
<1>2. e \in Nat \ {0} /\ e - 1 \in Nat /\ 0 \in 0..(e-1) /\ s < e
  BY <1>1
<1>3. PICK F : /\ DataOf(c, e) = Flat(F, e - 1)
               /\ AreSeqs(F, e - 1, Token)
               /\ \A j \in 1..e-1 : F[j] = Piece(c, e, j)
  BY <1>2, DataFlat
<1>4. ASSUME NEW j \in 1..e-1 PROVE F[j] = <<>>
  <2>1. CASE j <= s
    <3>1. ~Together(c, e, j)
      BY <1>1, <1>2, <2>1 DEF Together
    <3> QED
      BY <1>3, <3>1 DEF Piece
  <2>2. CASE j > s
    <3>1. j \in s+1..e-1
      BY <1>1, <1>2, <2>2
    <3> QED
      BY <1>3, <3>1 DEF Piece
  <2> QED
    BY <1>1, <2>1, <2>2
<1>5. Flat(F, e - 1) = Flat(F, 0)
  BY <1>2, <1>3, <1>4, FlattenRest
<1> QED
  BY <1>3, <1>5, FlattenNone

-----------------------------------------------------------------------------
(* What a stream says. *)

\* What the last i of I of which f says anything says.
LastSaid(I, f) ==
    LET some == {i \in I : f[i] > 0} IN IF some = {} THEN 0 ELSE f[Max(some)]

\* The member that bounds a set is its largest.
LEMMA MaxIs ==
    ASSUME NEW s \in SUBSET Nat, NEW e \in s, \A i \in s : i <= e
    PROVE  Max(s) = e
<1>1. \E x \in s : \A y \in s : x >= y
  OBVIOUS
<1>2. Max(s) \in s /\ \A y \in s : Max(s) >= y
  BY <1>1 DEF Max
<1>3. Max(s) \in Nat /\ e \in Nat /\ Max(s) >= e /\ Max(s) <= e
  BY <1>2
<1> QED
  BY <1>3

\* A later end counts if it says anything.
LEMMA LastSaidMore ==
    ASSUME NEW I \in SUBSET Nat, NEW e \in Nat, NEW f, NEW g,
           \A i \in I : i < e /\ g[i] = f[i]
    PROVE  LastSaid(I \cup {e}, g) = IF g[e] > 0 THEN g[e] ELSE LastSaid(I, f)
<1> DEFINE A == {i \in I \cup {e} : g[i] > 0}
           B == {i \in I : f[i] > 0}
<1>1. CASE g[e] > 0
  <2>1. A \in SUBSET Nat /\ \A i \in A : i <= e
    <3>1. \A i \in I : i \in Nat /\ i <= e
      OBVIOUS
    <3>2. e <= e
      OBVIOUS
    <3> QED
      BY <3>1, <3>2
  <2>3. e \in A
    BY <1>1
  <2>2. Max(A) = e /\ A # {}
    <3> HIDE DEF A
    <3> QED
      BY <2>1, <2>3, MaxIs
  <2> QED
    BY <1>1, <2>2 DEF LastSaid
<1>2. CASE ~(g[e] > 0)
  <2>1. A = B
    BY <1>2
  <2>2. B # {} => Max(B) \in B
    <3>1. \A i \in B : i \in 1..e \/ i = 0
      OBVIOUS
    <3>2. B \in SUBSET Nat
      OBVIOUS
    <3>3. ASSUME B # {} PROVE \E x \in B : \A y \in B : x >= y
      <4> DEFINE U == {e - i : i \in B}
      <4>1. U \subseteq Nat /\ U # {}
        <5>1. \A i \in I : i \in Nat /\ i < e
          OBVIOUS
        <5>2. PICK i \in B : TRUE
          BY <3>3
        <5>3. e - i \in U
          OBVIOUS
        <5>4. \A k \in B : e - k \in Nat
          BY <5>1
        <5> QED
          BY <5>3, <5>4
      <4>2. PICK x \in U : \A y \in U : x <= y
        <5> HIDE DEF U
        <5> QED
          BY <4>1, LeastNatural
      <4>3. PICK m \in B : x = e - m
        OBVIOUS
      <4>4. ASSUME NEW y \in B PROVE m >= y
        <5>1. e - y \in U /\ y \in Nat /\ m \in Nat
          OBVIOUS
        <5>2. e - m <= e - y
          BY <4>2, <4>3, <5>1
        <5> QED
          BY <5>1, <5>2
      <4> QED
        BY <4>4
    <3> QED
      BY <3>3 DEF Max
  <2>3. B # {} => g[Max(B)] = f[Max(B)]
    BY <2>2
  <2>4. LastSaid(I \cup {e}, g) = (IF A = {} THEN 0 ELSE g[Max(A)])
    BY DEF LastSaid
  <2>5. LastSaid(I, f) = (IF B = {} THEN 0 ELSE f[Max(B)])
    BY DEF LastSaid
  <2> HIDE DEF A, B
  <2>6. LastSaid(I \cup {e}, g) = LastSaid(I, f)
    BY <2>1, <2>3, <2>4, <2>5
  <2> QED
    BY <1>2, <2>6
<1> QED
  BY <1>1, <1>2

\* The last said depends on nothing but what is said.
LEMMA LastSaidSame ==
    ASSUME NEW n \in Nat, NEW I \in SUBSET (1..n), NEW f, NEW g, \A i \in I : g[i] = f[i]
    PROVE  LastSaid(I, g) = LastSaid(I, f)
<1> DEFINE A == {i \in I : g[i] > 0}
           B == {i \in I : f[i] > 0}
<1>1. A = B /\ B \in SUBSET (1..n)
  OBVIOUS
<1>2. B # {} => Max(B) \in B
  <2> HIDE DEF B
  <2> QED
    BY <1>1, MaxOfSome
<1>3. B # {} => g[Max(B)] = f[Max(B)]
  BY <1>2
<1>4. LastSaid(I, g) = (IF A = {} THEN 0 ELSE g[Max(A)])
      /\ LastSaid(I, f) = (IF B = {} THEN 0 ELSE f[Max(B)])
  BY DEF LastSaid
<1> HIDE DEF A, B
<1> QED
  BY <1>1, <1>3, <1>4

\* What the event that ends at each place says.
Each(d, b) == [i \in Nat |-> Says(d, TRUE, DataOf(b, i))]

\* What the last event says that ends in I and says anything: StreamSays
\* with its places named.
SaidAt(d, b, I) ==
    LET ends == {i \in I : Says(d, TRUE, DataOf(b, i)) > 0}
    IN  IF ends = {} THEN 0 ELSE Says(d, TRUE, DataOf(b, Max(ends)))

\* The reference value in terms of LastSaid.
LEMMA EndsOf ==
    ASSUME NEW d, NEW b, NEW n \in Nat, NEW I \in SUBSET (1..n)
    PROVE  SaidAt(d, b, I) = LastSaid(I, Each(d, b))
<1> DEFINE ends == {i \in I : Says(d, TRUE, DataOf(b, i)) > 0}
           f == Each(d, b)
           some == {i \in I : f[i] > 0}
<1>1. \A i \in I : i \in Nat /\ f[i] = Says(d, TRUE, DataOf(b, i))
  <2> TAKE i \in I
  <2>1. i \in Nat
    OBVIOUS
  <2> QED
    BY <2>1 DEF Each
<1> HIDE DEF f
<1>2. ends = some /\ some \in SUBSET (1..n)
  BY <1>1
<1>3. some # {} => Max(some) \in some
  <2> HIDE DEF some
  <2> QED
    BY <1>2, MaxOfSome
<1>4. some # {} => f[Max(some)] = Says(d, TRUE, DataOf(b, Max(some)))
  BY <1>1, <1>3
<1>5. LastSaid(I, f) = (IF some = {} THEN 0 ELSE f[Max(some)])
  BY DEF LastSaid
<1> HIDE DEF some, ends
<1>6. (IF ends = {} THEN 0 ELSE Says(d, TRUE, DataOf(b, Max(ends)))) = LastSaid(I, f)
  BY <1>2, <1>4, <1>5
<1> QED
  BY <1>6 DEF ends, f, SaidAt

\* Blank lines are within the bytes.
LEMMA BlanksIn ==
    ASSUME NEW b \in Line
    PROVE  Blanks(b) \in SUBSET (1..Len(b)) /\ Blanks(b) \cup {Len(b) + 1} \in SUBSET (1..Len(b)+1)
BY BlankIs, StartsAre, LineFacts

\* What a stream says is what the last of its ends says.
LEMMA StreamSaysIs ==
    ASSUME NEW d, NEW b \in Line
    PROVE  /\ StreamSays(d, b, FALSE) = LastSaid(Blanks(b), Each(d, b))
           /\ StreamSays(d, b, TRUE) = LastSaid(Blanks(b) \cup {Len(b) + 1}, Each(d, b))
<1>1. Len(b) \in Nat /\ Len(b) + 1 \in Nat
  BY LineFacts
<1>2. Blanks(b) \in SUBSET (1..Len(b)) /\ Blanks(b) \cup {Len(b) + 1} \in SUBSET (1..Len(b)+1)
  BY BlanksIn
<1>3. StreamSays(d, b, FALSE) = SaidAt(d, b, Blanks(b))
  <2>1. Blanks(b) \cup (IF FALSE THEN {Len(b) + 1} ELSE {}) = Blanks(b)
    OBVIOUS
  <2>2. StreamSays(d, b, FALSE) = SaidAt(d, b, Blanks(b) \cup (IF FALSE THEN {Len(b) + 1} ELSE {}))
    BY ONLY TRUE DEF StreamSays, SaidAt
  <2> QED
    BY ONLY <2>1, <2>2
<1>4. StreamSays(d, b, TRUE) = SaidAt(d, b, Blanks(b) \cup {Len(b) + 1})
  <2>1. Blanks(b) \cup (IF TRUE THEN {Len(b) + 1} ELSE {}) = Blanks(b) \cup {Len(b) + 1}
    OBVIOUS
  <2>2. StreamSays(d, b, TRUE) = SaidAt(d, b, Blanks(b) \cup (IF TRUE THEN {Len(b) + 1} ELSE {}))
    BY ONLY TRUE DEF StreamSays, SaidAt
  <2> QED
    BY ONLY <2>1, <2>2
<1>5. SaidAt(d, b, Blanks(b)) = LastSaid(Blanks(b), Each(d, b))
  BY ONLY <1>1, <1>2, EndsOf
<1>6. SaidAt(d, b, Blanks(b) \cup {Len(b) + 1}) = LastSaid(Blanks(b) \cup {Len(b) + 1}, Each(d, b))
  BY ONLY <1>1, <1>2, EndsOf
<1> QED
  BY ONLY <1>3, <1>4, <1>5, <1>6

\* More bytes do not change what the ended events say.
LEMMA EachSame ==
    ASSUME NEW d, NEW b \in Line, NEW c \in Line, Continues(b, c), NEW s, IsStart(b, s)
    PROVE  \A i \in 1..s : Each(d, c)[i] = Each(d, b)[i]
<1> TAKE i \in 1..s
<1>1. i \in Nat
  BY DEF IsStart
<1>2. DataOf(c, i) = DataOf(b, i)
  BY DataSame
<1> QED
  BY <1>1, <1>2 DEF Each

\* Without a new blank line a stream says what it said.
LEMMA SaysSame ==
    ASSUME NEW d, NEW b \in Line, NEW c \in Line, Continues(b, c), NEW s, IsStart(b, s),
           Blanks(c) = Blanks(b)
    PROVE  StreamSays(d, c, FALSE) = StreamSays(d, b, FALSE)
<1>1. \A i \in Blanks(b) : i \in 1..s
  <2>1. \A i \in Blanks(b) : i \in 1..s-1
    BY BlanksBefore
  <2>2. s \in Nat
    BY LineFacts DEF IsStart
  <2> QED
    BY <2>1, <2>2
<1>2. \A i \in Blanks(b) : Each(d, c)[i] = Each(d, b)[i]
  BY <1>1, EachSame
<1>3. Len(b) \in Nat /\ Blanks(b) \in SUBSET (1..Len(b))
  BY BlanksIn, LineFacts
<1>4. LastSaid(Blanks(b), Each(d, c)) = LastSaid(Blanks(b), Each(d, b))
  BY <1>2, <1>3, LastSaidSame
<1> QED
  BY <1>4, StreamSaysIs

\* A new blank line adds the event that it ends.
LEMMA SaysMore ==
    ASSUME NEW d, NEW b \in Line, NEW c \in Line, Continues(b, c), NEW s, IsStart(b, s),
           Blanks(c) = Blanks(b) \cup {s}
    PROVE  StreamSays(d, c, FALSE) = IF Says(d, TRUE, DataOf(b, s)) > 0
                                     THEN Says(d, TRUE, DataOf(b, s)) ELSE StreamSays(d, b, FALSE)
<1>1. s \in Nat /\ s \in 1..s
  BY LineFacts DEF IsStart
<1>2. \A i \in Blanks(b) : i \in 1..s /\ i < s
  BY <1>1, BlanksBefore
<1>3. \A i \in Blanks(b) : i < s /\ Each(d, c)[i] = Each(d, b)[i]
  BY <1>2, EachSame
<1>4. Blanks(b) \in SUBSET Nat
  BY BlanksIn
<1>5. LastSaid(Blanks(c), Each(d, c)) =
          IF Each(d, c)[s] > 0 THEN Each(d, c)[s] ELSE LastSaid(Blanks(b), Each(d, b))
  <2> DEFINE f == Each(d, b)
             g == Each(d, c)
             I == Blanks(b)
  <2>1. I \in SUBSET Nat /\ s \in Nat /\ \A i \in I : i < s /\ g[i] = f[i]
    BY <1>1, <1>3, <1>4
  <2> HIDE DEF f, g, I
  <2>2. LastSaid(I \cup {s}, g) = IF g[s] > 0 THEN g[s] ELSE LastSaid(I, f)
    BY <2>1, LastSaidMore
  <2> QED
    BY <2>2 DEF f, g, I
<1>6. Each(d, c)[s] = Each(d, b)[s]
  BY <1>1, EachSame
<1>7. Each(d, b)[s] = Says(d, TRUE, DataOf(b, s))
  BY <1>1 DEF Each
<1> QED
  BY <1>5, <1>6, <1>7, StreamSaysIs

\* The end of a stream adds the event that it ends.
LEMMA SaysEnd ==
    ASSUME NEW d, NEW b \in Line
    PROVE  StreamSays(d, b, TRUE) = IF Says(d, TRUE, DataOf(b, Len(b) + 1)) > 0
                                    THEN Says(d, TRUE, DataOf(b, Len(b) + 1))
                                    ELSE StreamSays(d, b, FALSE)
<1> DEFINE e == Len(b) + 1
           f == Each(d, b)
<1>1. Len(b) \in Nat /\ e \in Nat
  BY LineFacts
<1>2. Blanks(b) \in SUBSET (1..Len(b))
  BY BlanksIn
<1>3. \A i \in Blanks(b) : i \in Nat /\ i < e
  BY <1>1, <1>2
<1> HIDE DEF e, f
<1>4. \A i \in Blanks(b) : i < e /\ f[i] = f[i]
  BY <1>3
<1>5. Blanks(b) \in SUBSET Nat
  BY <1>3
<1>6. LastSaid(Blanks(b) \cup {e}, f) = IF f[e] > 0 THEN f[e] ELSE LastSaid(Blanks(b), f)
  <2> DEFINE I == Blanks(b)
  <2>1. I \in SUBSET Nat /\ e \in Nat /\ \A i \in I : i < e /\ f[i] = f[i]
    BY <1>1, <1>4, <1>5
  <2> HIDE DEF I
  <2>2. LastSaid(I \cup {e}, f) = IF f[e] > 0 THEN f[e] ELSE LastSaid(I, f)
    BY <2>1, LastSaidMore
  <2> QED
    BY <2>2 DEF I
<1>7. f[e] = Says(d, TRUE, DataOf(b, e))
  BY <1>1 DEF Each, f
<1> QED
  BY <1>6, <1>7, StreamSaysIs DEF e, f

\* One byte more, which ends no line.
LEMMA StepPlain ==
    ASSUME NEW d, NEW b \in Line, NEW c \in Line, Continues(b, c), Len(c) = Len(b) + 1,
           NEW s, IsStart(b, s), c[Len(c)] # "LF"
    PROVE  /\ IsStart(c, s)
           /\ DataOf(c, s) = DataOf(b, s)
           /\ StreamSays(d, c, FALSE) = StreamSays(d, b, FALSE)
<1>1. Len(b) \in Nat /\ Len(c) \in Nat /\ \A k \in 1..Len(b) : c[k] = b[k]
  BY LineFacts DEF Continues
<1>2. s \in 1..Len(b)+1 /\ (s = 1 \/ b[s - 1] = "LF") /\ \A j \in s..Len(b) : b[j] # "LF"
  BY DEF IsStart
<1>3. IsStart(c, s)
  <2>1. s \in 1..Len(c)+1
    BY <1>1, <1>2
  <2>2. s = 1 \/ c[s - 1] = "LF"
    <3>1. s # 1 => s - 1 \in 1..Len(b)
      BY <1>1, <1>2
    <3> QED
      BY <1>1, <1>2, <3>1
  <2>3. \A j \in s..Len(c) : c[j] # "LF"
    <3> TAKE j \in s..Len(c)
    <3>1. j = Len(c) \/ (j \in s..Len(b) /\ j \in 1..Len(b))
      BY <1>1, <1>2
    <3> QED
      BY <1>1, <1>2, <3>1
  <2> QED
    BY <2>1, <2>2, <2>3 DEF IsStart
<1>4. Blanks(c) = Blanks(b)
  BY <1>3, BlanksBefore, BlanksSame
<1>5. s \in 1..s
  BY <1>2
<1> QED
  BY <1>3, <1>4, <1>5, DataSame, SaysSame

\* The newline of the last line.
LEMMA StepNewline ==
    ASSUME NEW b \in Line, NEW c \in Line, Continues(b, c), Len(c) = Len(b) + 1,
           NEW s, IsStart(b, s), c[Len(c)] = "LF"
    PROVE  /\ IsStart(c, Len(c) + 1)
           /\ LineFrom(c, s) = TrimCR(SubSeq(b, s, Len(b)))
           /\ s \in LineStarts(c)
           /\ \A j \in s+1..Len(c) : j \notin LineStarts(c)
           /\ Blanks(c) = IF LineFrom(c, s) = <<>> THEN Blanks(b) \cup {s} ELSE Blanks(b)
<1>1. Len(b) \in Nat /\ Len(c) \in Nat /\ Len(b) <= Len(c) /\ \A k \in 1..Len(b) : c[k] = b[k]
  BY LineFacts DEF Continues
<1>2. s \in 1..Len(b)+1 /\ (s = 1 \/ b[s - 1] = "LF") /\ \A j \in s..Len(b) : b[j] # "LF"
  BY DEF IsStart
<1>3. IsStart(c, Len(c) + 1)
  BY <1>1 DEF IsStart
<1>4. LineFrom(c, s) = TrimCR(SubSeq(b, s, Len(b)))
  <2>1. s \in Nat \ {0} /\ Len(b) \in s-1..Len(c) /\ Len(b) \in Int /\ s - 1 <= Len(b)
        /\ Len(b) + 1 = Len(c)
    BY <1>1, <1>2
  <2>2. \A j \in s..Len(b) : j \in 1..Len(b)
    BY <1>1, <1>2
  <2>3. IsStop(c, s, Len(b))
    BY <1>1, <1>2, <2>1, <2>2 DEF IsStop
  <2>4. SubSeq(b, s, Len(b)) = SubSeq(c, s, Len(b))
    <3>1. \A k \in 1..Len(b) : b[k] = c[k]
      BY <1>1
    <3>2. Len(b) <= Len(b)
      BY <1>1
    <3> QED
      BY <1>1, <2>1, <3>1, <3>2, CutsSame
  <2>5. LineFrom(c, s) = TrimCR(SubSeq(c, s, Len(b)))
    BY <2>1, <2>3, LineFromIs
  <2> QED
    BY <2>4, <2>5
<1>5. s \in LineStarts(c)
  <2>1. s \in 1..Len(c) /\ (s # 1 => s - 1 \in 1..Len(b))
    BY <1>1, <1>2
  <2>2. s = 1 \/ c[s - 1] = "LF"
    BY <1>1, <1>2, <2>1
  <2> QED
    BY <2>1, <2>2, StartsAre
<1>6. \A j \in s+1..Len(c) : j \notin LineStarts(c)
  <2> TAKE j \in s+1..Len(c)
  <2>1. j # 1 /\ j - 1 \in s..Len(b) /\ j - 1 \in 1..Len(b)
    BY <1>1, <1>2
  <2>2. c[j - 1] # "LF"
    BY <1>1, <1>2, <2>1
  <2> QED
    BY <2>1, <2>2, StartsAre
<1>7. ASSUME NEW i \in Blanks(c) PROVE i \in 1..s-1 \/ i = s
  <2>1. i \in LineStarts(c) /\ i \in 1..Len(c)
    BY BlankIs, StartsAre
  <2>2. i \notin s+1..Len(c)
    BY <1>6, <2>1
  <2> QED
    BY <1>1, <1>2, <2>1, <2>2
<1>8. s \in Blanks(c) <=> LineFrom(c, s) = <<>>
  <2>1. Len(c) \in 1..Len(c) /\ Len(c) >= s
    BY <1>1, <1>2
  <2> QED
    BY <1>5, <2>1, BlankIs
<1>9. s \notin Blanks(b)
  <2>1. s \notin 1..s-1
    BY <1>2
  <2> QED
    BY <2>1, BlanksBefore
<1>10. \A i \in 1..s-1 : i \in Blanks(c) <=> i \in Blanks(b)
  BY BlanksSame
<1>11. \A i \in Blanks(b) : i \in 1..s-1
  BY BlanksBefore
<1>12. Blanks(c) = IF LineFrom(c, s) = <<>> THEN Blanks(b) \cup {s} ELSE Blanks(b)
  <2>1. CASE LineFrom(c, s) = <<>>
    <3>1. Blanks(c) = Blanks(b) \cup {s}
      BY <1>7, <1>8, <1>10, <1>11, <2>1
    <3> QED
      BY <2>1, <3>1
  <2>2. CASE LineFrom(c, s) # <<>>
    <3>1. Blanks(c) = Blanks(b)
      BY <1>7, <1>8, <1>10, <1>11, <2>2
    <3> QED
      BY <2>2, <3>1
  <2> QED
    BY <2>1, <2>2
<1> QED
  BY <1>3, <1>4, <1>5, <1>6, <1>12

\* A newline that ends a blank line ends an event.
LEMMA StepBlank ==
    ASSUME NEW d, NEW b \in Line, NEW c \in Line, Continues(b, c), Len(c) = Len(b) + 1,
           NEW s, IsStart(b, s), c[Len(c)] = "LF", LineFrom(c, s) = <<>>
    PROVE  /\ DataOf(c, Len(c) + 1) = <<>>
           /\ StreamSays(d, c, FALSE) = IF Says(d, TRUE, DataOf(b, s)) > 0
                                        THEN Says(d, TRUE, DataOf(b, s)) ELSE StreamSays(d, b, FALSE)
<1>1. Blanks(c) = Blanks(b) \cup {s} /\ \A j \in s+1..Len(c) : j \notin LineStarts(c)
  BY StepNewline
<1>2. Len(b) \in Nat /\ Len(c) \in Nat /\ s \in 1..Len(b)+1
  BY LineFacts DEF IsStart
<1> DEFINE e == Len(c) + 1
<1>3. s \in Blanks(c) /\ e \in s+1..Len(c)+2 /\ e - 1 = Len(c)
  BY <1>1, <1>2
<1> HIDE DEF e
<1>4. \A j \in s+1..e-1 : j \notin LineStarts(c)
  BY <1>1, <1>3
<1>5. DataOf(c, e) = <<>>
  BY <1>3, <1>4, DataBlank
<1> QED
  BY <1>1, <1>5, SaysMore DEF e

\* A newline that ends another line adds the data of that line.
LEMMA StepLine ==
    ASSUME NEW d, NEW b \in Line, NEW c \in Line, Continues(b, c), Len(c) = Len(b) + 1,
           NEW s, IsStart(b, s), c[Len(c)] = "LF", LineFrom(c, s) # <<>>
    PROVE  /\ DataOf(c, Len(c) + 1) = DataOf(b, s) \o LineData(LineFrom(c, s))
           /\ StreamSays(d, c, FALSE) = StreamSays(d, b, FALSE)
<1>1. Blanks(c) = Blanks(b) /\ s \in LineStarts(c) /\ \A j \in s+1..Len(c) : j \notin LineStarts(c)
  BY StepNewline
<1>2. Len(b) \in Nat /\ Len(c) \in Nat /\ s \in 1..Len(b)+1
  BY LineFacts DEF IsStart
<1> DEFINE e == Len(c) + 1
<1>3. e \in s+1..Len(c)+2 /\ e - 1 = Len(c)
  BY <1>2
<1> HIDE DEF e
<1>4. \A j \in s+1..e-1 : j \notin LineStarts(c)
  BY <1>1, <1>3
<1>5. \A k \in Blanks(c) : ~(s <= k /\ k < e)
  <2>1. \A k \in Blanks(c) : k \in 1..s-1
    BY <1>1, BlanksBefore
  <2> QED
    BY <1>2, <2>1
<1>6. DataOf(c, e) = DataOf(b, s) \o LineData(LineFrom(c, s))
  BY <1>1, <1>3, <1>4, <1>5, DataLast
<1> QED
  BY <1>1, <1>6, SaysSame DEF e

\* The end of the bytes ends the last line, which has a byte.
LEMMA StepEnd ==
    ASSUME NEW b \in Line, NEW s, IsStart(b, s), s <= Len(b)
    PROVE  /\ LineFrom(b, s) = TrimCR(SubSeq(b, s, Len(b)))
           /\ DataOf(b, Len(b) + 1) = DataOf(b, s) \o LineData(LineFrom(b, s))
<1>1. Len(b) \in Nat
  BY LineFacts
<1>2. s \in 1..Len(b)+1 /\ (s = 1 \/ b[s - 1] = "LF") /\ \A j \in s..Len(b) : b[j] # "LF"
  BY DEF IsStart
<1>3. LineFrom(b, s) = TrimCR(SubSeq(b, s, Len(b)))
  <2>1. IsStop(b, s, Len(b)) /\ s \in Nat \ {0}
    BY <1>1, <1>2 DEF IsStop
  <2> QED
    BY <2>1, LineFromIs
<1> DEFINE e == Len(b) + 1
<1>4. e \in s+1..Len(b)+2 /\ e - 1 = Len(b) /\ s \in 1..Len(b)
  BY <1>1, <1>2
<1> HIDE DEF e
<1>5. \A j \in s+1..e-1 : j \notin LineStarts(b)
  <2> TAKE j \in s+1..e-1
  <2>1. j # 1 /\ j - 1 \in s..Len(b)
    BY <1>1, <1>2, <1>4
  <2> QED
    BY <1>2, <2>1, StartsAre
<1>6. s \in LineStarts(b)
  BY <1>2, <1>4, StartsAre
<1>7. \A k \in Blanks(b) : ~(s <= k /\ k < e)
  <2>1. \A k \in Blanks(b) : k \in 1..s-1
    BY BlanksBefore
  <2> QED
    BY <1>2, <2>1
<1>8. Continues(b, b)
  BY <1>1 DEF Continues
<1>9. DataOf(b, e) = DataOf(b, s) \o LineData(LineFrom(b, s))
  BY <1>4, <1>5, <1>6, <1>7, <1>8, DataLast
<1> QED
  BY <1>3, <1>9 DEF e

-----------------------------------------------------------------------------
(* What the steps of the parser do to what is pending and what is known. *)

\* The text of the data the parser holds back.
Pending(p) == Text(Join(p.pendingData))

\* The tokens known when the events of the call at hand have been looked at.
Known(d, u, p) == Used(ProcessEvents(d, u, p.events))

\* An event without data says nothing.
LEMMA SaysNothing ==
    ASSUME NEW d
    PROVE  Says(d, TRUE, <<>>) = 0
BY ReadersAssumption DEF Says

\* The tokens of the latest usage are those of the last event that reports any.
LEMMA LatestUsed ==
    ASSUME NEW u, NEW v, NEW n, Agrees(v, n)
    PROVE  Used(Latest(u, v)) = IF n > 0 THEN n ELSE Used(u)
<1>1. n \in Nat /\ (v = NoUsage <=> n = 0) /\ Used(v) = n
  BY DEF Agrees
<1>2. CASE v = NoUsage
  <2>1. n = 0 /\ Latest(u, v) = u
    BY <1>1, <1>2 DEF Latest
  <2> QED
    BY <2>1
<1>3. CASE v # NoUsage
  <2>1. n > 0 /\ Latest(u, v) = v
    BY <1>1, <1>3 DEF Latest
  <2> QED
    BY <1>1, <2>1
<1> QED
  BY <1>2, <1>3

\* flushData turns what is pending into an event, and the usage known into what it says.
LEMMA FlushEffect ==
    ASSUME NEW d \in Dialect, NEW u \in Usage, NEW p \in Parser
    PROVE  /\ Pending(FlushData(p)) = <<>>
           /\ FlushData(p).lineBuf = p.lineBuf
           /\ Known(d, u, FlushData(p)) = IF Says(d, TRUE, Pending(p)) > 0
                                          THEN Says(d, TRUE, Pending(p)) ELSE Known(d, u, p)
<1>1. CASE p.pendingData = <<>>
  <2>1. FlushData(p) = p
    BY <1>1 DEF FlushData
  <2>2. Pending(p) = <<>>
    BY <1>1, TextJoinNone DEF Pending
  <2> DEFINE n == Says(d, TRUE, Pending(p))
  <2>3. n = 0
    BY <2>2, SaysNothing
  <2> HIDE DEF n
  <2>4. Known(d, u, p) = IF n > 0 THEN n ELSE Known(d, u, p)
    BY <2>3
  <2> QED
    BY <2>1, <2>2, <2>4 DEF n
<1>2. CASE p.pendingData # <<>>
  <2> DEFINE e == Event(Join(p.pendingData))
             q == FlushData(p)
             n == Says(d, TRUE, Pending(p))
  <2>1. q.pendingData = <<>> /\ q.lineBuf = p.lineBuf /\ q.events = Append(p.events, e)
    BY <1>2 DEF FlushData, Emit, Parser
  <2>2. ~e.done /\ e.data = Join(p.pendingData)
    BY DEF Event
  <2>3. p.events \in Events /\ p.pendingData \in Seq(Line)
    BY DEF Parser
  <2>4. e \in [data : Line, done : BOOLEAN]
    BY <2>3, JoinHead DEF Event
  <2>5. Agrees(ExtractFromEvent(d, e), n)
    BY <2>2, EventSays DEF Pending
  <2> HIDE DEF e, q, n
  <2>6. ProcessEvents(d, u, q.events) = Latest(ProcessEvents(d, u, p.events), ExtractFromEvent(d, e))
    BY <2>1, <2>3, <2>4, ProcessMore
  <2>7. Known(d, u, q) = IF n > 0 THEN n ELSE Known(d, u, p)
    BY <2>5, <2>6, LatestUsed DEF Known
  <2>8. Pending(q) = <<>>
    BY <2>1, TextJoinNone DEF Pending
  <2> QED
    BY <2>1, <2>7, <2>8 DEF q, n
<1> QED
  BY <1>1, <1>2

\* A sequence of two.
LEMMA TwoOf ==
    ASSUME NEW S, NEW x \in S, NEW y \in S, NEW s \in Seq(S), Len(s) = 2, s[1] = x, s[2] = y
    PROVE  s = <<x, y>> /\ <<x, y>> \in Seq(S)
<1> DEFINE b == <<x, y>>
<1>1. b \in Seq(S) /\ Len(b) = 2 /\ b[1] = x /\ b[2] = y
  OBVIOUS
<1>2. \A i \in 1..2 : i = 1 \/ i = 2
  OBVIOUS
<1> HIDE DEF b
<1>3. s = b
  BY <1>1, <1>2, SeqEqual
<1> QED
  BY <1>1, <1>3 DEF b

\* A sequence of three.
LEMMA ThreeOf ==
    ASSUME NEW S, NEW x \in S, NEW y \in S, NEW z \in S,
           NEW s \in Seq(S), Len(s) = 3, s[1] = x, s[2] = y, s[3] = z
    PROVE  s = <<x, y, z>>
<1> DEFINE b == <<x, y, z>>
<1>1. b \in Seq(S) /\ Len(b) = 3 /\ b[1] = x /\ b[2] = y /\ b[3] = z
  OBVIOUS
<1>2. \A i \in 1..3 : i = 1 \/ i = 2 \/ i = 3
  OBVIOUS
<1> HIDE DEF b
<1>3. s = b
  BY <1>1, <1>2, SeqEqual
<1> QED
  BY <1>3 DEF b

\* A sequence of one.
LEMMA OneOf ==
    ASSUME NEW S, NEW x \in S
    PROVE  <<x>> \in Seq(S) /\ Len(<<x>>) = 1 /\ <<x>>[1] = x
OBVIOUS

\* One joined to one.
LEMMA OneAndOne ==
    ASSUME NEW S, NEW x \in S, NEW y \in S
    PROVE  <<x>> \o <<y>> = <<x, y>>
<1> DEFINE a == <<x>>
     b == <<y>>
     s == a \o b
<1>1. a \in Seq(S) /\ b \in Seq(S) /\ Len(a) = 1 /\ Len(b) = 1 /\ a[1] = x /\ b[1] = y
  BY OneOf
<1> HIDE DEF a, b
<1>2. s \in Seq(S) /\ Len(s) = 2 /\ \A i \in 1..2 : s[i] = IF i <= 1 THEN a[i] ELSE b[i - 1]
  BY <1>1, ConcatProperties
<1> HIDE DEF s
<1>3. s[1] = x /\ s[2] = y
  BY <1>1, <1>2
<1>4. s = <<x, y>>
  BY <1>2, <1>3, TwoOf
<1> QED
  BY <1>4 DEF s, a, b

\* One joined to two.
LEMMA TwoAndOne ==
    ASSUME NEW S, NEW x \in S, NEW y \in S, NEW z \in S
    PROVE  <<x, y>> \o <<z>> = <<x, y, z>>
<1> DEFINE a == <<x, y>>
           b == <<z>>
           s == a \o b
<1>1. a \in Seq(S) /\ b \in Seq(S) /\ Len(a) = 2 /\ Len(b) = 1 /\ a[1] = x /\ a[2] = y /\ b[1] = z
  <2>1. a \in Seq(S) /\ Len(a) = 2 /\ a[1] = x /\ a[2] = y
    OBVIOUS
  <2> QED
    BY <2>1, OneOf
<1> HIDE DEF a, b
<1>2. s \in Seq(S) /\ Len(s) = 3 /\ \A i \in 1..3 : s[i] = IF i <= 2 THEN a[i] ELSE b[i - 2]
  <2>1. /\ s \in Seq(S) /\ Len(s) = Len(a) + Len(b)
        /\ \A i \in 1..Len(a)+Len(b) : s[i] = IF i <= Len(a) THEN a[i] ELSE b[i - Len(a)]
    BY <1>1, ConcatProperties
  <2>2. Len(a) + Len(b) = 3
    BY <1>1
  <2> HIDE DEF s
  <2> QED
    BY <1>1, <2>1, <2>2
<1> HIDE DEF s
<1>3. s[1] = x /\ s[2] = y /\ s[3] = z
  BY <1>1, <1>2
<1>4. s = <<x, y, z>>
  BY <1>2, <1>3, ThreeOf
<1> QED
  BY <1>4 DEF s, a, b

\* The words that processLine looks for.
LEMMA TheWords ==
    /\ <<"da", "ta:">> \in Line /\ <<"[DONE]">> \in Line
    /\ <<"da">> \o <<"ta:">> = <<"da", "ta:">>
    /\ <<"da", "ta:">> \o <<"[DONE]">> = <<"da", "ta:", "[DONE]">>
    /\ SubSeq(<<"da", "ta:">>, 1, Len(<<"da", "ta:">>)) = <<"da", "ta:">>
    /\ Len(<<"da", "ta:">>) = 2
<1>1. "[DONE]" \in Token /\ "da" \in Token /\ "ta:" \in Token
  BY DEF Token
<1>2. <<"da", "ta:">> \in Seq(Token) /\ <<"[DONE]">> \in Seq(Token)
  BY <1>1
<1>3. SubSeq(<<"da", "ta:">>, 1, Len(<<"da", "ta:">>)) = <<"da", "ta:">>
  BY <1>2, SubSeqFull
<1>4. <<"da">> \o <<"ta:">> = <<"da", "ta:">>
  BY <1>1, OneAndOne
<1>5. <<"da", "ta:">> \o <<"[DONE]">> = <<"da", "ta:", "[DONE]">>
  BY <1>1, TwoAndOne
<1>6. Len(<<"da", "ta:">>) = 2
  OBVIOUS
<1> QED
  BY <1>2, <1>3, <1>4, <1>5, <1>6 DEF Line

\* A data line is the name of the field and the rest.
LEMMA PrefixLine ==
    ASSUME NEW line \in Line, IsPrefix(<<"da", "ta:">>, line)
    PROVE  LET rest == SubSeq(line, 3, Len(line))
           IN  /\ rest \in Line
               /\ Text(line) = <<"da", "ta:">> \o Text(rest)
               /\ Text(rest) \in Line
<1> DEFINE n == Len(line)
           two == <<"da", "ta:">>
           head == SubSeq(line, 1, 2)
           rest == SubSeq(line, 3, n)
<1>1. n \in Nat /\ n >= 2 /\ head = two
  <2>1. Len(two) <= n /\ SubSeq(two, 1, Len(two)) = SubSeq(line, 1, Len(two))
    BY DEF IsPrefix
  <2> QED
    BY <2>1, TheWords, LineFacts
<1>2. head \in Line /\ rest \in Line
  <2>1. 1 \in Nat \ {0} /\ 2 \in Int /\ 1 - 1 <= 2 /\ 2 <= n /\ 3 \in Nat \ {0} /\ n \in Int
        /\ 3 - 1 <= n /\ n <= n
    BY <1>1
  <2> QED
    BY <2>1, CutLine
<1>3. head \o rest = line
  <2>1. 1 \in 1..Len(line)+1 /\ 2 \in 1-1..Len(line) /\ n \in 2..Len(line) /\ 2 + 1 = 3
    BY <1>1
  <2>2. SubSeq(line, 1, 2) \o SubSeq(line, 2 + 1, n) = SubSeq(line, 1, n)
    BY <2>1, ConcatAdjacentSubSeq DEF Line
  <2>3. SubSeq(line, 1, n) = line
    BY SubSeqFull DEF Line
  <2> QED
    BY <2>1, <2>2, <2>3
<1>4. Text(two) = two
  <2> DEFINE a == <<"da">>
             b == <<"ta:">>
  <2>1. a \in Line /\ b \in Line /\ Text(a) = a /\ Text(b) = b
    <3>1. "da" \in Token \ Space /\ "ta:" \in Token \ Space
      BY DEF Token, Space
    <3> QED
      BY <3>1, TextWord
  <2>2. a \o b = two
    BY TheWords
  <2> HIDE DEF a, b, two
  <2>3. Text(a \o b) = Text(a) \o Text(b)
    BY <2>1, TextConcat
  <2> QED
    BY <2>1, <2>2, <2>3
<1> HIDE DEF head, rest, two, n
<1>5. Text(line) = Text(head) \o Text(rest)
  BY <1>2, <1>3, TextConcat
<1>6. Text(rest) \in Line
  BY <1>2, TextType
<1> QED
  BY <1>1, <1>2, <1>4, <1>5, <1>6 DEF rest, two, n

\* processLine and the reference mean the same lines by "[DONE]".
LEMMA DoneLine ==
    ASSUME NEW line \in Line, IsPrefix(<<"da", "ta:">>, line)
    PROVE  TrimSpace(SubSeq(line, 3, Len(line))) = <<"[DONE]">> <=>
               Text(line) = <<"da", "ta:", "[DONE]">>
<1> DEFINE rest == SubSeq(line, 3, Len(line))
           two == <<"da", "ta:">>
           done == <<"[DONE]">>
<1>1. rest \in Line /\ Text(line) = two \o Text(rest) /\ Text(rest) \in Line
  BY PrefixLine
<1>2. "[DONE]" \in Token \ Space /\ "da" \in Token /\ "ta:" \in Token
  BY DEF Token, Space
<1>3. TrimSpace(rest) = done <=> Text(rest) = done
  BY <1>1, <1>2, OneWord
<1>4. two \o done = <<"da", "ta:", "[DONE]">>
  BY TheWords
<1>5. two \in Line /\ done \in Line
  BY TheWords
<1> HIDE DEF rest, two, done
<1>6. two \o Text(rest) = two \o done <=> Text(rest) = done
  BY <1>1, <1>5, ConcatSimplifications DEF Line
<1>7. TrimSpace(rest) = done <=> Text(line) = <<"da", "ta:", "[DONE]">>
  BY <1>1, <1>3, <1>4, <1>6
<1> QED
  BY <1>7 DEF rest, done

\* A line that is not blank adds its data to its event, and tells nothing yet.
LEMMA LineEffect ==
    ASSUME NEW d \in Dialect, NEW u \in Usage, NEW p \in Parser, NEW line \in Line, line # <<>>
    PROVE  /\ Pending(ProcessLine(p, line)) = Pending(p) \o LineData(line)
           /\ Known(d, u, ProcessLine(p, line)) = Known(d, u, p)
<1> DEFINE q == ProcessLine(p, line)
           rest == SubSeq(line, 3, Len(line))
           data == TrimSpace(rest)
<1>1. p.pendingData \in Seq(Line) /\ p.events \in Events
  BY DEF Parser
<1>2. Pending(p) \in Line /\ Pending(p) \o <<>> = Pending(p)
  <2>1. Pending(p) \in Line
    BY <1>1, JoinHead, TextType DEF Pending
  <2> QED
    BY <2>1, ConcatEmptySeq DEF Line
<1>3. CASE ~IsPrefix(<<"da", "ta:">>, line)
  <2>1. q = p
    BY <1>3 DEF ProcessLine
  <2>2. LineData(line) = <<>>
    BY <1>3 DEF LineData
  <2> QED
    BY <1>2, <2>1, <2>2
<1>4. CASE IsPrefix(<<"da", "ta:">>, line) /\ data = <<"[DONE]">>
  <2>1. q = Emit(p, DoneEvent)
    BY <1>4 DEF ProcessLine
  <2>2. q.pendingData = p.pendingData /\ q.events = Append(p.events, DoneEvent)
    BY <2>1 DEF Emit, Parser
  <2>3. LineData(line) = <<>>
    BY <1>4, DoneLine DEF LineData
  <2>4. DoneEvent \in [data : Line, done : BOOLEAN] /\ DoneEvent.done
    BY LineIsSeq DEF DoneEvent
  <2> HIDE DEF q, data
  <2>5. ProcessEvents(d, u, q.events) = Latest(ProcessEvents(d, u, p.events), NoUsage)
    BY <1>1, <2>2, <2>4, ProcessMore, DoneSays
  <2>6. Known(d, u, q) = Known(d, u, p)
    BY <2>5 DEF Known, Latest
  <2>7. Pending(q) = Pending(p)
    BY <2>2 DEF Pending
  <2> QED
    BY <1>2, <2>3, <2>6, <2>7 DEF q
<1>5. CASE IsPrefix(<<"da", "ta:">>, line) /\ data # <<"[DONE]">>
  <2>1. q = [p EXCEPT !.pendingData = Append(@, data)]
    BY <1>5 DEF ProcessLine
  <2>2. q.pendingData = Append(p.pendingData, data) /\ q.events = p.events
    BY <2>1 DEF Parser
  <2>3. rest \in Line
    BY <1>5, PrefixLine
  <2>4. data \in Line /\ Text(data) = Text(rest)
    BY <2>3, TrimSpaceType, TextTrim
  <2>5. LineData(line) = Text(rest)
    BY <1>5, DoneLine DEF LineData
  <2> HIDE DEF q, data, rest
  <2>6. Pending(q) = Pending(p) \o Text(data)
    BY <1>1, <2>2, <2>4, TextJoinMore DEF Pending
  <2>7. Known(d, u, q) = Known(d, u, p)
    BY <2>2 DEF Known
  <2> QED
    BY <2>4, <2>5, <2>6, <2>7 DEF q
<1> QED
  BY <1>3, <1>4, <1>5

-----------------------------------------------------------------------------
(* Parser and reference, byte by byte. *)

\* The parser q, which began the call at usage u, has read the first m bytes of B as
\* the reference reads them, and holds the rest of B from its last line on.
At(q, B, m, d, u) ==
    \E s : /\ IsStart(SubSeq(B, 1, m), s)
           /\ q.lineBuf = SubSeq(B, s, Len(B))
           /\ Pending(q) = DataOf(SubSeq(B, 1, m), s)
           /\ Known(d, u, q) = StreamSays(d, SubSeq(B, 1, m), FALSE)

\* The first m + 1 bytes continue the first m.
LEMMA PrefixMore ==
    ASSUME NEW B \in Line, NEW m \in 0..Len(B)-1
    PROVE  /\ Continues(SubSeq(B, 1, m), SubSeq(B, 1, m + 1))
           /\ SubSeq(B, 1, m + 1)[m + 1] = B[m + 1]
           /\ Len(SubSeq(B, 1, m + 1)) = Len(SubSeq(B, 1, m)) + 1
<1>1. Len(B) \in Nat /\ m \in 0..Len(B) /\ m + 1 \in 0..Len(B) /\ m + 1 \in 1..m+1
      /\ m <= m + 1 /\ \A k \in 1..m : k \in 1..m+1
  BY LineFacts
<1> DEFINE b == SubSeq(B, 1, m)
           c == SubSeq(B, 1, m + 1)
<1>2. Len(b) = m /\ \A k \in 1..m : b[k] = B[k]
  BY <1>1, PrefixFacts
<1>3. Len(c) = m + 1 /\ \A k \in 1..m+1 : c[k] = B[k]
  BY <1>1, PrefixFacts
<1> HIDE DEF b, c
<1>4. Continues(b, c)
  BY <1>1, <1>2, <1>3 DEF Continues
<1> QED
  BY <1>1, <1>2, <1>3, <1>4 DEF b, c

\* The line that a newline after m bytes ends is taken off the buffer.
LEMMA FirstLine ==
    ASSUME NEW B \in Line, NEW m \in 0..Len(B)-1, B[m + 1] = "LF",
           NEW s, IsStart(SubSeq(B, 1, m), s), NEW q \in Parser, q.lineBuf = SubSeq(B, s, Len(B))
    PROVE  DrainLine(q) =
               ProcessLine([q EXCEPT !.lineBuf = SubSeq(B, m + 2, Len(B))],
                           TrimCR(SubSeq(SubSeq(B, 1, m), s, m)))
<1> DEFINE b == SubSeq(B, 1, m)
           n == Len(B)
           L == SubSeq(B, s, n)
           idx == Newline(L)
<1>1. n \in Nat /\ m \in Nat /\ m + 1 <= n /\ m \in 0..Len(B)
  BY LineFacts
<1>2. b \in Line /\ Len(b) = m /\ \A k \in 1..m : b[k] = B[k]
  BY <1>1, PrefixFacts
<1>3. s \in 1..m+1 /\ \A j \in s..m : b[j] # "LF"
  BY <1>2 DEF IsStart
<1>4. s \in Nat \ {0} /\ s - 1 <= n /\ n \in Int /\ n <= n /\ s - 1 <= m /\ m \in Int
  BY <1>1, <1>3
<1>5. L \in Line /\ Len(L) = n - s + 1 /\ \A k \in 1..n-s+1 : L[k] = B[s + k - 1]
  BY <1>4, CutLine
<1> HIDE DEF b, L, n
<1>6. /\ idx \in 0..Len(L)
      /\ idx # 0 => L[idx] = "LF"
      /\ \A i \in 1..Len(L) : L[i] = "LF" => idx # 0 /\ idx <= i
  BY <1>5, FirstIs DEF Line
<1> HIDE DEF idx
<1>7. idx = m + 2 - s
  <2> DEFINE e == m + 2 - s
  <2>1. e \in 1..Len(L) /\ s + e - 1 = m + 1 /\ e \in 1..n-s+1
    BY <1>1, <1>3, <1>5
  <2>2. L[e] = "LF"
    BY <1>5, <2>1
  <2>3. idx # 0 /\ idx <= e
    BY <1>6, <2>1, <2>2
  <2>4. ASSUME idx < e PROVE FALSE
    <3>1. idx \in 1..n-s+1 /\ s + idx - 1 \in s..m /\ s + idx - 1 \in 1..m
      BY <1>1, <1>3, <1>5, <1>6, <2>3, <2>4
    <3>2. B[s + idx - 1] = "LF"
      BY <1>5, <1>6, <2>3, <3>1
    <3> QED
      BY <1>2, <1>3, <3>1, <3>2
  <2> QED
    BY <1>1, <1>3, <1>6, <2>3, <2>4
<1>8. SubSeq(L, idx + 1, Len(L)) = SubSeq(B, m + 2, n)
  <2> DEFINE k == idx + 1
             l == Len(L)
  <2>1. k \in Nat \ {0} /\ l \in Int /\ k - 1 <= l /\ l <= n - s + 1 /\ s + k - 1 = m + 2
        /\ s + l - 1 = n
    BY <1>1, <1>3, <1>5, <1>7
  <2> HIDE DEF k, l
  <2>2. SubSeq(SubSeq(B, s, n), k, l) = SubSeq(B, s + k - 1, s + l - 1)
    BY <1>4, <2>1, CutOfCut DEF n
  <2> QED
    BY <2>1, <2>2 DEF k, l, L
<1>9. SubSeq(L, 1, idx - 1) = SubSeq(b, s, m)
  <2> DEFINE l == idx - 1
  <2>1. 1 \in Nat \ {0} /\ l \in Int /\ 1 - 1 <= l /\ l <= n - s + 1 /\ s + 1 - 1 = s
        /\ s + l - 1 = m
    BY <1>1, <1>3, <1>7
  <2> HIDE DEF l
  <2>2. SubSeq(SubSeq(B, s, n), 1, l) = SubSeq(B, s + 1 - 1, s + l - 1)
    BY <1>4, <2>1, CutOfCut DEF n
  <2>3. SubSeq(B, s, m) = SubSeq(b, s, m)
    <3>1. m <= Len(B) /\ m <= Len(b) /\ \A k \in 1..m : B[k] = b[k]
      BY <1>1, <1>2 DEF n
    <3> QED
      BY <1>2, <1>4, <3>1, CutsSame
  <2> QED
    BY <2>1, <2>2, <2>3 DEF l, L
<1>10. q.lineBuf = L
  BY DEF L, n
<1>11. DrainLine(q) = ProcessLine([q EXCEPT !.lineBuf = SubSeq(L, idx + 1, Len(L))],
                                 TrimCR(SubSeq(L, 1, idx - 1)))
  BY <1>10 DEF DrainLine, idx
<1> QED
  BY <1>8, <1>9, <1>11 DEF b, n

\* One iteration of drainLines, at byte m + 1, keeps parser and reference together.
LEMMA ByteStep ==
    ASSUME NEW d \in Dialect, NEW u \in Usage, NEW B \in Line, NEW m \in 0..Len(B)-1,
           NEW q \in Parser, At(q, B, m, d, u)
    PROVE  At(DrainStep(q, B[m + 1]), B, m + 1, d, u)
<1> DEFINE b == SubSeq(B, 1, m)
           c == SubSeq(B, 1, m + 1)
           n == Len(B)
           r == DrainStep(q, B[m + 1])
<1>1. n \in Nat /\ m \in 0..n /\ m + 1 \in 0..n /\ m \in Nat
  BY LineFacts
<1>2. b \in Line /\ Len(b) = m /\ c \in Line /\ Len(c) = m + 1
  BY <1>1, PrefixFacts
<1>3. Continues(b, c) /\ Len(c) = Len(b) + 1 /\ c[Len(c)] = B[m + 1]
  BY <1>2, PrefixMore
<1>4. PICK s : /\ IsStart(b, s)
               /\ q.lineBuf = SubSeq(B, s, n)
               /\ Pending(q) = DataOf(b, s)
               /\ Known(d, u, q) = StreamSays(d, b, FALSE)
  BY DEF At
<1>5. s \in 1..m+1 /\ s \in Nat \ {0}
  BY <1>2, <1>4 DEF IsStart
<1>6. CASE B[m + 1] # "LF"
  <2>1. r = q
    BY <1>6 DEF DrainStep
  <2> HIDE DEF b, c, n, r
  <2>2. IsStart(c, s) /\ DataOf(c, s) = DataOf(b, s)
        /\ StreamSays(d, c, FALSE) = StreamSays(d, b, FALSE)
    BY <1>2, <1>3, <1>4, <1>6, StepPlain
  <2>3. \E t : /\ IsStart(c, t) /\ r.lineBuf = SubSeq(B, t, n) /\ Pending(r) = DataOf(c, t)
               /\ Known(d, u, r) = StreamSays(d, c, FALSE)
    BY <1>4, <2>1, <2>2
  <2> QED
    BY <2>3 DEF At, c, n, r
<1>7. CASE B[m + 1] = "LF"
  <2> DEFINE rest == SubSeq(B, m + 2, n)
             p == [q EXCEPT !.lineBuf = rest]
             line == TrimCR(SubSeq(b, s, m))
             e == Len(c) + 1
  <2>1. r = ProcessLine(p, line)
    <3>1. r = DrainLine(q)
      BY <1>7 DEF DrainStep
    <3>2. DrainLine(q) = ProcessLine(p, line)
      BY <1>4, <1>7, FirstLine
    <3> QED
      BY <3>1, <3>2
  <2>2. rest \in Line
    <3>1. m + 2 \in Nat \ {0} /\ n \in Int /\ (m + 2) - 1 <= n /\ n <= n
      BY <1>1
    <3> QED
      BY <3>1, CutLine
  <2>3. p \in Parser /\ p.lineBuf = rest /\ p.pendingData = q.pendingData /\ p.events = q.events
    BY <2>2 DEF Parser
  <2>4. Pending(p) = Pending(q) /\ Known(d, u, p) = Known(d, u, q)
    BY <2>3 DEF Pending, Known
  <2>5. line \in Line
    <3>1. m \in Int /\ s - 1 <= m /\ m <= Len(b)
      BY <1>1, <1>2, <1>5
    <3> QED
      BY <1>2, <1>5, <3>1, CutLine, TrimCRType
  <2>6. e = m + 2
    BY <1>1, <1>2
  <2> HIDE DEF b, c, n, r, rest, p, e
  <2>7. IsStart(c, e) /\ LineFrom(c, s) = line
    BY <1>2, <1>3, <1>4, <1>7, StepNewline DEF e
  <2> HIDE DEF line
  <2>8. r.lineBuf = rest /\ r \in Parser
    BY <2>1, <2>3, <2>5, ProcessLineType
  <2>9. Pending(r) = DataOf(c, e) /\ Known(d, u, r) = StreamSays(d, c, FALSE)
    <3>1. CASE line = <<>>
      <4>1. /\ DataOf(c, e) = <<>>
            /\ StreamSays(d, c, FALSE) = IF Says(d, TRUE, DataOf(b, s)) > 0
                                         THEN Says(d, TRUE, DataOf(b, s)) ELSE StreamSays(d, b, FALSE)
        <5>1. LineFrom(c, s) = <<>> /\ c[Len(c)] = "LF" /\ IsStart(b, s) /\ e = Len(c) + 1
              /\ b \in Line /\ c \in Line /\ Continues(b, c) /\ Len(c) = Len(b) + 1
          BY <1>2, <1>3, <1>4, <1>7, <2>7, <3>1 DEF e
        <5>2. /\ DataOf(c, Len(c) + 1) = <<>>
              /\ StreamSays(d, c, FALSE) = IF Says(d, TRUE, DataOf(b, s)) > 0
                                           THEN Says(d, TRUE, DataOf(b, s)) ELSE StreamSays(d, b, FALSE)
          BY ONLY <5>1, StepBlank
        <5> QED
          BY ONLY <5>1, <5>2
      <4>2. r = FlushData(p)
        BY <2>1, <3>1 DEF ProcessLine
      <4>3. /\ Pending(r) = <<>>
            /\ Known(d, u, r) = IF Says(d, TRUE, Pending(p)) > 0
                                THEN Says(d, TRUE, Pending(p)) ELSE Known(d, u, p)
        BY <2>3, <4>2, FlushEffect
      <4> QED
        BY <1>4, <2>4, <4>1, <4>3
    <3>2. CASE line # <<>>
      <4>1. /\ DataOf(c, e) = DataOf(b, s) \o LineData(line)
            /\ StreamSays(d, c, FALSE) = StreamSays(d, b, FALSE)
        BY <1>2, <1>3, <1>4, <1>7, <2>7, <3>2, StepLine DEF e
      <4>2. Pending(r) = Pending(p) \o LineData(line) /\ Known(d, u, r) = Known(d, u, p)
        BY <2>1, <2>3, <2>5, <3>2, LineEffect
      <4> QED
        BY <1>4, <2>4, <4>1, <4>2
    <3> QED
      BY <3>1, <3>2
  <2>10. r.lineBuf = SubSeq(B, e, n)
    BY <2>6, <2>8 DEF rest
  <2> QED
    BY <2>7, <2>9, <2>10 DEF At, c, n, r
<1> QED
  BY <1>6, <1>7

\* The parser p, which began the call at usage u, has read b as the reference reads it.
Matches(p, b, d, u) ==
    \E s : /\ IsStart(b, s)
           /\ p.lineBuf = SubSeq(b, s, Len(b))
           /\ Pending(p) = DataOf(b, s)
           /\ Known(d, u, p) = StreamSays(d, b, FALSE)

\* Two parts that meet join to one.
LEMMA CutsJoined ==
    ASSUME NEW b \in Line, NEW n \in 0..Len(b), NEW m \in 0..n, NEW s \in 1..m+1
    PROVE  SubSeq(b, s, m) \o SubSeq(b, m + 1, n) = SubSeq(b, s, n)
<1> DEFINE x == SubSeq(b, s, m)
           t == m + 1
           y == SubSeq(b, t, n)
           z == SubSeq(b, s, n)
<1>1. /\ Len(b) \in Nat /\ m \in Int /\ n \in Int /\ s \in Nat \ {0} /\ t \in Nat \ {0}
      /\ s - 1 <= m /\ m <= Len(b) /\ t - 1 <= n /\ n <= Len(b) /\ s - 1 <= n
  BY LineFacts
<1>2. x \in Line /\ Len(x) = m - s + 1 /\ \A k \in 1..m-s+1 : x[k] = b[s + k - 1]
  BY <1>1, CutLine
<1> HIDE DEF t
<1>3. y \in Line /\ Len(y) = n - t + 1 /\ \A k \in 1..n-t+1 : y[k] = b[t + k - 1]
  BY <1>1, CutLine
<1>4. z \in Line /\ Len(z) = n - s + 1 /\ \A k \in 1..n-s+1 : z[k] = b[s + k - 1]
  BY <1>1, CutLine
<1> HIDE DEF x, y, z
<1>5. x \o y \in Line /\ Len(x \o y) = Len(x) + Len(y)
      /\ \A k \in 1..Len(x)+Len(y) : (x \o y)[k] = IF k <= Len(x) THEN x[k] ELSE y[k - Len(x)]
  <2>1. x \in Seq(Token) /\ y \in Seq(Token)
    BY <1>2, <1>3 DEF Line
  <2>2. x \o y \in Seq(Token)
    BY <2>1, ConcatProperties
  <2>3. Len(x \o y) = Len(x) + Len(y)
    BY <2>1, ConcatProperties
  <2>4. \A k \in 1..Len(x)+Len(y) : (x \o y)[k] = IF k <= Len(x) THEN x[k] ELSE y[k - Len(x)]
    BY ONLY <2>1, ConcatProperties
  <2> QED
    BY <2>2, <2>3, <2>4 DEF Line
<1>6. Len(x) = m - s + 1 /\ Len(y) = n - m /\ Len(x) + Len(y) = n - s + 1
  BY <1>1, <1>2, <1>3 DEF t
<1>7. ASSUME NEW k \in 1..n-s+1 PROVE (x \o y)[k] = z[k]
  <2>1. k \in 1..Len(x)+Len(y) /\ z[k] = b[s + k - 1]
    BY <1>4, <1>6
  <2>2. CASE k <= m - s + 1
    <3>1. k \in 1..m-s+1 /\ (x \o y)[k] = x[k]
      BY <1>1, <1>5, <1>6, <2>1, <2>2
    <3> QED
      BY <1>2, <2>1, <3>1
  <2>3. CASE ~(k <= m - s + 1)
    <3> DEFINE j == k - Len(x)
    <3>1. (x \o y)[k] = y[j]
      BY <1>5, <1>6, <2>1, <2>3
    <3>2. j \in 1..n-t+1 /\ t + j - 1 = s + k - 1
      BY <1>1, <1>6, <2>3 DEF t
    <3> HIDE DEF j
    <3> QED
      BY <1>3, <2>1, <3>1, <3>2
  <2> QED
    BY <2>2, <2>3
<1>8. x \o y = z
  <2>1. Len(x \o y) = Len(z) /\ \A k \in 1..Len(x \o y) : (x \o y)[k] = z[k]
    BY <1>4, <1>5, <1>6, <1>7
  <2> QED
    BY <1>4, <1>5, <2>1, SameLine
<1> QED
  BY <1>8 DEF x, y, z, t

\* However the bytes are cut: a parser that has read the first m bytes and is fed the
\* others has read them all as the reference reads them, wherever m falls.
LEMMA FeedMatches ==
    ASSUME NEW d \in Dialect, NEW u \in Usage, NEW B \in Line, NEW m \in 0..Len(B),
           NEW p \in Parser, Matches(p, SubSeq(B, 1, m), d, u)
    PROVE  Matches(Feed(p, SubSeq(B, m + 1, Len(B))), B, d, u)
<1> DEFINE b == SubSeq(B, 1, m)
           n == Len(B)
           chunk == SubSeq(B, m + 1, n)
           P == [p EXCEPT !.lineBuf = @ \o chunk]
<1>1. n \in Nat /\ m \in Nat /\ m <= n /\ n \in 0..n /\ m \in 0..n
  BY LineFacts
<1>2. b \in Line /\ Len(b) = m /\ \A k \in 1..m : b[k] = B[k]
  BY <1>1, PrefixFacts
<1>3. PICK s : /\ IsStart(b, s)
               /\ p.lineBuf = SubSeq(b, s, Len(b))
               /\ Pending(p) = DataOf(b, s)
               /\ Known(d, u, p) = StreamSays(d, b, FALSE)
  BY DEF Matches
<1>4. s \in 1..m+1 /\ \A j \in s..m : b[j] # "LF"
  BY <1>2, <1>3 DEF IsStart
<1>5. s \in Nat \ {0} /\ s - 1 <= m /\ s - 1 <= n
  BY <1>1, <1>4
<1> DEFINE L == SubSeq(B, s, n)
           l == n - s + 1
<1>6. L \in Line /\ Len(L) = l /\ \A k \in 1..l : L[k] = B[s + k - 1]
  BY <1>1, <1>5, CutLine
<1>7. l \in Nat
  BY <1>1, <1>5
<1>8. p.lineBuf \o chunk = L
  <2>1. SubSeq(b, s, m) = SubSeq(B, s, m)
    BY <1>1, <1>2, <1>5, CutsSame
  <2>2. SubSeq(B, s, m) \o SubSeq(B, m + 1, n) = SubSeq(B, s, n)
    BY <1>1, <1>4, CutsJoined
  <2> QED
    BY <1>2, <1>3, <2>1, <2>2
<1> HIDE DEF b, L, chunk, l
<1>9. /\ P \in Parser /\ P.lineBuf = L
      /\ P.pendingData = p.pendingData /\ P.events = p.events
  <2>1. P = [p EXCEPT !.lineBuf = L]
    BY <1>8 DEF Parser
  <2> QED
    BY <1>6, <2>1 DEF Parser
<1>10. Feed(p, chunk) = DrainLines(P)
  BY DEF Feed
<1> HIDE DEF P
<1>11. At(P, B, m, d, u)
  <2>1. Pending(P) = Pending(p) /\ Known(d, u, P) = Known(d, u, p)
    BY <1>9 DEF Pending, Known
  <2>2. /\ IsStart(b, s) /\ P.lineBuf = SubSeq(B, s, n)
        /\ Pending(P) = DataOf(b, s) /\ Known(d, u, P) = StreamSays(d, b, FALSE)
    BY <1>3, <1>9, <2>1 DEF L
  <2> QED
    BY <2>2 DEF At, b
<1>12. PICK r : IsDrain(r, P) /\ \A k \in 0..Len(P.lineBuf) : r[k] \in Parser
  BY <1>9, DrainRuns
<1>13. r[0] = P /\ (\A k \in 0..l-1 : r[k + 1] = DrainStep(r[k], L[k + 1]))
       /\ \A k \in 0..l : r[k] \in Parser
  BY <1>6, <1>9, <1>12 DEF IsDrain
<1>14. DrainLines(P) = r[l]
  BY <1>6, <1>9, <1>12, DrainIs
<1> DEFINE Good(k) == /\ s - 1 + k <= m => r[k] = P
                      /\ s - 1 + k >= m => At(r[k], B, s - 1 + k, d, u)
           T == {k \in 0..l : Good(k)}
<1>15. 0 \in T
  <2>1. 0 \in 0..l /\ s - 1 + 0 <= m /\ (s - 1 + 0 >= m => s - 1 + 0 = m)
    BY <1>1, <1>4, <1>7
  <2>2. Good(0)
    BY <1>11, <1>13, <2>1
  <2> QED
    BY <2>1, <2>2
<1>16. ASSUME NEW k \in 0..l-1, k \in T PROVE k + 1 \in T
  <2> DEFINE j == s - 1 + k
  <2>1. k \in Nat /\ k + 1 \in 0..l /\ k + 1 \in 1..l /\ k \in 0..l /\ j \in 0..n-1
        /\ s - 1 + (k + 1) = j + 1 /\ s + (k + 1) - 1 = j + 1 /\ j \in Nat /\ s - 1 <= j
    BY <1>1, <1>4, <1>7 DEF l
  <2>2. (j <= m => r[k] = P) /\ (j >= m => At(r[k], B, j, d, u))
    BY <1>16
  <2>3. L[k + 1] = B[j + 1]
    BY <1>6, <2>1
  <2>4. r[k + 1] = DrainStep(r[k], B[j + 1]) /\ r[k] \in Parser
    BY <1>13, <2>1, <2>3
  <2> HIDE DEF j
  <2>5. (j + 1 <= m => r[k + 1] = P) /\ (j + 1 >= m => At(r[k + 1], B, j + 1, d, u))
    <3>1. CASE j + 1 <= m
      <4>1. j + 1 \in s..m /\ j + 1 \in 1..m /\ j <= m
        BY <1>1, <1>5, <2>1, <3>1
      <4>2. B[j + 1] # "LF"
        BY <1>2, <1>4, <4>1
      <4>3. r[k + 1] = P
        BY <2>2, <2>4, <4>1, <4>2 DEF DrainStep
      <4>4. j + 1 >= m => j + 1 = m
        BY <1>1, <2>1, <3>1
      <4> QED
        BY <1>11, <3>1, <4>3, <4>4
    <3>2. CASE ~(j + 1 <= m)
      <4>1. j >= m
        BY <1>1, <2>1, <3>2
      <4>2. At(r[k], B, j, d, u)
        BY <2>2, <4>1
      <4>3. j \in 0..Len(B)-1
        BY <2>1
      <4>4. At(DrainStep(r[k], B[j + 1]), B, j + 1, d, u)
        BY <2>4, <4>2, <4>3, ByteStep
      <4> QED
        BY <2>4, <3>2, <4>4
    <3> QED
      BY <3>1, <3>2
  <2>6. Good(k + 1)
    BY <2>1, <2>5
  <2> QED
    BY <2>1, <2>6
<1>17. l \in T
  <2>1. \A k \in 0..l-1 : k \in T => k + 1 \in T
    BY <1>16
  <2>2. l \in Nat /\ l \in 0..l
    BY <1>7
  <2> HIDE DEF T
  <2>3. \A k \in 0..l : k \in T
    BY ONLY <1>15, <2>1, <2>2, UpTo
  <2> QED
    BY <2>2, <2>3
<1>18. At(r[l], B, n, d, u)
  <2>1. s - 1 + l = n /\ n >= m
    BY <1>1, <1>5 DEF l
  <2>2. Good(l)
    BY <1>17
  <2> QED
    BY <2>1, <2>2
<1>19. SubSeq(B, 1, n) = B
  BY WholeLine
<1>20. Matches(r[l], B, d, u)
  BY <1>18, <1>19 DEF At, Matches
<1> QED
  BY <1>10, <1>14, <1>20 DEF chunk

\* Flush ends the last line and the last event, as the end of the stream does.
LEMMA FlushMatches ==
    ASSUME NEW d \in Dialect, NEW u \in Usage, NEW b \in Line, NEW p \in Parser,
           Matches(p, b, d, u)
    PROVE  Known(d, u, Flush(p)) = StreamSays(d, b, TRUE)
<1> DEFINE n == Len(b)
           e == n + 1
<1>1. n \in Nat /\ n \in Int /\ e \in Nat \ {0}
  BY LineFacts
<1>2. PICK s : /\ IsStart(b, s)
               /\ p.lineBuf = SubSeq(b, s, n)
               /\ Pending(p) = DataOf(b, s)
               /\ Known(d, u, p) = StreamSays(d, b, FALSE)
  BY DEF Matches
<1>3. s \in 1..n+1 /\ \A j \in s..n : b[j] # "LF"
  BY <1>2 DEF IsStart
<1>4. s \in Nat \ {0} /\ s - 1 <= n /\ n <= Len(b)
  BY <1>1, <1>3
<1> DEFINE L == SubSeq(b, s, n)
           l == n - s + 1
<1>5. L \in Line /\ Len(L) = l /\ \A k \in 1..l : L[k] = b[s + k - 1]
  BY <1>1, <1>4, CutLine
<1>6. l \in Nat
  BY <1>1, <1>4
<1>7. p.lineBuf = L
  BY <1>2
<1> HIDE DEF L, l
<1>8. DrainLines(p) = p
  <2>1. PICK r : IsDrain(r, p) /\ \A k \in 0..Len(p.lineBuf) : r[k] \in Parser
    BY DrainRuns
  <2>2. r[0] = p /\ \A k \in 0..l-1 : r[k + 1] = DrainStep(r[k], L[k + 1])
    BY <1>5, <1>7, <2>1 DEF IsDrain
  <2>3. DrainLines(p) = r[l]
    BY <1>5, <1>7, <2>1, DrainIs
  <2> DEFINE T == {k \in 0..l : r[k] = p}
  <2>4. 0 \in T
    BY <1>6, <2>2
  <2>5. ASSUME NEW k \in 0..l-1, k \in T PROVE k + 1 \in T
    <3>1. k + 1 \in 0..l /\ k + 1 \in 1..l /\ s + (k + 1) - 1 \in s..n
      BY <1>1, <1>4, <1>6 DEF l
    <3>2. L[k + 1] # "LF"
      BY <1>3, <1>5, <3>1
    <3>3. r[k + 1] = p
      BY <2>2, <2>5, <3>2 DEF DrainStep
    <3> QED
      BY <3>1, <3>3
  <2>6. \A k \in 0..l-1 : k \in T => k + 1 \in T
    BY <2>5
  <2>7. l \in Nat /\ l \in 0..l
    BY <1>6
  <2> HIDE DEF T
  <2>8. \A k \in 0..l : k \in T
    BY ONLY <2>4, <2>6, <2>7, UpTo
  <2> QED
    BY <2>3, <2>7, <2>8 DEF T
<1> DEFINE f == Says(d, TRUE, DataOf(b, e))
<1>9. StreamSays(d, b, TRUE) = IF f > 0 THEN f ELSE StreamSays(d, b, FALSE)
  BY SaysEnd
<1>10. CASE s = n + 1
  <2>1. L = <<>>
    <3>1. Len(L) = 0 /\ L \in Seq(Token)
      BY <1>1, <1>5, <1>10 DEF l, Line
    <3> QED
      BY <3>1, EmptySeq
  <2>2. Flush(p) = FlushData(p)
    BY <1>7, <1>8, <2>1 DEF Flush
  <2>3. Known(d, u, FlushData(p)) = IF Says(d, TRUE, Pending(p)) > 0
                                    THEN Says(d, TRUE, Pending(p)) ELSE Known(d, u, p)
    BY FlushEffect
  <2> QED
    BY <1>2, <1>9, <1>10, <2>2, <2>3
<1>11. CASE s <= n
  <2> DEFINE line == TrimCR(L)
             q == [p EXCEPT !.lineBuf = <<>>]
             r == ProcessLine(q, line)
  <2>1. L # <<>>
    <3>1. Len(L) > 0
      BY <1>1, <1>4, <1>5, <1>11 DEF l
    <3> QED
      BY <3>1
  <2>2. Flush(p) = FlushData(r)
    BY <1>7, <1>8, <2>1 DEF Flush
  <2>3. line \in Line
    BY <1>5, TrimCRType
  <2>4. q \in Parser /\ q.pendingData = p.pendingData /\ q.events = p.events
    BY LineIsSeq DEF Parser
  <2>5. DataOf(b, e) = DataOf(b, s) \o LineData(line)
    <3>1. /\ LineFrom(b, s) = TrimCR(SubSeq(b, s, Len(b)))
          /\ DataOf(b, Len(b) + 1) = DataOf(b, s) \o LineData(LineFrom(b, s))
      BY <1>2, <1>11, StepEnd
    <3> QED
      BY <3>1 DEF L
  <2> HIDE DEF line, q, r, f, n
  <2>6. Pending(q) = DataOf(b, s) /\ Known(d, u, q) = StreamSays(d, b, FALSE)
    BY <1>2, <2>4 DEF Pending, Known
  <2>7. r \in Parser
    BY <2>3, <2>4, ProcessLineType DEF r
  <2>8. Known(d, u, FlushData(r)) = IF Says(d, TRUE, Pending(r)) > 0
                                    THEN Says(d, TRUE, Pending(r)) ELSE Known(d, u, r)
    BY <2>7, FlushEffect
  <2>9. CASE line = <<>>
    <3>1. r = FlushData(q)
      BY <2>9 DEF ProcessLine, r
    <3>2. /\ Pending(r) = <<>>
          /\ Known(d, u, r) = IF Says(d, TRUE, Pending(q)) > 0
                              THEN Says(d, TRUE, Pending(q)) ELSE Known(d, u, q)
      BY <2>4, <3>1, FlushEffect
    <3>3. Says(d, TRUE, <<>>) = 0
      BY SaysNothing
    <3>4. Known(d, u, FlushData(r)) = Known(d, u, r)
      <4> DEFINE z == Says(d, TRUE, Pending(r))
      <4>1. z = 0
        BY <3>2, <3>3
      <4> HIDE DEF z
      <4>2. ~(z > 0)
        BY <4>1
      <4> QED
        BY <2>8, <4>2 DEF z
    <3>5. LineData(line) = <<>>
      BY <2>9 DEF LineData, IsPrefix
    <3>6. DataOf(b, s) \in Line
      BY <1>4, DataType
    <3>7. DataOf(b, e) = DataOf(b, s)
      BY <2>5, <3>5, <3>6, ConcatEmptySeq DEF Line
    <3> QED
      BY <1>9, <2>2, <2>6, <3>2, <3>4, <3>7 DEF f
  <2>10. CASE line # <<>>
    <3>1. Pending(r) = Pending(q) \o LineData(line) /\ Known(d, u, r) = Known(d, u, q)
      BY <2>3, <2>4, <2>10, LineEffect DEF r
    <3>2. Pending(r) = DataOf(b, e)
      BY <2>5, <2>6, <3>1
    <3> QED
      BY <1>9, <2>2, <2>6, <2>8, <3>1, <3>2 DEF f
  <2> QED
    BY <2>9, <2>10
<1>12. s = n + 1 \/ s <= n
  BY <1>1, <1>3
<1> QED
  BY <1>10, <1>11, <1>12

\* Between calls the tap knows what the blank lines so far have ended.
LEMMA MatchesKnows ==
    ASSUME NEW d \in Dialect, NEW u \in Usage, NEW b, NEW p, p.events = <<>>, Matches(p, b, d, u)
    PROVE  Used(u) = StreamSays(d, b, FALSE)
BY ProcessNone DEF Matches, Known

\* What a call of the parser yields moves into the usage the tap remembers.
LEMMA MatchesNext ==
    ASSUME NEW d \in Dialect, NEW u \in Usage, NEW b, NEW p \in Parser, Matches(p, b, d, u)
    PROVE  /\ [p EXCEPT !.events = <<>>] \in Parser
           /\ [p EXCEPT !.events = <<>>].events = <<>>
           /\ Matches([p EXCEPT !.events = <<>>], b, d, ProcessEvents(d, u, p.events))
<1> DEFINE q == [p EXCEPT !.events = <<>>]
           v == ProcessEvents(d, u, p.events)
<1>1. q \in Parser /\ q.events = <<>> /\ q.lineBuf = p.lineBuf /\ q.pendingData = p.pendingData
  BY EmptySeq DEF Parser, Events
<1>2. v \in Usage
  BY ProcessType DEF Parser
<1>3. Pending(q) = Pending(p)
  BY <1>1 DEF Pending
<1>4. Known(d, v, q) = Known(d, u, p)
  <2>1. ProcessEvents(d, v, <<>>) = v
    BY <1>2, ProcessNone
  <2> HIDE DEF q
  <2> QED
    BY <1>1, <2>1 DEF Known
<1> HIDE DEF q, v
<1>5. Matches(q, b, d, v)
  BY <1>1, <1>3, <1>4 DEF Matches
<1> QED
  BY <1>1, <1>5 DEF q, v

\* A new parser has read nothing.
LEMMA MatchesNone ==
    ASSUME NEW d \in Dialect
    PROVE  Matches(NewParser, <<>>, d, NoUsage)
<1>1. <<>> \in Line /\ Len(<<>>) = 0 /\ SubSeq(<<>>, 1, 0) = <<>>
  BY LineIsSeq
<1>2. IsStart(<<>>, 1)
  BY DEF IsStart
<1>3. NoUsage \in Usage /\ Used(NoUsage) = 0
  BY DEF Usage, Used
<1>4. Known(d, NoUsage, NewParser) = 0
  BY <1>3, ProcessNone DEF Known, NewParser
<1>5. StreamSays(d, <<>>, FALSE) = 0
  <2>1. Newlines(<<>>) = {} /\ LineStarts(<<>>) = {}
    BY DEF Newlines, LineStarts
  <2>2. Blanks(<<>>) = {}
    BY <2>1 DEF Blanks
  <2> QED
    BY <2>2 DEF StreamSays
<1>6. Pending(NewParser) = <<>>
  BY TextNone DEF Pending, NewParser, Join
<1>7. DataOf(<<>>, 1) = <<>>
  <2>1. DataOf(<<>>, 1) = FlattenSeq([j \in 1..0 |-> Piece(<<>>, 1, j)])
    <3>1. 1 - 1 = 0
      OBVIOUS
    <3> QED
      BY <3>1, DataIs
  <2>2. [j \in 1..0 |-> Piece(<<>>, 1, j)] = <<>>
    OBVIOUS
  <2>3. FlattenSeq([i \in 1..0 |-> <<>>[i]]) = <<>>
    BY FlattenNone DEF Flat
  <2>4. [i \in 1..0 |-> <<>>[i]] = <<>>
    OBVIOUS
  <2> QED
    BY <2>1, <2>2, <2>3, <2>4
<1> QED
  BY <1>1, <1>2, <1>4, <1>5, <1>6, <1>7 DEF Matches, NewParser

-----------------------------------------------------------------------------
(* The call: its invariant, and the theorems. *)

\* A settlement that charges what the answer says.
Right(x, says, left) ==
    /\ x.actual \in Nat
    /\ \/ x.outcome = "settled" /\ says > 0 /\ x.actual = says
       \/ x.outcome = "missing_usage" /\ says = 0 /\ x.actual = Reserved
       \/ x.outcome = "disconnected" /\ left /\ x.actual = Reserved

\* The call: its upstream, its answer, and how far it has been read.
CallInv ==
    /\ route \in [host : DOMAIN Speaks, reads : Dialect]
    /\ route.reads = Speaks[route.host]
    /\ answer.stream \in BOOLEAN /\ answer.bytes \in Line
    /\ delivered \in 0..Len(answer.bytes)
    /\ phase \in {"reading", "ended", "closed"}

\* The readers: what they hold is what the delivered bytes say.
TapInv ==
    /\ parser \in Parser /\ parser.events = <<>>
    /\ lastUsage \in Usage
    /\ answer.stream /\ settlements = <<>> => Matches(parser, Bytes, route.reads, lastUsage)
    /\ ~answer.stream => buf = Bytes

\* The settlement: at most one, and right; none while the body is read.
SettlingInv ==
    /\ settlements = <<>> \/ \E x : settlements = <<x>> /\ Right(x, AnswerSays, gone)
    /\ phase = "reading" => settlements = <<>>
    /\ phase = "closed" => settlements # <<>>

ReadersInv == CallInv /\ TapInv /\ SettlingInv

\* A usage the tap keeps counts at least one token.
LEMMA UsedAgrees ==
    ASSUME NEW u \in Usage
    PROVE  Agrees(u, Used(u))
<1>1. CASE u = NoUsage
  BY <1>1, AgreeNone DEF Used
<1>2. CASE u # NoUsage
  <2>1. u \in [prompt : Nat, completion : Nat, total : Nat] /\ Total(u) > 0
    BY <1>2 DEF Usage
  <2>2. Total(u) \in Nat
    BY <2>1 DEF Total
  <2> QED
    BY <1>2, <2>1, <2>2 DEF Agrees, Used
<1> QED
  BY <1>1, <1>2

\* The once of a call that has settled does nothing more.
LEMMA OnceIsOnce ==
    ASSUME NEW u, SettleFound(u), settlements # <<>>
    PROVE  settlements' = settlements
BY DEF SettleFound, SettleOnce

\* SettleFound charges what was found, or the reservation if nothing was.
LEMMA FoundIsRight ==
    ASSUME NEW u, NEW n, Agrees(u, n), SettleFound(u), settlements = <<>>
    PROVE  \E x : settlements' = <<x>> /\ Right(x, n, gone)
<1>1. CASE u = NoUsage
  <2> DEFINE x == [outcome |-> "missing_usage", actual |-> Reserved]
  <2>1. settlements' = <<x>>
    BY <1>1 DEF SettleFound, SettleOnce
  <2>2. Right(x, n, gone)
    BY <1>1, ReadersAssumption DEF Right, Agrees
  <2> QED
    BY <2>1, <2>2
<1>2. CASE u # NoUsage
  <2> DEFINE x == [outcome |-> "settled", actual |-> Total(u)]
  <2>1. settlements' = <<x>>
    BY <1>2 DEF SettleFound, SettleOnce
  <2>2. n \in Nat /\ n # 0 /\ Total(u) = n
    BY <1>2 DEF Agrees, Used
  <2>3. Right(x, n, gone)
    BY <2>2 DEF Right
  <2> QED
    BY <2>1, <2>3
<1> QED
  BY <1>1, <1>2

\* The end of a stream, which it may reach by EOF or by Close.
LEMMA FinishIsRight ==
    ASSUME NEW b \in Line, NEW p \in Parser, p.events = <<>>, NEW u \in Usage,
           route.reads \in Dialect, settlements = <<>>,
           Matches(p, b, route.reads, u), FinishStream(p, u)
    PROVE  /\ parser' \in Parser /\ parser'.events = <<>>
           /\ lastUsage' \in Usage
           /\ buf' = buf
           /\ \E x : settlements' = <<x>> /\ Right(x, StreamSays(route.reads, b, TRUE), gone)
<1> DEFINE d == route.reads
           p0 == [p EXCEPT !.events = <<>>]
           q == Flush(p0)
           v == ProcessEvents(d, u, q.events)
<1>1. p0 \in Parser /\ Matches(p0, b, d, u)
  <2>1. p0 \in Parser /\ Matches(p0, b, d, ProcessEvents(d, u, p.events))
    BY MatchesNext
  <2>2. ProcessEvents(d, u, p.events) = u
    BY ProcessNone
  <2> QED
    BY <2>1, <2>2
<1> HIDE DEF p0
<1>2. q \in Parser /\ q.events \in Events
  <2>1. q \in Parser
    BY <1>1, FlushType
  <2> QED
    BY <2>1 DEF Parser
<1>3. v \in Usage
  BY <1>2, ProcessType
<1>4. Used(v) = StreamSays(d, b, TRUE)
  <2>1. Known(d, u, q) = StreamSays(d, b, TRUE)
    BY <1>1, FlushMatches
  <2> QED
    BY <2>1 DEF Known
<1>5. SettleFound(v) /\ parser' = [q EXCEPT !.events = <<>>] /\ lastUsage' = v /\ buf' = buf
  BY DEF FinishStream, p0
<1>6. [q EXCEPT !.events = <<>>] \in Parser /\ [q EXCEPT !.events = <<>>].events = <<>>
  BY <1>2, EmptySeq DEF Parser, Events
<1> HIDE DEF q, v
<1>7. Agrees(v, StreamSays(d, b, TRUE))
  BY <1>3, <1>4, UsedAgrees
<1>8. \E x : settlements' = <<x>> /\ Right(x, StreamSays(d, b, TRUE), gone)
  BY <1>5, <1>7, FoundIsRight
<1> QED
  BY <1>3, <1>5, <1>6, <1>8

\* The bytes read after a chunk are those before it and the chunk.
LEMMA ReadCuts ==
    ASSUME NEW a \in Line, NEW m \in 0..Len(a), NEW t \in m..Len(a)
    PROVE  /\ SubSeq(a, 1, t) \in Line /\ Len(SubSeq(a, 1, t)) = t
           /\ SubSeq(SubSeq(a, 1, t), 1, m) = SubSeq(a, 1, m)
           /\ SubSeq(SubSeq(a, 1, t), m + 1, t) = SubSeq(a, m + 1, t)
           /\ SubSeq(a, m + 1, t) \in Line
           /\ SubSeq(a, 1, m) \o SubSeq(a, m + 1, t) = SubSeq(a, 1, t)
<1> DEFINE i == m + 1
           B == SubSeq(a, 1, t)
<1>1. /\ Len(a) \in Nat /\ m \in Int /\ t \in 0..Len(a) /\ t \in Int /\ m \in 0..t
      /\ i \in Nat \ {0} /\ i - 1 <= t /\ t <= Len(a) /\ 1 \in Nat \ {0} /\ 1 - 1 <= m
      /\ 1 \in 1..i /\ m <= Len(a) /\ m <= t
  BY LineFacts
<1>3. B \in Line /\ Len(B) = t /\ \A j \in 1..t : B[j] = a[j]
  BY <1>1, PrefixFacts
<1> HIDE DEF B
<1>4. SubSeq(B, 1, m) = SubSeq(a, 1, m)
  <2>1. \A j \in 1..m : B[j] = a[j]
    BY <1>1, <1>3
  <2> QED
    BY <1>1, <1>3, <2>1, CutsSame
<1>5. SubSeq(B, i, t) = SubSeq(a, i, t)
  BY <1>1, <1>3, CutsSame
<1>6. SubSeq(a, i, t) \in Line
  BY <1>1, CutLine
<1>7. SubSeq(a, 1, m) \o SubSeq(a, m + 1, t) = SubSeq(a, 1, t)
  <2>1. t \in 0..Len(a) /\ m \in 0..t /\ 1 \in 1..m+1
    BY <1>1
  <2> QED
    BY ONLY <2>1, a \in Line, CutsJoined
<1> QED
  BY <1>1, <1>3, <1>4, <1>5, <1>6, <1>7 DEF B

\* A Read takes its bytes as the reference does, and settles right if it ends the body.
LEMMA TakeIsRight ==
    ASSUME CallInv, TapInv, settlements = <<>>, NEW eof \in BOOLEAN,
           NEW B \in Line, delivered \in 0..Len(B), Bytes = SubSeq(B, 1, delivered),
           NEW chunk \in Line, chunk = SubSeq(B, delivered + 1, Len(B)), Bytes \o chunk = B,
           Take(chunk, eof)
    PROVE  /\ parser' \in Parser /\ parser'.events = <<>>
           /\ lastUsage' \in Usage
           /\ ~answer.stream => buf' = B
           /\ IF eof
              THEN \E x : /\ settlements' = <<x>>
                          /\ Right(x, IF answer.stream THEN StreamSays(route.reads, B, TRUE)
                                      ELSE Says(route.reads, FALSE, Text(B)), gone)
              ELSE settlements' = <<>>
           /\ answer.stream /\ settlements' = <<>> => Matches(parser', B, route.reads, lastUsage')
<1> DEFINE d == route.reads
           p0 == [parser EXCEPT !.events = <<>>]
           p == Feed(p0, chunk)
           p1 == [p EXCEPT !.events = <<>>]
           u == ProcessEvents(d, lastUsage, p.events)
<1>1. /\ d \in Dialect /\ answer.stream \in BOOLEAN /\ parser \in Parser /\ parser.events = <<>>
      /\ lastUsage \in Usage
      /\ answer.stream => Matches(parser, Bytes, d, lastUsage)
      /\ ~answer.stream => buf = Bytes
  BY DEF CallInv, TapInv
<1>2. CASE answer.stream
  <2>1. p0 \in Parser /\ Matches(p0, Bytes, d, lastUsage)
    <3>1. p0 \in Parser /\ Matches(p0, Bytes, d, ProcessEvents(d, lastUsage, parser.events))
      BY <1>1, <1>2, MatchesNext
    <3>2. ProcessEvents(d, lastUsage, parser.events) = lastUsage
      BY <1>1, ProcessNone
    <3> QED
      BY <3>1, <3>2
  <2>2. IF eof THEN FinishStream(p1, u)
        ELSE parser' = p1 /\ lastUsage' = u /\ settlements' = settlements /\ buf' = buf
    BY <1>2 DEF Take
  <2> HIDE DEF p0
  <2>3. p \in Parser
    BY <2>1, FeedType
  <2>4. Matches(p, B, d, lastUsage)
    BY <1>1, <2>1, FeedMatches
  <2> HIDE DEF p
  <2>5. p1 \in Parser /\ p1.events = <<>> /\ Matches(p1, B, d, u)
    BY <1>1, <2>3, <2>4, MatchesNext
  <2>6. u \in Usage
    BY <1>1, <2>3, ProcessType DEF Parser
  <2> HIDE DEF p1, u
  <2>7. CASE eof
    <3>1. /\ parser' \in Parser /\ parser'.events = <<>>
          /\ lastUsage' \in Usage
          /\ buf' = buf
          /\ \E x : settlements' = <<x>> /\ Right(x, StreamSays(d, B, TRUE), gone)
      BY <1>1, <2>2, <2>5, <2>6, <2>7, FinishIsRight
    <3>2. settlements' # <<>>
      BY <3>1
    <3> QED
      BY <1>2, <2>7, <3>1, <3>2
  <2>8. CASE ~eof
    BY <1>2, <2>2, <2>5, <2>6, <2>8
  <2> QED
    BY <2>7, <2>8
<1>3. CASE ~answer.stream
  <2>1. buf' = B /\ parser' = parser /\ lastUsage' = lastUsage
    BY <1>1, <1>3 DEF Take
  <2>2. CASE eof
    <3> DEFINE v == ExtractFromJSON(d, B)
    <3>1. SettleFound(v)
      BY <1>3, <2>1, <2>2 DEF Take
    <3>2. Agrees(v, Says(d, FALSE, Text(B)))
      BY <1>1, JSONSays
    <3> HIDE DEF v
    <3>3. \E x : settlements' = <<x>> /\ Right(x, Says(d, FALSE, Text(B)), gone)
      BY <3>1, <3>2, FoundIsRight
    <3> QED
      BY <1>1, <1>3, <2>1, <2>2, <3>3
  <2>3. CASE ~eof
    <3>1. settlements' = <<>>
      BY <1>3, <2>3 DEF Take
    <3> QED
      BY <1>1, <1>3, <2>1, <2>3, <3>1
  <2> QED
    BY <2>2, <2>3
<1> QED
  BY <1>1, <1>2, <1>3

\* A call begins with nothing read and the extractors of the upstream it goes to.
LEMMA InitReaders == Init => ReadersInv
<1> SUFFICES ASSUME Init PROVE ReadersInv
  OBVIOUS
<1> DEFINE d == route.reads
           hosts == LegacyHost \cup {"api.openai.com", "api.anthropic.com"}
<1>1. PICK path \in Path, legacy \in LegacyHost : route = Resolve(path, legacy)
  BY DEF Init
<1>2. PICK h \in hosts : route = [host |-> h, reads |-> RegistryForHost(h)]
  BY <1>1 DEF Resolve
<1>3. h \in DOMAIN Speaks /\ Speaks[h] = RegistryForHost(h) /\ RegistryForHost(h) \in Dialect
  BY ReadersAssumption DEF RegistryForHost, Dialect
<1>4. route \in [host : DOMAIN Speaks, reads : Dialect] /\ d = Speaks[route.host] /\ d \in Dialect
  BY <1>2, <1>3
<1>5. answer \in Answer[d]
  BY <1>4 DEF Init
<1>6. answer.stream \in BOOLEAN /\ answer.bytes \in Seq(STRING)
  BY <1>4, <1>5, ReadersAssumption
<1>7. answer.bytes \in Line
  <2>1. STRING \subseteq Token
    BY DEF Token
  <2> QED
    BY <1>6, <2>1, SeqMonotonic DEF Line
<1>8. /\ delivered = 0 /\ parser = NewParser /\ buf = <<>> /\ lastUsage = NoUsage
      /\ phase = "reading" /\ settlements = <<>>
  BY DEF Init
<1>9. Bytes = <<>>
  <2>1. 0 \in 0..Len(answer.bytes)
    BY <1>7, LineFacts
  <2>2. Bytes \in Line /\ Len(Bytes) = 0
    BY <1>7, <1>8, <2>1, PrefixFacts DEF Bytes
  <2> QED
    BY <2>2, EmptySeq DEF Line
<1>10. CallInv
  <2>1. 0 \in 0..Len(answer.bytes)
    BY <1>7, LineFacts
  <2> QED
    BY <1>4, <1>6, <1>7, <1>8, <2>1 DEF CallInv
<1>11. TapInv
  <2>1. NewParser \in Parser /\ NewParser.events = <<>>
    BY LineIsSeq, EmptySeq DEF NewParser, Parser, Events
  <2>2. NoUsage \in Usage
    BY DEF Usage
  <2>3. Matches(NewParser, <<>>, d, NoUsage)
    BY <1>4, MatchesNone
  <2> QED
    BY <1>8, <1>9, <2>1, <2>2, <2>3 DEF TapInv
<1>12. SettlingInv
  BY <1>8 DEF SettlingInv
<1> QED
  BY <1>10, <1>11, <1>12 DEF ReadersInv

\* Read keeps the invariant, whatever the chunk and however it ends.
LEMMA ReadKeeps ==
    ASSUME ReadersInv, NEW n \in 0..(Len(answer.bytes) - delivered),
           NEW result \in {"ok", "eof", "error"}, Read(n, result)
    PROVE  ReadersInv'
<1> DEFINE a == answer.bytes
           m == delivered
           B == SubSeq(a, 1, m + n)
           chunk == SubSeq(a, m + 1, m + n)
           eof == result = "eof"
<1>1. /\ phase = "reading" /\ Take(chunk, eof) /\ delivered' = m + n
      /\ phase' = (IF result = "ok" THEN "reading" ELSE "ended")
      /\ route' = route /\ answer' = answer /\ gone' = gone /\ eof \in BOOLEAN
  BY DEF Read
<1>2. CallInv /\ TapInv /\ settlements = <<>>
  BY <1>1 DEF ReadersInv, SettlingInv
<1>3. a \in Line /\ m \in 0..Len(a) /\ n \in Nat /\ m + n <= Len(a) /\ m + n \in 0..Len(a)
  <2>1. a \in Line /\ m \in 0..Len(a)
    BY <1>2 DEF CallInv
  <2>2. Len(a) \in Nat
    BY <2>1, LineFacts
  <2> QED
    BY <2>1, <2>2
<1>4. /\ B \in Line /\ Len(B) = m + n /\ m \in 0..Len(B)
      /\ SubSeq(B, 1, m) = SubSeq(a, 1, m)
      /\ SubSeq(B, m + 1, Len(B)) = chunk
      /\ chunk \in Line
      /\ SubSeq(a, 1, m) \o chunk = B
  <2> DEFINE t == m + n
  <2>1. t \in m..Len(a) /\ a \in Line /\ m \in 0..Len(a) /\ m \in 0..t
    <3>1. Len(a) \in Nat
      BY <1>3, LineFacts
    <3> QED
      BY <1>3, <3>1
  <2>2. chunk = SubSeq(a, m + 1, t) /\ B = SubSeq(a, 1, t)
    OBVIOUS
  <2> HIDE DEF a, B, m, chunk, t
  <2>3. /\ SubSeq(a, 1, t) \in Line /\ Len(SubSeq(a, 1, t)) = t
        /\ SubSeq(SubSeq(a, 1, t), 1, m) = SubSeq(a, 1, m)
        /\ SubSeq(SubSeq(a, 1, t), m + 1, t) = SubSeq(a, m + 1, t)
        /\ SubSeq(a, m + 1, t) \in Line
        /\ SubSeq(a, 1, m) \o SubSeq(a, m + 1, t) = SubSeq(a, 1, t)
    BY ONLY <2>1, ReadCuts
  <2>4. B \in Line /\ Len(B) = t /\ m \in 0..Len(B) /\ SubSeq(B, 1, m) = SubSeq(a, 1, m)
        /\ SubSeq(B, m + 1, Len(B)) = chunk /\ chunk \in Line /\ SubSeq(a, 1, m) \o chunk = B
    BY ONLY <2>1, <2>2, <2>3
  <2> QED
    BY <2>4 DEF t
<1>5. Bytes = SubSeq(a, 1, m) /\ Bytes' = B
  BY <1>1 DEF Bytes
<1> HIDE DEF a, B, chunk, eof
<1>6. /\ parser' \in Parser /\ parser'.events = <<>>
      /\ lastUsage' \in Usage
      /\ ~answer.stream => buf' = B
      /\ IF eof
         THEN \E x : /\ settlements' = <<x>>
                     /\ Right(x, IF answer.stream THEN StreamSays(route.reads, B, TRUE)
                                 ELSE Says(route.reads, FALSE, Text(B)), gone)
         ELSE settlements' = <<>>
      /\ answer.stream /\ settlements' = <<>> => Matches(parser', B, route.reads, lastUsage')
  BY <1>1, <1>2, <1>4, <1>5, TakeIsRight
<1>7. CallInv'
  BY <1>1, <1>2, <1>3 DEF CallInv, a
<1>8. TapInv'
  BY <1>1, <1>5, <1>6 DEF TapInv
<1>9. AnswerSays' = IF answer.stream THEN StreamSays(route.reads, B, TRUE)
                    ELSE Says(route.reads, FALSE, Text(B))
  BY <1>1, <1>2, <1>5 DEF AnswerSays, CallInv
<1>10. SettlingInv'
  <2>1. CASE eof
    <3>1. settlements' # <<>>
      <4>1. \E x : settlements' = <<x>>
        BY <1>6, <2>1
      <4> QED
        BY <4>1
    <3>2. phase' = "ended"
      BY <1>1, <2>1 DEF eof
    <3> QED
      BY <1>1, <1>6, <1>9, <2>1, <3>1, <3>2 DEF SettlingInv
  <2>2. CASE ~eof
    <3>1. settlements' = <<>> /\ phase' # "closed"
      BY <1>1, <1>6, <2>2
    <3> QED
      BY <3>1 DEF SettlingInv
  <2> QED
    BY <2>1, <2>2
<1> QED
  BY <1>7, <1>8, <1>10 DEF ReadersInv

\* What has been charged stays right while no byte is read and no client comes back.
LEMMA StaysRight ==
    ASSUME SettlingInv, settlements' = settlements, settlements # <<>>, phase' # "reading",
           route' = route, answer' = answer, delivered' = delivered, gone => gone'
    PROVE  SettlingInv'
<1>1. AnswerSays' = AnswerSays
  BY DEF AnswerSays, Bytes
<1>2. PICK x : settlements = <<x>> /\ Right(x, AnswerSays, gone)
  BY DEF SettlingInv
<1>3. Right(x, AnswerSays, gone')
  BY <1>2 DEF Right
<1>4. settlements' = <<x>> /\ Right(x, AnswerSays, gone)'
  BY <1>1, <1>2, <1>3 DEF Right
<1> QED
  BY <1>1, <1>2, <1>3 DEF SettlingInv

\* Close keeps the invariant, whether or not the call has settled.
LEMMA CloseKeeps ==
    ASSUME ReadersInv, CloseBody
    PROVE  ReadersInv'
<1>1. /\ phase' = "closed" /\ phase # "closed"
      /\ route' = route /\ answer' = answer /\ delivered' = delivered /\ gone' = gone
      /\ IF answer.stream THEN FinishStream(parser, lastUsage)
         ELSE /\ SettleFound(ExtractFromJSON(route.reads, buf))
              /\ parser' = parser /\ buf' = buf /\ lastUsage' = lastUsage
  BY DEF CloseBody
<1>2. CallInv /\ TapInv /\ SettlingInv
  BY DEF ReadersInv
<1>3. CallInv'
  BY <1>1, <1>2 DEF CallInv
<1>4. Bytes' = Bytes /\ AnswerSays' = AnswerSays
  BY <1>1 DEF Bytes, AnswerSays
<1>5. Bytes \in Line /\ route.reads \in Dialect /\ route.reads = Speaks[route.host]
  BY <1>2, PrefixFacts DEF Bytes, CallInv
<1>6. CASE settlements # <<>>
  <2>1. settlements' = settlements
    BY <1>1, <1>6, OnceIsOnce DEF FinishStream
  <2>2. parser' = parser /\ lastUsage' = lastUsage /\ buf' = buf
    BY <1>1, <1>6 DEF FinishStream
  <2>3. TapInv'
    BY <1>1, <1>2, <1>4, <1>6, <2>1, <2>2 DEF TapInv
  <2>4. SettlingInv'
    BY <1>1, <1>2, <1>6, <2>1, StaysRight
  <2> QED
    BY <1>3, <2>3, <2>4 DEF ReadersInv
<1>7. CASE settlements = <<>> /\ answer.stream
  <2>1. /\ parser \in Parser /\ parser.events = <<>> /\ lastUsage \in Usage
        /\ Matches(parser, Bytes, route.reads, lastUsage)
    BY <1>2, <1>7 DEF TapInv
  <2>2. /\ parser' \in Parser /\ parser'.events = <<>>
        /\ lastUsage' \in Usage
        /\ \E x : settlements' = <<x>> /\ Right(x, StreamSays(route.reads, Bytes, TRUE), gone)
    BY <1>1, <1>5, <1>7, <2>1, FinishIsRight
  <2>3. AnswerSays = StreamSays(route.reads, Bytes, TRUE)
    BY <1>5, <1>7 DEF AnswerSays
  <2>4. settlements' # <<>>
    BY <2>2
  <2>5. TapInv'
    BY <1>1, <1>7, <2>2, <2>4 DEF TapInv
  <2>6. SettlingInv'
    BY <1>1, <1>4, <2>2, <2>3, <2>4 DEF SettlingInv
  <2> QED
    BY <1>3, <2>5, <2>6 DEF ReadersInv
<1>8. CASE settlements = <<>> /\ ~answer.stream
  <2> DEFINE v == ExtractFromJSON(route.reads, buf)
             n == Says(route.reads, FALSE, Text(buf))
  <2>1. SettleFound(v) /\ parser' = parser /\ buf' = buf /\ lastUsage' = lastUsage
    BY <1>1, <1>8
  <2>2. Agrees(v, n)
    BY <1>5, JSONSays
  <2>3. AnswerSays = n
    BY <1>2, <1>5, <1>8 DEF AnswerSays, TapInv
  <2> HIDE DEF v, n
  <2>4. \E x : settlements' = <<x>> /\ Right(x, n, gone)
    BY <1>8, <2>1, <2>2, FoundIsRight
  <2>5. settlements' # <<>>
    BY <2>4
  <2>6. TapInv'
    BY <1>1, <1>2, <1>4, <1>8, <2>1 DEF TapInv
  <2>7. SettlingInv'
    BY <1>1, <1>4, <2>3, <2>4, <2>5 DEF SettlingInv
  <2> QED
    BY <1>3, <2>6, <2>7 DEF ReadersInv
<1> QED
  BY <1>2, <1>6, <1>7, <1>8 DEF CallInv

\* A Read after the client left keeps the invariant.
LEMMA CancelKeeps ==
    ASSUME ReadersInv, ReadCancelled
    PROVE  ReadersInv'
<1> DEFINE x == [outcome |-> "disconnected", actual |-> Reserved]
<1>1. /\ phase = "reading" /\ gone /\ SettleOnce("disconnected", Reserved) /\ phase' = "ended"
      /\ route' = route /\ answer' = answer /\ delivered' = delivered /\ parser' = parser
      /\ buf' = buf /\ lastUsage' = lastUsage /\ gone' = gone
  BY DEF ReadCancelled
<1>2. CallInv /\ TapInv /\ settlements = <<>>
  BY <1>1 DEF ReadersInv, SettlingInv
<1>3. settlements' = <<x>> /\ settlements' # <<>>
  BY <1>1, <1>2 DEF SettleOnce
<1>4. Right(x, AnswerSays', gone')
  BY <1>1, ReadersAssumption DEF Right
<1> HIDE DEF x
<1>5. CallInv'
  BY <1>1, <1>2 DEF CallInv
<1>6. TapInv'
  BY <1>1, <1>2, <1>3 DEF TapInv, Bytes
<1>7. SettlingInv'
  BY <1>1, <1>3, <1>4 DEF SettlingInv
<1> QED
  BY <1>5, <1>6, <1>7 DEF ReadersInv

\* The departure of the client keeps the invariant.
LEMMA LeaveKeeps ==
    ASSUME ReadersInv, ClientLeaves
    PROVE  ReadersInv'
<1>1. /\ gone' = TRUE /\ route' = route /\ answer' = answer /\ delivered' = delivered
      /\ parser' = parser /\ buf' = buf /\ lastUsage' = lastUsage /\ phase' = phase
      /\ settlements' = settlements
  BY DEF ClientLeaves
<1>2. CallInv /\ TapInv /\ SettlingInv
  BY DEF ReadersInv
<1>3. CallInv'
  BY <1>1, <1>2 DEF CallInv
<1>4. TapInv'
  BY <1>1, <1>2 DEF TapInv, Bytes
<1>5. SettlingInv'
  <2>1. CASE settlements = <<>>
    BY <1>1, <1>2, <2>1 DEF SettlingInv
  <2>2. CASE settlements # <<>>
    BY <1>1, <1>2, <2>2, StaysRight DEF SettlingInv
  <2> QED
    BY <2>1, <2>2
<1> QED
  BY <1>3, <1>4, <1>5 DEF ReadersInv

\* Every step keeps the invariant.
LEMMA NextKeeps == ReadersInv /\ [Next]_readerVars => ReadersInv'
<1> SUFFICES ASSUME ReadersInv, [Next]_readerVars PROVE ReadersInv'
  OBVIOUS
<1>1. CASE UNCHANGED readerVars
  BY <1>1 DEF readerVars, ReadersInv, CallInv, TapInv, SettlingInv, Bytes, AnswerSays
<1> QED
  BY <1>1, ReadKeeps, CloseKeeps, CancelKeeps, LeaveKeeps DEF Next

\* In every state of a call the parser has read what was delivered as the reference reads
\* it, and what has been charged is right.
THEOREM ReadersInvariant == ReadersSpec => []ReadersInv
BY InitReaders, NextKeeps, PTL DEF ReadersSpec

\* What the invariant says of the settlements, by their positions.
LEMMA OneOrNone ==
    ASSUME SettlingInv
    PROVE  /\ Len(settlements) <= 1
           /\ \A i \in DOMAIN settlements : Right(settlements[i], AnswerSays, gone)
<1>1. CASE settlements = <<>>
  BY <1>1
<1>2. CASE \E x : settlements = <<x>> /\ Right(x, AnswerSays, gone)
  <2>1. PICK x : settlements = <<x>> /\ Right(x, AnswerSays, gone)
    BY <1>2
  <2>2. Len(settlements) = 1 /\ DOMAIN settlements = {1} /\ settlements[1] = x
    BY <2>1
  <2> QED
    BY <2>1, <2>2
<1> QED
  BY <1>1, <1>2 DEF SettlingInv

\* The state of a call has its types; what it charges is a natural number.
THEOREM ReaderTypes == ReadersSpec => []TypeOK
<1>1. ReadersInv => TypeOK
  BY OneOrNone DEF ReadersInv, CallInv, TapInv, TypeOK, Right
<1> QED
  BY <1>1, ReadersInvariant, PTL

\* One settlement, whatever ends the reading first: EOF, a cancelled Read, Close.
\* A closed body has been settled.
THEOREM OneSettlement == ReadersSpec => []SettledOnce
<1>1. ReadersInv => SettledOnce
  BY OneOrNone DEF ReadersInv, SettlingInv, SettledOnce
<1> QED
  BY <1>1, ReadersInvariant, PTL

\* The charge is what the delivered bytes report, or the reservation if they report nothing,
\* for every answer and however the network cuts it, of every provider and on every path.
THEOREM ChargeIsReported == ReadersSpec => []ChargedAsReported
<1>1. ReadersInv => ChargedAsReported
  BY OneOrNone DEF ReadersInv, Right, ChargedAsReported
<1> QED
  BY <1>1, ReadersInvariant, PTL

\* Whatever the chunks, the usage of an event is known once its blank line has come.
THEOREM TapKnowsAtOnce == ReadersSpec => []KnownAtOnce
<1>1. ReadersInv => KnownAtOnce
  <2> SUFFICES ASSUME ReadersInv, answer.stream, settlements = <<>>
               PROVE  StreamSays(route.reads, Bytes, FALSE) = Used(lastUsage)
    BY DEF ReadersInv, CallInv, KnownAtOnce, Used
  <2>1. /\ route.reads \in Dialect /\ lastUsage \in Usage /\ parser.events = <<>>
        /\ Matches(parser, Bytes, route.reads, lastUsage)
    BY DEF ReadersInv, CallInv, TapInv
  <2> QED
    BY <2>1, MatchesKnows
<1> QED
  BY <1>1, ReadersInvariant, PTL
=============================================================================
