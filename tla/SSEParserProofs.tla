--------------------------- MODULE SSEParserProofs ---------------------------
(***************************************************************************)
(* What the operators of SSEParser compute, for sequences of any length.   *)
(*                                                                         *)
(* The folds of the community modules are recursions on sets that a CHOOSE *)
(* solves.  Recursion and SetRecursion show that the solution exists, UpTo *)
(* what it is: that FlattenSeq concatenates, step by step, and that        *)
(* DrainLines runs the loop of drainLines, one iteration per byte.         *)
(*                                                                         *)
(* ChunksAreOne is what the parser is for: bytes behind the first newline  *)
(* of the buffer do not change the line it ends (DrainTailed), so a run    *)
(* over what has come goes as it would with more behind it (LastLineStep), *)
(* and ends where a run over the rest goes on (DrainTwice).                *)
(***************************************************************************)
EXTENDS SSEParser, TLAPS, WellFoundedInduction, SequenceTheorems

\* A set of naturals that is not empty has a least element.
LEMMA LeastNatural ==
    ASSUME NEW T, T \subseteq Nat, T # {}
    PROVE  \E x \in T : \A y \in T : x <= y
<1>1. PICK x \in T : \A y \in T : ~ (<<y, x>> \in OpToRel(<, Nat))
  BY NatLessThanWellFounded, WFMin
<1>2. ASSUME NEW y \in T PROVE x <= y
  <2>1. x \in Nat /\ y \in Nat
    OBVIOUS
  <2>2. ~ (<<y, x>> \in {ss \in Nat \X Nat : ss[1] < ss[2]})
    BY <1>1, Zenon DEF OpToRel
  <2> QED
    BY <2>1, <2>2
<1> QED
  BY <1>2

\* Induction over an interval, for a set instead of a predicate.
LEMMA UpTo ==
    ASSUME NEW n \in Nat, NEW T, 0 \in T, \A k \in 0..n-1 : k \in T => k + 1 \in T
    PROVE  \A k \in 0..n : k \in T
<1> DEFINE U == {k \in 0..n : k \notin T}
<1> SUFFICES ASSUME U # {} PROVE FALSE
  OBVIOUS
<1>1. PICK x \in U : \A y \in U : x <= y
  <2>1. U \subseteq Nat
    OBVIOUS
  <2> HIDE DEF U
  <2> QED
    BY <2>1, LeastNatural
<1>2. x \in Nat /\ x # 0 /\ x - 1 \in 0..n-1 /\ x - 1 \notin U
  BY <1>1
<1> QED
  BY <1>2

\* The largest of some numbers of an interval is one of them.
LEMMA MaxOfSome ==
    ASSUME NEW n \in Nat, NEW s \in SUBSET (1..n), s # {}
    PROVE  Max(s) \in s /\ \A x \in s : x <= Max(s)
<1> DEFINE U == {n - x : x \in s}
<1>1. PICK y \in U : \A z \in U : y <= z
  <2>1. U \subseteq Nat
    OBVIOUS
  <2>2. U # {}
    OBVIOUS
  <2> HIDE DEF U
  <2> QED
    BY <2>1, <2>2, LeastNatural
<1>2. PICK m \in s : y = n - m
  OBVIOUS
<1>3. ASSUME NEW x \in s PROVE m >= x
  <2>1. n - x \in U /\ x \in Int /\ m \in Int
    OBVIOUS
  <2>2. n - m <= n - x
    BY <1>1, <1>2, <2>1
  <2> QED
    BY <2>1, <2>2
<1> QED
  BY <1>3 DEF Max

\* What a fold over 1..k takes last, and what it leaves.
LEMMA MaxOfInterval ==
    ASSUME NEW k \in Nat \ {0}
    PROVE  Max(1..k) = k /\ (1..k) \ {Max(1..k)} = 1..k-1
<1>1. Max(1..k) \in 1..k /\ \A x \in 1..k : x <= Max(1..k)
  <2>1. 1 \in 1..k
    OBVIOUS
  <2> QED
    BY <2>1, MaxOfSome
<1>2. Max(1..k) = k
  BY <1>1
<1> QED
  BY <1>2

\* The least of some naturals is one of them.
LEMMA MinOfSome ==
    ASSUME NEW s \in SUBSET Nat, s # {}
    PROVE  Min(s) \in s /\ \A x \in s : Min(s) <= x
BY LeastNatural DEF Min

-----------------------------------------------------------------------------
(* Recursion on intervals and on sets of numbers. *)

\* Functions that take the step k of a computation over A.
Steps(A, n) == [(1..n) \X A -> A]

\* h runs through the values of the steps of g from base.
IsRun(h, A, base, n, g) ==
    /\ h \in [0..n -> A]
    /\ h[0] = base /\ \A k \in 0..n-1 : h[k + 1] = g[<<k + 1, h[k]>>]

\* A step function and a start have a run of any length.
LEMMA Recursion ==
    ASSUME NEW A, NEW base \in A, NEW n \in Nat, NEW g \in Steps(A, n)
    PROVE  \E h : IsRun(h, A, base, n, g)
<1> USE DEF Steps, IsRun
<1> DEFINE T == {m \in 0..n : \E h : IsRun(h, A, base, m, g)}
<1>1. 0 \in T
  <2>1. IsRun([k \in 0..0 |-> base], A, base, 0, g)
    OBVIOUS
  <2> HIDE DEF IsRun
  <2> QED
    BY <2>1
<1>2. ASSUME NEW m \in 0..n-1, m \in T PROVE m + 1 \in T
  <2>1. PICK h : IsRun(h, A, base, m, g)
    <3> HIDE DEF IsRun
    <3> QED
      BY <1>2
  <2> m \in Nat /\ m + 1 \in 1..n
    OBVIOUS
  <2> DEFINE v == g[<<m + 1, h[m]>>]
             f == [k \in 0..m+1 |-> IF k = m + 1 THEN v ELSE h[k]]
  <2>2. h[m] \in A /\ \A k \in 0..m : h[k] \in A
    BY <2>1
  <2>3. v \in A
    BY <2>2
  <2>4. f \in [0..m+1 -> A] /\ f[m + 1] = v /\ \A k \in 0..m : f[k] = h[k]
    <3> HIDE DEF v
    <3> QED
      BY <2>2, <2>3
  <2>5. ASSUME NEW k \in 0..m PROVE f[k + 1] = g[<<k + 1, f[k]>>]
    <3> HIDE DEF f
    <3>1. CASE k = m
      BY <3>1, <2>4
    <3>2. CASE k # m
      <4>1. k \in 0..m-1 /\ k + 1 \in 0..m
        BY <3>2
      <4> QED
        BY <4>1, <2>1, <2>4
    <3> QED
      BY <3>1, <3>2
  <2>6. IsRun(f, A, base, m + 1, g)
    <3>1. f[0] = base /\ m + 1 - 1 = m
      BY <2>1, <2>4
    <3> HIDE DEF f
    <3> QED
      BY <2>4, <2>5, <3>1
  <2> HIDE DEF IsRun, f
  <2> QED
    BY <2>6
<1>3. n \in T
  <2> HIDE DEF T
  <2> QED
    BY <1>1, <1>2, UpTo
<1> HIDE DEF IsRun
<1> QED
  BY <1>3

\* h folds g over every set of steps, the latest step last.
IsSetRun(h, A, base, n, g) ==
    /\ h \in [SUBSET (1..n) -> A]
    /\ \A s \in SUBSET (1..n) :
           h[s] = IF s = {} THEN base ELSE g[<<Max(s), h[s \ {Max(s)}]>>]

\* The recursion on sets that MapThenFoldSet takes its value from has a solution.
LEMMA SetRecursion ==
    ASSUME NEW A, NEW base \in A, NEW n \in Nat, NEW g \in Steps(A, n)
    PROVE  \E h : IsSetRun(h, A, base, n, g)
<1> USE DEF Steps, IsSetRun
<1> DEFINE T == {m \in 0..n : \E h : IsSetRun(h, A, base, m, g)}
<1>1. 0 \in T
  <2>1. SUBSET (1..0) = {{}}
    OBVIOUS
  <2>2. IsSetRun([s \in {{}} |-> base], A, base, 0, g)
    BY <2>1
  <2> HIDE DEF IsSetRun
  <2> QED
    BY <2>2
<1>2. ASSUME NEW k \in 0..n-1, k \in T PROVE k + 1 \in T
  <2>1. PICK h : IsSetRun(h, A, base, k, g)
    <3> HIDE DEF IsSetRun
    <3> QED
      BY <1>2
  <2> DEFINE f == [s \in SUBSET (1..k+1) |->
                      IF k + 1 \in s THEN g[<<k + 1, h[s \ {k + 1}]>>] ELSE h[s]]
  <2>2. ASSUME NEW s \in SUBSET (1..k+1)
        PROVE  s \ {k + 1} \in SUBSET (1..k) /\ (k + 1 \notin s => s \in SUBSET (1..k))
    OBVIOUS
  <2>3. \A s \in SUBSET (1..k) : h[s] \in A
    BY <2>1
  <2>4. f \in [SUBSET (1..k+1) -> A]
    BY <2>2, <2>3
  <2>5. ASSUME NEW s \in SUBSET (1..k+1)
        PROVE  f[s] = IF s = {} THEN base ELSE g[<<Max(s), f[s \ {Max(s)}]>>]
    <3>1. s # {} => Max(s) \in s /\ \A x \in s : x <= Max(s)
      <4>1. k + 1 \in Nat
        OBVIOUS
      <4> QED
        BY <4>1, MaxOfSome
    <3>2. CASE k + 1 \in s
      <4>1. Max(s) = k + 1
        <5>1. Max(s) \in 1..k+1 /\ k + 1 <= Max(s)
          BY <3>1, <3>2
        <5> QED
          BY <5>1
      <4>2. f[s \ {k + 1}] = h[s \ {k + 1}]
        BY <2>2
      <4> QED
        BY <3>2, <4>1, <4>2
    <3>3. CASE k + 1 \notin s /\ s = {}
      BY <3>3, <2>1
    <3>4. CASE k + 1 \notin s /\ s # {}
      <4>1. k + 1 \notin s \ {Max(s)} /\ s \ {Max(s)} \in SUBSET (1..k+1)
        BY <3>4
      <4>2. f[s \ {Max(s)}] = h[s \ {Max(s)}]
        BY <4>1
      <4>3. f[s] = h[s] /\ s \in SUBSET (1..k)
        BY <3>4, <2>2
      <4> QED
        BY <3>4, <4>2, <4>3, <2>1
    <3> QED
      BY <3>2, <3>3, <3>4
  <2>6. IsSetRun(f, A, base, k + 1, g)
    BY <2>4, <2>5
  <2> HIDE DEF IsSetRun
  <2> QED
    BY <2>6
<1>3. n \in T
  <2> HIDE DEF T
  <2> QED
    BY <1>1, <1>2, UpTo
<1> HIDE DEF IsSetRun
<1> QED
  BY <1>3

-----------------------------------------------------------------------------
(* Concatenation of a sequence of sequences. *)

\* fl[k] joins the first k of s.
Joins(fl, s, m) ==
    fl[0] = <<>> /\ \A k \in 0..m-1 : fl[k + 1] = fl[k] \o s[k + 1]

\* The next element is joined at the end.
LEMMA JoinsStep ==
    ASSUME NEW fl, NEW s, NEW n \in Nat, Joins(fl, s, n + 1)
    PROVE  fl[n + 1] = fl[n] \o s[n + 1]
<1>1. n \in 0..(n+1)-1
  OBVIOUS
<1>2. \A k \in 0..(n+1)-1 : fl[k + 1] = fl[k] \o s[k + 1]
  BY DEF Joins
<1> QED
  BY <1>1, <1>2, Zenon

\* FlattenSeq is the last of the running concatenations of a sequence.
LEMMA FlattenIs ==
    ASSUME NEW A, NEW m \in Nat, NEW s, Len(s) = m, m = 0 => s = <<>>,
           \A k \in 0..m-1 : s[k + 1] \in A,
           NEW fl, Joins(fl, s, m),
           \A x \in A : <<>> \o x = x
    PROVE  FlattenSeq(s) = fl[m]
<1> USE DEF Joins
<1> DEFINE P(f) == f = [i \in 1..m |-> IF i = 1 THEN s[i] ELSE f[i - 1] \o s[i]]
           C == CHOOSE f : P(f)
<1>1. ASSUME NEW k \in 0..m-1
      PROVE  k \in Nat /\ k + 1 - 1 = k /\ k + 1 \in 1..m
  OBVIOUS
<1>2. CASE m = 0
  BY <1>2 DEF FlattenSeq
<1>3. CASE m # 0
  <2>1. FlattenSeq(s) = C[m]
    BY <1>3 DEF FlattenSeq
  <2>2. ASSUME NEW k \in 0..m-1
        PROVE  fl[k + 1] = IF k + 1 = 1 THEN s[k + 1] ELSE fl[k] \o s[k + 1]
    <3>1. fl[k + 1] = fl[k] \o s[k + 1] /\ s[k + 1] \in A
      OBVIOUS
    <3>2. <<>> \o s[k + 1] = s[k + 1]
      BY <3>1
    <3>3. CASE k = 0
      BY <3>1, <3>2, <3>3
    <3>4. CASE k # 0
      <4>1. k + 1 # 1
        BY <3>4
      <4> QED
        BY <3>1, <4>1
    <3> QED
      BY <3>3, <3>4
  <2>3. P([i \in 1..m |-> fl[i]])
    <3> DEFINE f == [i \in 1..m |-> fl[i]]
    <3>1. ASSUME NEW i \in 1..m
          PROVE  f[i] = IF i = 1 THEN s[i] ELSE f[i - 1] \o s[i]
      <4>1. i - 1 \in 0..m-1 /\ i - 1 + 1 = i /\ (i # 1 => i - 1 \in 1..m)
        OBVIOUS
      <4>2. fl[i] = IF i = 1 THEN s[i] ELSE fl[i - 1] \o s[i]
        BY <4>1, <2>2
      <4>3. f[i] = fl[i] /\ (i # 1 => f[i - 1] = fl[i - 1])
        BY <4>1
      <4> HIDE DEF f
      <4> QED
        BY <4>2, <4>3
    <3> QED
      BY <3>1
  <2>4. P(C)
    <3> HIDE DEF P
    <3> QED
      BY <2>3
  <2> HIDE DEF C
  <2>5. ASSUME NEW k \in 0..m-1
        PROVE  C[k + 1] = IF k + 1 = 1 THEN s[k + 1] ELSE C[k] \o s[k + 1]
    <3>1. \A i \in 1..m : C[i] = IF i = 1 THEN s[i] ELSE C[i - 1] \o s[i]
      BY <2>4
    <3> HIDE DEF P
    <3>2. C[k + 1] = IF k + 1 = 1 THEN s[k + 1] ELSE C[k + 1 - 1] \o s[k + 1]
      BY <3>1, <1>1
    <3> QED
      BY <3>2, <1>1
  <2> HIDE DEF P
  <2> DEFINE T == {k \in 0..m : k = 0 \/ C[k] = fl[k]}
  <2>6. ASSUME NEW k \in 0..m-1, k \in T PROVE k + 1 \in T
    BY <2>2, <2>5, <2>6, <1>1
  <2>7. m \in T
    <3>1. 0 \in T
      OBVIOUS
    <3> HIDE DEF T
    <3> QED
      BY <3>1, <2>6, UpTo
  <2> QED
    BY <2>1, <2>7, <1>3
<1> QED
  BY <1>2, <1>3

\* The running concatenations of some values exist.
LEMMA ConcatRuns ==
    ASSUME NEW A, <<>> \in A, NEW n \in Nat, NEW F, \A i \in 1..n : F[i] \in A,
           \A x, y \in A : x \o y \in A
    PROVE  \E fl : fl \in [0..n -> A] /\ Joins(fl, F, n)
<1> DEFINE g == [x \in (1..n) \X A |-> x[2] \o F[x[1]]]
<1>1. g \in Steps(A, n) /\ \A k \in 1..n, x \in A : g[<<k, x>>] = x \o F[k]
  BY DEF Steps
<1> HIDE DEF g
<1>2. PICK fl : IsRun(fl, A, <<>>, n, g)
  BY <1>1, Recursion
<1>3. fl \in [0..n -> A]
  BY <1>2 DEF IsRun
<1>4. \A k \in 0..n-1 : k + 1 \in 1..n /\ fl[k] \in A
  BY <1>3
<1>5. Joins(fl, F, n)
  BY <1>1, <1>2, <1>4 DEF IsRun, Joins
<1> QED
  BY <1>3, <1>5

\* The first n of F are sequences over S.
AreSeqs(F, n, S) == \A i \in 1..n : F[i] \in Seq(S)

Flat(F, n) == FlattenSeq([i \in 1..n |-> F[i]])

\* fl holds the Flat of every number of parts.
IsFlat(fl, F, n, S) ==
    Joins(fl, F, n) /\ \A m \in 0..n : fl[m] \in Seq(S) /\ Flat(F, m) = fl[m]

\* Flat is their last, for every prefix at once.
LEMMA FlattenRuns ==
    ASSUME NEW S, NEW n \in Nat, NEW F, AreSeqs(F, n, S)
    PROVE  \E fl : IsFlat(fl, F, n, S)
<1> DEFINE A == Seq(S)
<1>1. <<>> \in A /\ (\A x, y \in A : x \o y \in A) /\ (\A x \in A : <<>> \o x = x)
  BY ConcatProperties, ConcatEmptySeq
<1>2. \A i \in 1..n : F[i] \in A
  BY DEF AreSeqs
<1>3. PICK fl : fl \in [0..n -> A] /\ Joins(fl, F, n)
  <2> HIDE DEF A
  <2> QED
    BY <1>1, <1>2, ConcatRuns
<1>4. ASSUME NEW m \in 0..n PROVE Flat(F, m) = fl[m]
  <2> DEFINE s == [i \in 1..m |-> F[i]]
  <2> HIDE DEF A
  <2>1. m \in Nat /\ Len(s) = m /\ (m = 0 => s = <<>>)
    OBVIOUS
  <2>2. \A k \in 0..m-1 : k \in 0..n-1 /\ k + 1 \in 1..n /\ s[k + 1] = F[k + 1]
    BY <2>1
  <2> HIDE DEF s
  <2>3. \A k \in 0..m-1 : s[k + 1] \in A
    BY <1>2, <2>2
  <2>4. Joins(fl, s, m)
    BY <1>3, <2>2 DEF Joins
  <2>5. FlattenSeq(s) = fl[m]
    BY <1>1, <2>1, <2>3, <2>4, FlattenIs
  <2> QED
    BY <2>5 DEF s, Flat
<1> QED
  BY <1>3, <1>4 DEF IsFlat

\* Nothing joined is nothing.
LEMMA FlattenNone ==
    ASSUME NEW F
    PROVE  Flat(F, 0) = <<>>
<1>1. [i \in 1..0 |-> F[i]] = <<>>
  OBVIOUS
<1> QED
  BY <1>1 DEF FlattenSeq, Flat

\* One more part is joined at the end.
LEMMA FlattenOneMore ==
    ASSUME NEW S, NEW n \in Nat, NEW F, AreSeqs(F, n + 1, S)
    PROVE  Flat(F, n) \in Seq(S) /\ Flat(F, n + 1) = Flat(F, n) \o F[n + 1]
<1>1. n + 1 \in Nat /\ n \in 0..n+1 /\ n + 1 \in 0..n+1 /\ n \in 0..(n+1)-1
  OBVIOUS
<1>2. PICK fl : IsFlat(fl, F, n + 1, S)
  BY <1>1, FlattenRuns
<1>3. Joins(fl, F, n + 1)
  BY <1>2 DEF IsFlat
<1>4. fl[n + 1] = fl[n] \o F[n + 1]
  BY <1>3, JoinsStep
<1> QED
  BY <1>1, <1>2, <1>4 DEF IsFlat

\* Joined sequences over a set are a sequence over it.
LEMMA FlattenType ==
    ASSUME NEW S, NEW n \in Nat, NEW F, AreSeqs(F, n, S)
    PROVE  Flat(F, n) \in Seq(S)
<1>1. PICK fl : IsFlat(fl, F, n, S)
  BY FlattenRuns
<1> QED
  BY <1>1 DEF IsFlat

\* Empty parts at the end add nothing.
LEMMA FlattenRest ==
    ASSUME NEW S, NEW n \in Nat, NEW F, AreSeqs(F, n, S),
           NEW m \in 0..n, \A i \in 1..n : i > m => F[i] = <<>>
    PROVE  Flat(F, n) = Flat(F, m)
<1>1. PICK fl : IsFlat(fl, F, n, S)
  BY FlattenRuns
<1>2. Joins(fl, F, n) /\ \A k \in 0..n : fl[k] \in Seq(S)
  BY <1>1 DEF IsFlat
<1> DEFINE T == {k \in 0..n : k >= m => fl[k] = fl[m]}
<1>3. 0 \in T
  OBVIOUS
<1>4. ASSUME NEW k \in 0..n-1, k \in T PROVE k + 1 \in T
  <2>1. k \in 0..n /\ k + 1 \in 1..n /\ k \in Int /\ m \in Int
    OBVIOUS
  <2>2. CASE k >= m
    <3>1. fl[k + 1] = fl[k] \o F[k + 1]
      BY <1>2 DEF Joins
    <3>2. F[k + 1] = <<>>
      BY <2>1, <2>2
    <3>3. fl[k + 1] = fl[k]
      BY <1>2, <2>1, <3>1, <3>2, ConcatEmptySeq
    <3> QED
      BY <1>4, <2>1, <2>2, <3>3
  <2>3. CASE ~(k >= m)
    BY <2>1, <2>3
  <2> QED
    BY <2>2, <2>3
<1> HIDE DEF T
<1>5. n \in T
  <2>1. \A k \in 0..n-1 : k \in T => k + 1 \in T
    BY <1>4
  <2>2. n \in Nat /\ n \in 0..n
    OBVIOUS
  <2>3. \A k \in 0..n : k \in T
    BY ONLY <1>3, <2>1, <2>2, UpTo
  <2> QED
    BY <2>2, <2>3
<1>6. fl[n] = fl[m]
  BY <1>5 DEF T
<1> QED
  BY <1>1, <1>6 DEF IsFlat

-----------------------------------------------------------------------------
(* Lines, parsers and what the steps of the parser leave. *)
(* Types *)

\* What bytes are made of; lines of them; and the parsers that scan them.
Token == STRING \cup Space \cup {"da", "ta:", "[DONE]"}

Line == Seq(Token)

Events == Seq([data : Line, done : BOOLEAN])

Parser == [lineBuf : Line, pendingData : Seq(Line), events : Events]

\* A part of a sequence is over the same set.
LEMMA CutType ==
    ASSUME NEW S, NEW s \in Seq(S), NEW m \in Int, m >= 1, NEW n \in Int, n <= Len(s)
    PROVE  SubSeq(s, m, n) \in Seq(S)
<1>1. \A i \in m..n : s[i] \in S
  OBVIOUS
<1> QED
  BY <1>1, SubSeqProperties

\* strings.IndexByte finds the first newline, or none.
LEMMA FirstIs ==
    ASSUME NEW S, NEW s \in Seq(S)
    PROVE  /\ Newline(s) \in 0..Len(s)
           /\ Newline(s) # 0 => s[Newline(s)] = "LF"
           /\ \A i \in 1..Len(s) : s[i] = "LF" => Newline(s) # 0 /\ Newline(s) <= i
<1> DEFINE I == {i \in 1..Len(s) : s[i] = "LF"}
<1>1. Newline(s) = IF I # {} THEN Min(I) ELSE 0
  BY DEF Newline, SelectInSeq
<1>2. I \subseteq Nat /\ Len(s) \in Nat
  OBVIOUS
<1>3. CASE I = {}
  BY <1>1, <1>2, <1>3
<1>4. CASE I # {}
  <2>1. Min(I) \in I /\ \A x \in I : Min(I) <= x
    <3> HIDE DEF I
    <3> QED
      BY <1>2, <1>4, MinOfSome
  <2>2. Newline(s) = Min(I)
    BY <1>1, <1>4
  <2>3. Newline(s) \in 0..Len(s) /\ s[Newline(s)] = "LF" /\ Newline(s) # 0
    BY <2>1, <2>2
  <2>4. ASSUME NEW i \in 1..Len(s), s[i] = "LF" PROVE Newline(s) <= i
    BY <2>1, <2>2, <2>4
  <2> QED
    BY <2>3, <2>4
<1> QED
  BY <1>3, <1>4

\* strings.TrimSpace leaves the part between the outermost words.
LEMMA TrimSpaceCuts ==
    ASSUME NEW s \in Line
    PROVE  \/ TrimSpace(s) = <<>> /\ \A i \in 1..Len(s) : s[i] \in Space
           \/ \E f \in 1..Len(s), l \in 1..Len(s) :
                 /\ TrimSpace(s) = SubSeq(s, f, l) /\ f <= l
                 /\ s[f] \notin Space /\ s[l] \notin Space
                 /\ \A i \in 1..Len(s) : i < f \/ i > l => s[i] \in Space
<1> DEFINE I == {i \in 1..Len(s) : s[i] \notin Space}
           f == SelectInSeq(s, LAMBDA x : x \notin Space)
           l == SelectLastInSeq(s, LAMBDA x : x \notin Space)
<1>1. f = (IF I # {} THEN Min(I) ELSE 0) /\ l = (IF I # {} THEN Max(I) ELSE 0)
  BY DEF SelectInSeq, SelectLastInSeq
<1>2. TrimSpace(s) = IF f = 0 THEN <<>> ELSE SubSeq(s, f, l)
  BY DEF TrimSpace
<1>3. I \subseteq Nat /\ Len(s) \in Nat /\ I \in SUBSET (1..Len(s))
  BY DEF Line
<1>4. CASE I = {}
  BY <1>1, <1>2, <1>4
<1>5. CASE I # {}
  <2>1. Min(I) \in I /\ \A x \in I : Min(I) <= x
    <3> HIDE DEF I
    <3> QED
      BY <1>3, <1>5, MinOfSome
  <2>2. Max(I) \in I /\ \A x \in I : x <= Max(I)
    <3> HIDE DEF I
    <3> QED
      BY <1>3, <1>5, MaxOfSome
  <2>3. f = Min(I) /\ l = Max(I)
    BY <1>1, <1>5
  <2> HIDE DEF f, l
  <2>4. f \in 1..Len(s) /\ l \in 1..Len(s) /\ s[f] \notin Space /\ s[l] \notin Space
        /\ f <= l /\ f # 0
    BY <2>1, <2>2, <2>3
  <2>5. ASSUME NEW i \in 1..Len(s), i < f \/ i > l PROVE s[i] \in Space
    BY <2>1, <2>2, <2>3, <2>4, <2>5
  <2> QED
    BY <1>2, <2>4, <2>5
<1> QED
  BY <1>4, <1>5

\* What strings.TrimSpace leaves is a line.
LEMMA TrimSpaceType ==
    ASSUME NEW s \in Line
    PROVE  TrimSpace(s) \in Line
<1>1. TrimSpace(s) = <<>> \/ \E f \in 1..Len(s), l \in 1..Len(s) : TrimSpace(s) = SubSeq(s, f, l)
  BY TrimSpaceCuts
<1>2. ASSUME NEW f \in 1..Len(s), NEW l \in 1..Len(s) PROVE SubSeq(s, f, l) \in Line
  <2>1. f \in Int /\ f >= 1 /\ l \in Int /\ l <= Len(s)
    BY DEF Line
  <2> QED
    BY <2>1, CutType DEF Line
<1>3. <<>> \in Line
  BY DEF Line
<1> QED
  BY <1>1, <1>2, <1>3

\* What strings.TrimSuffix leaves is a line.
LEMMA TrimCRType ==
    ASSUME NEW s \in Line
    PROVE  TrimCR(s) \in Line
<1>1. Len(s) \in Nat /\ Len(s) - 1 <= Len(s)
  BY DEF Line
<1>2. Front(s) \in Line
  BY <1>1, CutType DEF Front, Line
<1> QED
  BY <1>2 DEF TrimCR

\* What strings.Join writes, with a newline before the first part too.
Joined(pd) == Flat([i \in 1..Len(pd) |-> <<"LF">> \o pd[i]], Len(pd))

\* The lines that the parser itself writes.
LEMMA LineIsSeq == Line = Seq(Token) /\ <<"LF">> \in Line /\ <<>> \in Line
<1>1. "LF" \in Token
  BY DEF Token, Space
<1>2. <<>> \in Seq(Token) /\ Append(<<>>, "LF") \in Seq(Token)
  BY <1>1, EmptySeq, AppendProperties
<1>3. Append(<<>>, "LF") = <<"LF">>
  OBVIOUS
<1> QED
  BY <1>1, <1>2, <1>3 DEF Line

\* Joining lines associates.
LEMMA ConcatLines ==
    ASSUME NEW a \in Line, NEW b \in Line, NEW c \in Line
    PROVE  (a \o b) \o c = a \o (b \o c)
BY ConcatAssociative DEF Line

\* The parts that strings.Join writes are lines.
LEMMA JoinedParts ==
    ASSUME NEW pd \in Seq(Line)
    PROVE  AreSeqs([i \in 1..Len(pd) |-> <<"LF">> \o pd[i]], Len(pd), Token)
<1>1. ASSUME NEW i \in 1..Len(pd) PROVE <<"LF">> \o pd[i] \in Seq(Token)
  <2>1. pd[i] \in Seq(Token)
    BY ElementOfSeq, LineIsSeq
  <2> QED
    BY <2>1, LineIsSeq, ConcatProperties
<1> QED
  BY <1>1 DEF AreSeqs

\* What it writes is a line.
LEMMA JoinedType ==
    ASSUME NEW pd \in Seq(Line)
    PROVE  Joined(pd) \in Line
<1>1. Len(pd) \in Nat
  BY LenProperties
<1> QED
  BY <1>1, JoinedParts, FlattenType, LineIsSeq DEF Joined

\* strings.Join writes a newline before every part but the first.
LEMMA JoinIs ==
    ASSUME NEW pd \in Seq(Line)
    PROVE  Join(pd) = IF pd = <<>> THEN <<>> ELSE Tail(Joined(pd))
<1>1. DOMAIN pd = 1..Len(pd)
  BY LenProperties
<1>2. [i \in DOMAIN pd |-> <<"LF">> \o pd[i]] =
      [i \in 1..Len(pd) |-> [j \in 1..Len(pd) |-> <<"LF">> \o pd[j]][i]]
  BY <1>1
<1> QED
  BY <1>2 DEF Join, Joined, Flat

\* No part, no newline.
LEMMA JoinedNone == Joined(<<>>) = <<>>
BY FlattenNone DEF Joined

\* One more part comes after one more newline.
LEMMA JoinedMore ==
    ASSUME NEW pd \in Seq(Line), NEW x \in Line
    PROVE  Joined(Append(pd, x)) = Joined(pd) \o (<<"LF">> \o x)
<1> DEFINE n == Len(pd)
           q == Append(pd, x)
           F == [i \in 1..n+1 |-> <<"LF">> \o q[i]]
           G == [i \in 1..n |-> <<"LF">> \o pd[i]]
<1>1. n \in Nat /\ q \in Seq(Line) /\ Len(q) = n + 1 /\ q[n + 1] = x /\ \A i \in 1..n : q[i] = pd[i]
  BY AppendProperties, LenProperties
<1>2. AreSeqs(F, n + 1, Token)
  BY <1>1, JoinedParts
<1> HIDE DEF n, q
<1>3. Flat(F, n + 1) = Flat(F, n) \o F[n + 1]
  BY <1>1, <1>2, FlattenOneMore
<1>4. F[n + 1] = <<"LF">> \o x
  BY <1>1
<1>5. [i \in 1..n |-> F[i]] = [i \in 1..n |-> G[i]]
  BY <1>1
<1>6. Flat(F, n) = Flat(G, n)
  BY <1>5 DEF Flat
<1> QED
  BY <1>1, <1>3, <1>4, <1>6 DEF Joined, n, q

\* What is written before the first part is a newline.
LEMMA JoinedHead ==
    ASSUME NEW pd \in Seq(Line), pd # <<>>
    PROVE  \E t \in Line : Joined(pd) = <<"LF">> \o t
<1> DEFINE T == {k \in 0..Len(pd) : 
                    k # 0 => \E t \in Line : Joined(SubSeq(pd, 1, k)) = <<"LF">> \o t}
<1>1. Len(pd) \in Nat \ {0}
  BY EmptySeq
<1>2. 0 \in T
  BY <1>1
<1>3. ASSUME NEW k \in 0..Len(pd)-1, k \in T PROVE k + 1 \in T
  <2>1. k \in Nat /\ k + 1 \in 1..Len(pd) /\ (k + 1) - 1 = k /\ k + 1 # 0 /\ 1 \in 1..Len(pd)
        /\ k + 1 \in 0..Len(pd) /\ k <= Len(pd)
    BY <1>1
  <2>2. SubSeq(pd, 1, k) \in Seq(Line) /\ pd[k + 1] \in Line
    BY <1>1, <2>1, CutType, ElementOfSeq
  <2>3. SubSeq(pd, 1, k + 1) = Append(SubSeq(pd, 1, k), pd[k + 1])
    BY <1>1, <2>1, <2>2, SubSeqRecursiveSecond, AppendIsConcat
  <2>4. Joined(SubSeq(pd, 1, k + 1)) = Joined(SubSeq(pd, 1, k)) \o (<<"LF">> \o pd[k + 1])
    BY <2>2, <2>3, JoinedMore
  <2>5. CASE k = 0
    <3>1. SubSeq(pd, 1, k) = <<>>
      BY <2>5, SubSeqEmpty
    <3>2. <<"LF">> \o pd[k + 1] \in Line
      BY <2>2, LineIsSeq, ConcatProperties
    <3>3. <<>> \o (<<"LF">> \o pd[k + 1]) = <<"LF">> \o pd[k + 1]
      BY <3>2, ConcatEmptySeq, LineIsSeq
    <3>4. Joined(SubSeq(pd, 1, k + 1)) = <<"LF">> \o pd[k + 1]
      BY ONLY <2>4, <3>1, <3>3, JoinedNone
    <3> QED
      BY <2>1, <2>2, <3>4
  <2>6. CASE k # 0
    <3>1. PICK t \in Line : Joined(SubSeq(pd, 1, k)) = <<"LF">> \o t
      BY <1>3, <2>6
    <3>2. t \in Line /\ <<"LF">> \o pd[k + 1] \in Line /\ t \o (<<"LF">> \o pd[k + 1]) \in Line
      BY <2>2, LineIsSeq, ConcatProperties
    <3>3. (<<"LF">> \o t) \o (<<"LF">> \o pd[k + 1]) = <<"LF">> \o (t \o (<<"LF">> \o pd[k + 1]))
      <4> DEFINE lf == <<"LF">>
                 u == lf \o pd[k + 1]
      <4>1. lf \in Line /\ u \in Line /\ t \in Line
        BY <3>2, LineIsSeq
      <4> HIDE DEF lf, u
      <4>2. (lf \o t) \o u = lf \o (t \o u)
        BY <4>1, ConcatLines
      <4> QED
        BY <4>2 DEF lf, u
    <3>4. Joined(SubSeq(pd, 1, k + 1)) = <<"LF">> \o (t \o (<<"LF">> \o pd[k + 1]))
      BY ONLY <2>4, <3>1, <3>3
    <3> QED
      BY <2>1, <3>2, <3>4
  <2> QED
    BY <2>5, <2>6
<1>4. Len(pd) \in T
  <2> HIDE DEF T
  <2>1. \A k \in 0..Len(pd)-1 : k \in T => k + 1 \in T
    BY <1>3
  <2>2. Len(pd) \in Nat /\ Len(pd) \in 0..Len(pd)
    BY <1>1
  <2>3. \A k \in 0..Len(pd) : k \in T
    BY ONLY <1>2, <2>1, <2>2, UpTo
  <2> QED
    BY <2>2, <2>3
<1> QED
  BY <1>1, <1>4, SubSeqFull

\* The value of strings.Join, without the Tail that defines it.
LEMMA JoinHead ==
    ASSUME NEW pd \in Seq(Line)
    PROVE  /\ Join(pd) \in Line
           /\ Joined(pd) = IF pd = <<>> THEN <<>> ELSE <<"LF">> \o Join(pd)
<1>1. CASE pd = <<>>
  BY <1>1, JoinIs, JoinedNone, LineIsSeq
<1>2. CASE pd # <<>>
  <2>1. PICK t \in Line : Joined(pd) = <<"LF">> \o t
    BY <1>2, JoinedHead
  <2>2. Tail(<<"LF">> \o t) = t
    BY <2>1 DEF Line
  <2> QED
    BY <1>2, <2>1, <2>2, JoinIs
<1> QED
  BY <1>1, <1>2

\* flushData leaves a parser.
LEMMA FlushDataType ==
    ASSUME NEW p \in Parser
    PROVE  FlushData(p) \in Parser
<1>1. p.pendingData \in Seq(Line) /\ p.events \in Events /\ <<>> \in Seq(Line)
  BY DEF Parser
<1>2. Event(Join(p.pendingData)) \in [data : Line, done : BOOLEAN]
  BY <1>1, JoinHead DEF Event
<1>3. Append(p.events, Event(Join(p.pendingData))) \in Events
  BY <1>1, <1>2, AppendProperties DEF Events
<1> QED
  BY <1>1, <1>3 DEF FlushData, Emit, Parser

\* processLine leaves a parser and does not touch its buffer.
LEMMA ProcessLineType ==
    ASSUME NEW p \in Parser, NEW line \in Line
    PROVE  ProcessLine(p, line) \in Parser /\ ProcessLine(p, line).lineBuf = p.lineBuf
<1> DEFINE data == TrimSpace(SubSeq(line, 3, Len(line)))
<1>1. p.pendingData \in Seq(Line) /\ p.events \in Events /\ p.lineBuf \in Line
  BY DEF Parser
<1>2. data \in Line
  <2>1. Len(line) \in Int /\ Len(line) <= Len(line) /\ 3 >= 1
    BY LenProperties, LineIsSeq
  <2>2. SubSeq(line, 3, Len(line)) \in Line
    BY <2>1, CutType, LineIsSeq
  <2> QED
    BY <2>2, TrimSpaceType
<1>3. DoneEvent \in [data : Line, done : BOOLEAN]
  BY LineIsSeq DEF DoneEvent
<1>4. Append(p.events, DoneEvent) \in Events
  BY <1>1, <1>3, AppendProperties DEF Events
<1>5. Append(p.pendingData, data) \in Seq(Line)
  BY <1>1, <1>2, AppendProperties
<1>6. Emit(p, DoneEvent) \in Parser /\ Emit(p, DoneEvent).lineBuf = p.lineBuf
  BY <1>4 DEF Emit, Parser
<1>7. [p EXCEPT !.pendingData = Append(@, data)] \in Parser
  BY <1>5 DEF Parser
<1>8. FlushData(p) \in Parser /\ FlushData(p).lineBuf = p.lineBuf
  BY FlushDataType DEF FlushData, Emit, Parser
<1> HIDE DEF data
<1>9. ProcessLine(p, line) \in {FlushData(p), p, Emit(p, DoneEvent), [p EXCEPT !.pendingData = Append(@, data)]}
  BY DEF ProcessLine, data
<1> QED
  BY <1>6, <1>7, <1>8, <1>9 DEF Parser

\* Taking a line off the buffer leaves a parser with the rest of it.
LEMMA DrainLineType ==
    ASSUME NEW p \in Parser
    PROVE  /\ DrainLine(p) \in Parser
           /\ DrainLine(p).lineBuf = SubSeq(p.lineBuf, Newline(p.lineBuf) + 1, Len(p.lineBuf))
<1> DEFINE L == p.lineBuf
           idx == Newline(L)
           q == [p EXCEPT !.lineBuf = SubSeq(L, idx + 1, Len(L))]
           line == TrimCR(SubSeq(L, 1, idx - 1))
<1>1. L \in Line
  BY DEF Parser
<1>2. Len(L) \in Nat /\ idx \in 0..Len(L)
  BY <1>1, LenProperties, FirstIs DEF Line
<1>3. SubSeq(L, idx + 1, Len(L)) \in Line /\ SubSeq(L, 1, idx - 1) \in Line
  <2> HIDE DEF L, idx
  <2>1. idx + 1 \in Int /\ idx + 1 >= 1 /\ idx - 1 \in Int /\ idx - 1 <= Len(L)
        /\ Len(L) \in Int /\ Len(L) <= Len(L) /\ 1 \in Int /\ 1 >= 1
    BY <1>2
  <2> QED
    BY <1>1, <2>1, CutType DEF Line
<1>4. line \in Line
  BY <1>3, TrimCRType
<1>5. q \in Parser /\ q.lineBuf = SubSeq(L, idx + 1, Len(L))
  BY <1>3 DEF Parser
<1>6. DrainLine(p) = ProcessLine(q, line)
  BY DEF DrainLine
<1> HIDE DEF q, line, L, idx
<1>7. DrainLine(p) \in Parser /\ DrainLine(p).lineBuf = SubSeq(L, idx + 1, Len(L))
  BY <1>4, <1>5, <1>6, ProcessLineType
<1> QED
  BY <1>7 DEF L, idx

\* An iteration of drainLines leaves a parser.
LEMMA DrainStepType ==
    ASSUME NEW p \in Parser, NEW x
    PROVE  DrainStep(p, x) \in Parser
BY DrainLineType DEF DrainStep

\* r runs through the states of the loop of drainLines from p.
IsDrain(r, p) ==
    /\ r[0] = p
    /\ \A k \in 0..Len(p.lineBuf)-1 : r[k + 1] = DrainStep(r[k], p.lineBuf[k + 1])

\* DrainLines is the last state of its run.
LEMMA DrainIs ==
    ASSUME NEW p \in Parser, NEW r, IsDrain(r, p)
    PROVE  DrainLines(p) = r[Len(p.lineBuf)]
<1> DEFINE L == p.lineBuf
           n == Len(L)
           g == [x \in (1..n) \X Parser |-> DrainStep(x[2], L[x[1]])]
           P(h) == h = [s \in SUBSET (1..n) |->
                           IF s = {} THEN p ELSE DrainStep(h[s \ {Max(s)}], L[Max(s)])]
           H == CHOOSE h : P(h)
<1>1. L \in Line
  BY DEF Parser
<1>2. n \in Nat /\ DOMAIN L = 1..n
  BY <1>1, LenProperties DEF Line
<1>3. g \in Steps(Parser, n) /\ \A k \in 1..n, q \in Parser : g[<<k, q>>] = DrainStep(q, L[k])
  BY DrainStepType DEF Steps
<1>4. \E h : P(h)
  <2> HIDE DEF n, L
  <2>1. PICK h : IsSetRun(h, Parser, p, n, g)
    <3> HIDE DEF g
    <3> QED
      BY <1>2, <1>3, SetRecursion
  <2>2. ASSUME NEW s \in SUBSET (1..n), s # {}
        PROVE  g[<<Max(s), h[s \ {Max(s)}]>>] = DrainStep(h[s \ {Max(s)}], L[Max(s)])
    <3>1. Max(s) \in 1..n
      BY <1>2, <2>2, MaxOfSome
    <3>2. s \ {Max(s)} \in SUBSET (1..n)
      OBVIOUS
    <3>3. h[s \ {Max(s)}] \in Parser
      BY <2>1, <3>2 DEF IsSetRun
    <3> HIDE DEF g
    <3> QED
      BY <1>3, <3>1, <3>3
  <2>3. \A s \in SUBSET (1..n) :
           h[s] = IF s = {} THEN p ELSE DrainStep(h[s \ {Max(s)}], L[Max(s)])
    <3> HIDE DEF g
    <3> QED
      BY <2>1, <2>2 DEF IsSetRun
  <2>4. h \in [SUBSET (1..n) -> Parser]
    BY <2>1 DEF IsSetRun
  <2>5. P(h)
    <3> HIDE DEF g
    <3> QED
      BY <2>3, <2>4
  <2> QED
    BY <2>5
<1>5. P(H)
  <2> HIDE DEF P
  <2> QED
    BY <1>4
<1>6. DrainLines(p) = H[1..n]
  BY <1>2 DEF DrainLines, FoldLeft, MapThenFoldSet
<1> HIDE DEF H, g
<1>7. \A s \in SUBSET (1..n) :
         H[s] = IF s = {} THEN p ELSE DrainStep(H[s \ {Max(s)}], L[Max(s)])
  <2> HIDE DEF n, L
  <2> QED
    BY <1>5
<1> HIDE DEF P
<1>8. r[0] = p /\ \A k \in 0..n-1 : r[k + 1] = DrainStep(r[k], L[k + 1])
  BY DEF IsDrain
<1> DEFINE T == {k \in 0..n : H[1..k] = r[k]}
<1> HIDE DEF n, L
<1>9. 0 \in T
  <2>1. 1..0 = {} /\ {} \in SUBSET (1..n)
    OBVIOUS
  <2>2. H[{}] = p
    BY <1>7, <2>1
  <2>3. H[1..0] = r[0] /\ 0 \in 0..n
    BY <1>2, <1>8, <2>1, <2>2
  <2> QED
    BY <2>3
<1>10. ASSUME NEW k \in 0..n-1, k \in T PROVE k + 1 \in T
  <2>1. k + 1 \in Nat \ {0} /\ (k + 1) - 1 = k /\ k + 1 \in 0..n
    BY <1>2
  <2>2. Max(1..k+1) = k + 1 /\ (1..k+1) \ {k + 1} = 1..k
    BY <2>1, MaxOfInterval
  <2>3. 1..k+1 \in SUBSET (1..n) /\ 1..k+1 # {}
    BY <1>2
  <2>4. H[1..k+1] = DrainStep(H[1..k], L[k + 1])
    BY <1>7, <2>2, <2>3
  <2> QED
    BY <1>8, <1>10, <2>1, <2>4
<1>11. n \in T
  <2> HIDE DEF T
  <2>1. \A k \in 0..n-1 : k \in T => k + 1 \in T
    BY <1>10
  <2>2. n \in Nat /\ n \in 0..n
    BY <1>2
  <2>3. \A k \in 0..n : k \in T
    BY ONLY <1>9, <2>1, <2>2, UpTo
  <2> QED
    BY <2>2, <2>3
<1>12. DrainLines(p) = r[n]
  BY <1>6, <1>11
<1> QED
  BY <1>12 DEF n, L

\* The loop of drainLines has a run, of parsers.
LEMMA DrainRuns ==
    ASSUME NEW p \in Parser
    PROVE  \E r : IsDrain(r, p) /\ \A k \in 0..Len(p.lineBuf) : r[k] \in Parser
<1> DEFINE L == p.lineBuf
           n == Len(L)
           g == [x \in (1..n) \X Parser |-> DrainStep(x[2], L[x[1]])]
<1>1. L \in Line
  BY DEF Parser
<1>2. n \in Nat
  BY <1>1, LenProperties DEF Line
<1>3. g \in Steps(Parser, n) /\ \A k \in 1..n, q \in Parser : g[<<k, q>>] = DrainStep(q, L[k])
  BY DrainStepType DEF Steps
<1> HIDE DEF n, L, g
<1>4. PICK r : IsRun(r, Parser, p, n, g)
  BY <1>2, <1>3, Recursion
<1>5. r[0] = p /\ \A k \in 0..n : r[k] \in Parser
  BY <1>4 DEF IsRun
<1>6. ASSUME NEW k \in 0..n-1 PROVE r[k + 1] = DrainStep(r[k], L[k + 1])
  <2>1. k + 1 \in 1..n /\ k \in 0..n
    BY <1>2
  <2>2. r[k + 1] = g[<<k + 1, r[k]>>]
    BY <1>4 DEF IsRun
  <2> QED
    BY <1>3, <1>5, <2>1, <2>2
<1> QED
  BY <1>5, <1>6 DEF IsDrain, n, L

-----------------------------------------------------------------------------
(* Parts of lines, and chunks that come one after the other. *)

\* What the provers need to know of a line, so that Line need not be expanded.
LEMMA LineFacts ==
    ASSUME NEW b \in Line
    PROVE  Len(b) \in Nat /\ DOMAIN b = 1..Len(b) /\ \A i \in 1..Len(b) : b[i] \in Token
BY LenProperties, ElementOfSeq DEF Line

\* A part of a line, and its tokens.
LEMMA CutLine ==
    ASSUME NEW b \in Line, NEW i \in Nat \ {0}, NEW t \in Int, i - 1 <= t, t <= Len(b)
    PROVE  /\ SubSeq(b, i, t) \in Line
           /\ Len(SubSeq(b, i, t)) = t - i + 1
           /\ \A k \in 1..t-i+1 : SubSeq(b, i, t)[k] = b[i + k - 1]
<1>1. \A k \in i..t : b[k] \in Token
  <2> TAKE k \in i..t
  <2>1. k \in 1..Len(b)
    BY LineFacts
  <2> QED
    BY <2>1, LineFacts
<1>2. /\ SubSeq(b, i, t) \in Seq(Token)
      /\ Len(SubSeq(b, i, t)) = IF i <= t THEN t - i + 1 ELSE 0
      /\ \A k \in 1..t-i+1 : SubSeq(b, i, t)[k] = b[i + k - 1]
  BY <1>1, SubSeqProperties
<1> QED
  BY <1>2, LineIsSeq

\* Lines with the same tokens are the same.
LEMMA SameLine ==
    ASSUME NEW a \in Line, NEW b \in Line, Len(a) = Len(b), \A i \in 1..Len(a) : a[i] = b[i]
    PROVE  a = b
BY SeqEqual DEF Line

\* A part of two lines that agree up to its end.
LEMMA CutsSame ==
    ASSUME NEW b \in Line, NEW c \in Line, NEW i \in Nat \ {0}, NEW t \in Int, i - 1 <= t,
           t <= Len(b), t <= Len(c), \A k \in 1..t : b[k] = c[k]
    PROVE  SubSeq(b, i, t) = SubSeq(c, i, t)
<1> DEFINE x == SubSeq(b, i, t)
           y == SubSeq(c, i, t)
<1>1. x \in Line /\ Len(x) = t - i + 1 /\ \A k \in 1..t-i+1 : x[k] = b[i + k - 1]
  BY CutLine
<1>2. y \in Line /\ Len(y) = t - i + 1 /\ \A k \in 1..t-i+1 : y[k] = c[i + k - 1]
  BY CutLine
<1>3. \A k \in 1..t-i+1 : i + k - 1 \in 1..t
  OBVIOUS
<1> HIDE DEF x, y
<1>4. \A k \in 1..t-i+1 : x[k] = y[k]
  BY <1>1, <1>2, <1>3
<1>5. x = y
  BY <1>1, <1>2, <1>4, SameLine
<1> QED
  BY <1>5 DEF x, y

\* A part of a part is a part.
LEMMA CutOfCut ==
    ASSUME NEW b \in Line, NEW s \in Nat \ {0}, NEW t \in Int, s - 1 <= t, t <= Len(b),
           NEW k \in Nat \ {0}, NEW l \in Int, k - 1 <= l, l <= t - s + 1
    PROVE  SubSeq(SubSeq(b, s, t), k, l) = SubSeq(b, s + k - 1, s + l - 1)
<1> DEFINE x == SubSeq(b, s, t)
           y == SubSeq(x, k, l)
           z == SubSeq(b, s + k - 1, s + l - 1)
<1>1. Len(b) \in Nat
  BY LineFacts
<1>2. x \in Line /\ Len(x) = t - s + 1 /\ \A i \in 1..t-s+1 : x[i] = b[s + i - 1]
  BY CutLine
<1> HIDE DEF x
<1>3. y \in Line /\ Len(y) = l - k + 1 /\ \A i \in 1..l-k+1 : y[i] = x[k + i - 1]
  BY <1>2, CutLine
<1>4. z \in Line /\ Len(z) = l - k + 1 /\ \A i \in 1..l-k+1 : z[i] = b[s + k + i - 2]
  <2> DEFINE e == s + k - 1
             f == s + l - 1
  <2>1. e \in Nat \ {0} /\ f \in Int /\ e - 1 <= f /\ f <= Len(b) /\ f - e + 1 = l - k + 1
    BY <1>1
  <2>2. \A i \in 1..l-k+1 : e + i - 1 = s + k + i - 2
    OBVIOUS
  <2> HIDE DEF e, f
  <2>3. SubSeq(b, e, f) \in Line /\ Len(SubSeq(b, e, f)) = l - k + 1
        /\ \A i \in 1..l-k+1 : SubSeq(b, e, f)[i] = b[e + i - 1]
    BY <2>1, CutLine
  <2> QED
    BY <2>2, <2>3 DEF e, f
<1>5. ASSUME NEW i \in 1..l-k+1 PROVE y[i] = z[i]
  <2>1. k + i - 1 \in 1..t-s+1 /\ s + (k + i - 1) - 1 = s + k + i - 2
    OBVIOUS
  <2>2. x[k + i - 1] = b[s + k + i - 2]
    BY <1>2, <2>1
  <2> HIDE DEF y, z
  <2> QED
    BY <1>3, <1>4, <2>2
<1> HIDE DEF y, z
<1>6. y = z
  BY <1>3, <1>4, <1>5, SameLine
<1> QED
  BY <1>6 DEF x, y, z

\* The first m bytes.
LEMMA PrefixFacts ==
    ASSUME NEW B \in Line, NEW m \in 0..Len(B)
    PROVE  /\ SubSeq(B, 1, m) \in Line
           /\ Len(SubSeq(B, 1, m)) = m
           /\ \A k \in 1..m : SubSeq(B, 1, m)[k] = B[k]
<1> DEFINE b == SubSeq(B, 1, m)
<1>1. 1 \in Nat \ {0} /\ m \in Int /\ 1 - 1 <= m /\ m <= Len(B) /\ m - 1 + 1 = m
      /\ \A k \in 1..m : 1 + k - 1 = k
  BY LineFacts
<1>2. b \in Line /\ Len(b) = m - 1 + 1 /\ \A k \in 1..m-1+1 : b[k] = B[1 + k - 1]
  BY <1>1, CutLine
<1> HIDE DEF b
<1>3. b \in Line /\ Len(b) = m /\ \A k \in 1..m : b[k] = B[k]
  BY <1>1, <1>2
<1> QED
  BY <1>3 DEF b

\* A line is its own first part.
LEMMA WholeLine ==
    ASSUME NEW b \in Line
    PROVE  SubSeq(b, 1, Len(b)) = b
<1>1. Len(b) \in 0..Len(b)
  BY LineFacts
<1>2. SubSeq(b, 1, Len(b)) \in Line /\ Len(SubSeq(b, 1, Len(b))) = Len(b)
      /\ \A k \in 1..Len(b) : SubSeq(b, 1, Len(b))[k] = b[k]
  BY <1>1, PrefixFacts
<1> QED
  BY <1>2, SameLine

\* drainLines leaves a parser.
LEMMA DrainLinesType ==
    ASSUME NEW p \in Parser
    PROVE  DrainLines(p) \in Parser
<1>1. PICK r : IsDrain(r, p) /\ \A k \in 0..Len(p.lineBuf) : r[k] \in Parser
  BY DrainRuns
<1>2. Len(p.lineBuf) \in Nat
  BY LenProperties DEF Parser, Line
<1>3. Len(p.lineBuf) \in 0..Len(p.lineBuf)
  BY <1>2
<1> QED
  BY <1>1, <1>3, DrainIs

\* Feed leaves a parser.
LEMMA FeedType ==
    ASSUME NEW p \in Parser, NEW chunk \in Line
    PROVE  Feed(p, chunk) \in Parser
<1>1. p.lineBuf \o chunk \in Line
  BY ConcatProperties DEF Parser, Line
<1>2. [p EXCEPT !.lineBuf = @ \o chunk] \in Parser
  BY <1>1 DEF Parser
<1> QED
  BY <1>2, DrainLinesType DEF Feed

\* Flush leaves a parser.
LEMMA FlushType ==
    ASSUME NEW p \in Parser
    PROVE  Flush(p) \in Parser
<1> DEFINE q == DrainLines(p)
<1>1. q \in Parser
  BY DrainLinesType
<1>2. [q EXCEPT !.lineBuf = <<>>] \in Parser /\ TrimCR(q.lineBuf) \in Line
  BY <1>1, LineIsSeq, TrimCRType DEF Parser
<1> HIDE DEF q
<1>3. ProcessLine([q EXCEPT !.lineBuf = <<>>], TrimCR(q.lineBuf)) \in Parser
  BY <1>2, ProcessLineType
<1> QED
  BY <1>1, <1>3, FlushDataType DEF Flush, q

\* What processLine does does not depend on the buffer, nor the buffer on it.
LEMMA BufferAside ==
    ASSUME NEW p \in Parser, NEW line \in Line, NEW z \in Line
    PROVE  ProcessLine([p EXCEPT !.lineBuf = z], line) = [ProcessLine(p, line) EXCEPT !.lineBuf = z]
<1> DEFINE q == [p EXCEPT !.lineBuf = z]
           data == TrimSpace(SubSeq(line, 3, Len(line)))
<1>1. q \in Parser /\ q.pendingData = p.pendingData /\ q.events = p.events
  BY DEF Parser
<1>2. FlushData(q) = [FlushData(p) EXCEPT !.lineBuf = z]
  BY DEF FlushData, Emit, Parser
<1>3. Emit(q, DoneEvent) = [Emit(p, DoneEvent) EXCEPT !.lineBuf = z]
  BY DEF Emit, Parser
<1>4. [q EXCEPT !.pendingData = Append(@, data)]
          = [[p EXCEPT !.pendingData = Append(@, data)] EXCEPT !.lineBuf = z]
  BY DEF Parser
<1> HIDE DEF q, data
<1>5. CASE line = <<>>
  BY <1>2, <1>5 DEF ProcessLine, q
<1>6. CASE line # <<>> /\ ~IsPrefix(<<"da", "ta:">>, line)
  BY <1>6 DEF ProcessLine, q
<1>7. CASE line # <<>> /\ IsPrefix(<<"da", "ta:">>, line)
  BY <1>3, <1>4, <1>7 DEF ProcessLine, q, data
<1> QED
  BY <1>5, <1>6, <1>7

\* The parser p with the bytes b behind those it holds.
Tailed(p, b) == [p EXCEPT !.lineBuf = @ \o b]

\* What a parser with bytes behind it holds.
LEMMA TailedType ==
    ASSUME NEW p \in Parser, NEW b \in Line
    PROVE  /\ Tailed(p, b) \in Parser
           /\ Tailed(p, b).lineBuf = p.lineBuf \o b
           /\ p.lineBuf \in Line
<1>1. p.lineBuf \in Line
  BY DEF Parser
<1>2. p.lineBuf \o b \in Line
  BY <1>1, ConcatProperties DEF Line
<1> QED
  BY <1>1, <1>2 DEF Tailed, Parser

\* What the joined lines hold, and their parts.
LEMMA ConcatFacts ==
    ASSUME NEW a \in Line, NEW b \in Line
    PROVE  /\ a \o b \in Line
           /\ Len(a \o b) = Len(a) + Len(b)
           /\ \A k \in 1..Len(a) : (a \o b)[k] = a[k]
           /\ \A k \in 1..Len(b) : (a \o b)[Len(a) + k] = b[k]
<1>1. a \in Seq(Token) /\ b \in Seq(Token)
  BY DEF Line
<1>2. a \o b \in Seq(Token) /\ Len(a \o b) = Len(a) + Len(b)
  BY <1>1, ConcatProperties
<1>3. \A k \in 1..Len(a)+Len(b) : (a \o b)[k] = IF k <= Len(a) THEN a[k] ELSE b[k - Len(a)]
  BY ONLY <1>1, ConcatProperties
<1>4. Len(a) \in Nat /\ Len(b) \in Nat
  BY LineFacts
<1>5. ASSUME NEW k \in 1..Len(a) PROVE (a \o b)[k] = a[k]
  <2>1. k \in 1..Len(a)+Len(b) /\ k <= Len(a)
    BY <1>4
  <2> QED
    BY <1>3, <2>1
<1>6. ASSUME NEW k \in 1..Len(b) PROVE (a \o b)[Len(a) + k] = b[k]
  <2> DEFINE j == Len(a) + k
  <2>1. j \in 1..Len(a)+Len(b) /\ ~(j <= Len(a)) /\ j - Len(a) = k
    BY <1>4
  <2> HIDE DEF j
  <2>2. (a \o b)[j] = b[k]
    BY <1>3, <2>1
  <2> QED
    BY <2>2 DEF j
<1> QED
  BY <1>2, <1>5, <1>6 DEF Line

\* Bytes behind the first newline do not change the line it ends.
LEMMA DrainTailed ==
    ASSUME NEW p \in Parser, NEW b \in Line, Newline(p.lineBuf) # 0
    PROVE  DrainLine(Tailed(p, b)) = Tailed(DrainLine(p), b)
<1> DEFINE M == p.lineBuf
           N == M \o b
           i == Newline(M)
           j == Newline(N)
           n == Len(M)
<1>1. M \in Line /\ N \in Line /\ n \in Nat /\ Len(b) \in Nat /\ Len(N) = n + Len(b)
  BY TailedType, ConcatFacts, LineFacts
<1>2. (\A k \in 1..n : N[k] = M[k]) /\ \A k \in 1..Len(b) : N[n + k] = b[k]
  BY <1>1, ConcatFacts
<1> HIDE DEF M, N
<1>3. i \in 1..n /\ M[i] = "LF" /\ \A k \in 1..n : M[k] = "LF" => i <= k
  <2>1. i \in 0..n /\ (i # 0 => M[i] = "LF") /\ \A k \in 1..n : M[k] = "LF" => i <= k
    BY <1>1, FirstIs DEF Line
  <2>2. i # 0
    BY DEF M
  <2> HIDE DEF i
  <2> QED
    BY <1>1, <2>1, <2>2
<1>4. j \in 0..Len(N) /\ (j # 0 => N[j] = "LF") /\ \A k \in 1..Len(N) : N[k] = "LF" => j # 0 /\ j <= k
  BY <1>1, FirstIs DEF Line
<1> HIDE DEF i, j
<1>5. j = i
  <2>1. i \in 1..Len(N) /\ N[i] = "LF"
    BY <1>1, <1>2, <1>3
  <2>2. j # 0 /\ j <= i
    BY <1>4, <2>1
  <2>3. j \in 1..n /\ M[j] = "LF"
    BY <1>1, <1>2, <1>3, <1>4, <2>2
  <2> QED
    BY <1>3, <2>2, <2>3
<1>6. SubSeq(N, 1, i - 1) = SubSeq(M, 1, i - 1)
  <2> DEFINE t == i - 1
  <2>1. /\ 1 \in Nat \ {0} /\ t \in Int /\ 1 - 1 <= t /\ t <= Len(N) /\ t <= Len(M)
        /\ \A k \in 1..t : N[k] = M[k]
    BY <1>1, <1>2, <1>3
  <2> HIDE DEF t
  <2>2. SubSeq(N, 1, t) = SubSeq(M, 1, t)
    BY <1>1, <2>1, CutsSame
  <2> QED
    BY <2>2 DEF t
<1> DEFINE y == SubSeq(M, i + 1, n)
           z == SubSeq(N, i + 1, Len(N))
<1>7. y \in Line /\ z = y \o b
  <2> DEFINE s == i + 1
             l == Len(N)
  <2>1. /\ s \in Nat \ {0} /\ n \in Int /\ s - 1 <= n /\ n <= Len(M) /\ l \in Int
        /\ s - 1 <= l /\ l <= Len(N)
    BY <1>1, <1>3
  <2>2. y \in Line /\ Len(y) = n - s + 1 /\ \A k \in 1..n-s+1 : y[k] = M[s + k - 1]
    BY <1>1, <2>1, CutLine
  <2>3. z \in Line /\ Len(z) = l - s + 1 /\ \A k \in 1..l-s+1 : z[k] = N[s + k - 1]
    BY <1>1, <2>1, CutLine
  <2> HIDE DEF y, z
  <2>4. /\ y \o b \in Line /\ Len(y \o b) = Len(y) + Len(b)
        /\ \A k \in 1..Len(y) : (y \o b)[k] = y[k]
        /\ \A k \in 1..Len(b) : (y \o b)[Len(y) + k] = b[k]
    BY <2>2, ConcatFacts
  <2>5. Len(z) = Len(y \o b)
    BY <1>1, <1>3, <2>2, <2>3, <2>4
  <2>6. ASSUME NEW k \in 1..Len(z) PROVE z[k] = (y \o b)[k]
    <3>1. z[k] = N[s + k - 1]
      BY <2>3, <2>6
    <3>2. CASE k <= Len(y)
      <4>1. k \in 1..Len(y) /\ k \in 1..n-s+1 /\ s + k - 1 \in 1..n
        BY <1>1, <1>3, <2>2, <2>3, <3>2
      <4> QED
        BY <1>2, <2>2, <2>4, <3>1, <4>1
    <3>3. CASE ~(k <= Len(y))
      <4> DEFINE h == k - Len(y)
      <4>1. h \in 1..Len(b) /\ Len(y) + h = k /\ n + h = s + k - 1
        BY <1>1, <1>3, <2>2, <2>3, <3>3
      <4> HIDE DEF h
      <4> QED
        BY <1>2, <2>4, <3>1, <4>1
    <3> QED
      BY <3>2, <3>3
  <2>7. z = y \o b
    BY <2>3, <2>4, <2>5, <2>6, SameLine
  <2> QED
    BY <2>2, <2>7
<1> DEFINE line == TrimCR(SubSeq(M, 1, i - 1))
           q == [p EXCEPT !.lineBuf = y]
<1>8. line \in Line
  <2>1. 1 \in Nat \ {0} /\ i - 1 \in Int /\ 1 - 1 <= i - 1 /\ i - 1 <= Len(M)
    BY <1>1, <1>3
  <2>2. SubSeq(M, 1, i - 1) \in Line
    BY <1>1, <2>1, CutLine
  <2> QED
    BY <2>2, TrimCRType
<1>9. DrainLine(p) = ProcessLine(q, line)
  BY DEF DrainLine, M, i
<1>10. DrainLine(Tailed(p, b)) = ProcessLine([p EXCEPT !.lineBuf = z], line)
  <2>1. Tailed(p, b) = [p EXCEPT !.lineBuf = N]
    BY DEF Tailed, M, N, Parser
  <2>2. [p EXCEPT !.lineBuf = N].lineBuf = N
    BY DEF Parser
  <2>3. [[p EXCEPT !.lineBuf = N] EXCEPT !.lineBuf = z] = [p EXCEPT !.lineBuf = z]
    BY DEF Parser
  <2> DEFINE g == [p EXCEPT !.lineBuf = N]
  <2> HIDE DEF g, line
  <2>4. DrainLine(g) = ProcessLine([g EXCEPT !.lineBuf = SubSeq(g.lineBuf, Newline(g.lineBuf) + 1, Len(g.lineBuf))],
                                   TrimCR(SubSeq(g.lineBuf, 1, Newline(g.lineBuf) - 1)))
    BY DEF DrainLine
  <2> QED
    BY <1>5, <1>6, <2>1, <2>2, <2>3, <2>4 DEF g, j, line
<1> HIDE DEF y, z, line, q
<1>11. z \in Line
  <2>1. y \o b \in Line
    BY <1>7, ConcatFacts
  <2> QED
    BY <1>7, <2>1
<1>12. ProcessLine([p EXCEPT !.lineBuf = z], line) = [ProcessLine(p, line) EXCEPT !.lineBuf = z]
  BY <1>8, <1>11, BufferAside
<1>13. ProcessLine(q, line) = [ProcessLine(p, line) EXCEPT !.lineBuf = y]
  BY <1>7, <1>8, BufferAside DEF q
<1> DEFINE e == ProcessLine(p, line)
<1>14. e \in Parser
  BY <1>8, ProcessLineType
<1> HIDE DEF e
<1>15. Tailed([e EXCEPT !.lineBuf = y], b) = [e EXCEPT !.lineBuf = z]
  BY <1>7, <1>14 DEF Tailed, Parser
<1> QED
  BY <1>9, <1>10, <1>12, <1>13, <1>15 DEF e

\* The run from p has come to the last line begun in the first k bytes of its buffer.
LastLine(q, L, k) ==
    \E s \in 1..k+1 : q.lineBuf = SubSeq(L, s, Len(L)) /\ \A j \in s..k : L[j] # "LF"

\* One more byte of L, with the bytes b behind it or without them.
LEMMA LastLineStep ==
    ASSUME NEW L \in Line, NEW k \in 0..Len(L)-1, NEW q \in Parser, LastLine(q, L, k),
           NEW b \in Line
    PROVE  /\ LastLine(DrainStep(q, L[k + 1]), L, k + 1)
           /\ DrainStep(Tailed(q, b), L[k + 1]) = Tailed(DrainStep(q, L[k + 1]), b)
<1> DEFINE n == Len(L)
<1>1. n \in Nat /\ k \in Nat /\ k + 1 <= n
  BY LineFacts
<1>2. PICK s \in 1..k+1 : q.lineBuf = SubSeq(L, s, n) /\ \A j \in s..k : L[j] # "LF"
  BY DEF LastLine
<1>3. CASE L[k + 1] # "LF"
  <2>1. DrainStep(q, L[k + 1]) = q /\ DrainStep(Tailed(q, b), L[k + 1]) = Tailed(q, b)
    BY <1>3 DEF DrainStep
  <2>2. s \in 1..(k+1)+1 /\ \A j \in s..k+1 : L[j] # "LF"
    <3>1. \A j \in s..k+1 : j \in s..k \/ j = k + 1
      BY <1>1
    <3>2. s \in 1..(k+1)+1
      BY <1>1
    <3> QED
      BY <1>2, <1>3, <3>1, <3>2
  <2>3. LastLine(q, L, k + 1)
    BY <1>2, <2>2 DEF LastLine
  <2> QED
    BY <2>1, <2>3
<1>4. CASE L[k + 1] = "LF"
  <2> DEFINE M == q.lineBuf
             i == Newline(M)
             h == k + 2 - s
  <2>1. s \in Nat \ {0} /\ n \in Int /\ s - 1 <= n /\ n <= Len(L)
    BY <1>1, <1>2
  <2>2. M \in Line /\ Len(M) = n - s + 1 /\ \A j \in 1..n-s+1 : M[j] = L[s + j - 1]
    BY <1>2, <2>1, CutLine
  <2> HIDE DEF M
  <2>3. i \in 0..Len(M) /\ (i # 0 => M[i] = "LF") /\ \A j \in 1..Len(M) : M[j] = "LF" => i # 0 /\ i <= j
    BY <2>2, FirstIs DEF Line
  <2> HIDE DEF i
  <2>4. h \in 1..Len(M) /\ h \in 1..n-s+1 /\ s + h - 1 = k + 1
    BY <1>1, <1>2, <2>1, <2>2
  <2> HIDE DEF h
  <2>5. i # 0 /\ i <= h
    BY <1>4, <2>2, <2>3, <2>4
  <2>6. i = h
    <3>1. CASE i < h
      <4> DEFINE j == s + i - 1
      <4>1. i \in 1..n-s+1 /\ j \in s..k
        BY <1>1, <2>1, <2>2, <2>3, <2>4, <2>5, <3>1
      <4>2. L[j] = "LF"
        BY <2>2, <2>3, <2>5, <4>1
      <4> QED
        BY <1>2, <4>1, <4>2
    <3> QED
      BY <2>3, <2>4, <2>5, <3>1
  <2>7. DrainLine(Tailed(q, b)) = Tailed(DrainLine(q), b)
    BY <2>5, DrainTailed DEF i, M
  <2>8. DrainLine(q).lineBuf = SubSeq(M, i + 1, Len(M))
    BY DrainLineType DEF i, M
  <2>9. SubSeq(M, i + 1, Len(M)) = SubSeq(L, k + 2, n)
    <3> DEFINE x == i + 1
               y == Len(M)
    <3>1. /\ x \in Nat \ {0} /\ y \in Int /\ x - 1 <= y /\ y <= n - s + 1
          /\ s + x - 1 = k + 2 /\ s + y - 1 = n
      BY <1>1, <2>1, <2>2, <2>4, <2>6
    <3> HIDE DEF x, y
    <3>2. SubSeq(SubSeq(L, s, n), x, y) = SubSeq(L, s + x - 1, s + y - 1)
      BY <2>1, <3>1, CutOfCut
    <3> QED
      BY <1>2, <3>1, <3>2 DEF x, y, M
  <2>10. LastLine(DrainLine(q), L, k + 1)
    <3>1. k + 2 \in 1..(k+1)+1 /\ \A j \in k+2..k+1 : FALSE
      BY <1>1
    <3> QED
      BY <2>8, <2>9, <3>1 DEF LastLine
  <2> QED
    BY <1>4, <2>7, <2>10 DEF DrainStep
<1> QED
  BY <1>3, <1>4

\* A loop over bytes without a newline does nothing.
LEMMA DrainPlain ==
    ASSUME NEW x \in Nat, NEW y \in Nat, x <= y, NEW r, NEW L,
           \A k \in 0..y-1 : r[k + 1] = DrainStep(r[k], L[k + 1]),
           \A k \in 1..x : L[k] # "LF"
    PROVE  r[x] = r[0]
<1> DEFINE T == {k \in 0..x : r[k] = r[0]}
<1>1. 0 \in T
  OBVIOUS
<1>2. ASSUME NEW k \in 0..x-1, k \in T PROVE k + 1 \in T
  <2>1. k \in 0..y-1 /\ k + 1 \in 1..x /\ k + 1 \in 0..x
    OBVIOUS
  <2>2. r[k + 1] = r[k]
    BY <2>1 DEF DrainStep
  <2> QED
    BY <1>2, <2>1, <2>2
<1>3. \A k \in 0..x-1 : k \in T => k + 1 \in T
  BY <1>2
<1>4. x \in Nat /\ x \in 0..x
  OBVIOUS
<1> HIDE DEF T
<1>5. \A k \in 0..x : k \in T
  BY ONLY <1>1, <1>3, <1>4, UpTo
<1> QED
  BY <1>4, <1>5 DEF T

\* Draining what is left with b behind it is draining it all at once.
LEMMA DrainTwice ==
    ASSUME NEW p \in Parser, NEW b \in Line
    PROVE  DrainLines(Tailed(DrainLines(p), b)) = DrainLines(Tailed(p, b))
<1> DEFINE L == p.lineBuf
           n == Len(L)
           m == Len(b)
           P3 == Tailed(p, b)
           L3 == P3.lineBuf
           q == DrainLines(p)
           P2 == Tailed(q, b)
           L2 == P2.lineBuf
           M == q.lineBuf
           l == Len(M)
<1>1. P3 \in Parser /\ L3 = L \o b /\ L \in Line /\ n \in Nat /\ m \in Nat
  BY TailedType, LineFacts
<1>2. q \in Parser /\ P2 \in Parser /\ L2 = M \o b /\ M \in Line /\ l \in Nat
  BY TailedType, DrainLinesType, LineFacts
<1>3. /\ L3 \in Line /\ Len(L3) = n + m
      /\ (\A k \in 1..n : L3[k] = L[k]) /\ \A k \in 1..m : L3[n + k] = b[k]
  BY <1>1, ConcatFacts
<1>4. /\ L2 \in Line /\ Len(L2) = l + m
      /\ (\A k \in 1..l : L2[k] = M[k]) /\ \A k \in 1..m : L2[l + k] = b[k]
  BY <1>2, ConcatFacts
<1>5. PICK r : IsDrain(r, p) /\ \A k \in 0..Len(p.lineBuf) : r[k] \in Parser
  BY DrainRuns
<1>6. PICK r2 : IsDrain(r2, P2) /\ \A k \in 0..Len(P2.lineBuf) : r2[k] \in Parser
  BY <1>2, DrainRuns
<1>7. PICK r3 : IsDrain(r3, P3) /\ \A k \in 0..Len(P3.lineBuf) : r3[k] \in Parser
  BY <1>1, DrainRuns
<1>8. /\ r[0] = p /\ (\A k \in 0..n-1 : r[k + 1] = DrainStep(r[k], L[k + 1]))
      /\ (\A k \in 0..n : r[k] \in Parser) /\ q = r[n]
  BY <1>5, DrainIs DEF IsDrain
<1>9. /\ r2[0] = P2 /\ (\A k \in 0..(l+m)-1 : r2[k + 1] = DrainStep(r2[k], L2[k + 1]))
      /\ DrainLines(P2) = r2[l + m]
  BY <1>2, <1>4, <1>6, DrainIs DEF IsDrain
<1>10. /\ r3[0] = P3 /\ (\A k \in 0..(n+m)-1 : r3[k + 1] = DrainStep(r3[k], L3[k + 1]))
       /\ DrainLines(P3) = r3[n + m]
  BY <1>1, <1>3, <1>7, DrainIs DEF IsDrain
<1> HIDE DEF L, P3, L3, q, P2, L2, M, n, m, l
<1>11. LastLine(q, L, n) /\ r3[n] = P2
  <2> DEFINE T == {k \in 0..n : LastLine(r[k], L, k) /\ r3[k] = Tailed(r[k], b)}
  <2>1. 0 \in T
    <3>1. 0 \in 0..n /\ 1 \in 1..0+1 /\ \A j \in 1..0 : FALSE
      BY <1>1
    <3>2. p.lineBuf = SubSeq(L, 1, Len(L))
      BY <1>1, WholeLine DEF L
    <3>3. LastLine(r[0], L, 0)
      BY <1>8, <3>1, <3>2 DEF LastLine
    <3> QED
      BY <1>8, <1>10, <3>1, <3>3 DEF P3
  <2>2. ASSUME NEW k \in 0..n-1, k \in T PROVE k + 1 \in T
    <3>1. k \in 0..n /\ k + 1 \in 0..n /\ k + 1 \in 1..n /\ k \in 0..(n+m)-1 /\ k \in 0..Len(L)-1
      BY <1>1 DEF n
    <3>2. L3[k + 1] = L[k + 1]
      BY <1>3, <3>1
    <3>3. /\ LastLine(DrainStep(r[k], L[k + 1]), L, k + 1)
          /\ DrainStep(Tailed(r[k], b), L[k + 1]) = Tailed(DrainStep(r[k], L[k + 1]), b)
      BY <1>1, <1>8, <2>2, <3>1, LastLineStep
    <3>4. LastLine(r[k + 1], L, k + 1) /\ r3[k + 1] = Tailed(r[k + 1], b)
      BY <1>8, <1>10, <2>2, <3>1, <3>2, <3>3
    <3> QED
      BY <3>1, <3>4
  <2>3. \A k \in 0..n-1 : k \in T => k + 1 \in T
    BY <2>2
  <2>4. n \in Nat /\ n \in 0..n
    BY <1>1
  <2> HIDE DEF T
  <2>5. \A k \in 0..n : k \in T
    BY ONLY <2>1, <2>3, <2>4, UpTo
  <2>6. n \in T
    BY <2>4, <2>5
  <2> QED
    BY <1>8, <2>6 DEF T, P2
<1>12. \A k \in 1..l : L2[k] # "LF"
  <2>1. PICK s \in 1..n+1 : M = SubSeq(L, s, n) /\ \A j \in s..n : L[j] # "LF"
    BY <1>11 DEF LastLine, M, n
  <2>2. s \in Nat \ {0} /\ n \in Int /\ s - 1 <= n /\ n <= Len(L)
    BY <1>1, <2>1 DEF n
  <2>3. Len(M) = n - s + 1 /\ \A j \in 1..n-s+1 : M[j] = L[s + j - 1]
    BY <1>1, <2>1, <2>2, CutLine
  <2>4. ASSUME NEW k \in 1..l PROVE M[k] # "LF"
    <3>1. k \in 1..n-s+1 /\ s + k - 1 \in s..n
      BY <1>1, <2>2, <2>3 DEF l
    <3> QED
      BY <2>1, <2>3, <3>1
  <2> QED
    BY <1>4, <2>4
<1>13. r2[l] = P2
  <2>1. l \in Nat /\ l + m \in Nat /\ l <= l + m
    BY <1>1, <1>2
  <2>2. \A k \in 0..(l+m)-1 : r2[k + 1] = DrainStep(r2[k], L2[k + 1])
    BY <1>9
  <2>3. r2[l] = r2[0]
    BY <1>12, <2>1, <2>2, DrainPlain
  <2> QED
    BY <1>9, <2>3
<1>14. r3[n + m] = r2[l + m]
  <2> DEFINE T == {k \in 0..m : r3[n + k] = r2[l + k]}
  <2>1. 0 \in T
    <3>1. 0 \in 0..m /\ n + 0 = n /\ l + 0 = l
      BY <1>1, <1>2
    <3> QED
      BY <1>11, <1>13, <3>1
  <2>2. ASSUME NEW k \in 0..m-1, k \in T PROVE k + 1 \in T
    <3> DEFINE x == n + k
               y == l + k
    <3>1. /\ k + 1 \in 0..m /\ k + 1 \in 1..m /\ x \in 0..(n+m)-1 /\ y \in 0..(l+m)-1
          /\ n + (k + 1) = x + 1 /\ l + (k + 1) = y + 1
      BY <1>1, <1>2
    <3>2. r3[x] = r2[y]
      BY <2>2
    <3> HIDE DEF x, y
    <3>3. L3[x + 1] = b[k + 1] /\ L2[y + 1] = b[k + 1]
      BY <1>3, <1>4, <3>1
    <3>4. r3[x + 1] = DrainStep(r3[x], L3[x + 1]) /\ r2[y + 1] = DrainStep(r2[y], L2[y + 1])
      BY <1>9, <1>10, <3>1
    <3>5. r3[x + 1] = r2[y + 1]
      BY <3>2, <3>3, <3>4
    <3> QED
      BY <3>1, <3>5
  <2>3. \A k \in 0..m-1 : k \in T => k + 1 \in T
    BY <2>2
  <2>4. m \in Nat /\ m \in 0..m
    BY <1>1
  <2> HIDE DEF T
  <2>5. \A k \in 0..m : k \in T
    BY ONLY <2>1, <2>3, <2>4, UpTo
  <2>6. m \in T
    BY <2>4, <2>5
  <2> QED
    BY <2>6 DEF T
<1> QED
  BY <1>9, <1>10, <1>14 DEF P2, P3, q

\* Two chunks fed one after the other are one chunk: the same events in the same order, and
\* the same line and data held back, wherever the cut falls.
THEOREM ChunksAreOne ==
    ASSUME NEW p \in Parser, NEW a \in Line, NEW b \in Line
    PROVE  Feed(Feed(p, a), b) = Feed(p, a \o b)
<1>1. p.lineBuf \in Line /\ Tailed(p, a) \in Parser
  BY TailedType
<1>2. Feed(p, a) = DrainLines(Tailed(p, a)) /\ Feed(p, a \o b) = DrainLines(Tailed(p, a \o b))
  BY DEF Feed, Tailed
<1>3. Feed(Feed(p, a), b) = DrainLines(Tailed(DrainLines(Tailed(p, a)), b))
  BY <1>2 DEF Feed, Tailed
<1>4. Tailed(Tailed(p, a), b) = Tailed(p, a \o b)
  <2>1. (p.lineBuf \o a) \o b = p.lineBuf \o (a \o b)
    BY <1>1, ConcatLines
  <2> QED
    BY <1>1, <2>1 DEF Tailed, Parser
<1>5. DrainLines(Tailed(DrainLines(Tailed(p, a)), b)) = DrainLines(Tailed(Tailed(p, a), b))
  BY <1>1, DrainTwice
<1> QED
  BY <1>2, <1>3, <1>4, <1>5
=============================================================================
