--------------------------- MODULE RateLimiterProofs ---------------------------
(***************************************************************************)
(* That the limiter admits no more than it should, and refuses no less,    *)
(* for every limit, window, set of requests and order of the lock.         *)
(***************************************************************************)
EXTENDS RateLimiter, FiniteSetTheorems, TLAPS

Verdict == {"none", "stamped", "admitted", "refused", "lost"}

LimiterType ==
    /\ now \in Nat
    /\ verdict \in [Request -> Verdict]
    /\ stamp \in [Request -> Nat]
    /\ locked \in [Request -> Nat]
    /\ hits \in [Client -> SUBSET Request]

\* No time is of the future.
TimesPast == \A q \in Request : stamp[q] <= now /\ locked[q] <= now

\* The window of a client holds admitted requests of the client.
HitsAdmitted == \A k \in Client : hits[k] \subseteq Admitted(k)

\* It holds every one of them whose stamp is recent.
RecentHit ==
    \A q \in Request :
        verdict[q] = "admitted" /\ stamp[q] > now - Window => q \in hits[ClientOf[q]]

HitsBounded == \A k \in Client : Cardinality(hits[k]) <= Limit

\* The sets the two properties count.
InSpan(k, s) == {r \in Admitted(k) : stamp[r] > s /\ locked[r] <= s + Window}
Excuse(r) ==
    {q \in Admitted(ClientOf[r]) : stamp[q] > stamp[r] - Window /\ locked[q] <= locked[r]}

SpansBounded == \A k \in Client, s \in Int : Cardinality(InSpan(k, s)) <= Limit
Excused == \A r \in Request : verdict[r] = "refused" => Cardinality(Excuse(r)) >= Limit

LimiterInv ==
    /\ LimiterType
    /\ TimesPast
    /\ HitsAdmitted
    /\ RecentHit
    /\ HitsBounded
    /\ SpansBounded
    /\ Excused

-----------------------------------------------------------------------------
(* Counting subsets of Request *)

LEMMA Countable ==
    ASSUME NEW T \in SUBSET Request
    PROVE  IsFiniteSet(T) /\ Cardinality(T) \in Nat
  BY FS_Subset, FS_CardinalityType, LimiterAssumption

LEMMA CountGrows ==
    ASSUME NEW T \in SUBSET Request, NEW S \in SUBSET T
    PROVE  Cardinality(S) <= Cardinality(T)
  BY Countable, FS_Subset

LEMMA CountOfOneMore ==
    ASSUME NEW S \in SUBSET Request, NEW r \in Request
    PROVE  Cardinality(S \cup {r}) <= Cardinality(S) + 1
  BY Countable, FS_AddElement

LEMMA AdmittedRequests ==
    /\ \A k : Admitted(k) \subseteq Request
    /\ \A k, s : InSpan(k, s) \subseteq Request
    /\ \A r : Excuse(r) \subseteq Request
  BY DEF Admitted, InSpan, Excuse

LEMMA ClientsOfRequests == \A r \in Request : ClientOf[r] \in Client
  BY DEF Client

-----------------------------------------------------------------------------
LEMMA LimiterInvInit == LimiterInit => LimiterInv
  <1> SUFFICES ASSUME LimiterInit PROVE LimiterInv
    OBVIOUS
  <1> USE LimiterAssumption DEF LimiterInit
  <1>1. LimiterType
    BY DEF LimiterType, Verdict
  <1>2. TimesPast
    BY DEF TimesPast
  <1>3. \A k : Admitted(k) = {}
    BY DEF Admitted
  <1>4. HitsAdmitted /\ RecentHit
    BY DEF HitsAdmitted, RecentHit
  <1>5. HitsBounded
    BY FS_EmptySet DEF HitsBounded
  <1>6. SpansBounded
    BY <1>3, FS_EmptySet DEF SpansBounded, InSpan
  <1>7. Excused
    BY DEF Excused
  <1>8. QED
    BY <1>1, <1>2, <1>4, <1>5, <1>6, <1>7 DEF LimiterInv

LEMMA ArriveKeeps ==
    ASSUME LimiterInv, NEW r \in Request, Arrive(r)
    PROVE  LimiterInv'
  <1> USE LimiterAssumption DEF LimiterInv
  <1>1. LimiterType'
    BY DEF Arrive, LimiterType, Verdict
  <1>2. TimesPast'
    BY DEF Arrive, LimiterType, TimesPast
  <1>3. \A q \in Request : /\ (verdict'[q] = "admitted") <=> (verdict[q] = "admitted")
                           /\ (verdict'[q] = "refused") <=> (verdict[q] = "refused")
                           /\ verdict[q] # "none" => stamp'[q] = stamp[q]
                           /\ locked'[q] = locked[q]
    BY DEF Arrive, LimiterType
  <1>4. \A k : Admitted(k)' = Admitted(k)
    BY <1>3 DEF Admitted
  <1>5. HitsAdmitted'
    BY <1>4 DEF HitsAdmitted, Arrive
  <1>6. RecentHit'
    BY <1>3 DEF RecentHit, Arrive
  <1>7. HitsBounded'
    BY DEF HitsBounded, Arrive
  <1>8. \A k, s : InSpan(k, s)' = InSpan(k, s)
    BY <1>3, <1>4 DEF InSpan, Admitted
  <1>9. SpansBounded'
    BY <1>8 DEF SpansBounded
  <1>10. \A q \in Request : verdict[q] = "refused" => Excuse(q)' = Excuse(q)
    BY <1>3, <1>4 DEF Excuse, Admitted
  <1>11. Excused'
    BY <1>3, <1>10 DEF Excused
  <1>12. QED
    BY <1>1, <1>2, <1>5, <1>6, <1>7, <1>9, <1>11

\* What the filter keeps, and what it drops.
LEMMA KeptFacts ==
    ASSUME LimiterInv, NEW r \in Request
    PROVE  /\ Kept(r) \subseteq hits[ClientOf[r]]
           /\ Kept(r) \subseteq Admitted(ClientOf[r])
           /\ Cardinality(Kept(r)) \in Nat
           /\ Cardinality(Kept(r)) <= Limit
           /\ \A q \in hits[ClientOf[r]] : stamp[q] > now - Window => q \in Kept(r)
  <1> USE ClientsOfRequests DEF LimiterInv
  <1>1. Kept(r) \subseteq hits[ClientOf[r]] /\ hits[ClientOf[r]] \subseteq Request
    BY DEF Kept, LimiterType
  <1>2. Kept(r) \subseteq Admitted(ClientOf[r])
    BY <1>1 DEF HitsAdmitted
  <1>3. Cardinality(Kept(r)) \in Nat /\ Cardinality(hits[ClientOf[r]]) \in Nat
    BY <1>1, Countable
  <1>4. Cardinality(Kept(r)) <= Cardinality(hits[ClientOf[r]])
    BY <1>1, CountGrows
  <1>5. Cardinality(Kept(r)) <= Limit
    BY <1>3, <1>4, LimiterAssumption DEF HitsBounded
  <1>6. \A q \in hits[ClientOf[r]] : stamp[q] > now - Window => q \in Kept(r)
    BY <1>1, LimiterAssumption DEF Kept, LimiterType, TimesPast
  <1>7. QED
    BY <1>1, <1>2, <1>3, <1>5, <1>6

LEMMA DecideKeeps ==
    ASSUME LimiterInv, NEW r \in Request, Decide(r)
    PROVE  LimiterInv'
  <1> DEFINE k == ClientOf[r]
             room == Cardinality(Kept(r)) < Limit
  <1> USE LimiterAssumption, ClientsOfRequests
  <1>0. /\ LimiterType /\ TimesPast /\ HitsAdmitted /\ RecentHit /\ HitsBounded
        /\ SpansBounded /\ Excused
    BY DEF LimiterInv
  <1>k. /\ Kept(r) \subseteq hits[k] /\ Kept(r) \subseteq Admitted(k) /\ Kept(r) \subseteq Request
        /\ Cardinality(Kept(r)) \in Nat /\ Cardinality(Kept(r)) <= Limit
        /\ \A q \in hits[k] : stamp[q] > now - Window => q \in Kept(r)
    BY KeptFacts, AdmittedRequests
  <1>1. /\ verdict[r] = "stamped" /\ now' = now /\ stamp' = stamp
        /\ hits' = [hits EXCEPT ![k] = IF room THEN Kept(r) \cup {r} ELSE Kept(r)]
        /\ verdict' = [verdict EXCEPT ![r] = IF room THEN "admitted" ELSE "refused"]
        /\ locked' = [locked EXCEPT ![r] = now]
    BY DEF Decide
  <1>2. LimiterType'
    BY <1>0, <1>k, <1>1 DEF LimiterType, Verdict
  <1>3. TimesPast'
    BY <1>0, <1>1 DEF LimiterType, TimesPast
  <1>4. /\ \A q \in Request \ {r} : verdict'[q] = verdict[q] /\ locked'[q] = locked[q]
        /\ verdict'[r] = (IF room THEN "admitted" ELSE "refused") /\ locked'[r] = now
    BY <1>0, <1>1 DEF LimiterType
  <1>5. \A j \in Client : Admitted(j) \subseteq Admitted(j)' /\ Admitted(j)' \subseteq Admitted(j) \cup {r}
    BY <1>1, <1>4 DEF Admitted
  <1>6. room => r \in Admitted(k)'
    BY <1>4 DEF Admitted
  <1>7. /\ hits'[k] = IF room THEN Kept(r) \cup {r} ELSE Kept(r)
        /\ \A j \in Client \ {k} : hits'[j] = hits[j]
    BY <1>0, <1>1 DEF LimiterType
  <1>8. HitsAdmitted'
    BY <1>0, <1>k, <1>5, <1>6, <1>7 DEF HitsAdmitted
  <1>9. RecentHit'
    <2> SUFFICES ASSUME NEW q \in Request, verdict'[q] = "admitted", stamp[q] > now - Window
                 PROVE  q \in hits'[ClientOf[q]]
      BY <1>1 DEF RecentHit
    <2>1. CASE q = r
      BY <2>1, <1>4, <1>7
    <2>2. CASE q # r
      <3>1. q \in hits[ClientOf[q]]
        BY <2>2, <1>0, <1>4 DEF RecentHit
      <3>2. QED
        BY <3>1, <1>k, <1>7
    <2>3. QED
      BY <2>1, <2>2
  <1>10. HitsBounded'
    <2>1. room => Cardinality(Kept(r) \cup {r}) <= Limit
      <3>1. Cardinality(Kept(r) \cup {r}) <= Cardinality(Kept(r)) + 1
        BY <1>k, CountOfOneMore
      <3>2. Cardinality(Kept(r) \cup {r}) \in Nat
        BY <1>k, Countable
      <3>3. QED
        BY <1>k, <3>1, <3>2
    <2>2. QED
      BY <2>1, <1>0, <1>k, <1>7 DEF HitsBounded
  <1>11. SpansBounded'
    <2> SUFFICES ASSUME NEW j \in Client, NEW s \in Int
                 PROVE  Cardinality(InSpan(j, s)') <= Limit
      BY DEF SpansBounded
    <2>1. InSpan(j, s)' \subseteq InSpan(j, s) \cup {r}
      BY <1>1, <1>4, <1>5 DEF InSpan
    <2>2. CASE r \notin InSpan(j, s)'
      <3>1. InSpan(j, s)' \subseteq InSpan(j, s)
        BY <2>1, <2>2
      <3>2. Cardinality(InSpan(j, s)') <= Cardinality(InSpan(j, s))
        BY <3>1, AdmittedRequests, CountGrows
      <3>3. Cardinality(InSpan(j, s)') \in Nat /\ Cardinality(InSpan(j, s)) \in Nat
        BY <3>1, AdmittedRequests, Countable
      <3>4. Cardinality(InSpan(j, s)) <= Limit
        BY <1>0 DEF SpansBounded
      <3>5. QED
        BY <3>2, <3>3, <3>4
    <2>3. CASE r \in InSpan(j, s)'
      <3>1. j = k /\ now <= s + Window
        BY <2>3, <1>1, <1>4 DEF InSpan, Admitted
      <3>2. ASSUME NEW q \in InSpan(j, s)' PROVE q \in hits'[j]
        <4>1. q \in Request /\ verdict'[q] = "admitted" /\ ClientOf[q] = j /\ stamp'[q] > s
          BY <3>2 DEF InSpan, Admitted
        <4>2. stamp'[q] \in Nat
          BY <4>1, <1>2 DEF LimiterType
        <4>3. now' = now /\ now \in Nat
          BY <1>0, <1>1 DEF LimiterType
        <4>4. stamp'[q] > now' - Window
          BY <3>1, <4>1, <4>2, <4>3
        <4>5. QED
          BY <4>1, <4>4, <1>9 DEF RecentHit
      <3>3. hits'[j] \subseteq Request
        BY <1>2 DEF LimiterType
      <3>4. /\ Cardinality(InSpan(j, s)') <= Cardinality(hits'[j])
            /\ Cardinality(InSpan(j, s)') \in Nat /\ Cardinality(hits'[j]) \in Nat
        BY <3>2, <3>3, CountGrows, Countable
      <3>5. Cardinality(hits'[j]) <= Limit
        BY <1>10 DEF HitsBounded
      <3>6. QED
        BY <3>4, <3>5
    <2>4. QED
      BY <2>2, <2>3
  <1>12. Excused'
    <2> SUFFICES ASSUME NEW q \in Request, verdict'[q] = "refused"
                 PROVE  Cardinality(Excuse(q)') >= Limit
      BY DEF Excused
    <2>0. Excuse(q)' \subseteq Request
      BY DEF Excuse, Admitted
    <2>1. CASE q = r
      <3>1. ~room
        BY <2>1, <1>4
      <3>2. Kept(r) \subseteq Excuse(q)'
        <4> SUFFICES ASSUME NEW p \in Kept(r) PROVE p \in Excuse(q)'
          OBVIOUS
        <4>1. p \in Admitted(k) /\ p \in Request /\ verdict[p] = "admitted" /\ p # r
          BY <1>k, <1>1 DEF Admitted
        <4>2. locked'[p] <= locked'[r]
          BY <4>1, <1>0, <1>4 DEF TimesPast
        <4>3. stamp'[p] > stamp'[r] - Window
          BY <1>1 DEF Kept
        <4>4. p \in Admitted(k)'
          BY <4>1, <1>5
        <4>5. QED
          BY <2>1, <4>2, <4>3, <4>4 DEF Excuse
      <3>3. Cardinality(Kept(r)) <= Cardinality(Excuse(q)') /\ Cardinality(Excuse(q)') \in Nat
        BY <3>2, <2>0, CountGrows, Countable
      <3>4. QED
        BY <3>1, <3>3, <1>k
    <2>2. CASE q # r
      <3>1. Excuse(q) \subseteq Excuse(q)'
        <4> SUFFICES ASSUME NEW p \in Excuse(q) PROVE p \in Excuse(q)'
          OBVIOUS
        <4>1. p \in Admitted(ClientOf[q]) /\ p \in Request /\ p # r
          BY <1>1 DEF Excuse, Admitted
        <4>2. p \in Admitted(ClientOf[q])'
          BY <4>1, <1>5
        <4>3. locked'[p] = locked[p] /\ locked'[q] = locked[q]
          BY <4>1, <2>2, <1>4
        <4>4. QED
          BY <4>2, <4>3, <1>1 DEF Excuse
      <3>2. /\ Cardinality(Excuse(q)) <= Cardinality(Excuse(q)')
            /\ Cardinality(Excuse(q)') \in Nat /\ Cardinality(Excuse(q)) \in Nat
        BY <3>1, <2>0, AdmittedRequests, CountGrows, Countable
      <3>3. Cardinality(Excuse(q)) >= Limit
        BY <2>2, <1>0, <1>4 DEF Excused
      <3>4. QED
        BY <3>2, <3>3
    <2>3. QED
      BY <2>1, <2>2
  <1>13. QED
    BY <1>2, <1>3, <1>8, <1>9, <1>10, <1>11, <1>12 DEF LimiterInv

LEMMA LimiterRestartKeeps ==
    ASSUME LimiterInv, LimiterRestart
    PROVE  LimiterInv'
  <1> USE LimiterAssumption DEF LimiterInv
  <1>1. LimiterType'
    BY DEF LimiterRestart, LimiterType, Verdict
  <1>2. TimesPast'
    BY DEF LimiterRestart, TimesPast
  <1>3. \A q \in Request : verdict'[q] \in {"none", "lost"}
    BY DEF LimiterRestart
  <1>4. \A j : Admitted(j)' = {}
    BY <1>3 DEF Admitted
  <1>5. HitsAdmitted' /\ RecentHit'
    BY <1>3 DEF HitsAdmitted, RecentHit, LimiterRestart
  <1>6. HitsBounded'
    BY FS_EmptySet DEF HitsBounded, LimiterRestart
  <1>7. SpansBounded'
    <2>1. \A j, s : InSpan(j, s)' = {}
      BY <1>4 DEF InSpan
    <2>2. Cardinality({}) = 0 /\ 0 <= Limit
      BY FS_EmptySet
    <2> QED
      BY <2>1, <2>2 DEF SpansBounded
  <1>8. Excused'
    BY <1>3 DEF Excused
  <1>9. QED
    BY <1>1, <1>2, <1>5, <1>6, <1>7, <1>8

LEMMA TickKeeps ==
    ASSUME LimiterInv, Tick
    PROVE  LimiterInv'
  <1> USE LimiterAssumption DEF LimiterInv
  <1>1. now \in Nat /\ now' = now + 1 /\ UNCHANGED <<verdict, stamp, locked, hits>>
    BY DEF Tick, LimiterType
  <1>2. LimiterType'
    BY <1>1 DEF LimiterType
  <1>3. TimesPast'
    BY <1>1 DEF TimesPast, LimiterType
  <1>4. HitsAdmitted' /\ HitsBounded' /\ SpansBounded' /\ Excused'
    BY <1>1 DEF HitsAdmitted, HitsBounded, SpansBounded, Excused, Admitted, InSpan, Excuse
  <1>5. RecentHit'
    BY <1>1 DEF RecentHit, LimiterType
  <1>6. QED
    BY <1>2, <1>3, <1>4, <1>5

LEMMA LimiterIdleKeeps ==
    ASSUME LimiterInv, UNCHANGED limiterVars
    PROVE  LimiterInv'
  BY DEF LimiterInv, limiterVars, LimiterType, TimesPast, HitsAdmitted, RecentHit, HitsBounded,
         SpansBounded, Excused, Admitted, InSpan, Excuse

LEMMA LimiterInvStep == LimiterInv /\ [LimiterNext]_limiterVars => LimiterInv'
  BY ArriveKeeps, DecideKeeps, LimiterRestartKeeps, TickKeeps, LimiterIdleKeeps DEF LimiterNext

-----------------------------------------------------------------------------
LEMMA LimiterInvImplies == LimiterInv => WithinLimit /\ RefusedAtLimit
  <1> SUFFICES ASSUME LimiterInv PROVE WithinLimit /\ RefusedAtLimit
    OBVIOUS
  <1>1. WithinLimit
    <2>1. \A s \in -Window..MaxTime : s \in Int
      BY LimiterAssumption
    <2>2. QED
      BY <2>1 DEF LimiterInv, SpansBounded, InSpan, WithinLimit
  <1>2. RefusedAtLimit
    BY DEF LimiterInv, Excused, Excuse, RefusedAtLimit
  <1>3. QED
    BY <1>1, <1>2

\* The limiter alone: in any span as long as the window, of the requests of one
\* client that came and were decided in it, no more than the limit are admitted,
\* in whatever order they had the lock (allow).
THEOREM LimiterIsSafe == LimiterSpec => []WithinLimit
  <1>1. LimiterSpec => []LimiterInv
    BY LimiterInvInit, LimiterInvStep, PTL DEF LimiterSpec
  <1>2. QED
    BY <1>1, LimiterInvImplies, PTL

\* The limiter alone: whoever is refused is refused for as many admitted before
\* it as the limit, none older than the window (allow's filter and its early
\* return, which records nothing).
THEOREM LimiterIsFair == LimiterSpec => []RefusedAtLimit
  <1>1. LimiterSpec => []LimiterInv
    BY LimiterInvInit, LimiterInvStep, PTL DEF LimiterSpec
  <1>2. QED
    BY <1>1, LimiterInvImplies, PTL
=============================================================================
