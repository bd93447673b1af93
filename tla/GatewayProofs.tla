----------------------------- MODULE GatewayProofs -----------------------------
(***************************************************************************)
(* What holds of the gateway for any calls, orgs, buckets, webhooks,       *)
(* limits and ranges.  The invariant is the conjunction of seven parts,    *)
(* one per property and one that says where a call has its context.        *)
(***************************************************************************)
EXTENDS Gateway, RateLimiterProofs

Types ==
    /\ now \in Nat
    /\ GatewayTypeOK
    /\ known \in [Call -> SUBSET (Hook \cup {NoHook})]
    /\ silencer \in [Call -> Call \cup {NoCall}]

\* A call that was let in has a bucket and a webhook its org has had; one that
\* was not has raised no alert and taken no claim.
Placed ==
    /\ \A c \in Call : /\ pc[c] \in {"idle", "unauthorized"} => claimedAt[c] = -1
                       /\ pc[c] \notin {"idle", "unauthorized"} =>
                              bucket[c] \in Bucket /\ hook[c] \in known[c]
    /\ \A p \in posts : pc[p.call] # "idle"

Home == AlertsStayHome

CoveredAt == {"forwarded", "released", "settled", "quiet", "claiming", "warning", "warned"}

Covered ==
    \A c \in Call :
        pc[c] \in CoveredAt =>
            \/ Told(c, "fail_open")
            \/ reserved[c] > 0 /\ reserved[c] >= asked[c]

\* Redis remembers the claims of a bucket by the last, which outlives them all.
Outlived ==
    \A c \in Call :
        claimedAt[c] >= 0 => /\ claimedAt[c] <= now
                             /\ claim[bucket[c]] # NoClaim
                             /\ claim[bucket[c]].until >= claimedAt[c] + ClaimTTL

Apart ==
    \A c, d \in Call :
        (/\ c # d /\ bucket[c] = bucket[d]
         /\ 0 <= claimedAt[c] /\ claimedAt[c] <= claimedAt[d])
            => claimedAt[d] - claimedAt[c] >= ClaimTTL

ClaimsApart == Outlived /\ Apart

\* Call h has claimed the warning of bucket b, and warns or died.
Teller(h, b) ==
    /\ h \in Call /\ bucket[h] = b
    /\ pc[h] \in {"warning", "warned", "crashed"}
    /\ pc[h] = "warned" => Told(h, "budget_warning_80")

Tellers ==
    /\ \A b \in Bucket : claim[b] # NoClaim => Teller(claim[b].by, b)
    /\ \A c \in Call : pc[c] = "silenced" => silencer[c] # c /\ Teller(silencer[c], bucket[c])

\* Between its settlement and its reading of the balance, a call whose bucket has
\* been low all the while finds it low.
LowTracked ==
    \A c \in Call :
        /\ pc[c] = "settled" /\ low[c] => LowAt(balance[bucket[c]], used[c])
        /\ pc[c] = "quiet" => ~low[c]

GatewayInv ==
    Types /\ Placed /\ Home /\ Covered /\ ClaimsApart /\ Tellers /\ LowTracked

-----------------------------------------------------------------------------
(* The arithmetic of an int64 *)

LEMMA Division ==
    ASSUME NEW m \in Int, NEW e \in Nat \ {0}
    PROVE  m = e * (m \div e) + (m % e) /\ m \div e \in Int /\ m % e \in 0..e - 1
  BY SMTT(60)

LEMMA Quotient ==
    ASSUME NEW e \in Nat \ {0}, NEW q \in Int, NEW r \in 0..e - 1, NEW m \in 0..2 * e - 1,
           m = e * q + r
    PROVE  q = 0 \/ q = 1
  <1>1. ASSUME q <= -1 PROVE FALSE
    <2>1. e * q <= e * (-1)
      BY <1>1, SMTT(30)
    <2>2. QED
      BY <2>1
  <1>2. ASSUME q >= 2 PROVE FALSE
    <2>1. e * q >= e * 2
      BY <1>2, SMTT(30)
    <2>2. QED
      BY <2>1
  <1>3. QED
    BY <1>1, <1>2

\* The sum of two non-negative int64 is itself, or wraps once.
LEMMA WrapsOnce ==
    ASSUME NEW n \in 0..2 * HalfRange - 2
    PROVE  Wrap(n) = n \/ Wrap(n) = n - 2 * HalfRange
  <1> DEFINE m == n + HalfRange
             e == 2 * HalfRange
             q == m \div e
             r == m % e
  <1>1. m \in 0..2 * e - 1 /\ e \in Nat \ {0} /\ m \in Int
    BY GatewayAssumption
  <1>2. m = e * q + r /\ q \in Int /\ r \in 0..e - 1
    BY <1>1, Division
  <1> HIDE DEF q, r, e, m
  <1>3. q = 0 \/ q = 1
    BY <1>1, <1>2, Quotient
  <1>4. r = m \/ r = m - e
    BY <1>1, <1>2, <1>3
  <1>5. QED
    BY <1>4, GatewayAssumption DEF Wrap, r, m, e

\* An estimate that did not wrap covers max_tokens.
LEMMA EstimateCovers ==
    ASSUME NEW n \in MaxTokens \cup {0}
    PROVE  /\ Estimate(n) \in Int
           /\ Estimate(n) >= 0 => Estimate(n) > 0 /\ Estimate(n) >= n
  <1>1. CASE n <= 0
    BY <1>1, GatewayAssumption DEF Estimate
  <1>2. CASE n > 0
    <2>1. PICK m \in 0..2 * HalfRange - 2 : m = n + PromptBuffer
      BY <1>2, GatewayAssumption
    <2>2. Wrap(m) = m \/ Wrap(m) = m - 2 * HalfRange
      BY WrapsOnce
    <2>3. Estimate(n) = Wrap(m)
      BY <1>2, <2>1, GatewayAssumption DEF Estimate
    <2>4. QED
      BY <1>2, <2>1, <2>2, <2>3, GatewayAssumption
  <1>3. QED
    BY <1>1, <1>2, GatewayAssumption

-----------------------------------------------------------------------------
(* Operators of the model *)

LEMMA BucketForType ==
    ASSUME NEW o \in Org, NEW name \in Name \cup {NoName}
    PROVE  BucketFor(o, name) \in Bucket
  BY GatewayAssumption DEF BucketFor, Bucket

LEMMA StillLowType ==
    ASSUME NEW bal, low \in [Call -> BOOLEAN]
    PROVE  /\ StillLow(bal) \in [Call -> BOOLEAN]
           /\ \A c \in Call : StillLow(bal)[c] =>
                  low[c] /\ (pc[c] = "settled" => LowAt(bal[bucket[c]], used[c]))
  BY Zenon DEF StillLow

\* What is not worth a warning is not low.
LEMMA UnwarnedIsNotLow ==
    ASSUME NEW remaining \in Int, NEW n \in Nat, ~ShouldWarn80(remaining, n)
    PROVE  ~LowAt(remaining, n)
  BY DEF ShouldWarn80, LowAt

\* The alerts of a call go where it may send them.
LEMMA PostKeeps ==
    ASSUME Types, Home, NEW c \in Call, NEW kind \in Kind, NEW from, NEW to, Post(c, from, kind, to),
           hook[c] \in known[c]
    PROVE  /\ posts \subseteq posts'
           /\ posts' \subseteq [kind : Kind, call : Call, to : Hook \cup {GlobalHook, NoHook}]
           /\ Home'
           /\ Told(c, kind)'
           /\ \A p \in posts' : p \in posts \/ p.call = c
  <1> DEFINE new == [kind |-> kind, call |-> c, to |-> ResolveWebhook(hook[c])]
  <1>1. hook[c] \in Hook \cup {NoHook}
    BY DEF Types, GatewayTypeOK
  <1>2. new.to \in known[c] \/ (new.to = GlobalHook /\ NoHook \in known[c])
    BY DEF ResolveWebhook
  <1>3. posts' = posts \cup {new} /\ known' = known
    BY DEF Post
  <1>4. new \in [kind : Kind, call : Call, to : Hook \cup {GlobalHook, NoHook}]
    BY <1>1 DEF ResolveWebhook
  <1>5. Home'
    BY <1>2, <1>3 DEF Home, AlertsStayHome
  <1>6. Told(c, kind)'
    <2>1. new \in posts' /\ new.call = c /\ new.kind = kind
      BY <1>3
    <2>2. QED
      BY <2>1, Zenon DEF Told
  <1>7. QED
    BY <1>3, <1>4, <1>5, <1>6 DEF Types, GatewayTypeOK

\* What was told stays told.
LEMMA ToldStays ==
    ASSUME posts \subseteq posts'
    PROVE  \A c, kind : Told(c, kind) => Told(c, kind)'
  BY DEF Told

-----------------------------------------------------------------------------
(* The steps *)

LEMMA UnauthorizedKeeps ==
    ASSUME GatewayInv, NEW c \in Call, Unauthorized(c)
    PROVE  GatewayInv'
  <1> USE GatewayAssumption DEF GatewayInv, Goto, Moves, Post, historyVars, callVars, redisVars, limiterVars
  <1>1. Types'
    BY DEF Unauthorized, Types, GatewayTypeOK, Where, Ended, Kind, NoClaim
  <1>2. Placed'
    BY DEF Unauthorized, Types, GatewayTypeOK, Placed
  <1>3. Home'
    BY DEF Unauthorized, Types, GatewayTypeOK, Placed, Home, AlertsStayHome
  <1>4. Covered'
    BY DEF Unauthorized, Types, GatewayTypeOK, Covered, CoveredAt, Told
  <1>5. ClaimsApart'
    BY DEF Unauthorized, Types, GatewayTypeOK, Placed, ClaimsApart, Outlived, Apart
  <1>6. Tellers'
    BY DEF Unauthorized, Types, GatewayTypeOK, Placed, Tellers, Teller, Told
  <1>7. LowTracked'
    BY DEF Unauthorized, Types, GatewayTypeOK, Placed, LowTracked, StillLow
  <1>8. QED
    BY <1>1, <1>2, <1>3, <1>4, <1>5, <1>6, <1>7

LEMMA AuthenticateKeeps ==
    ASSUME GatewayInv, NEW c \in Call, NEW o \in Org, NEW name \in Name \cup {NoName}, NEW n \in MaxTokens, Authenticate(c, o, name, n)
    PROVE  GatewayInv'
  <1> USE GatewayAssumption DEF GatewayInv, Goto, Moves, Post, historyVars, callVars, redisVars, limiterVars
  <1>1. Types'
    BY BucketForType DEF Authenticate, Types, GatewayTypeOK, Where, Ended
  <1>2. Placed'
    BY BucketForType DEF Authenticate, Types, GatewayTypeOK, Placed
  <1>3. Home'
    BY DEF Authenticate, Types, GatewayTypeOK, Placed, Home, AlertsStayHome
  <1>4. Covered'
    BY DEF Authenticate, Types, GatewayTypeOK, Covered, CoveredAt, Told
  <1>5. ClaimsApart'
    <2>1. \A d \in Call : claimedAt[d] >= 0 => bucket'[d] = bucket[d]
      BY DEF Authenticate, Types, GatewayTypeOK, Placed
    <2>2. UNCHANGED <<claim, claimedAt, now>>
      BY DEF Authenticate
    <2>3. \A d \in Call : claimedAt[d] \in Int
      BY DEF Types, GatewayTypeOK
    <2>4. Outlived'
      BY <2>1, <2>2 DEF ClaimsApart, Outlived
    <2>5. Apart'
      BY <2>1, <2>2, <2>3 DEF ClaimsApart, Apart
    <2>6. QED
      BY <2>4, <2>5 DEF ClaimsApart
  <1>6. Tellers'
    BY DEF Authenticate, Types, GatewayTypeOK, Placed, Tellers, Teller, Told
  <1>7. LowTracked'
    BY DEF Authenticate, Types, GatewayTypeOK, Placed, LowTracked, StillLow
  <1>8. QED
    BY <1>1, <1>2, <1>3, <1>4, <1>5, <1>6, <1>7

LEMMA ReserveGrantedKeeps ==
    ASSUME GatewayInv, NEW c \in Call, ReserveGranted(c)
    PROVE  GatewayInv'
  <1> USE GatewayAssumption DEF GatewayInv, Goto, Moves, Post, historyVars, callVars, redisVars, limiterVars
  <1>1. Types'
    <2>1. asked[c] \in MaxTokens \cup {0} /\ Estimate(asked[c]) >= 0
      BY DEF ReserveGranted, Runs, Types, GatewayTypeOK
    <2>2. PICK n \in Nat : n = Estimate(asked[c])
      <3>1. Estimate(asked[c]) \in Int
        BY <2>1, EstimateCovers
      <3>2. QED
        BY <2>1, <3>1
    <2>3. balance' \in [Bucket -> Int] /\ hold' \in [Call -> Nat] /\ reserved' \in [Call -> Nat]
      BY <2>2 DEF ReserveGranted, Types, GatewayTypeOK, Placed
    <2>4. low' \in [Call -> BOOLEAN]
      BY StillLowType DEF ReserveGranted, Types, GatewayTypeOK
    <2>5. pc' \in [Call -> Where]
      BY DEF ReserveGranted, Types, GatewayTypeOK, Where, Ended
    <2>6. UNCHANGED <<now, webhook, applied, scripts, claim, bucket, hook, asked, used, posts, known,
                      claimedAt, silencer>>
      BY DEF ReserveGranted
    <2>7. QED
      BY <2>3, <2>4, <2>5, <2>6 DEF Types, GatewayTypeOK
  <1>2. Placed'
    BY DEF ReserveGranted, Types, GatewayTypeOK, Placed
  <1>3. Home'
    BY DEF ReserveGranted, Types, GatewayTypeOK, Placed, Home, AlertsStayHome
  <1>4. Covered'
    <2>1. Estimate(asked[c]) > 0 /\ Estimate(asked[c]) >= asked[c]
      BY EstimateCovers DEF ReserveGranted, Runs, Types, GatewayTypeOK
    <2>2. QED
      BY <2>1 DEF ReserveGranted, Types, GatewayTypeOK, Covered, CoveredAt, Told
  <1>5. ClaimsApart'
    BY DEF ReserveGranted, Types, GatewayTypeOK, Placed, ClaimsApart, Outlived, Apart
  <1>6. Tellers'
    BY DEF ReserveGranted, Types, GatewayTypeOK, Placed, Tellers, Teller, Told
  <1>7. LowTracked'
    BY DEF ReserveGranted, Types, GatewayTypeOK, Placed, LowTracked, StillLow
  <1>8. QED
    BY <1>1, <1>2, <1>3, <1>4, <1>5, <1>6, <1>7

LEMMA ReserveDeniedKeeps ==
    ASSUME GatewayInv, NEW c \in Call, ReserveDenied(c)
    PROVE  GatewayInv'
  <1> USE GatewayAssumption DEF GatewayInv, Goto, Moves, Post, historyVars, callVars, redisVars, limiterVars
  <1>1. Types'
    BY DEF ReserveDenied, Types, GatewayTypeOK, Where, Ended, Kind, NoClaim
  <1>2. Placed'
    BY DEF ReserveDenied, Types, GatewayTypeOK, Placed
  <1>3. Home'
    BY DEF ReserveDenied, Types, GatewayTypeOK, Placed, Home, AlertsStayHome
  <1>4. Covered'
    BY DEF ReserveDenied, Types, GatewayTypeOK, Covered, CoveredAt, Told
  <1>5. ClaimsApart'
    BY DEF ReserveDenied, Types, GatewayTypeOK, Placed, ClaimsApart, Outlived, Apart
  <1>6. Tellers'
    BY DEF ReserveDenied, Types, GatewayTypeOK, Placed, Tellers, Teller, Told
  <1>7. LowTracked'
    BY DEF ReserveDenied, Types, GatewayTypeOK, Placed, LowTracked, StillLow
  <1>8. QED
    BY <1>1, <1>2, <1>3, <1>4, <1>5, <1>6, <1>7

LEMMA ReserveErrsKeeps ==
    ASSUME GatewayInv, NEW c \in Call, ReserveErrs(c)
    PROVE  GatewayInv'
  <1> USE GatewayAssumption DEF GatewayInv, Goto, Moves, Post, historyVars, callVars, redisVars, limiterVars
  <1>1. Types'
    BY DEF ReserveErrs, Types, GatewayTypeOK, Where, Ended, Kind, NoClaim
  <1>2. Placed'
    BY DEF ReserveErrs, Types, GatewayTypeOK, Placed
  <1>3. Home'
    BY DEF ReserveErrs, Types, GatewayTypeOK, Placed, Home, AlertsStayHome
  <1>4. Covered'
    BY DEF ReserveErrs, Types, GatewayTypeOK, Covered, CoveredAt, Told
  <1>5. ClaimsApart'
    BY DEF ReserveErrs, Types, GatewayTypeOK, Placed, ClaimsApart, Outlived, Apart
  <1>6. Tellers'
    BY DEF ReserveErrs, Types, GatewayTypeOK, Placed, Tellers, Teller, Told
  <1>7. LowTracked'
    BY DEF ReserveErrs, Types, GatewayTypeOK, Placed, LowTracked, StillLow
  <1>8. QED
    BY <1>1, <1>2, <1>3, <1>4, <1>5, <1>6, <1>7

LEMMA FailOpenAtKeeps ==
    ASSUME GatewayInv, NEW c \in Call, FailOpenAt(c)
    PROVE  GatewayInv'
  <1> USE GatewayAssumption DEF GatewayInv, Goto, Moves, Post, historyVars, callVars, redisVars, limiterVars
  <1>0. /\ posts \subseteq posts' /\ Home' /\ Told(c, "fail_open")'
        /\ posts' \subseteq [kind : Kind, call : Call, to : Hook \cup {GlobalHook, NoHook}]
        /\ \A p \in posts' : p \in posts \/ p.call = c
        /\ \A d, kind : Told(d, kind) => Told(d, kind)'
    BY PostKeeps, ToldStays DEF FailOpenAt, Kind, Placed
  <1>1. Types'
    BY <1>0 DEF FailOpenAt, Types, GatewayTypeOK, Where, Ended
  <1>2. Placed'
    BY <1>0 DEF FailOpenAt, Types, GatewayTypeOK, Placed
  <1>3. Home'
    BY <1>0
  <1>4. Covered'
    BY <1>0 DEF FailOpenAt, Types, GatewayTypeOK, Covered, CoveredAt
  <1>5. ClaimsApart'
    BY DEF FailOpenAt, Types, GatewayTypeOK, Placed, ClaimsApart, Outlived, Apart
  <1>6. Tellers'
    BY <1>0 DEF FailOpenAt, Types, GatewayTypeOK, Tellers, Teller
  <1>7. LowTracked'
    BY DEF FailOpenAt, Types, GatewayTypeOK, Placed, LowTracked, StillLow
  <1>8. QED
    BY <1>1, <1>2, <1>3, <1>4, <1>5, <1>6, <1>7

LEMMA BudgetExhaustedKeeps ==
    ASSUME GatewayInv, NEW c \in Call, BudgetExhausted(c)
    PROVE  GatewayInv'
  <1> USE GatewayAssumption DEF GatewayInv, Goto, Moves, Post, historyVars, callVars, redisVars, limiterVars
  <1>0. /\ posts \subseteq posts' /\ Home' /\ Told(c, "budget_exhausted")'
        /\ posts' \subseteq [kind : Kind, call : Call, to : Hook \cup {GlobalHook, NoHook}]
        /\ \A p \in posts' : p \in posts \/ p.call = c
        /\ \A d, kind : Told(d, kind) => Told(d, kind)'
    BY PostKeeps, ToldStays DEF BudgetExhausted, Kind, Placed
  <1>1. Types'
    BY <1>0 DEF BudgetExhausted, Types, GatewayTypeOK, Where, Ended
  <1>2. Placed'
    BY <1>0 DEF BudgetExhausted, Types, GatewayTypeOK, Placed
  <1>3. Home'
    BY <1>0
  <1>4. Covered'
    BY <1>0 DEF BudgetExhausted, Types, GatewayTypeOK, Covered, CoveredAt
  <1>5. ClaimsApart'
    BY DEF BudgetExhausted, Types, GatewayTypeOK, Placed, ClaimsApart, Outlived, Apart
  <1>6. Tellers'
    BY <1>0 DEF BudgetExhausted, Types, GatewayTypeOK, Tellers, Teller
  <1>7. LowTracked'
    BY DEF BudgetExhausted, Types, GatewayTypeOK, Placed, LowTracked, StillLow
  <1>8. QED
    BY <1>1, <1>2, <1>3, <1>4, <1>5, <1>6, <1>7

LEMMA SettleKeeps ==
    ASSUME GatewayInv, NEW c \in Call, NEW n \in Usage \cup {reserved[c]}, Settle(c, n)
    PROVE  GatewayInv'
  <1> USE GatewayAssumption DEF GatewayInv, Goto, Moves, Post, historyVars, callVars, redisVars, limiterVars
  <1>1. Types'
    <2>1. n \in Nat
      BY GatewayAssumption DEF Types, GatewayTypeOK
    <2>2. balance' \in [Bucket -> Int] /\ hold' \in [Call -> Nat] /\ used' \in [Call -> Nat]
      BY <2>1 DEF EndHold, Settle, Types, GatewayTypeOK, Placed
    <2>3. low' \in [Call -> BOOLEAN]
      <3>1. PICK bal : low' = [StillLow(bal) EXCEPT ![c] = LowAt(bal[bucket[c]], n)]
        BY DEF Settle
      <3>2. StillLow(bal) \in [Call -> BOOLEAN]
        BY StillLowType DEF Types, GatewayTypeOK
      <3>3. LowAt(bal[bucket[c]], n) \in BOOLEAN
        BY DEF LowAt
      <3>4. QED
        BY <3>1, <3>2, <3>3
    <2>4. pc' \in [Call -> Where]
      BY DEF EndHold, Settle, Types, GatewayTypeOK, Where, Ended
    <2>5. UNCHANGED <<now, webhook, applied, scripts, claim, bucket, hook, asked, reserved, posts, known,
                      claimedAt, silencer>>
      BY DEF EndHold, Settle
    <2>6. QED
      BY <2>2, <2>3, <2>4, <2>5 DEF Types, GatewayTypeOK
  <1>2. Placed'
    BY DEF EndHold, Settle, Types, GatewayTypeOK, Placed
  <1>3. Home'
    BY DEF EndHold, Settle, Types, GatewayTypeOK, Placed, Home, AlertsStayHome
  <1>4. Covered'
    BY DEF EndHold, Settle, Types, GatewayTypeOK, Covered, CoveredAt, Told
  <1>5. ClaimsApart'
    BY DEF EndHold, Settle, Types, GatewayTypeOK, Placed, ClaimsApart, Outlived, Apart
  <1>6. Tellers'
    BY DEF EndHold, Settle, Types, GatewayTypeOK, Placed, Tellers, Teller, Told
  <1>7. LowTracked'
    BY DEF EndHold, Settle, Types, GatewayTypeOK, Placed, LowTracked, StillLow
  <1>8. QED
    BY <1>1, <1>2, <1>3, <1>4, <1>5, <1>6, <1>7

LEMMA ReleaseKeeps ==
    ASSUME GatewayInv, NEW c \in Call, Release(c)
    PROVE  GatewayInv'
  <1> USE GatewayAssumption DEF GatewayInv, Goto, Moves, Post, historyVars, callVars, redisVars, limiterVars
  <1>1. Types'
    <2>1. balance' \in [Bucket -> Int] /\ hold' \in [Call -> Nat]
      BY DEF EndHold, Release, Types, GatewayTypeOK, Placed
    <2>2. low' \in [Call -> BOOLEAN]
      BY StillLowType DEF Release, Types, GatewayTypeOK
    <2>3. pc' \in [Call -> Where]
      BY DEF EndHold, Release, Types, GatewayTypeOK, Where, Ended
    <2>4. UNCHANGED <<now, webhook, applied, scripts, claim, bucket, hook, asked, reserved, used, posts,
                      known, claimedAt, silencer>>
      BY DEF EndHold, Release
    <2>5. QED
      BY <2>1, <2>2, <2>3, <2>4 DEF Types, GatewayTypeOK
  <1>2. Placed'
    BY DEF EndHold, Release, Types, GatewayTypeOK, Placed
  <1>3. Home'
    BY DEF EndHold, Release, Types, GatewayTypeOK, Placed, Home, AlertsStayHome
  <1>4. Covered'
    BY DEF EndHold, Release, Types, GatewayTypeOK, Covered, CoveredAt, Told
  <1>5. ClaimsApart'
    BY DEF EndHold, Release, Types, GatewayTypeOK, Placed, ClaimsApart, Outlived, Apart
  <1>6. Tellers'
    BY DEF EndHold, Release, Types, GatewayTypeOK, Placed, Tellers, Teller, Told
  <1>7. LowTracked'
    BY DEF EndHold, Release, Types, GatewayTypeOK, Placed, LowTracked, StillLow
  <1>8. QED
    BY <1>1, <1>2, <1>3, <1>4, <1>5, <1>6, <1>7

LEMMA EndFailsKeeps ==
    ASSUME GatewayInv, NEW c \in Call, EndFails(c)
    PROVE  GatewayInv'
  <1> USE GatewayAssumption DEF GatewayInv, Goto, Moves, Post, historyVars, callVars, redisVars, limiterVars
  <1>1. Types'
    BY DEF EndFails, Types, GatewayTypeOK, Where, Ended, Kind, NoClaim
  <1>2. Placed'
    BY DEF EndFails, Types, GatewayTypeOK, Placed
  <1>3. Home'
    BY DEF EndFails, Types, GatewayTypeOK, Placed, Home, AlertsStayHome
  <1>4. Covered'
    BY DEF EndFails, Types, GatewayTypeOK, Covered, CoveredAt, Told
  <1>5. ClaimsApart'
    BY DEF EndFails, Types, GatewayTypeOK, Placed, ClaimsApart, Outlived, Apart
  <1>6. Tellers'
    BY DEF EndFails, Types, GatewayTypeOK, Placed, Tellers, Teller, Told
  <1>7. LowTracked'
    BY DEF EndFails, Types, GatewayTypeOK, Placed, LowTracked, StillLow
  <1>8. QED
    BY <1>1, <1>2, <1>3, <1>4, <1>5, <1>6, <1>7

LEMMA ReadBalanceKeeps ==
    ASSUME GatewayInv, NEW c \in Call, ReadBalance(c)
    PROVE  GatewayInv'
  <1> USE GatewayAssumption DEF GatewayInv, Goto, Moves, Post, historyVars, callVars, redisVars, limiterVars
  <1>1. Types'
    BY DEF ReadBalance, Types, GatewayTypeOK, Where, Ended, Kind, NoClaim
  <1>2. Placed'
    BY DEF ReadBalance, Types, GatewayTypeOK, Placed
  <1>3. Home'
    BY DEF ReadBalance, Types, GatewayTypeOK, Placed, Home, AlertsStayHome
  <1>4. Covered'
    BY DEF ReadBalance, Types, GatewayTypeOK, Covered, CoveredAt, Told
  <1>5. ClaimsApart'
    BY DEF ReadBalance, Types, GatewayTypeOK, Placed, ClaimsApart, Outlived, Apart
  <1>6. Tellers'
    BY DEF ReadBalance, Types, GatewayTypeOK, Placed, Tellers, Teller, Told
  <1>7. LowTracked'
    <2>1. pc'[c] = "quiet" => ~low[c]
      BY UnwarnedIsNotLow DEF ReadBalance, Types, GatewayTypeOK, Placed, LowTracked
    <2>2. QED
      BY <2>1 DEF ReadBalance, Types, GatewayTypeOK, LowTracked
  <1>8. QED
    BY <1>1, <1>2, <1>3, <1>4, <1>5, <1>6, <1>7

LEMMA ReadBalanceFailsKeeps ==
    ASSUME GatewayInv, NEW c \in Call, ReadBalanceFails(c)
    PROVE  GatewayInv'
  <1> USE GatewayAssumption DEF GatewayInv, Goto, Moves, Post, historyVars, callVars, redisVars, limiterVars
  <1>1. Types'
    BY DEF ReadBalanceFails, Types, GatewayTypeOK, Where, Ended, Kind, NoClaim
  <1>2. Placed'
    BY DEF ReadBalanceFails, Types, GatewayTypeOK, Placed
  <1>3. Home'
    BY DEF ReadBalanceFails, Types, GatewayTypeOK, Placed, Home, AlertsStayHome
  <1>4. Covered'
    BY DEF ReadBalanceFails, Types, GatewayTypeOK, Covered, CoveredAt, Told
  <1>5. ClaimsApart'
    BY DEF ReadBalanceFails, Types, GatewayTypeOK, Placed, ClaimsApart, Outlived, Apart
  <1>6. Tellers'
    BY DEF ReadBalanceFails, Types, GatewayTypeOK, Placed, Tellers, Teller, Told
  <1>7. LowTracked'
    BY DEF ReadBalanceFails, Types, GatewayTypeOK, Placed, LowTracked, StillLow
  <1>8. QED
    BY <1>1, <1>2, <1>3, <1>4, <1>5, <1>6, <1>7

LEMMA TryClaimKeeps ==
    ASSUME GatewayInv, NEW c \in Call, TryClaim(c)
    PROVE  GatewayInv'
  <1> USE GatewayAssumption DEF GatewayInv, Goto, Moves, Post, historyVars, callVars, redisVars, limiterVars
  <1>1. Types'
    <2>1. [by |-> c, until |-> now + ClaimTTL] \in [by : Call \cup {NoCall}, until : Nat]
      BY DEF Types
    <2>2. QED
      BY <2>1 DEF TryClaim, Claims, Types, GatewayTypeOK, Where, Ended
  <1>2. Placed'
    BY DEF Claims, Taken, TryClaim, Types, GatewayTypeOK, Placed
  <1>3. Home'
    BY DEF Claims, Taken, TryClaim, Types, GatewayTypeOK, Placed, Home, AlertsStayHome
  <1>4. Covered'
    BY DEF Claims, Taken, TryClaim, Types, GatewayTypeOK, Covered, CoveredAt, Told
  <1>5. ClaimsApart'
    <2> DEFINE b == bucket[c]
    <2>1. /\ b \in Bucket /\ now \in Nat /\ ClaimTTL \in Nat /\ now' = now /\ bucket' = bucket
          /\ \A d \in Call : claimedAt[d] \in Int
      BY DEF TryClaim, Claims, Types, GatewayTypeOK, Placed
    <2>2. /\ claimedAt'[c] = now
          /\ \A d \in Call \ {c} : claimedAt'[d] = claimedAt[d]
          /\ claim'[b] = [by |-> c, until |-> now + ClaimTTL]
          /\ \A a \in Bucket \ {b} : claim'[a] = claim[a]
      BY <2>1 DEF TryClaim, Claims, Types, GatewayTypeOK
    <2>3. claim'[b] # NoClaim
      BY <2>2 DEF NoClaim
    <2>4. claim[b] # NoClaim => claim[b].until <= now
      BY <2>1 DEF TryClaim, Taken, Types, GatewayTypeOK
    <2>5. \A d \in Call : claimedAt[d] >= 0 /\ bucket[d] = b => claimedAt[d] + ClaimTTL <= now
      BY <2>1, <2>4 DEF ClaimsApart, Outlived, Types, GatewayTypeOK
    <2>6. \A d \in Call : claimedAt[d] >= 0 => bucket[d] \in Bucket
      BY DEF Types, GatewayTypeOK, Placed
    <2>7. Outlived'
      <3> SUFFICES ASSUME NEW d \in Call, claimedAt'[d] >= 0
                   PROVE  /\ claimedAt'[d] <= now /\ claim'[bucket[d]] # NoClaim
                          /\ claim'[bucket[d]].until >= claimedAt'[d] + ClaimTTL
        BY <2>1 DEF Outlived
      <3>1. CASE bucket[d] = b
        <4>1. claimedAt'[d] <= now
          BY <2>1, <2>2 DEF ClaimsApart, Outlived
        <4>2. claim'[b].until = now + ClaimTTL
          BY <2>2
        <4>3. QED
          BY <3>1, <4>1, <4>2, <2>1, <2>2, <2>3
      <3>2. CASE bucket[d] # b
        BY <3>2, <2>2, <2>6 DEF ClaimsApart, Outlived
      <3>3. QED
        BY <3>1, <3>2
    <2>8. Apart'
      <3> SUFFICES ASSUME NEW d \in Call, NEW e \in Call, d # e, bucket[d] = bucket[e],
                          0 <= claimedAt'[d], claimedAt'[d] <= claimedAt'[e]
                   PROVE  claimedAt'[e] - claimedAt'[d] >= ClaimTTL
        BY <2>1 DEF Apart
      <3>1. CASE e = c
        BY <3>1, <2>1, <2>2, <2>5
      <3>2. CASE d = c
        BY <3>2, <2>1, <2>2, <2>5
      <3>3. CASE d # c /\ e # c
        BY <3>3, <2>2 DEF ClaimsApart, Apart
      <3>4. QED
        BY <3>1, <3>2, <3>3
    <2>9. QED
      BY <2>7, <2>8 DEF ClaimsApart
  <1>6. Tellers'
    BY DEF Claims, Taken, TryClaim, Types, GatewayTypeOK, Placed, Tellers, Teller, Told
  <1>7. LowTracked'
    BY DEF Claims, Taken, TryClaim, Types, GatewayTypeOK, Placed, LowTracked, StillLow
  <1>8. QED
    BY <1>1, <1>2, <1>3, <1>4, <1>5, <1>6, <1>7

LEMMA ClaimTakenKeeps ==
    ASSUME GatewayInv, NEW c \in Call, ClaimTaken(c)
    PROVE  GatewayInv'
  <1> USE GatewayAssumption DEF GatewayInv, Goto, Moves, Post, historyVars, callVars, redisVars, limiterVars
  <1>1. Types'
    <2>1. claim[bucket[c]].by \in Call \cup {NoCall}
      BY DEF ClaimTaken, Types, GatewayTypeOK, Placed
    <2>2. QED
      BY <2>1 DEF ClaimTaken, Types, GatewayTypeOK, Where, Ended
  <1>2. Placed'
    BY DEF Taken, ClaimTaken, Types, GatewayTypeOK, Placed
  <1>3. Home'
    BY DEF Taken, ClaimTaken, Types, GatewayTypeOK, Placed, Home, AlertsStayHome
  <1>4. Covered'
    BY DEF Taken, ClaimTaken, Types, GatewayTypeOK, Covered, CoveredAt, Told
  <1>5. ClaimsApart'
    BY DEF Taken, ClaimTaken, Types, GatewayTypeOK, Placed, ClaimsApart, Outlived, Apart
  <1>6. Tellers'
    BY DEF Taken, ClaimTaken, Types, GatewayTypeOK, Placed, Tellers, Teller, Told
  <1>7. LowTracked'
    BY DEF Taken, ClaimTaken, Types, GatewayTypeOK, Placed, LowTracked, StillLow
  <1>8. QED
    BY <1>1, <1>2, <1>3, <1>4, <1>5, <1>6, <1>7

LEMMA ClaimFailsKeeps ==
    ASSUME GatewayInv, NEW c \in Call, ClaimFails(c)
    PROVE  GatewayInv'
  <1> USE GatewayAssumption DEF GatewayInv, Goto, Moves, Post, historyVars, callVars, redisVars, limiterVars
  <1>1. Types'
    BY DEF ClaimFails, Types, GatewayTypeOK, Where, Ended, Kind, NoClaim
  <1>2. Placed'
    BY DEF ClaimFails, Types, GatewayTypeOK, Placed
  <1>3. Home'
    BY DEF ClaimFails, Types, GatewayTypeOK, Placed, Home, AlertsStayHome
  <1>4. Covered'
    BY DEF ClaimFails, Types, GatewayTypeOK, Covered, CoveredAt, Told
  <1>5. ClaimsApart'
    BY DEF ClaimFails, Types, GatewayTypeOK, Placed, ClaimsApart, Outlived, Apart
  <1>6. Tellers'
    BY DEF ClaimFails, Types, GatewayTypeOK, Placed, Tellers, Teller, Told
  <1>7. LowTracked'
    BY DEF ClaimFails, Types, GatewayTypeOK, Placed, LowTracked, StillLow
  <1>8. QED
    BY <1>1, <1>2, <1>3, <1>4, <1>5, <1>6, <1>7

LEMMA BudgetWarning80Keeps ==
    ASSUME GatewayInv, NEW c \in Call, BudgetWarning80(c)
    PROVE  GatewayInv'
  <1> USE GatewayAssumption DEF GatewayInv, Goto, Moves, Post, historyVars, callVars, redisVars, limiterVars
  <1>0. /\ posts \subseteq posts' /\ Home' /\ Told(c, "budget_warning_80")'
        /\ posts' \subseteq [kind : Kind, call : Call, to : Hook \cup {GlobalHook, NoHook}]
        /\ \A p \in posts' : p \in posts \/ p.call = c
        /\ \A d, kind : Told(d, kind) => Told(d, kind)'
    BY PostKeeps, ToldStays DEF BudgetWarning80, Kind, Placed
  <1>1. Types'
    BY <1>0 DEF BudgetWarning80, Types, GatewayTypeOK, Where, Ended
  <1>2. Placed'
    BY <1>0 DEF BudgetWarning80, Types, GatewayTypeOK, Placed
  <1>3. Home'
    BY <1>0
  <1>4. Covered'
    BY <1>0 DEF BudgetWarning80, Types, GatewayTypeOK, Covered, CoveredAt
  <1>5. ClaimsApart'
    BY DEF BudgetWarning80, Types, GatewayTypeOK, Placed, ClaimsApart, Outlived, Apart
  <1>6. Tellers'
    BY <1>0 DEF BudgetWarning80, Types, GatewayTypeOK, Tellers, Teller
  <1>7. LowTracked'
    BY DEF BudgetWarning80, Types, GatewayTypeOK, Placed, LowTracked, StillLow
  <1>8. QED
    BY <1>1, <1>2, <1>3, <1>4, <1>5, <1>6, <1>7

LEMMA SetBucketKeeps ==
    ASSUME GatewayInv, NEW b \in Bucket, NEW n \in Int, NEW r \in Request, Apply(r), SetBucket(b, n)
    PROVE  GatewayInv'
  <1> USE GatewayAssumption DEF GatewayInv, Goto, Moves, Post, historyVars, callVars, redisVars, limiterVars
  <1>1. Types'
    <2>1. balance' \in [Bucket -> Int]
      BY DEF SetBucket, Types, GatewayTypeOK
    <2>2. low' \in [Call -> BOOLEAN]
      BY StillLowType DEF SetBucket, Types, GatewayTypeOK
    <2>3. applied' \subseteq Request
      BY DEF Apply, Types, GatewayTypeOK
    <2>4. UNCHANGED <<now, webhook, hold, scripts, claim, pc, bucket, hook, asked, reserved, used, posts,
                      known, claimedAt, silencer>>
      BY DEF SetBucket
    <2>5. QED
      BY <2>1, <2>2, <2>3, <2>4 DEF Types, GatewayTypeOK
  <1>2. Placed'
    BY DEF SetBucket, Types, GatewayTypeOK, Placed
  <1>3. Home'
    BY DEF SetBucket, Types, GatewayTypeOK, Placed, Home, AlertsStayHome
  <1>4. Covered'
    BY DEF SetBucket, Types, GatewayTypeOK, Covered, CoveredAt, Told
  <1>5. ClaimsApart'
    BY DEF SetBucket, Types, GatewayTypeOK, Placed, ClaimsApart, Outlived, Apart
  <1>6. Tellers'
    BY DEF SetBucket, Types, GatewayTypeOK, Placed, Tellers, Teller, Told
  <1>7. LowTracked'
    BY DEF SetBucket, Types, GatewayTypeOK, Placed, LowTracked, StillLow
  <1>8. QED
    BY <1>1, <1>2, <1>3, <1>4, <1>5, <1>6, <1>7

LEMMA HandlePatchOrgKeeps ==
    ASSUME GatewayInv, NEW r \in Request, NEW o \in Org, NEW h \in Hook \cup {NoHook}, HandlePatchOrg(r, o, h)
    PROVE  GatewayInv'
  <1> USE GatewayAssumption DEF GatewayInv, Goto, Moves, Post, historyVars, callVars, redisVars, limiterVars
  <1>1. Types'
    BY DEF Apply, HandlePatchOrg, Types, GatewayTypeOK, Where, Ended, Kind, NoClaim
  <1>2. Placed'
    BY DEF Apply, HandlePatchOrg, Types, GatewayTypeOK, Placed
  <1>3. Home'
    BY DEF Apply, HandlePatchOrg, Types, GatewayTypeOK, Placed, Home, AlertsStayHome
  <1>4. Covered'
    BY DEF Apply, HandlePatchOrg, Types, GatewayTypeOK, Covered, CoveredAt, Told
  <1>5. ClaimsApart'
    BY DEF Apply, HandlePatchOrg, Types, GatewayTypeOK, Placed, ClaimsApart, Outlived, Apart
  <1>6. Tellers'
    BY DEF Apply, HandlePatchOrg, Types, GatewayTypeOK, Placed, Tellers, Teller, Told
  <1>7. LowTracked'
    BY DEF Apply, HandlePatchOrg, Types, GatewayTypeOK, Placed, LowTracked, StillLow
  <1>8. QED
    BY <1>1, <1>2, <1>3, <1>4, <1>5, <1>6, <1>7

LEMMA RedisRestartsKeeps ==
    ASSUME GatewayInv, NEW kept \in BOOLEAN, RedisRestarts(kept)
    PROVE  GatewayInv'
  <1> USE GatewayAssumption DEF GatewayInv, Goto, Moves, Post, historyVars, callVars, redisVars, limiterVars
  <1>1. Types'
    <2>1. balance' \in [Bucket -> Int]
      BY DEF RedisRestarts, Types, GatewayTypeOK
    <2>2. low' \in [Call -> BOOLEAN]
      BY StillLowType DEF RedisRestarts, Types, GatewayTypeOK
    <2>3. /\ hold' \in [Call -> Nat] /\ claimedAt' \in [Call -> Nat \cup {-1}]
          /\ claim' \in [Bucket -> [by : Call \cup {NoCall}, until : Nat]]
      BY DEF RedisRestarts, NoClaim, Types, GatewayTypeOK
    <2>4. scripts' \in BOOLEAN
      BY DEF RedisRestarts
    <2>5. UNCHANGED <<now, webhook, applied, pc, bucket, hook, asked, reserved, used, posts, known,
                      silencer>>
      BY DEF RedisRestarts
    <2>6. QED
      BY <2>1, <2>2, <2>3, <2>4, <2>5 DEF Types, GatewayTypeOK
  <1>2. Placed'
    BY DEF RedisRestarts, Types, GatewayTypeOK, Placed
  <1>3. Home'
    BY DEF RedisRestarts, Types, GatewayTypeOK, Placed, Home, AlertsStayHome
  <1>4. Covered'
    BY DEF RedisRestarts, Types, GatewayTypeOK, Covered, CoveredAt, Told
  <1>5. ClaimsApart'
    BY DEF RedisRestarts, Types, GatewayTypeOK, Placed, ClaimsApart, Outlived, Apart
  <1>6. Tellers'
    BY DEF RedisRestarts, Types, GatewayTypeOK, Placed, Tellers, Teller, Told
  <1>7. LowTracked'
    BY DEF RedisRestarts, Types, GatewayTypeOK, Placed, LowTracked, StillLow
  <1>8. QED
    BY <1>1, <1>2, <1>3, <1>4, <1>5, <1>6, <1>7

LEMMA ProxyRestartsKeeps ==
    ASSUME GatewayInv, ProxyRestarts
    PROVE  GatewayInv'
  <1> USE GatewayAssumption DEF GatewayInv, Goto, Moves, Post, historyVars, callVars, redisVars, limiterVars
  <1>1. Types'
    BY DEF ProxyRestarts, LimiterRestart, Types, GatewayTypeOK, Where, Ended
  <1>2. Placed'
    BY DEF ProxyRestarts, Ended, Types, GatewayTypeOK, Placed
  <1>3. Home'
    BY DEF ProxyRestarts, Types, GatewayTypeOK, Placed, Home, AlertsStayHome
  <1>4. Covered'
    BY DEF ProxyRestarts, Types, GatewayTypeOK, Covered, CoveredAt, Told
  <1>5. ClaimsApart'
    BY DEF ProxyRestarts, LimiterRestart, ClaimsApart, Outlived, Apart
  <1>6. Tellers'
    BY DEF ProxyRestarts, Types, GatewayTypeOK, Placed, Tellers, Teller, Told
  <1>7. LowTracked'
    BY DEF ProxyRestarts, Types, GatewayTypeOK, Placed, LowTracked, StillLow
  <1>8. QED
    BY <1>1, <1>2, <1>3, <1>4, <1>5, <1>6, <1>7

LEMMA PassesKeeps ==
    ASSUME GatewayInv, Passes
    PROVE  GatewayInv'
  <1> USE GatewayAssumption DEF GatewayInv, Goto, Moves, Post, historyVars, callVars, redisVars, limiterVars
  <1>1. Types'
    BY DEF Passes, Tick, Types, GatewayTypeOK
  <1>2. Placed'
    BY DEF Passes, Types, GatewayTypeOK, Placed
  <1>3. Home'
    BY DEF Passes, Types, GatewayTypeOK, Placed, Home, AlertsStayHome
  <1>4. Covered'
    BY DEF Passes, Types, GatewayTypeOK, Covered, CoveredAt, Told
  <1>5. ClaimsApart'
    BY DEF Passes, Tick, Types, GatewayTypeOK, ClaimsApart, Outlived, Apart
  <1>6. Tellers'
    BY DEF Passes, Types, GatewayTypeOK, Placed, Tellers, Teller, Told
  <1>7. LowTracked'
    BY DEF Passes, Types, GatewayTypeOK, Placed, LowTracked, StillLow
  <1>8. QED
    BY <1>1, <1>2, <1>3, <1>4, <1>5, <1>6, <1>7

\* The limiter, a handler that fails, and a step of nobody touch none of it.
LEMMA OtherKeeps ==
    ASSUME GatewayInv, now' = now, applied' \subseteq Request,
           UNCHANGED <<webhook, redisVars, pc, callVars, historyVars>>
    PROVE  GatewayInv'
  <1> USE DEF GatewayInv, historyVars, callVars, redisVars
  <1>1. Types'
    BY DEF Types, GatewayTypeOK
  <1>2. Placed' /\ Home'
    BY DEF Placed, Home, AlertsStayHome
  <1>3. Covered' /\ Tellers'
    BY DEF Covered, Tellers, Teller, Told
  <1>4. ClaimsApart' /\ LowTracked'
    BY DEF ClaimsApart, Outlived, Apart, LowTracked
  <1>5. QED
    BY <1>1, <1>2, <1>3, <1>4

LEMMA HandlerKeeps ==
    ASSUME GatewayInv, NEW c \in Call, Handler(c)
    PROVE  GatewayInv'
  BY UnauthorizedKeeps, AuthenticateKeeps, ReserveGrantedKeeps, ReserveDeniedKeeps,
     ReserveErrsKeeps, FailOpenAtKeeps, BudgetExhaustedKeeps, SettleKeeps, ReleaseKeeps,
     EndFailsKeeps, ReadBalanceKeeps, ReadBalanceFailsKeeps, TryClaimKeeps, ClaimTakenKeeps,
     ClaimFailsKeeps, BudgetWarning80Keeps DEF Handler

LEMMA AdminKeeps ==
    ASSUME GatewayInv, NEW r \in Request, Admin(r)
    PROVE  GatewayInv'
  <1>1. CASE Limiter(r)
    <2>1. /\ now' = now /\ applied' \subseteq Request
          /\ UNCHANGED <<webhook, redisVars, pc, callVars, historyVars>>
      BY <1>1 DEF Limiter, Arrive, Decide, GatewayInv, Types, GatewayTypeOK
    <2>2. QED
      BY <2>1, OtherKeeps
  <1>2. CASE HandleFails(r)
    <2>1. /\ now' = now /\ applied' \subseteq Request
          /\ UNCHANGED <<webhook, redisVars, pc, callVars, historyVars>>
      BY <1>2 DEF HandleFails, Apply, limiterVars, GatewayInv, Types, GatewayTypeOK
    <2>2. QED
      BY <2>1, OtherKeeps
  <1>3. ASSUME NEW b \in Bucket, NEW n \in Grant, HandlePut(r, b, n) \/ HandleTopup(r, b, n)
        PROVE  GatewayInv'
    <2>1. balance[b] \in Int /\ n \in Int
      BY GatewayAssumption DEF GatewayInv, Types, GatewayTypeOK
    <2>2. CASE HandlePut(r, b, n)
      BY <2>1, <2>2, SetBucketKeeps DEF HandlePut
    <2>3. CASE HandleTopup(r, b, n)
      <3>1. PICK m \in Int : m = balance[b] + n
        BY <2>1
      <3>2. Apply(r) /\ SetBucket(b, m)
        BY <2>3, <3>1 DEF HandleTopup
      <3>3. QED
        BY <3>2, SetBucketKeeps
    <2>4. QED
      BY <1>3, <2>2, <2>3
  <1>4. QED
    BY <1>1, <1>2, <1>3, HandlePatchOrgKeeps DEF Admin

LEMMA GatewayInvInit == GatewayInit => GatewayInv
  <1> SUFFICES ASSUME GatewayInit PROVE GatewayInv
    OBVIOUS
  <1> USE GatewayAssumption DEF GatewayInit, LimiterInit
  <1>1. Types
    BY DEF Types, GatewayTypeOK, Where, Ended, NoClaim, NoBucket
  <1>2. Placed /\ Home
    BY DEF Placed, Home, AlertsStayHome
  <1>3. Covered
    BY DEF Covered, CoveredAt
  <1>4. ClaimsApart
    BY DEF ClaimsApart, Outlived, Apart
  <1>5. Tellers /\ LowTracked
    BY DEF Tellers, LowTracked
  <1>6. QED
    BY <1>1, <1>2, <1>3, <1>4, <1>5 DEF GatewayInv

LEMMA GatewayInvStep == GatewayInv /\ [GatewayNext]_gatewayVars => GatewayInv'
  <1> SUFFICES ASSUME GatewayInv, [GatewayNext]_gatewayVars PROVE GatewayInv'
    OBVIOUS
  <1>1. CASE GatewayNext
    BY <1>1, HandlerKeeps, AdminKeeps, RedisRestartsKeeps, ProxyRestartsKeeps, PassesKeeps
       DEF GatewayNext
  <1>2. CASE UNCHANGED gatewayVars
    <2>1. /\ now' = now /\ applied' \subseteq Request
          /\ UNCHANGED <<webhook, redisVars, pc, callVars, historyVars>>
      BY <1>2 DEF gatewayVars, limiterVars, GatewayInv, Types, GatewayTypeOK
    <2>2. QED
      BY <2>1, OtherKeeps
  <1>3. QED
    BY <1>1, <1>2

THEOREM GatewayInvariant == GatewaySpec => []GatewayInv
  BY GatewayInvInit, GatewayInvStep, PTL DEF GatewaySpec

-----------------------------------------------------------------------------
(* The theorems *)

\* Every variable stays in its type; above all, no reservation holds a negative
\* amount (estimate.go's sum, and what Redis does of it).
THEOREM GatewayIsTyped == GatewaySpec => []GatewayTypeOK
  <1>1. GatewayInv => GatewayTypeOK
    BY DEF GatewayInv, Types
  <1>2. QED
    BY <1>1, GatewayInvariant, PTL

\* Alerts of an org go to its own webhooks or, for a time it had none, to the
\* global one, whatever is patched meanwhile (auth.go, alert.go).
THEOREM AlertsAreHome == GatewaySpec => []AlertsStayHome
  <1>1. GatewayInv => AlertsStayHome
    BY DEF GatewayInv, Home
  <1>2. QED
    BY <1>1, GatewayInvariant, PTL

\* A call is forwarded under a hold that covers its max_tokens, or its fail-open is
\* told, through wrapped estimates and lost scripts (estimate.go, client.go).
THEOREM ForwardsAreCovered == GatewaySpec => []ForwardedIsCovered
  <1>1. GatewayInv => ForwardedIsCovered
    BY DEF GatewayInv, Covered, CoveredAt, ForwardedIsCovered
  <1>2. QED
    BY <1>1, GatewayInvariant, PTL

\* Two calls that warn of one bucket under claims are a window apart (TryClaim).
THEOREM WarningsAreApart == GatewaySpec => []OneWarningPerWindow
  <1>1. GatewayInv => OneWarningPerWindow
    <2> SUFFICES ASSUME GatewayInv, NEW p \in posts, NEW q \in posts,
                        p.call # q.call, bucket[p.call] = bucket[q.call],
                        0 <= claimedAt[p.call], claimedAt[p.call] <= claimedAt[q.call]
                 PROVE  claimedAt[q.call] - claimedAt[p.call] >= ClaimTTL
      BY DEF OneWarningPerWindow
    <2>1. p.call \in Call /\ q.call \in Call
      BY DEF GatewayInv, Types, GatewayTypeOK
    <2>2. QED
      BY <2>1 DEF GatewayInv, ClaimsApart, Apart
  <1>2. QED
    BY <1>1, GatewayInvariant, PTL

\* A call is silenced by one that has posted, is about to, or died
\* (MaybeBudgetWarning80 claims before it posts).
THEOREM SilenceIsTold == GatewaySpec => []SilencedByTeller
  <1>1. GatewayInv => SilencedByTeller
    BY DEF GatewayInv, Tellers, Teller, SilencedByTeller
  <1>2. QED
    BY <1>1, GatewayInvariant, PTL

\* A bucket that is low from a settlement on is noticed by it, whatever others
\* reserve, settle, release or top up in between (maybeWarn80, ShouldWarn80).
THEOREM LowBucketsAreNoticed == GatewaySpec => []LowIsNoticed
  <1>1. GatewayInv => LowIsNoticed
    BY DEF GatewayInv, LowTracked, LowIsNoticed
  <1>2. QED
    BY <1>1, GatewayInvariant, PTL

-----------------------------------------------------------------------------
(* The limiter inside the gateway *)

LEMMA LimiterStep == [GatewayNext]_gatewayVars => [LimiterNext]_limiterVars
  <1> SUFFICES ASSUME [GatewayNext]_gatewayVars PROVE [LimiterNext]_limiterVars
    OBVIOUS
  <1>1. CASE UNCHANGED gatewayVars
    BY <1>1 DEF gatewayVars
  <1>2. ASSUME NEW c \in Call, Handler(c) PROVE UNCHANGED limiterVars
    BY <1>2 DEF Handler, Unauthorized, Authenticate, ReserveGranted, ReserveDenied, ReserveErrs,
       FailOpenAt, BudgetExhausted, EndHold, Moves, Post, Settle, Release, EndFails, ReadBalance,
       ReadBalanceFails, Claims, TryClaim, ClaimTaken, ClaimFails, BudgetWarning80
  <1>3. ASSUME NEW r \in Request, Admin(r) PROVE [LimiterNext]_limiterVars
    BY <1>3 DEF Admin, Limiter, HandlePut, HandleTopup, SetBucket, HandlePatchOrg, HandleFails,
       LimiterNext
  <1>4. ASSUME NEW kept \in BOOLEAN, RedisRestarts(kept) PROVE UNCHANGED limiterVars
    BY <1>4 DEF RedisRestarts
  <1>5. CASE ProxyRestarts \/ Passes
    BY <1>5 DEF ProxyRestarts, Passes, LimiterNext
  <1>6. QED
    BY <1>1, <1>2, <1>3, <1>4, <1>5 DEF GatewayNext

\* The gateway runs its limiter as RateLimiter says: calls, handlers and restarts
\* of Redis are no steps of it.
THEOREM GatewayLimits == GatewaySpec => LimiterSpec
  <1>1. GatewayInit => LimiterInit
    BY DEF GatewayInit
  <1>2. QED
    BY <1>1, LimiterStep, PTL DEF GatewaySpec, LimiterSpec

\* The admin API of the running gateway admits no more than its limit (allow).
THEOREM GatewayWithinLimit == GatewaySpec => []WithinLimit
  BY GatewayLimits, LimiterIsSafe, PTL

\* And refuses no request for less (allow).
THEOREM GatewayRefusesAtLimit == GatewaySpec => []RefusedAtLimit
  BY GatewayLimits, LimiterIsFair, PTL
=============================================================================
