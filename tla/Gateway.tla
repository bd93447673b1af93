------------------------------- MODULE Gateway -------------------------------
(***************************************************************************)
(* The hosted gateway in enforce mode, round the budget scripts: who a     *)
(* call's key says it is, what its body is estimated at, the alerts it     *)
(* raises, the once-per-window warning after its settlement, the admin API *)
(* behind its rate limiter, and the restarts of Redis and of the proxy.    *)
(*                                                                         *)
(* Each call has a request id of its own and each round trip to Redis is   *)
(* one step that runs or fails; RequestLifecycle has shared ids, replies   *)
(* that are lost and the retries.  The buckets table, the usage rows and   *)
(* the metrics, which nothing here reads, are left out.  posts, known,     *)
(* low, claimedAt and silencer are history: no step reads them.            *)
(***************************************************************************)
EXTENDS RateLimiter

CONSTANTS
    Call,           \* LLM calls
    Org,            \* orgs with an API key in use
    Name,           \* bucket names a client may put in X-Budget-Bucket-Id
    DefaultBucket,  \* DefaultBucket[o]: orgs.default_bucket_id, NoName when empty
    NoName,
    Hook,           \* Slack webhooks of orgs
    GlobalHook,     \* SLACK_WEBHOOK_URL
    NoHook,
    NoCall,
    MaxTokens,      \* values of max_tokens; 0 stands for none, and for a bad body
    DefaultEstimate, PromptBuffer,
    HalfRange,      \* 2^63: an int64 is in -HalfRange..HalfRange-1
    Usage,          \* token counts an upstream may report
    Grant,          \* balances an administrator may set or add
    FirstBalance,   \* what every bucket has at first
    ClaimTTL        \* how long a warning silences the next

Bucket == Org \X (Name \cup {"default"})

NoBucket == <<NoName, NoName>>

Kind == {"fail_open", "budget_exhausted", "budget_warning_80"}

ASSUME GatewayAssumption ==
    /\ NoName \notin Name /\ NoHook \notin Hook \cup {GlobalHook} /\ NoCall \notin Call
    /\ DefaultBucket \in [Org -> Name \cup {NoName}]
    /\ HalfRange \in Nat \ {0}
    /\ MaxTokens \subseteq 0..HalfRange - 1 /\ PromptBuffer \in 0..HalfRange - 1
    /\ DefaultEstimate \in Nat \ {0} /\ Usage \subseteq Nat /\ Grant \subseteq Nat
    /\ FirstBalance \in Int /\ ClaimTTL \in Nat

VARIABLES
    webhook,    \* webhook[o]: orgs.slack_webhook_url
    applied,    \* admin requests whose handler has run
    balance,    \* balance[b]: the counter of bucket b in Redis
    hold,       \* hold[c]: the tokens of the reservation of c in Redis, 0 if none
    scripts,    \* Redis has the scripts the proxy loaded when it started
    claim,      \* claim[b]: the key alert:warn80:<b>, by whom and until when
    pc,         \* pc[c]: where the handler of c is
    bucket,     \* bucket[c], hook[c]: what the request context of c carries
    hook,
    asked,      \* asked[c]: max_tokens
    reserved,   \* reserved[c]: what the request context carries as reserved
    used,       \* used[c]: what c is settled at
    posts,      \* history: the alerts tried, [kind, call, to]
    known,      \* history: the webhooks the org of c has had since c was authenticated
    low,        \* history: the bucket of c has been low ever since c settled
    claimedAt,  \* history: when c took its claim, -1 if it took none Redis remembers
    silencer    \* history: the call that had the claim c found taken

redisVars == <<balance, hold, scripts, claim>>
callVars == <<bucket, hook, asked, reserved, used>>
historyVars == <<posts, known, low, claimedAt, silencer>>
gatewayVars ==
    <<limiterVars, webhook, applied, redisVars, pc, callVars, historyVars>>

NoClaim == [by |-> NoCall, until |-> 0]

GatewayInit ==
    /\ LimiterInit
    /\ webhook \in [Org -> Hook \cup {NoHook}]
    /\ applied = {}
    /\ balance = [b \in Bucket |-> FirstBalance]
    /\ hold = [c \in Call |-> 0]
    /\ scripts = TRUE
    /\ claim = [b \in Bucket |-> NoClaim]
    /\ pc = [c \in Call |-> "idle"]
    /\ bucket = [c \in Call |-> NoBucket]
    /\ hook = [c \in Call |-> NoHook]
    /\ asked = [c \in Call |-> 0]
    /\ reserved = [c \in Call |-> 0]
    /\ used = [c \in Call |-> 0]
    /\ posts = {}
    /\ known = [c \in Call |-> {}]
    /\ low = [c \in Call |-> FALSE]
    /\ claimedAt = [c \in Call |-> -1]
    /\ silencer = [c \in Call |-> NoCall]

Goto(c, where) == pc' = [pc EXCEPT ![c] = where]

\* A step of the handler that changes nothing but where it is.
Moves(c, from, to) ==
    /\ pc[c] = from /\ Goto(c, to)
    /\ UNCHANGED <<limiterVars, webhook, applied, redisVars, callVars, historyVars>>

\* A bucket is low for a call that used n: a fifth, or less, of what it had.
LowAt(remaining, n) == 4 * remaining <= n

\* What the balances bal make of "low ever since".
StillLow(bal) ==
    [c \in Call |-> low[c] /\ (pc[c] = "settled" => LowAt(bal[bucket[c]], used[c]))]

-----------------------------------------------------------------------------
(* auth.go, LookupAPIKey: no key, an unknown one, a revoked one, or a failed *)
(* query are all 401.                                                        *)

Unauthorized(c) == Moves(c, "idle", "unauthorized")

\* The bucket the header names, or the org's default, or "default".
BucketFor(o, name) ==
    <<o, IF name # NoName THEN name
         ELSE IF DefaultBucket[o] # NoName THEN DefaultBucket[o] ELSE "default">>

\* A seeded bug: the webhook of the org is left out of the context.
AuthenticateBare(c, o, name, n) ==
    /\ pc[c] = "idle"
    /\ bucket' = [bucket EXCEPT ![c] = BucketFor(o, name)]
    /\ hook' = [hook EXCEPT ![c] = NoHook]
    /\ asked' = [asked EXCEPT ![c] = n]
    /\ known' = [known EXCEPT ![c] = {webhook[o]}]
    /\ Goto(c, "precheck")
    /\ UNCHANGED <<limiterVars, webhook, applied, redisVars, reserved, used, posts, low,
                   claimedAt, silencer>>

\* The key is org o's: what the row says now goes with the call to its end.
Authenticate(c, o, name, n) ==
    /\ pc[c] = "idle"
    /\ bucket' = [bucket EXCEPT ![c] = BucketFor(o, name)]
    /\ hook' = [hook EXCEPT ![c] = webhook[o]]
    /\ asked' = [asked EXCEPT ![c] = n]
    /\ known' = [known EXCEPT ![c] = {webhook[o]}]
    /\ Goto(c, "precheck")
    /\ UNCHANGED <<limiterVars, webhook, applied, redisVars, reserved, used, posts, low,
                   claimedAt, silencer>>

-----------------------------------------------------------------------------
(* estimate.go, the pre-check *)

\* The int64 that the integer n becomes.
Wrap(n) == ((n + HalfRange) % (2 * HalfRange)) - HalfRange

\* A seeded bug: max_tokens is never looked at.
EstimateDefault(n) == DefaultEstimate

Estimate(n) == IF n <= 0 THEN DefaultEstimate ELSE Wrap(n + PromptBuffer)

\* A seeded bug: nothing stops a script that was given a negative estimate.
RunsAny(n) == scripts

\* Redis runs the script if it has it.  Lua turns a wrapped, so hugely negative,
\* estimate into a float, which DECRBY refuses: the script fails before it writes.
Runs(n) == scripts /\ n >= 0

ReserveGranted(c) ==
    LET n == Estimate(asked[c])
        left == [balance EXCEPT ![bucket[c]] = @ - n]
    IN  /\ pc[c] = "precheck" /\ Runs(n)
        /\ balance[bucket[c]] >= n
        /\ balance' = left
        /\ hold' = [hold EXCEPT ![c] = n]
        /\ reserved' = [reserved EXCEPT ![c] = n]
        /\ low' = StillLow(left)
        /\ Goto(c, "forwarded")
        /\ UNCHANGED <<limiterVars, webhook, applied, scripts, claim, bucket, hook, asked, used,
                       posts, known, claimedAt, silencer>>

ReserveDenied(c) ==
    LET n == Estimate(asked[c])
    IN  /\ pc[c] = "precheck" /\ Runs(n) /\ balance[bucket[c]] < n
        /\ Moves(c, "precheck", "exhausted")

\* A seeded bug: the error of a missing script is taken for an answer.
ReserveErrsQuietly(c) == Moves(c, "precheck", IF scripts THEN "failopen" ELSE "forwarded")

\* Any error, a missing script among them, is a reason to forward fail-open.
ReserveErrs(c) == Moves(c, "precheck", "failopen")

-----------------------------------------------------------------------------
(* alert.go *)

ResolveWebhook(h) == IF h # NoHook THEN h ELSE GlobalHook

\* postSlack, to the webhook of the context; whether Slack takes it changes nothing.
Post(c, from, kind, to) ==
    /\ pc[c] = from /\ Goto(c, to)
    /\ posts' = posts \cup {[kind |-> kind, call |-> c, to |-> ResolveWebhook(hook[c])]}
    /\ UNCHANGED <<limiterVars, webhook, applied, redisVars, callVars, known, low, claimedAt,
                   silencer>>

FailOpenAt(c) == Post(c, "failopen", "fail_open", "forwarded")

BudgetExhausted(c) == Post(c, "exhausted", "budget_exhausted", "denied")

-----------------------------------------------------------------------------
(* The answer, its settlement or release, and the warning of settle_retry.go *)

\* The upstream answered, or failed; Redis may not do what the proxy then asks.
EndHold(c, bal) ==
    /\ pc[c] = "forwarded"
    /\ balance' = bal
    /\ hold' = [hold EXCEPT ![c] = 0]
    /\ UNCHANGED <<limiterVars, webhook, applied, scripts, claim, bucket, hook, asked, reserved,
                   posts, known, claimedAt, silencer>>

\* A settlement that finds no hold succeeds, and moves nothing.
Settle(c, n) ==
    LET bal == IF hold[c] = 0 THEN balance
               ELSE [balance EXCEPT ![bucket[c]] = @ + hold[c] - n]
    IN  /\ scripts
        /\ EndHold(c, bal)
        /\ used' = [used EXCEPT ![c] = n]
        /\ low' = [StillLow(bal) EXCEPT ![c] = LowAt(bal[bucket[c]], n)]
        /\ Goto(c, "settled")

Release(c) ==
    LET bal == [balance EXCEPT ![bucket[c]] = @ + hold[c]]
    IN  /\ scripts
        /\ EndHold(c, bal)
        /\ used' = used
        /\ low' = StillLow(bal)
        /\ Goto(c, "released")

\* Every attempt at the settlement, or the one at the release, failed.
EndFails(c) == Moves(c, "forwarded", "unsettled")

\* A seeded bug: exactly a fifth is not low.
ShouldWarn80Strict(remaining, n) == remaining + n <= 0 \/ remaining * 5 < remaining + n

ShouldWarn80(remaining, n) == remaining + n <= 0 \/ remaining * 5 <= remaining + n

\* maybeWarn80 reads the balance anew: others have moved it since.
ReadBalance(c) ==
    /\ pc[c] = "settled"
    /\ Moves(c, "settled",
             IF ShouldWarn80(balance[bucket[c]], used[c]) THEN "claiming" ELSE "quiet")

ReadBalanceFails(c) == Moves(c, "settled", "unread")

\* The key is there until its TTL passes.
Taken(b) == claim[b] # NoClaim /\ now < claim[b].until

Claims(c, where) ==
    /\ claim' = [claim EXCEPT ![bucket[c]] = [by |-> c, until |-> now + ClaimTTL]]
    /\ claimedAt' = [claimedAt EXCEPT ![c] = now]
    /\ Goto(c, where)
    /\ UNCHANGED <<limiterVars, webhook, applied, balance, hold, scripts, callVars, posts, known,
                   low, silencer>>

\* A seeded bug: SET without NX.
ClaimAlways(c) == pc[c] = "claiming" /\ Claims(c, "warning")

\* A seeded bug: the claim of an org without a webhook of its own warns nobody.
ClaimUnposted(c) ==
    /\ pc[c] = "claiming" /\ ~Taken(bucket[c])
    /\ Claims(c, IF hook[c] = NoHook THEN "quiet" ELSE "warning")

\* TryClaim: SET NX with the TTL.
TryClaim(c) ==
    /\ pc[c] = "claiming" /\ ~Taken(bucket[c])
    /\ Claims(c, "warning")

ClaimTaken(c) ==
    /\ pc[c] = "claiming" /\ Taken(bucket[c])
    /\ Goto(c, "silenced")
    /\ silencer' = [silencer EXCEPT ![c] = claim[bucket[c]].by]
    /\ UNCHANGED <<limiterVars, webhook, applied, redisVars, callVars, posts, known, low, claimedAt>>

\* TryClaim fails: better twice than never.
ClaimFails(c) == Moves(c, "claiming", "warning")

BudgetWarning80(c) == Post(c, "warning", "budget_warning_80", "warned")

Handler(c) ==
    \/ Unauthorized(c)
    \/ \E o \in Org, name \in Name \cup {NoName}, n \in MaxTokens : Authenticate(c, o, name, n)
    \/ ReserveGranted(c) \/ ReserveDenied(c) \/ ReserveErrs(c)
    \/ FailOpenAt(c) \/ BudgetExhausted(c)
    \/ \E n \in Usage \cup {reserved[c]} : Settle(c, n)
    \/ Release(c) \/ EndFails(c)
    \/ ReadBalance(c) \/ ReadBalanceFails(c)
    \/ TryClaim(c) \/ ClaimTaken(c) \/ ClaimFails(c) \/ BudgetWarning80(c)

-----------------------------------------------------------------------------
(* The admin API: a request the limiter admitted has its handler run once.  *)

Apply(r) ==
    /\ verdict[r] = "admitted" /\ r \notin applied
    /\ applied' = applied \cup {r}

SetBucket(b, n) ==
    LET bal == [balance EXCEPT ![b] = n]
    IN  /\ scripts
        /\ balance' = bal
        /\ low' = StillLow(bal)
        /\ UNCHANGED <<limiterVars, webhook, hold, scripts, claim, pc, callVars, posts, known,
                       claimedAt, silencer>>

HandlePut(r, b, n) == Apply(r) /\ SetBucket(b, n)

HandleTopup(r, b, n) == n > 0 /\ Apply(r) /\ SetBucket(b, balance[b] + n)

HandlePatchOrg(r, o, h) ==
    /\ Apply(r)
    /\ webhook' = [webhook EXCEPT ![o] = h]
    /\ known' = [c \in Call |-> IF bucket[c][1] = o THEN known[c] \cup {h} ELSE known[c]]
    /\ UNCHANGED <<limiterVars, redisVars, pc, callVars, posts, low, claimedAt, silencer>>

\* A bad body, a Redis without the scripts, a database that fails: 4xx or 500.
HandleFails(r) ==
    /\ Apply(r)
    /\ UNCHANGED <<limiterVars, webhook, redisVars, pc, callVars, historyVars>>

Limiter(r) ==
    /\ Arrive(r) \/ Decide(r)
    /\ UNCHANGED <<webhook, applied, redisVars, pc, callVars, historyVars>>

Admin(r) ==
    \/ Limiter(r)
    \/ \E b \in Bucket, n \in Grant : HandlePut(r, b, n) \/ HandleTopup(r, b, n)
    \/ \E o \in Org, h \in Hook \cup {NoHook} : HandlePatchOrg(r, o, h)
    \/ HandleFails(r)

-----------------------------------------------------------------------------
(* Restarts, and the clock *)

\* Redis comes back without the scripts, which it never persists, and with its keys
\* or, without persistence, with none.  The proxy loads scripts only when it starts.
RedisRestarts(kept) ==
    LET bal == IF kept THEN balance ELSE [b \in Bucket |-> 0]
    IN  /\ scripts
        /\ scripts' = FALSE
        /\ balance' = bal
        /\ low' = StillLow(bal)
        /\ IF kept THEN UNCHANGED <<hold, claim, claimedAt>>
           ELSE /\ hold' = [c \in Call |-> 0]
                /\ claim' = [b \in Bucket |-> NoClaim]
                /\ claimedAt' = [c \in Call |-> -1]
        /\ UNCHANGED <<limiterVars, webhook, applied, pc, callVars, posts, known, silencer>>

Ended == {"idle", "unauthorized", "denied", "released", "unsettled", "unread", "quiet", "silenced",
          "warned", "crashed"}

\* main: the handlers and the limiter's windows die; NewClient loads the scripts.
ProxyRestarts ==
    /\ LimiterRestart
    /\ scripts' = TRUE
    /\ pc' = [c \in Call |-> IF pc[c] \in Ended THEN pc[c] ELSE "crashed"]
    /\ UNCHANGED <<webhook, applied, balance, hold, claim, callVars, historyVars>>

Passes ==
    /\ Tick
    /\ UNCHANGED <<webhook, applied, redisVars, pc, callVars, historyVars>>

GatewayNext ==
    \/ \E c \in Call : Handler(c)
    \/ \E r \in Request : Admin(r)
    \/ \E kept \in BOOLEAN : RedisRestarts(kept)
    \/ ProxyRestarts
    \/ Passes

GatewaySpec == GatewayInit /\ [][GatewayNext]_gatewayVars

-----------------------------------------------------------------------------
Where ==
    Ended \cup {"precheck", "exhausted", "failopen", "forwarded", "settled", "claiming", "warning"}

GatewayTypeOK ==
    /\ webhook \in [Org -> Hook \cup {NoHook}]
    /\ applied \subseteq Request
    /\ balance \in [Bucket -> Int]
    /\ hold \in [Call -> Nat]
    /\ scripts \in BOOLEAN
    /\ claim \in [Bucket -> [by : Call \cup {NoCall}, until : Nat]]
    /\ pc \in [Call -> Where]
    /\ bucket \in [Call -> Bucket \cup {NoBucket}]
    /\ hook \in [Call -> Hook \cup {NoHook}]
    /\ asked \in [Call -> MaxTokens \cup {0}]
    /\ reserved \in [Call -> Nat]
    /\ used \in [Call -> Nat]
    /\ low \in [Call -> BOOLEAN]
    /\ claimedAt \in [Call -> Nat \cup {-1}]
    /\ posts \subseteq [kind : Kind, call : Call, to : Hook \cup {GlobalHook, NoHook}]

Told(c, kind) == \E p \in posts : p.call = c /\ p.kind = kind

\* An alert of a call goes to a webhook its org has had since the call was
\* authenticated, or to the global one if it has had a time without: whatever
\* administrators change meanwhile, no alert of an org leaves for elsewhere.
AlertsStayHome ==
    \A p \in posts :
        \/ p.to \in known[p.call]
        \/ p.to = GlobalHook /\ NoHook \in known[p.call]

\* A call that goes to the upstream in enforce mode holds what its max_tokens ask
\* for, or its fail-open was told: an overflowing max_tokens and a Redis that has
\* lost its scripts, for one call or for all until the proxy restarts, forward
\* nothing in silence.
ForwardedIsCovered ==
    \A c \in Call :
        pc[c] \in {"forwarded", "released", "settled", "quiet", "warned"} =>
            \/ Told(c, "fail_open")
            \/ reserved[c] > 0 /\ reserved[c] >= asked[c]

\* A bucket is warned of once a window, by whichever of its calls claims it first;
\* only a claim Redis failed to answer for, or lost, lets another through.
OneWarningPerWindow ==
    \A p, q \in posts :
        LET s == claimedAt[p.call]
            t == claimedAt[q.call]
        IN  (/\ p.kind = "budget_warning_80" /\ q.kind = "budget_warning_80"
             /\ p.call # q.call /\ bucket[p.call] = bucket[q.call]
             /\ 0 <= s /\ s <= t)
                => t - s >= ClaimTTL

\* A warning is withheld only for another's: the call that holds the claim of the
\* bucket has posted, is about to, or died with the process in between.
SilencedByTeller ==
    \A c \in Call :
        pc[c] = "silenced" =>
            LET h == silencer[c]
            IN  /\ h \in Call \ {c} /\ bucket[h] = bucket[c]
                /\ Told(h, "budget_warning_80") \/ pc[h] \in {"warning", "crashed"}

\* The balance the warning looks at is not the one its settlement left.  Still: a
\* call ends without a warning only if its bucket was not low at some moment after
\* it settled; what others reserve or settle in between cannot hide a bucket that
\* is low all the while.
LowIsNoticed == \A c \in Call : pc[c] = "quiet" => ~low[c]
=============================================================================
