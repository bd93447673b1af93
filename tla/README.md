# TLA+ models of Token Guard

Token Guard is a Go reverse proxy that puts token budgets in front of LLM providers. Before a call is
forwarded it reserves an estimate of the call's tokens from a bucket kept in Redis; when the answer ends
it settles what the answer says was used, or releases the reservation. This directory holds TLA+ modules
of that program, TLC configurations that check them on small instances, and TLAPS proofs of what matters
most for every instance.

## Inventory

| Component | State it keeps | Operations | Talks to |
|---|---|---|---|
| Budget scripts (`internal/budget/lua`) | Redis: counter `budget:<org>:<bucket>`, hash `reservation:<request id>` with a TTL | `reserve_budget`, `settle_budget`, `release_budget`, `set_budget` (set, topup) | called by the budget client, atomically |
| Budget client (`client.go`, `checker.go`, `settlement.go`, `admin.go`) | connection pool, script hashes | Reserve, Settle, Release, SetBalance, TopupBalance, GetBalance | Redis, with a 50 ms read timeout |
| Enforcement (`enforcement.go`) | mode (off, shadow, enforce) | PreCheck | Reserve under `PRECHECK_TIMEOUT_MS`; errors fail open |
| Proxy handler (`handler.go`) | request context: id, reserved, bucket, org | ServeHTTP, modifyResponse, errorHandler, logRelease | enforcement, upstream, Release, usage rows |
| Settling reader, stream tap | buffered body or last usage, a `sync.Once` | Read, Close | ReverseProxy drives them; they start settlements |
| Settlement (`settle_retry.go`) | none | three attempts with backoff, usage row, 80% warning | Settle, `usage_events`, alerter; in the handler for JSON, in a goroutine for streams |
| Estimate (`estimate.go`) | none | body to estimate, in int64 | handler |
| Provider routing (`provider.go`) | none | path to upstream host and extractors | handler, readers |
| SSE parser, usage extractors (`internal/usage`) | line buffer, pending data | Feed, Flush, extract | stream tap, settling reader |
| Alerts (`alert.go`) | Redis `alert:warn80:*` for an hour | FailOpenAt, BudgetExhausted, MaybeBudgetWarning80 | Slack, synchronously |
| Billing, provisioning (`internal/billing`) | none of its own | StartCheckout, HandleWebhook, ProvisionSignup | Stripe, org store, SetBalance, setup secret |
| Setup secret, signup | Redis `setup:session:*`, `setup:org:*` for 15 min | Put, Take (GETDEL), Slack form | provisioner, browser |
| Org store, usage store (`internal/store`) | Postgres `orgs`, `api_keys`, `buckets`, `usage_events` (memory without a database) | create, look up, upgrade, downgrade, insert, summarise | everything above |
| Auth middleware (`auth.go`) | none | key to org | org store, handler |
| Admin API, account and ops pages | rate limiter windows, under a mutex | balances, orgs, keys, checkout | budget client, stores, billing |
| Server, configuration, wiring (`main.go`, `server.go`, `config.go`) | mux | routes, readiness | mounts all of it |

What makes each correct, and what is hard about it:

- **Scripts and client.** Balance, holds and charges must add up under every interleaving of callers who
  do not coordinate: retries after lost replies, settlements after expiry, an id reused in another bucket,
  an administrator's SET in the middle. No script ever adds the holds up, so no test can compare.
- **Handler, readers, settlement.** Each hold must be ended by the call that took it, on every path:
  errors, cancelled contexts, missing usage, Redis failures. The body's end, a cancelled read and Close
  race for one settlement; the client may leave and the process may die between any two steps.
- **Parser and extractors.** The events of a stream must not depend on how the network cuts it, nor the
  extractors on anything but the provider the path chose; a stream may break at any byte.
- **Alerts.** A claim is taken before the post; the balance compared was read after other calls moved it; the
  webhook was read when the call was authenticated. A process or a Redis may restart between any two of these.
- **Estimate and scripts.** `max_tokens` plus the buffer may wrap; a restarted Redis has none of the scripts.
- **Rate limiter.** The clock is read before the lock is had, so stamps are decided out of order.
- **Provisioning.** Stripe delivers at least once and in any order; provisioning is a sequence of writes
  to two stores, any of which may fail, repeated from the start on redelivery.
- **Wiring.** Which collaborators exist in which mode.

`PROJECT.json` lists these parts with their status, and the hazards of the code at their lines.

## Modules

| Module | Models | Uses |
|---|---|---|
| `BudgetLedger` | what the engine promises: funds, charges, forfeits and holds; availability computed, never stored | |
| `BudgetScripts` | the four scripts and the expiry of hashes, as actions on Redis' keys | INSTANCE `BudgetLedger` |
| `BudgetEngine` | the scripts under any callers | EXTENDS `BudgetScripts` |
| `RequestLifecycle` | exchanges: pre-check, forwarding, release, body, settlement, usage row, with failures | EXTENDS `BudgetScripts`, INSTANCE `BudgetEngine` |
| `Provisioning` | webhook deliveries, the org rows and setup keys they write, the pages and admin calls that touch them | |
| `SSEParser` | the parser of server-sent events, as operators on its state | |
| `UsageReaders` | the provider of a path, the extractors, the two readers of a body, chunk by chunk | EXTENDS `SSEParser` |
| `RateLimiter` | the sliding window of the admin API and its lock | |
| `Gateway` | authentication, estimate, alerts and the warning's claim of calls; the admin handlers behind the limiter; restarts of Redis and of the proxy | EXTENDS `RateLimiter` |
| `BudgetScriptsProofs`, `BudgetEngineProofs`, `RequestLifecycleProofs`, `ProvisioningProofs`, `SSEParserProofs`, `UsageReadersProofs`, `RateLimiterProofs`, `GatewayProofs` | the theorems | EXTENDS the above |
| `MCBudgetEngine`, `MCRequestLifecycle`, `MCProvisioning`, `MCUsageReaders`, `MCGateway` | constants and bounds for TLC | |

The chain is: `RequestLifecycle` implements `BudgetEngine` (property `UsesEngine`), which implements
`BudgetLedger` (property `LedgerSpec`); the theorem `LifecycleImplementsLedger` states the whole of it. Beside it, `Gateway` implements `RateLimiter` (theorem
`GatewayLimits`). `UsageReaders` details what `RequestLifecycle` leaves as a choice, the usage a reader finds;
`Gateway` details what it leaves as constants or out, the estimate, the bucket, the alerts and the restarts,
over one reserve, one settlement and one release per call.

### BudgetScripts

`balance[b]` is the counter of a scoped bucket (`<org>:<bucket>`; absent keys read as 0, so balances start
at 0), `hold[i]` the hash of request id `i`. One action per script, each atomic because Redis runs Lua
scripts one at a time; branches are the scripts' branches. `ExpireHold` is Redis' own: `EXPIRE` is set on
the hash alone, so the counter stays. `funds`, `spent`, `forfeited` and `overrun` are history: no key
stores them and no guard of a script reads them. With them `BalanceIsAvailable` can say what no script
computes: that the counter is what the ledger says is available.

### RequestLifecycle

An exchange is one HTTP call. `phase[x]` is where its handler is:
`idle` → `precheck` → `forward` → `body` → `closing` → `served`, or → `releasing` → `logging` → `released`,
or `rejected` (400), `denied` (429), `unreleased` (the one Release failed), `passed` (neither released nor
settled: 3xx, a 2xx other than 200, anything in off mode), `crashed`. `settle[x]` runs beside it, because a
stream settles in a goroutine of its own; a JSON body settles inside Read or Close, so its `CloseBody` waits
for it. `reserved`, `bypass` and `gone` are what the request context carries, `seen` what the reader found,
`outcome` and `actual` what the settlement was started with, `rows` the usage rows written.

| Action | Code |
|---|---|
| `RejectBody`, `ArriveUnmetered`, `ArriveMetered` | `Handler.ServeHTTP` up to the pre-check |
| `ReserveAnswered`, `ReserveTimedOut`, `ReserveUnanswered` | `Enforcement.PreCheck` and the rest of `ServeHTTP` |
| `UpstreamErrorStatus`, `UpstreamOK`, `UpstreamPassedThrough`, `TransportError` | `modifyResponse`, `errorHandler` up to the release |
| `ReleaseApplied`, `ReleaseFailed`, `LogRelease` | the release in both, and `logRelease` |
| `ReadUsage`, `ReadEOF`, `ReadCancelled`, `CopyFailed`, `CloseBody` | `Read` and `Close` of both readers, as `httputil.ReverseProxy` calls them |
| `SettleApplied`, `SettleFailed`, `LogSettled` | `settleWithRetrySync`, `logUsageEvent` |
| `LateReserve`, `ClientLeaves`, `Crash`, `Expire`, `SetBalance` | Redis, the network, the operating system, time, administrators |

Abstractions, and why they are sound for the properties:

- A round trip to Redis is one step: either the script runs and the reply is used, or it runs and the reply
  is lost, or it does not run. A *reserve* given up may also run later (`LateReserve`), because then it takes
  a hold. A settlement or release that runs late only ends a hold the call would have left to the TTL, so for
  calls with ids of their own it is covered by the expiry that may come at any time; late settlements of
  an id that another call has meanwhile reserved again are not modelled.
- go-redis repeats a command after a network error. A repeated script finds the hash it left, or finds none,
  and changes nothing; one run per attempt is the same.
- The estimate is a constant of the exchange and usage a choice among a few counts.
- Shared ids: `IdOf` maps exchanges to ids, so a client's retry, or two clients that choose one id, is two
  exchanges with one id. Exchanges of one id may name different buckets.
- `Crash` stops every call being served, on one proxy; what is in Redis, Postgres and Redis' socket survives.
- The bucket registry, metrics and Slack posts are left out: no step reads them back.

### Provisioning

A delivery is one `POST /billing/webhook`; `job[d]` is where its handler is. Each step is one SQL statement or
one Redis command, so two deliveries interleave at every one of them, and `Fail` may end a delivery between
any two (an error, a lost answer, the end of the process). Stripe delivers a completed session, and the end of
a cancelled subscription, at any time, in any order and again after a 200: `DeliverCompleted` and
`DeliverDeleted` have no other guard.

| Steps of a delivery | Code |
|---|---|
| `find` → `insert` → `apply` | `FindOrgByEmail`, `CreateOrgWithEmail`, `ApplyCheckoutCompleted`; an operator's session starts at `apply` and is then answered |
| → `bucket` → `register` → `seed` → `key` | `SetDefaultBucket`, `UpsertBucket`, `SetBalance`, `CreateAPIKey` |
| → `secret` → `setuporg` → `answer` | the two SETs of `PutSetupSecret`, then 200 |
| `downgrade` → `answer` | `DowngradeBySubscription`, whose NotFound is a 200 as well |

Beside them: `TakeSetupSecret` (GETDEL by `GET /setup`), `SetupSlack`, `AccountSlack` (the account page and
`PATCH /me/slack`), the operator's `AdminCreateOrg`, `AdminPatchOrg`, `AdminCreateKey`, and the expiry of
either setup key. `org[o]` is a row of `orgs`, `registered` the table `buckets`, `seeded` the counters that
exist, `secret` and `setupOrg` the two Redis keys; `acked`, `ended`, `revealed` are history.

Abstractions:

- The two look-ups of an email (by the provisioner, then by `CreateOrgWithEmail`) are one: nothing happens
  between finding no org and looking again that the insertion does not also meet.
- A session stands for its subscription: Checkout opens one per session. A Slack webhook is named by whom it
  belongs to; the operator's, or none, is `NoOne`. `SetupSlack` and `AccountSlack` read the org and write the
  row in one step, because the org of a session and of a key never change.
- Customers sign up with their own address, as Checkout and the form assume.
- Only `main`'s wiring: Postgres, a provisioner with Redis (billing needs an org store, an org store needs
  Redis). What a seeding does to a balance in use is `SetBalance` of `BudgetEngine`.
- The customer id, the signature, the HTTP to Stripe, bucket registrations by calls, and a pipeline repeated by
  go-redis after a network error are left out.

### SSEParser and UsageReaders

A stream is a sequence of tokens, one for each thing the parser and the extractors tell apart: line feed,
carriage return, space, colon, the field name `data:` in two halves so that a cut may fall inside it, `[DONE]`,
and tokens of JSON, among them the halves of a document whose event has two `data:` lines. `Feed`, `Flush` and
their helpers are the functions of `parser.go` on a record of the parser's fields and the events it yields.

| Action | Code |
|---|---|
| `Init` | `resolve` on the path, then the choice of reader by `modifyResponse`: event stream or body |
| `Read` | `Read` of `streamTap` and of `settlingReader`, with any number of bytes, EOF with the last or after it, or an error |
| `ReadCancelled`, `CloseBody` | their other paths: a cancelled context, and Close |
| `ClientLeaves` | the request context is cancelled |

`route` is the host and the extractors, `parser`, `buf` and `lastUsage` the readers' fields, `settlements` what
the `sync.Once` let through. What an answer *says* is defined a second time, on the whole of the bytes delivered,
by line numbers and blank lines, with no parser (`StreamSays`); the properties compare the two. JSON is abstracted to documents
with the fields the extractors read (`Document`); white space inside a text is nothing, half a text is an error.
A path is a sequence of segments. The rewriting of headers, the compression of bodies and the forwarded path are
left out.

### RateLimiter and Gateway

`Arrive` is a request that is authenticated and reads the clock; `Decide` is the rest of `allow`, under its lock,
at any later time and in any order. `hits[k]` is the window of client k, as the set of requests whose stamps it
holds. `LimiterRestart` is the end of the process; `Tick` is time.

In `Gateway`, `pc[c]` is where the handler of call c is:

| Steps of a call | Code |
|---|---|
| `idle` → `precheck`, or `unauthorized` | `AuthMiddleware.ServeHTTP` and `LookupAPIKey`; what the row says is in the context from then on |
| → `forwarded`, → `exhausted` → `denied`, → `failopen` → `forwarded` | `EstimateFromBody`, `PreCheck`, and the alert each outcome raises before the handler goes on |
| → `settled`, → `released`, → `unsettled` | a settlement, a release, or neither because Redis did not do it |
| `settled` → `quiet`, `claiming`, `unread` | `maybeWarn80` reads the balance anew |
| `claiming` → `warning` → `warned`, or `silenced` | `TryClaim` (SET NX with a TTL), then the post |

`HandlePut`, `HandleTopup` and `HandlePatchOrg` run once for each request the limiter admitted; `HandleFails` is
any of their refusals and errors. `RedisRestarts` loses the scripts, and either keeps or loses the keys;
`ProxyRestarts` ends the handlers, empties the limiter and loads the scripts, as `NewClient` does and nothing
else.

Abstractions:

- Enforce mode with Postgres, Redis and auth, as the hosted gateway runs. Modes, shared request ids, lost replies
  and retries are `RequestLifecycle`'s; here a round trip runs or fails and every call has its own id.
- `Wrap` is int64 addition over a half range that is a constant. What Redis does of a negative estimate is in
  `Runs`: Lua formats a number that large with an exponent, DECRBY refuses it, and the script fails before its
  first write. A `max_tokens` that is no int64 is a JSON error and so the default estimate.
- What Slack answers changes nothing in the program: a post is what was tried. `posts`, `known`, `low`,
  `claimedAt` and `silencer` are history.
- The claims' TTL runs on the limiter's clock; a step takes no time.

## Runs

| Run | Instance | Shows |
|---|---|---|
| `engine` | 2 buckets, 2 ids, estimates 1–2, usage 0, 1, 3, grants 0, 1, 3 up to 4 in all | `LedgerSpec`, `BalanceIsAvailable`, `OverdrawnOnlyByOverrun` under any callers |
| `lifecycle_retry` | 2 calls (stream, JSON), one id, enforce, estimate 2, usage 3, balance 3 | `HoldHasKeeper`, `OneUsageRow`, `UsesEngine` when a retry overlaps or follows its call |
| `lifecycle_calls` | 2 calls with ids of their own, usage 1 or 3, a balance for one of them | `ForwardedUnderHold`, `ChargedAsLogged`, `CostIsHeldOrUsed`, `OverrunIsUsage`, `TypeOK` |
| `lifecycle_modes` | a call with a bucket and one without, all three modes, under `FairSpec` | the same safety outside enforce mode, `CallsAdvance` and `EveryCallEnds` |
| `expiry_refund` | as `engine` | **violated**: an expired hold is not refunded (ARCHITECTURE.md:359) |
| `double_charge` | as `lifecycle_retry` | **violated**: a retry after settlement is charged again (ARCHITECTURE.md:81, :172) |
| `overspend` | 1 bucket, usage 6, estimate 2 | **violated**: the estimate does not bound the overspend (ARCHITECTURE.md:57, :169) |
| `provisioning_race` | two deliveries at a time, two sessions, one customer and the operator, two orgs | `OneOrgPerEmail`, `PlanFollowsSubscription`, `AckedIsProvisioned`, `OnlyItsEndDowngrades` |
| `provisioning_tenants` | one delivery at a time, two customers, two sessions, orgs and keys | `SetupLeadsHome`, `WebhookStaysHome`, `TypeOK` |
| `stream` | every stream of three lines of both providers, of four of the lines that matter, LF or CRLF; a few bodies; five paths, two hosts; any cut, break, departure | `ChargedAsReported`, `KnownAtOnce`, `SettledOnce`, `TypeOK` |
| `gateway` | two calls of one org, one bucket; three admin requests, limit 2 in a window of 2; one webhook, max_tokens 0, 3 or 7, of which 7 wraps | `AlertsStayHome`, `ForwardedIsCovered`, `OneWarningPerWindow`, `SilencedByTeller`, `LowIsNoticed`, `WithinLimit`, `RefusedAtLimit`, `GatewayTypeOK` |
| `ended_subscription` | as `provisioning_race` | **violated**: the end of a subscription handled before its checkout leaves the paid plan for good (docs/RUNBOOK.md:133) |

What the properties say:

- `BalanceIsAvailable`: counter = funds − spent − forfeited − Σ open holds, always.
- `OverdrawnOnlyByOverrun`: a reservation never takes a counter below zero; settlements above their
  reservation can, by no more than the excess ever charged.
- `LedgerSpec`: every step of Redis is a step of the ledger: a hold is granted only against what is
  available and ends once and whole, charged, refunded or forfeited.
- `HoldHasKeeper`: a hold always has a call that will still end it, or one of the *named* ways of leaving it
  to the TTL has happened: crash, failed release, three failed settlements, an answer that is neither
  error nor 200, a pre-check that gave up. `Leaked` is the list; nothing else loses a hold.
- `ForwardedUnderHold`: between admission and the first attempt at ending it, the hold in Redis is the one the
  request context carries, unless its TTL passed.
- `ChargedAsLogged`: once its row is written, a call with an id of its own has cost what the row says, lost
  replies and repeated attempts included; if its hold expired, it has cost its reservation.
- `OneUsageRow`: one row per call at most.
- `CostIsHeldOrUsed`: at *every* moment, with or without a row, after any crash, failed attempt, lost or late
  reply: a call of its own id has cost what is on hold for it, and once nothing is, nothing, its estimate or what
  its upstream reported. `ChargedAsLogged` says which, for the calls that live to write their row.
- `OverrunIsUsage`: what a bucket is overspent by comes from settlements, each by its excess over the hold it ends,
  and, of a call of its own id, from usage that was reported: its disconnect, or missing usage, never overspends.
- `CallsAdvance`: whatever moves a call's handler or settlement leaves less to do of the two together, as `Work`
  counts it: no way back to the upstream, no second settlement, no fourth attempt.
- `EveryCallEnds`: a departed client's call, and a call that began to end, ends, settlement included.
- `OneOrgPerEmail`: deliveries that both found no org leave one row.
- `SetupLeadsHome`: a key waiting behind a setup page is of the customer who paid, and leads to a bucket that is
  set, registered and seeded; the page's form writes to that customer's org.
- `WebhookStaysHome`: a customer's Slack webhook is never in another's org, whichever of the three ways it came.
- `PlanFollowsSubscription`: plan and subscription of a row always agree, whatever failed half way.
- `AckedIsProvisioned`: a 200, after which Stripe need not deliver again, means the signup is complete, and stays so.
- `OnlyItsEndDowngrades`: an org loses its subscription only to that subscription's end, not to an older one's.
- `ChargedAsReported`: a call is charged what the bytes delivered report, however they were cut and whichever
  provider the path chose; or its reservation if they report nothing or its client left.
- `KnownAtOnce`: the tap knows the usage of an event as soon as its blank line has come, so a stream that breaks
  then is charged what it used.
- `SettledOnce`: EOF, a cancelled read and Close start one settlement between them, and have by the end of Close.
- `AlertsStayHome`: an alert goes to a webhook its org has had since the call was authenticated, or to the global
  one for a time it had none. The webhook *now* would be too much to ask: it is read once.
- `ForwardedIsCovered`: a call is forwarded under a hold that covers its `max_tokens`, or its fail-open was told.
- `OneWarningPerWindow`: two calls that warn of a bucket under claims Redis remembers are a TTL apart.
- `SilencedByTeller`: a warning is withheld only for that of another call, posted, about to be, or lost with the
  process; the last is the price of claiming before posting.
- `LowIsNoticed`: a call stays quiet only if its bucket was not low at some moment since it settled. The balance
  it looks at is not the one it left; this is what remains true of it.
- `WithinLimit`, `RefusedAtLimit`: of the requests of a client that came and were decided in a span as long as the
  window, one process admits no more than the limit; and it refuses none for less.

**Bounds.** Two calls are enough for every pairwise race the code has (two on one bucket, two on one id, a
call and an administrator, a call and a crash): calls interact only through one counter and one hash.
Estimate 2 against balance 3 makes the second reservation fail while the first is open; usage 1 and 3 settle
below and above the estimate. Grants are bounded by `MaxFunds` (a guard of `SetBalance` and `TopupBalance`
and the only bound in the models); every other counter is bounded by the number of calls. Deadlock is not
checked in the lifecycle runs: when every call has ended and no hold is left, nothing need happen; nor in those
of provisioning, where every session may be opened and every page visited.

Two sessions are enough for a customer who pays twice, one who upgrades and an operator who upgrades him, and
for two customers; two deliveries for a race, of two sessions or of one event delivered twice. Overlapping
deliveries and two customers are two runs, because together they are beyond minutes; the proofs have no bound.
`provisioning_race` has one key, so a second delivery fails when it would mint another; `provisioning_tenants`
has two. Sessions, orgs, keys and deliveries are used up, never reused, except deliveries; that is the bound.

`stream`: three lines make every pair of events and what may stand between; four, an event of two `data:` lines
between others. Each line may be cut at any token, as may the end of the stream, so nothing is added by longer
ones. The answers are all finite, hence the run.

`gateway`: the warning, its claim and its silence take two calls. `CallsAfterLimiter` (in `MCGateway`) is a bound
on the order: the limiter reads and writes nothing of the calls nor they of it, so its races are explored before
the first call begins, up to `MaxTime`, and calls, handlers of admitted requests, restarts and the clock after,
up to `CallTime`. Calls and requests are interchangeable, hence the symmetry. The proofs are about `GatewaySpec`,
without this bound.

**Fairness.** `FairSpec` has weak fairness of `Handler(x)` (each round trip to Redis ends within its timeout,
retries are three, Postgres answers or fails) and of `Abandon(x)` (the transport gives up a cancelled round
trip; reads of its body fail). The upstream has none: `transport.go` sets no response timeout, so a call whose
client waits may wait for ever, and `EveryCallEnds` does not claim otherwise.

## Proofs

`BudgetScriptsProofs` has one lemma per script: run in a state whose books balance, it leaves them balanced.
The inductive invariant `ScriptsInv` is the type invariant, `BalanceIsAvailable`, `OverdrawnOnlyByOverrun` and
`HeldFinite`: the tokens on hold are finitely many. The last is needed because request ids are not assumed
finite and the sum of the holds is the cardinality of a set. `HeldDiffer` computes how that cardinality
changes when one id takes or ends a hold. Five more lemmas (`ReserveIsTakeHold`, `SettleIsCharge`, `ReleaseIsRefund`,
`ExpiryIsForfeit`, `GrantIsFund`) say of each script, run in such a state, that it is a step of the ledger; whoever
calls the scripts gets the refinement from them.

`BudgetEngineProofs` proves, from `EngineAssumption` (estimates, usage and grants are natural numbers;
`NoBucket` is no bucket), for any sets of buckets and ids:
`EngineTypeCorrect`, `EngineBalances`, `EngineNeverOverReserves` and `EngineImplementsLedger`.

`RequestLifecycleProofs` proves the lifecycle's safety, from `LifecycleAssumption`, for any exchanges, however
they share ids and buckets: `LifecycleTypeCorrect`, `HoldsAreKept`, `CallsLogOnce`, `CallsAreCovered`,
`CallsCostWhatTheyLog`, `CallsCostHeldOrUsed`, `OverrunsAreReported`, `NoOverspend`, `CallsOnlyAdvance`,
`LifecycleBalances`, `LifecycleUsesEngine` and `LifecycleImplementsLedger`. The inductive invariant is
`LifecycleInv`:

- `Control`: where the handler is bounds what it has done (a settlement exists only after the body, a reserve
  command is queued only of a call that went fail-open or died, two failed attempts at most before the last);
- `Amounts`: what is reserved is an estimate, what is settled is usage or a reservation (`UsesEngine` needs it);
- `HoldHasKeeper` itself, kept step by step: the lemma `AnswersStep` says that a step of a handler either ends
  the hold of its id or leaves the call answering for it;
- `Accounts`: for a call of its own id, the hold is open and the call has cost its reservation; or it lapsed,
  at the same cost; or was released, at none; or was settled, at the usage. `ForwardedUnderHold` and
  `ChargedAsLogged` are readings of it; neither is inductive, because neither says what a call has cost
  *before* its row is written or after its first failed attempt;
- `Costs`: the same of every call of its own id, also one that died, went fail-open or gave up, whose context no
  longer tells what Redis did: it carries no amounts but its own, and while it has still to reserve, or Redis to
  read its command, nothing is on hold and it has cost nothing. `CostIsHeldOrUsed` is not inductive without that;
- `Sources`: what is settled is the usage seen or the reservation, which with `Costs` gives `OverrunIsUsage`: a
  settlement at the reservation charges no more than the hold.

Each part has one lemma for its initial states and one for a step; `ReserveHolds`, `SettleHolds` and
`ReleaseHolds` say once what a script leaves on hold and what it costs its caller. `StepRunsScript` says that a step
runs one script, with amounts of its own, or leaves Redis alone; both refinements and `OverrunsAreReported` start
from it.

`NoOverspend` is what remains of the documents' bound on the overspend, which the run `overspend` refutes: where no
id is used twice and no upstream reports more than was estimated, no balance is ever negative. Both conditions are
needed: usage above the estimate overspends by itself, and a call that settles another's smaller hold overspends
by the difference.

`CallsOnlyAdvance` is the ranking argument of a termination proof: `Work` is a natural number and every move of a call
lowers it (`CallAdvances` for its own steps, `CrashAdvances` for the death of the process). What `EveryCallEnds` adds
is that a move is enabled until the call has ended, and fairness, which stay with TLC.

`ProvisioningProofs` proves provisioning's safety from `ProvisioningAssumption` (the `No` values are no ids, and
trial is not a paid plan), for any customers, sessions, orgs, keys and deliveries at a time:
`ProvisioningTypeCorrect`, `EmailsAreUnique`, `SetupIsReady`, `WebhooksStayHome`, `PlansFollow`,
`AcknowledgedIsComplete` and `DowngradesAreEarned`. The invariant `ProvisioningInv` adds to the properties:

- `JobsOK`: what each handler has already done, by where it is: its org is its session's, the bucket is set
  once it is past `bucket`, and so on. `SetupLeadsHome` and `AckedIsProvisioned` are what the last two steps
  of a handler leave behind, so neither is inductive without it;
- `CheckoutsOK`, `CancelledOpened`, `AckedOpened`: an operator's session names an org that exists, and nothing
  is cancelled or answered that was not opened;
- `RevealedHome`: keys that pages have shown are of their customers' orgs, which `AccountSlack` relies on.

The argument has two halves. `KeptStep`: no step takes back an opened session, a row, its address, its bucket,
a counter or a key, so what a property found stays found. `RowCases`: a step writes the rows in one of five
ways, and each property of a row is looked at for those five instead of for twenty-odd actions.

`SSEParserProofs` proves what the operators of the parser compute, for sequences of any length. They are folds
of the community modules, which are recursions on sets solved by a CHOOSE, so this takes two facts:
`SetRecursion` shows that a solution exists, `UpTo` (induction along an interval, for a set in place of a
predicate) what it is. From them come `FlattenOneMore` (FlattenSeq joins one part at a time), the values of
strings.Join and strings.TrimSpace, and `DrainRuns` with `DrainIs`: DrainLines is the last state of a loop with one iteration
per byte. `ChunksAreOne` is the theorem about the parser alone: Feed of one chunk and then of another is Feed of both.

`UsageReadersProofs` proves `ReaderTypes`, `OneSettlement`, `ChargeIsReported` and `TapKnowsAtOnce` from
`ReadersAssumption`, for any answers, paths and documents, and any cut, break, cancellation or departure. The inductive
invariant is `ReadersInv`:

- `CallInv`: the extractors are those of the dialect that the upstream of the path speaks, and no more is delivered than
  was sent;
- `TapInv`: a buffered body is the bytes delivered; a parser that has not settled `Matches` them: its buffer is the
  last line begun, what it holds back is the data of the event begun, and the usage known is what the ended events
  say. `KnownAtOnce` is the last of the three and is not inductive without the others, because the next byte may end
  that line and that event;
- `SettlingInv`: no settlement while the body is read, and at most one after it, which is `Right`: what the bytes
  report, the reservation if they report nothing, or the reservation of a client that left. Nothing is delivered
  after it, so it stays right.

The reference reading `StreamSays` knows no parser and no chunks, so the proof goes byte by byte: `StepPlain`, `StepBlank`
and `StepLine` say what one more byte does to the reference, `FlushEffect` and `LineEffect` what an iteration of
drainLines does to the parser, and `ByteStep` that the two keep together. `FeedMatches` runs `ByteStep` along a chunk,
wherever it begins and ends; `FlushMatches` is the end of the stream; `TakeIsRight` and `FinishIsRight` carry both into `Read`
and `Close`. `EventSays` and `JSONSays` compare the extractors of either provider with `Says`, case by case. Usage that
is kept counts at least one token (`Usage`): an extractor that could return a usage of none would have the tap settle
at 0 what reports nothing.

`ReadersAssumption` asks that the upstream at `UPSTREAM_HOST` speak the dialect that the proxy reads there (an
Anthropic-compatible host of another name is read as OpenAI), that white space alone be no JSON text, and that the counts
in a document be natural numbers: the code would take a negative count from an upstream, and none reports one.

`RateLimiterProofs` proves `LimiterIsSafe` and `LimiterIsFair` from `LimiterAssumption`, for any requests, clients,
limit and window. `LimiterInv` adds to both: windows hold admitted requests only (`HitsAdmitted`), all of them
whose stamps are recent (`RecentHit`), and no more than the limit (`HitsBounded`). `RecentHit` is where the order of
clock and lock matters: whoever has the lock drops only stamps older than its own cutoff, which is no later than
that of now. A span that a new admission enters is then inside the window that was just counted; one it does not
enter is as it was.

`GatewayProofs` proves, from `GatewayAssumption` (max_tokens and the buffer are non-negative int64; the `No` values
are none), for any calls, orgs, names, webhooks and times: `GatewayIsTyped`, `AlertsAreHome`, `ForwardsAreCovered`,
`WarningsAreApart`, `SilenceIsTold`, `LowBucketsAreNoticed`, one lemma per action and one step per part of
`GatewayInv`:

- `Placed`: from authentication on, a call has a bucket, and a webhook its org has had;
- `Covered`: `ForwardedIsCovered`, kept through the warning's steps. It rests on `EstimateCovers`: a sum of two
  int64 wraps once at most (`WrapsOnce`), so an estimate is negative or covers max_tokens;
- `ClaimsApart`: the claim in Redis outlives every claim on its bucket that Redis remembers, and any two are a TTL
  apart;
- `Tellers`: whoever holds a claim is about to post, has, or died. `SilencedByTeller` only looks at calls that
  found the claim taken; a claim must say it before anyone does;
- `LowTracked`: while a call is between its settlement and its look at the balance, "low ever since" implies low
  now, whoever wrote the balance last.

`GatewayLimits` shows that every step of the gateway is one of the limiter's or none, so `GatewayWithinLimit` and
`GatewayRefusesAtLimit` follow from the limiter's theorems.

Every invariant and action property that a passing run checks is a theorem. Only model-checked: `EveryCallEnds`
(liveness under fairness, and ENABLED, are out of the prover's reach); `CallsOnlyAdvance` is the safety half of it.

## Findings

Four runs show a disagreement between the documents and the code; `PROJECT.json` quotes the lines. The
invariants that do hold say what the code guarantees instead. Reading the code for the later modules showed four
more, which no run of their own restates, because the models have the code's side of them:

- ARCHITECTURE.md:142 has "FailOpen --> Healthy: Redis recovers". Scripts are run by hash (`checker.go:38`) and
  loaded once (`client.go:60-79`): after a restart of Redis every call is forwarded fail-open until the proxy
  restarts too. In `Gateway` only `ProxyRestarts` sets `scripts` again.
- ARCHITECTURE.md:738 and docs/RUNBOOK.md:204 warn at 20% of a high-water mark or cap, `ShouldWarn80`
  (`alert.go:81-85`) at 20% of what remains plus what *this call* used: a bucket drained by small calls is warned
  of late. `LowAt` is the code's notion.
- ARCHITECTURE.md:177 settles a disconnected stream at the reservation "if usage not yet received"; a `Read` after
  the disconnect settles at the reservation in any case (`stream_tap.go:40-42`). `ChargedAsReported` says so.
- ARCHITECTURE.md:191 finds Anthropic's usage in `message_delta` or `message_stop`; only `message_stop` is read
  (`anthropic_stream.go:39-44`), and a stream that reports it in `message_delta` alone is charged its reservation.

## Plan

1. *Done*: ledger, scripts, engine, lifecycle; their runs; their proofs.
2. *Done*: `Provisioning`, its runs and its proofs.
3. *Done*: `SSEParser` and `UsageReaders`, run `stream`, their proofs: what the parser and the folds compute, the one
   settlement, and its charge.
4. *Done*: `RateLimiter` and `Gateway` (estimate, key lookup, alerts, the warning's claim, restarts), run `gateway`,
   their proofs.

## Not modelled

- **Configuration and mounting** (`config.go`, routes of `main.go`, `server.go`, `transport.go`'s limits): read once
  at the start, pure functions of the environment. What main wires in each mode is in `RequestLifecycle`.
- **Headers** (`headers.go`) and URL rewriting: pure functions of one request.
- **Queries**: usage and bucket listings, summaries, ops and account pages, readiness. They write nothing.
- **Memory stores and the in-process claim**: without a database, and in tests. One lock round each method makes
  every one of them an atomic step, which the models of their Postgres and Redis forms cover.
- **What Slack and Stripe answer over HTTP**, signatures, templates and metrics: nothing reads them back.
- **Two proxies on one Redis**: the limiter and the lifecycle are of one process; the engine and its theorems are of
  any number of callers.
