-------------------------- MODULE RequestLifecycle --------------------------
(***************************************************************************)
(* The life of the calls a proxy forwards, composed with the budget        *)
(* scripts: pre-check, forwarding, the upstream's answer, release, the     *)
(* reading of the body, settlement with its retries and the usage row.     *)
(*                                                                         *)
(* An exchange is one HTTP call: a goroutine of the server running         *)
(* Handler.ServeHTTP and, for an event stream, a second one that settles.  *)
(* A client that retries sends a new exchange with the same request id.    *)
(* Every round trip to Redis may fail before the script runs, or run the   *)
(* script and lose the reply; a client may leave at any moment; the        *)
(* process may die at any moment.  Metrics, logging, Slack posts and the   *)
(* bucket registry, which no step below reads back, are left out.          *)
(***************************************************************************)
EXTENDS BudgetScripts

CONSTANTS
    Exchange,       \* HTTP calls
    IdOf,           \* IdOf[x]: the X-Request-Id of x, or the UUID made for it
    BucketOf,       \* BucketOf[x]: the scoped bucket of x, NoBucket if it names none
    EstimateOf,     \* EstimateOf[x]: the tokens estimated from the body of x
    KindOf,         \* KindOf[x]: "stream" if x is answered by an event stream, or "json"
    Usage,          \* token counts an upstream may report
    Grant,          \* balances an administrator may set
    MaxFunds,       \* bound: no grant takes a bucket's funds beyond it
    Mode            \* the enforcement modes considered

ASSUME LifecycleAssumption ==
    /\ NoBucket \notin Bucket
    /\ IdOf \in [Exchange -> RequestId]
    /\ BucketOf \in [Exchange -> Bucket \cup {NoBucket}]
    /\ EstimateOf \in [Exchange -> Nat]
    /\ KindOf \in [Exchange -> {"json", "stream"}]
    /\ Usage \subseteq Nat
    /\ Grant \subseteq Nat
    /\ MaxFunds \in Nat
    /\ Mode \subseteq {"off", "shadow", "enforce"}

VARIABLES
    mode,       \* ENFORCEMENT_MODE, read once when the process starts
    phase,      \* phase[x]: where the handler of x is
    reserved,   \* reserved[x]: the reservation the request context of x carries
    bypass,     \* bypass[x]: x was forwarded fail-open
    queued,     \* queued[x]: a reserve command of x was given up, not yet run
    gone,       \* gone[x]: the client left, the request context is cancelled
    seen,       \* seen[x]: the usage the reader of x has extracted so far
    settle,     \* settle[x]: the settlement of x
    tries,      \* tries[x]: its failed attempts
    outcome,    \* outcome[x]: what it is logged as
    actual,     \* actual[x]: what it charges
    rows,       \* rows[x]: rows of usage_events x wrote
    charge,     \* history: what the scripts x ran took from the bucket
    lapsed      \* history: ids of which a hold has expired

exchangeVars ==
    <<mode, phase, reserved, bypass, queued, gone, seen, settle, tries,
      outcome, actual, rows, charge, lapsed>>

vars == <<storeVars, exchangeVars>>

NoUsage == -1

\* The handler has returned.
Ended == {"rejected", "denied", "released", "unreleased", "passed", "served"}

Phase == {"idle", "precheck", "forward", "releasing", "logging", "body", "closing",
          "crashed"} \cup Ended

Settlement == {"none", "running", "applied", "logged", "gaveup"}

Outcome == {"none", "settled", "missing_usage", "disconnected"}

\* The handler of x is running, or the settlement it started is.
Serving(x) == phase[x] \notin Ended \cup {"idle", "crashed"}

Settling(x) == phase[x] # "crashed" /\ settle[x] \in {"running", "applied"}

Active(x) == Serving(x) \/ Settling(x)

TypeOK ==
    /\ ScriptsTypeOK
    /\ mode \in {"off", "shadow", "enforce"}
    /\ phase \in [Exchange -> Phase]
    /\ reserved \in [Exchange -> Nat]
    /\ bypass \in [Exchange -> BOOLEAN]
    /\ queued \in [Exchange -> BOOLEAN]
    /\ gone \in [Exchange -> BOOLEAN]
    /\ seen \in [Exchange -> Nat \cup {NoUsage}]
    /\ settle \in [Exchange -> Settlement]
    /\ tries \in [Exchange -> 0 .. 3]
    /\ outcome \in [Exchange -> Outcome]
    /\ actual \in [Exchange -> Nat]
    /\ rows \in [Exchange -> Nat]
    /\ charge \in [Exchange -> Int]
    /\ lapsed \subseteq RequestId

Init ==
    /\ ScriptsInit
    /\ mode \in Mode
    /\ phase = [x \in Exchange |-> "idle"]
    /\ reserved = [x \in Exchange |-> 0]
    /\ bypass = [x \in Exchange |-> FALSE]
    /\ queued = [x \in Exchange |-> FALSE]
    /\ gone = [x \in Exchange |-> FALSE]
    /\ seen = [x \in Exchange |-> NoUsage]
    /\ settle = [x \in Exchange |-> "none"]
    /\ tries = [x \in Exchange |-> 0]
    /\ outcome = [x \in Exchange |-> "none"]
    /\ actual = [x \in Exchange |-> 0]
    /\ rows = [x \in Exchange |-> 0]
    /\ charge = [x \in Exchange |-> 0]
    /\ lapsed = {}

-----------------------------------------------------------------------------
(* Steps shared by the handlers *)

Goto(x, p) == phase' = [phase EXCEPT ![x] = p]

\* The handler stays where it is in every respect but these.
KeepBody == UNCHANGED <<seen, settle, tries, outcome, actual, rows>>
KeepAdmission == UNCHANGED <<mode, reserved, bypass, queued, gone, lapsed>>

\* The handler of x goes on, and touches nothing else.
Move(x, from, to) ==
    /\ phase[x] = from
    /\ Goto(x, to)
    /\ KeepAdmission /\ KeepBody
    /\ UNCHANGED <<storeVars, charge>>

\* The scripts as exchange x runs them; charge follows what they take from the
\* bucket, or put back, on behalf of x.
RunReserve(x) ==
    LET b == BucketOf[x] IN
    /\ ReserveBudget(b, IdOf[x], EstimateOf[x])
    /\ charge' = [charge EXCEPT ![x] = @ + balance[b] - balance'[b]]

SettleAt(x, amount) ==
    LET h == hold[IdOf[x]] IN
    /\ SettleBudget(IdOf[x], amount)
    /\ charge' = [charge EXCEPT ![x] = IF h = NoHold THEN @ ELSE @ + amount - h.reserved]

\* A seeded bug: the settlement charges what was reserved, not what was used.
RunSettleReserved(x) == SettleAt(x, reserved[x])

RunSettle(x) == SettleAt(x, actual[x])

\* A seeded bug: the proxy gives back what its own context says was reserved.
RunReleaseByHand(x) ==
    /\ SetBudget(BucketOf[x], balance[BucketOf[x]] + reserved[x])
    /\ charge' = [charge EXCEPT ![x] = @ - reserved[x]]

RunRelease(x) ==
    /\ ReleaseBudget(IdOf[x])
    /\ charge' = [charge EXCEPT ![x] = @ - hold[IdOf[x]].reserved]

Start(x, result, amount) ==
    /\ settle' = [settle EXCEPT ![x] = "running"]
    /\ outcome' = [outcome EXCEPT ![x] = result]
    /\ actual' = [actual EXCEPT ![x] = amount]

\* A seeded bug: no once, so that the end of the body and Close both settle.
StartSettleAgain(x, result, amount) == Start(x, result, amount)

\* once.Do: the first of the ways a body can end starts the one settlement.
StartSettle(x, result, amount) ==
    IF settle[x] = "none"
    THEN Start(x, result, amount)
    ELSE UNCHANGED <<settle, outcome, actual>>

\* finishAfterStream and finalizeFromBody: charge the usage extracted from the
\* body or, if there is none, all that was reserved.
Finish(x) ==
    IF seen[x] # NoUsage
    THEN StartSettle(x, "settled", seen[x])
    ELSE StartSettle(x, "missing_usage", reserved[x])

-----------------------------------------------------------------------------
(* Handler.ServeHTTP and Enforcement.PreCheck *)

\* The request body cannot be read: 400.
RejectBody(x) == Move(x, "idle", "rejected")

\* Enforcement is off, or no bucket is named: forwarded without a pre-check,
\* which counts as fail-open unless the mode is off.
ArriveUnmetered(x) ==
    /\ phase[x] = "idle"
    /\ mode = "off" \/ BucketOf[x] = NoBucket
    /\ Goto(x, "forward")
    /\ bypass' = [bypass EXCEPT ![x] = mode # "off"]
    /\ KeepBody
    /\ UNCHANGED <<storeVars, mode, reserved, queued, gone, lapsed, charge>>

ArriveMetered(x) ==
    /\ mode # "off" /\ BucketOf[x] # NoBucket
    /\ Move(x, "idle", "precheck")

Reply(x) == ReserveReply(BucketOf[x], IdOf[x], EstimateOf[x])

\* The script's reply comes in time.  A denial stops the call in enforce mode
\* alone; in shadow mode the call goes on.
Answered(x, carried) ==
    /\ phase[x] = "precheck" /\ ~gone[x]
    /\ RunReserve(x)
    /\ IF ~Reply(x).allowed /\ mode = "enforce"
       THEN Goto(x, "denied") /\ UNCHANGED reserved
       ELSE Goto(x, "forward") /\ reserved' = [reserved EXCEPT ![x] = carried]
    /\ KeepBody
    /\ UNCHANGED <<mode, bypass, queued, gone, lapsed>>

\* A seeded bug: the context carries the estimate, granted or not.
ReserveAnsweredEstimate(x) == Answered(x, EstimateOf[x])

ReserveAnswered(x) == Answered(x, Reply(x).reserved)

\* PreCheck gives up on Redis: the call is forwarded fail-open, and its context
\* carries no reservation.
FailOpen(x) ==
    /\ phase[x] = "precheck"
    /\ Goto(x, "forward")
    /\ bypass' = [bypass EXCEPT ![x] = TRUE]
    /\ KeepBody
    /\ UNCHANGED <<mode, reserved, gone, lapsed>>

\* The script ran, but its reply was lost or came after PRECHECK_TIMEOUT_MS.
ReserveTimedOut(x) ==
    /\ ~gone[x]
    /\ FailOpen(x)
    /\ RunReserve(x)
    /\ UNCHANGED queued

\* The script did not run: the command was never sent (Redis is down, or the
\* client is gone already) or Redis has yet to read it from the connection.
ReserveUnanswered(x) ==
    /\ FailOpen(x)
    /\ \E sent \in BOOLEAN :
         /\ sent => ~gone[x]
         /\ queued' = [queued EXCEPT ![x] = sent]
    /\ UNCHANGED <<storeVars, charge>>

\* Redis runs a reserve command nobody waits for any more.
LateReserve(x) ==
    /\ queued[x]
    /\ queued' = [queued EXCEPT ![x] = FALSE]
    /\ RunReserve(x)
    /\ KeepBody
    /\ UNCHANGED <<phase, mode, reserved, bypass, gone, lapsed>>

-----------------------------------------------------------------------------
(* The upstream's answer: Handler.modifyResponse and Handler.errorHandler  *)

\* main wires a releaser, a settler and the extractors unless the mode is off.
Metering == mode # "off"

\* A seeded bug: the status is not looked at before the body is passed on.
UpstreamErrorKept(x) == Metering /\ Move(x, "forward", "served")

\* A status of 400 or more: the reservation is released, the body passed on.
UpstreamErrorStatus(x) == Metering /\ Move(x, "forward", "releasing")

\* A seeded bug: the upstream is called under a context nothing cancels.
TransportErrorDetached(x) == Metering /\ ~gone[x] /\ Move(x, "forward", "releasing")

\* No answer (also because the client left): released, then 502.
TransportError(x) == Metering /\ Move(x, "forward", "releasing")

\* 200: the body is wrapped by the reader of its content type.
UpstreamOK(x) == Metering /\ Move(x, "forward", "body")

\* Any other status below 400, and any answer or none in off mode: neither
\* released nor settled.
UpstreamPassedThrough(x) == Move(x, "forward", "passed")

Released(x, to) ==
    /\ phase[x] = "releasing" /\ ~gone[x]
    /\ Goto(x, to)
    /\ RunRelease(x)
    /\ KeepAdmission /\ KeepBody

\* A seeded bug: the upstream is tried again after the release.
ReleaseAppliedRetries(x) == Released(x, "forward")

\* Release runs under the request context, which a client that left cancels.
ReleaseApplied(x) == Released(x, "logging")

\* One attempt, no retry: the script did not run, or its reply was lost.
ReleaseFailed(x) == Move(x, "releasing", "unreleased") \/ Released(x, "unreleased")

\* logRelease: the row is written best-effort, under the request context.
LogRelease(x) ==
    /\ phase[x] = "logging"
    /\ Goto(x, "released")
    /\ \/ ~gone[x] /\ rows' = [rows EXCEPT ![x] = @ + 1]
       \/ UNCHANGED rows
    /\ KeepAdmission
    /\ UNCHANGED <<storeVars, charge, seen, settle, tries, outcome, actual>>

-----------------------------------------------------------------------------
(* The body: settlingReader and streamTap, as ReverseProxy reads and closes *)
(* them                                                                     *)

\* A read brings usage: the stream's latest event wins; a JSON body yields its
\* usage once, when all of it is there.
ReadUsage(x, u) ==
    /\ phase[x] = "body" /\ ~gone[x]
    /\ KindOf[x] = "json" => seen[x] = NoUsage
    /\ seen' = [seen EXCEPT ![x] = u]
    /\ KeepAdmission
    /\ UNCHANGED <<storeVars, phase, charge, settle, tries, outcome, actual, rows>>

ReadEOF(x) ==
    /\ phase[x] = "body" /\ ~gone[x]
    /\ Goto(x, "closing")
    /\ Finish(x)
    /\ KeepAdmission
    /\ UNCHANGED <<storeVars, charge, seen, tries, rows>>

\* Read finds the request context cancelled: all that was reserved is charged.
ReadCancelled(x) ==
    /\ phase[x] = "body" /\ gone[x]
    /\ Goto(x, "closing")
    /\ StartSettle(x, "disconnected", reserved[x])
    /\ KeepAdmission
    /\ UNCHANGED <<storeVars, charge, seen, tries, rows>>

\* The upstream breaks off, or the client cannot be written to: copying ends
\* and no reader has seen the end of the body.
CopyFailed(x) == Move(x, "body", "closing")

\* A seeded bug: Close closes the upstream's body and settles nothing.
CloseBodyOnly(x) == (KindOf[x] = "json" => ~Settling(x)) /\ Move(x, "closing", "served")

\* ReverseProxy always closes the body.  A JSON body settles in its reader, so
\* its handler gets here only when a settlement begun by the last read is over.
CloseBody(x) ==
    /\ phase[x] = "closing"
    /\ KindOf[x] = "json" => ~Settling(x)
    /\ Goto(x, "served")
    /\ Finish(x)
    /\ KeepAdmission
    /\ UNCHANGED <<storeVars, charge, seen, tries, rows>>

-----------------------------------------------------------------------------
(* settleWithRetrySync, in the handler or in a goroutine of its own, under a *)
(* context the client cannot cancel                                          *)

SettleApplied(x) ==
    /\ Settling(x) /\ settle[x] = "running"
    /\ settle' = [settle EXCEPT ![x] = "applied"]
    /\ RunSettle(x)
    /\ KeepAdmission
    /\ UNCHANGED <<phase, seen, tries, outcome, actual, rows>>

\* An attempt fails: the script did not run, or its reply was lost.
AttemptFailed(x, afterLast) ==
    /\ Settling(x) /\ settle[x] = "running"
    /\ tries' = [tries EXCEPT ![x] = @ + 1]
    /\ settle' = [settle EXCEPT ![x] = IF tries[x] < 2 THEN "running" ELSE afterLast]
    /\ UNCHANGED <<storeVars, charge>> \/ RunSettle(x)
    /\ KeepAdmission
    /\ UNCHANGED <<phase, seen, outcome, actual, rows>>

\* A seeded bug: the attempts are not counted.
SettleFailedForever(x) == AttemptFailed(x, "running")

\* A seeded bug: after the last attempt the row is written all the same.
SettleFailedLogged(x) == AttemptFailed(x, "applied")

\* After the third the settlement is given up.
SettleFailed(x) == AttemptFailed(x, "gaveup")

\* logUsageEvent: the row is written best-effort.
LogSettled(x) ==
    /\ Settling(x) /\ settle[x] = "applied"
    /\ settle' = [settle EXCEPT ![x] = "logged"]
    /\ \/ rows' = [rows EXCEPT ![x] = @ + 1]
       \/ UNCHANGED rows
    /\ KeepAdmission
    /\ UNCHANGED <<storeVars, phase, charge, seen, tries, outcome, actual>>

-----------------------------------------------------------------------------
(* The environment *)

\* (Once the body is being closed nothing looks at the request context.)
ClientLeaves(x) ==
    /\ Serving(x) /\ phase[x] # "closing" /\ ~gone[x]
    /\ gone' = [gone EXCEPT ![x] = TRUE]
    /\ KeepBody
    /\ UNCHANGED <<storeVars, phase, mode, reserved, bypass, queued, lapsed, charge>>

\* What the process held of the exchanges it was serving is lost.
Forget(f, initial) == [x \in Exchange |-> IF Active(x) THEN initial ELSE f[x]]

\* The process dies and is started again.  ListenAndServe waits for no handler
\* and no settlement; of an exchange they served, only what Redis and Postgres
\* hold survives, and a command Redis has yet to read.
Crash ==
    /\ \E x \in Exchange : Active(x)
    /\ phase' = Forget(phase, "crashed")
    /\ reserved' = Forget(reserved, 0)
    /\ bypass' = Forget(bypass, FALSE)
    /\ gone' = Forget(gone, FALSE)
    /\ seen' = Forget(seen, NoUsage)
    /\ settle' = Forget(settle, "none")
    /\ tries' = Forget(tries, 0)
    /\ outcome' = Forget(outcome, "none")
    /\ actual' = Forget(actual, 0)
    /\ UNCHANGED <<storeVars, mode, queued, rows, charge, lapsed>>

\* RESERVATION_TTL passes.
Expire(i) ==
    /\ ExpireHold(i)
    /\ lapsed' = lapsed \cup {i}
    /\ KeepBody
    /\ UNCHANGED <<phase, mode, reserved, bypass, queued, gone, charge>>

SetBalance(b, value) ==
    /\ funds[b] + value - balance[b] <= MaxFunds
    /\ SetBudget(b, value)
    /\ KeepAdmission /\ KeepBody
    /\ UNCHANGED <<phase, charge>>

Handler(x) ==
    \/ ReserveAnswered(x) \/ ReserveTimedOut(x) \/ ReserveUnanswered(x)
    \/ ReleaseApplied(x) \/ ReleaseFailed(x) \/ LogRelease(x)
    \/ CloseBody(x)
    \/ SettleApplied(x) \/ SettleFailed(x) \/ LogSettled(x)

Upstream(x) ==
    \/ UpstreamErrorStatus(x)
    \/ UpstreamOK(x)
    \/ UpstreamPassedThrough(x)
    \/ \E u \in Usage : ReadUsage(x, u)
    \/ ReadEOF(x)

Arrive(x) == RejectBody(x) \/ ArriveUnmetered(x) \/ ArriveMetered(x)

Environment ==
    \/ \E x \in Exchange : Arrive(x) \/ ClientLeaves(x) \/ LateReserve(x)
    \/ Crash
    \/ \E i \in RequestId : Expire(i)
    \/ \E b \in Bucket, v \in Grant : SetBalance(b, v)

Next ==
    \/ \E x \in Exchange :
         \/ Handler(x) \/ Upstream(x)
         \/ TransportError(x) \/ ReadCancelled(x) \/ CopyFailed(x)
    \/ Environment

Spec == Init /\ [][Next]_vars

\* What follows a client's departure: the transport gives up the round trip, or
\* a read of the body fails.
Abandon(x) ==
    /\ gone[x]
    /\ \/ TransportError(x) \/ ReadCancelled(x) \/ CopyFailed(x)
       \/ ~Metering /\ UpstreamPassedThrough(x)

\* Every round trip to Redis and Postgres ends, with a reply or an error, and a
\* cancelled context ends the wait for the upstream.  Nothing else ends it: the
\* transport has no response timeout, so Upstream has no fairness.
FairSpec ==
    /\ Spec
    /\ \A x \in Exchange : WF_vars(Handler(x)) /\ WF_vars(Abandon(x))

-----------------------------------------------------------------------------
(* Properties *)

\* x has still to release or settle its reservation, and will.
Keeper(x) ==
    \/ phase[x] \in {"forward", "releasing", "body"}
    \/ phase[x] = "closing" /\ settle[x] = "none"
    \/ Settling(x) /\ settle[x] = "running"

\* The ways in which x may leave its reservation to RESERVATION_TTL: it died, its
\* one release or its three settlements failed, its answer was neither an error
\* nor a 200, or the pre-check gave up and the script ran all the same.
Leaked(x) ==
    \/ phase[x] \in {"crashed", "unreleased", "passed"}
    \/ settle[x] = "gaveup"
    \/ bypass[x]

\* No other call uses the request id of x.
OwnsId(x) == \A y \in Exchange : IdOf[y] = IdOf[x] => y = x

\* The context of x carries a reservation Redis made.
Reserved(x) == ~bypass[x] /\ reserved[x] > 0

\* A reservation in Redis always has a call in progress that will end it, or a
\* call that ended in one of the known ways that leave it to its TTL: no path
\* through the handler, the readers and the retries forgets one.
HoldHasKeeper ==
    \A i \in RequestId : hold[i] # NoHold =>
        \E x \in Exchange : IdOf[x] = i /\ (Keeper(x) \/ Leaked(x))

\* A call that was admitted on a reservation, and has not tried to end it yet,
\* has it in Redis, in full and in its own bucket, whatever the other calls, the
\* administrators and the crashes did meanwhile; only the TTL takes it away.
ForwardedUnderHold ==
    \A x \in Exchange :
        (OwnsId(x) /\ Reserved(x) /\ Keeper(x) /\ tries[x] = 0 /\ IdOf[x] \notin lapsed)
            => hold[IdOf[x]] = [bucket |-> BucketOf[x], reserved |-> reserved[x]]

\* What the usage row of x says was consumed.
Logged(x) == IF phase[x] = "released" THEN 0 ELSE actual[x]

\* usage_events and the budgets agree: a call of its own id that wrote its row
\* took from its bucket what the row says, whichever attempts at settling failed
\* or lost their reply on the way; after its TTL, it took what it had reserved.
ChargedAsLogged ==
    \A x \in Exchange :
        (OwnsId(x) /\ Reserved(x) /\ rows[x] > 0) =>
            charge[x] = IF IdOf[x] \in lapsed THEN reserved[x] ELSE Logged(x)

\* A call writes one usage row at most, although the end of its body, a cancelled
\* read and Close all lead to a settlement, and each settlement to three attempts.
OneUsageRow == \A x \in Exchange : rows[x] <= 1

\* Whatever becomes of a call of its own id (the process dies, the release or the
\* settlements fail, the script runs after the pre-check gave up), it has cost
\* exactly what its hold has while that is open, and afterwards nothing, its
\* estimate or what its upstream reported: no attempt charges twice, none refunds
\* twice, and none refunds what was not taken.
CostIsHeldOrUsed ==
    \A x \in Exchange : OwnsId(x) =>
        IF hold[IdOf[x]] = NoHold
        THEN charge[x] \in {0, EstimateOf[x]} \cup Usage
        ELSE /\ hold[IdOf[x]] = [bucket |-> BucketOf[x], reserved |-> EstimateOf[x]]
             /\ charge[x] = EstimateOf[x]

\* A bucket is overspent by settlements alone, each by what it charges beyond the
\* hold it ends; and, of a call of its own id, only by usage that its upstream
\* reported for it, never by a disconnect or by usage that was not found.
OverrunIsUsage ==
    [][\A b \in Bucket : overrun'[b] # overrun[b] =>
          \E x \in Exchange :
              /\ settle[x] = "running" /\ hold[IdOf[x]].bucket = b
              /\ overrun'[b] = overrun[b] + actual[x] - hold[IdOf[x]].reserved
              /\ OwnsId(x) => /\ BucketOf[x] = b
                              /\ outcome[x] = "settled" /\ actual[x] = seen[x]
      ]_vars

\* What is left to do of the call x: of its handler, and of its settlement.
ToServe(x) ==
    CASE phase[x] = "idle" -> 6
      [] phase[x] = "precheck" -> 5
      [] phase[x] = "forward" -> 4
      [] phase[x] \in {"releasing", "body"} -> 3
      [] phase[x] \in {"logging", "closing"} -> 2
      [] OTHER -> 0

ToSettle(x) ==
    IF phase[x] = "crashed" THEN 0
    ELSE CASE settle[x] = "none" -> 5
           [] settle[x] = "running" -> 4 - tries[x]
           [] settle[x] = "applied" -> 1
           [] OTHER -> 0

Work(x) == ToServe(x) + ToSettle(x)

\* No handler goes back, calls its upstream twice, settles again what it settled
\* or retries without end: each step of a call leaves less of it to do.
CallsAdvance ==
    [][\A x \in Exchange :
          <<phase[x], settle[x], tries[x]>>' # <<phase[x], settle[x], tries[x]>> =>
              0 <= Work(x)' /\ Work(x)' < Work(x)
      ]_vars

Estimates == {EstimateOf[x] : x \in Exchange}

Engine == INSTANCE BudgetEngine WITH
    Estimate <- Estimates,
    Usage <- Usage \cup Estimates \cup {0}

\* Whatever the handlers do to Redis, the budget engine allows: what is shown of
\* the engine under any callers holds of the proxy.
UsesEngine == Engine!EngineSpec

\* A call whose client left, or that has begun to end, ends, its settlement too:
\* neither the once nor the retries nor a cancelled context leave a goroutine
\* behind.
EveryCallEnds ==
    \A x \in Exchange :
        (\/ gone[x]
         \/ phase[x] \in {"precheck", "releasing", "logging", "closing"}
         \/ Settling(x))
            ~> ((phase[x] = "forward" /\ ~gone[x]) \/ ~Active(x))

\* What ARCHITECTURE.md says of a client that retries with the same request id:
\* it is never charged twice.
ChargedOncePerId ==
    \A x, y \in Exchange :
        (x # y /\ IdOf[x] = IdOf[y] /\ settle[x] = "logged" /\ settle[y] = "logged") =>
            \/ charge[x] + charge[y] <= actual[x]
            \/ charge[x] + charge[y] <= actual[y]

\* What ARCHITECTURE.md says of concurrent calls: a bucket is overspent by no more
\* than their number times the estimate.
OverspendBounded ==
    \A b \in Bucket, n \in Estimates :
        (\A m \in Estimates : m <= n)
            => balance[b] >= -(n * Cardinality(Exchange))
=============================================================================
