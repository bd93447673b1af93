----------------------- MODULE RequestLifecycleProofs -----------------------
(***************************************************************************)
(* The calls a proxy forwards keep the books of the budget engine, end the *)
(* holds they take and are charged what their usage rows say, for any      *)
(* exchanges, request ids, buckets, estimates, usage and modes.            *)
(***************************************************************************)
EXTENDS RequestLifecycle, BudgetScriptsProofs

\* Where a handler is bounds what it has done: no pre-check has been given up
\* before it was made, a settlement exists only once the body has ended, and a
\* row only once the release or the settlement it records is over.
ControlOf(x) ==
    /\ phase[x] \in {"idle", "precheck"} => ~bypass[x] /\ ~queued[x]
    /\ phase[x] = "precheck" \/ queued[x] => BucketOf[x] \in Bucket
    /\ queued[x] => bypass[x] \/ phase[x] = "crashed"
    /\ phase[x] \in {"idle", "precheck", "denied", "crashed"} => reserved[x] = 0
    /\ settle[x] # "none" => phase[x] \in {"closing", "served"}
    /\ settle[x] # "gaveup" => tries[x] <= 2
    /\ rows[x] <= 1
    /\ rows[x] > 0 => phase[x] \in {"released", "crashed"} \/ settle[x] = "logged"

Control == \A x \in Exchange : ControlOf(x)

\* What is reserved is an estimate or nothing, what is settled a usage or what
\* was reserved.
Amounts ==
    /\ \A x \in Exchange :
          /\ reserved[x] \in Estimates \cup {0}
          /\ seen[x] \in Usage \cup {NoUsage}
          /\ actual[x] \in Usage \cup Estimates \cup {0}
    /\ \A i \in RequestId : hold[i].reserved \in Estimates \cup {0}

\* What a call of its own id has cost so far, before and after its reservation:
\* the hold is open, or it lapsed, or was released, or was settled.
AccountOf(x) ==
    LET i == IdOf[x] IN
    /\ phase[x] \in {"idle", "precheck"} =>
          hold[i] = NoHold /\ i \notin lapsed /\ charge[x] = 0
    /\ Reserved(x) =>
          \/ /\ hold[i] = [bucket |-> BucketOf[x], reserved |-> reserved[x]]
             /\ i \notin lapsed
             /\ charge[x] = reserved[x]
             /\ phase[x] \notin {"logging", "released"}
             /\ settle[x] \notin {"applied", "logged"}
          \/ hold[i] = NoHold /\ i \in lapsed /\ charge[x] = reserved[x]
          \/ /\ hold[i] = NoHold /\ i \notin lapsed /\ charge[x] = 0
             /\ phase[x] \in {"logging", "released", "unreleased"}
          \/ /\ hold[i] = NoHold /\ i \notin lapsed /\ charge[x] = actual[x]
             /\ settle[x] # "none"
             /\ settle[x] = "running" => tries[x] > 0

Accounts == \A x \in Exchange : OwnsId(x) => AccountOf(x)

\* Where what is settled comes from: the usage reported or the reservation.
SourceOf(x) ==
    settle[x] # "none" =>
        \/ outcome[x] = "settled" /\ actual[x] = seen[x]
        \/ actual[x] = reserved[x]

Sources == \A x \in Exchange : SourceOf(x)

\* What x has cost by what is on hold.
CostMatches(x) ==
    IF hold[IdOf[x]] = NoHold
    THEN charge[x] \in {0, EstimateOf[x]} \cup Usage
    ELSE /\ hold[IdOf[x]] = [bucket |-> BucketOf[x], reserved |-> EstimateOf[x]]
         /\ charge[x] = EstimateOf[x]

\* A call of its own id carries no other amounts than its own, and until its
\* reserve command has run it has cost nothing.
CostOf(x) ==
    /\ reserved[x] \in {0, EstimateOf[x]}
    /\ actual[x] \in {0, EstimateOf[x]} \cup Usage
    /\ phase[x] \in {"idle", "precheck"} \/ queued[x] =>
          hold[IdOf[x]] = NoHold /\ charge[x] = 0
    /\ CostMatches(x)

Costs == \A x \in Exchange : OwnsId(x) => CostOf(x)

LifecycleInv ==
    /\ TypeOK
    /\ ScriptsInv
    /\ Control
    /\ Amounts
    /\ HoldHasKeeper
    /\ Accounts
    /\ Sources
    /\ Costs

-----------------------------------------------------------------------------
(* Types, and the books of the engine *)

\* The pair of which both are invariants of the scripts' keys.
Typed == TypeOK /\ ScriptsInv

LEMMA InitTyped == Init => Typed
<1> SUFFICES ASSUME Init PROVE Typed
    OBVIOUS
<1>1. ScriptsInv
    BY LifecycleAssumption, InitScriptsInv DEF Init
<1>2. TypeOK
    BY <1>1, LifecycleAssumption DEF Init, TypeOK, ScriptsInv, Phase, Ended, Settlement, Outcome, NoUsage
<1> QED BY <1>1, <1>2 DEF Typed

\* What the scripts are run with, and what they leave, has its type.
LEMMA ReserveTyped ==
    ASSUME Typed, NEW x \in Exchange, BucketOf[x] \in Bucket, RunReserve(x)
    PROVE  ScriptsInv' /\ charge' \in [Exchange -> Int]
<1>1. EstimateOf[x] \in Nat /\ IdOf[x] \in RequestId
    BY LifecycleAssumption
<1>2. ScriptsInv'
    BY <1>1, ReserveInv DEF Typed, RunReserve
<1>3. balance[BucketOf[x]] \in Int /\ balance'[BucketOf[x]] \in Int
    BY <1>2 DEF Typed, ScriptsInv, ScriptsTypeOK
<1> QED BY <1>2, <1>3 DEF Typed, TypeOK, RunReserve

LEMMA SettleTyped ==
    ASSUME Typed, NEW x \in Exchange, RunSettle(x)
    PROVE  ScriptsInv' /\ charge' \in [Exchange -> Int]
<1>1. actual[x] \in Nat /\ IdOf[x] \in RequestId
    BY LifecycleAssumption DEF Typed, TypeOK
<1>2. ScriptsInv'
    BY <1>1, SettleInv DEF Typed, RunSettle, SettleAt
<1>3. hold[IdOf[x]] # NoHold => hold[IdOf[x]].reserved \in Nat
    BY <1>1 DEF Typed, ScriptsInv, ScriptsTypeOK, Hold, Ledger!Hold
<1> QED BY <1>1, <1>2, <1>3 DEF Typed, TypeOK, RunSettle, SettleAt

LEMMA ReleaseTyped ==
    ASSUME Typed, NEW x \in Exchange, RunRelease(x)
    PROVE  ScriptsInv' /\ charge' \in [Exchange -> Int]
<1>1. IdOf[x] \in RequestId
    BY LifecycleAssumption
<1>2. ScriptsInv'
    BY <1>1, ReleaseInv DEF Typed, RunRelease
<1>3. hold[IdOf[x]].reserved \in Nat
    BY <1>1 DEF Typed, ScriptsInv, ScriptsTypeOK, Hold, Ledger!Hold, NoHold, Ledger!NoHold
<1> QED BY <1>2, <1>3 DEF Typed, TypeOK, RunRelease

\* A step that runs no script.
Quiet == UNCHANGED <<storeVars, charge>>

\* The types of what a handler keeps, apart from the scripts' keys and charge.
HandlersTyped ==
    /\ mode \in {"off", "shadow", "enforce"}
    /\ phase \in [Exchange -> Phase]
    /\ reserved \in [Exchange -> Nat]
    /\ bypass \in [Exchange -> BOOLEAN]
    /\ queued \in [Exchange -> BOOLEAN]
    /\ gone \in [Exchange -> BOOLEAN]
    /\ seen \in [Exchange -> Nat \cup {NoUsage}]
    /\ settle \in [Exchange -> Settlement]
    /\ tries \in [Exchange -> 0 .. 3]
    /\ outcome \in [Exchange -> Outcome]
    /\ actual \in [Exchange -> Nat]
    /\ rows \in [Exchange -> Nat]
    /\ lapsed \subseteq RequestId

\* What each step runs.
LEMMA TypedParts ==
    /\ Typed <=> HandlersTyped /\ ScriptsInv /\ charge \in [Exchange -> Int]
    /\ Typed' <=> HandlersTyped' /\ ScriptsInv' /\ charge' \in [Exchange -> Int]
    BY DEF Typed, TypeOK, HandlersTyped, ScriptsInv

LEMMA QuietTyped ==
    ASSUME Typed, Quiet, HandlersTyped'
    PROVE  Typed'
<1>1. ScriptsInv'
    BY UnchangedScriptsInv DEF Typed, Quiet
<1> QED BY <1>1, TypedParts DEF Quiet

LEMMA TypedStep ==
    ASSUME Typed, Control, [Next]_vars
    PROVE  Typed'
<1> USE DEF KeepBody, KeepAdmission, Goto
<1>t. HandlersTyped
    BY TypedParts
<1>m. ASSUME NEW x \in Exchange, NEW p, NEW q \in Phase, Move(x, p, q)
      PROVE  Typed'
    BY <1>t, <1>m, QuietTyped DEF Move, HandlersTyped, Quiet
<1>f. ASSUME NEW x \in Exchange, Finish(x) \/ StartSettle(x, "disconnected", reserved[x])
      PROVE  /\ settle' \in [Exchange -> Settlement]
             /\ outcome' \in [Exchange -> Outcome]
             /\ actual' \in [Exchange -> Nat]
    BY <1>t, <1>f DEF Finish, StartSettle, Start, HandlersTyped, Settlement, Outcome, NoUsage
<1>1. ASSUME NEW x \in Exchange, Arrive(x)
      PROVE  Typed'
    <2>1. CASE RejectBody(x)
        BY <2>1, <1>m DEF RejectBody, Phase, Ended
    <2>2. CASE ArriveUnmetered(x)
        BY <2>2, <1>t, QuietTyped DEF ArriveUnmetered, HandlersTyped, Phase, Quiet
    <2>3. CASE ArriveMetered(x)
        BY <2>3, <1>m DEF ArriveMetered, Phase
    <2> QED BY <1>1, <2>1, <2>2, <2>3 DEF Arrive
<1>2. ASSUME NEW x \in Exchange, ReserveAnswered(x)
      PROVE  Typed'
    <2>1. ScriptsInv' /\ charge' \in [Exchange -> Int]
        BY <1>2, ReserveTyped DEF ReserveAnswered, Answered, Control, ControlOf
    <2>2. Reply(x).reserved \in Nat
        <3>1. EstimateOf[x] \in Nat /\ IdOf[x] \in RequestId
            BY LifecycleAssumption
        <3> QED BY <3>1 DEF Reply, ReserveReply, Typed, ScriptsInv, ScriptsTypeOK, Hold, Ledger!Hold
    <2>3. HandlersTyped'
        BY <1>2, <1>t, <2>2 DEF ReserveAnswered, Answered, HandlersTyped, Phase, Ended
    <2> QED BY <2>1, <2>3, TypedParts
<1>3. ASSUME NEW x \in Exchange, ReserveTimedOut(x)
      PROVE  Typed'
    <2>1. ScriptsInv' /\ charge' \in [Exchange -> Int]
        BY <1>3, ReserveTyped DEF ReserveTimedOut, FailOpen, Control, ControlOf
    <2>2. HandlersTyped'
        BY <1>3, <1>t DEF ReserveTimedOut, FailOpen, HandlersTyped, Phase
    <2> QED BY <2>1, <2>2, TypedParts
<1>4. ASSUME NEW x \in Exchange, ReserveUnanswered(x)
      PROVE  Typed'
    <2>1. HandlersTyped'
        BY <1>4, <1>t DEF ReserveUnanswered, FailOpen, HandlersTyped, Phase
    <2> QED BY <1>4, <2>1, QuietTyped DEF ReserveUnanswered, Quiet
<1>5. ASSUME NEW x \in Exchange, LateReserve(x)
      PROVE  Typed'
    <2>1. ScriptsInv' /\ charge' \in [Exchange -> Int]
        BY <1>5, ReserveTyped DEF LateReserve, Control, ControlOf
    <2>2. HandlersTyped'
        BY <1>5, <1>t DEF LateReserve, HandlersTyped
    <2> QED BY <2>1, <2>2, TypedParts
<1>6. ASSUME NEW x \in Exchange,
             \/ UpstreamErrorStatus(x) \/ UpstreamOK(x) \/ UpstreamPassedThrough(x)
             \/ TransportError(x) \/ CopyFailed(x)
      PROVE  Typed'
    BY <1>6, <1>m DEF UpstreamErrorStatus, UpstreamOK, UpstreamPassedThrough, TransportError,
       CopyFailed, Phase, Ended
<1>7. ASSUME NEW x \in Exchange, NEW p \in {"logging", "unreleased"}, Released(x, p)
      PROVE  Typed'
    <2>1. ScriptsInv' /\ charge' \in [Exchange -> Int]
        BY <1>7, ReleaseTyped DEF Released
    <2>2. HandlersTyped'
        BY <1>7, <1>t DEF Released, HandlersTyped, Phase, Ended
    <2> QED BY <2>1, <2>2, TypedParts
<1>8. ASSUME NEW x \in Exchange, ReleaseApplied(x) \/ ReleaseFailed(x)
      PROVE  Typed'
    BY <1>8, <1>7, <1>m DEF ReleaseApplied, ReleaseFailed, Phase, Ended
<1>9. ASSUME NEW x \in Exchange, LogRelease(x) \/ LogSettled(x)
      PROVE  Typed'
    <2>1. HandlersTyped'
        BY <1>9, <1>t DEF LogRelease, LogSettled, HandlersTyped, Phase, Ended, Settlement
    <2> QED BY <1>9, <2>1, QuietTyped DEF LogRelease, LogSettled, Quiet
<1>10. ASSUME NEW x \in Exchange, NEW u \in Usage, ReadUsage(x, u)
       PROVE  Typed'
    <2>1. HandlersTyped'
        BY <1>10, <1>t, LifecycleAssumption DEF ReadUsage, HandlersTyped
    <2> QED BY <1>10, <2>1, QuietTyped DEF ReadUsage, Quiet
<1>11. ASSUME NEW x \in Exchange, ReadEOF(x) \/ ReadCancelled(x) \/ CloseBody(x)
       PROVE  Typed'
    <2>1. HandlersTyped'
        BY <1>11, <1>t, <1>f DEF ReadEOF, ReadCancelled, CloseBody, HandlersTyped, Phase, Ended
    <2> QED BY <1>11, <2>1, QuietTyped DEF ReadEOF, ReadCancelled, CloseBody, Quiet
<1>12. ASSUME NEW x \in Exchange, SettleApplied(x)
       PROVE  Typed'
    <2>1. ScriptsInv' /\ charge' \in [Exchange -> Int]
        BY <1>12, SettleTyped DEF SettleApplied
    <2>2. HandlersTyped'
        BY <1>12, <1>t DEF SettleApplied, HandlersTyped, Settlement
    <2> QED BY <2>1, <2>2, TypedParts
<1>13. ASSUME NEW x \in Exchange, SettleFailed(x)
       PROVE  Typed'
    <2>1. ScriptsInv' /\ charge' \in [Exchange -> Int]
        BY <1>13, SettleTyped, TypedParts, UnchangedScriptsInv
        DEF SettleFailed, AttemptFailed
    <2>2. tries[x] + 1 \in 0 .. 3
        BY <1>13, <1>t DEF SettleFailed, AttemptFailed, Control, ControlOf, HandlersTyped
    <2>3. HandlersTyped'
        BY <1>13, <1>t, <2>2 DEF SettleFailed, AttemptFailed, HandlersTyped, Settlement
    <2> QED BY <2>1, <2>3, TypedParts
<1>14. ASSUME NEW x \in Exchange, ClientLeaves(x)
       PROVE  Typed'
    BY <1>14, <1>t, QuietTyped DEF ClientLeaves, HandlersTyped, Quiet
<1>15. CASE Crash
    <2>1. ASSUME NEW S, NEW f \in [Exchange -> S], NEW v \in S
          PROVE  Forget(f, v) \in [Exchange -> S]
        BY Zenon DEF Forget
    <2>2. /\ Forget(phase, "crashed") \in [Exchange -> Phase]
          /\ Forget(reserved, 0) \in [Exchange -> Nat]
          /\ Forget(bypass, FALSE) \in [Exchange -> BOOLEAN]
          /\ Forget(gone, FALSE) \in [Exchange -> BOOLEAN]
        <3>1. "crashed" \in Phase /\ 0 \in Nat /\ FALSE \in BOOLEAN
            BY DEF Phase
        <3> QED BY <1>t, <2>1, <3>1, Zenon DEF HandlersTyped
    <2>3. /\ Forget(seen, NoUsage) \in [Exchange -> Nat \cup {NoUsage}]
          /\ Forget(settle, "none") \in [Exchange -> Settlement]
          /\ Forget(tries, 0) \in [Exchange -> 0 .. 3]
          /\ Forget(outcome, "none") \in [Exchange -> Outcome]
          /\ Forget(actual, 0) \in [Exchange -> Nat]
        <3>1. /\ NoUsage \in Nat \cup {NoUsage} /\ "none" \in Settlement /\ 0 \in 0 .. 3
              /\ "none" \in Outcome /\ 0 \in Nat
            BY DEF Settlement, Outcome
        <3> QED BY <1>t, <2>1, <3>1, Zenon DEF HandlersTyped
    <2>4. HandlersTyped'
        <3>1. UNCHANGED <<mode, queued, rows, lapsed>>
            BY <1>15 DEF Crash
        <3>2. /\ phase' = Forget(phase, "crashed")
              /\ reserved' = Forget(reserved, 0)
              /\ bypass' = Forget(bypass, FALSE)
              /\ gone' = Forget(gone, FALSE)
              /\ seen' = Forget(seen, NoUsage)
              /\ settle' = Forget(settle, "none")
              /\ tries' = Forget(tries, 0)
              /\ outcome' = Forget(outcome, "none")
              /\ actual' = Forget(actual, 0)
            BY <1>15 DEF Crash
        <3> QED BY <1>t, <2>2, <2>3, <3>1, <3>2 DEF HandlersTyped
    <2> QED BY <1>15, <2>4, QuietTyped DEF Crash, Quiet
<1>16. ASSUME NEW i \in RequestId, Expire(i)
       PROVE  Typed'
    <2>1. ScriptsInv'
        BY <1>16, ExpireInv DEF Expire, Typed
    <2>2. HandlersTyped'
        BY <1>16, <1>t DEF Expire, HandlersTyped
    <2> QED BY <1>16, <2>1, <2>2, TypedParts DEF Expire
<1>17. ASSUME NEW b \in Bucket, NEW v \in Grant, SetBalance(b, v)
       PROVE  Typed'
    <2>1. ScriptsInv'
        BY <1>17, SetInv, LifecycleAssumption DEF SetBalance, Typed
    <2>2. HandlersTyped'
        BY <1>17, <1>t DEF SetBalance, HandlersTyped
    <2> QED BY <1>17, <2>1, <2>2, TypedParts DEF SetBalance
<1>18. CASE UNCHANGED vars
    BY <1>18, <1>t, QuietTyped DEF vars, exchangeVars, HandlersTyped, Quiet
<1> QED BY <1>1, <1>2, <1>3, <1>4, <1>5, <1>6, <1>8, <1>9, <1>10, <1>11, <1>12, <1>13, <1>14,
           <1>15, <1>16, <1>17, <1>18 DEF Next, Handler, Upstream, Arrive, Environment

\* What the death of the process does to one exchange.
LEMMA CrashOf ==
    ASSUME Crash, NEW x \in Exchange
    PROVE  /\ UNCHANGED <<storeVars, mode, queued, rows, charge, lapsed>>
           /\ Active(x) =>
                 /\ phase'[x] = "crashed" /\ reserved'[x] = 0 /\ bypass'[x] = FALSE
                 /\ gone'[x] = FALSE /\ seen'[x] = NoUsage /\ settle'[x] = "none"
                 /\ tries'[x] = 0 /\ outcome'[x] = "none" /\ actual'[x] = 0
           /\ ~Active(x) =>
                 /\ phase'[x] = phase[x] /\ reserved'[x] = reserved[x]
                 /\ bypass'[x] = bypass[x] /\ gone'[x] = gone[x] /\ seen'[x] = seen[x]
                 /\ settle'[x] = settle[x] /\ tries'[x] = tries[x]
                 /\ outcome'[x] = outcome[x] /\ actual'[x] = actual[x]
<1>1. ASSUME NEW f, NEW v
      PROVE  Forget(f, v)[x] = IF Active(x) THEN v ELSE f[x]
    BY DEF Forget
<1>2. /\ phase'[x] = Forget(phase, "crashed")[x] /\ reserved'[x] = Forget(reserved, 0)[x]
      /\ bypass'[x] = Forget(bypass, FALSE)[x] /\ gone'[x] = Forget(gone, FALSE)[x]
      /\ seen'[x] = Forget(seen, NoUsage)[x] /\ settle'[x] = Forget(settle, "none")[x]
      /\ tries'[x] = Forget(tries, 0)[x] /\ outcome'[x] = Forget(outcome, "none")[x]
      /\ actual'[x] = Forget(actual, 0)[x]
    BY DEF Crash
<1>3. UNCHANGED <<storeVars, mode, queued, rows, charge, lapsed>>
    BY DEF Crash
<1>4. CASE Active(x)
  <2>1. \A f, v : Forget(f, v)[x] = v
    BY <1>1, <1>4
  <2>2. phase'[x] = "crashed" /\ reserved'[x] = 0 /\ bypass'[x] = FALSE
    BY ONLY <1>2, <2>1, Zenon
  <2>3. gone'[x] = FALSE /\ seen'[x] = NoUsage /\ settle'[x] = "none"
    BY ONLY <1>2, <2>1, Zenon
  <2>4. tries'[x] = 0 /\ outcome'[x] = "none" /\ actual'[x] = 0
    BY ONLY <1>2, <2>1, Zenon
  <2> QED BY ONLY <1>3, <1>4, <2>2, <2>3, <2>4, Zenon
<1>5. CASE ~Active(x)
  <2>1. \A f, v : Forget(f, v)[x] = f[x]
    BY <1>1, <1>5
  <2>2. phase'[x] = phase[x] /\ reserved'[x] = reserved[x] /\ bypass'[x] = bypass[x]
    BY ONLY <1>2, <2>1, Zenon
  <2>3. gone'[x] = gone[x] /\ seen'[x] = seen[x] /\ settle'[x] = settle[x]
    BY ONLY <1>2, <2>1, Zenon
  <2>4. tries'[x] = tries[x] /\ outcome'[x] = outcome[x] /\ actual'[x] = actual[x]
    BY ONLY <1>2, <2>1, Zenon
  <2> QED BY ONLY <1>3, <1>5, <2>2, <2>3, <2>4, Zenon
<1> QED BY ONLY <1>4, <1>5, Zenon

-----------------------------------------------------------------------------
(* Control *)

LEMMA InitControl == Init => Control
    BY DEF Init, Control, ControlOf

\* A step of the handler of x, of its upstream or of its client.
StepOf(x) ==
    \/ Handler(x) \/ Upstream(x) \/ Arrive(x) \/ ClientLeaves(x) \/ LateReserve(x)
    \/ TransportError(x) \/ ReadCancelled(x) \/ CopyFailed(x)

\* What x keeps as it was.
Untouched(x) ==
    /\ phase'[x] = phase[x] /\ bypass'[x] = bypass[x] /\ queued'[x] = queued[x]
    /\ settle'[x] = settle[x] /\ tries'[x] = tries[x] /\ rows'[x] = rows[x]
    /\ reserved'[x] = reserved[x] /\ seen'[x] = seen[x] /\ actual'[x] = actual[x]
    /\ charge'[x] = charge[x]

LEMMA OthersUntouched ==
    ASSUME Typed, NEW x \in Exchange, StepOf(x), NEW y \in Exchange, y # x
    PROVE  Untouched(y)
<1> USE DEF KeepBody, KeepAdmission, Goto
<1>t. HandlersTyped /\ charge \in [Exchange -> Int]
    BY TypedParts
<1>1. CASE Arrive(x) \/ ReserveUnanswered(x) \/ ClientLeaves(x)
    BY <1>1, <1>t DEF Arrive, RejectBody, ArriveUnmetered, ArriveMetered, ReserveUnanswered,
       FailOpen, ClientLeaves, Move, Untouched, HandlersTyped
<1>2. CASE ReserveAnswered(x) \/ ReserveTimedOut(x) \/ LateReserve(x)
    BY <1>2, <1>t DEF ReserveAnswered, Answered, ReserveTimedOut, FailOpen, LateReserve, RunReserve,
       Untouched, HandlersTyped
<1>3. CASE \/ UpstreamErrorStatus(x) \/ UpstreamOK(x) \/ UpstreamPassedThrough(x)
           \/ TransportError(x) \/ CopyFailed(x)
    BY <1>3, <1>t DEF UpstreamErrorStatus, UpstreamOK, UpstreamPassedThrough, TransportError,
       CopyFailed, Move, Untouched, HandlersTyped
<1>4. CASE ReleaseApplied(x) \/ ReleaseFailed(x) \/ LogRelease(x)
    BY <1>4, <1>t DEF ReleaseApplied, ReleaseFailed, Released, RunRelease, LogRelease, Move,
       Untouched, HandlersTyped
<1>5. CASE (\E u \in Usage : ReadUsage(x, u)) \/ ReadEOF(x) \/ ReadCancelled(x) \/ CloseBody(x)
    BY <1>5, <1>t DEF ReadUsage, ReadEOF, ReadCancelled, CloseBody, Finish, StartSettle, Start,
       Untouched, HandlersTyped
<1>6. CASE SettleApplied(x) \/ SettleFailed(x) \/ LogSettled(x)
    BY <1>6, <1>t DEF SettleApplied, SettleFailed, AttemptFailed, LogSettled, RunSettle, SettleAt,
       Untouched, HandlersTyped
<1> QED BY <1>1, <1>2, <1>3, <1>4, <1>5, <1>6 DEF StepOf, Handler, Upstream

\* Every step is one of an exchange, or of the process, of time or of an
\* administrator.
LEMMA StepCases ==
    [Next]_vars =>
        \/ \E x \in Exchange : StepOf(x)
        \/ Crash
        \/ \E i \in RequestId : Expire(i)
        \/ \E b \in Bucket, v \in Grant : SetBalance(b, v)
        \/ UNCHANGED vars
    BY DEF Next, Environment, StepOf

LEMMA ControlStep ==
    ASSUME Typed, Control, [Next]_vars
    PROVE  Control'
<1> USE DEF KeepBody, KeepAdmission, Goto
<1>t. HandlersTyped
    BY TypedParts
<1>u. ASSUME NEW y \in Exchange, Untouched(y)
      PROVE  ControlOf(y)'
    BY <1>u DEF Control, ControlOf, Untouched
<1>1. ASSUME NEW x \in Exchange, Arrive(x)
      PROVE  ControlOf(x)'
    BY <1>1, <1>t, LifecycleAssumption DEF Arrive, RejectBody, ArriveUnmetered, ArriveMetered, Move,
       HandlersTyped, Control, ControlOf
<1>2. ASSUME NEW x \in Exchange,
             ReserveAnswered(x) \/ ReserveTimedOut(x) \/ ReserveUnanswered(x) \/ LateReserve(x)
      PROVE  ControlOf(x)'
    BY <1>2, <1>t DEF ReserveAnswered, Answered, ReserveTimedOut, ReserveUnanswered, FailOpen,
       LateReserve, HandlersTyped, Control, ControlOf
<1>3. ASSUME NEW x \in Exchange,
             \/ UpstreamErrorStatus(x) \/ UpstreamOK(x) \/ UpstreamPassedThrough(x)
             \/ TransportError(x) \/ CopyFailed(x)
             \/ ReleaseApplied(x) \/ ReleaseFailed(x) \/ LogRelease(x)
      PROVE  ControlOf(x)'
    BY <1>3, <1>t DEF UpstreamErrorStatus, UpstreamOK, UpstreamPassedThrough, TransportError,
       CopyFailed, ReleaseApplied, ReleaseFailed, Released, LogRelease, Move, HandlersTyped,
       Control, ControlOf
<1>4. ASSUME NEW x \in Exchange,
             \/ \E u \in Usage : ReadUsage(x, u)
             \/ ReadEOF(x) \/ ReadCancelled(x) \/ CloseBody(x)
      PROVE  ControlOf(x)'
    BY <1>4, <1>t DEF ReadUsage, ReadEOF, ReadCancelled, CloseBody, Finish, StartSettle, Start,
       HandlersTyped, Control, ControlOf
<1>5. ASSUME NEW x \in Exchange,
             SettleApplied(x) \/ SettleFailed(x) \/ LogSettled(x) \/ ClientLeaves(x)
      PROVE  ControlOf(x)'
    BY <1>5, <1>t DEF SettleApplied, SettleFailed, AttemptFailed, LogSettled, ClientLeaves, Settling,
       HandlersTyped, Control, ControlOf
<1>6. CASE Crash
    <2> SUFFICES ASSUME NEW y \in Exchange PROVE ControlOf(y)'
        BY DEF Control
    <2>1. CASE Active(y)
        <3>1. phase'[y] = "crashed" /\ reserved'[y] = 0 /\ settle'[y] = "none" /\ tries'[y] = 0
            BY <1>6, <2>1, CrashOf
        <3>2. queued' = queued /\ rows' = rows
            BY <1>6 DEF Crash
        <3> QED BY <3>1, <3>2 DEF Control, ControlOf
    <2>2. CASE ~Active(y)
        BY <1>6, <2>2, CrashOf, <1>u DEF Untouched
    <2> QED BY <2>1, <2>2
<1>7. CASE \/ \E i \in RequestId : Expire(i)
           \/ \E b \in Bucket, v \in Grant : SetBalance(b, v)
           \/ UNCHANGED vars
    BY <1>7, <1>u DEF Expire, SetBalance, vars, exchangeVars, Untouched, Control
<1>8. ASSUME NEW x \in Exchange, StepOf(x)
      PROVE  Control'
    <2> SUFFICES ASSUME NEW y \in Exchange PROVE ControlOf(y)'
        BY DEF Control
    <2>1. CASE y = x
        BY <1>8, <2>1, <1>1, <1>2, <1>3, <1>4, <1>5 DEF StepOf, Handler, Upstream
    <2>2. CASE y # x
        BY <1>8, <2>2, <1>u, OthersUntouched
    <2> QED BY <2>1, <2>2
<1> QED BY <1>6, <1>7, <1>8, StepCases

-----------------------------------------------------------------------------
(* What the scripts leave on hold *)

LEMMA ReserveHolds ==
    ASSUME Typed, NEW x \in Exchange, BucketOf[x] \in Bucket, RunReserve(x)
    PROVE  /\ \A i \in RequestId \ {IdOf[x]} : hold'[i] = hold[i]
           /\ \/ /\ hold[IdOf[x]] # NoHold
                 /\ hold'[IdOf[x]] = hold[IdOf[x]]
                 /\ charge'[x] = charge[x]
                 /\ Reply(x) = [allowed |-> TRUE, reserved |-> hold[IdOf[x]].reserved]
              \/ /\ hold[IdOf[x]] = NoHold
                 /\ hold'[IdOf[x]] = [bucket |-> BucketOf[x], reserved |-> EstimateOf[x]]
                 /\ charge'[x] = charge[x] + EstimateOf[x]
                 /\ Reply(x) = [allowed |-> TRUE, reserved |-> EstimateOf[x]]
              \/ /\ hold[IdOf[x]] = NoHold
                 /\ hold'[IdOf[x]] = NoHold
                 /\ charge'[x] = charge[x]
                 /\ Reply(x) = [allowed |-> FALSE, reserved |-> 0]
<1>1. /\ IdOf[x] \in RequestId /\ EstimateOf[x] \in Nat
      /\ hold \in [RequestId -> Hold \cup {NoHold}]
      /\ balance \in [Bucket -> Int] /\ charge \in [Exchange -> Int]
    BY LifecycleAssumption, TypedParts DEF ScriptsInv, ScriptsTypeOK
<1>2. CASE hold[IdOf[x]] # NoHold
    <2>1. UNCHANGED storeVars
        BY <1>2 DEF RunReserve, ReserveBudget
    <2>2. hold' = hold /\ balance' = balance
        BY <2>1 DEF storeVars
    <2> QED BY <1>1, <1>2, <2>2 DEF RunReserve, Reply, ReserveReply
<1>3. CASE hold[IdOf[x]] = NoHold /\ balance[BucketOf[x]] >= EstimateOf[x]
    <2>1. /\ balance' = [balance EXCEPT ![BucketOf[x]] = @ - EstimateOf[x]]
          /\ hold' = [hold EXCEPT ![IdOf[x]] = [bucket |-> BucketOf[x], reserved |-> EstimateOf[x]]]
        BY <1>3 DEF RunReserve, ReserveBudget, Take
    <2>2. charge'[x] = charge[x] + balance[BucketOf[x]] - balance'[BucketOf[x]]
        BY <1>1 DEF RunReserve
    <2> QED BY <1>1, <1>3, <2>1, <2>2 DEF Reply, ReserveReply
<1>4. CASE hold[IdOf[x]] = NoHold /\ ~(balance[BucketOf[x]] >= EstimateOf[x])
    <2>1. UNCHANGED storeVars
        BY <1>4 DEF RunReserve, ReserveBudget
    <2>2. hold' = hold /\ balance' = balance
        BY <2>1 DEF storeVars
    <2> QED BY <1>1, <1>4, <2>2 DEF RunReserve, Reply, ReserveReply
<1> QED BY <1>2, <1>3, <1>4

LEMMA SettleHolds ==
    ASSUME Typed, NEW x \in Exchange, RunSettle(x)
    PROVE  /\ \A i \in RequestId \ {IdOf[x]} : hold'[i] = hold[i]
           /\ hold'[IdOf[x]] = NoHold
           /\ charge'[x] = IF hold[IdOf[x]] = NoHold THEN charge[x]
                           ELSE charge[x] + actual[x] - hold[IdOf[x]].reserved
<1>1. /\ IdOf[x] \in RequestId
      /\ hold \in [RequestId -> Hold \cup {NoHold}]
      /\ charge \in [Exchange -> Int]
    BY LifecycleAssumption, TypedParts DEF ScriptsInv, ScriptsTypeOK
<1>2. CASE hold[IdOf[x]] = NoHold
    <2>1. hold' = hold
        BY <1>2 DEF RunSettle, SettleAt, SettleBudget, SettleDelta, storeVars
    <2> QED BY <1>1, <1>2, <2>1 DEF RunSettle, SettleAt
<1>3. CASE hold[IdOf[x]] # NoHold
    <2>1. hold' = [hold EXCEPT ![IdOf[x]] = NoHold]
        BY <1>3 DEF RunSettle, SettleAt, SettleBudget, SettleDelta
    <2> QED BY <1>1, <1>3, <2>1 DEF RunSettle, SettleAt
<1> QED BY <1>2, <1>3

LEMMA ReleaseHolds ==
    ASSUME Typed, NEW x \in Exchange, RunRelease(x)
    PROVE  /\ \A i \in RequestId \ {IdOf[x]} : hold'[i] = hold[i]
           /\ hold'[IdOf[x]] = NoHold
           /\ charge'[x] = charge[x] - hold[IdOf[x]].reserved
<1>1. /\ IdOf[x] \in RequestId
      /\ hold \in [RequestId -> Hold \cup {NoHold}]
      /\ charge \in [Exchange -> Int]
    BY LifecycleAssumption, TypedParts DEF ScriptsInv, ScriptsTypeOK
<1>2. hold' = [hold EXCEPT ![IdOf[x]] = NoHold] \/ (hold[IdOf[x]] = NoHold /\ hold' = hold)
    BY DEF RunRelease, ReleaseBudget, storeVars
<1> QED BY <1>1, <1>2 DEF RunRelease

-----------------------------------------------------------------------------
(* Amounts *)

LEMMA InitAmounts == Init => Amounts
    BY DEF Init, ScriptsInit, Amounts, NoHold, Ledger!NoHold

LEMMA AmountsStep ==
    ASSUME Typed, Control, Amounts, [Next]_vars
    PROVE  Amounts'
<1> USE DEF KeepBody, KeepAdmission, Goto
<1> DEFINE Own(x) == /\ reserved[x] \in Estimates \cup {0}
                     /\ seen[x] \in Usage \cup {NoUsage}
                     /\ actual[x] \in Usage \cup Estimates \cup {0}
           Kept(i) == hold[i].reserved \in Estimates \cup {0}
<1>t. HandlersTyped
    BY TypedParts
<1>o. /\ \A x \in Exchange : Own(x)
      /\ \A i \in RequestId : Kept(i)
    BY DEF Amounts
<1>n. NoHold.reserved = 0
    BY DEF NoHold, Ledger!NoHold
<1>e. \A x \in Exchange : IdOf[x] \in RequestId /\ EstimateOf[x] \in Estimates
    BY LifecycleAssumption DEF Estimates
<1>1. ASSUME NEW x \in Exchange, BucketOf[x] \in Bucket, RunReserve(x)
      PROVE  (\A i \in RequestId : Kept(i)') /\ Reply(x).reserved \in Estimates \cup {0}
    <2>1. /\ \A i \in RequestId \ {IdOf[x]} : hold'[i] = hold[i]
          /\ hold'[IdOf[x]] \in {hold[IdOf[x]], NoHold,
                                 [bucket |-> BucketOf[x], reserved |-> EstimateOf[x]]}
          /\ Reply(x).reserved \in {hold[IdOf[x]].reserved, EstimateOf[x], 0}
        <3> HIDE DEF Own, Kept
        <3> QED BY <1>1, ReserveHolds
    <2>2. hold[IdOf[x]].reserved \in Estimates \cup {0}
        BY <1>o, <1>e
    <2>3. hold'[IdOf[x]].reserved \in Estimates \cup {0}
        BY <2>1, <2>2, <1>n, <1>e
    <2> QED BY <2>1, <2>2, <2>3, <1>o, <1>e
<1>2. ASSUME NEW x \in Exchange, RunSettle(x) \/ RunRelease(x)
      PROVE  \A i \in RequestId : Kept(i)'
    BY <1>2, <1>o, <1>n, <1>e, SettleHolds, ReleaseHolds
<1>3. ASSUME hold' = hold
      PROVE  \A i \in RequestId : Kept(i)'
    BY <1>3, <1>o
<1>4. ASSUME NEW x \in Exchange, StepOf(x)
      PROVE  (\A i \in RequestId : Kept(i)') /\ Own(x)'
    <2>1. CASE Arrive(x) \/ ReserveUnanswered(x) \/ ClientLeaves(x)
        BY <2>1, <1>3, <1>o DEF Arrive, RejectBody, ArriveUnmetered, ArriveMetered, ReserveUnanswered,
           FailOpen, ClientLeaves, Move, storeVars
    <2>2. CASE ReserveAnswered(x)
        BY <2>2, <1>t, <1>1, <1>o DEF ReserveAnswered, Answered, Control, ControlOf, HandlersTyped
    <2>3. CASE ReserveTimedOut(x) \/ LateReserve(x)
        BY <2>3, <1>1, <1>o DEF ReserveTimedOut, FailOpen, LateReserve, Control, ControlOf
    <2>4. CASE \/ UpstreamErrorStatus(x) \/ UpstreamOK(x) \/ UpstreamPassedThrough(x)
               \/ TransportError(x) \/ CopyFailed(x) \/ LogRelease(x) \/ LogSettled(x)
        BY <2>4, <1>3, <1>o DEF UpstreamErrorStatus, UpstreamOK, UpstreamPassedThrough,
           TransportError, CopyFailed, LogRelease, LogSettled, Move, storeVars
    <2>5. CASE ReleaseApplied(x) \/ ReleaseFailed(x)
        BY <2>5, <1>2, <1>3, <1>o DEF ReleaseApplied, ReleaseFailed, Released, Move, storeVars
    <2>6. CASE (\E u \in Usage : ReadUsage(x, u)) \/ ReadEOF(x) \/ ReadCancelled(x) \/ CloseBody(x)
        BY <2>6, <1>t, <1>3, <1>o DEF ReadUsage, ReadEOF, ReadCancelled, CloseBody, Finish,
           StartSettle, Start, HandlersTyped, storeVars
    <2>7. CASE SettleApplied(x) \/ SettleFailed(x)
        BY <2>7, <1>2, <1>3, <1>o DEF SettleApplied, SettleFailed, AttemptFailed, storeVars
    <2> QED BY <1>4, <2>1, <2>2, <2>3, <2>4, <2>5, <2>6, <2>7 DEF StepOf, Handler, Upstream
<1>5. ASSUME NEW x \in Exchange, StepOf(x)
      PROVE  Amounts'
    <2>1. ASSUME NEW y \in Exchange PROVE Own(y)'
        <3>1. CASE y = x
            BY <3>1, <1>4, <1>5
        <3>2. CASE y # x
            BY <3>2, <1>5, <1>o, OthersUntouched DEF Untouched
        <3> QED BY <3>1, <3>2
    <2> QED BY <2>1, <1>4, <1>5 DEF Amounts
<1>6. CASE Crash
    <2>1. ASSUME NEW y \in Exchange PROVE Own(y)'
        BY <1>6, <1>o, CrashOf
    <2> QED BY <1>6, <2>1, <1>3 DEF Crash, storeVars, Amounts
<1>7. ASSUME NEW i \in RequestId, Expire(i)
      PROVE  Amounts'
    <2>1. hold' = [hold EXCEPT ![i] = NoHold] /\ hold \in [RequestId -> Hold \cup {NoHold}]
        BY <1>7, TypedParts DEF Expire, ExpireHold, ScriptsInv, ScriptsTypeOK
    <2> QED BY <1>7, <2>1, <1>o, <1>n DEF Expire, Amounts
<1>8. CASE (\E b \in Bucket, v \in Grant : SetBalance(b, v)) \/ UNCHANGED vars
    BY <1>8 DEF SetBalance, SetBudget, vars, exchangeVars, storeVars, Amounts
<1> QED BY <1>5, <1>6, <1>7, <1>8, StepCases

-----------------------------------------------------------------------------
(* Every hold has a keeper *)

LEMMA InitKeepers == Init => HoldHasKeeper
    BY DEF Init, ScriptsInit, HoldHasKeeper

\* x answers for the hold of its id.
Answers(x) == Keeper(x) \/ Leaked(x)

LEMMA KeepersByCall ==
    /\ HoldHasKeeper <=>
          \A i \in RequestId : hold[i] # NoHold => \E x \in Exchange : IdOf[x] = i /\ Answers(x)
    /\ HoldHasKeeper' <=>
          \A i \in RequestId : hold'[i] # NoHold => \E x \in Exchange : IdOf[x] = i /\ Answers(x)'
    BY DEF HoldHasKeeper, Answers

\* A step of the handler of x that is not the end of its hold leaves x answering
\* for it.
LEMMA AnswersStep ==
    ASSUME Typed, Control, NEW x \in Exchange, StepOf(x)
    PROVE  /\ Answers(x) => Answers(x)' \/ hold'[IdOf[x]] = NoHold
           /\ hold'[IdOf[x]] # hold[IdOf[x]] => Answers(x)' \/ hold'[IdOf[x]] = NoHold
           /\ \A i \in RequestId \ {IdOf[x]} : hold'[i] = hold[i]
<1> USE DEF KeepBody, KeepAdmission, Goto
<1> DEFINE Goal == /\ Answers(x) => Answers(x)' \/ hold'[IdOf[x]] = NoHold
                   /\ hold'[IdOf[x]] # hold[IdOf[x]] => Answers(x)' \/ hold'[IdOf[x]] = NoHold
                   /\ \A i \in RequestId \ {IdOf[x]} : hold'[i] = hold[i]
<1>t. HandlersTyped /\ ControlOf(x)
    BY TypedParts DEF Control
<1>q. ASSUME hold' = hold, Answers(x) => Answers(x)'
      PROVE  Goal
    BY <1>q
<1> HIDE DEF Goal
<1>1. CASE Arrive(x) \/ ReserveUnanswered(x) \/ ClientLeaves(x)
    <2>1. hold' = hold
        BY <1>1 DEF Arrive, RejectBody, ArriveUnmetered, ArriveMetered, ReserveUnanswered,
           ClientLeaves, Move, storeVars
    <2>2. Answers(x) => Answers(x)'
        BY <1>1, <1>t DEF Arrive, RejectBody, ArriveUnmetered, ArriveMetered, ReserveUnanswered,
           FailOpen, ClientLeaves, Move, Answers, Keeper, Leaked, Settling, HandlersTyped, ControlOf
    <2> QED BY <2>1, <2>2, <1>q
<1>2. CASE ReserveAnswered(x) \/ ReserveTimedOut(x) \/ LateReserve(x)
    <2>1. RunReserve(x) /\ BucketOf[x] \in Bucket
        BY <1>2, <1>t DEF ReserveAnswered, Answered, ReserveTimedOut, FailOpen, LateReserve, ControlOf
    <2>2. CASE ReserveAnswered(x)
        <3>1. \/ phase'[x] = "forward"
              \/ phase'[x] = "denied" /\ ~Reply(x).allowed
            BY <2>2, <1>t DEF ReserveAnswered, Answered, HandlersTyped
        <3>2. phase'[x] = "forward" => Answers(x)'
            BY DEF Answers, Keeper
        <3>3. ~Answers(x)
            BY <2>2, <1>t DEF ReserveAnswered, Answered, Answers, Keeper, Leaked, Settling, ControlOf
        <3>4. ~Reply(x).allowed =>
                 hold[IdOf[x]] = NoHold /\ ~(balance[BucketOf[x]] >= EstimateOf[x])
            BY DEF Reply, ReserveReply
        <3>5. ~Reply(x).allowed => hold'[IdOf[x]] = NoHold
            BY <2>1, <3>4 DEF RunReserve, ReserveBudget, storeVars
        <3>6. \A i \in RequestId \ {IdOf[x]} : hold'[i] = hold[i]
            BY <2>1, ReserveHolds
        <3> QED BY <3>1, <3>2, <3>3, <3>5, <3>6 DEF Goal
    <2>3. CASE ReserveTimedOut(x)
        <3>1. Answers(x)'
            BY <2>3, <1>t DEF ReserveTimedOut, FailOpen, Answers, Leaked, HandlersTyped
        <3> QED BY <2>1, <3>1, ReserveHolds DEF Goal
    <2>4. CASE LateReserve(x)
        <3>1. Answers(x)'
            BY <2>4, <1>t DEF LateReserve, Answers, Leaked, HandlersTyped, ControlOf
        <3> QED BY <2>1, <3>1, ReserveHolds DEF Goal
    <2> QED BY <1>2, <2>2, <2>3, <2>4
<1>3. CASE \/ UpstreamErrorStatus(x) \/ UpstreamOK(x) \/ UpstreamPassedThrough(x)
           \/ TransportError(x) \/ CopyFailed(x) \/ LogRelease(x) \/ Move(x, "releasing", "unreleased")
    <2>1. hold' = hold
        BY <1>3 DEF UpstreamErrorStatus, UpstreamOK, UpstreamPassedThrough, TransportError,
           CopyFailed, LogRelease, Move, storeVars
    <2>2. Answers(x) => Answers(x)'
        BY <1>3, <1>t DEF UpstreamErrorStatus, UpstreamOK, UpstreamPassedThrough, TransportError,
           CopyFailed, LogRelease, Move, Answers, Keeper, Leaked, Settling, HandlersTyped, ControlOf
    <2> QED BY <2>1, <2>2, <1>q
<1>4. ASSUME NEW p, Released(x, p)
      PROVE  Goal
    BY <1>4, ReleaseHolds DEF Released, Goal
<1>5. CASE (\E u \in Usage : ReadUsage(x, u)) \/ ReadEOF(x) \/ ReadCancelled(x) \/ CloseBody(x)
    <2>1. hold' = hold
        BY <1>5 DEF ReadUsage, ReadEOF, ReadCancelled, CloseBody, storeVars
    <2>2. Answers(x) => Answers(x)'
        BY <1>5, <1>t DEF ReadUsage, ReadEOF, ReadCancelled, CloseBody, Finish, StartSettle, Start,
           Answers, Keeper, Leaked, Settling, HandlersTyped, ControlOf
    <2> QED BY <2>1, <2>2, <1>q
<1>6. CASE SettleApplied(x)
    BY <1>6, SettleHolds DEF SettleApplied, Goal
<1>7. CASE SettleFailed(x)
    <2>1. CASE RunSettle(x)
        BY <2>1, SettleHolds DEF Goal
    <2>2. CASE UNCHANGED storeVars
        <3>1. Answers(x)'
            BY <1>7, <1>t DEF SettleFailed, AttemptFailed, Answers, Keeper, Leaked, Settling,
               HandlersTyped, Settlement
        <3> QED BY <2>2, <3>1, <1>q DEF storeVars
    <2> QED BY <1>7, <2>1, <2>2 DEF SettleFailed, AttemptFailed
<1>8. CASE LogSettled(x)
    <2>1. hold' = hold
        BY <1>8 DEF LogSettled, storeVars
    <2>2. Answers(x) => Answers(x)'
        BY <1>8, <1>t DEF LogSettled, Answers, Keeper, Leaked, Settling, HandlersTyped, ControlOf
    <2> QED BY <2>1, <2>2, <1>q
<1> QED BY <1>1, <1>2, <1>3, <1>4, <1>5, <1>6, <1>7, <1>8
        DEF StepOf, Handler, Upstream, ReleaseApplied, ReleaseFailed, Goal

LEMMA KeepersStep ==
    ASSUME Typed, Control, HoldHasKeeper, [Next]_vars
    PROVE  HoldHasKeeper'
<1> DEFINE Kept(i) == hold[i] # NoHold => \E x \in Exchange : IdOf[x] = i /\ Answers(x)
<1>k. \A i \in RequestId : Kept(i)
    BY KeepersByCall
<1> SUFFICES ASSUME NEW i \in RequestId, hold'[i] # NoHold
             PROVE  \E x \in Exchange : IdOf[x] = i /\ Answers(x)'
    BY KeepersByCall
<1>1. ASSUME NEW x \in Exchange, StepOf(x)
      PROVE  \E y \in Exchange : IdOf[y] = i /\ Answers(y)'
    <2>1. CASE hold'[i] # hold[i]
        <3>1. i = IdOf[x] /\ Answers(x)'
            BY <1>1, <2>1, AnswersStep
        <3> QED BY <3>1
    <2>2. CASE hold'[i] = hold[i]
        <3>1. PICK y \in Exchange : IdOf[y] = i /\ Answers(y)
            BY <1>k, <2>2
        <3>2. CASE y = x
            BY <1>1, <3>1, <3>2, AnswersStep
        <3>3. CASE y # x
            <4>1. Untouched(y)
                BY <1>1, <3>3, OthersUntouched
            <4> QED BY <3>1, <4>1 DEF Untouched, Answers, Keeper, Leaked, Settling
        <3> QED BY <3>2, <3>3
    <2> QED BY <2>1, <2>2
<1>2. CASE Crash
    <2>1. hold' = hold
        BY <1>2 DEF Crash, storeVars
    <2>2. PICK y \in Exchange : IdOf[y] = i /\ Answers(y)
        BY <1>k, <2>1
    <2>3. CASE Active(y)
        <3>1. phase'[y] = "crashed"
            BY <1>2, <2>3, CrashOf
        <3> QED BY <2>2, <3>1 DEF Answers, Leaked
    <2>4. CASE ~Active(y)
        <3>1. phase'[y] = phase[y] /\ settle'[y] = settle[y] /\ bypass'[y] = bypass[y]
            BY <1>2, <2>4, CrashOf
        <3> QED BY <2>2, <3>1 DEF Answers, Keeper, Leaked, Settling
    <2> QED BY <2>3, <2>4
<1>3. CASE \/ \E j \in RequestId : Expire(j)
           \/ \E b \in Bucket, v \in Grant : SetBalance(b, v)
           \/ UNCHANGED vars
    <2>1. hold'[i] = hold[i]
        <3>1. CASE \E j \in RequestId : Expire(j)
            <4>1. PICK j \in RequestId : hold' = [hold EXCEPT ![j] = NoHold]
                BY <3>1 DEF Expire, ExpireHold
            <4>2. hold \in [RequestId -> Hold \cup {NoHold}]
                BY TypedParts DEF ScriptsInv, ScriptsTypeOK
            <4> QED BY <4>1, <4>2
        <3> QED BY <1>3, <3>1 DEF SetBalance, SetBudget, vars, storeVars
    <2>2. PICK y \in Exchange : IdOf[y] = i /\ Answers(y)
        BY <1>k, <2>1
    <2>3. phase' = phase /\ settle' = settle /\ bypass' = bypass
        BY <1>3 DEF Expire, SetBalance, KeepBody, KeepAdmission, vars, exchangeVars
    <2> QED BY <2>2, <2>3 DEF Answers, Keeper, Leaked, Settling
<1> QED BY <1>1, <1>2, <1>3, StepCases

-----------------------------------------------------------------------------
(* What a call of its own id has cost *)

LEMMA InitAccounts == Init => Accounts
    BY LifecycleAssumption DEF Init, ScriptsInit, Accounts, AccountOf, Reserved

\* Nothing that happens to other calls reaches the account of x.
LEMMA AccountUntouched ==
    ASSUME NEW x \in Exchange, AccountOf(x), Untouched(x),
           hold'[IdOf[x]] = hold[IdOf[x]],
           IdOf[x] \in lapsed' <=> IdOf[x] \in lapsed
    PROVE  AccountOf(x)'
    BY DEF AccountOf, Untouched, Reserved

LEMMA StepKeepsLapsed ==
    ASSUME NEW x \in Exchange, StepOf(x)
    PROVE  lapsed' = lapsed
    BY DEF StepOf, Handler, Upstream, Arrive, RejectBody, ArriveUnmetered, ArriveMetered,
       ReserveAnswered, Answered, ReserveTimedOut, ReserveUnanswered, FailOpen, LateReserve,
       UpstreamErrorStatus, UpstreamOK, UpstreamPassedThrough, TransportError, CopyFailed,
       ReleaseApplied, ReleaseFailed, Released, LogRelease, ReadUsage, ReadEOF, ReadCancelled,
       CloseBody, SettleApplied, SettleFailed, AttemptFailed, LogSettled, ClientLeaves, Move,
       KeepAdmission

\* The account of x follows each step of its own handler.
LEMMA AccountStep ==
    ASSUME Typed, Control, NEW x \in Exchange, AccountOf(x), StepOf(x)
    PROVE  AccountOf(x)'
<1> USE DEF KeepBody, KeepAdmission, Goto
<1>t. HandlersTyped /\ ControlOf(x) /\ charge \in [Exchange -> Int]
    BY TypedParts DEF Control
<1>l. lapsed' = lapsed
    BY StepKeepsLapsed
<1>e. EstimateOf[x] \in Nat /\ NoHold.reserved = 0
    BY LifecycleAssumption DEF NoHold, Ledger!NoHold
<1>1. CASE Arrive(x) \/ ReserveUnanswered(x) \/ ClientLeaves(x)
    <2>1. hold' = hold /\ charge' = charge
        BY <1>1 DEF Arrive, RejectBody, ArriveUnmetered, ArriveMetered, ReserveUnanswered,
           ClientLeaves, Move, storeVars
    <2> QED BY <1>1, <1>t, <1>l, <2>1 DEF Arrive, RejectBody, ArriveUnmetered, ArriveMetered,
           ReserveUnanswered, FailOpen, ClientLeaves, Move, AccountOf, Reserved, HandlersTyped,
           ControlOf
<1>2. CASE ReserveAnswered(x) \/ ReserveTimedOut(x) \/ LateReserve(x)
    <2>1. RunReserve(x) /\ BucketOf[x] \in Bucket
        BY <1>2, <1>t DEF ReserveAnswered, Answered, ReserveTimedOut, FailOpen, LateReserve, ControlOf
    <2>2. CASE ReserveAnswered(x)
        <3>1. hold[IdOf[x]] = NoHold /\ IdOf[x] \notin lapsed /\ charge[x] = 0
            BY <2>2 DEF ReserveAnswered, Answered, AccountOf
        <3>2. \/ phase'[x] = "forward" /\ reserved'[x] = Reply(x).reserved
              \/ phase'[x] = "denied" /\ reserved'[x] = 0
            BY <2>2, <1>t DEF ReserveAnswered, Answered, HandlersTyped, ControlOf
        <3>3. \/ /\ hold'[IdOf[x]] = [bucket |-> BucketOf[x], reserved |-> EstimateOf[x]]
                 /\ charge'[x] = EstimateOf[x] /\ Reply(x).reserved = EstimateOf[x]
              \/ Reply(x).reserved = 0
            BY <2>1, <3>1, <1>e, ReserveHolds
        <3>4. settle'[x] = "none" /\ IdOf[x] \notin lapsed'
            BY <2>2, <1>t, <1>l, <3>1 DEF ReserveAnswered, Answered, ControlOf
        <3> QED BY <3>2, <3>3, <3>4 DEF AccountOf, Reserved
    <2>3. CASE ReserveTimedOut(x) \/ LateReserve(x)
        <3>1. phase'[x] \notin {"idle", "precheck"} /\ (bypass'[x] \/ reserved'[x] = 0)
            BY <2>3, <1>t DEF ReserveTimedOut, FailOpen, LateReserve, HandlersTyped, ControlOf
        <3> QED BY <3>1 DEF AccountOf, Reserved
    <2> QED BY <1>2, <2>2, <2>3
<1>3. CASE \/ UpstreamErrorStatus(x) \/ UpstreamOK(x) \/ UpstreamPassedThrough(x)
           \/ TransportError(x) \/ CopyFailed(x) \/ LogRelease(x) \/ Move(x, "releasing", "unreleased")
    <2>1. hold' = hold /\ charge' = charge
        BY <1>3 DEF UpstreamErrorStatus, UpstreamOK, UpstreamPassedThrough, TransportError,
           CopyFailed, LogRelease, Move, storeVars
    <2> QED BY <1>3, <1>t, <1>l, <2>1 DEF UpstreamErrorStatus, UpstreamOK, UpstreamPassedThrough,
           TransportError, CopyFailed, LogRelease, Move, AccountOf, Reserved, HandlersTyped, ControlOf
<1>4. ASSUME NEW p \in {"logging", "unreleased"}, Released(x, p)
      PROVE  AccountOf(x)'
    <2>1. hold'[IdOf[x]] = NoHold /\ charge'[x] = charge[x] - hold[IdOf[x]].reserved
        BY <1>4, ReleaseHolds DEF Released
    <2>2. /\ phase[x] = "releasing" /\ phase'[x] = p /\ settle[x] = "none"
          /\ UNCHANGED <<bypass, reserved, settle, tries, actual>>
        BY <1>4, <1>t DEF Released, HandlersTyped, ControlOf
    <2>3. charge[x] \in Int /\ reserved[x] \in Nat
        BY <1>t DEF HandlersTyped
    <2> QED BY <1>e, <1>l, <2>1, <2>2, <2>3 DEF AccountOf, Reserved
<1>5. CASE (\E u \in Usage : ReadUsage(x, u)) \/ ReadEOF(x) \/ ReadCancelled(x) \/ CloseBody(x)
    <2>1. hold' = hold /\ charge' = charge
        BY <1>5 DEF ReadUsage, ReadEOF, ReadCancelled, CloseBody, storeVars
    <2> QED BY <1>5, <1>t, <1>l, <2>1 DEF ReadUsage, ReadEOF, ReadCancelled, CloseBody, Finish,
           StartSettle, Start, AccountOf, Reserved, HandlersTyped, ControlOf
<1>6. ASSUME RunSettle(x), settle[x] = "running",
             UNCHANGED <<phase, bypass, reserved, actual>>,
             \/ settle'[x] = "applied"
             \/ settle'[x] \in {"running", "gaveup"} /\ tries'[x] > 0
      PROVE  AccountOf(x)'
    <2>1. /\ hold'[IdOf[x]] = NoHold
          /\ charge'[x] = IF hold[IdOf[x]] = NoHold THEN charge[x]
                          ELSE charge[x] + actual[x] - hold[IdOf[x]].reserved
        BY <1>6, SettleHolds
    <2>2. charge[x] \in Int /\ reserved[x] \in Nat /\ actual[x] \in Nat
        BY <1>t DEF HandlersTyped
    <2>3. [bucket |-> BucketOf[x], reserved |-> reserved[x]] # NoHold \/ reserved[x] = 0
        BY DEF NoHold, Ledger!NoHold
    <2> QED BY <1>6, <1>t, <1>l, <2>1, <2>2, <2>3 DEF AccountOf, Reserved, ControlOf
<1>7. CASE SettleApplied(x)
    BY <1>7, <1>6, <1>t DEF SettleApplied, HandlersTyped
<1>8. CASE SettleFailed(x)
    <2>1. /\ settle[x] = "running" /\ UNCHANGED <<phase, bypass, reserved, actual>>
          /\ settle'[x] \in {"running", "gaveup"} /\ tries'[x] > 0
        BY <1>8, <1>t DEF SettleFailed, AttemptFailed, HandlersTyped
    <2>2. CASE RunSettle(x)
        BY <2>1, <2>2, <1>6
    <2>3. CASE UNCHANGED <<storeVars, charge>>
        <3>1. hold' = hold /\ charge' = charge
            BY <2>3 DEF storeVars
        <3> QED BY <1>t, <1>l, <2>1, <3>1 DEF AccountOf, Reserved, ControlOf
    <2> QED BY <1>8, <2>2, <2>3 DEF SettleFailed, AttemptFailed
<1>9. CASE LogSettled(x)
    <2>1. hold' = hold /\ charge' = charge
        BY <1>9 DEF LogSettled, storeVars
    <2> QED BY <1>9, <1>t, <1>l, <2>1 DEF LogSettled, Settling, AccountOf, Reserved, HandlersTyped,
           ControlOf
<1> QED BY <1>1, <1>2, <1>3, <1>4, <1>5, <1>7, <1>8, <1>9
        DEF StepOf, Handler, Upstream, ReleaseApplied, ReleaseFailed

LEMMA AccountsStep ==
    ASSUME Typed, Control, Accounts, [Next]_vars
    PROVE  Accounts'
<1> SUFFICES ASSUME NEW y \in Exchange, OwnsId(y) PROVE AccountOf(y)'
    BY DEF Accounts, OwnsId
<1>o. AccountOf(y) /\ IdOf[y] \in RequestId
    BY LifecycleAssumption DEF Accounts
<1>1. ASSUME NEW x \in Exchange, StepOf(x)
      PROVE  AccountOf(y)'
    <2>1. CASE x = y
        BY <1>1, <1>o, <2>1, AccountStep
    <2>2. CASE x # y
        <3>1. hold'[IdOf[y]] = hold[IdOf[y]]
            BY <1>1, <1>o, <2>2, AnswersStep DEF OwnsId
        <3> QED BY <1>1, <1>o, <2>2, <3>1, OthersUntouched, StepKeepsLapsed, AccountUntouched
    <2> QED BY <2>1, <2>2
<1>2. CASE Crash
    <2>1. hold' = hold /\ lapsed' = lapsed /\ charge' = charge
        BY <1>2 DEF Crash, storeVars
    <2>2. CASE Active(y)
        <3>1. phase'[y] = "crashed" /\ reserved'[y] = 0
            BY <1>2, <2>2, CrashOf
        <3> QED BY <3>1 DEF AccountOf, Reserved
    <2>3. CASE ~Active(y)
        <3>1. /\ phase'[y] = phase[y] /\ reserved'[y] = reserved[y] /\ bypass'[y] = bypass[y]
              /\ settle'[y] = settle[y] /\ tries'[y] = tries[y] /\ actual'[y] = actual[y]
            BY <1>2, <2>3, CrashOf
        <3> QED BY <1>o, <2>1, <3>1 DEF AccountOf, Reserved
    <2> QED BY <2>2, <2>3
<1>3. ASSUME NEW j \in RequestId, Expire(j)
      PROVE  AccountOf(y)'
    <2>1. /\ hold[j] # NoHold
          /\ hold' = [hold EXCEPT ![j] = NoHold]
          /\ lapsed' = lapsed \cup {j}
          /\ UNCHANGED <<phase, bypass, reserved, queued, seen, rows, settle, tries, actual, charge>>
        BY <1>3 DEF Expire, ExpireHold, KeepBody
    <2>2. hold \in [RequestId -> Hold \cup {NoHold}]
        BY TypedParts DEF ScriptsInv, ScriptsTypeOK
    <2>3. CASE j = IdOf[y]
        BY <1>o, <2>1, <2>2, <2>3 DEF AccountOf, Reserved
    <2>4. CASE j # IdOf[y]
        BY <1>o, <2>1, <2>2, <2>4, AccountUntouched DEF Untouched
    <2> QED BY <2>3, <2>4
<1>4. CASE (\E b \in Bucket, v \in Grant : SetBalance(b, v)) \/ UNCHANGED vars
    <2>1. /\ hold' = hold
          /\ lapsed' = lapsed
          /\ UNCHANGED <<phase, bypass, reserved, queued, seen, rows, settle, tries, actual, charge>>
        BY <1>4 DEF SetBalance, SetBudget, KeepBody, KeepAdmission, vars, exchangeVars, storeVars
    <2> QED BY <1>o, <2>1, AccountUntouched DEF Untouched
<1> QED BY <1>1, <1>2, <1>3, <1>4, StepCases

-----------------------------------------------------------------------------
(* Where what is settled comes from *)

LEMMA InitSources == Init => Sources
    BY DEF Init, Sources, SourceOf

\* A step of the handler of x keeps the outcomes of the others.
LEMMA OthersOutcomes ==
    ASSUME Typed, NEW x \in Exchange, StepOf(x), NEW y \in Exchange, y # x
    PROVE  outcome'[y] = outcome[y]
<1> USE DEF KeepBody, KeepAdmission, Goto
<1>t. outcome \in [Exchange -> Outcome]
    BY TypedParts DEF HandlersTyped
<1>1. CASE (\E u \in Usage : ReadUsage(x, u)) \/ ReadEOF(x) \/ ReadCancelled(x) \/ CloseBody(x)
    BY <1>1, <1>t DEF ReadUsage, ReadEOF, ReadCancelled, CloseBody, Finish, StartSettle, Start
<1>2. CASE ~((\E u \in Usage : ReadUsage(x, u)) \/ ReadEOF(x) \/ ReadCancelled(x) \/ CloseBody(x))
    <2>1. outcome' = outcome
        BY <1>2 DEF StepOf, Handler, Upstream, Arrive, RejectBody, ArriveUnmetered, ArriveMetered,
           ReserveAnswered, Answered, ReserveTimedOut, ReserveUnanswered, FailOpen, LateReserve,
           UpstreamErrorStatus, UpstreamOK, UpstreamPassedThrough, TransportError, CopyFailed,
           ReleaseApplied, ReleaseFailed, Released, LogRelease, SettleApplied, SettleFailed,
           AttemptFailed, LogSettled, ClientLeaves, Move
    <2> QED BY <2>1
<1> QED BY <1>1, <1>2

\* Only the end of the body starts a settlement, and nothing is read after it.
LEMMA SourceStep ==
    ASSUME Typed, Control, NEW x \in Exchange, SourceOf(x), StepOf(x)
    PROVE  SourceOf(x)'
<1> USE DEF KeepBody, KeepAdmission, Goto
<1>t. HandlersTyped /\ ControlOf(x)
    BY TypedParts DEF Control
<1>1. CASE \/ Arrive(x) \/ ReserveAnswered(x) \/ ReserveTimedOut(x) \/ ReserveUnanswered(x)
           \/ LateReserve(x) \/ ClientLeaves(x)
    <2>1. settle' = settle /\ outcome' = outcome /\ actual' = actual /\ seen' = seen
        BY <1>1 DEF Arrive, RejectBody, ArriveUnmetered, ArriveMetered, ReserveAnswered, Answered,
           ReserveTimedOut, ReserveUnanswered, FailOpen, LateReserve, ClientLeaves, Move
    <2>2. settle[x] = "none" \/ reserved'[x] = reserved[x]
        BY <1>1, <1>t DEF Arrive, RejectBody, ArriveUnmetered, ArriveMetered, ReserveAnswered, Answered,
           ReserveTimedOut, ReserveUnanswered, FailOpen, LateReserve, ClientLeaves, Move, ControlOf
    <2> QED BY <2>1, <2>2 DEF SourceOf
<1>2. CASE \/ UpstreamErrorStatus(x) \/ UpstreamOK(x) \/ UpstreamPassedThrough(x)
           \/ TransportError(x) \/ CopyFailed(x) \/ LogRelease(x) \/ ReleaseApplied(x) \/ ReleaseFailed(x)
    BY <1>2 DEF UpstreamErrorStatus, UpstreamOK, UpstreamPassedThrough, TransportError, CopyFailed,
       LogRelease, ReleaseApplied, ReleaseFailed, Released, Move, SourceOf
<1>3. ASSUME NEW u \in Usage, ReadUsage(x, u)
      PROVE  SourceOf(x)'
    BY <1>3, <1>t DEF ReadUsage, SourceOf, ControlOf
<1>4. CASE ReadEOF(x) \/ CloseBody(x)
    <2>1. seen' = seen /\ reserved' = reserved
        BY <1>4 DEF ReadEOF, CloseBody
    <2>2. CASE settle[x] = "none"
        BY <1>4, <1>t, <2>1, <2>2 DEF ReadEOF, CloseBody, Finish, StartSettle, Start, SourceOf,
           HandlersTyped
    <2>3. CASE settle[x] # "none"
        BY <1>4, <2>1, <2>3 DEF ReadEOF, CloseBody, Finish, StartSettle, SourceOf
    <2> QED BY <2>2, <2>3
<1>5. CASE ReadCancelled(x)
    BY <1>5, <1>t DEF ReadCancelled, StartSettle, Start, SourceOf, HandlersTyped, ControlOf
<1>6. CASE SettleApplied(x) \/ SettleFailed(x) \/ LogSettled(x)
    BY <1>6 DEF SettleApplied, SettleFailed, AttemptFailed, LogSettled, Settling, SourceOf
<1> QED BY <1>1, <1>2, <1>3, <1>4, <1>5, <1>6 DEF StepOf, Handler, Upstream

LEMMA SourcesStep ==
    ASSUME Typed, Control, Sources, [Next]_vars
    PROVE  Sources'
<1> SUFFICES ASSUME NEW y \in Exchange PROVE SourceOf(y)'
    BY DEF Sources
<1>o. SourceOf(y)
    BY DEF Sources
<1>1. ASSUME NEW x \in Exchange, StepOf(x)
      PROVE  SourceOf(y)'
    <2>1. CASE x = y
        BY <1>1, <1>o, <2>1, SourceStep
    <2>2. CASE x # y
        <3>1. Untouched(y) /\ outcome'[y] = outcome[y]
            BY <1>1, <2>2, OthersUntouched, OthersOutcomes
        <3> QED BY <1>o, <3>1 DEF Untouched, SourceOf
    <2> QED BY <2>1, <2>2
<1>2. CASE Crash
    <2>1. CASE Active(y)
        BY <1>2, <2>1, CrashOf DEF SourceOf
    <2>2. CASE ~Active(y)
        <3>1. /\ settle'[y] = settle[y] /\ outcome'[y] = outcome[y] /\ actual'[y] = actual[y]
              /\ seen'[y] = seen[y] /\ reserved'[y] = reserved[y]
            BY <1>2, <2>2, CrashOf
        <3> QED BY <1>o, <3>1 DEF SourceOf
    <2> QED BY <2>1, <2>2
<1>3. CASE \/ \E i \in RequestId : Expire(i)
           \/ \E b \in Bucket, v \in Grant : SetBalance(b, v)
           \/ UNCHANGED vars
    <2>1. UNCHANGED <<settle, outcome, actual, seen, reserved>>
        BY <1>3 DEF Expire, SetBalance, KeepBody, KeepAdmission, vars, exchangeVars
    <2> QED BY <1>o, <2>1 DEF SourceOf
<1> QED BY <1>1, <1>2, <1>3, StepCases

-----------------------------------------------------------------------------
(* What any call of its own id has cost, be it dead, forgotten or late *)

LEMMA InitCosts == Init => Costs
    BY LifecycleAssumption DEF Init, ScriptsInit, Costs, CostOf, CostMatches

\* Nothing that happens to other calls reaches what x has cost.
LEMMA CostUntouched ==
    ASSUME NEW x \in Exchange, CostOf(x), Untouched(x), hold'[IdOf[x]] = hold[IdOf[x]]
    PROVE  CostOf(x)'
    BY DEF CostOf, CostMatches, Untouched

\* What x has cost follows each step of its own handler.
LEMMA CostStep ==
    ASSUME Typed, Control, Amounts, NEW x \in Exchange, CostOf(x), StepOf(x)
    PROVE  CostOf(x)'
<1> USE DEF KeepBody, KeepAdmission, Goto
<1> DEFINE e == EstimateOf[x]
           h == hold[IdOf[x]]
           mine == [bucket |-> BucketOf[x], reserved |-> e]
<1>t. HandlersTyped /\ ControlOf(x) /\ charge \in [Exchange -> Int]
    BY TypedParts DEF Control
<1>e. e \in Nat /\ NoHold.reserved = 0 /\ mine.reserved = e
    BY LifecycleAssumption DEF NoHold, Ledger!NoHold
<1>1. CASE Arrive(x) \/ ReserveUnanswered(x) \/ ClientLeaves(x)
    <2>1. hold' = hold /\ charge' = charge /\ actual' = actual /\ reserved' = reserved
        BY <1>1 DEF Arrive, RejectBody, ArriveUnmetered, ArriveMetered, ReserveUnanswered, FailOpen,
           ClientLeaves, Move, storeVars
    <2>2. phase'[x] \in {"idle", "precheck"} \/ queued'[x] =>
              phase[x] \in {"idle", "precheck"} \/ queued[x]
        BY <1>1, <1>t DEF Arrive, RejectBody, ArriveUnmetered, ArriveMetered, ReserveUnanswered,
           FailOpen, ClientLeaves, Move, HandlersTyped
    <2> QED BY <2>1, <2>2 DEF CostOf, CostMatches
<1>2. CASE ReserveAnswered(x) \/ ReserveTimedOut(x) \/ LateReserve(x)
    <2>1. RunReserve(x) /\ BucketOf[x] \in Bucket
        BY <1>2, <1>t DEF ReserveAnswered, Answered, ReserveTimedOut, FailOpen, LateReserve, ControlOf
    <2>2. h = NoHold /\ charge[x] = 0
        BY <1>2 DEF ReserveAnswered, Answered, ReserveTimedOut, FailOpen, LateReserve, CostOf
    <2>3. \/ hold'[IdOf[x]] = mine /\ charge'[x] = e /\ Reply(x).reserved = e
          \/ hold'[IdOf[x]] = NoHold /\ charge'[x] = 0 /\ Reply(x).reserved = 0
        BY <2>1, <2>2, <1>e, <1>t, ReserveHolds
    <2>4. CostMatches(x)'
        BY <2>3 DEF CostMatches
    <2>5. reserved'[x] \in {reserved[x], Reply(x).reserved} /\ actual' = actual
        BY <1>2, <1>t DEF ReserveAnswered, Answered, ReserveTimedOut, FailOpen, LateReserve,
           HandlersTyped
    <2>6. phase'[x] \notin {"idle", "precheck"} /\ ~queued'[x]
        BY <1>2, <1>t DEF ReserveAnswered, Answered, ReserveTimedOut, FailOpen, LateReserve,
           HandlersTyped, ControlOf
    <2> QED BY <2>3, <2>4, <2>5, <2>6 DEF CostOf
<1>3. CASE \/ UpstreamErrorStatus(x) \/ UpstreamOK(x) \/ UpstreamPassedThrough(x)
           \/ TransportError(x) \/ CopyFailed(x) \/ LogRelease(x) \/ LogSettled(x)
           \/ Move(x, "releasing", "unreleased")
    <2>1. UNCHANGED <<hold, charge, actual, reserved, queued>>
        BY <1>3 DEF UpstreamErrorStatus, UpstreamOK, UpstreamPassedThrough, TransportError,
           CopyFailed, LogRelease, LogSettled, Move, storeVars
    <2>2. phase'[x] = phase[x] \/ phase'[x] \notin {"idle", "precheck"}
        BY <1>3, <1>t DEF UpstreamErrorStatus, UpstreamOK, UpstreamPassedThrough, TransportError,
           CopyFailed, LogRelease, LogSettled, Move, HandlersTyped
    <2> QED BY <2>1, <2>2 DEF CostOf, CostMatches
<1>4. ASSUME NEW p \in {"logging", "unreleased"}, Released(x, p)
      PROVE  CostOf(x)'
    <2>1. hold'[IdOf[x]] = NoHold /\ charge'[x] = charge[x] - h.reserved
        BY <1>4, ReleaseHolds DEF Released
    <2>2. /\ phase'[x] \notin {"idle", "precheck"}
          /\ UNCHANGED <<queued, reserved, actual>>
        BY <1>4, <1>t DEF Released, HandlersTyped
    <2>3. charge'[x] = IF h = NoHold THEN charge[x] ELSE 0
        BY <1>e, <1>t, <2>1 DEF CostOf, CostMatches
    <2> QED BY <2>1, <2>2, <2>3 DEF CostOf, CostMatches
<1>5. CASE (\E u \in Usage : ReadUsage(x, u)) \/ ReadEOF(x) \/ ReadCancelled(x) \/ CloseBody(x)
    <2>1. UNCHANGED <<hold, charge, reserved, queued>>
        BY <1>5 DEF ReadUsage, ReadEOF, ReadCancelled, CloseBody, storeVars
    <2>2. phase'[x] \notin {"idle", "precheck"}
        BY <1>5, <1>t DEF ReadUsage, ReadEOF, ReadCancelled, CloseBody, HandlersTyped
    <2>3. actual'[x] \in {actual[x], seen[x], reserved[x]}
          /\ (actual'[x] = seen[x] => actual'[x] \in {actual[x], reserved[x]} \/ seen[x] # NoUsage)
        BY <1>5, <1>t DEF ReadUsage, ReadEOF, ReadCancelled, CloseBody, Finish, StartSettle, Start,
           HandlersTyped
    <2>4. seen[x] \in Usage \cup {NoUsage}
        BY DEF Amounts
    <2> QED BY <2>1, <2>2, <2>3, <2>4 DEF CostOf, CostMatches
<1>6. ASSUME RunSettle(x), UNCHANGED <<phase, reserved, queued, actual>>
      PROVE  CostOf(x)'
    <2>1. /\ hold'[IdOf[x]] = NoHold
          /\ charge'[x] = IF h = NoHold THEN charge[x] ELSE charge[x] + actual[x] - h.reserved
        BY <1>6, SettleHolds
    <2>2. charge[x] \in Int /\ actual[x] \in Nat
        BY <1>t DEF HandlersTyped
    <2>3. charge'[x] = IF h = NoHold THEN charge[x] ELSE actual[x]
        BY <1>e, <2>1, <2>2 DEF CostOf, CostMatches
    <2> QED BY <1>6, <2>1, <2>3 DEF CostOf, CostMatches
<1>7. CASE SettleApplied(x)
    BY <1>7, <1>6 DEF SettleApplied
<1>8. CASE SettleFailed(x)
    <2>1. UNCHANGED <<phase, reserved, queued, actual>>
        BY <1>8 DEF SettleFailed, AttemptFailed
    <2>2. CASE RunSettle(x)
        BY <2>1, <2>2, <1>6
    <2>3. CASE UNCHANGED <<storeVars, charge>>
        <3>1. hold' = hold /\ charge' = charge
            BY <2>3 DEF storeVars
        <3> QED BY <2>1, <3>1 DEF CostOf, CostMatches
    <2> QED BY <1>8, <2>2, <2>3 DEF SettleFailed, AttemptFailed
<1> QED BY <1>1, <1>2, <1>3, <1>4, <1>5, <1>7, <1>8
        DEF StepOf, Handler, Upstream, ReleaseApplied, ReleaseFailed

LEMMA CostsStep ==
    ASSUME Typed, Control, Amounts, Costs, [Next]_vars
    PROVE  Costs'
<1> SUFFICES ASSUME NEW y \in Exchange, OwnsId(y) PROVE CostOf(y)'
    BY DEF Costs, OwnsId
<1>o. CostOf(y) /\ IdOf[y] \in RequestId
    BY LifecycleAssumption DEF Costs
<1>1. ASSUME NEW x \in Exchange, StepOf(x)
      PROVE  CostOf(y)'
    <2>1. CASE x = y
        BY <1>1, <1>o, <2>1, CostStep
    <2>2. CASE x # y
        <3>1. hold'[IdOf[y]] = hold[IdOf[y]]
            BY <1>1, <1>o, <2>2, AnswersStep DEF OwnsId
        <3>2. Untouched(y)
            BY <1>1, <2>2, OthersUntouched
        <3> QED BY <1>o, <3>1, <3>2, CostUntouched
    <2> QED BY <2>1, <2>2
<1>2. CASE Crash
    <2>1. hold' = hold /\ charge' = charge /\ queued' = queued
        BY <1>2 DEF Crash, storeVars
    <2>2. CASE Active(y)
        <3>1. phase'[y] = "crashed" /\ reserved'[y] = 0 /\ actual'[y] = 0
            BY <1>2, <2>2, CrashOf
        <3> QED BY <1>o, <2>1, <3>1 DEF CostOf, CostMatches
    <2>3. CASE ~Active(y)
        <3>1. phase'[y] = phase[y] /\ reserved'[y] = reserved[y] /\ actual'[y] = actual[y]
            BY <1>2, <2>3, CrashOf
        <3> QED BY <1>o, <2>1, <3>1 DEF CostOf, CostMatches
    <2> QED BY <2>2, <2>3
<1>3. ASSUME NEW j \in RequestId, Expire(j)
      PROVE  CostOf(y)'
    <2>1. /\ hold[j] # NoHold
          /\ hold' = [hold EXCEPT ![j] = NoHold]
          /\ UNCHANGED <<phase, queued, reserved, actual, charge>>
        BY <1>3 DEF Expire, ExpireHold, KeepBody
    <2>2. hold \in [RequestId -> Hold \cup {NoHold}]
        BY TypedParts DEF ScriptsInv, ScriptsTypeOK
    <2>3. hold'[IdOf[y]] = hold[IdOf[y]] \/ (hold'[IdOf[y]] = NoHold /\ hold[IdOf[y]] # NoHold)
        BY <1>o, <2>1, <2>2
    <2> QED BY <1>o, <2>1, <2>3 DEF CostOf, CostMatches
<1>4. CASE (\E b \in Bucket, v \in Grant : SetBalance(b, v)) \/ UNCHANGED vars
    <2>1. UNCHANGED <<hold, phase, queued, reserved, actual, charge>>
        BY <1>4 DEF SetBalance, SetBudget, KeepBody, KeepAdmission, vars, exchangeVars, storeVars
    <2> QED BY <1>o, <2>1 DEF CostOf, CostMatches
<1> QED BY <1>1, <1>2, <1>3, <1>4, StepCases

-----------------------------------------------------------------------------
(* The invariant, and what follows from it *)

LEMMA LifecycleInvariant == Spec => []LifecycleInv
<1>1. Init => LifecycleInv
    BY InitTyped, InitControl, InitAmounts, InitKeepers, InitAccounts, InitSources, InitCosts
       DEF LifecycleInv, Typed
<1>2. LifecycleInv /\ [Next]_vars => LifecycleInv'
    BY TypedStep, ControlStep, AmountsStep, KeepersStep, AccountsStep, SourcesStep, CostsStep
       DEF LifecycleInv, Typed
<1> QED BY <1>1, <1>2, PTL DEF Spec

\* No step takes a handler, its settlement or a key of Redis out of its type; in
\* particular no settlement is tried a fourth time.
THEOREM LifecycleTypeCorrect == Spec => []TypeOK
<1>1. LifecycleInv => TypeOK
    BY DEF LifecycleInv
<1> QED BY <1>1, LifecycleInvariant, PTL

\* No path through the handler, the readers and the retries forgets a hold.
THEOREM HoldsAreKept == Spec => []HoldHasKeeper
<1>1. LifecycleInv => HoldHasKeeper
    BY DEF LifecycleInv
<1> QED BY <1>1, LifecycleInvariant, PTL

\* The books of the engine balance under everything the proxy does, and no call
\* is admitted on tokens its bucket does not have.
THEOREM LifecycleBalances == Spec => [](BalanceIsAvailable /\ OverdrawnOnlyByOverrun)
<1>1. LifecycleInv => BalanceIsAvailable /\ OverdrawnOnlyByOverrun
    BY DEF LifecycleInv, ScriptsInv
<1> QED BY <1>1, LifecycleInvariant, PTL

\* A call writes one usage row at most.
THEOREM CallsLogOnce == Spec => []OneUsageRow
<1>1. LifecycleInv => OneUsageRow
    BY DEF LifecycleInv, Control, ControlOf, OneUsageRow
<1> QED BY <1>1, LifecycleInvariant, PTL

\* A call admitted on a reservation has it in Redis until it tries to end it.
THEOREM CallsAreCovered == Spec => []ForwardedUnderHold
<1>1. LifecycleInv => ForwardedUnderHold
    <2> SUFFICES ASSUME LifecycleInv, NEW x \in Exchange, OwnsId(x), Reserved(x), Keeper(x),
                        tries[x] = 0, IdOf[x] \notin lapsed
                 PROVE  hold[IdOf[x]] = [bucket |-> BucketOf[x], reserved |-> reserved[x]]
        BY DEF ForwardedUnderHold
    <2>1. AccountOf(x) /\ ControlOf(x)
        BY DEF LifecycleInv, Accounts, Control
    <2> QED BY <2>1 DEF AccountOf, ControlOf, Keeper, Settling
<1> QED BY <1>1, LifecycleInvariant, PTL

\* The usage rows and the budgets agree on what a call has cost.
THEOREM CallsCostWhatTheyLog == Spec => []ChargedAsLogged
<1>1. LifecycleInv => ChargedAsLogged
    <2> SUFFICES ASSUME LifecycleInv, NEW x \in Exchange, OwnsId(x), Reserved(x), rows[x] > 0
                 PROVE  charge[x] = IF IdOf[x] \in lapsed THEN reserved[x] ELSE Logged(x)
        BY DEF ChargedAsLogged
    <2>1. AccountOf(x) /\ ControlOf(x)
        BY DEF LifecycleInv, Accounts, Control
    <2>2. reserved[x] > 0
        BY DEF Reserved
    <2> QED BY <2>1, <2>2 DEF AccountOf, ControlOf, Logged
<1> QED BY <1>1, LifecycleInvariant, PTL

-----------------------------------------------------------------------------
(* The handlers use the engine as it allows *)

\* The scripts of the engine are those the handlers run.
LEMMA SameScripts ==
    /\ Engine!ScriptsInit <=> ScriptsInit
    /\ Engine!storeVars = storeVars
    /\ \A b, i, n : Engine!ReserveBudget(b, i, n) <=> ReserveBudget(b, i, n)
    /\ \A i, a : Engine!SettleBudget(i, a) <=> SettleBudget(i, a)
    /\ \A i : Engine!ReleaseBudget(i) <=> ReleaseBudget(i)
    /\ \A b, v : Engine!SetBudget(b, v) <=> SetBudget(b, v)
    /\ \A i : Engine!ExpireHold(i) <=> ExpireHold(i)
<1>1. Engine!NoHold = NoHold
    BY DEF Engine!NoHold, Engine!Ledger!NoHold, NoHold, Ledger!NoHold
<1>2. Engine!storeVars = storeVars /\ (UNCHANGED Engine!storeVars <=> UNCHANGED storeVars)
    BY DEF Engine!storeVars, storeVars
<1>3. Engine!ScriptsInit <=> ScriptsInit
    BY <1>1 DEF Engine!ScriptsInit, ScriptsInit
<1>4. \A b, n, i, h : Engine!Take(b, n, i, h) <=> Take(b, n, i, h)
    BY DEF Engine!Take, Take
<1>5. \A b, i, n : Engine!ReserveBudget(b, i, n) <=> ReserveBudget(b, i, n)
    BY <1>1, <1>2, <1>4 DEF Engine!ReserveBudget, ReserveBudget
<1>6. \A i, a, d, h : Engine!SettleDelta(i, a, d, h) <=> SettleDelta(i, a, d, h)
    BY <1>1, <1>2 DEF Engine!SettleDelta, SettleDelta
<1>7. \A i, a : Engine!SettleBudget(i, a) <=> SettleBudget(i, a)
    BY <1>1, <1>6 DEF Engine!SettleBudget, SettleBudget
<1>8. \A i : Engine!ReleaseBudget(i) <=> ReleaseBudget(i)
    BY <1>1, <1>2 DEF Engine!ReleaseBudget, ReleaseBudget
<1>9. \A b, v : Engine!SetBudget(b, v) <=> SetBudget(b, v)
    BY DEF Engine!SetBudget, SetBudget
<1>10. \A i : Engine!ExpireHold(i) <=> ExpireHold(i)
    BY <1>1 DEF Engine!ExpireHold, ExpireHold
<1> QED BY <1>2, <1>3, <1>5, <1>7, <1>8, <1>9, <1>10

\* Every step runs one script with amounts of its own, lets a hold expire, or
\* leaves Redis alone.
RunsScript ==
    \/ \E x \in Exchange : BucketOf[x] \in Bucket /\ RunReserve(x)
    \/ \E x \in Exchange : settle[x] = "running" /\ RunSettle(x)
    \/ \E x \in Exchange : RunRelease(x)
    \/ \E i \in RequestId : ExpireHold(i)
    \/ \E b \in Bucket, v \in Grant : SetBalance(b, v)

LEMMA StepRunsScript ==
    ASSUME Control, [Next]_vars
    PROVE  RunsScript \/ UNCHANGED storeVars
<1>1. ASSUME NEW x \in Exchange, StepOf(x)
      PROVE  RunsScript \/ UNCHANGED storeVars
    <2>1. CASE \/ Arrive(x) \/ ReserveUnanswered(x) \/ ClientLeaves(x)
               \/ UpstreamErrorStatus(x) \/ UpstreamOK(x) \/ UpstreamPassedThrough(x)
               \/ TransportError(x) \/ CopyFailed(x) \/ LogRelease(x) \/ LogSettled(x)
               \/ (\E u \in Usage : ReadUsage(x, u)) \/ ReadEOF(x) \/ ReadCancelled(x) \/ CloseBody(x)
        BY <2>1 DEF Arrive, RejectBody, ArriveUnmetered, ArriveMetered, ReserveUnanswered,
           ClientLeaves, UpstreamErrorStatus, UpstreamOK, UpstreamPassedThrough, TransportError,
           CopyFailed, LogRelease, LogSettled, ReadUsage, ReadEOF, ReadCancelled, CloseBody, Move
    <2>2. CASE ReserveAnswered(x) \/ ReserveTimedOut(x) \/ LateReserve(x)
        <3>1. ControlOf(x)
            BY DEF Control
        <3>2. BucketOf[x] \in Bucket /\ RunReserve(x)
            BY <2>2, <3>1 DEF ReserveAnswered, Answered, ReserveTimedOut, FailOpen, LateReserve,
               ControlOf
        <3> QED BY <3>2 DEF RunsScript
    <2>3. CASE ReleaseApplied(x) \/ ReleaseFailed(x)
        <3>1. RunRelease(x) \/ UNCHANGED storeVars
            BY <2>3 DEF ReleaseApplied, ReleaseFailed, Released, Move
        <3> QED BY <3>1 DEF RunsScript
    <2>4. CASE SettleApplied(x) \/ SettleFailed(x)
        <3>1. settle[x] = "running" /\ (RunSettle(x) \/ UNCHANGED storeVars)
            BY <2>4 DEF SettleApplied, SettleFailed, AttemptFailed
        <3> QED BY <3>1 DEF RunsScript
    <2> QED BY <1>1, <2>1, <2>2, <2>3, <2>4 DEF StepOf, Handler, Upstream
<1>2. CASE Crash \/ UNCHANGED vars
    BY <1>2 DEF Crash, vars
<1>3. ASSUME NEW i \in RequestId, Expire(i)
      PROVE  RunsScript
    BY <1>3 DEF Expire, RunsScript
<1>4. ASSUME NEW b \in Bucket, NEW v \in Grant, SetBalance(b, v)
      PROVE  RunsScript
    BY <1>4 DEF RunsScript
<1> QED BY <1>1, <1>2, <1>3, <1>4, StepCases

\* What each exchange runs of them.
LEMMA StepUsesEngine ==
    ASSUME LifecycleInv, [Next]_vars
    PROVE  [Engine!EngineNext]_(Engine!storeVars)
<1>1. ASSUME NEW x \in Exchange, BucketOf[x] \in Bucket, RunReserve(x)
      PROVE  Engine!EngineNext
    <2>1. IdOf[x] \in RequestId /\ EstimateOf[x] \in Estimates
        BY LifecycleAssumption DEF Estimates
    <2>2. Engine!Reserve(BucketOf[x], IdOf[x], EstimateOf[x])
        BY <1>1, SameScripts DEF RunReserve, Engine!Reserve
    <2> QED BY <1>1, <2>1, <2>2 DEF Engine!EngineNext
<1>2. ASSUME NEW x \in Exchange, RunSettle(x)
      PROVE  Engine!EngineNext
    <2>1. IdOf[x] \in RequestId /\ actual[x] \in Usage \cup Estimates \cup {0}
        BY LifecycleAssumption DEF LifecycleInv, Amounts
    <2>2. Engine!Settle(IdOf[x], actual[x])
        BY <1>2, SameScripts DEF RunSettle, SettleAt, Engine!Settle
    <2> QED BY <2>1, <2>2 DEF Engine!EngineNext
<1>3. ASSUME NEW x \in Exchange, RunRelease(x)
      PROVE  Engine!EngineNext
    <2>1. IdOf[x] \in RequestId
        BY LifecycleAssumption
    <2>2. Engine!Release(IdOf[x])
        BY <1>3, SameScripts DEF RunRelease, Engine!Release
    <2> QED BY <2>1, <2>2 DEF Engine!EngineNext
<1>4. ASSUME NEW i \in RequestId, ExpireHold(i)
      PROVE  Engine!EngineNext
    <2>1. Engine!ExpireHold(i)
        BY <1>4, SameScripts
    <2> QED BY <2>1 DEF Engine!EngineNext
<1>5. ASSUME NEW b \in Bucket, NEW v \in Grant, SetBalance(b, v)
      PROVE  Engine!EngineNext
    <2>1. Engine!SetBalance(b, v)
        BY <1>5, SameScripts DEF SetBalance, Engine!SetBalance
    <2> QED BY <2>1 DEF Engine!EngineNext
<1>6. CASE UNCHANGED storeVars
    BY <1>6 DEF Engine!storeVars, storeVars
<1>7. RunsScript \/ UNCHANGED storeVars
    BY StepRunsScript DEF LifecycleInv
<1> QED BY <1>1, <1>2, <1>3, <1>4, <1>5, <1>6, <1>7 DEF RunsScript

\* Whatever the handlers, the clients, the crashes and the clock do to Redis, the
\* budget engine allows: with the theorems of the engine, the proxy's counters
\* are those of the ledger.
THEOREM LifecycleUsesEngine == Spec => UsesEngine
<1>1. Init => Engine!ScriptsInit
    BY SameScripts DEF Init
<1>2. LifecycleInv /\ [Next]_vars => [Engine!EngineNext]_(Engine!storeVars)
    BY StepUsesEngine
<1> QED BY <1>1, <1>2, LifecycleInvariant, PTL DEF Spec, UsesEngine, Engine!EngineSpec

-----------------------------------------------------------------------------
(* The handlers implement the ledger *)

LEMMA StepIsLedgerStep ==
    ASSUME LifecycleInv, [Next]_vars
    PROVE  [Ledger!LedgerNext]_(Ledger!ledgerVars)
<1>i. ScriptsInv
    BY DEF LifecycleInv
<1>1. ASSUME NEW x \in Exchange, BucketOf[x] \in Bucket, RunReserve(x)
      PROVE  [Ledger!LedgerNext]_(Ledger!ledgerVars)
    <2>1. IdOf[x] \in RequestId /\ EstimateOf[x] \in Nat
        BY LifecycleAssumption
    <2> QED BY <1>i, <1>1, <2>1, ReserveIsTakeHold DEF RunReserve
<1>2. ASSUME NEW x \in Exchange, RunSettle(x)
      PROVE  [Ledger!LedgerNext]_(Ledger!ledgerVars)
    <2>1. IdOf[x] \in RequestId /\ actual[x] \in Nat
        BY LifecycleAssumption DEF LifecycleInv, TypeOK
    <2> QED BY <1>i, <1>2, <2>1, SettleIsCharge DEF RunSettle, SettleAt
<1>3. ASSUME NEW x \in Exchange, RunRelease(x)
      PROVE  [Ledger!LedgerNext]_(Ledger!ledgerVars)
    <2>1. IdOf[x] \in RequestId
        BY LifecycleAssumption
    <2> QED BY <1>i, <1>3, <2>1, ReleaseIsRefund DEF RunRelease
<1>4. ASSUME NEW i \in RequestId, ExpireHold(i)
      PROVE  [Ledger!LedgerNext]_(Ledger!ledgerVars)
    BY <1>i, <1>4, ExpiryIsForfeit
<1>5. ASSUME NEW b \in Bucket, NEW v \in Grant, SetBalance(b, v)
      PROVE  [Ledger!LedgerNext]_(Ledger!ledgerVars)
    <2>1. v \in Nat
        BY LifecycleAssumption
    <2> QED BY <1>i, <1>5, <2>1, GrantIsFund DEF SetBalance
<1>6. CASE UNCHANGED storeVars
    BY <1>6, UnchangedIsStutter
<1>7. RunsScript \/ UNCHANGED storeVars
    BY StepRunsScript DEF LifecycleInv
<1> QED BY <1>1, <1>2, <1>3, <1>4, <1>5, <1>6, <1>7 DEF RunsScript

\* The proxy as a whole implements the ledger: through every interleaving of
\* handlers, retries, departures, crashes, expiries and grants, tokens are held
\* only against what is available once every open hold is counted, and a hold
\* ends once: charged, refunded or forfeited.
THEOREM LifecycleImplementsLedger == Spec => LedgerSpec
<1>1. Init => Ledger!LedgerInit
    BY InitIsLedgerInit DEF Init
<1>2. LifecycleInv /\ [Next]_vars => [Ledger!LedgerNext]_(Ledger!ledgerVars)
    BY StepIsLedgerStep
<1> QED BY <1>1, <1>2, LifecycleInvariant, PTL DEF Spec, LedgerSpec, Ledger!LedgerSpec

-----------------------------------------------------------------------------
(* What overspends a bucket *)

LEMMA OverrunStep ==
    ASSUME LifecycleInv, [Next]_vars, NEW b \in Bucket, overrun'[b] # overrun[b]
    PROVE  \E x \in Exchange :
              /\ settle[x] = "running" /\ hold[IdOf[x]].bucket = b
              /\ overrun'[b] = overrun[b] + actual[x] - hold[IdOf[x]].reserved
              /\ OwnsId(x) => /\ BucketOf[x] = b
                              /\ outcome[x] = "settled" /\ actual[x] = seen[x]
                              /\ hold[IdOf[x]].reserved = EstimateOf[x]
<1>1. PICK x \in Exchange : settle[x] = "running" /\ RunSettle(x)
    <2>1. RunsScript
        BY StepRunsScript DEF LifecycleInv, storeVars
    <2>2. \A x \in Exchange : ~RunReserve(x) /\ ~RunRelease(x)
        BY DEF RunReserve, ReserveBudget, Take, RunRelease, ReleaseBudget, storeVars
    <2>3. \A i \in RequestId : ~ExpireHold(i)
        BY DEF ExpireHold
    <2>4. \A c \in Bucket, v \in Grant : ~SetBalance(c, v)
        BY DEF SetBalance, SetBudget
    <2> QED BY <2>1, <2>2, <2>3, <2>4 DEF RunsScript
<1> DEFINE h == hold[IdOf[x]]
<1>2. IdOf[x] \in RequestId /\ actual[x] \in Nat /\ EstimateOf[x] \in Nat /\ reserved[x] \in Nat
    BY LifecycleAssumption DEF LifecycleInv, TypeOK
<1>3. h # NoHold /\ h \in Hold
    BY <1>1, <1>2 DEF RunSettle, SettleAt, SettleBudget, SettleDelta, storeVars, LifecycleInv, TypeOK,
       ScriptsTypeOK
<1>4. overrun' = [overrun EXCEPT ![h.bucket] =
                      IF actual[x] - h.reserved > 0 THEN @ + (actual[x] - h.reserved) ELSE @]
    BY <1>1, <1>3 DEF RunSettle, SettleAt, SettleBudget, SettleDelta
<1>5. overrun \in [Bucket -> Nat] /\ h.bucket \in Bucket /\ h.reserved \in Nat
    BY <1>3 DEF Hold, Ledger!Hold, LifecycleInv, ScriptsInv, ScriptsTypeOK
<1>6. h.bucket = b /\ actual[x] - h.reserved > 0 /\ overrun'[b] = overrun[b] + actual[x] - h.reserved
    BY <1>2, <1>4, <1>5
<1>7. ASSUME OwnsId(x)
      PROVE  /\ BucketOf[x] = b /\ h.reserved = EstimateOf[x]
             /\ outcome[x] = "settled" /\ actual[x] = seen[x]
    <2>1. CostOf(x) /\ SourceOf(x)
        BY <1>7 DEF LifecycleInv, Costs, Sources
    <2>2. h = [bucket |-> BucketOf[x], reserved |-> EstimateOf[x]]
        BY <1>3, <2>1 DEF CostOf, CostMatches
    <2>3. reserved[x] <= EstimateOf[x]
        BY <1>2, <2>1 DEF CostOf
    <2>4. actual[x] # reserved[x]
        BY <1>2, <1>6, <2>2, <2>3
    <2> QED BY <1>1, <1>6, <2>1, <2>2, <2>4 DEF SourceOf
<1> QED BY <1>1, <1>6, <1>7

\* Only a settlement overspends a bucket, by what it charges beyond the hold it
\* ends, and of a call of its own id only one that charges reported usage.
THEOREM OverrunsAreReported == Spec => OverrunIsUsage
<1> DEFINE Reported ==
        \A b \in Bucket : overrun'[b] # overrun[b] =>
          \E x \in Exchange :
              /\ settle[x] = "running" /\ hold[IdOf[x]].bucket = b
              /\ overrun'[b] = overrun[b] + actual[x] - hold[IdOf[x]].reserved
              /\ OwnsId(x) => /\ BucketOf[x] = b
                              /\ outcome[x] = "settled" /\ actual[x] = seen[x]
<1>1. LifecycleInv /\ [Next]_vars => [Reported]_vars
    BY OverrunStep
<1> QED BY <1>1, LifecycleInvariant, PTL DEF Spec, OverrunIsUsage

-----------------------------------------------------------------------------
(* What a call costs, and what a bucket can lose by it *)

\* A call of its own id has cost what its hold has while that is open, and then
\* nothing, its estimate or what its upstream reported.
THEOREM CallsCostHeldOrUsed == Spec => []CostIsHeldOrUsed
<1>1. LifecycleInv => CostIsHeldOrUsed
    BY DEF LifecycleInv, Costs, CostOf, CostMatches, CostIsHeldOrUsed
<1> QED BY <1>1, LifecycleInvariant, PTL

\* No bucket was charged beyond a reservation.
NoOverrun == \A b \in Bucket : overrun[b] = 0

\* Where request ids are not reused and no upstream reports more than was
\* estimated, no bucket is ever overspent, whatever fails, expires or crashes:
\* the overspend there is comes from low estimates and from shared ids alone.
THEOREM NoOverspend ==
    ASSUME \A x \in Exchange : OwnsId(x) /\ \A u \in Usage : u <= EstimateOf[x]
    PROVE  Spec => [](\A b \in Bucket : balance[b] >= 0)
<1>1. Init => NoOverrun
    BY DEF Init, ScriptsInit, NoOverrun
<1>2. LifecycleInv /\ NoOverrun /\ [Next]_vars => NoOverrun'
    <2> SUFFICES ASSUME LifecycleInv, NoOverrun, [Next]_vars,
                        NEW b \in Bucket, overrun'[b] # overrun[b]
                 PROVE  FALSE
        BY DEF NoOverrun
    <2>1. PICK x \in Exchange :
              /\ overrun'[b] = overrun[b] + actual[x] - hold[IdOf[x]].reserved
              /\ actual[x] = seen[x] /\ hold[IdOf[x]].reserved = EstimateOf[x]
        BY OverrunStep
    <2>2. actual[x] \in Nat /\ EstimateOf[x] \in Nat /\ overrun[b] = 0
        BY LifecycleAssumption DEF LifecycleInv, TypeOK, NoOverrun
    <2>3. seen[x] \in Usage
        BY <2>1, <2>2 DEF LifecycleInv, Amounts, NoUsage
    <2>4. actual[x] <= EstimateOf[x]
        BY <2>1, <2>3
    <2>5. overrun'[b] <= 0
        BY <2>1, <2>2, <2>4
    <2>6. overrun'[b] \in Nat
        BY TypedStep DEF LifecycleInv, Typed, TypeOK, ScriptsTypeOK
    <2> QED BY <2>2, <2>5, <2>6
<1>3. LifecycleInv /\ NoOverrun => \A b \in Bucket : balance[b] >= 0
    BY DEF LifecycleInv, ScriptsInv, ScriptsTypeOK, OverdrawnOnlyByOverrun, NoOverrun
<1> QED BY <1>1, <1>2, <1>3, LifecycleInvariant, PTL DEF Spec

-----------------------------------------------------------------------------
(* Every call gets on *)

\* Where x stands in its handler and in its settlement.
Stands(x) == <<phase[x], settle[x], tries[x]>>

Advances(x) == 0 <= Work(x)' /\ Work(x)' < Work(x)

\* The handler goes on, its settlement stays as it is or is begun.
LEMMA HandlerAdvances ==
    ASSUME Typed, NEW x \in Exchange,
           phase'[x] # "crashed", phase[x] # "crashed",
           ToServe(x)' < ToServe(x), tries'[x] = tries[x],
           settle'[x] = settle[x] \/ (settle[x] = "none" /\ settle'[x] = "running")
    PROVE  Advances(x)
<1>1. tries[x] \in 0 .. 3
    BY DEF Typed, TypeOK
<1>2. ToServe(x)' \in 0 .. 6 /\ ToServe(x) \in 0 .. 6
    BY DEF ToServe
<1>3. ToSettle(x)' \in 0 .. 5 /\ ToSettle(x) \in 0 .. 5 /\ ToSettle(x)' <= ToSettle(x)
    BY <1>1 DEF ToSettle
<1> QED BY <1>2, <1>3 DEF Advances, Work

\* The settlement goes on, and the handler stays where it is.
LEMMA SettlementAdvances ==
    ASSUME Typed, NEW x \in Exchange, phase'[x] = phase[x],
           ToSettle(x)' \in Nat, ToSettle(x) \in Nat, ToSettle(x)' < ToSettle(x)
    PROVE  Advances(x)
<1>1. ToServe(x)' = ToServe(x) /\ ToServe(x) \in 0 .. 6
    BY DEF ToServe
<1> QED BY <1>1 DEF Advances, Work

LEMMA CallAdvances ==
    ASSUME Typed, Control, NEW x \in Exchange, StepOf(x)
    PROVE  Stands(x)' = Stands(x) \/ Advances(x)
<1> USE DEF KeepBody, KeepAdmission, Goto
<1>t. HandlersTyped
    BY TypedParts
<1>c. ControlOf(x)
    BY DEF Control
<1>1. CASE ClientLeaves(x) \/ LateReserve(x) \/ \E u \in Usage : ReadUsage(x, u)
    BY <1>1 DEF ClientLeaves, LateReserve, ReadUsage, Stands
<1>2. CASE Arrive(x)
    <2>1. /\ phase[x] = "idle" /\ phase'[x] \in {"rejected", "forward", "precheck"}
          /\ settle' = settle /\ tries' = tries
        BY <1>2, <1>t DEF Arrive, RejectBody, ArriveUnmetered, ArriveMetered, Move, HandlersTyped
    <2>2. ToServe(x)' < ToServe(x)
        BY <2>1 DEF ToServe
    <2> QED BY <2>1, <2>2, HandlerAdvances
<1>3. CASE ReserveAnswered(x) \/ ReserveTimedOut(x) \/ ReserveUnanswered(x)
    <2>1. /\ phase[x] = "precheck" /\ phase'[x] \in {"denied", "forward"}
          /\ settle' = settle /\ tries' = tries
        BY <1>3, <1>t DEF ReserveAnswered, Answered, ReserveTimedOut, ReserveUnanswered, FailOpen,
           HandlersTyped
    <2>2. ToServe(x)' < ToServe(x)
        BY <2>1 DEF ToServe
    <2> QED BY <2>1, <2>2, HandlerAdvances
<1>4. CASE \/ UpstreamErrorStatus(x) \/ UpstreamOK(x) \/ UpstreamPassedThrough(x)
           \/ TransportError(x)
    <2>1. /\ phase[x] = "forward" /\ phase'[x] \in {"releasing", "body", "passed"}
          /\ settle' = settle /\ tries' = tries
        BY <1>4, <1>t DEF UpstreamErrorStatus, UpstreamOK, UpstreamPassedThrough, TransportError,
           Move, HandlersTyped
    <2>2. ToServe(x)' < ToServe(x)
        BY <2>1 DEF ToServe
    <2> QED BY <2>1, <2>2, HandlerAdvances
<1>5. CASE ReleaseApplied(x) \/ ReleaseFailed(x) \/ LogRelease(x)
    <2>1. /\ \/ phase[x] = "releasing" /\ phase'[x] \in {"logging", "unreleased"}
             \/ phase[x] = "logging" /\ phase'[x] = "released"
          /\ settle' = settle /\ tries' = tries
        BY <1>5, <1>t DEF ReleaseApplied, ReleaseFailed, Released, LogRelease, Move, HandlersTyped
    <2>2. ToServe(x)' < ToServe(x)
        BY <2>1 DEF ToServe
    <2>3. phase[x] # "crashed" /\ phase'[x] # "crashed"
        BY <2>1
    <2> QED BY <2>1, <2>2, <2>3, HandlerAdvances
<1>6. CASE ReadEOF(x) \/ ReadCancelled(x) \/ CopyFailed(x) \/ CloseBody(x)
    <2>1. /\ \/ phase[x] = "body" /\ phase'[x] = "closing"
             \/ phase[x] = "closing" /\ phase'[x] = "served"
          /\ tries' = tries
        BY <1>6, <1>t DEF ReadEOF, ReadCancelled, CopyFailed, CloseBody, Move, HandlersTyped
    <2>2. settle'[x] = settle[x] \/ (settle[x] = "none" /\ settle'[x] = "running")
        BY <1>6, <1>t DEF ReadEOF, ReadCancelled, CopyFailed, CloseBody, Move, Finish, StartSettle,
           Start, HandlersTyped
    <2>3. ToServe(x)' < ToServe(x)
        BY <2>1 DEF ToServe
    <2>4. phase[x] # "crashed" /\ phase'[x] # "crashed"
        BY <2>1
    <2> QED BY <2>1, <2>2, <2>3, <2>4, HandlerAdvances
<1>7. CASE SettleApplied(x) \/ SettleFailed(x) \/ LogSettled(x)
    <2>1. phase[x] # "crashed" /\ phase' = phase /\ tries[x] \in 0 .. 3
        BY <1>7, <1>t DEF SettleApplied, SettleFailed, AttemptFailed, LogSettled, Settling,
           HandlersTyped
    <2>2. \/ settle[x] = "running" /\ settle'[x] = "applied" /\ tries' = tries
          \/ settle[x] = "running" /\ settle'[x] = "running" /\ tries'[x] = tries[x] + 1
          \/ settle[x] = "running" /\ settle'[x] = "gaveup"
          \/ settle[x] = "applied" /\ settle'[x] = "logged"
        BY <1>7, <1>t DEF SettleApplied, SettleFailed, AttemptFailed, LogSettled, HandlersTyped
    <2>3. settle[x] = "running" => tries[x] <= 2
        BY <1>c DEF ControlOf
    <2>4. ToSettle(x) \in Nat /\ ToSettle(x)' \in Nat /\ ToSettle(x)' < ToSettle(x)
        BY <2>1, <2>2, <2>3 DEF ToSettle
    <2> QED BY <2>1, <2>4, SettlementAdvances
<1> QED BY <1>1, <1>2, <1>3, <1>4, <1>5, <1>6, <1>7 DEF StepOf, Handler, Upstream

\* The death of the process leaves nothing to do.
LEMMA CrashAdvances ==
    ASSUME Typed, Control, NEW x \in Exchange, Crash
    PROVE  Stands(x)' = Stands(x) \/ Advances(x)
<1>1. CASE Active(x)
    <2>a. phase'[x] = "crashed"
        BY <1>1, CrashOf
    <2>b. ToServe(x)' = 0 /\ ToSettle(x)' = 0
        BY <2>a DEF ToServe, ToSettle
    <2>1. Work(x)' = 0
        BY <2>b DEF Work
    <2>2. tries[x] \in 0 .. 3 /\ phase[x] \in Phase /\ (settle[x] = "running" => tries[x] <= 2)
        BY DEF Typed, TypeOK, Control, ControlOf
    <2>3. ToServe(x) \in 0 .. 6 /\ ToSettle(x) \in 0 .. 5
        BY <2>2 DEF ToServe, ToSettle
    <2>4. CASE Serving(x)
        <3>1. ToServe(x) > 0
            BY <2>2, <2>4 DEF Serving, ToServe, Phase
        <3> QED BY <2>1, <2>3, <3>1 DEF Work, Advances
    <2>5. CASE Settling(x)
        <3>1. ToSettle(x) > 0
            BY <2>2, <2>5 DEF Settling, ToSettle
        <3> QED BY <2>1, <2>3, <3>1 DEF Work, Advances
    <2> QED BY <1>1, <2>4, <2>5 DEF Active
<1>2. CASE ~Active(x)
    BY <1>2, CrashOf DEF Stands
<1> QED BY <1>1, <1>2

\* No call goes back, calls its upstream twice, settles what it settled or
\* retries without end: whatever moves one leaves less of it to do.
THEOREM CallsOnlyAdvance == Spec => CallsAdvance
<1> DEFINE EachAdvances ==
        \A x \in Exchange :
            <<phase[x], settle[x], tries[x]>>' # <<phase[x], settle[x], tries[x]>> =>
                0 <= Work(x)' /\ Work(x)' < Work(x)
<1>1. LifecycleInv /\ [Next]_vars => [EachAdvances]_vars
    <2> SUFFICES ASSUME LifecycleInv, [Next]_vars, NEW x \in Exchange
                 PROVE  Stands(x)' = Stands(x) \/ Advances(x)
        BY DEF Stands, Advances
    <2>t. Typed /\ Control
        BY DEF LifecycleInv, Typed
    <2>1. CASE StepOf(x)
        BY <2>t, <2>1, CallAdvances
    <2>2. CASE \E y \in Exchange : y # x /\ StepOf(y)
        BY <2>t, <2>2, OthersUntouched DEF Untouched, Stands
    <2>3. CASE Crash
        BY <2>t, <2>3, CrashAdvances
    <2>4. CASE \/ \E i \in RequestId : Expire(i)
               \/ \E b \in Bucket, v \in Grant : SetBalance(b, v)
               \/ UNCHANGED vars
        BY <2>4 DEF Expire, SetBalance, KeepBody, vars, exchangeVars, Stands
    <2> QED BY <2>1, <2>2, <2>3, <2>4, StepCases
<1> QED BY <1>1, LifecycleInvariant, PTL DEF Spec, CallsAdvance
=============================================================================
