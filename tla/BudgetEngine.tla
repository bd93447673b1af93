---------------------------- MODULE BudgetEngine ----------------------------
(***************************************************************************)
(* The budget engine under any callers: reservations, settlements and      *)
(* releases of any id in any order (the proxies do not coordinate, a retry *)
(* may come long after the call it repeats), administrators, provisioning  *)
(* and the expiry of holds, all against one Redis.                         *)
(***************************************************************************)
EXTENDS BudgetScripts

CONSTANTS
    Estimate,   \* what callers reserve
    Usage,      \* what callers settle
    Grant,      \* what administrators set or add
    MaxFunds    \* bound: no grant takes a bucket's funds beyond it

ASSUME EngineAssumption ==
    /\ NoBucket \notin Bucket
    /\ Estimate \subseteq Nat
    /\ Usage \subseteq Nat
    /\ Grant \subseteq Nat
    /\ MaxFunds \in Nat

\* RedisBudgetChecker.Reserve: a bucket and a request id are required, and the
\* bucket is scoped by its org before the script runs.
Reserve(b, i, n) == ReserveBudget(b, i, n)

\* Client.Settle
Settle(i, actual) == SettleBudget(i, actual)

\* Client.Release
Release(i) == ReleaseBudget(i)

\* Client.SetBalance, as the admin handler and the provisioner call it.
SetBalance(b, value) ==
    /\ funds[b] + value - balance[b] <= MaxFunds
    /\ SetBudget(b, value)

\* Client.TopupBalance, as the admin handler calls it.
TopupBalance(b, amount) ==
    /\ funds[b] + amount <= MaxFunds
    /\ TopupBudget(b, amount)

EngineNext ==
    \/ \E b \in Bucket, i \in RequestId, n \in Estimate : Reserve(b, i, n)
    \/ \E i \in RequestId, a \in Usage : Settle(i, a)
    \/ \E i \in RequestId : Release(i)
    \/ \E b \in Bucket, v \in Grant : SetBalance(b, v)
    \/ \E b \in Bucket, v \in Grant : TopupBalance(b, v)
    \/ \E i \in RequestId : ExpireHold(i)

EngineSpec == ScriptsInit /\ [][EngineNext]_storeVars

-----------------------------------------------------------------------------
(* Properties *)

\* What ARCHITECTURE.md says of a hold nobody settles: when RESERVATION_TTL
\* expires the "budget [is] refunded".
ExpiryRefunds ==
    [][\A i \in RequestId :
         ExpireHold(i) => balance'[hold[i].bucket] = balance[hold[i].bucket] + hold[i].reserved
      ]_storeVars
=============================================================================
