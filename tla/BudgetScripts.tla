---------------------------- MODULE BudgetScripts ----------------------------
(***************************************************************************)
(* The budget engine: the four Lua scripts of internal/budget/lua as Redis *)
(* runs them, each one atomic, and the expiry of reservation keys.         *)
(*                                                                         *)
(* Redis keeps two kinds of keys: budget:<org>:<bucket>, a counter, read   *)
(* as 0 when absent, and reservation:<request id>, a hash that names the   *)
(* bucket and the tokens reserved.  A member of Bucket is one scoped       *)
(* "<org>:<bucket>"; reservation keys carry the request id alone, so one   *)
(* id has one hold whatever bucket a caller asks for.                      *)
(*                                                                         *)
(* funds, spent, forfeited and overrun are history variables: no key of    *)
(* Redis holds them and no action reads them.                              *)
(***************************************************************************)
EXTENDS Integers, FiniteSets

CONSTANTS Bucket, RequestId, NoBucket

VARIABLES
    balance,    \* balance[b]: the counter budget:<b>
    hold,       \* hold[i]: the hash reservation:<i>, NoHold when absent
    funds,      \* funds[b]: tokens granted by SET and top-up, in total
    spent,      \* spent[b]: tokens settled, in total
    forfeited,  \* forfeited[b]: tokens of holds that expired
    overrun     \* overrun[b]: tokens settled beyond what was reserved

storeVars == <<balance, hold, funds, spent, forfeited, overrun>>

Ledger == INSTANCE BudgetLedger

NoHold == Ledger!NoHold

Hold == Ledger!Hold

ScriptsTypeOK ==
    /\ balance \in [Bucket -> Int]
    /\ hold \in [RequestId -> Hold \cup {NoHold}]
    /\ funds \in [Bucket -> Int]
    /\ spent \in [Bucket -> Nat]
    /\ forfeited \in [Bucket -> Nat]
    /\ overrun \in [Bucket -> Nat]

ScriptsInit ==
    /\ balance = [b \in Bucket |-> 0]
    /\ hold = [i \in RequestId |-> NoHold]
    /\ funds = [b \in Bucket |-> 0]
    /\ spent = [b \in Bucket |-> 0]
    /\ forfeited = [b \in Bucket |-> 0]
    /\ overrun = [b \in Bucket |-> 0]

-----------------------------------------------------------------------------
(* reserve_budget.lua *)

\* The reply of the script.  A hold that exists already is reported as
\* granted, with the tokens it holds, whatever bucket and estimate are asked.
ReserveReply(b, i, n) ==
    IF hold[i] # NoHold THEN [allowed |-> TRUE, reserved |-> hold[i].reserved]
    ELSE IF balance[b] >= n THEN [allowed |-> TRUE, reserved |-> n]
    ELSE [allowed |-> FALSE, reserved |-> 0]

Take(b, n, i, h) ==
    /\ balance' = [balance EXCEPT ![b] = @ - n]
    /\ hold' = [hold EXCEPT ![i] = h]
    /\ UNCHANGED <<funds, spent, forfeited, overrun>>

\* A seeded bug: the balance is not compared with the estimate.
ReserveUnchecked(b, i, n) ==
    IF hold[i] = NoHold
    THEN Take(b, n, i, [bucket |-> b, reserved |-> n])
    ELSE UNCHANGED storeVars

\* A seeded bug: the hash is written without the bucket it belongs to.
ReserveUnscoped(b, i, n) ==
    IF hold[i] = NoHold /\ balance[b] >= n
    THEN Take(b, n, i, [bucket |-> NoBucket, reserved |-> n])
    ELSE UNCHANGED storeVars

\* What the script does to the keys.
ReserveBudget(b, i, n) ==
    IF hold[i] = NoHold /\ balance[b] >= n
    THEN Take(b, n, i, [bucket |-> b, reserved |-> n])
    ELSE UNCHANGED storeVars

(* settle_budget.lua: the delta goes to the bucket the hash names. *)
SettleDelta(i, actual, delta, left) ==
    LET b == hold[i].bucket IN
    IF hold[i] = NoHold
    THEN UNCHANGED storeVars
    ELSE /\ balance' = [balance EXCEPT ![b] = @ - delta]
         /\ hold' = [hold EXCEPT ![i] = left]
         /\ spent' = [spent EXCEPT ![b] = @ + actual]
         /\ overrun' = [overrun EXCEPT ![b] = IF delta > 0 THEN @ + delta ELSE @]
         /\ UNCHANGED <<funds, forfeited>>

\* A seeded bug: the delta is taken the wrong way round.
SettleSwapped(i, actual) == SettleDelta(i, actual, hold[i].reserved - actual, NoHold)

\* A seeded bug: the reservation survives its settlement.
SettleKeepsHold(i, actual) == SettleDelta(i, actual, actual - hold[i].reserved, hold[i])

SettleBudget(i, actual) == SettleDelta(i, actual, actual - hold[i].reserved, NoHold)

(* release_budget.lua *)
ReleaseBudget(i) ==
    LET b == hold[i].bucket
    IN  IF hold[i] = NoHold
        THEN UNCHANGED storeVars
        ELSE /\ balance' = [balance EXCEPT ![b] = @ + hold[i].reserved]
             /\ hold' = [hold EXCEPT ![i] = NoHold]
             /\ UNCHANGED <<funds, spent, forfeited, overrun>>

(* set_budget.lua, op "set": the counter is overwritten, holds or no holds. *)
SetBudget(b, value) ==
    /\ balance' = [balance EXCEPT ![b] = value]
    /\ funds' = [funds EXCEPT ![b] = @ + value - balance[b]]
    /\ UNCHANGED <<hold, spent, forfeited, overrun>>

(* set_budget.lua, op "topup": refused unless the amount is positive.      *)
TopupBudget(b, value) ==
    /\ value > 0
    /\ balance' = [balance EXCEPT ![b] = @ + value]
    /\ funds' = [funds EXCEPT ![b] = @ + value]
    /\ UNCHANGED <<hold, spent, forfeited, overrun>>

(* The EXPIRE reserve_budget.lua sets: Redis drops the hash, nothing else. *)
ExpireHold(i) ==
    /\ hold[i] # NoHold
    /\ hold' = [hold EXCEPT ![i] = NoHold]
    /\ forfeited' = [forfeited EXCEPT ![hold[i].bucket] = @ + hold[i].reserved]
    /\ UNCHANGED <<balance, funds, spent, overrun>>

-----------------------------------------------------------------------------
(* Properties *)

\* The counter of a bucket is always its funds less everything settled, less
\* everything forfeited and less every hold still open: DECRBY, INCRBY and SET
\* never lose or invent a token, although no script ever adds the holds up.
BalanceIsAvailable == \A b \in Bucket : balance[b] = Ledger!Available(b)

\* Reservations alone never overdraw a bucket, in whatever order they meet
\* settlements, releases, expiries and SET: a counter is below zero by no more
\* than what settlements charged beyond their reservations.
OverdrawnOnlyByOverrun == \A b \in Bucket : balance[b] + overrun[b] >= 0

\* The scripts implement the ledger: whatever the callers do, every step of
\* Redis is one the ledger allows, so a hold is granted only against what is
\* available once every open hold is counted, and it ends once and whole.
LedgerSpec == Ledger!LedgerSpec
=============================================================================
