---------------------------- MODULE BudgetLedger ----------------------------
(***************************************************************************)
(* What the budget engine promises, with no mention of how a balance is    *)
(* stored.  A bucket has funds; a request id may hold some of its tokens;  *)
(* a hold ends exactly once: charged at what was used, refunded, or        *)
(* forfeited.  What is available is never stored: it is what the funds     *)
(* leave once every open hold and everything ever charged is taken off.    *)
(***************************************************************************)
EXTENDS Integers, FiniteSets

CONSTANTS
    Bucket,     \* org-scoped budget buckets
    RequestId,  \* request ids, the keys of holds
    NoBucket    \* the bucket of an id that holds nothing

VARIABLES
    funds,      \* funds[b]: everything ever granted to b
    spent,      \* spent[b]: everything settled calls used
    forfeited,  \* forfeited[b]: what expired holds took with them
    hold        \* hold[i]: the tokens request id i holds, and of which bucket

ledgerVars == <<funds, spent, forfeited, hold>>

NoHold == [bucket |-> NoBucket, reserved |-> 0]

Hold == [bucket : Bucket, reserved : Nat]

\* The tokens of bucket b on hold, each one told apart from the others: the
\* sum of all the holds of b is the number of these.
HeldTokens(h, b) ==
    UNION {{i} \X (1 .. h[i].reserved) : i \in {j \in RequestId : h[j].bucket = b}}

Held(h, b) == Cardinality(HeldTokens(h, b))

Available(b) == funds[b] - spent[b] - forfeited[b] - Held(hold, b)

LedgerInit ==
    /\ funds = [b \in Bucket |-> 0]
    /\ spent = [b \in Bucket |-> 0]
    /\ forfeited = [b \in Bucket |-> 0]
    /\ hold = [i \in RequestId |-> NoHold]

\* An id takes a hold only if it has none yet, and only of tokens the bucket
\* can still afford.
TakeHold(b, i) ==
    /\ hold[i] = NoHold
    /\ hold'[i] \in [bucket : {b}, reserved : 0 .. Available(b)]
    /\ hold' = [hold EXCEPT ![i] = hold'[i]]
    /\ UNCHANGED <<funds, spent, forfeited>>

\* A hold ends, all of it at once: "used" tokens are charged to its bucket and
\* "lost" tokens are forfeited; the rest is available again.
EndHold(i, used, lost) ==
    LET b == hold[i].bucket IN
    /\ hold[i] # NoHold
    /\ hold' = [hold EXCEPT ![i] = NoHold]
    /\ spent' = [spent EXCEPT ![b] = @ + used]
    /\ forfeited' = [forfeited EXCEPT ![b] = @ + lost]
    /\ UNCHANGED funds

\* A settled call is charged what it used, be it less or more than it held.
Charge(i) ==
    /\ hold[i] # NoHold
    /\ LET used == spent'[hold[i].bucket] - spent[hold[i].bucket] IN
       used \in Nat /\ EndHold(i, used, 0)

Refund(i) == EndHold(i, 0, 0)

Forfeit(i) == EndHold(i, 0, hold[i].reserved)

\* An administrator changes the funds of one bucket; open holds keep theirs.
Fund(b) ==
    /\ funds'[b] \in Int
    /\ funds' = [funds EXCEPT ![b] = funds'[b]]
    /\ UNCHANGED <<spent, forfeited, hold>>

LedgerNext ==
    \/ \E b \in Bucket, i \in RequestId : TakeHold(b, i)
    \/ \E i \in RequestId : Charge(i) \/ Refund(i) \/ Forfeit(i)
    \/ \E b \in Bucket : Fund(b)

LedgerSpec == LedgerInit /\ [][LedgerNext]_ledgerVars
=============================================================================
