------------------------- MODULE BudgetScriptsProofs -------------------------
(***************************************************************************)
(* Each script of internal/budget/lua, run alone, keeps the balances equal *)
(* to what the ledger says is available and never overdraws a bucket by a  *)
(* reservation.  The modules whose actions run the scripts cite a lemma    *)
(* per script.                                                             *)
(***************************************************************************)
EXTENDS BudgetScripts, FiniteSetTheorems, TLAPS

\* Counting the tokens on hold makes sense only while they are finitely many.
HeldFinite == \A b \in Bucket : IsFiniteSet(Ledger!HeldTokens(hold, b))

ScriptsInv ==
    /\ NoBucket \notin Bucket
    /\ ScriptsTypeOK
    /\ HeldFinite
    /\ BalanceIsAvailable
    /\ OverdrawnOnlyByOverrun

-----------------------------------------------------------------------------
(* Counting the tokens on hold *)

\* The ledger counts with the Cardinality of FiniteSets.
LEMMA LedgerCounts == \A S : Ledger!Cardinality(S) = Cardinality(S)
    BY DEF Ledger!Cardinality, Cardinality

\* The tokens of a hold are as many as it reserved.
LEMMA OneHoldTokens ==
    ASSUME NEW i, NEW n \in Nat
    PROVE  /\ IsFiniteSet({i} \X (1 .. n))
           /\ Cardinality({i} \X (1 .. n)) = n
<1>1. IsFiniteSet(1 .. n) /\ Cardinality(1 .. n) = n
    BY FS_Interval
<1>2. IsFiniteSet({i}) /\ Cardinality({i}) = 1
    BY FS_Singleton
<1>3. IsFiniteSet({i} \X (1 .. n)) /\ Cardinality({i} \X (1 .. n)) = 1 * n
    <2> DEFINE S == {i}
               T == 1 .. n
    <2>1. IsFiniteSet(S) /\ Cardinality(S) = 1 /\ IsFiniteSet(T) /\ Cardinality(T) = n
        BY <1>1, <1>2
    <2> HIDE DEF S, T
    <2>2. IsFiniteSet(S \X T) /\ Cardinality(S \X T) = Cardinality(S) * Cardinality(T)
        BY ONLY <2>1, FS_Product
    <2>3. IsFiniteSet(S \X T) /\ Cardinality(S \X T) = 1 * n
        BY ONLY <2>1, <2>2
    <2> QED BY ONLY <2>3 DEF S, T
<1> QED BY <1>3

\* The holds g and h differ in one id, which holds n tokens of b in h alone.
OneHoldMore(g, h, i, b, n) ==
    /\ NoBucket \notin Bucket
    /\ i \in RequestId /\ b \in Bucket /\ n \in Nat
    /\ g \in [RequestId -> Hold \cup {NoHold}]
    /\ h \in [RequestId -> Hold \cup {NoHold}]
    /\ g[i] = NoHold
    /\ h[i] = [bucket |-> b, reserved |-> n]
    /\ \A j \in RequestId \ {i} : h[j] = g[j]

\* So do their tokens.
LEMMA TokensDiffer ==
    ASSUME NEW g, NEW h, NEW i, NEW b, NEW n, OneHoldMore(g, h, i, b, n),
           NEW c \in Bucket
    PROVE  LET own == IF b = c THEN {i} \X (1 .. n) ELSE {} IN
           /\ Ledger!HeldTokens(h, c) = Ledger!HeldTokens(g, c) \cup own
           /\ Ledger!HeldTokens(g, c) \cap own = {}
<1> DEFINE own == IF b = c THEN {i} \X (1 .. n) ELSE {}
<1> DEFINE Of(f) == {j \in RequestId : f[j].bucket = c}
<1> USE DEF OneHoldMore
<1>1. i \notin Of(g)
    BY DEF NoHold, Ledger!NoHold
<1>2. Of(h) = Of(g) \cup (IF b = c THEN {i} ELSE {})
    BY <1>1
<1>3. ASSUME NEW t
      PROVE t \in Ledger!HeldTokens(h, c) <=> t \in Ledger!HeldTokens(g, c) \cup own
    <2>1. t \in Ledger!HeldTokens(h, c) <=> \E j \in Of(h) : t \in {j} \X (1 .. h[j].reserved)
        BY DEF Ledger!HeldTokens
    <2>2. t \in Ledger!HeldTokens(g, c) <=> \E j \in Of(g) : t \in {j} \X (1 .. g[j].reserved)
        BY DEF Ledger!HeldTokens
    <2>3. \A j \in Of(g) : j # i /\ h[j] = g[j]
        BY <1>1
    <2> QED BY <1>2, <2>1, <2>2, <2>3
<1>4. Ledger!HeldTokens(g, c) \cap own = {}
    <2> SUFFICES ASSUME NEW t \in Ledger!HeldTokens(g, c), t \in own PROVE FALSE
        OBVIOUS
    <2>1. PICK j \in Of(g) : t \in {j} \X (1 .. g[j].reserved)
        BY DEF Ledger!HeldTokens
    <2>2. t[1] = j
        BY <2>1
    <2>3. t[1] = i
        OBVIOUS
    <2> QED BY <1>1, <2>2, <2>3
<1> QED BY <1>3, <1>4

\* Taking a hold of n tokens of b adds n to what b has on hold, ending it takes
\* n off, and no other bucket notices.
LEMMA HeldDiffer ==
    ASSUME NEW g, NEW h, NEW i, NEW b, NEW n, OneHoldMore(g, h, i, b, n),
           NEW c \in Bucket
    PROVE  /\ IsFiniteSet(Ledger!HeldTokens(h, c)) <=> IsFiniteSet(Ledger!HeldTokens(g, c))
           /\ IsFiniteSet(Ledger!HeldTokens(g, c)) =>
                  /\ Ledger!Held(g, c) \in Nat
                  /\ Ledger!Held(h, c) = Ledger!Held(g, c) + (IF b = c THEN n ELSE 0)
<1> DEFINE own == IF b = c THEN {i} \X (1 .. n) ELSE {}
           G == Ledger!HeldTokens(g, c)
           H == Ledger!HeldTokens(h, c)
<1>1. H = G \cup own /\ G \cap own = {}
    BY TokensDiffer
<1>2. IsFiniteSet(own) /\ Cardinality(own) = IF b = c THEN n ELSE 0
    BY OneHoldTokens, FS_EmptySet DEF OneHoldMore
<1>n. n \in Nat
    BY DEF OneHoldMore
<1> HIDE DEF own, G, H
<1>3. ASSUME IsFiniteSet(G)
      PROVE  /\ IsFiniteSet(H)
             /\ Cardinality(G) \in Nat
             /\ Cardinality(H) = Cardinality(G) + (IF b = c THEN n ELSE 0)
    <2>1. IsFiniteSet(H) /\ Cardinality(H) = Cardinality(G) + Cardinality(own) - Cardinality({})
        BY <1>1, <1>2, <1>3, FS_Union
    <2>2. Cardinality({}) = 0
        BY FS_EmptySet
    <2>3. Cardinality(G) \in Nat
        BY <1>3, FS_CardinalityType
    <2> QED BY <1>2, <1>n, <2>1, <2>2, <2>3
<1>4. ASSUME IsFiniteSet(H) PROVE IsFiniteSet(G)
    <2>1. G \in SUBSET H
        BY <1>1
    <2> QED BY <1>4, <2>1, FS_Subset
<1> QED BY <1>3, <1>4, LedgerCounts DEF G, H, Ledger!Held

-----------------------------------------------------------------------------
(* One lemma per script *)

\* With every counter at zero and nothing on hold, the books balance.
LEMMA InitScriptsInv == NoBucket \notin Bucket /\ ScriptsInit => ScriptsInv
<1> SUFFICES ASSUME NoBucket \notin Bucket, ScriptsInit PROVE ScriptsInv
    OBVIOUS
<1>1. ScriptsTypeOK
    BY DEF ScriptsInit, ScriptsTypeOK
<1>2. ASSUME NEW b \in Bucket PROVE Ledger!HeldTokens(hold, b) = {}
    <2>1. {j \in RequestId : hold[j].bucket = b} = {}
        BY DEF ScriptsInit, NoHold, Ledger!NoHold
    <2> QED BY <2>1 DEF Ledger!HeldTokens
<1>3. HeldFinite
    BY <1>2, FS_EmptySet DEF HeldFinite
<1>4. BalanceIsAvailable
    BY <1>2, FS_EmptySet, LedgerCounts DEF BalanceIsAvailable, ScriptsInit, Ledger!Available, Ledger!Held
<1>5. OverdrawnOnlyByOverrun
    BY DEF OverdrawnOnlyByOverrun, ScriptsInit
<1> QED BY <1>1, <1>3, <1>4, <1>5 DEF ScriptsInv

\* A step that leaves Redis alone keeps the books balanced.
LEMMA UnchangedScriptsInv == ScriptsInv /\ UNCHANGED storeVars => ScriptsInv'
<1> SUFFICES ASSUME ScriptsInv, UNCHANGED storeVars PROVE ScriptsInv'
    OBVIOUS
<1> QED BY DEF ScriptsInv, storeVars, ScriptsTypeOK, HeldFinite, BalanceIsAvailable,
               OverdrawnOnlyByOverrun, Ledger!Available, Ledger!Held, Ledger!HeldTokens

\* The books, one bucket at a time: what the lemmas below have to show.
BooksOf(c) ==
    /\ IsFiniteSet(Ledger!HeldTokens(hold, c))
    /\ Ledger!Held(hold, c) \in Nat
    /\ balance[c] = funds[c] - spent[c] - forfeited[c] - Ledger!Held(hold, c)
    /\ balance[c] + overrun[c] >= 0

LEMMA BooksByBucket ==
    /\ ScriptsInv <=>
          NoBucket \notin Bucket /\ ScriptsTypeOK /\ \A c \in Bucket : BooksOf(c)
    /\ ScriptsInv' <=>
          NoBucket \notin Bucket /\ ScriptsTypeOK' /\ \A c \in Bucket : BooksOf(c)'
    BY FS_CardinalityType, LedgerCounts DEF ScriptsInv, BooksOf, HeldFinite,
       BalanceIsAvailable, OverdrawnOnlyByOverrun, Ledger!Available, Ledger!Held

\* A step that takes a new hold of n tokens of b, paid for by b.
LEMMA TakeKeepsBooks ==
    ASSUME ScriptsInv, NEW b \in Bucket, NEW i \in RequestId, NEW n \in Nat,
           hold[i] = NoHold,
           hold' = [hold EXCEPT ![i] = [bucket |-> b, reserved |-> n]],
           NEW c \in Bucket
    PROVE  /\ hold' \in [RequestId -> Hold \cup {NoHold}]
           /\ IsFiniteSet(Ledger!HeldTokens(hold', c))
           /\ Ledger!Held(hold', c) \in Nat
           /\ Ledger!Held(hold', c) = Ledger!Held(hold, c) + (IF b = c THEN n ELSE 0)
<1>1. hold \in [RequestId -> Hold \cup {NoHold}] /\ NoBucket \notin Bucket
    BY DEF ScriptsInv, ScriptsTypeOK
<1>2. hold' \in [RequestId -> Hold \cup {NoHold}]
    BY <1>1 DEF Hold, Ledger!Hold
<1>3. hold'[i] = [bucket |-> b, reserved |-> n]
    BY <1>1
<1>4. \A j \in RequestId \ {i} : hold'[j] = hold[j]
    BY <1>1
<1>5. IsFiniteSet(Ledger!HeldTokens(hold, c))
    BY DEF ScriptsInv, HeldFinite
<1>6. /\ IsFiniteSet(Ledger!HeldTokens(hold', c))
      /\ Ledger!Held(hold, c) \in Nat
      /\ Ledger!Held(hold', c) = Ledger!Held(hold, c) + (IF b = c THEN n ELSE 0)
    <2>1. OneHoldMore(hold, hold', i, b, n)
        BY <1>1, <1>2, <1>3, <1>4 DEF OneHoldMore
    <2> QED BY <1>5, <2>1, HeldDiffer
<1> QED BY <1>2, <1>6

\* A step that ends the hold of i.
LEMMA EndKeepsBooks ==
    ASSUME ScriptsInv, NEW i \in RequestId,
           hold[i] # NoHold,
           hold' = [hold EXCEPT ![i] = NoHold]
    PROVE  /\ hold[i] \in Hold
           /\ hold[i].bucket \in Bucket
           /\ hold[i].reserved \in Nat
           /\ hold' \in [RequestId -> Hold \cup {NoHold}]
           /\ \A c \in Bucket :
                 /\ IsFiniteSet(Ledger!HeldTokens(hold', c))
                 /\ Ledger!Held(hold', c) \in Nat
                 /\ Ledger!Held(hold, c) =
                       Ledger!Held(hold', c) + (IF hold[i].bucket = c THEN hold[i].reserved ELSE 0)
<1>1. hold \in [RequestId -> Hold \cup {NoHold}] /\ NoBucket \notin Bucket
    BY DEF ScriptsInv, ScriptsTypeOK
<1>2. hold[i] \in Hold
    BY <1>1
<1>3. PICK b \in Bucket, n \in Nat : hold[i] = [bucket |-> b, reserved |-> n]
    BY <1>2 DEF Hold, Ledger!Hold
<1>4. hold' \in [RequestId -> Hold \cup {NoHold}] /\ hold'[i] = NoHold
    BY <1>1
<1>5. \A j \in RequestId \ {i} : hold[j] = hold'[j]
    BY <1>1
<1>6. ASSUME NEW c \in Bucket
      PROVE  /\ IsFiniteSet(Ledger!HeldTokens(hold', c))
             /\ Ledger!Held(hold', c) \in Nat
             /\ Ledger!Held(hold, c) = Ledger!Held(hold', c) + (IF b = c THEN n ELSE 0)
    <2>1. IsFiniteSet(Ledger!HeldTokens(hold, c))
        BY DEF ScriptsInv, HeldFinite
    <2>2. OneHoldMore(hold', hold, i, b, n)
        BY <1>1, <1>3, <1>4, <1>5 DEF OneHoldMore
    <2> QED BY <2>1, <2>2, HeldDiffer
<1>7. hold[i].bucket = b /\ hold[i].reserved = n
    BY <1>3
<1> QED BY <1>2, <1>4, <1>6, <1>7

\* reserve_budget keeps the books, in each of its three branches.
LEMMA ReserveInv ==
    ASSUME ScriptsInv, NEW b \in Bucket, NEW i \in RequestId, NEW n \in Nat,
           ReserveBudget(b, i, n)
    PROVE  ScriptsInv'
<1>1. CASE hold[i] = NoHold /\ balance[b] >= n
    <2>1. /\ balance' = [balance EXCEPT ![b] = @ - n]
          /\ hold' = [hold EXCEPT ![i] = [bucket |-> b, reserved |-> n]]
          /\ UNCHANGED <<funds, spent, forfeited, overrun>>
        BY <1>1 DEF ReserveBudget, Take
    <2>2. NoBucket \notin Bucket /\ ScriptsTypeOK /\ \A c \in Bucket : BooksOf(c)
        BY BooksByBucket
    <2>3. ScriptsTypeOK'
        BY <2>1, <2>2 DEF ScriptsTypeOK, Hold, Ledger!Hold
    <2>4. ASSUME NEW c \in Bucket PROVE BooksOf(c)'
        <3>1. /\ IsFiniteSet(Ledger!HeldTokens(hold', c))
              /\ Ledger!Held(hold', c) \in Nat
              /\ Ledger!Held(hold', c) = Ledger!Held(hold, c) + (IF b = c THEN n ELSE 0)
            BY <1>1, <2>1, TakeKeepsBooks
        <3>2. balance'[c] = balance[c] - (IF b = c THEN n ELSE 0)
            BY <2>1, <2>2 DEF ScriptsTypeOK
        <3> QED BY <1>1, <2>1, <2>2, <3>1, <3>2 DEF BooksOf, ScriptsTypeOK
    <2> QED BY <2>2, <2>3, <2>4, BooksByBucket
<1>2. CASE ~(hold[i] = NoHold /\ balance[b] >= n)
    <2>1. UNCHANGED storeVars
        BY <1>2 DEF ReserveBudget
    <2> QED BY <2>1, UnchangedScriptsInv
<1> QED BY <1>1, <1>2

\* settle_budget keeps the books, whether it charges less or more than was held.
LEMMA SettleInv ==
    ASSUME ScriptsInv, NEW i \in RequestId, NEW a \in Nat, SettleBudget(i, a)
    PROVE  ScriptsInv'
<1>1. CASE hold[i] # NoHold
    <2> DEFINE b == hold[i].bucket
               n == hold[i].reserved
    <2>1. /\ balance' = [balance EXCEPT ![b] = @ - (a - n)]
          /\ hold' = [hold EXCEPT ![i] = NoHold]
          /\ spent' = [spent EXCEPT ![b] = @ + a]
          /\ overrun' = [overrun EXCEPT ![b] = IF a - n > 0 THEN @ + (a - n) ELSE @]
          /\ UNCHANGED <<funds, forfeited>>
        BY <1>1 DEF SettleBudget, SettleDelta
    <2>2. NoBucket \notin Bucket /\ ScriptsTypeOK /\ \A c \in Bucket : BooksOf(c)
        BY BooksByBucket
    <2>3. /\ b \in Bucket
          /\ n \in Nat
          /\ hold' \in [RequestId -> Hold \cup {NoHold}]
          /\ \A c \in Bucket :
                /\ IsFiniteSet(Ledger!HeldTokens(hold', c))
                /\ Ledger!Held(hold', c) \in Nat
                /\ Ledger!Held(hold, c) = Ledger!Held(hold', c) + (IF b = c THEN n ELSE 0)
        BY <1>1, <2>1, EndKeepsBooks
    <2> HIDE DEF b, n
    <2>4. ScriptsTypeOK'
        BY <2>1, <2>2, <2>3 DEF ScriptsTypeOK
    <2>5. ASSUME NEW c \in Bucket PROVE BooksOf(c)'
        <3>1. /\ balance'[c] = balance[c] - (IF b = c THEN a - n ELSE 0)
              /\ spent'[c] = spent[c] + (IF b = c THEN a ELSE 0)
              /\ overrun'[c] = overrun[c] + (IF b = c /\ a - n > 0 THEN a - n ELSE 0)
            BY <2>1, <2>2, <2>3 DEF ScriptsTypeOK
        <3>2. /\ IsFiniteSet(Ledger!HeldTokens(hold', c))
              /\ Ledger!Held(hold', c) \in Nat
              /\ Ledger!Held(hold, c) = Ledger!Held(hold', c) + (IF b = c THEN n ELSE 0)
            BY <2>3
        <3>3. BooksOf(c) /\ ScriptsTypeOK
            BY <2>2
        <3> QED BY <2>1, <2>3, <3>1, <3>2, <3>3 DEF BooksOf, ScriptsTypeOK
    <2> QED BY <2>2, <2>4, <2>5, BooksByBucket
<1>2. CASE hold[i] = NoHold
    BY <1>2, UnchangedScriptsInv DEF SettleBudget, SettleDelta
<1> QED BY <1>1, <1>2

\* release_budget keeps the books.
LEMMA ReleaseInv ==
    ASSUME ScriptsInv, NEW i \in RequestId, ReleaseBudget(i)
    PROVE  ScriptsInv'
<1>1. CASE hold[i] # NoHold
    <2> DEFINE b == hold[i].bucket
               n == hold[i].reserved
    <2>1. /\ balance' = [balance EXCEPT ![b] = @ + n]
          /\ hold' = [hold EXCEPT ![i] = NoHold]
          /\ UNCHANGED <<funds, spent, forfeited, overrun>>
        BY <1>1 DEF ReleaseBudget
    <2>2. NoBucket \notin Bucket /\ ScriptsTypeOK /\ \A c \in Bucket : BooksOf(c)
        BY BooksByBucket
    <2>3. /\ b \in Bucket
          /\ n \in Nat
          /\ hold' \in [RequestId -> Hold \cup {NoHold}]
          /\ \A c \in Bucket :
                /\ IsFiniteSet(Ledger!HeldTokens(hold', c))
                /\ Ledger!Held(hold', c) \in Nat
                /\ Ledger!Held(hold, c) = Ledger!Held(hold', c) + (IF b = c THEN n ELSE 0)
        BY <1>1, <2>1, EndKeepsBooks
    <2> HIDE DEF b, n
    <2>4. ScriptsTypeOK'
        BY <2>1, <2>2, <2>3 DEF ScriptsTypeOK
    <2>5. ASSUME NEW c \in Bucket PROVE BooksOf(c)'
        <3>1. balance'[c] = balance[c] + (IF b = c THEN n ELSE 0)
            BY <2>1, <2>2, <2>3 DEF ScriptsTypeOK
        <3>2. /\ IsFiniteSet(Ledger!HeldTokens(hold', c))
              /\ Ledger!Held(hold', c) \in Nat
              /\ Ledger!Held(hold, c) = Ledger!Held(hold', c) + (IF b = c THEN n ELSE 0)
            BY <2>3
        <3>3. BooksOf(c) /\ ScriptsTypeOK
            BY <2>2
        <3> QED BY <2>1, <2>3, <3>1, <3>2, <3>3 DEF BooksOf, ScriptsTypeOK
    <2> QED BY <2>2, <2>4, <2>5, BooksByBucket
<1>2. CASE hold[i] = NoHold
    BY <1>2, UnchangedScriptsInv DEF ReleaseBudget
<1> QED BY <1>1, <1>2

\* The expiry of a hold keeps the books: its tokens are forfeited.
LEMMA ExpireInv ==
    ASSUME ScriptsInv, NEW i \in RequestId, ExpireHold(i)
    PROVE  ScriptsInv'
<1> DEFINE b == hold[i].bucket
           n == hold[i].reserved
<1>1. /\ hold[i] # NoHold
      /\ hold' = [hold EXCEPT ![i] = NoHold]
      /\ forfeited' = [forfeited EXCEPT ![b] = @ + n]
      /\ UNCHANGED <<balance, funds, spent, overrun>>
    BY DEF ExpireHold
<1>2. NoBucket \notin Bucket /\ ScriptsTypeOK /\ \A c \in Bucket : BooksOf(c)
    BY BooksByBucket
<1>3. /\ b \in Bucket
      /\ n \in Nat
      /\ hold' \in [RequestId -> Hold \cup {NoHold}]
      /\ \A c \in Bucket :
            /\ IsFiniteSet(Ledger!HeldTokens(hold', c))
            /\ Ledger!Held(hold', c) \in Nat
            /\ Ledger!Held(hold, c) = Ledger!Held(hold', c) + (IF b = c THEN n ELSE 0)
    BY <1>1, EndKeepsBooks
<1> HIDE DEF b, n
<1>4. ScriptsTypeOK'
    BY <1>1, <1>2, <1>3 DEF ScriptsTypeOK
<1>5. ASSUME NEW c \in Bucket PROVE BooksOf(c)'
    <2>1. forfeited'[c] = forfeited[c] + (IF b = c THEN n ELSE 0)
        BY <1>1, <1>2, <1>3 DEF ScriptsTypeOK
    <2>2. /\ IsFiniteSet(Ledger!HeldTokens(hold', c))
          /\ Ledger!Held(hold', c) \in Nat
          /\ Ledger!Held(hold, c) = Ledger!Held(hold', c) + (IF b = c THEN n ELSE 0)
        BY <1>3
    <2>3. BooksOf(c) /\ ScriptsTypeOK
        BY <1>2
    <2> QED BY <1>1, <1>3, <2>1, <2>2, <2>3 DEF BooksOf, ScriptsTypeOK
<1> QED BY <1>2, <1>4, <1>5, BooksByBucket

\* A step that leaves the holds, and what was charged, alone.
Granted(b, v) ==
    /\ b \in Bucket /\ v \in Int
    /\ balance' = [balance EXCEPT ![b] = balance[b] + v]
    /\ funds' = [funds EXCEPT ![b] = funds[b] + v]
    /\ balance[b] + v + overrun[b] >= 0
    /\ UNCHANGED <<hold, spent, forfeited, overrun>>

LEMMA GrantInv ==
    ASSUME ScriptsInv, NEW b, NEW v, Granted(b, v)
    PROVE  ScriptsInv'
<1> USE DEF Granted
<1>1. NoBucket \notin Bucket /\ ScriptsTypeOK /\ \A c \in Bucket : BooksOf(c)
    BY BooksByBucket
<1>2. ScriptsTypeOK'
    BY <1>1 DEF ScriptsTypeOK
<1>3. ASSUME NEW c \in Bucket PROVE BooksOf(c)'
    <2>1. Ledger!HeldTokens(hold', c) = Ledger!HeldTokens(hold, c)
        OBVIOUS
    <2>2. Ledger!Held(hold', c) = Ledger!Held(hold, c)
        OBVIOUS
    <2>3. /\ balance'[c] = balance[c] + (IF b = c THEN v ELSE 0)
          /\ funds'[c] = funds[c] + (IF b = c THEN v ELSE 0)
        BY <1>1 DEF ScriptsTypeOK
    <2> QED BY <1>1, <2>1, <2>2, <2>3 DEF BooksOf, ScriptsTypeOK
<1> QED BY <1>1, <1>2, <1>3, BooksByBucket

\* set_budget, op "set", keeps the books, holds or no holds.
LEMMA SetInv ==
    ASSUME ScriptsInv, NEW b \in Bucket, NEW v \in Nat, SetBudget(b, v)
    PROVE  ScriptsInv'
<1>1. balance[b] \in Int /\ overrun[b] \in Nat /\ funds[b] \in Int
    BY DEF ScriptsInv, ScriptsTypeOK
<1>2. /\ balance[b] + (v - balance[b]) = v
      /\ funds[b] + v - balance[b] = funds[b] + (v - balance[b])
    BY <1>1
<1>3. balance' = [balance EXCEPT ![b] = balance[b] + (v - balance[b])]
    BY <1>2, Zenon DEF SetBudget
<1>4. funds' = [funds EXCEPT ![b] = funds[b] + (v - balance[b])]
    BY <1>2, Zenon DEF SetBudget
<1>5. v - balance[b] \in Int /\ balance[b] + (v - balance[b]) + overrun[b] >= 0
    BY <1>1
<1>6. Granted(b, v - balance[b])
    BY <1>3, <1>4, <1>5 DEF SetBudget, Granted
<1> QED BY <1>6, GrantInv

\* set_budget, op "topup", keeps the books.
LEMMA TopupInv ==
    ASSUME ScriptsInv, NEW b \in Bucket, NEW v \in Nat, TopupBudget(b, v)
    PROVE  ScriptsInv'
<1>1. balance[b] \in Int /\ overrun[b] \in Nat /\ balance[b] + overrun[b] >= 0
    BY DEF ScriptsInv, ScriptsTypeOK, OverdrawnOnlyByOverrun
<1>2. Granted(b, v)
    BY <1>1 DEF TopupBudget, Granted
<1> QED BY <1>2, GrantInv

-----------------------------------------------------------------------------
(* Each script, run in a state whose books balance, is a step of the ledger *)

LEMMA ReserveIsTakeHold ==
    ASSUME ScriptsInv, NEW b \in Bucket, NEW i \in RequestId, NEW n \in Nat,
           ReserveBudget(b, i, n)
    PROVE  [Ledger!LedgerNext]_(Ledger!ledgerVars)
<1>1. CASE hold[i] = NoHold /\ balance[b] >= n
    <2>1. /\ hold' = [hold EXCEPT ![i] = [bucket |-> b, reserved |-> n]]
          /\ UNCHANGED <<funds, spent, forfeited>>
        BY <1>1 DEF ReserveBudget, Take
    <2>2. hold'[i] = [bucket |-> b, reserved |-> n]
        BY <2>1 DEF ScriptsInv, ScriptsTypeOK
    <2>3. balance[b] = Ledger!Available(b) /\ balance[b] \in Int
        BY DEF ScriptsInv, BalanceIsAvailable, ScriptsTypeOK
    <2>4. n \in 0 .. Ledger!Available(b)
        BY <1>1, <2>3
    <2>5. hold'[i] \in [bucket : {b}, reserved : 0 .. Ledger!Available(b)]
        BY <2>2, <2>4
    <2>6. Ledger!TakeHold(b, i)
        BY <1>1, <2>1, <2>2, <2>5 DEF Ledger!TakeHold, NoHold
    <2> QED BY <2>6 DEF Ledger!LedgerNext
<1>2. CASE ~(hold[i] = NoHold /\ balance[b] >= n)
    BY <1>2 DEF ReserveBudget, storeVars, Ledger!ledgerVars
<1> QED BY <1>1, <1>2

LEMMA SettleIsCharge ==
    ASSUME ScriptsInv, NEW i \in RequestId, NEW a \in Nat, SettleBudget(i, a)
    PROVE  [Ledger!LedgerNext]_(Ledger!ledgerVars)
<1>1. CASE hold[i] # NoHold
    <2> DEFINE b == hold[i].bucket
    <2>1. /\ hold' = [hold EXCEPT ![i] = NoHold]
          /\ spent' = [spent EXCEPT ![b] = @ + a]
          /\ UNCHANGED <<funds, forfeited>>
        BY <1>1 DEF SettleBudget, SettleDelta
    <2>2. b \in Bucket /\ spent \in [Bucket -> Nat] /\ forfeited \in [Bucket -> Nat]
        BY <1>1, <2>1, EndKeepsBooks DEF ScriptsInv, ScriptsTypeOK
    <2> HIDE DEF b
    <2>3. spent'[b] - spent[b] = a
        BY <2>1, <2>2
    <2>4. forfeited' = [forfeited EXCEPT ![b] = @ + 0]
        BY <2>1, <2>2
    <2>5. Ledger!EndHold(i, spent'[b] - spent[b], 0)
        BY <1>1, <2>1, <2>3, <2>4 DEF Ledger!EndHold, NoHold, b
    <2>6. Ledger!Charge(i)
        BY <1>1, <2>3, <2>5 DEF Ledger!Charge, NoHold, b
    <2> QED BY <2>6 DEF Ledger!LedgerNext
<1>2. CASE hold[i] = NoHold
    BY <1>2 DEF SettleBudget, SettleDelta, storeVars, Ledger!ledgerVars
<1> QED BY <1>1, <1>2

LEMMA ReleaseIsRefund ==
    ASSUME ScriptsInv, NEW i \in RequestId, ReleaseBudget(i)
    PROVE  [Ledger!LedgerNext]_(Ledger!ledgerVars)
<1>1. CASE hold[i] # NoHold
    <2> DEFINE b == hold[i].bucket
    <2>1. hold' = [hold EXCEPT ![i] = NoHold] /\ UNCHANGED <<funds, spent, forfeited>>
        BY <1>1 DEF ReleaseBudget
    <2>2. b \in Bucket /\ spent \in [Bucket -> Nat] /\ forfeited \in [Bucket -> Nat]
        BY <1>1, <2>1, EndKeepsBooks DEF ScriptsInv, ScriptsTypeOK
    <2> HIDE DEF b
    <2>3. /\ spent' = [spent EXCEPT ![b] = @ + 0]
          /\ forfeited' = [forfeited EXCEPT ![b] = @ + 0]
        BY <2>1, <2>2
    <2>4. Ledger!Refund(i)
        BY <1>1, <2>1, <2>3 DEF Ledger!Refund, Ledger!EndHold, NoHold, b
    <2> QED BY <2>4 DEF Ledger!LedgerNext
<1>2. CASE hold[i] = NoHold
    BY <1>2 DEF ReleaseBudget, storeVars, Ledger!ledgerVars
<1> QED BY <1>1, <1>2

LEMMA ExpiryIsForfeit ==
    ASSUME ScriptsInv, NEW i \in RequestId, ExpireHold(i)
    PROVE  [Ledger!LedgerNext]_(Ledger!ledgerVars)
<1> DEFINE b == hold[i].bucket
<1>1. /\ hold[i] # NoHold
      /\ hold' = [hold EXCEPT ![i] = NoHold]
      /\ forfeited' = [forfeited EXCEPT ![b] = @ + hold[i].reserved]
      /\ UNCHANGED <<funds, spent>>
    BY DEF ExpireHold
<1>2. b \in Bucket /\ spent \in [Bucket -> Nat]
    BY <1>1, EndKeepsBooks DEF ScriptsInv, ScriptsTypeOK
<1> HIDE DEF b
<1>3. spent' = [spent EXCEPT ![b] = @ + 0]
    BY <1>1, <1>2
<1>4. Ledger!Forfeit(i)
    BY <1>1, <1>3 DEF Ledger!Forfeit, Ledger!EndHold, NoHold, b
<1> QED BY <1>4 DEF Ledger!LedgerNext

LEMMA GrantIsFund ==
    ASSUME ScriptsInv, NEW b \in Bucket, NEW v \in Nat,
           SetBudget(b, v) \/ TopupBudget(b, v)
    PROVE  [Ledger!LedgerNext]_(Ledger!ledgerVars)
<1>1. PICK w \in Int : funds' = [funds EXCEPT ![b] = w]
    BY DEF SetBudget, TopupBudget, ScriptsInv, ScriptsTypeOK
<1>2. funds'[b] = w
    BY <1>1 DEF ScriptsInv, ScriptsTypeOK
<1>3. Ledger!Fund(b)
    BY <1>1, <1>2 DEF SetBudget, TopupBudget, Ledger!Fund
<1> QED BY <1>3 DEF Ledger!LedgerNext

\* Nothing else of Redis changes.
LEMMA UnchangedIsStutter ==
    ASSUME UNCHANGED storeVars
    PROVE  [Ledger!LedgerNext]_(Ledger!ledgerVars)
    BY DEF storeVars, Ledger!ledgerVars

\* The keys start as the ledger does.
LEMMA InitIsLedgerInit == ScriptsInit => Ledger!LedgerInit
    BY DEF ScriptsInit, Ledger!LedgerInit, NoHold
=============================================================================
