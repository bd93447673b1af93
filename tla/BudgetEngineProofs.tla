------------------------- MODULE BudgetEngineProofs -------------------------
(***************************************************************************)
(* The budget engine keeps its books and implements the ledger, for any    *)
(* buckets, request ids, estimates, usage and grants.                      *)
(***************************************************************************)
EXTENDS BudgetEngine, BudgetScriptsProofs

\* Every step of the engine runs one script, or expires one hold.
LEMMA EngineStep ==
    ASSUME ScriptsInv, [EngineNext]_storeVars
    PROVE  ScriptsInv'
<1>1. ASSUME NEW b \in Bucket, NEW i \in RequestId, NEW n \in Estimate, Reserve(b, i, n)
      PROVE  ScriptsInv'
    BY <1>1, EngineAssumption, ReserveInv DEF Reserve
<1>2. ASSUME NEW i \in RequestId, NEW a \in Usage, Settle(i, a)
      PROVE  ScriptsInv'
    BY <1>2, EngineAssumption, SettleInv DEF Settle
<1>3. ASSUME NEW i \in RequestId, Release(i)
      PROVE  ScriptsInv'
    BY <1>3, ReleaseInv DEF Release
<1>4. ASSUME NEW b \in Bucket, NEW v \in Grant, SetBalance(b, v)
      PROVE  ScriptsInv'
    BY <1>4, EngineAssumption, SetInv DEF SetBalance
<1>5. ASSUME NEW b \in Bucket, NEW v \in Grant, TopupBalance(b, v)
      PROVE  ScriptsInv'
    BY <1>5, EngineAssumption, TopupInv DEF TopupBalance
<1>6. ASSUME NEW i \in RequestId, ExpireHold(i)
      PROVE  ScriptsInv'
    BY <1>6, ExpireInv
<1>7. CASE UNCHANGED storeVars
    BY <1>7, UnchangedScriptsInv
<1> QED BY <1>1, <1>2, <1>3, <1>4, <1>5, <1>6, <1>7 DEF EngineNext

LEMMA EngineInvariant == EngineSpec => []ScriptsInv
<1>1. ScriptsInit => ScriptsInv
    BY EngineAssumption, InitScriptsInv
<1>2. ScriptsInv /\ [EngineNext]_storeVars => ScriptsInv'
    BY EngineStep
<1> QED BY <1>1, <1>2, PTL DEF EngineSpec

\* The keys of Redis keep their types: no script writes a hold without its
\* bucket, or settles or forfeits a negative amount.
THEOREM EngineTypeCorrect == EngineSpec => []ScriptsTypeOK
<1>1. ScriptsInv => ScriptsTypeOK
    BY DEF ScriptsInv
<1> QED BY <1>1, EngineInvariant, PTL

\* Every counter is at all times what its bucket was granted, less everything
\* settled and forfeited, less the sum of the holds open on it.
THEOREM EngineBalances == EngineSpec => []BalanceIsAvailable
<1>1. ScriptsInv => BalanceIsAvailable
    BY DEF ScriptsInv
<1> QED BY <1>1, EngineInvariant, PTL

\* Reservations never overdraw a bucket, whatever they interleave with.
THEOREM EngineNeverOverReserves == EngineSpec => []OverdrawnOnlyByOverrun
<1>1. ScriptsInv => OverdrawnOnlyByOverrun
    BY DEF ScriptsInv
<1> QED BY <1>1, EngineInvariant, PTL

-----------------------------------------------------------------------------
(* The engine implements the ledger *)

\* Every step of the engine is one of the ledger's.
LEMMA EngineStepIsLedgerStep ==
    ASSUME ScriptsInv, [EngineNext]_storeVars
    PROVE  [Ledger!LedgerNext]_(Ledger!ledgerVars)
<1>1. ASSUME NEW b \in Bucket, NEW i \in RequestId, NEW n \in Estimate, Reserve(b, i, n)
      PROVE  [Ledger!LedgerNext]_(Ledger!ledgerVars)
    BY <1>1, EngineAssumption, ReserveIsTakeHold DEF Reserve
<1>2. ASSUME NEW i \in RequestId, NEW a \in Usage, Settle(i, a)
      PROVE  [Ledger!LedgerNext]_(Ledger!ledgerVars)
    BY <1>2, EngineAssumption, SettleIsCharge DEF Settle
<1>3. ASSUME NEW i \in RequestId, Release(i)
      PROVE  [Ledger!LedgerNext]_(Ledger!ledgerVars)
    BY <1>3, ReleaseIsRefund DEF Release
<1>4. ASSUME NEW b \in Bucket, NEW v \in Grant, SetBalance(b, v) \/ TopupBalance(b, v)
      PROVE  [Ledger!LedgerNext]_(Ledger!ledgerVars)
    BY <1>4, EngineAssumption, GrantIsFund DEF SetBalance, TopupBalance
<1>5. ASSUME NEW i \in RequestId, ExpireHold(i)
      PROVE  [Ledger!LedgerNext]_(Ledger!ledgerVars)
    BY <1>5, ExpiryIsForfeit
<1>6. CASE UNCHANGED storeVars
    BY <1>6, UnchangedIsStutter
<1> QED BY <1>1, <1>2, <1>3, <1>4, <1>5, <1>6 DEF EngineNext

\* The scripts implement the ledger: a hold is granted only against what is
\* available once every open hold is counted, and ends exactly once.
THEOREM EngineImplementsLedger == EngineSpec => LedgerSpec
<1>1. ScriptsInit => Ledger!LedgerInit
    BY InitIsLedgerInit
<1>2. ScriptsInv /\ [EngineNext]_storeVars => [Ledger!LedgerNext]_(Ledger!ledgerVars)
    BY EngineStepIsLedgerStep
<1> QED BY <1>1, <1>2, EngineInvariant, PTL DEF EngineSpec, LedgerSpec, Ledger!LedgerSpec
=============================================================================
