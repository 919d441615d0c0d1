-------------------------- MODULE MCBusinessProofs --------------------------
(***************************************************************************)
(* All of the business components together, as MCBusiness composes them:   *)
(* sales, purchases and the stock users share one ledger, and nobody else  *)
(* touches a table of another. So what happens to the tables of one part   *)
(* is a behaviour of that part, and every theorem about a part is one      *)
(* about the composition.                                                  *)
(***************************************************************************)
EXTENDS MCBusiness, BusinessProofs, SettlementProofs, BackOfficeProofs, TLAPS

\* Each part starts in a state of its own.
LEMMA PartsStart ==
    Init => /\ TradeInit /\ PostingsInit /\ SettlementInit /\ PeriodInit
            /\ ChangeInit /\ ApprovalInit /\ SchedulerInit /\ SnapshotInit /\ CacheInit /\ IntakeInit
BY DEF Init, TradeInit

\* A step of the composition is a step of a part, or leaves it alone.
LEMMA FinanceParts ==
    ASSUME [Next]_<<focus, trade, finance, services>>
    PROVE  [PostingsNext]_postingsVars /\ [SettlementNext]_settlementVars /\ [PeriodNext]_periodVars
<1>1. Finance \/ UNCHANGED finance
  BY DEF Next
<1> QED
  BY <1>1 DEF Finance, finance

LEMMA TradeParts ==
    ASSUME [Next]_<<focus, trade, finance, services>>
    PROVE  [TradeNext]_tradeVars
<1>1. Trade \/ UNCHANGED trade
  BY DEF Next
<1> QED
  BY <1>1 DEF Trade, trade, TradeNext, tradeVars

LEMMA ServiceParts ==
    ASSUME [Next]_<<focus, trade, finance, services>>
    PROVE  /\ [ChangeNext]_changeVars /\ [ApprovalNext]_approvalVars /\ [SchedulerNext]_schedulerVars
           /\ [SnapshotNext]_snapshotVars /\ [CacheNext]_cacheVars /\ [IntakeNext]_intakeVars
<1>1. Services \/ UNCHANGED services
  BY DEF Next
<1> QED
  BY <1>1 DEF Services, services

\* What the composition does to the tables of a part, the part does: no
\* component has a way into the tables of another but post_move, which is in
\* the specification of trade.
THEOREM EachPartIsItself ==
    Spec => /\ TradeSpec /\ PostingsSpec /\ SettlementSpec /\ PeriodSpec
            /\ ChangeSpec /\ ApprovalSpec /\ SchedulerSpec /\ SnapshotSpec /\ CacheSpec /\ IntakeSpec
<1>1. [Next]_<<focus, trade, finance, services>> =>
          /\ [TradeNext]_tradeVars
          /\ [PostingsNext]_postingsVars /\ [SettlementNext]_settlementVars /\ [PeriodNext]_periodVars
          /\ [ChangeNext]_changeVars /\ [ApprovalNext]_approvalVars /\ [SchedulerNext]_schedulerVars
          /\ [SnapshotNext]_snapshotVars /\ [CacheNext]_cacheVars /\ [IntakeNext]_intakeVars
  BY TradeParts, FinanceParts, ServiceParts
<1> QED
  BY <1>1, PartsStart, PTL
     DEF Spec, TradeSpec, PostingsSpec, SettlementSpec, PeriodSpec, ChangeSpec, ApprovalSpec, SchedulerSpec,
         SnapshotSpec, CacheSpec, IntakeSpec

\* No component ever leaves its types, whoever moves.
THEOREM ComposedTypes == Spec => []TypeOK
<1>1. /\ StockTypeOK /\ SalesTypeOK /\ PurchaseTypeOK /\ PostingsTypeOK /\ SettlementTypeOK /\ PeriodTypeOK
      /\ ChangeTypeOK /\ ApprovalTypeOK /\ SchedulerTypeOK /\ SnapshotTypeOK /\ CacheTypeOK /\ IntakeTypeOK
      => TypeOK
  BY DEF TypeOK
<1> QED
  BY <1>1, EachPartIsItself, TradeTypes, PostingTypes, SettlementTypes, PeriodRowsTyped, ChangeTypes, ApprovalTypes,
     SchedulerTypes, SnapshotTypes, CacheTypes, IntakeTypes, PTL

\* Stock, orders, bills, books, settlements, records, histories, outcomes,
\* claims, snapshots, copies and submissions stay in agreement in one system.
THEOREM ComposedAgreement ==
    Spec => /\ []OnHandIsTheMoves /\ CountLandsOnCounted
            /\ [](ShipmentsMatchOrders /\ BillsFollowDeliveries /\ PurchasesMatchReceipts)
            /\ [](ClosedYearIsCovered /\ LedgerLinesOnce /\ BooksAgree /\ PostedAsRecorded)
            /\ [](HistoryExplainsState /\ QuorumBeforeTransition /\ OutcomeIsTheDecision)
            /\ [](OneFirePerInterval /\ SealedStaysAsSealed /\ StaleCopiesAreDropped /\ SubmissionsSettleOnce)
BY EachPartIsItself, OnHandInTrade, CountsLandInTrade, OrdersMatchInTrade, ClosedBooksBalance, InvoiceLinesOnce,
   BooksAgreeAlways, EntriesAreRecorded, HistoryExplains, NothingWithoutAQuorum, OutcomeIsDecided,
   FiresOncePerInterval, SealedSetsStay, CopiesAreDropped, SettledOnce, PTL

=============================================================================
