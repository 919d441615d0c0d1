----------------------------- MODULE MCBusiness -----------------------------
(***************************************************************************)
(* The business components and the services, one at a time. Sales and      *)
(* purchases post into the same stock ledger; the others share no table    *)
(* in these models, so that a run of each by itself covers what their      *)
(* product would: focus says which one moves.                              *)
(***************************************************************************)
EXTENDS SalesOrders, PurchaseOrders, Postings, Settlement, PeriodEntries,
        ChangeRequests, Approvals, Scheduler, Snapshots, RecordCache, Intake, TLC

CONSTANTS Focuses, m1, m2, m3
VARIABLE focus

OrderedHere == [stockable |-> 2, service |-> 1]
QuotaHere == <<1, 2>>
\* Everybody holds the role of one step, m2 that of both.
HoldersHere == <<{m1, m2}, {m2, m3}>>
HandledHere == [s \in Servers |-> Actions]

trade == <<stockVars, salesVars, purchaseVars>>
finance == <<postingsVars, settlementVars, periodVars>>
services == <<changeVars, approvalVars, schedulerVars, snapshotVars, cacheVars, intakeVars>>

\* A component that does not move starts in one of its initial states only.
Init ==
    /\ focus \in Focuses
    /\ StockInit /\ SalesInit /\ PurchaseInit
    /\ PostingsInit /\ SettlementInit /\ PeriodInit
    /\ ChangeInit /\ ApprovalInit /\ SchedulerInit /\ SnapshotInit
    /\ CacheInit /\ IntakeInit
    /\ focus # "sales" => DOMAIN order = {1} /\ order[1].state = "confirmed" /\ ~order[1].notes
    /\ focus # "purchase" => po[1].state = "rfq"
    /\ focus # "settlement" => DOMAIN entry = Docs
    /\ focus # "period" => auto_post

Trade ==
    \/ focus = "stock" /\ StockNext /\ UNCHANGED <<salesVars, purchaseVars>>
    \/ focus = "sales" /\ SalesNext /\ UNCHANGED <<drafts, count, counts, purchaseVars>>
    \/ focus = "purchase" /\ PurchaseNext /\ UNCHANGED <<drafts, count, counts, salesVars>>

Finance ==
    \/ focus = "postings" /\ PostingsNext /\ UNCHANGED <<settlementVars, periodVars>>
    \/ focus = "settlement" /\ SettlementNext /\ UNCHANGED <<postingsVars, periodVars>>
    \/ focus = "period" /\ PeriodNext /\ UNCHANGED <<postingsVars, settlementVars>>

Services ==
    \/ focus = "change" /\ ChangeNext /\ UNCHANGED <<approvalVars, schedulerVars, snapshotVars, cacheVars, intakeVars>>
    \/ focus = "approval" /\ ApprovalNext /\ UNCHANGED <<changeVars, schedulerVars, snapshotVars, cacheVars, intakeVars>>
    \/ focus = "scheduler" /\ SchedulerNext /\ UNCHANGED <<changeVars, approvalVars, snapshotVars, cacheVars, intakeVars>>
    \/ focus = "snapshot" /\ SnapshotNext /\ UNCHANGED <<changeVars, approvalVars, schedulerVars, cacheVars, intakeVars>>
    \/ focus = "cache" /\ CacheNext /\ UNCHANGED <<changeVars, approvalVars, schedulerVars, snapshotVars, intakeVars>>
    \/ focus = "intake" /\ IntakeNext /\ UNCHANGED <<changeVars, approvalVars, schedulerVars, snapshotVars, cacheVars>>

\* Bounds over what a component does at once. A template that leaves drafts
\* is run by itself, and a suggestion is taken while nothing else is done. A
\* user whose request was approved asks again, if nothing failed. A release
\* shortens one interval, once something went wrong. One submission is given
\* up for a failure.
Scope ==
    /\ ~auto_post => \A u \in Runners : runner[u].on \in {"none", "recurring"}
    /\ matched = "existing" => asset.state = "draft" /\ cheque = "holding" /\ recurring = 1
    /\ 2 \in DOMAIN requests => lapses = 0 /\ requests[1].status = "approved" /\ requests[2].by = requests[1].by
    /\ \A a \in DOMAIN schedule : schedule[a].every = 1 => a = (CHOOSE x \in Actions : TRUE) /\ upsets > 0
    /\ Cardinality({n \in Submissions : status[n] # "unborn"}) + slips <= MaxSubmissions

Next ==
    /\ UNCHANGED focus
    /\ \/ Trade /\ UNCHANGED <<finance, services>>
       \/ Finance /\ UNCHANGED <<trade, services>>
       \/ Services /\ UNCHANGED <<trade, finance>>
    /\ Scope'

Spec == Init /\ [][Next]_<<focus, trade, finance, services>>

\* One set of actors for all components: only one of them moves.
ASSUME OneCast ==
    \A S \in {Counters, Buyers, Clerks, Cashiers, Runners, Users, Tasks, Servers, Freezers, Apps, Callers, Visitors} : S = Salespeople
Alike == Permutations(Salespeople)

\* Every component stays in its type; only the one that moves needs looking at.
TypeOK ==
    /\ focus \in {"stock", "sales", "purchase"} => StockTypeOK /\ SalesTypeOK /\ PurchaseTypeOK
    /\ focus = "postings" => PostingsTypeOK
    /\ focus = "settlement" => SettlementTypeOK
    /\ focus = "period" => PeriodTypeOK
    /\ focus = "change" => ChangeTypeOK
    /\ focus = "approval" => ApprovalTypeOK
    /\ focus = "scheduler" => SchedulerTypeOK
    /\ focus = "snapshot" => SnapshotTypeOK
    /\ focus = "cache" => CacheTypeOK
    /\ focus = "intake" => IntakeTypeOK

=============================================================================
