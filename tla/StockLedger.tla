---------------------------- MODULE StockLedger ----------------------------
(***************************************************************************)
(* The stock ledger of vortex-inventory: stock moves and the quantity on   *)
(* hand per location, for one product (and lot) that is stocked.           *)
(*                                                                         *)
(* A move that is done has debited its source and credited its             *)
(* destination, in one transaction. Drafts are validated or cancelled      *)
(* later. A stock count turns the difference to the counted quantity into  *)
(* a move; its transaction locks the on-hand row of the counted location,  *)
(* if there is one, computes the difference and commits.                   *)
(***************************************************************************)
EXTENDS Integers, FiniteSets, Functions

CONSTANTS Counters,     \* users who count stock
          MaxQuantity,  \* bound: quantity of one move or count
          MaxDrafts,    \* bound: moves entered as drafts
          MaxCounts     \* bound: stock counts

ASSUME StockAssumption ==
    MaxQuantity \in Nat \ {0} /\ MaxDrafts \in Nat /\ MaxCounts \in Nat

\* One location of each type the movements below use.
Locations == {"supplier", "internal", "customer", "inventory"}
Quantities == 1..MaxQuantity

VARIABLES
    quant,      \* stock_quant: the rows there are, with their quantity
    flow,       \* stock_move, state done: total quantity per source and destination
    drafts,     \* stock_move as entered by hand: state, quantity, source, destination
    count,      \* stock counts in progress, per user
    counts      \* how many there have been

stockVars == <<quant, flow, drafts, count, counts>>

Routes == {r \in Locations \X Locations : r[1] # r[2]}
Draft == [state: {"draft", "done", "cancelled"}, qty: Quantities, route: Routes]
Count == [at: {"none", "read", "counting"}, counted: 0..MaxQuantity, current: Int, locked: BOOLEAN, row: BOOLEAN]
NoCount == [at |-> "none", counted |-> 0, current |-> 0, locked |-> FALSE, row |-> FALSE]

StockTypeOK ==
    /\ DOMAIN quant \subseteq Locations /\ \A l \in DOMAIN quant : quant[l] \in Int
    /\ flow \in [Routes -> Nat]
    /\ DOMAIN drafts \subseteq 1..MaxDrafts /\ \A d \in DOMAIN drafts : drafts[d] \in Draft
    /\ DOMAIN count = Counters /\ \A u \in Counters : count[u] \in Count

StockInit ==
    /\ quant = [l \in {} |-> 0]
    /\ flow = [r \in Routes |-> 0]
    /\ drafts = [d \in {} |-> 0]
    /\ count = [u \in Counters |-> NoCount]
    /\ counts = 0

-----------------------------------------------------------------------------

\* Rows of stock_quant that an open transaction has locked.
RowLocked(l) == l = "internal" /\ \E u \in Counters : count[u].at = "counting" /\ count[u].locked

\* The balance of a location that has no row yet is created with the delta.
adjust_quant(q, l, delta) ==
    [x \in DOMAIN q \cup {l} |-> IF x \in DOMAIN q THEN q[x] + (IF x = l THEN delta ELSE 0) ELSE delta]

\* A slip: the destination is credited and the source is not debited.
Moved_CreditOnly(q, route, qty) == adjust_quant(q, route[2], qty)

Moved(q, route, qty) == adjust_quant(adjust_quant(q, route[1], -qty), route[2], qty)

\* post_move, and the end of validate_move and of a stock count: the move is
\* done and both balances are adjusted, in one transaction that waits for
\* the rows it updates.
PostDone(route, qty) ==
    /\ \A i \in {1, 2} : ~RowLocked(route[i])
    /\ quant' = Moved(quant, route, qty)
    /\ flow' = [flow EXCEPT ![route] = @ + qty]

create_move ==
    \E d \in 1..MaxDrafts, route \in Routes, qty \in Quantities :
        /\ DOMAIN drafts = 1..(d - 1)
        /\ drafts' = [x \in 1..d |-> IF x = d THEN [state |-> "draft", qty |-> qty, route |-> route]
                                     ELSE drafts[x]]
        /\ UNCHANGED <<quant, flow, count, counts>>

\* The draft is locked and looked at again in the transaction that posts it.
validate_move(d) ==
    /\ d \in DOMAIN drafts
    /\ drafts[d].state = "draft"
    /\ drafts' = [drafts EXCEPT ![d].state = "done"]
    /\ PostDone(drafts[d].route, drafts[d].qty)
    /\ UNCHANGED <<count, counts>>

cancel_move(d) ==
    /\ d \in DOMAIN drafts
    /\ drafts[d].state = "draft"
    /\ drafts' = [drafts EXCEPT ![d].state = "cancelled"]
    /\ UNCHANGED <<quant, flow, count, counts>>

\* Stock count: the form names the counted quantity.
BeginCount(u, counted) ==
    /\ count[u].at = "none"
    /\ counts < MaxCounts
    /\ counts' = counts + 1
    /\ count' = [count EXCEPT ![u] = [NoCount EXCEPT !.at = "read", !.counted = counted]]
    /\ UNCHANGED <<quant, flow, drafts>>

\* A slip: the balance is read without FOR UPDATE.
ReadOnHand_NoLock(u) ==
    /\ count[u].at = "read"
    /\ ~RowLocked("internal")
    /\ count' = [count EXCEPT ![u].at = "counting", ![u].row = ("internal" \in DOMAIN quant),
                              ![u].current = IF "internal" \in DOMAIN quant THEN quant["internal"] ELSE 0]
    /\ UNCHANGED <<quant, flow, drafts, counts>>

\* SELECT .. FOR UPDATE: a row that exists is locked; a missing one counts
\* as zero and nothing is locked. An unchanged balance ends the request.
ReadOnHand(u) ==
    /\ count[u].at = "read"
    /\ ~RowLocked("internal")
    /\ LET current == IF "internal" \in DOMAIN quant THEN quant["internal"] ELSE 0
       IN count' = [count EXCEPT ![u] =
             IF current = @.counted THEN NoCount
             ELSE [@ EXCEPT !.at = "counting", !.current = current,
                            !.locked = ("internal" \in DOMAIN quant),
                            !.row = ("internal" \in DOMAIN quant)]]
    /\ UNCHANGED <<quant, flow, drafts, counts>>

\* The difference becomes a move from or to the adjustment location.
CommitCount(u) ==
    /\ count[u].at = "counting"
    /\ ~ \E v \in Counters \ {u} : count[v].at = "counting" /\ count[v].locked
    /\ LET delta == count[u].counted - count[u].current
           route == IF delta > 0 THEN <<"inventory", "internal">> ELSE <<"internal", "inventory">>
           qty == IF delta > 0 THEN delta ELSE -delta
       IN /\ quant' = Moved(quant, route, qty)
          /\ flow' = [flow EXCEPT ![route] = @ + qty]
    /\ count' = [count EXCEPT ![u] = NoCount]
    /\ UNCHANGED <<drafts, counts>>

\* The sequence for the reference fails or the caller is gone: roll back.
RollbackCount(u) ==
    /\ count[u].at # "none"
    /\ count' = [count EXCEPT ![u] = NoCount]
    /\ UNCHANGED <<quant, flow, drafts, counts>>

StockNext ==
    \/ create_move
    \/ \E d \in 1..MaxDrafts : validate_move(d) \/ cancel_move(d)
    \/ \E u \in Counters :
          \/ \E n \in 0..MaxQuantity : BeginCount(u, n)
          \/ ReadOnHand(u) \/ CommitCount(u) \/ RollbackCount(u)

StockSpec == StockInit /\ [][StockNext]_stockVars

-----------------------------------------------------------------------------
(* Properties *)

Through(a, b) == IF a = b THEN 0 ELSE flow[<<a, b>>]
In(l) == Through("supplier", l) + Through("internal", l) + Through("customer", l) + Through("inventory", l)
Out(l) == Through(l, "supplier") + Through(l, "internal") + Through(l, "customer") + Through(l, "inventory")
Balance(l) == IF l \in DOMAIN quant THEN quant[l] ELSE 0

\* "This keeps the double-entry invariant (every on-hand change is backed by
\* a validated move) owned in one place" (service.rs): whatever deliveries,
\* receipts, counts and drafts interleave, the balance of a location is what
\* its done moves brought in less what they took out.
OnHandIsTheMoves ==
    \A l \in Locations : Balance(l) = In(l) - Out(l)

\* A count leaves the location at what was counted, although other moves
\* post while it runs; only a location that had no row to lock can miss it.
CountLandsOnCounted ==
    [][\A u \in Counters :
          (count[u].at = "counting" /\ count[u].row /\ quant' # quant /\ count'[u].at = "none")
          => quant'["internal"] = count[u].counted]_stockVars

=============================================================================
