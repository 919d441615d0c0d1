-------------------------- MODULE PurchaseOrders --------------------------
(***************************************************************************)
(* Requests for quotation and purchase orders of vortex-purchase: one      *)
(* family with its revisions, receipts and vendor bills. As in             *)
(* SalesOrders a request is a sequence of autocommitted statements. Every  *)
(* order has at most one line, whose product is stocked.                   *)
(*                                                                         *)
(* arrived and bills count what came in and the bills there are; the sets  *)
(* below them only observe steps that used what was no longer so.          *)
(***************************************************************************)
EXTENDS StockLedger

CONSTANTS Buyers,        \* requests that can be under way at once
          Wanted,        \* the quantity on the line
          MaxRfqs,       \* bound: revisions of the family
          MaxBuys,       \* bound: requests of more than one statement
          MaxBuyFaults   \* bound: requests abandoned, statements lost

ASSUME PurchaseAssumption ==
    Wanted \in Quantities /\ MaxRfqs \in Nat \ {0} /\ MaxBuys \in Nat /\ MaxBuyFaults \in Nat

VARIABLES
    po,          \* purchase_order and its line, per revision
    buy,         \* the position of each request
    arrived,     \* quantity moved into stock, per revision
    bills,       \* vendor bills created, per revision
    twice,       \* pairs of a revision and what two requests did for it at once, or
                 \* what was not written or counted
    late,        \* revisions whose line was written after they stopped being an RFQ
    retired,     \* revisions that stopped being a live order
    buys, buyFaults   \* how much of the bounds has been used

purchaseVars == <<po, buy, arrived, bills, twice, late, retired, buys, buyFaults>>

Revisions == 1..MaxRfqs
Po == [state: {"rfq", "sent", "superseded", "confirmed", "received", "cancelled"},
       line: BOOLEAN, received: Nat, bill: BOOLEAN]
Buy == [at: {"idle", "add", "remove", "confirm", "others", "live", "clone", "cloneLine", "supersede",
             "lines", "post", "advance", "outstanding", "flip", "billLines", "bill", "link"},
        po: Revisions, qty: Nat, new: 0..MaxRfqs, sent: BOOLEAN]
NoBuy == [at |-> "idle", po |-> 1, qty |-> 0, new |-> 0, sent |-> FALSE]

PurchaseTypeOK ==
    /\ DOMAIN po \subseteq Revisions /\ \A r \in DOMAIN po : po[r] \in Po
    /\ DOMAIN buy = Buyers /\ \A u \in Buyers : buy[u] \in Buy
    /\ arrived \in [Revisions -> Nat] /\ bills \in [Revisions -> Nat]
    /\ twice \subseteq Revisions \X {"receive", "bill", "count"}
    /\ late \subseteq Revisions /\ retired \subseteq Revisions

PurchaseInit ==
    /\ \E s \in {"rfq", "confirmed"} :
          po = [r \in {1} |-> [state |-> s, line |-> TRUE, received |-> 0, bill |-> FALSE]]
    /\ buy = [u \in Buyers |-> NoBuy]
    /\ arrived = [r \in Revisions |-> 0] /\ bills = [r \in Revisions |-> 0]
    /\ twice = {} /\ late = {} /\ retired = {} /\ buys = 0 /\ buyFaults = 0

-----------------------------------------------------------------------------

\* uq_po_one_confirmed_per_rfq
LivePo(r) == po[r].state \notin {"rfq", "sent", "superseded", "cancelled"}
PoIndexAllows(r) == \A x \in DOMAIN po \ {r} : ~LivePo(x)

Begin(u, r, step) ==
    /\ buy[u].at = "idle"
    /\ buys < MaxBuys
    /\ buys' = buys + 1
    /\ buy' = [buy EXCEPT ![u] = [NoBuy EXCEPT !.at = step, !.po = r, !.sent = (po[r].state = "sent")]]
On(u, step) == buy[u].at = step
Next_(u, step) == buy' = [buy EXCEPT ![u] = IF step = "idle" THEN NoBuy ELSE [@ EXCEPT !.at = step]]
observed == <<twice, late, retired, buyFaults>>
Stock == <<quant, flow>>

Look(u, r) ==
    /\ \/ po[r].state = "rfq" /\ \E step \in {"add", "remove"} : Begin(u, r, step)
       \/ po[r].line /\ Begin(u, r, "confirm")
       \/ po[r].state \in {"sent", "cancelled"} /\ Begin(u, r, "live")
       \/ po[r].state = "confirmed" /\ Begin(u, r, "lines")
    /\ UNCHANGED <<po, arrived, bills, observed, Stock>>

\* add_line and delete_line write without looking again.
WriteLine(u) ==
    LET r == buy[u].po
    IN /\ buy[u].at \in {"add", "remove"}
       /\ po' = [po EXCEPT ![r].line = On(u, "add"), ![r].received = IF On(u, "add") THEN @ ELSE 0]
       /\ late' = late \cup (IF po[r].state = "rfq" THEN {} ELSE {r})
       /\ Next_(u, "idle")
       /\ UNCHANGED <<arrived, bills, twice, retired, buys, buyFaults, Stock>>

confirm_po(u) ==
    LET r == buy[u].po
    IN /\ On(u, "confirm")
       /\ IF po[r].state \in {"rfq", "sent"} /\ PoIndexAllows(r)
          THEN po' = [po EXCEPT ![r].state = "confirmed"] /\ Next_(u, "others")
          ELSE UNCHANGED po /\ Next_(u, "idle")
       /\ UNCHANGED <<arrived, bills, observed, buys, Stock>>

SupersedeOtherRfqs(u) ==
    /\ On(u, "others")
    /\ po' = [r \in DOMAIN po |-> IF r # buy[u].po /\ po[r].state \in {"rfq", "sent"}
                                  THEN [po[r] EXCEPT !.state = "superseded"] ELSE po[r]]
    /\ Next_(u, "idle")
    /\ UNCHANGED <<arrived, bills, observed, buys, Stock>>

mark_rfq_sent(r) ==
    /\ po[r].state = "rfq"
    /\ po' = [po EXCEPT ![r].state = "sent"]
    /\ UNCHANGED <<buy, arrived, bills, observed, buys, Stock>>

cancel_po(r) ==
    /\ po[r].state \in {"rfq", "sent", "confirmed"}
    /\ po' = [po EXCEPT ![r].state = "cancelled"]
    /\ retired' = retired \cup (IF LivePo(r) THEN {r} ELSE {})
    /\ UNCHANGED <<buy, arrived, bills, twice, late, buys, buyFaults, Stock>>

RefuseIfLivePo(u) ==
    /\ On(u, "live")
    /\ Next_(u, IF \E r \in DOMAIN po : LivePo(r) THEN "idle" ELSE "clone")
    /\ UNCHANGED <<po, arrived, bills, observed, buys, Stock>>

revise_rfq(u) ==
    LET new == Cardinality(DOMAIN po) + 1
    IN /\ On(u, "clone") /\ new <= MaxRfqs
       /\ po' = [r \in 1..new |-> IF r \in DOMAIN po THEN po[r]
                   ELSE [state |-> "rfq", line |-> FALSE, received |-> 0, bill |-> FALSE]]
       /\ buy' = [buy EXCEPT ![u].at = "cloneLine", ![u].new = new]
       /\ UNCHANGED <<arrived, bills, observed, buys, Stock>>

CloneLine(u) ==
    LET new == buy[u].new
    IN /\ On(u, "cloneLine")
       /\ po' = [po EXCEPT ![new].line = @ \/ po[buy[u].po].line]
       /\ late' = late \cup (IF po[new].state = "rfq" THEN {} ELSE {new})
       /\ Next_(u, IF buy[u].sent THEN "supersede" ELSE "idle")
       /\ UNCHANGED <<arrived, bills, twice, retired, buys, buyFaults, Stock>>

\* Whatever the source has become since it was read.
SupersedeRfq(u) ==
    LET r == buy[u].po
    IN /\ On(u, "supersede")
       /\ po' = [po EXCEPT ![r].state = "superseded"]
       /\ retired' = retired \cup (IF LivePo(r) THEN {r} ELSE {})
       /\ Next_(u, "idle")
       /\ UNCHANGED <<arrived, bills, twice, late, buys, buyFaults, Stock>>

-----------------------------------------------------------------------------
(* Receipts *)

Missing(r) == IF po[r].line THEN Wanted - po[r].received ELSE 0

ReadMissing(u) ==
    LET r == buy[u].po
    IN /\ On(u, "lines")
       /\ \E want \in 0..(Wanted + 1) :
             LET qty == IF Missing(r) <= 0 THEN 0 ELSE IF want > Missing(r) THEN Missing(r) ELSE want
             IN /\ buy' = [buy EXCEPT ![u] = IF qty = 0 THEN NoBuy
                                             ELSE [@ EXCEPT !.at = "post", !.qty = qty]]
                /\ twice' = twice \cup
                     (IF qty > 0 /\ \E v \in Buyers \ {u} : buy[v].po = r /\ buy[v].at \in {"post", "advance"}
                      THEN {<<r, "receive">>} ELSE {})
       /\ UNCHANGED <<po, arrived, bills, late, retired, buys, buyFaults, Stock>>

process_receipt(u) ==
    /\ On(u, "post")
    /\ PostDone(<<"supplier", "internal">>, buy[u].qty)
    /\ arrived' = [arrived EXCEPT ![buy[u].po] = @ + buy[u].qty]
    /\ Next_(u, "advance")
    /\ UNCHANGED <<po, bills, observed, buys>>

\* A slip: the received quantity is set, not added to.
AdvanceReceived_Set(u) ==
    LET r == buy[u].po
    IN /\ On(u, "advance")
       /\ po' = IF po[r].line THEN [po EXCEPT ![r].received = buy[u].qty] ELSE po
       /\ Next_(u, "outstanding")
       /\ UNCHANGED <<arrived, bills, observed, buys, Stock>>

AdvanceReceived(u) ==
    LET r == buy[u].po
    IN /\ On(u, "advance")
       /\ po' = IF po[r].line THEN [po EXCEPT ![r].received = @ + buy[u].qty] ELSE po
       /\ Next_(u, "outstanding")
       /\ UNCHANGED <<arrived, bills, observed, buys, Stock>>

CountMissing(u) ==
    /\ On(u, "outstanding")
    /\ Next_(u, IF Missing(buy[u].po) <= 0 THEN "flip" ELSE "idle")
    /\ UNCHANGED <<po, arrived, bills, observed, buys, Stock>>

\* A count that fails counts nothing: of live orders, or of open lines.
CountFails_(u) ==
    /\ buy[u].at \in {"live", "outstanding"}
    /\ buyFaults < MaxBuyFaults
    /\ buyFaults' = buyFaults + 1
    /\ twice' = twice \cup (IF On(u, "live") THEN {} ELSE {<<buy[u].po, "count">>})
    /\ Next_(u, IF On(u, "live") THEN "clone" ELSE "flip")
    /\ UNCHANGED <<po, arrived, bills, late, retired, buys, Stock>>

MarkReceived(u) ==
    LET r == buy[u].po
    IN /\ On(u, "flip")
       /\ po' = IF PoIndexAllows(r) THEN [po EXCEPT ![r].state = "received"] ELSE po
       /\ Next_(u, "idle")
       /\ UNCHANGED <<arrived, bills, observed, buys, Stock>>

-----------------------------------------------------------------------------
(* Vendor bills *)

\* State and bill are read; the bill is looked at nowhere else before it is
\* created.
BillCheck(u, r) ==
    /\ po[r].state \in {"confirmed", "received"}
    /\ ~po[r].bill
    /\ Begin(u, r, "billLines")
    /\ twice' = IF \E v \in Buyers \ {u} : buy[v].po = r /\ buy[v].at \in {"billLines", "bill", "link"}
                THEN twice \cup {<<r, "bill">>} ELSE twice
    /\ UNCHANGED <<po, arrived, bills, late, retired, buyFaults, Stock>>

ReadBillLines(u) ==
    /\ On(u, "billLines")
    /\ Next_(u, IF po[buy[u].po].line THEN "bill" ELSE "idle")
    /\ UNCHANGED <<po, arrived, bills, observed, buys, Stock>>

create_vendor_bill(u) ==
    /\ On(u, "bill")
    /\ bills' = [bills EXCEPT ![buy[u].po] = @ + 1]
    /\ Next_(u, "link")
    /\ UNCHANGED <<po, arrived, observed, buys, Stock>>

LinkBill(u) ==
    /\ On(u, "link")
    /\ po' = [po EXCEPT ![buy[u].po].bill = TRUE]
    /\ Next_(u, "idle")
    /\ UNCHANGED <<arrived, bills, observed, buys, Stock>>

\* The request ends early: an error, a client that disconnects, a crash. A
\* failing UPDATE of a quantity or of the link is ignored as well.
AbandonPurchase(u) ==
    LET r == buy[u].po
    IN /\ buy[u].at \in {"others", "cloneLine", "supersede", "advance", "outstanding", "flip", "link"}
       /\ buyFaults < MaxBuyFaults
       /\ buyFaults' = buyFaults + 1
       /\ twice' = twice \cup (IF On(u, "advance") THEN {<<r, "receive">>}
                               ELSE IF On(u, "link") THEN {<<r, "bill">>} ELSE {})
       /\ Next_(u, IF On(u, "advance") THEN "outstanding" ELSE "idle") \/ Next_(u, "idle")
       /\ UNCHANGED <<po, arrived, bills, late, retired, buys, Stock>>

PurchaseNext ==
    \/ \E r \in DOMAIN po :
          \/ mark_rfq_sent(r) \/ cancel_po(r)
          \/ \E u \in Buyers : Look(u, r) \/ BillCheck(u, r)
    \/ \E u \in Buyers :
          \/ WriteLine(u) \/ confirm_po(u) \/ SupersedeOtherRfqs(u)
          \/ RefuseIfLivePo(u) \/ revise_rfq(u) \/ CloneLine(u) \/ SupersedeRfq(u)
          \/ ReadMissing(u) \/ process_receipt(u) \/ AdvanceReceived(u) \/ CountMissing(u) \/ CountFails_(u)
          \/ MarkReceived(u)
          \/ ReadBillLines(u) \/ create_vendor_bill(u) \/ LinkBill(u)
          \/ AbandonPurchase(u)

\* The family by itself: what a receipt does to the stock ledger is left open.
PurchaseSpec == PurchaseInit /\ [][PurchaseNext]_purchaseVars

-----------------------------------------------------------------------------
(* Properties *)

\* "Idempotent: refuses when the PO is already billed": an order has two
\* vendor bills only when two requests looked at it before either linked
\* its bill, or one ended before it could.
BilledOnce == \A r \in Revisions : bills[r] > 1 => <<r, "bill">> \in twice

\* What came in is what the order records as received and no more than was
\* ordered, except after overlapping receipts, a lost quantity update or a
\* stale edit of the line; and a received order has nothing missing, unless
\* the count of open lines failed.
ReceiptsAreRecorded ==
    \A r \in DOMAIN po \ late :
        /\ <<r, "receive">> \notin twice =>
              /\ arrived[r] <= Wanted
              /\ (\A u \in Buyers : ~(On(u, "advance") /\ buy[u].po = r)) => arrived[r] = po[r].received
        /\ po[r].state = "received" => Missing(r) <= 0 \/ <<r, "count">> \in twice

\* Two revisions receive goods only if one of them was cancelled or was
\* overwritten as superseded.
OneRevisionReceives ==
    \A r, s \in DOMAIN po :
        (r # s /\ arrived[r] > 0 /\ arrived[s] > 0) => (r \in retired \/ s \in retired)

\* Billing, receiving and revising one family of requests for quotation.
PurchasesMatchReceipts == BilledOnce /\ ReceiptsAreRecorded /\ OneRevisionReceives

=============================================================================
