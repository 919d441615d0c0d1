---------------------------- MODULE SalesOrders ----------------------------
(***************************************************************************)
(* Quotations and sales orders of vortex-sales: one quotation family with  *)
(* its revisions, their lines, delivery, service confirmation and          *)
(* invoicing. A request runs as a sequence of autocommitted statements;    *)
(* what it read in one of them is used in the later ones. Goods that are   *)
(* stocked leave through the stock ledger.                                 *)
(*                                                                         *)
(* shipped and billed count what really left and what invoices say;        *)
(* overlapped, edited and dropped only observe stale steps.                *)
(***************************************************************************)
EXTENDS StockLedger

CONSTANTS Salespeople,   \* requests that can be under way at once
          Ordered,       \* the quantity ordered on each line of the quotation
          MaxRevisions,  \* bound: revisions of the family
          MaxRequests,   \* bound: requests of more than one statement
          MaxFaults      \* bound: requests abandoned, statements lost

ASSUME SalesAssumption ==
    /\ DOMAIN Ordered \subseteq {"stockable", "consumable", "service"}
    /\ \A l \in DOMAIN Ordered : Ordered[l] \in Quantities
    /\ MaxRevisions \in Nat \ {0} /\ MaxRequests \in Nat /\ MaxFaults \in Nat

VARIABLES
    order,       \* sales_order and its lines, per revision
    req,         \* the position of each request
    shipped,     \* quantity moved or performed, per revision and line
    billed,      \* quantity on invoices, per revision and line
    overlapped,  \* lines served by requests of which one read before the other wrote,
                 \* or whose served quantity was not written or not counted
    edited,      \* revisions whose lines were written after they stopped being a quotation
    dropped,     \* revisions that stopped being a live sale
    asked, salesFaults   \* how much of the bounds has been used

salesVars == <<order, req, shipped, billed, overlapped, edited, dropped, asked, salesFaults>>

Lines == DOMAIN Ordered
NoneOf == [l \in Lines |-> 0]
States == {"quotation", "sent", "superseded", "lost", "expired", "confirmed", "delivered", "cancelled"}
Order == [state: States, lines: SUBSET Lines, notes: BOOLEAN,
          delivered: [Lines -> Nat], invoiced: [Lines -> Nat]]
Request == [at: {"idle", "replace", "insert", "add", "remove", "confirm", "others", "live", "clone", "cloneLines",
                 "supersede", "goods", "services", "serve", "advance", "outstanding", "flip",
                 "billable", "invoice", "invoiced"},
            order: 1..MaxRevisions, todo: [Lines -> Nat], line: Lines \cup {"-"},
            new: 0..MaxRevisions, lost: BOOLEAN]
Idle == [at |-> "idle", order |-> 1, todo |-> NoneOf, line |-> "-", new |-> 0, lost |-> FALSE]

SalesTypeOK ==
    /\ DOMAIN order \subseteq 1..MaxRevisions /\ \A r \in DOMAIN order : order[r] \in Order
    /\ DOMAIN req = Salespeople /\ \A u \in Salespeople : req[u] \in Request
    /\ DOMAIN shipped = 1..MaxRevisions /\ DOMAIN billed = 1..MaxRevisions
    /\ \A r \in 1..MaxRevisions : shipped[r] \in [Lines -> Nat] /\ billed[r] \in [Lines -> Nat]
    /\ overlapped \subseteq (1..MaxRevisions) \X Lines \X {"ship", "bill", "count"}
    /\ edited \subseteq 1..MaxRevisions /\ dropped \subseteq 1..MaxRevisions

\* A quotation as create_order leaves it, sent or confirmed since; or one
\* with a revision whose request ended before it superseded its source, or
\* the source's confirmation ended before it superseded the revision.
SalesInit ==
    /\ \E s \in {"quotation", "sent", "confirmed"}, notes \in BOOLEAN, n \in {1, MaxRevisions} :
          /\ n > 1 => s # "quotation" /\ ~notes
          /\ order = [r \in 1..n |-> [state |-> IF r = 1 THEN s ELSE "quotation", lines |-> Lines,
                                      notes |-> notes, delivered |-> NoneOf, invoiced |-> NoneOf]]
    /\ req = [u \in Salespeople |-> Idle]
    /\ shipped = [r \in 1..MaxRevisions |-> NoneOf]
    /\ billed = [r \in 1..MaxRevisions |-> NoneOf]
    /\ overlapped = {} /\ edited = {} /\ dropped = {} /\ asked = 0 /\ salesFaults = 0

-----------------------------------------------------------------------------

\* States outside the partial unique index uq_so_one_confirmed_per_quote.
Live(r) == order[r].state \notin {"quotation", "sent", "superseded", "lost", "expired", "cancelled"}
IndexAllows(r) == \A x \in DOMAIN order \ {r} : ~Live(x)

At(u, step) == req[u].at = step
Goto(u, step) == req' = [req EXCEPT ![u].at = step]
Done(u) == req' = [req EXCEPT ![u] = Idle]
Ask(u, r, step) ==
    /\ At(u, "idle")
    /\ asked < MaxRequests
    /\ asked' = asked + 1
    /\ req' = [req EXCEPT ![u] = [Idle EXCEPT !.at = step, !.order = r, !.lost = (order[r].state = "lost")]]
served == <<shipped, billed, overlapped>>
Effects == <<quant, flow>>

\* save_quote and delete_line: look at the state, write afterwards.
EditCheck(u, r) ==
    /\ order[r].state = "quotation"
    /\ \E step \in {"replace", "add", "remove"} : Ask(u, r, step)
    /\ UNCHANGED <<order, served, edited, dropped, salesFaults, Effects>>

NoteEdit(r) == edited' = edited \cup (IF order[r].state = "quotation" THEN {} ELSE {r})

WithoutLines(o, gone) ==
    [o EXCEPT !.lines = @ \ gone,
              !.delivered = [l \in Lines |-> IF l \in gone THEN 0 ELSE o.delivered[l]],
              !.invoiced = [l \in Lines |-> IF l \in gone THEN 0 ELSE o.invoiced[l]]]

\* save_quote deletes every line, then inserts those of the form one by one.
save_quote(u) ==
    LET r == req[u].order
    IN /\ At(u, "replace")
       /\ order' = [order EXCEPT ![r] = [WithoutLines(order[r], Lines) EXCEPT !.notes = FALSE]]
       /\ NoteEdit(r)
       /\ Goto(u, "insert")
       /\ UNCHANGED <<served, dropped, asked, salesFaults, Effects>>

\* A product line, or a section or note row.
InsertLine(u) ==
    LET r == req[u].order
    IN /\ At(u, "insert")
       /\ \/ \E l \in Lines \ order[r].lines : order' = [order EXCEPT ![r].lines = @ \cup {l}]
          \/ order' = [order EXCEPT ![r].notes = TRUE]
       /\ NoteEdit(r)
       /\ UNCHANGED <<req, served, dropped, asked, salesFaults, Effects>>

add_line(u) ==
    LET r == req[u].order
    IN /\ At(u, "add")
       /\ \E l \in Lines \ order[r].lines : order' = [order EXCEPT ![r].lines = @ \cup {l}]
       /\ NoteEdit(r)
       /\ Done(u)
       /\ UNCHANGED <<served, dropped, asked, salesFaults, Effects>>

delete_line(u) ==
    LET r == req[u].order
    IN /\ At(u, "remove")
       /\ \E l \in order[r].lines : order' = [order EXCEPT ![r] = WithoutLines(order[r], {l})]
       /\ NoteEdit(r)
       /\ Done(u)
       /\ UNCHANGED <<served, dropped, asked, salesFaults, Effects>>

\* Every line has been inserted, or there was none to add or remove.
EditEnds(u) ==
    /\ req[u].at \in {"insert", "add", "remove"}
    /\ Done(u)
    /\ UNCHANGED <<order, served, edited, dropped, asked, salesFaults, Effects>>

\* confirm_order counts the lines, then updates the state under the index,
\* then supersedes the other open revisions.
CountLines(u, r) ==
    /\ order[r].lines # {}
    /\ Ask(u, r, "confirm")
    /\ UNCHANGED <<order, served, edited, dropped, salesFaults, Effects>>

\* A slip: the family's unique index is missing.
confirm_order_NoIndex(u) ==
    LET r == req[u].order
    IN /\ At(u, "confirm")
       /\ IF order[r].state \in {"quotation", "sent"}
          THEN order' = [order EXCEPT ![r].state = "confirmed"] /\ Goto(u, "others")
          ELSE UNCHANGED order /\ Done(u)
       /\ UNCHANGED <<served, edited, dropped, asked, salesFaults, Effects>>

confirm_order(u) ==
    LET r == req[u].order
    IN /\ At(u, "confirm")
       /\ IF order[r].state \in {"quotation", "sent"} /\ IndexAllows(r)
          THEN order' = [order EXCEPT ![r].state = "confirmed"] /\ Goto(u, "others")
          ELSE UNCHANGED order /\ Done(u)
       /\ UNCHANGED <<served, edited, dropped, asked, salesFaults, Effects>>

SupersedeOthers(u) ==
    /\ At(u, "others")
    /\ order' = [r \in DOMAIN order |->
                   IF r # req[u].order /\ order[r].state \in {"quotation", "sent", "expired"}
                   THEN [order[r] EXCEPT !.state = "superseded"] ELSE order[r]]
    /\ Done(u)
    /\ UNCHANGED <<served, edited, dropped, asked, salesFaults, Effects>>

\* Handlers of a single guarded UPDATE, and the daily sweep.
Change(r, from, to) ==
    /\ order[r].state \in from
    /\ order' = [order EXCEPT ![r].state = to]
    /\ dropped' = dropped \cup (IF Live(r) THEN {r} ELSE {})
    /\ UNCHANGED <<req, served, edited, asked, salesFaults, Effects>>

mark_sent(r) == Change(r, {"quotation"}, "sent")
mark_lost(r) == Change(r, {"quotation", "sent", "expired"}, "lost")
expire_quotations(r) == Change(r, {"sent"}, "expired")
cancel_order(r) == Change(r, {"confirmed"}, "cancelled")

\* revise_quote: read the state, look for a live sale, clone the header,
\* clone the lines, supersede the source whatever it has become.
ReadSource(u, r) ==
    /\ order[r].state \in {"sent", "expired", "lost"}
    /\ Ask(u, r, "live")
    /\ UNCHANGED <<order, served, edited, dropped, salesFaults, Effects>>

RefuseIfLive(u) ==
    /\ At(u, "live")
    /\ IF \E r \in DOMAIN order : Live(r) THEN Done(u) ELSE Goto(u, "clone")
    /\ UNCHANGED <<order, served, edited, dropped, asked, salesFaults, Effects>>

revise_quote(u) ==
    LET new == Cardinality(DOMAIN order) + 1
    IN /\ At(u, "clone")
       /\ new <= MaxRevisions
       /\ order' = [r \in 1..new |->
                      IF r = new THEN [state |-> "quotation", lines |-> {}, notes |-> FALSE,
                                       delivered |-> NoneOf, invoiced |-> NoneOf]
                      ELSE order[r]]
       /\ req' = [req EXCEPT ![u].at = "cloneLines", ![u].new = new]
       /\ UNCHANGED <<served, edited, dropped, asked, salesFaults, Effects>>

\* One INSERT .. SELECT clones all lines. It leaves out display_type, so a
\* section or note row violates chk_sol_qty and nothing is cloned.
CloneLines(u) ==
    LET src == order[req[u].order]
    IN /\ At(u, "cloneLines")
       /\ order' = IF src.notes THEN order
                   ELSE [order EXCEPT ![req[u].new].lines = @ \cup src.lines]
       /\ NoteEdit(req[u].new)
       /\ IF req[u].lost THEN Done(u) ELSE Goto(u, "supersede")
       /\ UNCHANGED <<served, dropped, asked, salesFaults, Effects>>

SupersedeSource(u) ==
    LET r == req[u].order
    IN /\ At(u, "supersede")
       /\ order' = [order EXCEPT ![r].state = "superseded"]
       /\ dropped' = dropped \cup (IF Live(r) THEN {r} ELSE {})
       /\ Done(u)
       /\ UNCHANGED <<served, edited, asked, salesFaults, Effects>>

-----------------------------------------------------------------------------
(* Delivery of goods and confirmation of services *)

FulfilCheck(u, r) ==
    /\ order[r].state = "confirmed"
    /\ \E step \in {"goods", "services"} : Ask(u, r, step)
    /\ UNCHANGED <<order, served, edited, dropped, salesFaults, Effects>>

Remaining(r, l) == Ordered[l] - order[r].delivered[l]
OutstandingLines(r) == {l \in order[r].lines : Remaining(r, l) > 0}
OfStep(step) == IF step = "services" THEN {"service"} ELSE {"stockable", "consumable"}

\* What a form may ask for a line, and what is made of it.
FormQuantities(r, l) == 0..(Ordered[l] + 1)
Clamped(want, remaining) == IF want > remaining THEN remaining ELSE want

Pending(v, r, l) == req[v].order = r /\ req[v].at \in {"serve", "advance"} /\ (req[v].todo[l] > 0)

\* The outstanding lines are read, and the form's quantities clamped to them.
ReadOutstanding(u) ==
    LET r == req[u].order
        open == OutstandingLines(r) \cap OfStep(req[u].at)
    IN /\ req[u].at \in {"goods", "services"}
       /\ \E want \in [Lines -> 0..(MaxQuantity + 1)] :
             /\ \A l \in Lines : want[l] \in (IF l \in open THEN FormQuantities(r, l) ELSE {0})
             /\ LET todo == [l \in Lines |-> IF l \in open THEN Clamped(want[l], Remaining(r, l)) ELSE 0]
                IN /\ req' = [req EXCEPT ![u] = IF todo = NoneOf THEN Idle
                                               ELSE [@ EXCEPT !.at = "serve", !.todo = todo]]
                   /\ overlapped' = overlapped \cup
                         {<<r, l, "ship">> : l \in {x \in Lines : todo[x] > 0
                                                      /\ \E v \in Salespeople \ {u} : Pending(v, r, x)}}
       /\ UNCHANGED <<order, shipped, billed, edited, dropped, asked, salesFaults, Effects>>

\* The next line: stock leaves in a transaction of its own; anything else
\* is only counted.
ServeLine(u, l) ==
    LET r == req[u].order
        qty == req[u].todo[l]
    IN /\ At(u, "serve") /\ qty > 0
       /\ IF l = "stockable" THEN PostDone(<<"internal", "customer">>, qty) ELSE UNCHANGED Effects
       /\ shipped' = [shipped EXCEPT ![r][l] = @ + qty]
       /\ req' = [req EXCEPT ![u].at = "advance", ![u].line = l]
       /\ UNCHANGED <<order, billed, overlapped, edited, dropped, asked, salesFaults>>

Served(u) ==
    LET rest == [req[u].todo EXCEPT ![req[u].line] = 0]
    IN req' = [req EXCEPT ![u].todo = rest, ![u].line = "-",
                          ![u].at = IF rest = NoneOf THEN "outstanding" ELSE "serve"]

\* qty_delivered = qty_delivered + qty, if the line is still there.
AdvanceDelivered(u) ==
    LET r == req[u].order
        l == req[u].line
    IN /\ At(u, "advance")
       /\ order' = IF l \in order[r].lines
                   THEN [order EXCEPT ![r].delivered[l] = @ + req[u].todo[l]] ELSE order
       /\ Served(u)
       /\ UNCHANGED <<served, edited, dropped, asked, salesFaults, Effects>>

\* The error of that UPDATE is ignored.
AdvanceLost(u) ==
    /\ At(u, "advance")
    /\ salesFaults < MaxFaults
    /\ salesFaults' = salesFaults + 1
    /\ overlapped' = overlapped \cup {<<req[u].order, req[u].line, "ship">>}
    /\ Served(u)
    /\ UNCHANGED <<order, shipped, billed, edited, dropped, asked, Effects>>

CountOutstanding(u) ==
    /\ At(u, "outstanding")
    /\ IF OutstandingLines(req[u].order) = {} THEN Goto(u, "flip") ELSE Done(u)
    /\ UNCHANGED <<order, served, edited, dropped, asked, salesFaults, Effects>>

\* A count that fails counts nothing: of live sales, or of open lines.
CountFails(u) ==
    /\ req[u].at \in {"live", "outstanding"}
    /\ salesFaults < MaxFaults
    /\ salesFaults' = salesFaults + 1
    /\ overlapped' = overlapped \cup (IF At(u, "live") THEN {}
                                     ELSE {<<req[u].order, l, "count">> : l \in Lines})
    /\ Goto(u, IF At(u, "live") THEN "clone" ELSE "flip")
    /\ UNCHANGED <<order, shipped, billed, edited, dropped, asked, Effects>>

\* Whatever the order has become; the index still applies.
MarkDelivered(u) ==
    LET r == req[u].order
    IN /\ At(u, "flip")
       /\ order' = IF IndexAllows(r) THEN [order EXCEPT ![r].state = "delivered"] ELSE order
       /\ Done(u)
       /\ UNCHANGED <<served, edited, dropped, asked, salesFaults, Effects>>

-----------------------------------------------------------------------------
(* Invoicing *)

InvoiceCheck(u, r) ==
    /\ order[r].state \in {"confirmed", "delivered"}
    /\ Ask(u, r, "billable")
    /\ UNCHANGED <<order, served, edited, dropped, salesFaults, Effects>>

Billing(v, r, l) == req[v].order = r /\ req[v].at \in {"invoice", "invoiced"} /\ req[v].todo[l] > 0

\* A slip: what was ordered is billed.
Billable_Ordered(r, l) == IF l \in order[r].lines THEN Ordered[l] - order[r].invoiced[l] ELSE 0

Billable(r, l) ==
    IF order[r].delivered[l] > order[r].invoiced[l]
    THEN order[r].delivered[l] - order[r].invoiced[l] ELSE 0

ReadBillable(u) ==
    LET r == req[u].order
        todo == [l \in Lines |-> Billable(r, l)]
    IN /\ At(u, "billable")
       /\ req' = [req EXCEPT ![u] = IF todo = NoneOf THEN Idle
                                    ELSE [@ EXCEPT !.at = "invoice", !.todo = todo]]
       /\ overlapped' = overlapped \cup
             {<<r, l, "bill">> : l \in {x \in Lines : todo[x] > 0
                                          /\ \E v \in Salespeople \ {u} : Billing(v, r, x)}}
       /\ UNCHANGED <<order, shipped, billed, edited, dropped, asked, salesFaults, Effects>>

\* documents::create_invoice, one transaction.
create_customer_invoice(u) ==
    LET r == req[u].order
    IN /\ At(u, "invoice")
       /\ billed' = [billed EXCEPT ![r] = [l \in Lines |-> @[l] + req[u].todo[l]]]
       /\ Goto(u, "invoiced")
       /\ UNCHANGED <<order, shipped, overlapped, edited, dropped, asked, salesFaults, Effects>>

AdvanceInvoiced(u, l) ==
    LET r == req[u].order
        rest == [req[u].todo EXCEPT ![l] = 0]
    IN /\ At(u, "invoiced") /\ req[u].todo[l] > 0
       /\ order' = IF l \in order[r].lines
                   THEN [order EXCEPT ![r].invoiced[l] = @ + req[u].todo[l]] ELSE order
       /\ req' = [req EXCEPT ![u] = IF rest = NoneOf THEN Idle ELSE [@ EXCEPT !.todo = rest]]
       /\ UNCHANGED <<served, edited, dropped, asked, salesFaults, Effects>>

\* The request ends early: an error, a client that disconnects, a crash.
AbandonSale(u) ==
    LET r == req[u].order
    IN /\ req[u].at \in {"others", "cloneLines", "supersede",
                         "serve", "advance", "outstanding", "flip", "invoiced"}
       /\ salesFaults < MaxFaults
       /\ salesFaults' = salesFaults + 1
       /\ overlapped' = overlapped
             \cup (IF At(u, "advance") THEN {<<r, req[u].line, "ship">>} ELSE {})
             \cup {<<r, l, "bill">> : l \in {x \in Lines : At(u, "invoiced") /\ req[u].todo[x] > 0}}
       /\ Done(u)
       /\ UNCHANGED <<order, shipped, billed, edited, dropped, asked, Effects>>

SalesStep(u) ==
    \/ save_quote(u) \/ InsertLine(u) \/ add_line(u) \/ delete_line(u) \/ EditEnds(u)
    \/ confirm_order(u) \/ SupersedeOthers(u)
    \/ RefuseIfLive(u) \/ revise_quote(u) \/ CloneLines(u) \/ SupersedeSource(u)
    \/ ReadOutstanding(u) \/ AdvanceDelivered(u) \/ AdvanceLost(u) \/ CountOutstanding(u) \/ CountFails(u)
    \/ MarkDelivered(u)
    \/ ReadBillable(u) \/ create_customer_invoice(u)
    \/ \E l \in Lines : ServeLine(u, l) \/ AdvanceInvoiced(u, l)
    \/ AbandonSale(u)

SalesNext ==
    \/ \E r \in DOMAIN order :
          \/ mark_sent(r) \/ mark_lost(r) \/ expire_quotations(r) \/ cancel_order(r)
          \/ \E u \in Salespeople :
                EditCheck(u, r) \/ CountLines(u, r) \/ ReadSource(u, r)
                \/ FulfilCheck(u, r) \/ InvoiceCheck(u, r)
    \/ \E u \in Salespeople : SalesStep(u)

\* The family by itself: what a delivery does to the stock ledger is left open.
SalesSpec == SalesInit /\ [][SalesNext]_salesVars

-----------------------------------------------------------------------------
(* Properties *)

\* A line ships more than was ordered only when two deliveries of it
\* overlapped, a quantity update was lost, or the lines of the order were
\* rewritten by an edit that had looked at the state before the order was
\* confirmed. (The code's own guard is the clamp in process_delivery.)
ShipsWhatWasOrdered ==
    \A r \in DOMAIN order, l \in Lines :
        shipped[r][l] > Ordered[l] => (r \in edited \/ <<r, l, "ship">> \in overlapped)

\* "THE invariant: at most one live sale per quotation family" (migration
\* 004), for what leaves the house: two revisions both ship only if one of
\* them was cancelled, or overwritten as superseded by a revision that had
\* looked before it was confirmed.
OneRevisionShips ==
    \A r, s \in DOMAIN order :
        (r # s /\ shipped[r] # NoneOf /\ shipped[s] # NoneOf) => (r \in dropped \/ s \in dropped)

\* A delivered order has every line, goods and services, fulfilled, unless
\* the count of open lines failed; and when all requests are done an order
\* fulfilled without a fault is flagged so.
DeliveredMeansFulfilled ==
    \A r \in DOMAIN order \ edited :
        /\ order[r].state = "delivered" => \A l \in OutstandingLines(r) : <<r, l, "count">> \in overlapped
        /\ ~ (order[r].state = "confirmed" /\ OutstandingLines(r) = {} /\ order[r].lines # {}
                 /\ salesFaults = 0 /\ \A u \in Salespeople : At(u, "idle"))

\* "Bill what has been delivered but not yet invoiced": an order is billed
\* beyond its deliveries only by two invoices that read it together, by one
\* that stopped before it recorded what it billed, or by a stale edit.
BillsFollowDeliveries ==
    \A r \in DOMAIN order, l \in Lines :
        billed[r][l] > order[r].delivered[l] => (r \in edited \/ <<r, l, "bill">> \in overlapped)

\* What leaves the house is what one live order asked for.
ShipmentsMatchOrders == ShipsWhatWasOrdered /\ OneRevisionShips /\ DeliveredMeansFulfilled

=============================================================================
