---------------------------- MODULE Settlement ----------------------------
(***************************************************************************)
(* Settling customer invoices in vortex-accounting: payments, advances,    *)
(* the rows of acc_partial_reconcile that match them, and the residual and *)
(* payment state that every request writes back; cancelling an invoice by  *)
(* a reversal, and resetting invoices and payments to draft.               *)
(*                                                                         *)
(* Every step commits on its own, and nothing but unpost_move looks again  *)
(* at what an earlier step has read. Invoices and payments are in company  *)
(* currency; vendors and credit notes are the mirror image.                *)
(***************************************************************************)
EXTENDS Integers, FiniteSets, Functions

CONSTANTS Cashiers,     \* requests that can be under way at once
          Invoices,     \* how many invoices there are
          Total,        \* what each invoice amounts to
          MaxPayments,  \* bound: payments
          MaxVisits,    \* bound: requests
          MaxMishaps    \* bound: requests that end early

ASSUME SettlementAssumption ==
    /\ Invoices \in Nat \ {0} /\ Total \in Nat \ {0}
    /\ MaxPayments \in Nat /\ MaxVisits \in Nat /\ MaxMishaps \in Nat

\* Invoices come first, payments are numbered as they are created.
Docs == 1..Invoices
Payments == (Invoices + 1)..(Invoices + MaxPayments)
Entries == Docs \cup Payments

VARIABLES
    entry,      \* acc_move, per entry: what the settlement reads and writes
    pairs,      \* acc_partial_reconcile: amount matched per invoice and payment
    credited,   \* the same against the reversal of a cancelled invoice
    desk,       \* the position of each request
    crossed,    \* entries changed while a request relied on what it had read, or
                \* matched as drafts by a page that is out of date
    behind,     \* entries whose refresh never came
    visits, mishaps   \* how much of the bounds has been used

settlementVars == <<entry, pairs, credited, desk, crossed, behind, visits, mishaps>>

Entry == [posted: BOOLEAN, total: Nat, pay: {"not_paid", "partial", "paid", "reversed"},
          residual: Nat, reconciled: BOOLEAN]
Posted(total) ==
    [posted |-> TRUE, total |-> total, pay |-> "not_paid", residual |-> total, reconciled |-> FALSE]
NoLegs == [e \in Entries |-> 0]
AtDesk == [at |-> "idle", on |-> 0, cash |-> 0, legs |-> NoLegs, todo |-> {}, open |-> 0]

SettlementTypeOK ==
    /\ Docs \subseteq DOMAIN entry /\ DOMAIN entry \subseteq Entries
    /\ \A e \in DOMAIN entry : entry[e] \in Entry
    /\ pairs \in [Docs \X Payments -> Nat] /\ credited \in [Docs -> Nat]
    /\ DOMAIN desk = Cashiers
    /\ \A u \in Cashiers :
          /\ desk[u].at \in {"idle", "legs", "cash", "match", "refresh", "write", "flag", "unpay",
                             "open", "reverse", "reversed", "against", "mark",
                             "unpost", "affected", "delete"}
          /\ desk[u].on \in Entries \cup {0} /\ desk[u].legs \in [Entries -> Nat] /\ desk[u].todo \subseteq Entries
    /\ crossed \subseteq Entries /\ behind \subseteq Entries

\* Posted invoices; or one of them paid in part already.
SettlementInit ==
    /\ \/ /\ entry = [d \in Docs |-> Posted(Total)]
          /\ pairs = [x \in Docs \X Payments |-> 0]
       \/ /\ MaxPayments > 0 /\ Total > 1
          /\ entry = [e \in 1..(Invoices + 1) |->
                        IF e = 1 THEN [Posted(Total) EXCEPT !.pay = "partial", !.residual = Total - 1]
                        ELSE IF e \in Docs THEN Posted(Total)
                        ELSE [Posted(1) EXCEPT !.pay = "paid", !.residual = 0, !.reconciled = TRUE]]
          /\ pairs = [x \in Docs \X Payments |-> IF x = <<1, Invoices + 1>> THEN 1 ELSE 0]
    /\ credited = [d \in Docs |-> 0]
    /\ desk = [u \in Cashiers |-> AtDesk]
    /\ crossed = {} /\ behind = {} /\ visits = 0 /\ mishaps = 0

-----------------------------------------------------------------------------

\* What has been matched on an entry, and open_counterpart_line's open amount.
Settled(e) ==
    IF e \in Docs THEN SumFunction([p \in Payments |-> pairs[<<e, p>>]]) + credited[e]
    ELSE SumFunction([d \in Docs |-> pairs[<<d, e>>]])
OpenAmount(e) == entry[e].total - Settled(e)

Visit(u, record) ==
    /\ desk[u].at = "idle"
    /\ visits < MaxVisits
    /\ visits' = visits + 1
    /\ desk' = [desk EXCEPT ![u] = record]
Stands(u, step) == desk[u].at = step
Proceed(u, step) == desk' = [desk EXCEPT ![u] = IF step = "idle" THEN AtDesk ELSE [@ EXCEPT !.at = step]]
tables == <<entry, pairs, credited>>
bounds == <<visits, mishaps>>

\* A request relies on what it has read of an entry.
Lowest(todo) == CHOOSE e \in todo : \A x \in todo : e <= x
Relies(v, e) ==
    \/ desk[v].legs[e] > 0
    \/ desk[v].at \in {"write", "flag"} /\ Lowest(desk[v].todo) = e
    \/ desk[v].on = e /\ desk[v].at \notin {"cash", "legs", "match"}
Crossing(u, touched) == crossed \cup {e \in touched : \E v \in Cashiers \ {u} : Relies(v, e)}

\* A refresh of e by another request is still to come.
Refreshing(u, e) == IF \E v \in Cashiers \ {u} : e \in desk[v].todo THEN {e} ELSE {}

-----------------------------------------------------------------------------
(* Payments *)

\* post_settlement: the form names amounts for invoices and for payments
\* with something left, and cash. register_payment: cash for one invoice.
post_settlement(u) ==
    \E want \in [Docs -> 0..(Total + 1)], advances \in SUBSET (DOMAIN entry \cap Payments), cash \in 0..Total :
        /\ cash > 0 \/ \E d \in Docs : want[d] > 0
        /\ Visit(u, [AtDesk EXCEPT !.at = "legs", !.cash = cash,
                       !.legs = [e \in Entries |-> IF e \in Docs THEN want[e]
                                                   ELSE IF e \in advances THEN Total + 1 ELSE 0]])
        /\ UNCHANGED <<tables, crossed, behind, mishaps>>

register_payment(u) ==
    \E d \in Docs, cash \in 1..Total :
        /\ entry[d].posted
        /\ Visit(u, [AtDesk EXCEPT !.at = "cash", !.on = d, !.cash = cash])
        /\ UNCHANGED <<tables, crossed, behind, mishaps>>

Clip(want, open) == IF open <= 0 THEN 0 ELSE IF want > open THEN open ELSE want

\* The open amount of each named entry is read, and the amounts clipped.
ReadLegs(u) ==
    LET legs == [e \in Entries |-> IF desk[u].legs[e] = 0 THEN 0
                                   ELSE Clip(desk[u].legs[e], OpenAmount(e))]
    IN /\ Stands(u, "legs")
       /\ desk' = [desk EXCEPT ![u] =
             IF legs = NoLegs /\ desk[u].cash = 0 THEN AtDesk
             ELSE [@ EXCEPT !.legs = legs, !.todo = {e \in Entries : legs[e] > 0},
                            !.at = IF desk[u].cash > 0 THEN "cash" ELSE "match"]]
       /\ UNCHANGED <<tables, crossed, behind, bounds>>

\* create_and_post of the payment. When posting is refused (period closed)
\* it stays as a draft and the request ends.
NewPayment(u) ==
    \E p \in Payments :
        /\ DOMAIN entry = 1..(p - 1)
        /\ Stands(u, "cash")
        /\ \/ /\ entry' = [e \in 1..p |-> IF e = p THEN Posted(desk[u].cash) ELSE entry[e]]
              /\ LET paid == [desk[u].legs EXCEPT ![p] = desk[u].cash]
                 IN desk' = [desk EXCEPT ![u] = IF desk[u].on = 0
                                                THEN [@ EXCEPT !.at = "match", !.legs = paid, !.todo = desk[u].todo \cup {p}]
                                                ELSE [@ EXCEPT !.at = "unpay", !.legs = paid, !.todo = {p}]]
           \/ /\ entry' = [e \in 1..p |-> IF e = p THEN [Posted(desk[u].cash) EXCEPT !.posted = FALSE, !.residual = 0]
                                          ELSE entry[e]]
              /\ Proceed(u, "idle")
        /\ UNCHANGED <<pairs, credited, crossed, behind, bounds>>

\* register_payment reads its invoice once the payment is there.
ReadInvoice(u) ==
    LET d == desk[u].on
    IN /\ Stands(u, "unpay")
       /\ desk' = [desk EXCEPT ![u] =
             IF OpenAmount(d) <= 0 THEN [@ EXCEPT !.at = "refresh", !.legs = NoLegs, !.on = 0]
             ELSE [@ EXCEPT !.at = "match", !.legs = [desk[u].legs EXCEPT ![d] = OpenAmount(d)],
                            !.todo = desk[u].todo \cup {d}, !.on = 0]]
       /\ UNCHANGED <<tables, crossed, behind, bounds>>

\* Greedy matching: the next invoice against the next payment. The lines of
\* an entry that has gone back to draft are still there.
MatchNext(u) ==
    LET legs == desk[u].legs
        debits == {d \in Docs : legs[d] > 0}
        credits == {p \in Payments : legs[p] > 0}
    IN /\ Stands(u, "match")
       /\ IF debits = {} \/ credits = {}
          THEN /\ desk' = [desk EXCEPT ![u] = [@ EXCEPT !.at = "refresh", !.legs = NoLegs]]
               /\ UNCHANGED <<pairs, crossed>>
          ELSE LET d == Lowest(debits)
                   p == Lowest(credits)
                   matched == IF legs[d] < legs[p] THEN legs[d] ELSE legs[p]
               IN /\ pairs' = [pairs EXCEPT ![<<d, p>>] = @ + matched]
                  /\ desk' = [desk EXCEPT ![u].legs = [legs EXCEPT ![d] = legs[d] - matched, ![p] = legs[p] - matched]]
                  /\ crossed' = Crossing(u, {d, p}) \cup {e \in {d, p} : ~entry[e].posted}
       /\ UNCHANGED <<entry, credited, behind, bounds>>

\* refresh_payment_state of each entry touched: read what is open, write
\* residual and state, flag the line when nothing is open.
ReadOpen(u) ==
    /\ Stands(u, "refresh")
    /\ desk' = [desk EXCEPT ![u] =
          IF desk[u].todo = {} THEN (IF desk[u].on = 0 THEN AtDesk ELSE [@ EXCEPT !.at = "unpost"])
          ELSE [@ EXCEPT !.at = "write", !.open = OpenAmount(Lowest(desk[u].todo))]]
    /\ UNCHANGED <<tables, crossed, behind, bounds>>

PayState(open, total) == IF open <= 0 THEN "paid" ELSE IF open < total THEN "partial" ELSE "not_paid"

refresh_payment_state(u) ==
    LET e == Lowest(desk[u].todo)
        open == desk[u].open
    IN /\ Stands(u, "write")
       /\ entry' = [entry EXCEPT ![e] = [@ EXCEPT !.residual = IF open < 0 THEN 0 ELSE open,
                                               !.pay = PayState(open, entry[e].total)]]
       /\ crossed' = Crossing(u, {e})
       /\ desk' = [desk EXCEPT ![u] = IF open <= 0 THEN [@ EXCEPT !.at = "flag"]
                                      ELSE [@ EXCEPT !.at = "refresh", !.todo = desk[u].todo \ {e}]]
       /\ UNCHANGED <<pairs, credited, behind, bounds>>

FlagReconciled(u) ==
    LET e == Lowest(desk[u].todo)
    IN /\ Stands(u, "flag")
       /\ entry' = [entry EXCEPT ![e].reconciled = TRUE]
       /\ desk' = [desk EXCEPT ![u] = [@ EXCEPT !.at = "refresh", !.todo = desk[u].todo \ {e}]]
       /\ UNCHANGED <<pairs, credited, crossed, behind, bounds>>

-----------------------------------------------------------------------------
(* Cancelling an invoice *)

cancel_document(u, d) ==
    /\ entry[d].posted /\ entry[d].pay = "not_paid"
    /\ Visit(u, [AtDesk EXCEPT !.at = "open", !.on = d])
    /\ UNCHANGED <<tables, crossed, behind, mishaps>>

ReadToCancel(u) ==
    /\ Stands(u, "open")
    /\ desk' = [desk EXCEPT ![u] = [@ EXCEPT !.at = "reverse", !.open = OpenAmount(desk[u].on)]]
    /\ UNCHANGED <<tables, crossed, behind, bounds>>

\* reverse_move posts the counter-entry, if the original is still posted,
\* and flags the original.
PostReversal(u) ==
    /\ Stands(u, "reverse")
    /\ Proceed(u, IF entry[desk[u].on].posted THEN "reversed" ELSE "idle")
    /\ UNCHANGED <<tables, crossed, behind, bounds>>

FlagReversed(u) ==
    LET d == desk[u].on
    IN /\ Stands(u, "reversed")
       /\ entry' = [entry EXCEPT ![d].pay = "reversed"]
       /\ crossed' = Crossing(u, {d})
       /\ Proceed(u, "against")
       /\ UNCHANGED <<pairs, credited, behind, bounds>>

\* A row needs an amount above zero (chk_acc_pr_amount).
MatchReversal(u) ==
    LET d == desk[u].on
    IN /\ Stands(u, "against")
       /\ IF desk[u].open > 0
          THEN credited' = [credited EXCEPT ![d] = @ + desk[u].open] /\ Proceed(u, "mark")
          ELSE UNCHANGED credited /\ Proceed(u, "idle")
       /\ crossed' = Crossing(u, {d})
       /\ UNCHANGED <<entry, pairs, behind, bounds>>

\* A slip: the residual is left as it is.
MarkReversed_ResidualLeft(u) ==
    /\ Stands(u, "mark")
    /\ entry' = [entry EXCEPT ![desk[u].on].pay = "reversed"]
    /\ crossed' = Crossing(u, {desk[u].on}) \cup Refreshing(u, desk[u].on)
    /\ Proceed(u, "idle")
    /\ UNCHANGED <<pairs, credited, behind, bounds>>

MarkReversed(u) ==
    /\ Stands(u, "mark")
    /\ entry' = [entry EXCEPT ![desk[u].on] = [@ EXCEPT !.pay = "reversed", !.residual = 0]]
    /\ crossed' = Crossing(u, {desk[u].on}) \cup Refreshing(u, desk[u].on)
    /\ Proceed(u, "idle")
    /\ UNCHANGED <<pairs, credited, behind, bounds>>

-----------------------------------------------------------------------------
(* Resetting to draft and posting again *)

\* The matches of an invoice are counted; unpost_move looks at the state.
reset_document(u, d) ==
    /\ entry[d].posted /\ entry[d].pay # "reversed" /\ Settled(d) = 0
    /\ Visit(u, [AtDesk EXCEPT !.at = "unpost", !.on = d])
    /\ UNCHANGED <<tables, crossed, behind, mishaps>>

Unpost(u) ==
    LET e == desk[u].on
    IN /\ Stands(u, "unpost")
       /\ entry' = IF entry[e].posted
                   THEN [entry EXCEPT ![e] = [@ EXCEPT !.posted = FALSE, !.pay = "not_paid", !.residual = 0]]
                   ELSE entry
       /\ crossed' = Crossing(u, {e})
       /\ Proceed(u, "idle")
       /\ UNCHANGED <<pairs, credited, behind, bounds>>

\* reset_payment_to_draft: find the invoices the payment settled, delete its
\* matches, clear the flags, refresh those invoices, unpost the payment.
reset_payment_to_draft(u, p) ==
    /\ entry[p].posted
    /\ Visit(u, [AtDesk EXCEPT !.at = "affected", !.on = p])
    /\ UNCHANGED <<tables, crossed, behind, mishaps>>

FindAffected(u) ==
    /\ Stands(u, "affected")
    /\ desk' = [desk EXCEPT ![u] = [@ EXCEPT !.at = "delete", !.todo = {d \in Docs : pairs[<<d, desk[u].on>>] > 0}]]
    /\ UNCHANGED <<tables, crossed, behind, bounds>>

DeletePairs(u) ==
    LET p == desk[u].on
    IN /\ Stands(u, "delete")
       /\ pairs' = [x \in Docs \X Payments |-> IF x[2] = p THEN 0 ELSE pairs[x]]
       /\ entry' = [e \in DOMAIN entry |-> IF e = p \/ e \in desk[u].todo
                                           THEN [entry[e] EXCEPT !.reconciled = FALSE] ELSE entry[e]]
       /\ crossed' = Crossing(u, {p} \cup {d \in Docs : pairs[<<d, p>>] > 0})
       /\ behind' = behind \cup {d \in Docs \ desk[u].todo : pairs[<<d, p>>] > 0}
       /\ Proceed(u, "refresh")
       /\ UNCHANGED <<credited, bounds>>

\* A draft is posted again. The lines of an invoice are replaced, which the
\* foreign key of acc_partial_reconcile refuses while they are matched.
repost(e) ==
    /\ ~entry[e].posted
    /\ e \in Docs => Settled(e) = 0
    /\ entry' = [entry EXCEPT ![e] = [@ EXCEPT !.posted = TRUE, !.residual = entry[e].total,
                                                      !.reconciled = e \in Payments /\ entry[e].reconciled]]
    /\ crossed' = crossed \cup {x \in {e} : \E v \in Cashiers : Relies(v, x)}
    /\ UNCHANGED <<pairs, credited, desk, behind, bounds>>

\* The request ends early: an error, a client that disconnects, a crash.
LeaveDesk(u) ==
    /\ desk[u].at \in {"match", "refresh", "write", "flag", "against", "mark", "unpost"}
    /\ mishaps < MaxMishaps
    /\ mishaps' = mishaps + 1
    /\ behind' = behind \cup desk[u].todo
                        \cup ({desk[u].on} \cap (IF desk[u].at \in {"against", "mark"} THEN Docs ELSE Payments))
    /\ Proceed(u, "idle")
    /\ UNCHANGED <<tables, crossed, visits>>

SettlementNext ==
    \/ \E u \in Cashiers :
          \/ post_settlement(u) \/ register_payment(u)
          \/ \E d \in Docs : cancel_document(u, d) \/ reset_document(u, d)
          \/ \E p \in DOMAIN entry \cap Payments : reset_payment_to_draft(u, p)
          \/ ReadLegs(u) \/ NewPayment(u) \/ ReadInvoice(u) \/ MatchNext(u)
          \/ ReadOpen(u) \/ refresh_payment_state(u) \/ FlagReconciled(u)
          \/ ReadToCancel(u) \/ PostReversal(u) \/ FlagReversed(u) \/ MatchReversal(u) \/ MarkReversed(u)
          \/ Unpost(u) \/ FindAffected(u) \/ DeletePairs(u)
          \/ LeaveDesk(u)
    \/ \E e \in DOMAIN entry : repost(e)

SettlementSpec == SettlementInit /\ [][SettlementNext]_settlementVars

-----------------------------------------------------------------------------
(* Properties *)

\* No invoice is settled beyond its total and no payment is spent twice,
\* unless two requests had both read what was open before either used it.
NeverOverSettled == \A e \in DOMAIN entry \ crossed : Settled(e) <= entry[e].total

\* No more is matched than there was, and once every request is done the books
\* say what the matches say: the residual is what is left and the state follows
\* from it; a cancelled invoice is taken out in full and stays cancelled
\* ("Terminal state: reversed, nothing outstanding"); a draft holds no matches. Excepted are
\* entries that two requests worked on at once, or whose request ended early.
BooksAgree ==
  /\ NeverOverSettled
  /\ (\A u \in Cashiers : Stands(u, "idle")) =>
        \A e \in DOMAIN entry \ (crossed \cup behind) :
            LET x == entry[e]
            IN IF ~x.posted THEN Settled(e) = 0
               ELSE IF e \in Docs /\ credited[e] > 0
                    THEN x.pay = "reversed" /\ x.residual = 0 /\ Settled(e) = x.total
                    ELSE /\ x.residual = OpenAmount(e)
                         /\ x.pay = PayState(x.residual, x.total)
                         /\ x.reconciled = (x.residual = 0)

=============================================================================
