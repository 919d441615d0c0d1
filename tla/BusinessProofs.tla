--------------------------- MODULE BusinessProofs ---------------------------
(***************************************************************************)
(* Proofs about trade and the books it is entered in: a stock count lands  *)
(* on what was counted and what is on hand is what the moves say           *)
(* (StockLedger); receipts, bills and revisions of a request for quotation *)
(* agree (PurchaseOrders); deliveries and invoices follow the one live     *)
(* order of a family of quotations (SalesOrders); a closed year is covered *)
(* by its closing entries and a posted invoice has its ledger lines once   *)
(* (Postings); what is posted for a record of the period runs is what the  *)
(* record says (PeriodEntries). All of them for any number of users,       *)
(* orders, entries, records and quantities.                                *)
(***************************************************************************)
EXTENDS StockLedger, PurchaseOrders, SalesOrders, Postings, PeriodEntries, FiniteSetTheorems, TLAPS

-----------------------------------------------------------------------------
(***************************************************************************)
(* A stock count lands on what was counted, for any number of users,       *)
(* drafts and quantities. The invariant says what the row lock is worth:   *)
(* while a count that found a row is under way, the balance it has read is *)
(* the balance there is, because whoever would change it waits.            *)
(***************************************************************************)

CountTypes ==
    /\ \A l \in DOMAIN quant : quant[l] \in Int
    /\ \A d \in DOMAIN drafts : drafts[d] \in Draft
    /\ count \in [Counters -> Count]

\* The balance read under the lock is still the balance.
ReadIsCurrent ==
    \A u \in Counters : count[u].at = "counting" /\ count[u].row =>
        count[u].locked /\ "internal" \in DOMAIN quant /\ quant["internal"] = count[u].current

CountInv == CountTypes /\ ReadIsCurrent

\* adjust_quant changes one balance, or creates it.
LEMMA AdjustMeans ==
    ASSUME NEW q, NEW l, NEW delta \in Int, \A x \in DOMAIN q : q[x] \in Int
    PROVE  /\ DOMAIN adjust_quant(q, l, delta) = DOMAIN q \cup {l}
           /\ \A x \in DOMAIN adjust_quant(q, l, delta) : adjust_quant(q, l, delta)[x] \in Int
           /\ \A x \in DOMAIN q \ {l} : adjust_quant(q, l, delta)[x] = q[x]
           /\ l \in DOMAIN q => adjust_quant(q, l, delta)[l] = q[l] + delta
BY DEF adjust_quant

\* A move changes its source and its destination and nothing else.
LEMMA MovedMeans ==
    ASSUME NEW q, NEW route \in Routes, NEW qty \in Int, \A x \in DOMAIN q : q[x] \in Int
    PROVE  LET m == Moved(q, route, qty)
           IN /\ \A x \in DOMAIN m : m[x] \in Int
              /\ DOMAIN q \subseteq DOMAIN m
              /\ \A x \in DOMAIN q : x # route[1] /\ x # route[2] => m[x] = q[x]
              /\ route[1] \in DOMAIN q => m[route[1]] = q[route[1]] - qty
              /\ route[2] \in DOMAIN q => m[route[2]] = q[route[2]] + qty
<1> DEFINE taken == -qty
           from == route[1]
           to == route[2]
           a == adjust_quant(q, from, taken)
           b == adjust_quant(a, to, qty)
<1>0. taken \in Int
  OBVIOUS
<1> HIDE DEF taken, from, to, b
<1>1. /\ DOMAIN a = DOMAIN q \cup {from}
      /\ \A x \in DOMAIN a : a[x] \in Int
      /\ \A x \in DOMAIN q \ {from} : a[x] = q[x]
      /\ from \in DOMAIN q => a[from] = q[from] + taken
  BY <1>0 DEF adjust_quant
<1> HIDE DEF a
<1> USE DEF b
<1>2. /\ DOMAIN b = DOMAIN a \cup {to}
      /\ \A x \in DOMAIN b : b[x] \in Int
      /\ \A x \in DOMAIN a \ {to} : b[x] = a[x]
      /\ to \in DOMAIN a => b[to] = a[to] + qty
  BY <1>1 DEF adjust_quant
<1> HIDE DEF b
<1>3. Moved(q, route, qty) = b
  BY DEF Moved, a, b, from, to, taken
<1>4. route[1] # route[2]
  BY DEF Routes
<1> USE DEF from, to, taken
<1>5. route[1] \in DOMAIN q => b[route[1]] = q[route[1]] - qty
  BY <1>1, <1>2, <1>4
<1>6. route[2] \in DOMAIN q => b[route[2]] = q[route[2]] + qty
  BY <1>1, <1>2, <1>4
<1>7. \A x \in DOMAIN q : x # route[1] /\ x # route[2] => b[x] = q[x]
  BY <1>1, <1>2
<1> QED
  BY <1>1, <1>2, <1>3, <1>5, <1>6, <1>7

LEMMA NoCountTypes == NoCount \in Count
BY StockAssumption DEF NoCount, Count

LEMMA LedgerReadInit == StockInit => CountInv
<1> SUFFICES ASSUME StockInit PROVE CountInv
  OBVIOUS
<1>1. CountTypes
  BY NoCountTypes DEF StockInit, CountTypes
<1>2. ReadIsCurrent
  BY DEF StockInit, ReadIsCurrent, NoCount
<1> QED
  BY <1>1, <1>2 DEF CountInv

\* The route and the quantity of the move that ends a count.
Delta(u) == count[u].counted - count[u].current
RouteOf(u) == IF Delta(u) > 0 THEN <<"inventory", "internal">> ELSE <<"internal", "inventory">>
QtyOf(u) == IF Delta(u) > 0 THEN Delta(u) ELSE -Delta(u)

LEMMA CommitMeans ==
    ASSUME CountInv, NEW u \in Counters, CommitCount(u)
    PROVE  /\ \A l \in DOMAIN quant' : quant'[l] \in Int
           /\ count' = [count EXCEPT ![u] = NoCount]
           /\ \A v \in Counters \ {u} : ~(count[v].at = "counting" /\ count[v].locked)
           /\ count[u].row => "internal" \in DOMAIN quant' /\ quant'["internal"] = count[u].counted
<1> USE DEF CountInv, CountTypes
<1>1. count[u].counted \in Int /\ count[u].current \in Int /\ Delta(u) \in Int /\ QtyOf(u) \in Int
  <2>1. MaxQuantity \in Nat
    BY StockAssumption
  <2> QED
    BY <2>1 DEF Count, Delta, QtyOf
<1>2. RouteOf(u) \in Routes
  BY DEF RouteOf, Routes, Locations
<1>3. quant' = Moved(quant, RouteOf(u), QtyOf(u))
  BY DEF CommitCount, RouteOf, QtyOf, Delta
<1>4. /\ \A l \in DOMAIN quant' : quant'[l] \in Int
      /\ DOMAIN quant \subseteq DOMAIN quant'
      /\ RouteOf(u)[1] \in DOMAIN quant => quant'[RouteOf(u)[1]] = quant[RouteOf(u)[1]] - QtyOf(u)
      /\ RouteOf(u)[2] \in DOMAIN quant => quant'[RouteOf(u)[2]] = quant[RouteOf(u)[2]] + QtyOf(u)
  BY <1>1, <1>2, <1>3, MovedMeans
<1>5. ASSUME count[u].row
      PROVE  "internal" \in DOMAIN quant' /\ quant'["internal"] = count[u].counted
  <2>1. "internal" \in DOMAIN quant /\ quant["internal"] = count[u].current
    BY <1>5 DEF ReadIsCurrent, CommitCount
  <2>2. CASE Delta(u) > 0
    BY <1>1, <1>4, <2>1, <2>2 DEF RouteOf, QtyOf, Delta
  <2>3. CASE ~(Delta(u) > 0)
    BY <1>1, <1>4, <2>1, <2>3 DEF RouteOf, QtyOf, Delta
  <2> QED
    BY <2>2, <2>3
<1> QED
  BY <1>4, <1>5 DEF CommitCount

LEMMA LedgerReadStep == CountInv /\ [StockNext]_stockVars => CountInv'
<1> SUFFICES ASSUME CountInv, [StockNext]_stockVars PROVE CountInv'
  OBVIOUS
<1> USE DEF CountInv, CountTypes
<1>1. CASE create_move
  <2>1. \A d \in DOMAIN drafts' : drafts'[d] \in Draft
    BY <1>1 DEF create_move, Draft
  <2> QED
    BY <1>1, <2>1 DEF create_move, ReadIsCurrent
<1>2. ASSUME NEW d \in 1..MaxDrafts, validate_move(d) PROVE CountInv'
  <2> DEFINE route == drafts[d].route
             qty == drafts[d].qty
  <2>1. drafts[d] \in Draft /\ route \in Routes /\ qty \in Int /\ \A x \in DOMAIN drafts' : drafts'[x] \in Draft
    BY <1>2, StockAssumption DEF validate_move, Draft, Quantities
  <2>2. quant' = Moved(quant, route, qty) /\ ~RowLocked(route[1]) /\ ~RowLocked(route[2]) /\ count' = count
    BY <1>2 DEF validate_move, PostDone
  <2> HIDE DEF route, qty
  <2>3. /\ \A x \in DOMAIN quant' : quant'[x] \in Int
        /\ DOMAIN quant \subseteq DOMAIN quant'
        /\ \A x \in DOMAIN quant : x # route[1] /\ x # route[2] => quant'[x] = quant[x]
    BY <2>1, <2>2, MovedMeans
  <2>4. ReadIsCurrent'
    BY <2>2, <2>3 DEF ReadIsCurrent, RowLocked
  <2> QED
    BY <2>1, <2>2, <2>3, <2>4
<1>3. ASSUME NEW d \in 1..MaxDrafts, cancel_move(d) PROVE CountInv'
  <2>1. \A x \in DOMAIN drafts' : drafts'[x] \in Draft
    BY <1>3 DEF cancel_move, Draft
  <2> QED
    BY <1>3, <2>1 DEF cancel_move, ReadIsCurrent
<1>4. ASSUME NEW u \in Counters, NEW n \in 0..MaxQuantity, BeginCount(u, n) PROVE CountInv'
  <2>1. [NoCount EXCEPT !.at = "read", !.counted = n] \in Count
    BY NoCountTypes DEF Count
  <2>2. count' \in [Counters -> Count]
    BY <1>4, <2>1 DEF BeginCount
  <2> QED
    BY <1>4, <2>2 DEF BeginCount, NoCount, ReadIsCurrent
<1>5. ASSUME NEW u \in Counters, ReadOnHand(u) PROVE CountInv'
  <2> DEFINE found == "internal" \in DOMAIN quant
             current == IF found THEN quant["internal"] ELSE 0
  <2>1. current \in Int /\ NoCount \in Count /\ count[u] \in Count /\ found \in BOOLEAN
    BY NoCountTypes
  <2>2. /\ count' = [count EXCEPT ![u] = IF current = count[u].counted THEN NoCount
                 ELSE [count[u] EXCEPT !.at = "counting", !.current = current, !.locked = found, !.row = found]]
        /\ quant' = quant /\ drafts' = drafts
    BY <1>5 DEF ReadOnHand
  <2> HIDE DEF current
  <2>3. [count[u] EXCEPT !.at = "counting", !.current = current, !.locked = found, !.row = found] \in Count
    <3> HIDE DEF found
    <3> QED
      BY <2>1 DEF Count
  <2>4. count' \in [Counters -> Count]
    BY <2>1, <2>2, <2>3
  <2>5. ReadIsCurrent'
    BY <2>1, <2>2 DEF ReadIsCurrent, NoCount, Count, current
  <2> QED
    BY <2>2, <2>4, <2>5
<1>6. ASSUME NEW u \in Counters, CommitCount(u) PROVE CountInv'
  <2>1. NoCount \in Count
    BY NoCountTypes
  <2>2. ReadIsCurrent'
    BY <1>6, CommitMeans DEF ReadIsCurrent, NoCount
  <2> QED
    BY <1>6, <2>1, <2>2, CommitMeans DEF CommitCount
<1>7. ASSUME NEW u \in Counters, RollbackCount(u) PROVE CountInv'
  <2>1. NoCount \in Count
    BY NoCountTypes
  <2> QED
    BY <1>7, <2>1 DEF RollbackCount, NoCount, ReadIsCurrent
<1>8. CASE UNCHANGED stockVars
  BY <1>8 DEF stockVars, ReadIsCurrent
<1> QED
  BY <1>1, <1>2, <1>3, <1>4, <1>5, <1>6, <1>7, <1>8 DEF StockNext

\* apply_adjustment: however many moves, drafts and other counts post while
\* it runs, a count that locked its row leaves the location at what was
\* counted.
THEOREM CountsLand == StockSpec => CountLandsOnCounted
<1> DEFINE Lands == \A u \in Counters :
          (count[u].at = "counting" /\ count[u].row /\ quant' # quant /\ count'[u].at = "none")
          => quant'["internal"] = count[u].counted
<1>1. CountInv /\ [StockNext]_stockVars => [Lands]_stockVars
  <2> SUFFICES ASSUME CountInv, StockNext, NEW u \in Counters,
                      count[u].at = "counting", count[u].row, quant' # quant, count'[u].at = "none"
               PROVE  quant'["internal"] = count[u].counted
    OBVIOUS
  <2>1. \E v \in Counters : CommitCount(v)
    BY DEF StockNext, create_move, validate_move, cancel_move, BeginCount, ReadOnHand, RollbackCount
  <2>2. PICK v \in Counters : CommitCount(v)
    BY <2>1
  <2>3. v = u
    BY <2>2, CommitMeans DEF CountInv, ReadIsCurrent
  <2> QED
    BY <2>2, <2>3, CommitMeans
<1> QED
  BY LedgerReadInit, LedgerReadStep, <1>1, PTL DEF StockSpec, CountLandsOnCounted

-----------------------------------------------------------------------------
(* What is on hand is what the moves brought in less what they took out.   *)

LedgerTypes ==
    /\ \A l \in DOMAIN quant : quant[l] \in Int
    /\ flow \in [Routes -> Nat]

LedgerInv == CountInv /\ flow \in [Routes -> Nat] /\ OnHandIsTheMoves

\* The balance of each location before and after a move.
LEMMA MovedBalances ==
    ASSUME LedgerTypes, NEW route \in Routes, NEW qty \in Nat, quant' = Moved(quant, route, qty)
    PROVE  /\ \A l : Balance(l)' = Balance(l) + (IF l = route[2] THEN qty ELSE 0) - (IF l = route[1] THEN qty ELSE 0)
           /\ \A l : Balance(l) \in Int
           /\ \A l \in DOMAIN quant' : quant'[l] \in Int
<1> PICK from, to, q, mid : from = route[1] /\ to = route[2] /\ q = quant /\ mid = adjust_quant(q, from, -qty)
  OBVIOUS
<1>1. from # to /\ from \in Locations /\ to \in Locations /\ -qty \in Int /\ qty \in Int
  BY DEF Routes
<1>2. /\ DOMAIN mid = DOMAIN q \cup {from}
      /\ \A x \in DOMAIN mid : mid[x] = IF x \in DOMAIN q THEN q[x] + (IF x = from THEN -qty ELSE 0) ELSE -qty
  BY DEF adjust_quant
<1>3. \A x \in DOMAIN q : q[x] \in Int
  BY DEF LedgerTypes
<1>4. quant' = adjust_quant(mid, to, qty)
  BY DEF Moved
<1>5. /\ DOMAIN quant' = DOMAIN mid \cup {to}
      /\ \A x \in DOMAIN quant' : quant'[x] = IF x \in DOMAIN mid THEN mid[x] + (IF x = to THEN qty ELSE 0) ELSE qty
  BY <1>4 DEF adjust_quant
<1>6. \A l : Balance(l) = (IF l \in DOMAIN q THEN q[l] ELSE 0) /\ Balance(l) \in Int
  BY <1>3 DEF Balance
<1>7. \A l : Balance(l)' = (IF l \in DOMAIN quant' THEN quant'[l] ELSE 0)
  BY DEF Balance
<1>8. \A x \in DOMAIN quant' : quant'[x] \in Int
  BY <1>1, <1>2, <1>3, <1>5
<1>9. \A l : Balance(l)' = Balance(l) + (IF l = route[2] THEN qty ELSE 0) - (IF l = route[1] THEN qty ELSE 0)
  BY <1>1, <1>2, <1>3, <1>5, <1>6, <1>7
<1> QED
  BY <1>6, <1>8, <1>9

\* And what has gone through each pair of locations.
LEMMA MovedFlow ==
    ASSUME flow \in [Routes -> Nat], NEW route \in Routes, NEW qty \in Nat,
           flow' = [flow EXCEPT ![route] = @ + qty]
    PROVE  /\ flow' \in [Routes -> Nat]
           /\ \A a, b \in Locations : Through(a, b) \in Nat
           /\ \A a, b \in Locations :
                  Through(a, b)' = Through(a, b) + (IF a = route[1] /\ b = route[2] THEN qty ELSE 0)
<1>1. /\ flow' \in [Routes -> Nat] /\ flow'[route] = flow[route] + qty
      /\ \A r \in Routes \ {route} : flow'[r] = flow[r]
  OBVIOUS
<1>2. \A a, b \in Locations : a # b => <<a, b>> \in Routes
  BY DEF Routes
<1>3. route[1] # route[2] /\ route = <<route[1], route[2]>> /\ route[1] \in Locations /\ route[2] \in Locations
  BY DEF Routes
<1>4. \A a, b \in Locations : Through(a, b) \in Nat
  BY <1>2 DEF Through
<1>5. ASSUME NEW a \in Locations, NEW b \in Locations
      PROVE  Through(a, b)' = Through(a, b) + (IF a = route[1] /\ b = route[2] THEN qty ELSE 0)
  <2>1. CASE a = b
    BY <1>3, <2>1 DEF Through
  <2>2. CASE a # b /\ <<a, b>> = route
    <3>1. a = route[1] /\ b = route[2] /\ flow'[<<a, b>>] = flow[<<a, b>>] + qty
      BY <1>1, <2>2
    <3> QED
      BY <2>2, <3>1 DEF Through
  <2>3. CASE a # b /\ <<a, b>> # route
    <3>1. flow'[<<a, b>>] = flow[<<a, b>>] /\ flow[<<a, b>>] \in Nat /\ ~(a = route[1] /\ b = route[2])
      BY <1>1, <1>2, <1>3, <2>3
    <3> QED
      BY <2>3, <3>1 DEF Through
  <2> QED
    BY <2>1, <2>2, <2>3
<1> QED
  BY <1>1, <1>4, <1>5

\* Goods that leave one location arrive in another.
LEMMA MovesKeepBalances ==
    ASSUME LedgerTypes, OnHandIsTheMoves, NEW route \in Routes, NEW qty \in Nat,
           quant' = Moved(quant, route, qty), flow' = [flow EXCEPT ![route] = @ + qty]
    PROVE  LedgerTypes' /\ OnHandIsTheMoves'
<1>1. /\ LedgerTypes'
      /\ \A a, b \in Locations : Through(a, b) \in Nat
      /\ \A a, b \in Locations :
             Through(a, b)' = Through(a, b) + (IF a = route[1] /\ b = route[2] THEN qty ELSE 0)
  BY MovedBalances, MovedFlow DEF LedgerTypes
<1>2. /\ \A l : Balance(l)' = Balance(l) + (IF l = route[2] THEN qty ELSE 0) - (IF l = route[1] THEN qty ELSE 0)
      /\ \A l : Balance(l) \in Int
  BY MovedBalances
<1>3. route[1] # route[2] /\ route[1] \in Locations /\ route[2] \in Locations
  BY DEF Routes
<1>4. ASSUME NEW l \in Locations
      PROVE  /\ In(l)' = In(l) + (IF l = route[2] THEN qty ELSE 0) /\ In(l) \in Nat
             /\ Out(l)' = Out(l) + (IF l = route[1] THEN qty ELSE 0) /\ Out(l) \in Nat
  <2>1. /\ "supplier" \in Locations /\ "internal" \in Locations /\ "customer" \in Locations /\ "inventory" \in Locations
        /\ \A x : x \in Locations => x = "supplier" \/ x = "internal" \/ x = "customer" \/ x = "inventory"
    BY DEF Locations
  <2>2. In(l)' = In(l) + (IF l = route[2] THEN qty ELSE 0) /\ In(l) \in Nat
    BY <1>1, <1>3, <2>1 DEF In
  <2>3. Out(l)' = Out(l) + (IF l = route[1] THEN qty ELSE 0) /\ Out(l) \in Nat
    BY <1>1, <1>3, <2>1 DEF Out
  <2> QED
    BY <2>2, <2>3
<1>5. ASSUME NEW l \in Locations PROVE Balance(l)' = In(l)' - Out(l)'
  <2>1. Balance(l) = In(l) - Out(l)
    BY DEF OnHandIsTheMoves
  <2> QED
    BY <1>2, <1>4, <2>1
<1> QED
  BY <1>1, <1>5 DEF OnHandIsTheMoves

LEMMA LedgerInit == StockInit => LedgerInv
<1> SUFFICES ASSUME StockInit PROVE LedgerInv
  OBVIOUS
<1>1. \A a, b \in Locations : Through(a, b) = 0
  BY DEF StockInit, Through, Routes
<1>2. \A l \in Locations : In(l) = 0 /\ Out(l) = 0 /\ Balance(l) = 0
  BY <1>1 DEF In, Out, Balance, StockInit, Locations
<1>3. OnHandIsTheMoves
  BY <1>2 DEF OnHandIsTheMoves
<1> QED
  BY <1>3, LedgerReadInit DEF StockInit, LedgerInv

LEMMA LedgerStep ==
    ASSUME LedgerInv, [StockNext]_stockVars
    PROVE  LedgerInv'
<1>1. LedgerTypes /\ OnHandIsTheMoves /\ CountInv /\ CountInv'
  BY LedgerReadStep DEF LedgerInv, LedgerTypes, CountInv, CountTypes
<1>2. ASSUME UNCHANGED <<quant, flow>> PROVE flow' \in [Routes -> Nat] /\ OnHandIsTheMoves'
  BY <1>1, <1>2 DEF LedgerTypes, OnHandIsTheMoves, Balance, In, Out, Through
<1>3. ASSUME NEW d \in 1..MaxDrafts, validate_move(d) PROVE flow' \in [Routes -> Nat] /\ OnHandIsTheMoves'
  <2>1. drafts[d].route \in Routes /\ drafts[d].qty \in Nat
    BY <1>1, <1>3, StockAssumption DEF validate_move, CountInv, CountTypes, Draft, Quantities
  <2>2. quant' = Moved(quant, drafts[d].route, drafts[d].qty) /\ flow' = [flow EXCEPT ![drafts[d].route] = @ + drafts[d].qty]
    BY <1>3 DEF validate_move, PostDone
  <2> QED
    BY <1>1, <2>1, <2>2, MovesKeepBalances DEF LedgerTypes
<1>4. ASSUME NEW u \in Counters, CommitCount(u) PROVE flow' \in [Routes -> Nat] /\ OnHandIsTheMoves'
  <2>1. RouteOf(u) \in Routes
    BY DEF RouteOf, Routes, Locations
  <2>2. QtyOf(u) \in Nat
    BY <1>1, StockAssumption DEF CountInv, CountTypes, Count, QtyOf, Delta
  <2>3. quant' = Moved(quant, RouteOf(u), QtyOf(u)) /\ flow' = [flow EXCEPT ![RouteOf(u)] = @ + QtyOf(u)]
    BY <1>4 DEF CommitCount, RouteOf, QtyOf, Delta
  <2> QED
    BY <1>1, <2>1, <2>2, <2>3, MovesKeepBalances DEF LedgerTypes
<1>5. \/ UNCHANGED <<quant, flow>>
      \/ \E d \in 1..MaxDrafts : validate_move(d)
      \/ \E u \in Counters : CommitCount(u)
  BY DEF StockNext, create_move, cancel_move, BeginCount, ReadOnHand, RollbackCount, stockVars
<1>6. flow' \in [Routes -> Nat] /\ OnHandIsTheMoves'
  BY <1>2, <1>3, <1>4, <1>5
<1> QED
  BY <1>1, <1>6 DEF LedgerInv

\* adjust_quant and post_move: every change of a balance is backed by a move
\* that is done, whatever counts and drafts interleave.
THEOREM OnHandIsBacked == StockSpec => []OnHandIsTheMoves
<1>1. LedgerInv => OnHandIsTheMoves
  BY DEF LedgerInv
<1> QED
  BY <1>1, LedgerInit, LedgerStep, PTL DEF StockSpec

-----------------------------------------------------------------------------
(* The types *)

\* Rows of a location there is, moves between two, drafts within the bound.
StockNotes ==
    /\ DOMAIN quant \subseteq Locations
    /\ flow \in [Routes -> Nat]
    /\ DOMAIN drafts \subseteq 1..MaxDrafts

\* A move adds rows of its own two locations only.
LEMMA MovedRows ==
    ASSUME NEW q, NEW route \in Routes, NEW n, DOMAIN q \subseteq Locations
    PROVE  DOMAIN Moved(q, route, n) \subseteq Locations
<1>1. route[1] \in Locations /\ route[2] \in Locations
  BY DEF Routes
<1>2. \A f, l, d : DOMAIN adjust_quant(f, l, d) = DOMAIN f \cup {l}
  BY DEF adjust_quant
<1>3. PICK a : a = adjust_quant(q, route[1], -n)
  OBVIOUS
<1>4. Moved(q, route, n) = adjust_quant(a, route[2], n)
  BY <1>3 DEF Moved
<1>5. DOMAIN a = DOMAIN q \cup {route[1]} /\ DOMAIN Moved(q, route, n) = DOMAIN a \cup {route[2]}
  BY <1>2, <1>3, <1>4
<1> QED
  BY <1>1, <1>5

\* Every step of a stock user keeps the rows and the totals in their types.
LEMMA StockNotesKept ==
    ASSUME CountTypes, StockNotes, [StockNext]_stockVars
    PROVE  StockNotes'
<1> USE DEF StockNotes
<1>1. CASE create_move
  BY <1>1 DEF create_move
<1>2. ASSUME NEW d \in 1..MaxDrafts, validate_move(d) PROVE StockNotes'
  <2>1. drafts[d].route \in Routes /\ drafts[d].qty \in Nat
    BY <1>2, StockAssumption DEF validate_move, CountTypes, Draft, Quantities
  <2>2. /\ quant' = Moved(quant, drafts[d].route, drafts[d].qty)
        /\ flow' = [flow EXCEPT ![drafts[d].route] = @ + drafts[d].qty]
        /\ DOMAIN drafts' = DOMAIN drafts
    BY <1>2 DEF validate_move, PostDone
  <2> QED
    BY <2>1, <2>2, MovedRows, MovedFlow
<1>3. ASSUME NEW d \in 1..MaxDrafts, cancel_move(d) PROVE StockNotes'
  BY <1>3 DEF cancel_move
<1>4. ASSUME NEW u \in Counters, (\E n \in 0..MaxQuantity : BeginCount(u, n)) \/ ReadOnHand(u) \/ RollbackCount(u)
      PROVE  StockNotes'
  BY <1>4 DEF BeginCount, ReadOnHand, RollbackCount
<1>5. ASSUME NEW u \in Counters, CommitCount(u) PROVE StockNotes'
  <2>1. RouteOf(u) \in Routes
    BY DEF RouteOf, Routes, Locations
  <2>2. QtyOf(u) \in Nat
    BY StockAssumption DEF CountTypes, Count, QtyOf, Delta
  <2>3. quant' = Moved(quant, RouteOf(u), QtyOf(u)) /\ flow' = [flow EXCEPT ![RouteOf(u)] = @ + QtyOf(u)]
    BY <1>5 DEF CommitCount, RouteOf, QtyOf, Delta
  <2>4. drafts' = drafts
    BY <1>5 DEF CommitCount
  <2> QED
    BY <2>1, <2>2, <2>3, <2>4, MovedRows, MovedFlow
<1>6. CASE UNCHANGED stockVars
  BY <1>6 DEF stockVars
<1> QED
  BY <1>1, <1>2, <1>3, <1>4, <1>5, <1>6 DEF StockNext

\* The types as StockTypeOK states them.
LEMMA StockTypesMean == CountTypes /\ StockNotes => StockTypeOK
BY DEF CountTypes, StockNotes, StockTypeOK

-----------------------------------------------------------------------------
(***************************************************************************)
(* Proof that bills, receipts and revisions of a family of requests for    *)
(* quotation agree whatever the requests do (PurchaseOrders).              *)
(***************************************************************************)

BillSteps == {"billLines", "bill", "link"}
ReceiptSteps == {"lines", "post", "advance", "outstanding", "flip"}
MovingSteps == {"post", "advance", "flip"}

\* Request u is at one of the steps, for revision r.
Buying(u, r, steps) == buy[u].po = r /\ buy[u].at \in steps

PurchaseTypes ==
    /\ \E n \in Revisions : DOMAIN po = 1..n
    /\ DOMAIN po \subseteq Revisions /\ 1 \in DOMAIN po
    /\ po \in [DOMAIN po -> Po]
    /\ buy \in [Buyers -> Buy]
    /\ \A u \in Buyers : /\ buy[u].po \in DOMAIN po
                         /\ buy[u].at = "cloneLine" => buy[u].new \in DOMAIN po
    /\ arrived \in [Revisions -> Nat] /\ bills \in [Revisions -> Nat]
    /\ retired \subseteq DOMAIN po

\* Goods arrive for an order that is, or was, the live one of its family.
Begun(r) == LivePo(r) \/ r \in retired
LiveInv ==
    /\ \A r, s \in DOMAIN po : LivePo(r) /\ LivePo(s) => r = s
    /\ \A r \in Revisions : arrived[r] > 0 => r \in DOMAIN po /\ Begun(r)
    /\ \A r \in DOMAIN po : po[r].received > 0 => Begun(r)
    /\ \A u \in Buyers : buy[u].at \in ReceiptSteps => Begun(buy[u].po)
    /\ \A r \in retired : po[r].state # "rfq"

\* One request bills an order, and the bill is the one it links.
BillsInv ==
    /\ \A r \in Revisions \ DOMAIN po : bills[r] = 0
    /\ \A r \in DOMAIN po : <<r, "bill">> \notin twice =>
          /\ \A u, v \in Buyers : Buying(u, r, BillSteps) /\ Buying(v, r, BillSteps) => u = v
          /\ \A u \in Buyers : Buying(u, r, BillSteps) => ~po[r].bill
          /\ bills[r] = (IF po[r].bill \/ \E u \in Buyers : Buying(u, r, {"link"}) THEN 1 ELSE 0)

\* One request receives a line, what it has moved in is still to be recorded,
\* and fits.
Received(r) ==
    /\ \A u, v \in Buyers : Buying(u, r, {"post", "advance"}) /\ Buying(v, r, {"post", "advance"}) => u = v
    /\ \A u \in Buyers : Buying(u, r, {"post", "advance"}) => po[r].line /\ buy[u].qty + po[r].received <= Wanted
    /\ \A u \in Buyers : Buying(u, r, {"advance"}) => arrived[r] = po[r].received + buy[u].qty
    /\ (\A u \in Buyers : ~Buying(u, r, {"advance"})) => arrived[r] = po[r].received
    /\ po[r].received <= Wanted
BuyingComplete(r) == Missing(r) <= 0 \/ <<r, "count">> \in twice
InOrder(r) ==
    /\ <<r, "receive">> \notin twice => Received(r)
    /\ \A u \in Buyers : Buying(u, r, {"flip"}) => BuyingComplete(r)
    /\ po[r].state = "received" => BuyingComplete(r)
ReceiptInv == \A r \in DOMAIN po \ late : InOrder(r)

PurchaseInv == PurchaseTypes /\ LiveInv /\ BillsInv /\ ReceiptInv

-----------------------------------------------------------------------------
(* Positions *)

OtherBuyers(u) == \A w \in Buyers \ {u} : buy'[w] = buy[w]
Off(steps) == \A w \in Buyers : buy[w].at \in steps \/ buy'[w].at \in steps => buy'[w] = buy[w]

LEMMA BuyMoves ==
    ASSUME PurchaseTypes, NEW u \in Buyers, NEW v \in Buy, buy' = [buy EXCEPT ![u] = v]
    PROVE  buy' \in [Buyers -> Buy] /\ buy'[u] = v /\ OtherBuyers(u)
BY DEF PurchaseTypes, OtherBuyers

LEMMA FirstRevision == PurchaseTypes => 1 \in DOMAIN po /\ NoBuy \in Buy /\ 1 \in Revisions /\ DOMAIN po \subseteq Revisions
BY PurchaseAssumption DEF PurchaseTypes, Revisions, NoBuy, Buy

\* A request takes its next step, or ends.
LEMMA Stepped ==
    ASSUME PurchaseTypes, NEW u \in Buyers, NEW step,
           step \in {"idle", "clone", "others", "supersede", "advance", "outstanding", "flip", "bill", "link"},
           Next_(u, step)
    PROVE  /\ buy' \in [Buyers -> Buy] /\ OtherBuyers(u) /\ buy'[u].at = step
           /\ buy'[u].po \in DOMAIN po
           /\ step # "idle" => buy'[u].po = buy[u].po /\ buy'[u].qty = buy[u].qty
<1>1. PICK v : v = (IF step = "idle" THEN NoBuy ELSE [buy[u] EXCEPT !.at = step])
  OBVIOUS
<1>2. buy[u] \in Buy /\ buy[u].po \in DOMAIN po
  BY DEF PurchaseTypes
<1>3. v \in Buy
  BY <1>1, <1>2, FirstRevision DEF Buy
<1>4. v.at = step /\ v.po \in DOMAIN po /\ (step # "idle" => v.po = buy[u].po /\ v.qty = buy[u].qty)
  BY <1>1, <1>2, FirstRevision DEF Buy, NoBuy
<1>5. buy' = [buy EXCEPT ![u] = v]
  BY <1>1, <1>2 DEF Next_, PurchaseTypes
<1> QED
  BY <1>3, <1>4, <1>5, BuyMoves

LEMMA Begun_ ==
    ASSUME PurchaseTypes, NEW u \in Buyers, NEW r \in DOMAIN po,
           NEW step, step \in {"add", "remove", "confirm", "live", "lines", "billLines"},
           Begin(u, r, step)
    PROVE  /\ buy' \in [Buyers -> Buy] /\ OtherBuyers(u) /\ buy'[u].at = step /\ buy'[u].po = r /\ buy[u].at = "idle"
<1>1. PICK v : v = [NoBuy EXCEPT !.at = step, !.po = r, !.sent = (po[r].state = "sent")]
  OBVIOUS
<1>2. r \in Revisions
  BY FirstRevision
<1>3. v \in Buy
  BY <1>1, <1>2, FirstRevision DEF Buy
<1>4. v.at = step /\ v.po = r
  BY <1>1 DEF NoBuy
<1>5. buy' = [buy EXCEPT ![u] = v] /\ buy[u].at = "idle"
  BY <1>1 DEF Begin
<1> QED
  BY <1>3, <1>4, <1>5, BuyMoves

\* The types follow from those of the variables that change.
LEMMA PurchaseTypesKept ==
    ASSUME PurchaseTypes, DOMAIN po' = DOMAIN po, po' \in [DOMAIN po -> Po], NEW u \in Buyers,
           buy' \in [Buyers -> Buy], OtherBuyers(u), buy'[u].po \in DOMAIN po,
           buy'[u].at # "cloneLine",
           arrived' \in [Revisions -> Nat], bills' \in [Revisions -> Nat], retired' \subseteq DOMAIN po
    PROVE  PurchaseTypes'
BY DEF PurchaseTypes, OtherBuyers, Revisions

-----------------------------------------------------------------------------
(* What a step of one kind leaves to the others *)

LEMMA BillFrame ==
    ASSUME PurchaseTypes, PurchaseTypes', BillsInv, bills' = bills, twice \subseteq twice',
           DOMAIN po \subseteq DOMAIN po',
           \A r \in DOMAIN po : po'[r].bill = po[r].bill,
           \A r \in DOMAIN po' \ DOMAIN po : ~po'[r].bill,
           Off(BillSteps)
    PROVE  BillsInv'
<1>1. DOMAIN po \subseteq Revisions /\ DOMAIN po' \subseteq Revisions
  BY FirstRevision DEF PurchaseTypes
<1>2. \A r : \A u \in Buyers : /\ Buying(u, r, BillSteps)' <=> Buying(u, r, BillSteps)
                               /\ Buying(u, r, {"link"})' <=> Buying(u, r, {"link"})
                               /\ Buying(u, r, {"link"}) => Buying(u, r, BillSteps)
  BY DEF Off, Buying, BillSteps
<1>3. ASSUME NEW r \in DOMAIN po' \ DOMAIN po, NEW u \in Buyers PROVE ~Buying(u, r, BillSteps)' /\ ~Buying(u, r, {"link"})'
  <2>1. buy[u].po \in DOMAIN po
    BY DEF PurchaseTypes
  <2>2. ~Buying(u, r, BillSteps)
    BY <1>3, <2>1 DEF Buying
  <2> QED
    BY <1>2, <2>2
<1>4. ASSUME NEW r \in DOMAIN po', <<r, "bill">> \notin twice'
      PROVE  /\ \A u, v \in Buyers : Buying(u, r, BillSteps)' /\ Buying(v, r, BillSteps)' => u = v
             /\ \A u \in Buyers : Buying(u, r, BillSteps)' => ~po'[r].bill
             /\ bills'[r] = (IF po'[r].bill \/ \E u \in Buyers : Buying(u, r, {"link"})' THEN 1 ELSE 0)
  <2>1. CASE r \in DOMAIN po
    <3>1. /\ \A u, v \in Buyers : Buying(u, r, BillSteps) /\ Buying(v, r, BillSteps) => u = v
          /\ \A u \in Buyers : Buying(u, r, BillSteps) => ~po[r].bill
          /\ bills[r] = (IF po[r].bill \/ \E u \in Buyers : Buying(u, r, {"link"}) THEN 1 ELSE 0)
      BY <1>4, <2>1 DEF BillsInv
    <3> QED
      BY <1>2, <2>1, <3>1
  <2>2. CASE r \notin DOMAIN po
    <3>1. bills[r] = 0
      BY <1>1, <2>2 DEF BillsInv
    <3> QED
      BY <1>3, <2>2, <3>1
  <2> QED
    BY <2>1, <2>2
<1>5. \A r \in Revisions \ DOMAIN po' : bills'[r] = 0
  BY DEF BillsInv
<1> QED
  BY <1>4, <1>5 DEF BillsInv

LEMMA LiveFrame ==
    ASSUME PurchaseTypes, PurchaseTypes', LiveInv, arrived' = arrived,
           DOMAIN po \subseteq DOMAIN po',
           \A r \in DOMAIN po : (po'[r].received > 0 => po[r].received > 0) /\ (Begun(r) => Begun(r)'),
           \A r \in DOMAIN po' \ DOMAIN po : po'[r].received = 0,
           \A r \in retired' : po'[r].state # "rfq",
           \A r, s \in DOMAIN po' : LivePo(r)' /\ LivePo(s)' => r = s,
           \A w \in Buyers : buy'[w].at \in ReceiptSteps => Begun(buy[w].po)'
    PROVE  LiveInv'
BY DEF LiveInv

LEMMA ReceiptFrame ==
    ASSUME PurchaseTypes, PurchaseTypes', LiveInv, ReceiptInv, arrived' = arrived,
           twice \subseteq twice', late \subseteq late',
           DOMAIN po \subseteq DOMAIN po',
           \A r \in DOMAIN po \ late' :
              /\ po'[r].received = po[r].received
              /\ po'[r].line = po[r].line \/ po[r].state = "rfq"
              /\ po'[r].state = "received" => po[r].state = "received",
           \A r \in DOMAIN po' \ DOMAIN po : po'[r].received = 0 /\ ~po'[r].line /\ po'[r].state = "rfq",
           Off(MovingSteps)
    PROVE  ReceiptInv'
<1>1. DOMAIN po \subseteq Revisions /\ DOMAIN po' \subseteq Revisions /\ Wanted \in Nat
  BY SMTT(60), FirstRevision, PurchaseAssumption, StockAssumption DEF PurchaseTypes, Quantities
<1>2. \A r : \A u \in Buyers : /\ Buying(u, r, MovingSteps)' <=> Buying(u, r, MovingSteps)
                               /\ Buying(u, r, {"post", "advance"})' <=> Buying(u, r, {"post", "advance"})
                               /\ Buying(u, r, {"advance"})' <=> Buying(u, r, {"advance"})
                               /\ Buying(u, r, {"flip"})' <=> Buying(u, r, {"flip"})
  BY DEF Off, Buying, MovingSteps
<1>3. \A u \in Buyers : buy'[u].at \in MovingSteps => buy'[u] = buy[u]
  BY DEF Off
<1>5. ASSUME NEW r \in DOMAIN po' \ late', r \notin DOMAIN po
      PROVE  Received(r)' /\ (\A u \in Buyers : ~Buying(u, r, {"flip"})') /\ po'[r].state # "received"
  <2>1. \A u \in Buyers : ~Buying(u, r, MovingSteps)'
    BY <1>3, <1>5 DEF Buying, PurchaseTypes
  <2>2. arrived[r] \in Nat /\ ~(arrived[r] > 0)
    BY <1>1, <1>5 DEF LiveInv, PurchaseTypes
  <2> QED
    BY <1>1, <1>5, <2>1, <2>2 DEF Received, Buying, MovingSteps
<1>6. ASSUME NEW r \in DOMAIN po \ late', po[r].state = "rfq"
      PROVE  (\A u \in Buyers : ~Buying(u, r, MovingSteps)) /\ arrived[r] = 0 /\ po[r].received = 0
  <2>1. ~Begun(r)
    BY <1>6 DEF LiveInv, LivePo, Begun
  <2>2. arrived[r] \in Nat /\ po[r].received \in Nat
    BY <1>1 DEF PurchaseTypes, Po
  <2> QED
    BY <1>1, <2>1, <2>2 DEF LiveInv, Buying, MovingSteps, ReceiptSteps
<1>7. ASSUME NEW r \in DOMAIN po \ late'
      PROVE  /\ <<r, "receive">> \notin twice' => Received(r)'
             /\ \A u \in Buyers : Buying(u, r, {"flip"})' => BuyingComplete(r)'
             /\ po'[r].state = "received" => BuyingComplete(r)'
  <2>1. /\ <<r, "receive">> \notin twice => Received(r)
        /\ \A u \in Buyers : Buying(u, r, {"flip"}) => BuyingComplete(r)
        /\ po[r].state = "received" => BuyingComplete(r)
    BY <1>7 DEF ReceiptInv, InOrder
  <2>2. CASE po[r].state = "rfq"
    <3>1. \A u \in Buyers : ~Buying(u, r, MovingSteps)'
      BY <1>2, <1>6, <2>2
    <3> QED
      BY <1>1, <1>6, <2>2, <3>1 DEF Received, Buying, MovingSteps
  <2>3. CASE po'[r].line = po[r].line
    <3>1. \A u \in Buyers : buy'[u].at \in MovingSteps => buy'[u].qty = buy[u].qty
      BY <1>3
    <3>2. <<r, "receive">> \notin twice' => Received(r)'
      <4> SUFFICES ASSUME <<r, "receive">> \notin twice' PROVE Received(r)'
        OBVIOUS
      <4>1. Received(r)
        BY <2>1
      <4>2. \A u \in Buyers : /\ Buying(u, r, {"post", "advance"})' <=> Buying(u, r, {"post", "advance"})
                              /\ Buying(u, r, {"advance"})' <=> Buying(u, r, {"advance"})
                              /\ Buying(u, r, {"post", "advance"})' => buy'[u].qty = buy[u].qty
        BY <1>2, <3>1 DEF Buying, MovingSteps
      <4>3. \A u \in Buyers : Buying(u, r, {"advance"}) => Buying(u, r, {"post", "advance"})
        BY DEF Buying
      <4> QED
        BY <1>7, <2>3, <4>1, <4>2, <4>3 DEF Received
    <3>3. BuyingComplete(r) => BuyingComplete(r)'
      BY <1>7, <2>3 DEF BuyingComplete, Missing
    <3> QED
      BY <1>2, <2>1, <3>2, <3>3
  <2> QED
    BY <2>2, <2>3
<1> QED
  BY <1>5, <1>7 DEF ReceiptInv, InOrder

-----------------------------------------------------------------------------
(* Editing and revising *)

FreshRfq(r) == po[r].state = "rfq" /\ ~po[r].line /\ po[r].received = 0 /\ ~po[r].bill

\* No goods and no bills: the step writes orders and positions only.
LEMMA RequestEdited ==
    ASSUME PurchaseInv, PurchaseTypes', arrived' = arrived, bills' = bills,
           twice \subseteq twice', late \subseteq late', DOMAIN po \subseteq DOMAIN po',
           \A r \in DOMAIN po :
              /\ po'[r].bill = po[r].bill
              /\ po'[r].received > 0 => po[r].received > 0
              /\ po'[r].state = "received" => po[r].state = "received"
              /\ Begun(r) => Begun(r)'
              /\ r \notin late' => po'[r].received = po[r].received /\ (po'[r].line = po[r].line \/ po[r].state = "rfq"),
           \A r \in DOMAIN po' \ DOMAIN po : FreshRfq(r)',
           \A r \in retired' : po'[r].state # "rfq",
           \A r, s \in DOMAIN po' : LivePo(r)' /\ LivePo(s)' => r = s,
           Off(BillSteps), Off(MovingSteps),
           \A w \in Buyers : buy'[w].at \in ReceiptSteps => Begun(buy[w].po)'
    PROVE  PurchaseInv'
<1>1. PurchaseTypes /\ LiveInv /\ BillsInv /\ ReceiptInv
  BY DEF PurchaseInv
<1>2. BillsInv'
  <2>1. \A r \in DOMAIN po : po'[r].bill = po[r].bill
    OBVIOUS
  <2>2. \A r \in DOMAIN po' \ DOMAIN po : ~po'[r].bill
    BY DEF FreshRfq
  <2> QED
    BY <1>1, <2>1, <2>2, BillFrame
<1>3. LiveInv'
  <2>1. \A r \in DOMAIN po : (po'[r].received > 0 => po[r].received > 0) /\ (Begun(r) => Begun(r)')
    OBVIOUS
  <2>2. \A r \in DOMAIN po' \ DOMAIN po : po'[r].received = 0
    BY DEF FreshRfq
  <2> QED
    BY <1>1, <2>1, <2>2, LiveFrame
<1>4. ReceiptInv'
  <2>1. \A r \in DOMAIN po \ late' :
              /\ po'[r].received = po[r].received
              /\ po'[r].line = po[r].line \/ po[r].state = "rfq"
              /\ po'[r].state = "received" => po[r].state = "received"
    OBVIOUS
  <2>2. \A r \in DOMAIN po' \ DOMAIN po : po'[r].received = 0 /\ ~po'[r].line /\ po'[r].state = "rfq"
    BY DEF FreshRfq
  <2> QED
    BY <1>1, <2>1, <2>2, ReceiptFrame
<1> QED
  BY <1>1, <1>2, <1>3, <1>4 DEF PurchaseInv

\* The request moves on and the orders stay as they are.
LEMMA BuyWalked ==
    ASSUME PurchaseInv, NEW u \in Buyers, buy' \in [Buyers -> Buy], OtherBuyers(u),
           buy'[u].po \in DOMAIN po, buy[u].at \notin BillSteps \cup MovingSteps,
           buy'[u].at \notin BillSteps \cup MovingSteps, buy'[u].at # "cloneLine",
           buy'[u].at \in ReceiptSteps => Begun(buy'[u].po),
           UNCHANGED <<po, arrived, bills, retired>>,
           twice \subseteq twice', late \subseteq late'
    PROVE  PurchaseInv'
<1>1. PurchaseTypes /\ LiveInv
  BY DEF PurchaseInv
<1>2. PurchaseTypes'
  BY <1>1, PurchaseTypesKept DEF PurchaseTypes
<1>3. \A r : Begun(r) <=> Begun(r)'
  BY DEF Begun, LivePo
<1>4. Off(BillSteps) /\ Off(MovingSteps)
  BY DEF Off, OtherBuyers
<1>5. ASSUME NEW w \in Buyers, buy'[w].at \in ReceiptSteps PROVE Begun(buy[w].po)'
  <2>1. PICK r : r = buy'[w].po
    OBVIOUS
  <2>2. Begun(r)
    BY <1>1, <1>5, <2>1 DEF LiveInv, OtherBuyers
  <2> QED
    BY <1>3, <2>1, <2>2 DEF Begun, LivePo
<1>6. \A r \in retired' : po'[r].state # "rfq"
  BY <1>1 DEF LiveInv
<1>7. \A r, s \in DOMAIN po' : LivePo(r)' /\ LivePo(s)' => r = s
  BY <1>1 DEF LiveInv, LivePo
<1>8. \A r \in DOMAIN po :
              /\ po'[r].bill = po[r].bill
              /\ po'[r].received > 0 => po[r].received > 0
              /\ po'[r].state = "received" => po[r].state = "received"
              /\ Begun(r) => Begun(r)'
              /\ r \notin late' => po'[r].received = po[r].received /\ (po'[r].line = po[r].line \/ po[r].state = "rfq")
  BY <1>3
<1>9. DOMAIN po \subseteq DOMAIN po' /\ \A r \in DOMAIN po' \ DOMAIN po : FreshRfq(r)'
  OBVIOUS
<1> QED
  BY <1>2, <1>4, <1>5, <1>6, <1>7, <1>8, <1>9, RequestEdited

LEMMA LookStep ==
    ASSUME PurchaseInv, NEW u \in Buyers, NEW r \in DOMAIN po, Look(u, r)
    PROVE  PurchaseInv'
<1>1. PurchaseTypes
  BY DEF PurchaseInv
<1>2. PICK step \in {"add", "remove", "confirm", "live", "lines"} :
         Begin(u, r, step) /\ (step = "lines" => po[r].state = "confirmed")
  BY DEF Look
<1>3. /\ buy' \in [Buyers -> Buy] /\ OtherBuyers(u) /\ buy'[u].at = step /\ buy'[u].po = r /\ buy[u].at = "idle"
  BY <1>1, <1>2, Begun_
<1>4. step = "lines" => Begun(r)
  BY <1>2 DEF Begun, LivePo
<1>5. UNCHANGED <<po, arrived, bills, retired, twice, late>>
  BY DEF Look, observed
<1> QED
  BY <1>3, <1>4, <1>5, BuyWalked DEF BillSteps, MovingSteps, ReceiptSteps

\* One order is written; it does not come to life.
LEMMA RequestWritten ==
    ASSUME PurchaseInv, PurchaseTypes', NEW r \in DOMAIN po, DOMAIN po' = DOMAIN po,
           \A x \in DOMAIN po \ {r} : po'[x] = po[x],
           po'[r].bill = po[r].bill, po'[r].received > 0 => po[r].received > 0,
           po'[r].state = "received" => po[r].state = "received",
           LivePo(r)' => LivePo(r), LivePo(r) => LivePo(r)' \/ r \in retired',
           po'[r].state = "rfq" => po[r].state = "rfq",
           r \notin late' => po'[r].received = po[r].received /\ (po'[r].line = po[r].line \/ po[r].state = "rfq"),
           retired \subseteq retired', \A x \in retired' \ retired : x \in DOMAIN po /\ po'[x].state # "rfq",
           UNCHANGED <<arrived, bills>>, twice \subseteq twice', late \subseteq late',
           \A w \in Buyers : \/ buy[w].at \notin BillSteps \cup ReceiptSteps /\ buy'[w].at \notin BillSteps \cup ReceiptSteps
                             \/ buy'[w] = buy[w]
    PROVE  PurchaseInv'
<1>1. PurchaseTypes /\ LiveInv
  BY DEF PurchaseInv
<1>2. \A x \in DOMAIN po : (LivePo(x)' => LivePo(x)) /\ (Begun(x) => Begun(x)')
  BY DEF Begun, LivePo
<1>3. Off(BillSteps) /\ Off(MovingSteps)
  BY DEF Off, BillSteps, MovingSteps, ReceiptSteps
<1>4. ASSUME NEW w \in Buyers, buy'[w].at \in ReceiptSteps PROVE Begun(buy[w].po)'
  <2>1. PICK x : x = buy[w].po
    OBVIOUS
  <2>2. buy'[w] = buy[w] /\ buy[w].at \in ReceiptSteps
    BY <1>4
  <2>3. Begun(x) /\ x \in DOMAIN po
    BY <1>1, <2>1, <2>2 DEF LiveInv, PurchaseTypes
  <2>4. Begun(x)'
    BY <1>2, <2>3
  <2> QED
    BY <2>1, <2>2, <2>4 DEF Begun, LivePo
<1>5. \A x \in retired' : po'[x].state # "rfq"
  BY <1>1 DEF LiveInv, PurchaseTypes
<1>6. \A x, s \in DOMAIN po' : LivePo(x)' /\ LivePo(s)' => x = s
  BY <1>1, <1>2 DEF LiveInv
<1>7. \A x \in DOMAIN po :
              /\ po'[x].bill = po[x].bill
              /\ po'[x].received > 0 => po[x].received > 0
              /\ po'[x].state = "received" => po[x].state = "received"
              /\ Begun(x) => Begun(x)'
              /\ x \notin late' => po'[x].received = po[x].received /\ (po'[x].line = po[x].line \/ po[x].state = "rfq")
  BY <1>2
<1>8. DOMAIN po \subseteq DOMAIN po' /\ \A x \in DOMAIN po' \ DOMAIN po : FreshRfq(x)'
  OBVIOUS
<1> QED
  BY <1>3, <1>4, <1>5, <1>6, <1>7, <1>8, RequestEdited

\* One row of purchase_order is replaced.
LEMMA BuyWritten ==
    ASSUME PurchaseTypes, NEW r \in DOMAIN po, NEW v \in Po, po' = [po EXCEPT ![r] = v]
    PROVE  DOMAIN po' = DOMAIN po /\ po' \in [DOMAIN po -> Po] /\ po'[r] = v /\ \A x \in DOMAIN po \ {r} : po'[x] = po[x]
BY DEF PurchaseTypes

LEMMA WriteLineStep ==
    ASSUME PurchaseInv, NEW u \in Buyers, WriteLine(u)
    PROVE  PurchaseInv'
<1>1. PurchaseTypes /\ LiveInv
  BY DEF PurchaseInv
<1>2. PICK r : r = buy[u].po
  OBVIOUS
<1>3. r \in DOMAIN po /\ po[r] \in Po /\ po[r].received \in Nat
  BY <1>1, <1>2 DEF PurchaseTypes, Po
<1>4. PICK v : v = [po[r] EXCEPT !.line = On(u, "add"), !.received = IF On(u, "add") THEN po[r].received ELSE 0]
  OBVIOUS
<1>5. v \in Po /\ v.bill = po[r].bill /\ v.state = po[r].state /\ (v.received = po[r].received \/ v.received = 0)
  BY <1>3, <1>4, Zenon DEF Po, On
<1>6. po' = [po EXCEPT ![r] = v]
  BY <1>1, <1>2, <1>3, <1>4 DEF WriteLine, PurchaseTypes
<1>7. DOMAIN po' = DOMAIN po /\ po' \in [DOMAIN po -> Po] /\ po'[r] = v /\ \A x \in DOMAIN po \ {r} : po'[x] = po[x]
  BY <1>1, <1>3, <1>5, <1>6, BuyWritten
<1>8. buy' \in [Buyers -> Buy] /\ OtherBuyers(u) /\ buy'[u].at = "idle" /\ buy'[u].po \in DOMAIN po
  BY <1>1, Stepped DEF WriteLine
<1>9. PurchaseTypes'
  BY <1>1, <1>7, <1>8, PurchaseTypesKept DEF WriteLine, PurchaseTypes
<1>10. r \notin late' => po[r].state = "rfq"
  BY <1>2 DEF WriteLine
<1>11. po[r].state = "rfq" => po[r].received = 0
  BY <1>1, <1>3 DEF LiveInv, Begun, LivePo
<1>12. UNCHANGED <<arrived, bills, twice, retired>> /\ late \subseteq late' /\ buy[u].at \in {"add", "remove"}
  BY DEF WriteLine
<1> QED
  BY <1>3, <1>5, <1>7, <1>8, <1>9, <1>10, <1>11, <1>12, RequestWritten DEF LivePo, OtherBuyers, BillSteps, ReceiptSteps

\* The state of one order is written, and nothing else of it.
LEMMA RequestStateWritten ==
    ASSUME PurchaseTypes, NEW r \in DOMAIN po, NEW s \in {"sent", "superseded", "confirmed", "received", "cancelled"},
           po' = [po EXCEPT ![r].state = s]
    PROVE  /\ DOMAIN po' = DOMAIN po /\ po' \in [DOMAIN po -> Po] /\ \A x \in DOMAIN po \ {r} : po'[x] = po[x]
           /\ po'[r].state = s /\ po'[r].line = po[r].line /\ po'[r].received = po[r].received /\ po'[r].bill = po[r].bill
<1>1. PICK v : v = [po[r] EXCEPT !.state = s]
  OBVIOUS
<1>2. v \in Po /\ v.state = s /\ v.line = po[r].line /\ v.received = po[r].received /\ v.bill = po[r].bill
  BY <1>1 DEF PurchaseTypes, Po
<1>3. po' = [po EXCEPT ![r] = v]
  BY <1>1 DEF PurchaseTypes
<1> QED
  BY <1>2, <1>3, BuyWritten

LEMMA SameOrders ==
    ASSUME PurchaseTypes, DOMAIN po' = DOMAIN po, po' \in [DOMAIN po -> Po], buy' = buy,
           UNCHANGED <<arrived, bills>>, retired' \subseteq DOMAIN po
    PROVE  PurchaseTypes'
BY DEF PurchaseTypes, Revisions

LEMMA SentStep ==
    ASSUME PurchaseInv, NEW r \in DOMAIN po, mark_rfq_sent(r) \/ cancel_po(r)
    PROVE  PurchaseInv'
<1>1. PurchaseTypes
  BY DEF PurchaseInv
<1>2. PICK s \in {"sent", "cancelled"} : po' = [po EXCEPT ![r].state = s]
  BY DEF mark_rfq_sent, cancel_po
<1>3. /\ DOMAIN po' = DOMAIN po /\ po' \in [DOMAIN po -> Po] /\ \A x \in DOMAIN po \ {r} : po'[x] = po[x]
      /\ po'[r].state = s /\ po'[r].line = po[r].line /\ po'[r].received = po[r].received /\ po'[r].bill = po[r].bill
  BY <1>1, <1>2, RequestStateWritten
<1>4. /\ UNCHANGED <<buy, arrived, bills, twice, late>> /\ retired \subseteq retired'
      /\ retired' \subseteq retired \cup {r} /\ (LivePo(r) => r \in retired')
  BY DEF mark_rfq_sent, cancel_po, observed, LivePo
<1>5. PurchaseTypes'
  BY <1>1, <1>3, <1>4, SameOrders DEF PurchaseTypes
<1> QED
  BY <1>3, <1>4, <1>5, RequestWritten DEF LivePo

LEMMA SupersedeStep ==
    ASSUME PurchaseInv, NEW u \in Buyers, SupersedeRfq(u)
    PROVE  PurchaseInv'
<1>1. PurchaseTypes
  BY DEF PurchaseInv
<1>2. PICK r : r = buy[u].po
  OBVIOUS
<1>3. r \in DOMAIN po
  BY <1>1, <1>2 DEF PurchaseTypes
<1>4. /\ DOMAIN po' = DOMAIN po /\ po' \in [DOMAIN po -> Po] /\ \A x \in DOMAIN po \ {r} : po'[x] = po[x]
      /\ po'[r].state = "superseded" /\ po'[r].line = po[r].line /\ po'[r].received = po[r].received /\ po'[r].bill = po[r].bill
  BY <1>1, <1>2, <1>3, RequestStateWritten DEF SupersedeRfq
<1>5. /\ UNCHANGED <<arrived, bills, twice, late>> /\ retired \subseteq retired'
      /\ retired' \subseteq retired \cup {r} /\ (LivePo(r) => r \in retired') /\ buy[u].at = "supersede"
  BY <1>2 DEF SupersedeRfq, LivePo, On
<1>6. buy' \in [Buyers -> Buy] /\ OtherBuyers(u) /\ buy'[u].at = "idle" /\ buy'[u].po \in DOMAIN po
  BY <1>1, Stepped DEF SupersedeRfq
<1>7. PurchaseTypes'
  BY <1>1, <1>3, <1>4, <1>5, <1>6, PurchaseTypesKept DEF PurchaseTypes
<1> QED
  BY <1>3, <1>4, <1>5, <1>6, <1>7, RequestWritten DEF LivePo, OtherBuyers, BillSteps, ReceiptSteps

LEMMA CloneLineStep ==
    ASSUME PurchaseInv, NEW u \in Buyers, CloneLine(u)
    PROVE  PurchaseInv'
<1>1. PurchaseTypes
  BY DEF PurchaseInv
<1>2. PICK r : r = buy[u].new
  OBVIOUS
<1>3. r \in DOMAIN po /\ po[r] \in Po /\ buy[u].at = "cloneLine" /\ po[buy[u].po].line \in BOOLEAN
  BY <1>1, <1>2 DEF PurchaseTypes, CloneLine, On, Po
<1>4. PICK v : v = [po[r] EXCEPT !.line = po[r].line \/ po[buy[u].po].line]
  OBVIOUS
<1>5. v \in Po /\ v.bill = po[r].bill /\ v.state = po[r].state /\ v.received = po[r].received
  BY <1>3, <1>4 DEF Po
<1>6. po' = [po EXCEPT ![r] = v]
  BY <1>1, <1>2, <1>3, <1>4 DEF CloneLine, PurchaseTypes
<1>7. DOMAIN po' = DOMAIN po /\ po' \in [DOMAIN po -> Po] /\ po'[r] = v /\ \A x \in DOMAIN po \ {r} : po'[x] = po[x]
  BY <1>1, <1>3, <1>5, <1>6, BuyWritten
<1>8. PICK step \in {"supersede", "idle"} : Next_(u, step)
  BY DEF CloneLine
<1>9. buy' \in [Buyers -> Buy] /\ OtherBuyers(u) /\ buy'[u].at = step /\ buy'[u].po \in DOMAIN po
  BY <1>1, <1>8, Stepped
<1>10. PurchaseTypes'
  BY <1>1, <1>7, <1>8, <1>9, PurchaseTypesKept DEF CloneLine, PurchaseTypes
<1>11. r \notin late' => po[r].state = "rfq"
  BY <1>2 DEF CloneLine
<1>12. UNCHANGED <<arrived, bills, twice, retired>> /\ late \subseteq late'
  BY DEF CloneLine
<1> QED
  BY <1>3, <1>5, <1>7, <1>8, <1>9, <1>10, <1>11, <1>12, RequestWritten DEF LivePo, OtherBuyers, BillSteps, ReceiptSteps

LEMMA OthersStep ==
    ASSUME PurchaseInv, NEW u \in Buyers, SupersedeOtherRfqs(u)
    PROVE  PurchaseInv'
<1>1. PurchaseTypes /\ LiveInv
  BY DEF PurchaseInv
<1>2. buy' \in [Buyers -> Buy] /\ OtherBuyers(u) /\ buy'[u].at = "idle" /\ buy'[u].po \in DOMAIN po /\ buy[u].at = "others"
  BY <1>1, Stepped DEF SupersedeOtherRfqs, On
<1>3. UNCHANGED <<arrived, bills, twice, late, retired>>
  BY DEF SupersedeOtherRfqs, observed
<1>4. /\ DOMAIN po' = DOMAIN po
      /\ \A x \in DOMAIN po : po'[x] = IF x # buy[u].po /\ po[x].state \in {"rfq", "sent"}
                                       THEN [po[x] EXCEPT !.state = "superseded"] ELSE po[x]
      /\ po' = [x \in DOMAIN po |-> po'[x]]
  BY DEF SupersedeOtherRfqs
<1>5. ASSUME NEW x \in DOMAIN po
      PROVE  /\ po'[x] \in Po /\ po'[x].line = po[x].line /\ po'[x].received = po[x].received /\ po'[x].bill = po[x].bill
             /\ po'[x].state = po[x].state \/ (po[x].state \in {"rfq", "sent"} /\ po'[x].state = "superseded")
  <2>1. po[x] \in Po
    BY <1>1 DEF PurchaseTypes
  <2>2. CASE x # buy[u].po /\ po[x].state \in {"rfq", "sent"}
    <3>1. PICK v : v = [po[x] EXCEPT !.state = "superseded"]
      OBVIOUS
    <3>2. v \in Po /\ v.line = po[x].line /\ v.received = po[x].received /\ v.bill = po[x].bill /\ v.state = "superseded"
      BY <2>1, <3>1 DEF Po
    <3>3. po'[x] = v
      BY <1>4, <2>2, <3>1
    <3> QED
      BY <2>2, <3>2, <3>3
  <2>3. CASE ~(x # buy[u].po /\ po[x].state \in {"rfq", "sent"})
    <3>1. po'[x] = po[x]
      BY <1>4, <2>3, Zenon
    <3> QED
      BY <2>1, <3>1
  <2> QED
    BY <2>2, <2>3
<1>6. po' \in [DOMAIN po -> Po]
  BY <1>4, <1>5
<1>7. PurchaseTypes'
  BY <1>1, <1>2, <1>3, <1>4, <1>6, PurchaseTypesKept DEF PurchaseTypes
<1>8. \A x \in DOMAIN po : (LivePo(x)' <=> LivePo(x)) /\ (Begun(x) => Begun(x)')
  BY <1>3, <1>5 DEF LivePo, Begun
<1>9. Off(BillSteps) /\ Off(MovingSteps)
  BY <1>2 DEF Off, OtherBuyers, BillSteps, MovingSteps
<1>10. ASSUME NEW w \in Buyers, buy'[w].at \in ReceiptSteps PROVE Begun(buy[w].po)'
  <2>1. PICK x : x = buy[w].po
    OBVIOUS
  <2>2. buy'[w] = buy[w]
    BY <1>2, <1>10 DEF OtherBuyers, ReceiptSteps
  <2>3. Begun(x) /\ x \in DOMAIN po
    BY <1>1, <1>10, <2>1, <2>2 DEF LiveInv, PurchaseTypes
  <2>4. Begun(x)'
    BY <1>8, <2>3
  <2> QED
    BY <2>1, <2>2, <2>4 DEF Begun, LivePo
<1>11. \A x \in retired' : po'[x].state # "rfq"
  BY <1>1, <1>3, <1>5 DEF LiveInv, PurchaseTypes
<1>12. \A x, s \in DOMAIN po' : LivePo(x)' /\ LivePo(s)' => x = s
  BY <1>1, <1>4, <1>8 DEF LiveInv
<1>13. \A x \in DOMAIN po :
              /\ po'[x].bill = po[x].bill
              /\ po'[x].received > 0 => po[x].received > 0
              /\ po'[x].state = "received" => po[x].state = "received"
              /\ Begun(x) => Begun(x)'
              /\ x \notin late' => po'[x].received = po[x].received /\ (po'[x].line = po[x].line \/ po[x].state = "rfq")
  BY <1>5, <1>8
<1>14. DOMAIN po \subseteq DOMAIN po' /\ \A x \in DOMAIN po' \ DOMAIN po : FreshRfq(x)'
  BY <1>4
<1> QED
  BY <1>3, <1>7, <1>9, <1>10, <1>11, <1>12, <1>13, <1>14, RequestEdited

LEMMA ConfirmPoStep ==
    ASSUME PurchaseInv, NEW u \in Buyers, confirm_po(u)
    PROVE  PurchaseInv'
<1>1. PurchaseTypes /\ LiveInv
  BY DEF PurchaseInv
<1>2. PICK step \in {"others", "idle"} : Next_(u, step)
  BY DEF confirm_po
<1>3. buy' \in [Buyers -> Buy] /\ OtherBuyers(u) /\ buy'[u].at = step /\ buy'[u].po \in DOMAIN po
  BY <1>1, <1>2, Stepped
<1>4. UNCHANGED <<arrived, bills, twice, late, retired>> /\ buy[u].at = "confirm"
  BY DEF confirm_po, observed, On
<1>5. PICK r : r = buy[u].po
  OBVIOUS
<1>6. r \in DOMAIN po
  BY <1>1, <1>5 DEF PurchaseTypes
<1>7. CASE po' = po
  BY <1>3, <1>4, <1>7, BuyWalked DEF BillSteps, MovingSteps, ReceiptSteps
<1>8. CASE PoIndexAllows(r) /\ po' = [po EXCEPT ![r].state = "confirmed"]
  <2>1. /\ DOMAIN po' = DOMAIN po /\ po' \in [DOMAIN po -> Po] /\ \A x \in DOMAIN po \ {r} : po'[x] = po[x]
        /\ po'[r].state = "confirmed" /\ po'[r].line = po[r].line /\ po'[r].received = po[r].received /\ po'[r].bill = po[r].bill
    BY <1>1, <1>6, <1>8, RequestStateWritten
  <2>2. PurchaseTypes'
    BY <1>1, <1>3, <1>4, <2>1, PurchaseTypesKept DEF PurchaseTypes
  <2>3. \A x \in DOMAIN po : Begun(x) => Begun(x)'
    BY <1>4, <2>1 DEF LivePo, Begun
  <2>4. Off(BillSteps) /\ Off(MovingSteps)
    BY <1>3, <1>4 DEF Off, OtherBuyers, BillSteps, MovingSteps
  <2>5. ASSUME NEW w \in Buyers, buy'[w].at \in ReceiptSteps PROVE Begun(buy[w].po)'
    <3>1. PICK x : x = buy[w].po
      OBVIOUS
    <3>2. buy'[w] = buy[w]
      BY <1>3, <2>5 DEF OtherBuyers, ReceiptSteps
    <3>3. Begun(x) /\ x \in DOMAIN po
      BY <1>1, <2>5, <3>1, <3>2 DEF LiveInv, PurchaseTypes
    <3>4. Begun(x)'
      BY <2>3, <3>3
    <3> QED
      BY <3>1, <3>2, <3>4 DEF Begun, LivePo
  <2>6. \A x \in retired' : po'[x].state # "rfq"
    BY <1>1, <1>4, <2>1 DEF LiveInv, PurchaseTypes
  <2>7. \A x, s \in DOMAIN po' : LivePo(x)' /\ LivePo(s)' => x = s
    BY <1>8, <2>1 DEF PoIndexAllows, LivePo
  <2>8. \A x \in DOMAIN po :
              /\ po'[x].bill = po[x].bill
              /\ po'[x].received > 0 => po[x].received > 0
              /\ po'[x].state = "received" => po[x].state = "received"
              /\ Begun(x) => Begun(x)'
              /\ x \notin late' => po'[x].received = po[x].received /\ (po'[x].line = po[x].line \/ po[x].state = "rfq")
    BY <2>1, <2>3
  <2>9. DOMAIN po \subseteq DOMAIN po' /\ \A x \in DOMAIN po' \ DOMAIN po : FreshRfq(x)'
    BY <2>1
  <2> QED
    BY <1>4, <2>2, <2>4, <2>5, <2>6, <2>7, <2>8, <2>9, RequestEdited
<1> QED
  BY <1>5, <1>7, <1>8 DEF confirm_po

LEMMA RefuseRequestStep ==
    ASSUME PurchaseInv, NEW u \in Buyers, RefuseIfLivePo(u)
    PROVE  PurchaseInv'
<1>1. PurchaseTypes
  BY DEF PurchaseInv
<1>2. PICK step \in {"clone", "idle"} : Next_(u, step)
  BY DEF RefuseIfLivePo
<1>3. buy' \in [Buyers -> Buy] /\ OtherBuyers(u) /\ buy'[u].at = step /\ buy'[u].po \in DOMAIN po
  BY <1>1, <1>2, Stepped
<1>4. UNCHANGED <<po, arrived, bills, twice, late, retired>> /\ buy[u].at = "live"
  BY DEF RefuseIfLivePo, observed, On
<1> QED
  BY <1>3, <1>4, BuyWalked DEF BillSteps, MovingSteps, ReceiptSteps

LEMMA ReviseRequestStep ==
    ASSUME PurchaseInv, NEW u \in Buyers, revise_rfq(u)
    PROVE  PurchaseInv'
<1>1. PurchaseTypes /\ LiveInv
  BY DEF PurchaseInv
<1>2. PICK n \in Revisions : DOMAIN po = 1..n
  BY <1>1 DEF PurchaseTypes
<1>3. n \in Nat /\ MaxRfqs \in Nat
  BY <1>2, PurchaseAssumption DEF Revisions
<1>4. Cardinality(DOMAIN po) = n
  BY <1>2, <1>3, FS_Interval
<1>5. PICK fresh : fresh = [state |-> "rfq", line |-> FALSE, received |-> 0, bill |-> FALSE]
  OBVIOUS
<1>6. fresh \in Po
  BY <1>5 DEF Po
<1>7. n + 1 \in Revisions /\ buy[u].at = "clone" /\ UNCHANGED <<arrived, bills, twice, late, retired>>
  BY <1>3, <1>4 DEF revise_rfq, observed, On, Revisions
<1>8. po' = [r \in 1..(n + 1) |-> IF r \in DOMAIN po THEN po[r] ELSE fresh]
  BY <1>4, <1>5 DEF revise_rfq
<1>9. DOMAIN po' = 1..(n + 1) /\ DOMAIN po' = DOMAIN po \cup {n + 1} /\ n + 1 \notin DOMAIN po
  BY <1>2, <1>3, <1>8
<1>10. (\A r \in DOMAIN po : po'[r] = po[r]) /\ po'[n + 1] = fresh
  BY <1>8, <1>9
<1>11. po' \in [DOMAIN po' -> Po]
  BY <1>1, <1>6, <1>8, <1>9 DEF PurchaseTypes
<1>12. PICK v : v = [buy[u] EXCEPT !.at = "cloneLine", !.new = n + 1]
  OBVIOUS
<1>13. v \in Buy /\ v.at = "cloneLine" /\ v.new = n + 1 /\ v.po = buy[u].po
  <2>1. buy[u] \in Buy /\ n + 1 \in 0..MaxRfqs
    BY <1>1, <1>3, <1>7 DEF PurchaseTypes, Revisions
  <2> QED
    BY <1>12, <2>1 DEF Buy
<1>14. buy' = [buy EXCEPT ![u] = v]
  BY <1>1, <1>4, <1>12 DEF revise_rfq, PurchaseTypes
<1>15. buy' \in [Buyers -> Buy] /\ buy'[u] = v /\ OtherBuyers(u)
  BY <1>1, <1>13, <1>14, BuyMoves
<1>16. PurchaseTypes'
  <2>1. \A w \in Buyers : buy'[w].po \in DOMAIN po' /\ (buy'[w].at = "cloneLine" => buy'[w].new \in DOMAIN po')
    BY <1>1, <1>9, <1>13, <1>15 DEF PurchaseTypes, OtherBuyers
  <2>2. DOMAIN po' \subseteq Revisions /\ 1 \in DOMAIN po' /\ retired' \subseteq DOMAIN po'
    BY <1>1, <1>7, <1>9 DEF PurchaseTypes
  <2> QED
    BY <1>1, <1>7, <1>9, <1>11, <1>15, <2>1, <2>2 DEF PurchaseTypes, Revisions
<1>17. \A x \in DOMAIN po : (LivePo(x)' <=> LivePo(x)) /\ (Begun(x) => Begun(x)')
  BY <1>7, <1>10 DEF LivePo, Begun
<1>18. ~LivePo(n + 1)'
  BY <1>5, <1>10 DEF LivePo
<1>19. Off(BillSteps) /\ Off(MovingSteps)
  BY <1>7, <1>13, <1>15 DEF Off, OtherBuyers, BillSteps, MovingSteps
<1>20. ASSUME NEW w \in Buyers, buy'[w].at \in ReceiptSteps PROVE Begun(buy[w].po)'
  <2>1. PICK x : x = buy[w].po
    OBVIOUS
  <2>2. buy'[w] = buy[w]
    BY <1>13, <1>15, <1>20 DEF OtherBuyers, ReceiptSteps
  <2>3. Begun(x) /\ x \in DOMAIN po
    BY <1>1, <1>20, <2>1, <2>2 DEF LiveInv, PurchaseTypes
  <2>4. Begun(x)'
    BY <1>17, <2>3
  <2> QED
    BY <2>1, <2>2, <2>4 DEF Begun, LivePo
<1>21. \A x \in retired' : po'[x].state # "rfq"
  BY <1>1, <1>7, <1>10 DEF LiveInv, PurchaseTypes
<1>22. \A x, s \in DOMAIN po' : LivePo(x)' /\ LivePo(s)' => x = s
  BY <1>1, <1>9, <1>17, <1>18 DEF LiveInv
<1>23. \A x \in DOMAIN po :
              /\ po'[x].bill = po[x].bill
              /\ po'[x].received > 0 => po[x].received > 0
              /\ po'[x].state = "received" => po[x].state = "received"
              /\ Begun(x) => Begun(x)'
              /\ x \notin late' => po'[x].received = po[x].received /\ (po'[x].line = po[x].line \/ po[x].state = "rfq")
  BY <1>10, <1>17
<1>24. DOMAIN po \subseteq DOMAIN po' /\ \A x \in DOMAIN po' \ DOMAIN po : FreshRfq(x)'
  <2>1. fresh.state = "rfq" /\ ~fresh.line /\ fresh.received = 0 /\ ~fresh.bill
    BY <1>5
  <2>2. \A x \in DOMAIN po' \ DOMAIN po : po'[x] = fresh
    BY <1>9, <1>10
  <2> QED
    BY <1>9, <2>1, <2>2 DEF FreshRfq
<1> QED
  BY <1>7, <1>16, <1>19, <1>20, <1>21, <1>22, <1>23, <1>24, RequestEdited

-----------------------------------------------------------------------------
(* Receiving *)

\* What a step of one receipt leaves as it was.
LEMMA ReceiptMoved ==
    ASSUME PurchaseInv, PurchaseTypes', NEW u \in Buyers, NEW r \in DOMAIN po,
           buy[u].po = r, buy[u].at \in ReceiptSteps, OtherBuyers(u),
           buy'[u].at = "idle" \/ (buy'[u].po = r /\ buy'[u].at \in ReceiptSteps),
           DOMAIN po' = DOMAIN po, \A x \in DOMAIN po \ {r} : po'[x] = po[x],
           po'[r].bill = po[r].bill,
           po'[r].state = po[r].state \/ (po'[r].state = "received" /\ PoIndexAllows(r)),
           \A x \in Revisions \ {r} : arrived'[x] = arrived[x],
           UNCHANGED <<bills, retired, late>>, twice \subseteq twice',
           r \notin late => InOrder(r)'
    PROVE  PurchaseInv'
<1>1. PurchaseTypes /\ LiveInv /\ BillsInv /\ ReceiptInv /\ DOMAIN po \subseteq Revisions
  BY FirstRevision DEF PurchaseInv
<1>2. Off(BillSteps)
  BY DEF Off, OtherBuyers, BillSteps, ReceiptSteps
<1>3. BillsInv'
  <2>1. \A x \in DOMAIN po : po'[x].bill = po[x].bill
    OBVIOUS
  <2> QED
    BY <1>1, <1>2, <2>1, BillFrame
<1>4. Begun(r)
  BY <1>1 DEF LiveInv
<1>5. \A x \in DOMAIN po : Begun(x) => Begun(x)'
  BY <1>1, <1>4 DEF Begun, LivePo
<1>6. LiveInv'
  <2>1. \A x, s \in DOMAIN po' : LivePo(x)' /\ LivePo(s)' => x = s
    <3>1. CASE po'[r].state = po[r].state
      <4>1. \A x \in DOMAIN po : LivePo(x)' <=> LivePo(x)
        BY <3>1 DEF LivePo
      <4> QED
        BY <1>1, <4>1 DEF LiveInv
    <3>2. CASE PoIndexAllows(r)
      <4>1. \A x \in DOMAIN po \ {r} : ~LivePo(x)'
        BY <3>2 DEF PoIndexAllows, LivePo
      <4> QED
        BY <4>1
    <3> QED
      BY <3>1, <3>2
  <2>2. \A x \in Revisions : arrived'[x] > 0 => x \in DOMAIN po' /\ Begun(x)'
    BY <1>1, <1>4, <1>5 DEF LiveInv
  <2>3. \A x \in DOMAIN po' : po'[x].received > 0 => Begun(x)'
    BY <1>1, <1>4, <1>5 DEF LiveInv
  <2>4. ASSUME NEW w \in Buyers, buy'[w].at \in ReceiptSteps PROVE Begun(buy[w].po)'
    <3>1. PICK x : x = buy'[w].po
      OBVIOUS
    <3>2. Begun(x) /\ x \in DOMAIN po
      BY <1>1, <1>4, <2>4, <3>1 DEF LiveInv, OtherBuyers, PurchaseTypes, ReceiptSteps
    <3>3. Begun(x)'
      BY <1>5, <3>2
    <3> QED
      BY <3>1, <3>3 DEF Begun, LivePo
  <2>5. \A x \in retired' : po'[x].state # "rfq"
    BY <1>1 DEF LiveInv, PurchaseTypes
  <2> QED
    BY <2>1, <2>2, <2>3, <2>4, <2>5 DEF LiveInv
<1>7. ReceiptInv'
  <2>1. ASSUME NEW x \in DOMAIN po' \ late', x # r PROVE InOrder(x)'
    <3>1. InOrder(x) /\ x \in Revisions
      BY <1>1, <2>1 DEF ReceiptInv
    <3>2. po'[x] = po[x] /\ arrived'[x] = arrived[x]
      BY <2>1, <3>1
    <3>3. \A w \in Buyers : /\ Buying(w, x, {"post", "advance"})' <=> Buying(w, x, {"post", "advance"})
                            /\ Buying(w, x, {"advance"})' <=> Buying(w, x, {"advance"})
                            /\ Buying(w, x, {"flip"})' <=> Buying(w, x, {"flip"})
                            /\ Buying(w, x, {"post", "advance"})' => buy'[w].qty = buy[w].qty
      BY <2>1 DEF Buying, OtherBuyers, BillSteps
    <3>4. \A w \in Buyers : Buying(w, x, {"advance"}) => Buying(w, x, {"post", "advance"})
      BY DEF Buying
    <3>5. BuyingComplete(x) => BuyingComplete(x)'
      BY <3>2 DEF BuyingComplete, Missing
    <3>6. Received(x) => Received(x)'
      BY <3>2, <3>3, <3>4 DEF Received
    <3> QED
      BY <3>1, <3>2, <3>3, <3>5, <3>6 DEF InOrder
  <2> QED
    BY <2>1 DEF ReceiptInv
<1> QED
  BY <1>1, <1>3, <1>6, <1>7 DEF PurchaseInv

LEMMA ReadMissingStep ==
    ASSUME PurchaseInv, NEW u \in Buyers, ReadMissing(u)
    PROVE  PurchaseInv'
<1>1. PurchaseTypes /\ LiveInv /\ ReceiptInv /\ Wanted \in Nat
  BY PurchaseAssumption, StockAssumption DEF PurchaseInv, Quantities
<1>2. PICK r : r = buy[u].po
  OBVIOUS
<1>3. r \in DOMAIN po /\ po[r].received \in Nat /\ buy[u] \in Buy /\ buy[u].at = "lines"
  BY <1>1, <1>2 DEF PurchaseTypes, Po, ReadMissing, On
<1>4. PICK want, taken :
         /\ want \in 0..(Wanted + 1) /\ taken = IF Missing(r) <= 0 THEN 0 ELSE IF want > Missing(r) THEN Missing(r) ELSE want
         /\ buy' = [buy EXCEPT ![u] = IF taken = 0 THEN NoBuy ELSE [buy[u] EXCEPT !.at = "post", !.qty = taken]]
         /\ twice' = twice \cup
                     (IF taken > 0 /\ \E v \in Buyers \ {u} : buy[v].po = r /\ buy[v].at \in {"post", "advance"}
                      THEN {<<r, "receive">>} ELSE {})
  BY <1>2, Zenon DEF ReadMissing
<1>5. taken \in Nat /\ (taken > 0 => po[r].line /\ taken + po[r].received <= Wanted)
  BY <1>1, <1>3, <1>4 DEF Missing
<1>6. UNCHANGED <<po, arrived, bills, late, retired>> /\ twice \subseteq twice'
  BY <1>4 DEF ReadMissing
<1>7. CASE taken = 0
  <2>1. buy' = [buy EXCEPT ![u] = NoBuy]
    BY <1>1, <1>4, <1>7 DEF PurchaseTypes
  <2>2. buy' \in [Buyers -> Buy] /\ buy'[u] = NoBuy /\ OtherBuyers(u)
    BY <1>1, <2>1, FirstRevision, BuyMoves
  <2>3. NoBuy.at = "idle" /\ NoBuy.po = 1
    BY DEF NoBuy
  <2> QED
    BY <1>1, <1>3, <1>6, <2>2, <2>3, FirstRevision, BuyWalked DEF BillSteps, MovingSteps, ReceiptSteps
<1>8. CASE taken > 0
  <2>1. PICK v : v = [buy[u] EXCEPT !.at = "post", !.qty = taken]
    OBVIOUS
  <2>2. v \in Buy /\ v.at = "post" /\ v.qty = taken /\ v.po = r
    BY <1>2, <1>3, <1>5, <2>1 DEF Buy
  <2>3. buy' = [buy EXCEPT ![u] = v]
    <3>1. taken # 0
      BY <1>5, <1>8
    <3> QED
      BY <1>4, <2>1, <3>1
  <2>4. buy' \in [Buyers -> Buy] /\ buy'[u] = v /\ OtherBuyers(u)
    BY <1>1, <2>2, <2>3, BuyMoves
  <2>5. PurchaseTypes'
    BY <1>1, <1>3, <1>6, <2>2, <2>4, PurchaseTypesKept DEF PurchaseTypes
  <2>6. ASSUME r \notin late PROVE InOrder(r)'
    <3>1. InOrder(r)
      BY <1>1, <1>3, <2>6 DEF ReceiptInv
    <3>2. BuyingComplete(r) => BuyingComplete(r)'
      BY <1>6 DEF BuyingComplete, Missing
    <3>3. \A w \in Buyers : Buying(w, r, {"flip"})' => Buying(w, r, {"flip"})
      BY <2>2, <2>4 DEF Buying, OtherBuyers
    <3>4. ASSUME <<r, "receive">> \notin twice' PROVE Received(r)'
      <4>1. (\A w \in Buyers \ {u} : ~Buying(w, r, {"post", "advance"})) /\ Received(r)
        BY <1>4, <1>8, <3>1, <3>4 DEF Buying, InOrder
      <4>2. \A w \in Buyers : Buying(w, r, {"post", "advance"})' <=> w = u
        BY <2>2, <2>4, <4>1 DEF Buying, OtherBuyers
      <4>3. \A w \in Buyers : ~Buying(w, r, {"advance"})' /\ ~Buying(w, r, {"advance"})
        BY <1>3, <2>2, <2>4, <4>1 DEF Buying, OtherBuyers
      <4>4. arrived[r] = po[r].received /\ po[r].received <= Wanted
        BY <4>1, <4>3 DEF Received
      <4> QED
        BY <1>5, <1>6, <1>8, <2>2, <2>4, <4>2, <4>3, <4>4 DEF Received
    <3> QED
      BY <1>6, <3>1, <3>2, <3>3, <3>4 DEF InOrder
  <2> QED
    BY <1>2, <1>3, <1>6, <2>2, <2>4, <2>5, <2>6, ReceiptMoved DEF ReceiptSteps
<1> QED
  BY <1>5, <1>7, <1>8

LEMMA ProcessReceiptStep ==
    ASSUME PurchaseInv, NEW u \in Buyers, process_receipt(u)
    PROVE  PurchaseInv'
<1>1. PurchaseTypes /\ LiveInv /\ ReceiptInv /\ Wanted \in Nat
  BY PurchaseAssumption, StockAssumption DEF PurchaseInv, Quantities
<1>2. PICK r : r = buy[u].po
  OBVIOUS
<1>3. r \in DOMAIN po /\ r \in Revisions /\ po[r].received \in Nat /\ buy[u].qty \in Nat /\ buy[u].at = "post"
  BY <1>1, <1>2, FirstRevision DEF PurchaseTypes, Po, Buy, process_receipt, On
<1>4. buy' \in [Buyers -> Buy] /\ OtherBuyers(u) /\ buy'[u].at = "advance" /\ buy'[u].po = r /\ buy'[u].qty = buy[u].qty
  BY <1>1, <1>2, Stepped DEF process_receipt
<1>5. UNCHANGED <<po, bills, twice, late, retired>>
  BY DEF process_receipt, observed
<1>6. /\ arrived' \in [Revisions -> Nat] /\ arrived'[r] = arrived[r] + buy[u].qty
      /\ \A x \in Revisions \ {r} : arrived'[x] = arrived[x]
  BY <1>1, <1>2, <1>3 DEF process_receipt, PurchaseTypes
<1>7. PurchaseTypes'
  BY <1>1, <1>3, <1>4, <1>5, <1>6, PurchaseTypesKept DEF PurchaseTypes
<1>8. ASSUME r \notin late PROVE InOrder(r)'
  <2>1. InOrder(r)
    BY <1>1, <1>3, <1>8 DEF ReceiptInv
  <2>2. BuyingComplete(r) => BuyingComplete(r)'
    BY <1>5 DEF BuyingComplete, Missing
  <2>3. \A w \in Buyers : Buying(w, r, {"flip"})' => Buying(w, r, {"flip"})
    BY <1>4 DEF Buying, OtherBuyers
  <2>4. ASSUME <<r, "receive">> \notin twice' PROVE Received(r)'
    <3>1. Received(r) /\ Buying(u, r, {"post", "advance"})
      BY <1>2, <1>3, <1>5, <2>1, <2>4 DEF Buying, InOrder
    <3>2. \A w \in Buyers \ {u} : ~Buying(w, r, {"post", "advance"})
      BY <3>1 DEF Received
    <3>3. \A w \in Buyers : ~Buying(w, r, {"advance"})
      BY <1>3, <3>2 DEF Buying
    <3>4. \A w \in Buyers : (Buying(w, r, {"post", "advance"})' <=> w = u) /\ (Buying(w, r, {"advance"})' <=> w = u)
      BY <1>4, <3>2 DEF Buying, OtherBuyers
    <3>5. arrived[r] = po[r].received /\ po[r].received <= Wanted /\ po[r].line /\ buy[u].qty + po[r].received <= Wanted
      BY <3>1, <3>3 DEF Received
    <3>6. arrived'[r] = po'[r].received + buy'[u].qty
      BY <1>3, <1>4, <1>5, <1>6, <3>5
    <3> QED
      BY <1>4, <1>5, <3>4, <3>5, <3>6 DEF Received
  <2> QED
    BY <1>5, <2>1, <2>2, <2>3, <2>4 DEF InOrder
<1> QED
  BY <1>2, <1>3, <1>4, <1>5, <1>6, <1>7, <1>8, ReceiptMoved DEF ReceiptSteps

LEMMA AdvanceStep ==
    ASSUME PurchaseInv, NEW u \in Buyers, AdvanceReceived(u)
    PROVE  PurchaseInv'
<1>1. PurchaseTypes /\ LiveInv /\ ReceiptInv /\ Wanted \in Nat
  BY PurchaseAssumption, StockAssumption DEF PurchaseInv, Quantities
<1>2. PICK r : r = buy[u].po
  OBVIOUS
<1>3. r \in DOMAIN po /\ po[r] \in Po /\ po[r].received \in Nat /\ buy[u].qty \in Nat /\ buy[u].at = "advance"
  BY <1>1, <1>2 DEF PurchaseTypes, Po, Buy, AdvanceReceived, On
<1>4. buy' \in [Buyers -> Buy] /\ OtherBuyers(u) /\ buy'[u].at = "outstanding" /\ buy'[u].po = r
  BY <1>1, <1>2, Stepped DEF AdvanceReceived
<1>5. UNCHANGED <<arrived, bills, twice, late, retired>>
  BY DEF AdvanceReceived, observed
<1>6. PICK v : v = IF po[r].line THEN [po[r] EXCEPT !.received = po[r].received + buy[u].qty] ELSE po[r]
  OBVIOUS
<1>7. /\ v \in Po /\ v.bill = po[r].bill /\ v.state = po[r].state /\ v.line = po[r].line
      /\ v.received \in Nat /\ v.received >= po[r].received
      /\ po[r].line => v.received = po[r].received + buy[u].qty
  <2>1. CASE po[r].line
    <3>1. PICK n : n = po[r].received + buy[u].qty
      OBVIOUS
    <3>2. n \in Nat /\ n >= po[r].received
      BY <1>3, <3>1
    <3>3. v = [po[r] EXCEPT !.received = n]
      BY <1>6, <2>1, <3>1
    <3> QED
      BY <1>3, <3>1, <3>2, <3>3 DEF Po
  <2>2. CASE ~po[r].line
    BY <1>3, <1>6, <2>2
  <2> QED
    BY <2>1, <2>2
<1>8. po' = [po EXCEPT ![r] = v]
  BY <1>1, <1>2, <1>3, <1>6 DEF AdvanceReceived, PurchaseTypes
<1>9. DOMAIN po' = DOMAIN po /\ po' \in [DOMAIN po -> Po] /\ po'[r] = v /\ \A x \in DOMAIN po \ {r} : po'[x] = po[x]
  BY <1>1, <1>3, <1>7, <1>8, BuyWritten
<1>10. PurchaseTypes'
  BY <1>1, <1>3, <1>4, <1>5, <1>9, PurchaseTypesKept DEF PurchaseTypes
<1>11. ASSUME r \notin late PROVE InOrder(r)'
  <2>1. InOrder(r)
    BY <1>1, <1>3, <1>11 DEF ReceiptInv
  <2>2. BuyingComplete(r) => BuyingComplete(r)'
    BY <1>1, <1>3, <1>5, <1>7, <1>9 DEF BuyingComplete, Missing
  <2>3. \A w \in Buyers : Buying(w, r, {"flip"})' => Buying(w, r, {"flip"})
    BY <1>4 DEF Buying, OtherBuyers
  <2>4. ASSUME <<r, "receive">> \notin twice' PROVE Received(r)'
    <3>1. Received(r) /\ Buying(u, r, {"post", "advance"}) /\ Buying(u, r, {"advance"})
      BY <1>2, <1>3, <1>5, <2>1, <2>4 DEF Buying, InOrder
    <3>2. \A w \in Buyers \ {u} : ~Buying(w, r, {"post", "advance"})
      BY <3>1 DEF Received
    <3>3. \A w \in Buyers : ~Buying(w, r, {"post", "advance"})' /\ ~Buying(w, r, {"advance"})'
      BY <1>4, <3>2 DEF Buying, OtherBuyers
    <3>4. po[r].line /\ buy[u].qty + po[r].received <= Wanted /\ arrived[r] = po[r].received + buy[u].qty
      BY <3>1 DEF Received
    <3>5. arrived'[r] = po'[r].received /\ po'[r].received <= Wanted
      BY <1>1, <1>3, <1>5, <1>7, <1>9, <3>4
    <3> QED
      BY <3>3, <3>5 DEF Received
  <2> QED
    BY <1>5, <1>7, <1>9, <2>1, <2>2, <2>3, <2>4 DEF InOrder
<1> QED
  BY <1>2, <1>3, <1>4, <1>5, <1>7, <1>9, <1>10, <1>11, ReceiptMoved DEF ReceiptSteps

\* The request leaves a step of the receipt without moving goods.
LEMMA LeftReceipt ==
    ASSUME PurchaseInv, NEW u \in Buyers, NEW r \in DOMAIN po, buy[u].po = r, buy[u].at \in ReceiptSteps,
           buy' \in [Buyers -> Buy], OtherBuyers(u), buy'[u].po \in DOMAIN po,
           buy'[u].at \in {"idle", "outstanding", "flip"}, buy'[u].at # "idle" => buy'[u].po = r,
           UNCHANGED <<po, arrived, bills, late, retired>>, twice \subseteq twice',
           buy[u].at \in {"post", "advance"} => <<r, "receive">> \in twice',
           buy'[u].at = "flip" => BuyingComplete(r)'
    PROVE  PurchaseInv'
<1>1. PurchaseTypes /\ ReceiptInv
  BY DEF PurchaseInv
<1>2. PurchaseTypes'
  BY <1>1, PurchaseTypesKept DEF PurchaseTypes
<1>3. ASSUME r \notin late PROVE InOrder(r)'
  <2>1. InOrder(r)
    BY <1>1, <1>3 DEF ReceiptInv
  <2>2. BuyingComplete(r) => BuyingComplete(r)'
    BY DEF BuyingComplete, Missing
  <2>3. \A w \in Buyers : Buying(w, r, {"flip"})' => Buying(w, r, {"flip"}) \/ BuyingComplete(r)'
    BY DEF Buying, OtherBuyers
  <2>4. ASSUME <<r, "receive">> \notin twice' PROVE Received(r)'
    <3>1. Received(r)
      BY <2>1, <2>4 DEF InOrder
    <3>2. \A w \in Buyers : /\ Buying(w, r, {"post", "advance"})' <=> Buying(w, r, {"post", "advance"})
                            /\ Buying(w, r, {"advance"})' <=> Buying(w, r, {"advance"})
                            /\ Buying(w, r, {"post", "advance"})' => buy'[w].qty = buy[w].qty
      BY <2>4 DEF Buying, OtherBuyers
    <3>3. \A w \in Buyers : Buying(w, r, {"advance"}) => Buying(w, r, {"post", "advance"})
      BY DEF Buying
    <3> QED
      BY <3>1, <3>2, <3>3 DEF Received
  <2> QED
    BY <2>1, <2>2, <2>3, <2>4 DEF InOrder
<1> QED
  BY <1>2, <1>3, ReceiptMoved DEF ReceiptSteps

LEMMA CountMissingStep ==
    ASSUME PurchaseInv, NEW u \in Buyers, CountMissing(u)
    PROVE  PurchaseInv'
<1>1. PurchaseTypes
  BY DEF PurchaseInv
<1>2. PICK r : r = buy[u].po
  OBVIOUS
<1>3. r \in DOMAIN po /\ buy[u].at = "outstanding"
  BY <1>1, <1>2 DEF PurchaseTypes, CountMissing, On
<1>4. PICK step \in {"flip", "idle"} : Next_(u, step) /\ (step = "flip" => Missing(r) <= 0)
  BY <1>2 DEF CountMissing
<1>5. /\ buy' \in [Buyers -> Buy] /\ OtherBuyers(u) /\ buy'[u].at = step /\ buy'[u].po \in DOMAIN po
      /\ step # "idle" => buy'[u].po = r
  BY <1>1, <1>2, <1>4, Stepped
<1>6. UNCHANGED <<po, arrived, bills, late, retired, twice>>
  BY DEF CountMissing, observed
<1>7. step = "flip" => BuyingComplete(r)'
  BY <1>4, <1>6 DEF BuyingComplete, Missing
<1> QED
  BY <1>2, <1>3, <1>5, <1>6, <1>7, LeftReceipt DEF ReceiptSteps

LEMMA CountFailsStep ==
    ASSUME PurchaseInv, NEW u \in Buyers, CountFails_(u)
    PROVE  PurchaseInv'
<1>1. PurchaseTypes
  BY DEF PurchaseInv
<1>2. PICK r : r = buy[u].po
  OBVIOUS
<1>3. r \in DOMAIN po
  BY <1>1, <1>2 DEF PurchaseTypes
<1>4. UNCHANGED <<po, arrived, bills, late, retired>> /\ twice \subseteq twice'
  BY DEF CountFails_
<1>5. CASE buy[u].at = "live"
  <2>1. Next_(u, "clone")
    BY <1>5 DEF CountFails_, On
  <2>2. buy' \in [Buyers -> Buy] /\ OtherBuyers(u) /\ buy'[u].at = "clone" /\ buy'[u].po \in DOMAIN po
    BY <1>1, <2>1, Stepped
  <2> QED
    BY <1>4, <1>5, <2>2, BuyWalked DEF BillSteps, MovingSteps, ReceiptSteps
<1>6. CASE buy[u].at = "outstanding"
  <2>1. Next_(u, "flip") /\ <<r, "count">> \in twice'
    BY <1>2, <1>6 DEF CountFails_, On
  <2>2. buy' \in [Buyers -> Buy] /\ OtherBuyers(u) /\ buy'[u].at = "flip" /\ buy'[u].po \in DOMAIN po /\ buy'[u].po = r
    BY <1>1, <1>2, <2>1, Stepped
  <2>3. BuyingComplete(r)'
    BY <2>1 DEF BuyingComplete
  <2> QED
    BY <1>2, <1>3, <1>4, <1>6, <2>2, <2>3, LeftReceipt DEF ReceiptSteps
<1> QED
  BY <1>5, <1>6 DEF CountFails_

LEMMA MarkReceivedStep ==
    ASSUME PurchaseInv, NEW u \in Buyers, MarkReceived(u)
    PROVE  PurchaseInv'
<1>1. PurchaseTypes /\ ReceiptInv
  BY DEF PurchaseInv
<1>2. PICK r : r = buy[u].po
  OBVIOUS
<1>3. r \in DOMAIN po /\ buy[u].at = "flip"
  BY <1>1, <1>2 DEF PurchaseTypes, MarkReceived, On
<1>4. buy' \in [Buyers -> Buy] /\ OtherBuyers(u) /\ buy'[u].at = "idle" /\ buy'[u].po \in DOMAIN po
  BY <1>1, Stepped DEF MarkReceived
<1>5. UNCHANGED <<arrived, bills, twice, late, retired>>
  BY DEF MarkReceived, observed
<1>6. CASE po' = po
  BY <1>2, <1>3, <1>4, <1>5, <1>6, LeftReceipt DEF ReceiptSteps
<1>7. CASE PoIndexAllows(r) /\ po' = [po EXCEPT ![r].state = "received"]
  <2>1. /\ DOMAIN po' = DOMAIN po /\ po' \in [DOMAIN po -> Po] /\ \A x \in DOMAIN po \ {r} : po'[x] = po[x]
        /\ po'[r].state = "received" /\ po'[r].line = po[r].line /\ po'[r].received = po[r].received /\ po'[r].bill = po[r].bill
    BY <1>1, <1>3, <1>7, RequestStateWritten
  <2>2. PurchaseTypes'
    BY <1>1, <1>3, <1>4, <1>5, <2>1, PurchaseTypesKept DEF PurchaseTypes
  <2>3. ASSUME r \notin late PROVE InOrder(r)'
    <3>1. InOrder(r)
      BY <1>1, <1>3, <2>3 DEF ReceiptInv
    <3>2. BuyingComplete(r)
      BY <1>2, <1>3, <3>1 DEF InOrder, Buying
    <3>3. BuyingComplete(r)'
      BY <1>5, <2>1, <3>2 DEF BuyingComplete, Missing
    <3>4. \A w \in Buyers : /\ Buying(w, r, {"post", "advance"})' <=> Buying(w, r, {"post", "advance"})
                            /\ Buying(w, r, {"advance"})' <=> Buying(w, r, {"advance"})
                            /\ Buying(w, r, {"post", "advance"})' => buy'[w].qty = buy[w].qty
      BY <1>3, <1>4 DEF Buying, OtherBuyers
    <3>5. \A w \in Buyers : Buying(w, r, {"advance"}) => Buying(w, r, {"post", "advance"})
      BY DEF Buying
    <3>6. Received(r) => Received(r)'
      BY <1>5, <2>1, <3>4, <3>5 DEF Received
    <3> QED
      BY <1>5, <3>1, <3>3, <3>6 DEF InOrder
  <2> QED
    BY <1>2, <1>3, <1>4, <1>5, <1>7, <2>1, <2>2, <2>3, ReceiptMoved DEF ReceiptSteps
<1> QED
  BY <1>2, <1>6, <1>7 DEF MarkReceived

-----------------------------------------------------------------------------
(* Billing *)

\* What a step of one bill leaves as it was.
LEMMA SupplierBillMoved ==
    ASSUME PurchaseInv, PurchaseTypes', NEW u \in Buyers, NEW r \in DOMAIN po,
           OtherBuyers(u), buy[u].at \in {"idle"} \cup BillSteps, buy[u].at = "idle" \/ buy[u].po = r,
           buy'[u].at \in {"idle"} \cup BillSteps, buy'[u].at = "idle" \/ buy'[u].po = r,
           DOMAIN po' = DOMAIN po, \A x \in DOMAIN po \ {r} : po'[x] = po[x],
           po'[r].state = po[r].state, po'[r].line = po[r].line, po'[r].received = po[r].received,
           \A x \in Revisions \ {r} : bills'[x] = bills[x],
           UNCHANGED <<arrived, retired, late>>, twice \subseteq twice',
           <<r, "bill">> \notin twice' =>
              /\ \A v, w \in Buyers : Buying(v, r, BillSteps)' /\ Buying(w, r, BillSteps)' => v = w
              /\ \A w \in Buyers : Buying(w, r, BillSteps)' => ~po'[r].bill
              /\ bills'[r] = (IF po'[r].bill \/ \E w \in Buyers : Buying(w, r, {"link"})' THEN 1 ELSE 0)
    PROVE  PurchaseInv'
<1>1. PurchaseTypes /\ LiveInv /\ BillsInv /\ ReceiptInv /\ DOMAIN po \subseteq Revisions
  BY FirstRevision DEF PurchaseInv
<1>2. Off(MovingSteps)
  BY DEF Off, OtherBuyers, BillSteps, MovingSteps
<1>3. \A x \in DOMAIN po : (LivePo(x)' <=> LivePo(x)) /\ (Begun(x) => Begun(x)')
  BY DEF LivePo, Begun
<1>4. LiveInv'
  <2>1. ASSUME NEW w \in Buyers, buy'[w].at \in ReceiptSteps PROVE Begun(buy[w].po)'
    <3>1. PICK x : x = buy'[w].po
      OBVIOUS
    <3>2. Begun(x) /\ x \in DOMAIN po
      BY <1>1, <2>1, <3>1 DEF LiveInv, OtherBuyers, PurchaseTypes, ReceiptSteps, BillSteps
    <3>3. Begun(x)'
      BY <1>3, <3>2
    <3> QED
      BY <3>1, <3>3 DEF Begun, LivePo
  <2>2. \A x \in DOMAIN po : (po'[x].received > 0 => po[x].received > 0) /\ (Begun(x) => Begun(x)')
    BY <1>3
  <2>3. \A x \in retired' : po'[x].state # "rfq"
    BY <1>1 DEF LiveInv, PurchaseTypes
  <2>4. \A x, s \in DOMAIN po' : LivePo(x)' /\ LivePo(s)' => x = s
    BY <1>1, <1>3 DEF LiveInv
  <2>5. DOMAIN po \subseteq DOMAIN po' /\ \A x \in DOMAIN po' \ DOMAIN po : po'[x].received = 0
    OBVIOUS
  <2> QED
    BY <1>1, <2>1, <2>2, <2>3, <2>4, <2>5, LiveFrame
<1>5. ReceiptInv'
  <2>1. \A x \in DOMAIN po \ late' :
              /\ po'[x].received = po[x].received
              /\ po'[x].line = po[x].line \/ po[x].state = "rfq"
              /\ po'[x].state = "received" => po[x].state = "received"
    OBVIOUS
  <2>2. DOMAIN po \subseteq DOMAIN po' /\ \A x \in DOMAIN po' \ DOMAIN po : po'[x].received = 0 /\ ~po'[x].line /\ po'[x].state = "rfq"
    OBVIOUS
  <2> QED
    BY <1>1, <1>2, <2>1, <2>2, ReceiptFrame
<1>6. BillsInv'
  <2>1. ASSUME NEW x \in DOMAIN po', x # r, <<x, "bill">> \notin twice'
        PROVE  /\ \A v, w \in Buyers : Buying(v, x, BillSteps)' /\ Buying(w, x, BillSteps)' => v = w
               /\ \A w \in Buyers : Buying(w, x, BillSteps)' => ~po'[x].bill
               /\ bills'[x] = (IF po'[x].bill \/ \E w \in Buyers : Buying(w, x, {"link"})' THEN 1 ELSE 0)
    <3>1. \A w \in Buyers : (Buying(w, x, BillSteps)' <=> Buying(w, x, BillSteps)) /\ (Buying(w, x, {"link"})' <=> Buying(w, x, {"link"}))
      BY <2>1 DEF Buying, OtherBuyers, BillSteps
    <3>2. /\ \A v, w \in Buyers : Buying(v, x, BillSteps) /\ Buying(w, x, BillSteps) => v = w
          /\ \A w \in Buyers : Buying(w, x, BillSteps) => ~po[x].bill
          /\ bills[x] = (IF po[x].bill \/ \E w \in Buyers : Buying(w, x, {"link"}) THEN 1 ELSE 0)
      BY <1>1, <2>1 DEF BillsInv
    <3>3. po'[x] = po[x] /\ bills'[x] = bills[x]
      BY <1>1, <2>1
    <3> QED
      BY <3>1, <3>2, <3>3
  <2>2. \A x \in Revisions \ DOMAIN po' : bills'[x] = 0
    BY <1>1 DEF BillsInv
  <2> QED
    BY <2>1, <2>2 DEF BillsInv
<1> QED
  BY <1>1, <1>4, <1>5, <1>6 DEF PurchaseInv

LEMMA BillCheckStep ==
    ASSUME PurchaseInv, NEW u \in Buyers, NEW r \in DOMAIN po, BillCheck(u, r)
    PROVE  PurchaseInv'
<1>1. PurchaseTypes /\ BillsInv
  BY DEF PurchaseInv
<1>2. /\ buy' \in [Buyers -> Buy] /\ OtherBuyers(u) /\ buy'[u].at = "billLines" /\ buy'[u].po = r /\ buy[u].at = "idle"
  BY <1>1, Begun_ DEF BillCheck
<1>3. UNCHANGED <<po, arrived, bills, late, retired>> /\ twice \subseteq twice' /\ ~po[r].bill
  BY DEF BillCheck
<1>4. PurchaseTypes'
  BY <1>1, <1>2, <1>3, PurchaseTypesKept DEF PurchaseTypes
<1>5. ASSUME <<r, "bill">> \notin twice'
      PROVE  /\ \A v, w \in Buyers : Buying(v, r, BillSteps)' /\ Buying(w, r, BillSteps)' => v = w
             /\ \A w \in Buyers : Buying(w, r, BillSteps)' => ~po'[r].bill
             /\ bills'[r] = (IF po'[r].bill \/ \E w \in Buyers : Buying(w, r, {"link"})' THEN 1 ELSE 0)
  <2>1. \A v \in Buyers \ {u} : ~Buying(v, r, BillSteps)
    BY <1>5 DEF BillCheck, Buying, BillSteps
  <2>2. \A v \in Buyers : Buying(v, r, BillSteps)' => v = u
    BY <1>2, <2>1 DEF Buying, OtherBuyers, BillSteps
  <2>3. \A v \in Buyers : ~Buying(v, r, {"link"})' /\ ~Buying(v, r, {"link"})
    BY <1>2, <2>1 DEF Buying, OtherBuyers, BillSteps
  <2>4. bills[r] = (IF po[r].bill \/ \E w \in Buyers : Buying(w, r, {"link"}) THEN 1 ELSE 0)
    BY <1>1, <1>3, <1>5 DEF BillsInv
  <2> QED
    BY <1>3, <2>2, <2>3, <2>4
<1> QED
  BY <1>2, <1>3, <1>4, <1>5, SupplierBillMoved DEF BillSteps

\* The request leaves a step of the bill; a bill it created stays unlinked
\* only if that is noted.
LEMMA LeftBill ==
    ASSUME PurchaseInv, NEW u \in Buyers, NEW r \in DOMAIN po, buy[u].po = r, buy[u].at \in BillSteps,
           buy' \in [Buyers -> Buy], OtherBuyers(u), buy'[u].po \in DOMAIN po,
           buy'[u].at \in {"idle", "bill"}, buy'[u].at # "idle" => buy'[u].po = r,
           UNCHANGED <<po, arrived, bills, late, retired>>, twice \subseteq twice',
           buy[u].at = "link" => <<r, "bill">> \in twice'
    PROVE  PurchaseInv'
<1>1. PurchaseTypes /\ BillsInv
  BY DEF PurchaseInv
<1>2. PurchaseTypes'
  BY <1>1, PurchaseTypesKept DEF PurchaseTypes
<1>3. ASSUME <<r, "bill">> \notin twice'
      PROVE  /\ \A v, w \in Buyers : Buying(v, r, BillSteps)' /\ Buying(w, r, BillSteps)' => v = w
             /\ \A w \in Buyers : Buying(w, r, BillSteps)' => ~po'[r].bill
             /\ bills'[r] = (IF po'[r].bill \/ \E w \in Buyers : Buying(w, r, {"link"})' THEN 1 ELSE 0)
  <2>1. /\ \A v, w \in Buyers : Buying(v, r, BillSteps) /\ Buying(w, r, BillSteps) => v = w
        /\ \A w \in Buyers : Buying(w, r, BillSteps) => ~po[r].bill
        /\ bills[r] = (IF po[r].bill \/ \E w \in Buyers : Buying(w, r, {"link"}) THEN 1 ELSE 0)
    BY <1>1, <1>3 DEF BillsInv
  <2>2. \A w \in Buyers : (Buying(w, r, BillSteps)' => Buying(w, r, BillSteps)) /\ (Buying(w, r, {"link"})' <=> Buying(w, r, {"link"}))
    BY <1>3 DEF Buying, OtherBuyers, BillSteps
  <2> QED
    BY <2>1, <2>2
<1> QED
  BY <1>2, <1>3, SupplierBillMoved DEF BillSteps

LEMMA ReadBillLinesStep ==
    ASSUME PurchaseInv, NEW u \in Buyers, ReadBillLines(u)
    PROVE  PurchaseInv'
<1>1. PurchaseTypes
  BY DEF PurchaseInv
<1>2. PICK r : r = buy[u].po
  OBVIOUS
<1>3. r \in DOMAIN po /\ buy[u].at = "billLines"
  BY <1>1, <1>2 DEF PurchaseTypes, ReadBillLines, On
<1>4. PICK step \in {"bill", "idle"} : Next_(u, step)
  BY DEF ReadBillLines
<1>5. /\ buy' \in [Buyers -> Buy] /\ OtherBuyers(u) /\ buy'[u].at = step /\ buy'[u].po \in DOMAIN po
      /\ step # "idle" => buy'[u].po = r
  BY <1>1, <1>2, <1>4, Stepped
<1>6. UNCHANGED <<po, arrived, bills, late, retired, twice>>
  BY DEF ReadBillLines, observed
<1> QED
  BY <1>2, <1>3, <1>5, <1>6, LeftBill DEF BillSteps

LEMMA CreateBillStep ==
    ASSUME PurchaseInv, NEW u \in Buyers, create_vendor_bill(u)
    PROVE  PurchaseInv'
<1>1. PurchaseTypes /\ BillsInv
  BY DEF PurchaseInv
<1>2. PICK r : r = buy[u].po
  OBVIOUS
<1>3. r \in DOMAIN po /\ r \in Revisions /\ buy[u].at = "bill" /\ bills[r] \in Nat
  BY <1>1, <1>2, FirstRevision DEF PurchaseTypes, create_vendor_bill, On
<1>4. buy' \in [Buyers -> Buy] /\ OtherBuyers(u) /\ buy'[u].at = "link" /\ buy'[u].po = r
  BY <1>1, <1>2, Stepped DEF create_vendor_bill
<1>5. UNCHANGED <<po, arrived, late, retired, twice>>
  BY DEF create_vendor_bill, observed
<1>6. bills' \in [Revisions -> Nat] /\ bills'[r] = bills[r] + 1 /\ \A x \in Revisions \ {r} : bills'[x] = bills[x]
  BY <1>1, <1>2, <1>3 DEF create_vendor_bill, PurchaseTypes
<1>7. PurchaseTypes'
  BY <1>1, <1>3, <1>4, <1>5, <1>6, PurchaseTypesKept DEF PurchaseTypes
<1>8. ASSUME <<r, "bill">> \notin twice'
      PROVE  /\ \A v, w \in Buyers : Buying(v, r, BillSteps)' /\ Buying(w, r, BillSteps)' => v = w
             /\ \A w \in Buyers : Buying(w, r, BillSteps)' => ~po'[r].bill
             /\ bills'[r] = (IF po'[r].bill \/ \E w \in Buyers : Buying(w, r, {"link"})' THEN 1 ELSE 0)
  <2>1. /\ \A v, w \in Buyers : Buying(v, r, BillSteps) /\ Buying(w, r, BillSteps) => v = w
        /\ \A w \in Buyers : Buying(w, r, BillSteps) => ~po[r].bill
        /\ bills[r] = (IF po[r].bill \/ \E w \in Buyers : Buying(w, r, {"link"}) THEN 1 ELSE 0)
    BY <1>1, <1>3, <1>5, <1>8 DEF BillsInv
  <2>2. Buying(u, r, BillSteps) /\ ~Buying(u, r, {"link"})
    BY <1>2, <1>3 DEF Buying, BillSteps
  <2>3. \A w \in Buyers : Buying(w, r, {"link"}) => Buying(w, r, BillSteps)
    BY DEF Buying, BillSteps
  <2>4. ~po[r].bill /\ \A w \in Buyers : ~Buying(w, r, {"link"})
    BY <2>1, <2>2, <2>3
  <2>5. bills'[r] = 1
    BY <1>6, <2>1, <2>4
  <2>6. \A w \in Buyers : Buying(w, r, BillSteps)' <=> Buying(w, r, BillSteps)
    BY <1>4, <2>2 DEF Buying, OtherBuyers, BillSteps
  <2>7. Buying(u, r, {"link"})'
    BY <1>4 DEF Buying
  <2> QED
    BY <1>5, <2>1, <2>5, <2>6, <2>7
<1> QED
  BY <1>2, <1>3, <1>4, <1>5, <1>6, <1>7, <1>8, SupplierBillMoved DEF BillSteps

LEMMA LinkBillStep ==
    ASSUME PurchaseInv, NEW u \in Buyers, LinkBill(u)
    PROVE  PurchaseInv'
<1>1. PurchaseTypes /\ BillsInv
  BY DEF PurchaseInv
<1>2. PICK r : r = buy[u].po
  OBVIOUS
<1>3. r \in DOMAIN po /\ po[r] \in Po /\ buy[u].at = "link"
  BY <1>1, <1>2 DEF PurchaseTypes, LinkBill, On
<1>4. buy' \in [Buyers -> Buy] /\ OtherBuyers(u) /\ buy'[u].at = "idle" /\ buy'[u].po \in DOMAIN po
  BY <1>1, Stepped DEF LinkBill
<1>5. UNCHANGED <<arrived, bills, late, retired, twice>>
  BY DEF LinkBill, observed
<1>6. PICK v : v = [po[r] EXCEPT !.bill = TRUE]
  OBVIOUS
<1>7. v \in Po /\ v.bill /\ v.state = po[r].state /\ v.line = po[r].line /\ v.received = po[r].received
  BY <1>3, <1>6 DEF Po
<1>8. po' = [po EXCEPT ![r] = v]
  BY <1>1, <1>2, <1>6 DEF LinkBill, PurchaseTypes
<1>9. DOMAIN po' = DOMAIN po /\ po' \in [DOMAIN po -> Po] /\ po'[r] = v /\ \A x \in DOMAIN po \ {r} : po'[x] = po[x]
  BY <1>1, <1>3, <1>7, <1>8, BuyWritten
<1>10. PurchaseTypes'
  BY <1>1, <1>3, <1>4, <1>5, <1>9, PurchaseTypesKept DEF PurchaseTypes
<1>11. ASSUME <<r, "bill">> \notin twice'
      PROVE  /\ \A x, w \in Buyers : Buying(x, r, BillSteps)' /\ Buying(w, r, BillSteps)' => x = w
             /\ \A w \in Buyers : Buying(w, r, BillSteps)' => ~po'[r].bill
             /\ bills'[r] = (IF po'[r].bill \/ \E w \in Buyers : Buying(w, r, {"link"})' THEN 1 ELSE 0)
  <2>1. /\ \A x, w \in Buyers : Buying(x, r, BillSteps) /\ Buying(w, r, BillSteps) => x = w
        /\ bills[r] = (IF po[r].bill \/ \E w \in Buyers : Buying(w, r, {"link"}) THEN 1 ELSE 0)
    BY <1>1, <1>3, <1>5, <1>11 DEF BillsInv
  <2>2. Buying(u, r, BillSteps) /\ Buying(u, r, {"link"})
    BY <1>2, <1>3 DEF Buying, BillSteps
  <2>3. \A w \in Buyers : ~Buying(w, r, BillSteps)' /\ ~Buying(w, r, {"link"})'
    BY <1>4, <2>1, <2>2 DEF Buying, OtherBuyers, BillSteps
  <2> QED
    BY <1>5, <1>7, <1>9, <2>1, <2>2, <2>3
<1> QED
  BY <1>2, <1>3, <1>4, <1>5, <1>7, <1>9, <1>10, <1>11, SupplierBillMoved DEF BillSteps

LEMMA AbandonStep ==
    ASSUME PurchaseInv, NEW u \in Buyers, AbandonPurchase(u)
    PROVE  PurchaseInv'
<1>1. PurchaseTypes
  BY DEF PurchaseInv
<1>2. PICK r : r = buy[u].po
  OBVIOUS
<1>3. r \in DOMAIN po
  BY <1>1, <1>2 DEF PurchaseTypes
<1>4. UNCHANGED <<po, arrived, bills, late, retired>> /\ twice \subseteq twice'
  BY DEF AbandonPurchase
<1>5. /\ buy[u].at \in {"others", "cloneLine", "supersede", "advance", "outstanding", "flip", "link"}
      /\ buy[u].at = "advance" => <<r, "receive">> \in twice'
      /\ buy[u].at = "link" => <<r, "bill">> \in twice'
  BY <1>2 DEF AbandonPurchase, On
<1>6. PICK step \in {"outstanding", "idle"} : Next_(u, step) /\ (step # "idle" => buy[u].at = "advance")
  BY DEF AbandonPurchase, On
<1>7. /\ buy' \in [Buyers -> Buy] /\ OtherBuyers(u) /\ buy'[u].at = step /\ buy'[u].po \in DOMAIN po
      /\ step # "idle" => buy'[u].po = r
  BY <1>1, <1>2, <1>6, Stepped
<1>8. CASE buy[u].at \in {"others", "cloneLine", "supersede"}
  BY <1>4, <1>6, <1>7, <1>8, BuyWalked DEF BillSteps, MovingSteps, ReceiptSteps
<1>9. CASE buy[u].at \in {"advance", "outstanding", "flip"}
  BY <1>2, <1>3, <1>4, <1>5, <1>6, <1>7, <1>9, LeftReceipt DEF ReceiptSteps
<1>10. CASE buy[u].at = "link"
  BY <1>2, <1>3, <1>4, <1>5, <1>6, <1>7, <1>10, LeftBill DEF BillSteps
<1> QED
  BY <1>5, <1>8, <1>9, <1>10

-----------------------------------------------------------------------------
(* The invariant *)

LEMMA PurchaseStep ==
    ASSUME PurchaseInv, [PurchaseNext]_purchaseVars
    PROVE  PurchaseInv'
<1>1. CASE UNCHANGED purchaseVars
  <2>1. UNCHANGED <<po, buy, arrived, bills, twice, late, retired>>
    BY <1>1 DEF purchaseVars
  <2>2. PurchaseTypes' /\ LiveInv'
    BY <2>1 DEF PurchaseInv, PurchaseTypes, LiveInv, Begun, LivePo
  <2>3. BillsInv' /\ ReceiptInv'
    BY <2>1 DEF PurchaseInv, BillsInv, ReceiptInv, InOrder, Received, BuyingComplete, Missing, Buying
  <2> QED
    BY <2>2, <2>3 DEF PurchaseInv
<1>2. ASSUME NEW r \in DOMAIN po, mark_rfq_sent(r) \/ cancel_po(r) PROVE PurchaseInv'
  BY <1>2, SentStep
<1>3. ASSUME NEW r \in DOMAIN po, NEW u \in Buyers, Look(u, r) \/ BillCheck(u, r) PROVE PurchaseInv'
  BY <1>3, LookStep, BillCheckStep
<1>4. ASSUME NEW u \in Buyers,
             \/ WriteLine(u) \/ confirm_po(u) \/ SupersedeOtherRfqs(u)
             \/ RefuseIfLivePo(u) \/ revise_rfq(u) \/ CloneLine(u) \/ SupersedeRfq(u)
      PROVE PurchaseInv'
  BY <1>4, WriteLineStep, ConfirmPoStep, OthersStep, RefuseRequestStep, ReviseRequestStep, CloneLineStep, SupersedeStep
<1>5. ASSUME NEW u \in Buyers,
             \/ ReadMissing(u) \/ process_receipt(u) \/ AdvanceReceived(u) \/ CountMissing(u) \/ CountFails_(u)
             \/ MarkReceived(u)
      PROVE PurchaseInv'
  BY <1>5, ReadMissingStep, ProcessReceiptStep, AdvanceStep, CountMissingStep, CountFailsStep, MarkReceivedStep
<1>6. ASSUME NEW u \in Buyers,
             ReadBillLines(u) \/ create_vendor_bill(u) \/ LinkBill(u) \/ AbandonPurchase(u)
      PROVE PurchaseInv'
  BY <1>6, ReadBillLinesStep, CreateBillStep, LinkBillStep, AbandonStep
<1> QED
  BY <1>1, <1>2, <1>3, <1>4, <1>5, <1>6 DEF PurchaseNext

LEMMA PurchaseInitially == PurchaseInit => PurchaseInv
<1> SUFFICES ASSUME PurchaseInit PROVE PurchaseInv
  OBVIOUS
<1>1. MaxRfqs \in Nat \ {0} /\ Wanted \in Nat \ {0}
  BY PurchaseAssumption, StockAssumption DEF Quantities
<1>2. PICK s \in {"rfq", "confirmed"} : po = [r \in {1} |-> [state |-> s, line |-> TRUE, received |-> 0, bill |-> FALSE]]
  BY DEF PurchaseInit
<1>3. DOMAIN po = {1} /\ po[1].state = s /\ po[1].received = 0 /\ ~po[1].bill /\ po[1].line
  BY <1>2
<1>4. po \in [DOMAIN po -> Po]
  BY <1>2 DEF Po
<1>5. 1 \in Revisions /\ 1..1 = {1}
  BY <1>1 DEF Revisions
<1>6. NoBuy \in Buy /\ NoBuy.po = 1 /\ NoBuy.at = "idle"
  BY <1>1, <1>5 DEF NoBuy, Buy
<1>7. buy \in [Buyers -> Buy] /\ \A u \in Buyers : buy[u].po = 1 /\ buy[u].at = "idle"
  BY <1>6 DEF PurchaseInit
<1>8. /\ arrived \in [Revisions -> Nat] /\ bills \in [Revisions -> Nat]
      /\ retired = {} /\ \A r \in Revisions : arrived[r] = 0 /\ bills[r] = 0
  BY DEF PurchaseInit
<1>9. PurchaseTypes
  <2>1. \E n \in Revisions : DOMAIN po = 1..n
    BY <1>3, <1>5
  <2> QED
    BY <1>3, <1>4, <1>5, <1>7, <1>8, <2>1 DEF PurchaseTypes
<1>10. LiveInv
  BY <1>3, <1>7, <1>8 DEF LiveInv, ReceiptSteps
<1>11. BillsInv
  BY <1>3, <1>5, <1>7, <1>8 DEF BillsInv, Buying, BillSteps
<1>12. ReceiptInv
  BY <1>1, <1>2, <1>3, <1>5, <1>7, <1>8 DEF ReceiptInv, InOrder, Received, Buying
<1> QED
  BY <1>9, <1>10, <1>11, <1>12 DEF PurchaseInv

LEMMA PurchaseMeans == PurchaseInv => PurchasesMatchReceipts
<1> SUFFICES ASSUME PurchaseInv PROVE PurchasesMatchReceipts
  OBVIOUS
<1>1. PurchaseTypes /\ LiveInv /\ BillsInv /\ ReceiptInv /\ DOMAIN po \subseteq Revisions /\ Wanted \in Nat
  BY FirstRevision, PurchaseAssumption, StockAssumption DEF PurchaseInv, Quantities
<1>2. BilledOnce
  <2> SUFFICES ASSUME NEW r \in Revisions, bills[r] > 1, <<r, "bill">> \notin twice PROVE FALSE
    BY DEF BilledOnce
  <2>1. CASE r \in DOMAIN po
    BY <1>1, <2>1 DEF BillsInv
  <2>2. CASE r \notin DOMAIN po
    BY <1>1, <2>2 DEF BillsInv
  <2> QED
    BY <2>1, <2>2
<1>3. ReceiptsAreRecorded
  <2> SUFFICES ASSUME NEW r \in DOMAIN po \ late
               PROVE  /\ <<r, "receive">> \notin twice =>
                            /\ arrived[r] <= Wanted
                            /\ (\A u \in Buyers : ~(On(u, "advance") /\ buy[u].po = r)) => arrived[r] = po[r].received
                      /\ po[r].state = "received" => Missing(r) <= 0 \/ <<r, "count">> \in twice
    BY DEF ReceiptsAreRecorded
  <2>1. InOrder(r)
    BY <1>1 DEF ReceiptInv
  <2>2. po[r].state = "received" => Missing(r) <= 0 \/ <<r, "count">> \in twice
    BY <2>1 DEF InOrder, BuyingComplete
  <2>3. ASSUME <<r, "receive">> \notin twice
        PROVE  /\ arrived[r] <= Wanted
               /\ (\A u \in Buyers : ~(On(u, "advance") /\ buy[u].po = r)) => arrived[r] = po[r].received
    <3>1. Received(r)
      BY <2>1, <2>3 DEF InOrder
    <3>2. \A u \in Buyers : Buying(u, r, {"advance"}) <=> (On(u, "advance") /\ buy[u].po = r)
      BY DEF Buying, On
    <3>3. ASSUME NEW u \in Buyers, Buying(u, r, {"advance"}) PROVE arrived[r] <= Wanted
      <4>1. Buying(u, r, {"post", "advance"})
        BY <3>3 DEF Buying
      <4>2. arrived[r] = po[r].received + buy[u].qty /\ buy[u].qty + po[r].received <= Wanted
        BY <3>1, <3>3, <4>1 DEF Received
      <4>3. po[r].received \in Nat /\ buy[u].qty \in Nat
        BY <1>1 DEF PurchaseTypes, Po, Buy
      <4> QED
        BY <1>1, <4>2, <4>3
    <3>4. (\A u \in Buyers : ~Buying(u, r, {"advance"})) => arrived[r] = po[r].received /\ po[r].received <= Wanted
      BY <3>1 DEF Received
    <3> QED
      BY <3>2, <3>3, <3>4
  <2> QED
    BY <2>2, <2>3
<1>4. OneRevisionReceives
  BY <1>1 DEF OneRevisionReceives, LiveInv, Begun
<1> QED
  BY <1>2, <1>3, <1>4 DEF PurchasesMatchReceipts

\* Whatever the requests for one family of purchase orders do, and whenever
\* they end early: an order is billed once, what came in is what it records
\* and no more than was ordered, and one revision receives goods, except
\* where requests overlapped or a statement was lost.
THEOREM ReceiptsMatch == PurchaseSpec => []PurchasesMatchReceipts
<1>1. PurchaseInit => PurchaseInv
  BY PurchaseInitially
<1>2. PurchaseInv /\ [PurchaseNext]_purchaseVars => PurchaseInv'
  BY PurchaseStep
<1>3. PurchaseInv => PurchasesMatchReceipts
  BY PurchaseMeans
<1> QED
  BY <1>1, <1>2, <1>3, PTL DEF PurchaseSpec

-----------------------------------------------------------------------------
(* The types *)

\* What the observing sets name: revisions there are.
PurchaseNotes ==
    /\ twice \subseteq Revisions \X {"receive", "bill", "count"}
    /\ late \subseteq Revisions

\* Every step notes the revision of its own request.
LEMMA PurchaseNotesKept ==
    ASSUME PurchaseTypes, PurchaseNotes, [PurchaseNext]_purchaseVars
    PROVE  PurchaseNotes'
<1> PICK R, M : R = Revisions /\ M = {"receive", "bill", "count"}
  OBVIOUS
<1>0. twice \subseteq R \X M /\ late \subseteq R
  BY DEF PurchaseNotes
<1>1. SUFFICES twice' \subseteq R \X M /\ late' \subseteq R
  BY DEF PurchaseNotes, Revisions
<1>2. DOMAIN po \subseteq R /\ \A u \in Buyers : buy[u].po \in R
  BY DEF PurchaseTypes
<1>3. CASE UNCHANGED purchaseVars
  BY <1>0, <1>3 DEF purchaseVars
<1>4. ASSUME NEW r \in DOMAIN po, mark_rfq_sent(r) \/ cancel_po(r) \/ \E u \in Buyers : Look(u, r)
      PROVE  UNCHANGED <<twice, late>>
  BY <1>4 DEF mark_rfq_sent, cancel_po, Look, observed
<1>5. ASSUME NEW r \in DOMAIN po, NEW u \in Buyers, BillCheck(u, r)
      PROVE  UNCHANGED late /\ (UNCHANGED twice \/ twice' = twice \cup {<<r, "bill">>})
  BY <1>5 DEF BillCheck
<1>6. ASSUME NEW u \in Buyers,
             \/ confirm_po(u) \/ SupersedeOtherRfqs(u) \/ RefuseIfLivePo(u) \/ revise_rfq(u) \/ SupersedeRfq(u)
             \/ process_receipt(u) \/ AdvanceReceived(u) \/ CountMissing(u) \/ MarkReceived(u)
             \/ ReadBillLines(u) \/ create_vendor_bill(u) \/ LinkBill(u)
      PROVE  UNCHANGED <<twice, late>>
  BY <1>6 DEF confirm_po, SupersedeOtherRfqs, RefuseIfLivePo, revise_rfq, SupersedeRfq, process_receipt,
              AdvanceReceived, CountMissing, MarkReceived, ReadBillLines, create_vendor_bill, LinkBill, observed
<1>7. ASSUME NEW u \in Buyers, ReadMissing(u) \/ CountFails_(u) \/ AbandonPurchase(u)
      PROVE  UNCHANGED late /\ (UNCHANGED twice \/ \E m \in M : twice' = twice \cup {<<buy[u].po, m>>})
  <2>1. "receive" \in M /\ "bill" \in M /\ "count" \in M
    OBVIOUS
  <2>2. twice \cup {} = twice
    OBVIOUS
  <2>3. ASSUME ReadMissing(u) PROVE UNCHANGED late /\ (UNCHANGED twice \/ twice' = twice \cup {<<buy[u].po, "receive">>})
    BY <2>3 DEF ReadMissing
  <2>4. ASSUME CountFails_(u) PROVE UNCHANGED late /\ (UNCHANGED twice \/ twice' = twice \cup {<<buy[u].po, "count">>})
    BY <2>4 DEF CountFails_
  <2>5. ASSUME AbandonPurchase(u)
        PROVE  UNCHANGED late /\ (UNCHANGED twice \/ \E m \in {"receive", "bill"} : twice' = twice \cup {<<buy[u].po, m>>})
    BY <2>5 DEF AbandonPurchase
  <2> QED
    BY <1>7, <2>1, <2>3, <2>4, <2>5
<1>8. ASSUME NEW u \in Buyers, WriteLine(u)
      PROVE  UNCHANGED twice /\ late' \subseteq late \cup {buy[u].po}
  BY <1>8 DEF WriteLine
<1>9. ASSUME NEW u \in Buyers, CloneLine(u)
      PROVE  UNCHANGED twice /\ late' \subseteq late \cup {buy[u].new} /\ buy[u].new \in R
  BY <1>2, <1>9 DEF CloneLine, On, PurchaseTypes
<1>10. \A r \in R, m \in M : twice \cup {<<r, m>>} \subseteq R \X M
  BY <1>0
<1>11. "bill" \in M
  OBVIOUS
<1>12. ASSUME NEW r \in DOMAIN po, mark_rfq_sent(r) \/ cancel_po(r) \/ \E u \in Buyers : Look(u, r) \/ BillCheck(u, r)
       PROVE  twice' \subseteq R \X M /\ late' \subseteq R
  BY <1>0, <1>2, <1>4, <1>5, <1>10, <1>11, <1>12
<1>13. ASSUME NEW u \in Buyers, ReadMissing(u) \/ CountFails_(u) \/ AbandonPurchase(u)
       PROVE  twice' \subseteq R \X M /\ late' \subseteq R
  BY <1>0, <1>2, <1>7, <1>10, <1>13
<1>14. ASSUME NEW u \in Buyers, WriteLine(u) \/ CloneLine(u)
       PROVE  twice' \subseteq R \X M /\ late' \subseteq R
  BY <1>0, <1>2, <1>8, <1>9, <1>14
<1> QED
  BY <1>0, <1>3, <1>6, <1>12, <1>13, <1>14 DEF PurchaseNext

\* The types as PurchaseTypeOK states them.
LEMMA PurchaseTypesMean == PurchaseTypes /\ PurchaseNotes => PurchaseTypeOK
<1> SUFFICES ASSUME PurchaseTypes, PurchaseNotes PROVE PurchaseTypeOK
  OBVIOUS
<1>1. /\ DOMAIN po \subseteq Revisions /\ \A r \in DOMAIN po : po[r] \in Po
      /\ DOMAIN buy = Buyers /\ \A u \in Buyers : buy[u] \in Buy
      /\ arrived \in [Revisions -> Nat] /\ bills \in [Revisions -> Nat] /\ retired \subseteq Revisions
  BY DEF PurchaseTypes
<1> QED
  BY <1>1 DEF PurchaseTypeOK, PurchaseNotes

-----------------------------------------------------------------------------
(***************************************************************************)
(* Proof that deliveries and invoices of a family of quotations follow     *)
(* its one live order whatever the requests do (SalesOrders).              *)
(***************************************************************************)

OrderVersions == 1..MaxRevisions
FulfilSteps == {"goods", "services", "serve", "advance", "outstanding", "flip"}
InvoiceSteps == {"billable", "invoice", "invoiced"}
AfterSale == FulfilSteps \cup InvoiceSteps
\* The steps at which a request holds quantities, or will report on them.
Holding == {"serve", "advance", "outstanding", "flip", "invoice", "invoiced"}

SalesTypes ==
    /\ \E n \in OrderVersions : DOMAIN order = 1..n
    /\ DOMAIN order \subseteq OrderVersions /\ 1 \in DOMAIN order
    /\ order \in [DOMAIN order -> Order]
    /\ req \in [Salespeople -> Request]
    /\ \A u \in Salespeople :
          /\ req[u].order \in DOMAIN order
          /\ req[u].at = "cloneLines" => req[u].new \in DOMAIN order
          /\ req[u].at = "advance" => req[u].line \in Lines /\ req[u].todo[req[u].line] > 0
    /\ shipped \in [OrderVersions -> [Lines -> Nat]] /\ billed \in [OrderVersions -> [Lines -> Nat]]
    /\ dropped \subseteq DOMAIN order
    /\ salesFaults \in Nat

\* Only an order that is, or was, the live one of its family is fulfilled
\* and billed, and only on the lines it has.
Sold(r) == Live(r) \/ r \in dropped
SoldInv ==
    /\ \A r, s \in DOMAIN order : Live(r) /\ Live(s) => r = s
    /\ \A r \in OrderVersions, l \in Lines : shipped[r][l] > 0 \/ billed[r][l] > 0 => r \in DOMAIN order /\ Sold(r)
    /\ \A r \in DOMAIN order, l \in Lines :
          order[r].delivered[l] > 0 \/ order[r].invoiced[l] > 0 => Sold(r) /\ l \in order[r].lines
    /\ \A u \in Salespeople : req[u].at \in AfterSale => Sold(req[u].order)
    /\ \A r \in dropped : order[r].state # "quotation" /\ order[r].state # "sent"

\* One request serves a line; what it has moved is still to be recorded.
Serving(u, r, l) == req[u].order = r /\ req[u].at = "advance" /\ req[u].line = l
Shipping(r, l) ==
    <<r, l, "ship">> \notin overlapped =>
        /\ \A u, v \in Salespeople : Pending(u, r, l) /\ Pending(v, r, l) => u = v
        /\ \A u \in Salespeople : Pending(u, r, l) =>
              l \in order[r].lines /\ req[u].todo[l] + order[r].delivered[l] <= Ordered[l]
        /\ \A u \in Salespeople : Serving(u, r, l) => shipped[r][l] = order[r].delivered[l] + req[u].todo[l]
        /\ (\A u \in Salespeople : ~Serving(u, r, l)) => shipped[r][l] = order[r].delivered[l]
        /\ order[r].delivered[l] <= Ordered[l]

\* One request bills a line; what it has billed is still to be recorded.
Invoicing(u, r, l) == Billing(u, r, l) /\ req[u].at = "invoiced"
Invoiced(r, l) ==
    <<r, l, "bill">> \notin overlapped =>
        /\ \A u, v \in Salespeople : Billing(u, r, l) /\ Billing(v, r, l) => u = v
        /\ \A u \in Salespeople : Billing(u, r, l) =>
              l \in order[r].lines /\ order[r].invoiced[l] + req[u].todo[l] <= order[r].delivered[l]
        /\ \A u \in Salespeople : Invoicing(u, r, l) => billed[r][l] = order[r].invoiced[l] + req[u].todo[l]
        /\ (\A u \in Salespeople : ~Invoicing(u, r, l)) => billed[r][l] = order[r].invoiced[l]
        /\ order[r].invoiced[l] <= order[r].delivered[l]

LinesInv == \A r \in DOMAIN order \ edited, l \in Lines : Shipping(r, l) /\ Invoiced(r, l)

\* An order is flagged when it is complete, by the request that completes it.
Complete(r) == \A l \in OutstandingLines(r) : <<r, l, "count">> \in overlapped
Flagging(u, r) == req[u].order = r /\ req[u].at \in {"serve", "advance", "outstanding", "flip"}
FlagFollows(r) ==
    /\ \A u \in Salespeople : req[u].order = r /\ req[u].at = "flip" => Complete(r)
    /\ order[r].state = "delivered" => Complete(r)
    /\ (salesFaults = 0 /\ order[r].state = "confirmed" /\ order[r].lines # {} /\ OutstandingLines(r) = {})
         => \E u \in Salespeople : Flagging(u, r)
FlagInv == \A r \in DOMAIN order \ edited : FlagFollows(r)

SalesInv == SalesTypes /\ SoldInv /\ LinesInv /\ FlagInv

-----------------------------------------------------------------------------
(* Positions *)

Others(u) == \A w \in Salespeople \ {u} : req'[w] = req[w]

LEMMA OrderedFacts ==
    /\ MaxRevisions \in Nat \ {0} /\ 1 \in OrderVersions
    /\ \A l \in Lines : Ordered[l] \in Nat \ {0}
    /\ "-" \notin Lines
<1>1. Quantities \subseteq Nat \ {0}
  BY StockAssumption DEF Quantities
<1>2. MaxRevisions \in Nat \ {0} /\ 1 \in OrderVersions
  BY SalesAssumption DEF OrderVersions
<1>3. \A l \in Lines : Ordered[l] \in Nat \ {0}
  BY <1>1, SalesAssumption DEF Lines
<1>4. Lines \subseteq {"stockable", "consumable", "service"}
  BY SalesAssumption DEF Lines
<1>5. "-" \notin Lines
  BY <1>4
<1> QED
  BY <1>2, <1>3, <1>5

LEMMA IdleIsRequest ==
    SalesTypes => Idle \in Request /\ Idle.at = "idle" /\ Idle.order = 1 /\ Idle.order \in DOMAIN order
BY OrderedFacts DEF Idle, Request, NoneOf, SalesTypes, OrderVersions

LEMMA ReqMoves ==
    ASSUME SalesTypes, NEW u \in Salespeople, NEW v \in Request, req' = [req EXCEPT ![u] = v]
    PROVE  req' \in [Salespeople -> Request] /\ req'[u] = v /\ Others(u)
BY DEF SalesTypes, Others

LEMMA Goes ==
    ASSUME SalesTypes, NEW u \in Salespeople, NEW step,
           step \in {"insert", "others", "clone", "supersede", "flip", "invoiced"}, Goto(u, step)
    PROVE  /\ req' \in [Salespeople -> Request] /\ Others(u) /\ req'[u].at = step
           /\ req'[u].order = req[u].order /\ req'[u].todo = req[u].todo /\ req'[u].order \in DOMAIN order
<1>1. PICK v : v = [req[u] EXCEPT !.at = step]
  OBVIOUS
<1>2. req[u] \in Request /\ req[u].order \in DOMAIN order
  BY DEF SalesTypes
<1>3. v \in Request /\ v.at = step /\ v.order = req[u].order /\ v.todo = req[u].todo
  BY <1>1, <1>2 DEF Request
<1>4. req' = [req EXCEPT ![u] = v]
  BY <1>1 DEF Goto, SalesTypes
<1> QED
  BY <1>2, <1>3, <1>4, ReqMoves

LEMMA Ends ==
    ASSUME SalesTypes, NEW u \in Salespeople, Done(u)
    PROVE  /\ req' \in [Salespeople -> Request] /\ Others(u) /\ req'[u].at = "idle"
           /\ req'[u].order \in DOMAIN order
BY IdleIsRequest, ReqMoves DEF Done

LEMMA Asks ==
    ASSUME SalesTypes, NEW u \in Salespeople, NEW r \in DOMAIN order,
           NEW step, step \in {"replace", "add", "remove", "confirm", "live", "goods", "services", "billable"},
           Ask(u, r, step)
    PROVE  /\ req' \in [Salespeople -> Request] /\ Others(u) /\ req'[u].at = step /\ req'[u].order = r
           /\ req[u].at = "idle"
<1>1. PICK v : v = [Idle EXCEPT !.at = step, !.order = r, !.lost = (order[r].state = "lost")]
  OBVIOUS
<1>2. r \in 1..MaxRevisions
  BY DEF SalesTypes, OrderVersions
<1>3. v \in Request /\ v.at = step /\ v.order = r
  BY <1>1, <1>2, IdleIsRequest DEF Request, Idle
<1>4. req' = [req EXCEPT ![u] = v] /\ req[u].at = "idle"
  BY <1>1 DEF Ask, At
<1> QED
  BY <1>3, <1>4, ReqMoves

\* The types follow from those of the variables that change.
LEMMA TypesKept ==
    ASSUME SalesTypes, DOMAIN order' = DOMAIN order, order' \in [DOMAIN order -> Order], NEW u \in Salespeople,
           req' \in [Salespeople -> Request], Others(u), req'[u].order \in DOMAIN order,
           req'[u].at # "cloneLines",
           req'[u].at = "advance" => req'[u].line \in Lines /\ req'[u].todo[req'[u].line] > 0,
           shipped' \in [OrderVersions -> [Lines -> Nat]], billed' \in [OrderVersions -> [Lines -> Nat]],
           dropped' \subseteq DOMAIN order, salesFaults' \in Nat
    PROVE  SalesTypes'
BY DEF SalesTypes, Others, OrderVersions, Lines

LEMMA OrdersKept ==
    ASSUME SalesTypes, DOMAIN order' = DOMAIN order, order' \in [DOMAIN order -> Order], req' = req,
           UNCHANGED <<shipped, billed, salesFaults>>, dropped' \subseteq DOMAIN order
    PROVE  SalesTypes'
BY DEF SalesTypes, OrderVersions, Lines

LEMMA OrderFacts ==
    ASSUME SalesTypes, NEW r \in DOMAIN order
    PROVE  /\ r \in OrderVersions /\ order[r] \in Order /\ order[r].lines \subseteq Lines
           /\ order[r].delivered \in [Lines -> Nat] /\ order[r].invoiced \in [Lines -> Nat]
           /\ \A l \in Lines : /\ order[r].delivered[l] \in Nat /\ order[r].invoiced[l] \in Nat
                               /\ shipped[r][l] \in Nat /\ billed[r][l] \in Nat
<1>1. r \in OrderVersions /\ order[r] \in Order
  BY DEF SalesTypes
<1>2. shipped[r] \in [Lines -> Nat] /\ billed[r] \in [Lines -> Nat]
  BY <1>1 DEF SalesTypes
<1> QED
  BY <1>1, <1>2 DEF Order

LEMMA RequestFacts ==
    ASSUME SalesTypes, NEW u \in Salespeople
    PROVE  /\ req[u] \in Request /\ req[u].order \in DOMAIN order /\ req[u].todo \in [Lines -> Nat]
           /\ \A l \in Lines : req[u].todo[l] \in Nat
BY DEF SalesTypes, Request

-----------------------------------------------------------------------------
(* What a step leaves of the lines of an order *)

\* The requests that hold a quantity of the line still hold it.
SameHolders(r, l) ==
    \A w \in Salespeople :
        /\ Pending(w, r, l)' => Pending(w, r, l) /\ req'[w].todo[l] = req[w].todo[l]
        /\ Serving(w, r, l)' <=> Serving(w, r, l)
        /\ Serving(w, r, l)' => req'[w].todo[l] = req[w].todo[l]
SameBillers(r, l) ==
    \A w \in Salespeople :
        /\ Billing(w, r, l)' => Billing(w, r, l) /\ req'[w].todo[l] = req[w].todo[l]
        /\ Invoicing(w, r, l)' <=> Invoicing(w, r, l)

LEMMA ShippingFrame ==
    ASSUME NEW r, NEW l, Shipping(r, l), SameHolders(r, l), overlapped \subseteq overlapped',
           l \in order[r].lines => l \in order'[r].lines,
           order'[r].delivered[l] = order[r].delivered[l], shipped'[r][l] = shipped[r][l]
    PROVE  Shipping(r, l)'
BY DEF Shipping, SameHolders

LEMMA InvoicedFrame ==
    ASSUME NEW r \in DOMAIN order, NEW l \in Lines, SalesTypes, SalesTypes',
           r \in DOMAIN order',
           Invoiced(r, l), SameBillers(r, l), overlapped \subseteq overlapped',
           l \in order[r].lines => l \in order'[r].lines,
           order'[r].invoiced[l] = order[r].invoiced[l], billed'[r][l] = billed[r][l],
           order'[r].delivered[l] >= order[r].delivered[l]
    PROVE  Invoiced(r, l)'
<1> SUFFICES ASSUME <<r, l, "bill">> \notin overlapped' PROVE Invoiced(r, l)'
  BY DEF Invoiced
<1>1. /\ \A u, v \in Salespeople : Billing(u, r, l) /\ Billing(v, r, l) => u = v
      /\ \A u \in Salespeople : Billing(u, r, l) =>
              l \in order[r].lines /\ order[r].invoiced[l] + req[u].todo[l] <= order[r].delivered[l]
      /\ \A u \in Salespeople : Invoicing(u, r, l) => billed[r][l] = order[r].invoiced[l] + req[u].todo[l]
      /\ (\A u \in Salespeople : ~Invoicing(u, r, l)) => billed[r][l] = order[r].invoiced[l]
      /\ order[r].invoiced[l] <= order[r].delivered[l]
  BY DEF Invoiced
<1>2. /\ order[r].delivered[l] \in Nat /\ order[r].invoiced[l] \in Nat /\ order'[r].delivered[l] \in Nat
      /\ \A u \in Salespeople : req[u].todo[l] \in Nat
  <2>1. order[r].delivered[l] \in Nat /\ order[r].invoiced[l] \in Nat
    BY OrderFacts
  <2>2. order'[r] \in Order
    BY DEF SalesTypes
  <2> QED
    BY <2>1, <2>2, RequestFacts DEF Order
<1>3. \A u \in Salespeople : Billing(u, r, l)' =>
              l \in order'[r].lines /\ order'[r].invoiced[l] + req'[u].todo[l] <= order'[r].delivered[l]
  BY <1>1, <1>2 DEF SameBillers
<1>4. order'[r].invoiced[l] <= order'[r].delivered[l]
  BY <1>1, <1>2
<1>5. \A u \in Salespeople : Invoicing(u, r, l)' => Billing(u, r, l)' /\ Invoicing(u, r, l)
  BY DEF Invoicing, SameBillers
<1>6. \A u \in Salespeople : Invoicing(u, r, l)' => billed'[r][l] = order'[r].invoiced[l] + req'[u].todo[l]
  BY <1>1, <1>5 DEF SameBillers
<1> QED
  BY <1>1, <1>3, <1>4, <1>6 DEF Invoiced, SameBillers

\* Nothing has happened to an order that has not been sold.
LEMMA Unsold ==
    ASSUME SalesTypes, SoldInv, NEW r \in DOMAIN order, ~Sold(r), NEW l \in Lines
    PROVE  /\ order[r].delivered[l] = 0 /\ order[r].invoiced[l] = 0 /\ shipped[r][l] = 0 /\ billed[r][l] = 0
           /\ \A u \in Salespeople : ~Pending(u, r, l) /\ ~Serving(u, r, l) /\ ~Billing(u, r, l)
           /\ Shipping(r, l) /\ Invoiced(r, l)
<1>1. /\ order[r].delivered[l] = 0 /\ order[r].invoiced[l] = 0 /\ shipped[r][l] = 0 /\ billed[r][l] = 0
  BY OrderFacts DEF SoldInv
<1>2. \A u \in Salespeople : req[u].order = r => req[u].at \notin AfterSale
  BY DEF SoldInv
<1>3. \A u \in Salespeople : ~Pending(u, r, l) /\ ~Serving(u, r, l) /\ ~Billing(u, r, l)
  BY <1>2 DEF Pending, Serving, Billing, AfterSale, FulfilSteps, InvoiceSteps
<1>4. Ordered[l] \in Nat
  BY OrderedFacts
<1>5. Shipping(r, l)
  BY <1>1, <1>3, <1>4 DEF Shipping
<1>6. Invoiced(r, l)
  BY <1>1, <1>3 DEF Invoiced, Invoicing
<1> QED
  BY <1>1, <1>3, <1>5, <1>6

LEMMA UnsoldFlag ==
    ASSUME SalesTypes, SoldInv, NEW r \in DOMAIN order, ~Sold(r)
    PROVE  FlagFollows(r)
<1>1. order[r].state # "delivered" /\ order[r].state # "confirmed"
  BY DEF Sold, Live
<1>2. \A u \in Salespeople : req[u].order = r => req[u].at # "flip"
  BY DEF SoldInv, AfterSale, FulfilSteps
<1> QED
  BY <1>1, <1>2 DEF FlagFollows

LEMMA UnsoldNow ==
    SalesTypes /\ SoldInv =>
        \A r \in DOMAIN order : ~Sold(r) => FlagFollows(r) /\ \A l \in Lines : Shipping(r, l) /\ Invoiced(r, l)
BY Unsold, UnsoldFlag

LEMMA UnsoldThen ==
    (SalesTypes /\ SoldInv =>
        \A r \in DOMAIN order : ~Sold(r) => FlagFollows(r) /\ \A l \in Lines : Shipping(r, l) /\ Invoiced(r, l))'
BY UnsoldNow, PTL

LEMMA UnsoldInOrder ==
    ASSUME SalesTypes', SoldInv', NEW r \in DOMAIN order', ~Sold(r)'
    PROVE  FlagFollows(r)' /\ \A l \in Lines : Shipping(r, l)' /\ Invoiced(r, l)'
BY UnsoldThen DEF Lines

-----------------------------------------------------------------------------
(* Editing, confirming and revising *)

SameLines(r) ==
    /\ order'[r].lines = order[r].lines
    /\ order'[r].delivered = order[r].delivered
    /\ order'[r].invoiced = order[r].invoiced
\* Only requests that hold nothing move.
Aside == \A w \in Salespeople : req'[w] = req[w] \/ (req[w].at \notin Holding /\ req'[w].at \notin Holding)

LEMMA AsideFrames == Aside => \A r, l : SameHolders(r, l) /\ SameBillers(r, l)
<1> SUFFICES ASSUME Aside, NEW r, NEW l PROVE SameHolders(r, l) /\ SameBillers(r, l)
  OBVIOUS
<1>1. ASSUME NEW w \in Salespeople, req'[w] = req[w]
      PROVE  /\ Pending(w, r, l)' <=> Pending(w, r, l)
             /\ Serving(w, r, l)' <=> Serving(w, r, l)
             /\ Billing(w, r, l)' <=> Billing(w, r, l)
             /\ Invoicing(w, r, l)' <=> Invoicing(w, r, l)
             /\ req'[w].todo[l] = req[w].todo[l]
  BY <1>1 DEF Pending, Serving, Billing, Invoicing
<1>2. ASSUME NEW w \in Salespeople, req[w].at \notin Holding, req'[w].at \notin Holding
      PROVE  /\ ~Pending(w, r, l)' /\ ~Serving(w, r, l)' /\ ~Billing(w, r, l)' /\ ~Invoicing(w, r, l)'
             /\ ~Serving(w, r, l) /\ ~Invoicing(w, r, l)
  BY <1>2 DEF Pending, Serving, Billing, Invoicing, Holding
<1> QED
  BY <1>1, <1>2 DEF Aside, SameHolders, SameBillers

\* No goods and no invoices: the step writes orders and positions only.
LEMMA Edited ==
    ASSUME SalesInv, SalesTypes', UNCHANGED <<shipped, billed>>,
           overlapped \subseteq overlapped', edited \subseteq edited', salesFaults <= salesFaults',
           DOMAIN order \subseteq DOMAIN order',
           \A r \in DOMAIN order : Sold(r) => Sold(r)',
           \A r \in DOMAIN order' : Sold(r)' => r \in DOMAIN order,
           \A r \in DOMAIN order \ edited' : Sold(r)' => SameLines(r) /\ (order'[r].state = "delivered" => order[r].state = "delivered"),
           \A r \in DOMAIN order', l \in Lines :
              order'[r].delivered[l] > 0 \/ order'[r].invoiced[l] > 0 =>
                  r \in DOMAIN order /\ l \in order'[r].lines /\ Sold(r),
           \A r \in DOMAIN order : order'[r].state = "confirmed" => order[r].state = "confirmed" \/ ~Sold(r),
           \A r, s \in DOMAIN order' : Live(r)' /\ Live(s)' => r = s,
           \A r \in dropped' : order'[r].state # "quotation" /\ order'[r].state # "sent",
           Aside,
           \A w \in Salespeople : req'[w].at \in AfterSale => Sold(req[w].order)'
    PROVE  SalesInv'
<1>1. SalesTypes /\ SoldInv /\ LinesInv /\ FlagInv
  BY DEF SalesInv
<1>2. SoldInv'
  BY <1>1 DEF SoldInv
<1>3. ASSUME NEW r \in DOMAIN order' \ edited', Sold(r)'
      PROVE  (\A l \in Lines : Shipping(r, l)' /\ Invoiced(r, l)') /\ FlagFollows(r)'
  <2>1. r \in DOMAIN order \ edited /\ SameLines(r) /\ (order'[r].state = "delivered" => order[r].state = "delivered")
    BY <1>3
  <2>2. FlagFollows(r) /\ \A l \in Lines : Shipping(r, l) /\ Invoiced(r, l)
    BY <1>1, <2>1 DEF LinesInv, FlagInv
  <2>3. \A l \in Lines : order'[r].delivered[l] >= order[r].delivered[l]
    BY <1>1, <2>1, OrderFacts DEF SameLines
  <2>4. ASSUME NEW l \in Lines PROVE Shipping(r, l)' /\ Invoiced(r, l)'
    <3>1. SameHolders(r, l) /\ SameBillers(r, l)
      BY AsideFrames
    <3> QED
      BY <1>1, <2>1, <2>2, <2>3, <3>1, ShippingFrame, InvoicedFrame DEF SameLines
  <2>5. OutstandingLines(r)' = OutstandingLines(r) /\ (Complete(r) => Complete(r)')
    BY <2>1 DEF OutstandingLines, Remaining, Complete, SameLines
  <2>6. \A u \in Salespeople : /\ req'[u].order = r /\ req'[u].at = "flip" => req[u].order = r /\ req[u].at = "flip"
                               /\ Flagging(u, r) => Flagging(u, r)'
    BY DEF Aside, Holding, Flagging
  <2>7. ASSUME salesFaults' = 0, order'[r].state = "confirmed", order'[r].lines # {}, OutstandingLines(r)' = {}
        PROVE  \E u \in Salespeople : Flagging(u, r)'
    <3>1. salesFaults = 0
      BY <1>1, <2>7 DEF SalesTypes
    <3>2. CASE order[r].state = "confirmed"
      BY <2>1, <2>2, <2>5, <2>6, <2>7, <3>1, <3>2 DEF FlagFollows, SameLines
    <3>3. CASE ~Sold(r)
      <4>1. PICK l \in order[r].lines : TRUE
        BY <2>1, <2>7 DEF SameLines
      <4>2. l \in Lines /\ order[r].delivered[l] = 0 /\ Ordered[l] \in Nat \ {0}
        BY <1>1, <2>1, <3>3, <4>1, OrderFacts, Unsold, OrderedFacts
      <4>3. l \in OutstandingLines(r)
        BY <4>1, <4>2 DEF OutstandingLines, Remaining
      <4> QED
        BY <2>5, <2>7, <4>3
    <3> QED
      BY <2>1, <2>7, <3>2, <3>3
  <2>8. FlagFollows(r)'
    BY <2>1, <2>2, <2>5, <2>6, <2>7 DEF FlagFollows
  <2> QED
    BY <2>4, <2>8
<1>4. ASSUME NEW r \in DOMAIN order' \ edited', ~Sold(r)'
      PROVE  (\A l \in Lines : Shipping(r, l)' /\ Invoiced(r, l)') /\ FlagFollows(r)'
  BY <1>2, <1>4, UnsoldInOrder
<1> QED
  BY <1>2, <1>3, <1>4 DEF SalesInv, LinesInv, FlagInv

\* The request moves on and the orders stay as they are.
LEMMA Walked ==
    ASSUME SalesInv, NEW u \in Salespeople, req' \in [Salespeople -> Request], Others(u),
           req'[u].order \in DOMAIN order, req[u].at \notin Holding, req'[u].at \notin Holding,
           req'[u].at # "cloneLines", req'[u].at \in AfterSale => Sold(req'[u].order),
           UNCHANGED <<order, shipped, billed, dropped>>, salesFaults' \in Nat, salesFaults <= salesFaults',
           overlapped \subseteq overlapped', edited \subseteq edited'
    PROVE  SalesInv'
<1>1. SalesTypes /\ SoldInv
  BY DEF SalesInv
<1>2. SalesTypes'
  BY <1>1, TypesKept DEF SalesTypes, Holding
<1>3. \A r : (Live(r)' <=> Live(r)) /\ (Sold(r)' <=> Sold(r))
  BY DEF Sold, Live
<1>4. Aside
  BY DEF Aside, Others
<1>5. ASSUME NEW w \in Salespeople, req'[w].at \in AfterSale PROVE Sold(req[w].order)'
  <2>1. PICK r : r = req'[w].order
    OBVIOUS
  <2>2. Sold(r)
    BY <1>1, <1>5, <2>1 DEF SoldInv, Others
  <2> QED
    BY <1>3, <2>1, <2>2 DEF Sold, Live
<1>6. \A r, s \in DOMAIN order' : Live(r)' /\ Live(s)' => r = s
  BY <1>1, <1>3 DEF SoldInv
<1>7. \A r \in DOMAIN order' : Sold(r)' => r \in DOMAIN order
  OBVIOUS
<1>8. \A r \in DOMAIN order \ edited' : Sold(r)' => SameLines(r) /\ (order'[r].state = "delivered" => order[r].state = "delivered")
  BY DEF SameLines
<1>9. \A r \in DOMAIN order', l \in Lines :
          order'[r].delivered[l] > 0 \/ order'[r].invoiced[l] > 0 =>
              r \in DOMAIN order /\ l \in order'[r].lines /\ Sold(r)
  BY <1>1 DEF SoldInv
<1>10. \A r \in dropped' : order'[r].state # "quotation" /\ order'[r].state # "sent"
  BY <1>1 DEF SoldInv
<1>11. \A r \in DOMAIN order : order'[r].state = "confirmed" => order[r].state = "confirmed" \/ ~Sold(r)
  OBVIOUS
<1> QED
  BY <1>2, <1>3, <1>4, <1>5, <1>6, <1>7, <1>8, <1>9, <1>10, <1>11, Edited

\* One order is written.
LEMMA OrderWritten ==
    ASSUME SalesInv, SalesTypes', NEW r \in DOMAIN order, DOMAIN order' = DOMAIN order,
           \A x \in DOMAIN order \ {r} : order'[x] = order[x],
           UNCHANGED <<shipped, billed>>,
           overlapped \subseteq overlapped', edited \subseteq edited', salesFaults <= salesFaults',
           Sold(r) => Sold(r)', dropped \subseteq dropped', dropped' \subseteq dropped \cup {r},
           r \notin edited' /\ Sold(r)' => SameLines(r) /\ (order'[r].state = "delivered" => order[r].state = "delivered"),
           \A l \in Lines : order'[r].delivered[l] > 0 \/ order'[r].invoiced[l] > 0 => l \in order'[r].lines /\ Sold(r),
           order'[r].state = "confirmed" => order[r].state = "confirmed" \/ ~Sold(r),
           Live(r)' => Live(r) \/ IndexAllows(r),
           r \in dropped' => order'[r].state # "quotation" /\ order'[r].state # "sent",
           Aside,
           \A w \in Salespeople : req'[w].at \in AfterSale => req[w].at \in AfterSale /\ req'[w].order = req[w].order
    PROVE  SalesInv'
<1>1. SalesTypes /\ SoldInv
  BY DEF SalesInv
<1>2. \A x \in DOMAIN order \ {r} : (Live(x)' <=> Live(x)) /\ (Sold(x) => Sold(x)')
  BY DEF Sold, Live
<1>3. ASSUME NEW w \in Salespeople, req'[w].at \in AfterSale PROVE Sold(req[w].order)'
  <2>1. PICK x : x = req'[w].order
    OBVIOUS
  <2>2. Sold(x) /\ x \in DOMAIN order
    BY <1>1, <1>3, <2>1 DEF SoldInv, SalesTypes
  <2>3. Sold(x)'
    BY <1>2, <2>2
  <2> QED
    BY <2>1, <2>3 DEF Sold, Live
<1>4. \A x, s \in DOMAIN order' : Live(x)' /\ Live(s)' => x = s
  <2>1. ASSUME NEW x \in DOMAIN order, NEW s \in DOMAIN order, Live(x)', Live(s)', x # s PROVE FALSE
    <3>1. CASE x # r /\ s # r
      BY <1>1, <1>2, <2>1, <3>1 DEF SoldInv
    <3>2. CASE x = r
      <4>1. Live(s)
        BY <1>2, <2>1, <3>2
      <4> QED
        BY <1>1, <2>1, <3>2, <4>1 DEF SoldInv, IndexAllows
    <3>3. CASE s = r
      <4>1. Live(x)
        BY <1>2, <2>1, <3>3
      <4> QED
        BY <1>1, <2>1, <3>3, <4>1 DEF SoldInv, IndexAllows
    <3> QED
      BY <3>1, <3>2, <3>3
  <2> QED
    BY <2>1
<1>5. \A x \in dropped' : order'[x].state # "quotation" /\ order'[x].state # "sent"
  BY <1>1 DEF SoldInv, SalesTypes
<1>6. \A x \in DOMAIN order \ edited' : Sold(x)' => SameLines(x) /\ (order'[x].state = "delivered" => order[x].state = "delivered")
  BY DEF SameLines
<1>7. \A x \in DOMAIN order', l \in Lines :
          order'[x].delivered[l] > 0 \/ order'[x].invoiced[l] > 0 =>
              x \in DOMAIN order /\ l \in order'[x].lines /\ Sold(x)
  BY <1>1 DEF SoldInv
<1>8. \A x \in DOMAIN order : /\ Sold(x) => Sold(x)'
                              /\ order'[x].state = "confirmed" => order[x].state = "confirmed" \/ ~Sold(x)
  BY <1>2
<1>9. \A x \in DOMAIN order' : Sold(x)' => x \in DOMAIN order
  OBVIOUS
<1> QED
  BY <1>3, <1>4, <1>5, <1>6, <1>7, <1>8, <1>9, Edited

LEMMA RowWritten ==
    ASSUME SalesTypes, NEW r \in DOMAIN order, NEW v \in Order, order' = [order EXCEPT ![r] = v]
    PROVE  DOMAIN order' = DOMAIN order /\ order' \in [DOMAIN order -> Order] /\ order'[r] = v
           /\ \A x \in DOMAIN order \ {r} : order'[x] = order[x]
BY DEF SalesTypes

\* Lines that are taken out are taken out with their quantities.
LinesKept(o, v) ==
    \A l \in Lines :
        /\ v.delivered[l] = 0 \/ v.delivered[l] = o.delivered[l]
        /\ v.invoiced[l] = 0 \/ v.invoiced[l] = o.invoiced[l]
        /\ v.delivered[l] > 0 \/ v.invoiced[l] > 0 => l \in v.lines \/ l \notin o.lines
Rewritten(r) == \E v \in Order : order' = [order EXCEPT ![r] = v] /\ v.state = order[r].state /\ LinesKept(order[r], v)

\* The lines of an order are written.
LEMMA LinesWritten ==
    ASSUME SalesInv, NEW u \in Salespeople, NEW r \in DOMAIN order, NEW v \in Order,
           order' = [order EXCEPT ![r] = v], v.state = order[r].state,
           LinesKept(order[r], v),
           edited \subseteq edited', r \notin edited' => order[r].state = "quotation",
           req' \in [Salespeople -> Request], Others(u), req'[u].order \in DOMAIN order,
           req[u].at \notin AfterSale, req'[u].at \notin AfterSale, req'[u].at # "cloneLines",
           UNCHANGED <<shipped, billed, overlapped, dropped, salesFaults>>
    PROVE  SalesInv'
<1>1. SalesTypes /\ SoldInv
  BY DEF SalesInv
<1>2. DOMAIN order' = DOMAIN order /\ order' \in [DOMAIN order -> Order] /\ order'[r] = v
      /\ \A x \in DOMAIN order \ {r} : order'[x] = order[x]
  BY <1>1, RowWritten
<1>3. SalesTypes'
  BY <1>1, <1>2, TypesKept DEF SalesTypes, AfterSale, FulfilSteps
<1>4. Sold(r)' <=> Sold(r)
  BY <1>2 DEF Sold, Live
<1>5. order[r].state = "quotation" => ~Sold(r)
  BY <1>1 DEF SoldInv, Sold, Live
<1>6. \A l \in Lines : order'[r].delivered[l] > 0 \/ order'[r].invoiced[l] > 0 => l \in order'[r].lines /\ Sold(r)
  <2>1. ASSUME NEW l \in Lines, order'[r].delivered[l] > 0 \/ order'[r].invoiced[l] > 0
        PROVE  l \in order'[r].lines /\ Sold(r)
    <3>1. order[r].delivered[l] > 0 \/ order[r].invoiced[l] > 0
      BY <1>2, <2>1 DEF LinesKept
    <3>2. Sold(r) /\ l \in order[r].lines
      BY <1>1, <3>1 DEF SoldInv
    <3> QED
      BY <1>2, <2>1, <3>2 DEF LinesKept
  <2> QED
    BY <2>1
<1>7. Aside /\ \A w \in Salespeople : req'[w].at \in AfterSale => req[w].at \in AfterSale /\ req'[w].order = req[w].order
  BY DEF Aside, Others, AfterSale, Holding, FulfilSteps, InvoiceSteps
<1>8. Live(r)' => Live(r)
  BY <1>2 DEF Live
<1>9. r \in dropped' => order'[r].state # "quotation" /\ order'[r].state # "sent"
  BY <1>1, <1>2 DEF SoldInv
<1>10. salesFaults <= salesFaults'
  BY <1>1 DEF SalesTypes
<1> QED
  BY <1>2, <1>3, <1>4, <1>5, <1>6, <1>7, <1>8, <1>9, <1>10, OrderWritten

LEMMA Removed ==
    ASSUME NEW o \in Order, NEW gone \in SUBSET Lines, NEW v, v = WithoutLines(o, gone)
    PROVE  /\ v \in Order /\ v.state = o.state /\ v.notes = o.notes /\ v.lines = o.lines \ gone
           /\ v.delivered = [l \in Lines |-> IF l \in gone THEN 0 ELSE o.delivered[l]]
           /\ v.invoiced = [l \in Lines |-> IF l \in gone THEN 0 ELSE o.invoiced[l]]
<1>1. PICK d : d = [l \in Lines |-> IF l \in gone THEN 0 ELSE o.delivered[l]]
  OBVIOUS
<1>2. PICK i : i = [l \in Lines |-> IF l \in gone THEN 0 ELSE o.invoiced[l]]
  OBVIOUS
<1>3. d \in [Lines -> Nat] /\ i \in [Lines -> Nat]
  BY <1>1, <1>2 DEF Order
<1>4. v = [o EXCEPT !.lines = o.lines \ gone, !.delivered = d, !.invoiced = i]
  BY <1>1, <1>2 DEF WithoutLines, Order
<1> QED
  BY <1>1, <1>2, <1>3, <1>4 DEF Order

LEMMA RemovedIsOrder ==
    ASSUME NEW o \in Order, NEW gone \in SUBSET Lines, NEW v, v = WithoutLines(o, gone)
    PROVE  v \in Order /\ v.state = o.state
<1>1. /\ v \in Order /\ v.state = o.state /\ v.notes = o.notes /\ v.lines = o.lines \ gone
      /\ v.delivered = [l \in Lines |-> IF l \in gone THEN 0 ELSE o.delivered[l]]
      /\ v.invoiced = [l \in Lines |-> IF l \in gone THEN 0 ELSE o.invoiced[l]]
  BY Removed
<1> QED
  BY <1>1

LEMMA RemovedKeeps ==
    ASSUME NEW o \in Order, NEW gone \in SUBSET Lines, NEW v, v = WithoutLines(o, gone)
    PROVE  LinesKept(o, v)
<1>1. /\ v.lines = o.lines \ gone
      /\ v.delivered = [l \in Lines |-> IF l \in gone THEN 0 ELSE o.delivered[l]]
      /\ v.invoiced = [l \in Lines |-> IF l \in gone THEN 0 ELSE o.invoiced[l]]
  BY Removed
<1>2. ASSUME NEW l \in Lines
      PROVE  /\ v.delivered[l] = 0 \/ v.delivered[l] = o.delivered[l]
             /\ v.invoiced[l] = 0 \/ v.invoiced[l] = o.invoiced[l]
             /\ v.delivered[l] > 0 \/ v.invoiced[l] > 0 => l \in v.lines \/ l \notin o.lines
  BY <1>1
<1> QED
  BY <1>2 DEF LinesKept

LEMMA EditStep ==
    ASSUME SalesInv, NEW u \in Salespeople, save_quote(u) \/ InsertLine(u) \/ add_line(u) \/ delete_line(u)
    PROVE  SalesInv'
<1>1. SalesTypes
  BY DEF SalesInv
<1>2. PICK r : r = req[u].order
  OBVIOUS
<1>3. r \in DOMAIN order /\ order[r] \in Order
  BY <1>1, <1>2 DEF SalesTypes
<1>4. edited \subseteq edited' /\ (r \notin edited' => order[r].state = "quotation")
  BY <1>2 DEF save_quote, InsertLine, add_line, delete_line, NoteEdit
<1>5. UNCHANGED <<shipped, billed, overlapped, dropped, salesFaults>>
  BY DEF save_quote, InsertLine, add_line, delete_line, served
<1>6. /\ req' \in [Salespeople -> Request] /\ Others(u) /\ req'[u].order \in DOMAIN order
      /\ req[u].at \notin AfterSale /\ req'[u].at \notin AfterSale /\ req'[u].at # "cloneLines"
  <2>1. req[u].at \in {"replace", "insert", "add", "remove"}
    BY DEF save_quote, InsertLine, add_line, delete_line, At
  <2>2. CASE save_quote(u)
    BY <1>1, <2>1, <2>2, Goes DEF save_quote, AfterSale, FulfilSteps, InvoiceSteps
  <2>3. CASE InsertLine(u)
    BY <1>1, <2>1, <2>3 DEF InsertLine, Others, SalesTypes, AfterSale, FulfilSteps, InvoiceSteps
  <2>4. CASE add_line(u) \/ delete_line(u)
    BY <1>1, <2>1, <2>4, Ends DEF add_line, delete_line, AfterSale, FulfilSteps, InvoiceSteps
  <2> QED
    BY <2>2, <2>3, <2>4
<1>7. Rewritten(r)
  <2>1. ASSUME NEW gone \in SUBSET Lines, order' = [order EXCEPT ![r] = WithoutLines(order[r], gone)] PROVE Rewritten(r)
    <3>1. PICK v : v = WithoutLines(order[r], gone)
      OBVIOUS
    <3>2. v \in Order /\ v.state = order[r].state
      BY <1>3, <3>1, RemovedIsOrder
    <3> QED
      BY <1>3, <2>1, <3>1, <3>2, RemovedKeeps DEF Rewritten
  <2>2. ASSUME order' = [order EXCEPT ![r] = [WithoutLines(order[r], Lines) EXCEPT !.notes = FALSE]] PROVE Rewritten(r)
    <3>1. PICK w : w = WithoutLines(order[r], Lines)
      OBVIOUS
    <3>2. w \in Order /\ w.state = order[r].state
      BY <1>3, <3>1, RemovedIsOrder
    <3>3. PICK v : v = [w EXCEPT !.notes = FALSE]
      OBVIOUS
    <3>4. v \in Order /\ v.state = w.state /\ v.lines = w.lines /\ v.delivered = w.delivered /\ v.invoiced = w.invoiced
      BY <3>2, <3>3 DEF Order
    <3>5. order' = [order EXCEPT ![r] = v]
      BY <2>2, <3>1, <3>3
    <3>6. LinesKept(order[r], w)
      BY <1>3, <3>1, RemovedKeeps
    <3>7. LinesKept(order[r], v)
      BY <3>4, <3>6 DEF LinesKept
    <3> QED
      BY <3>2, <3>4, <3>5, <3>7 DEF Rewritten
  <2>3. ASSUME NEW l \in Lines, order' = [order EXCEPT ![r].lines = @ \cup {l}] PROVE Rewritten(r)
    <3>1. PICK v : v = [order[r] EXCEPT !.lines = order[r].lines \cup {l}]
      OBVIOUS
    <3>2. /\ v \in Order /\ v.state = order[r].state /\ v.lines = order[r].lines \cup {l}
          /\ v.delivered = order[r].delivered /\ v.invoiced = order[r].invoiced
      BY <1>3, <3>1 DEF Order
    <3>3. order' = [order EXCEPT ![r] = v]
      BY <1>1, <2>3, <3>1 DEF SalesTypes
    <3> QED
      BY <3>2, <3>3 DEF Rewritten, LinesKept
  <2>4. ASSUME order' = [order EXCEPT ![r].notes = TRUE] PROVE Rewritten(r)
    <3>1. PICK v : v = [order[r] EXCEPT !.notes = TRUE]
      OBVIOUS
    <3>2. /\ v \in Order /\ v.state = order[r].state /\ v.lines = order[r].lines
          /\ v.delivered = order[r].delivered /\ v.invoiced = order[r].invoiced
      BY <1>3, <3>1 DEF Order
    <3>3. order' = [order EXCEPT ![r] = v]
      BY <1>1, <2>4, <3>1 DEF SalesTypes
    <3> QED
      BY <3>2, <3>3 DEF Rewritten, LinesKept
  <2>5. CASE save_quote(u)
    BY <1>2, <2>2, <2>5 DEF save_quote
  <2>6. CASE delete_line(u)
    <3>1. PICK l \in order[r].lines : order' = [order EXCEPT ![r] = WithoutLines(order[r], {l})]
      BY <1>2, <2>6 DEF delete_line
    <3>2. {l} \in SUBSET Lines
      BY <1>1, <1>3, <3>1, OrderFacts
    <3> QED
      BY <2>1, <3>1, <3>2
  <2>7. CASE InsertLine(u) \/ add_line(u)
    <3>1. (\E l \in Lines : order' = [order EXCEPT ![r].lines = @ \cup {l}]) \/ order' = [order EXCEPT ![r].notes = TRUE]
      BY <1>2, <2>7 DEF InsertLine, add_line
    <3> QED
      BY <2>3, <2>4, <3>1
  <2> QED
    BY <2>5, <2>6, <2>7
<1> QED
  BY <1>3, <1>4, <1>5, <1>6, <1>7, LinesWritten DEF Rewritten

LEMMA EditEndsStep ==
    ASSUME SalesInv, NEW u \in Salespeople, EditEnds(u)
    PROVE  SalesInv'
<1>1. SalesTypes
  BY DEF SalesInv
<1>2. req' \in [Salespeople -> Request] /\ Others(u) /\ req'[u].at = "idle" /\ req'[u].order \in DOMAIN order
  BY <1>1, Ends DEF EditEnds
<1>3. UNCHANGED <<order, shipped, billed, overlapped, edited, dropped, salesFaults>> /\ req[u].at \in {"insert", "add", "remove"}
  BY DEF EditEnds, served
<1>4. salesFaults' \in Nat /\ salesFaults <= salesFaults'
  BY <1>1, <1>3 DEF SalesTypes
<1> QED
  BY <1>2, <1>3, <1>4, Walked DEF Holding, AfterSale, FulfilSteps, InvoiceSteps

LEMMA QuoteAskStep ==
    ASSUME SalesInv, NEW u \in Salespeople, NEW r \in DOMAIN order,
           EditCheck(u, r) \/ CountLines(u, r) \/ ReadSource(u, r) \/ FulfilCheck(u, r) \/ InvoiceCheck(u, r)
    PROVE  SalesInv'
<1>1. SalesTypes
  BY DEF SalesInv
<1>2. PICK step \in {"replace", "add", "remove", "confirm", "live", "goods", "services", "billable"} :
         Ask(u, r, step) /\ (step \in AfterSale => Live(r))
  <2>1. CASE EditCheck(u, r) \/ CountLines(u, r) \/ ReadSource(u, r)
    BY <2>1 DEF EditCheck, CountLines, ReadSource, AfterSale, FulfilSteps, InvoiceSteps
  <2>2. CASE FulfilCheck(u, r) \/ InvoiceCheck(u, r)
    BY <2>2 DEF FulfilCheck, InvoiceCheck, Live
  <2> QED
    BY <2>1, <2>2
<1>3. req' \in [Salespeople -> Request] /\ Others(u) /\ req'[u].at = step /\ req'[u].order = r /\ req[u].at = "idle"
  BY <1>1, <1>2, Asks
<1>4. UNCHANGED <<order, shipped, billed, overlapped, edited, dropped, salesFaults>>
  BY DEF EditCheck, CountLines, ReadSource, FulfilCheck, InvoiceCheck, served
<1>5. salesFaults' \in Nat /\ salesFaults <= salesFaults'
  BY <1>1, <1>4 DEF SalesTypes
<1>6. step \in AfterSale => Sold(r)
  BY <1>2 DEF Sold
<1>7. step \notin Holding /\ "idle" \notin Holding /\ step # "cloneLines"
  BY DEF Holding
<1> QED
  BY <1>3, <1>4, <1>5, <1>6, <1>7, Walked

\* The state of one order is written, and nothing else of it.
LEMMA StateWritten ==
    ASSUME SalesTypes, NEW r \in DOMAIN order, NEW s \in States, order' = [order EXCEPT ![r].state = s]
    PROVE  /\ DOMAIN order' = DOMAIN order /\ order' \in [DOMAIN order -> Order]
           /\ \A x \in DOMAIN order \ {r} : order'[x] = order[x]
           /\ order'[r].state = s /\ SameLines(r)
<1>1. PICK v : v = [order[r] EXCEPT !.state = s]
  OBVIOUS
<1>2. /\ v \in Order /\ v.state = s /\ v.lines = order[r].lines
      /\ v.delivered = order[r].delivered /\ v.invoiced = order[r].invoiced
  BY <1>1 DEF SalesTypes, Order
<1>3. order' = [order EXCEPT ![r] = v]
  BY <1>1 DEF SalesTypes
<1> QED
  BY <1>2, <1>3, RowWritten DEF SameLines

\* A state that is neither delivered nor open is written, by a request that
\* holds nothing or by no request.
LEMMA StateStep ==
    ASSUME SalesInv, NEW r \in DOMAIN order, NEW s \in States \ {"delivered"},
           order' = [order EXCEPT ![r].state = s], SalesTypes', Aside,
           UNCHANGED <<shipped, billed, overlapped, edited, salesFaults>>,
           Sold(r) => Sold(r)', dropped \subseteq dropped', dropped' \subseteq dropped \cup {r},
           s = "confirmed" => ~Sold(r) /\ IndexAllows(r),
           r \in dropped' => s # "quotation" /\ s # "sent",
           \A w \in Salespeople : req'[w].at \in AfterSale => req[w].at \in AfterSale /\ req'[w].order = req[w].order
    PROVE  SalesInv'
<1>1. SalesTypes /\ SoldInv
  BY DEF SalesInv
<1>2. /\ DOMAIN order' = DOMAIN order /\ order' \in [DOMAIN order -> Order]
      /\ \A x \in DOMAIN order \ {r} : order'[x] = order[x]
      /\ order'[r].state = s /\ SameLines(r)
  BY <1>1, StateWritten
<1>3. \A l \in Lines : order'[r].delivered[l] > 0 \/ order'[r].invoiced[l] > 0 => l \in order'[r].lines /\ Sold(r)
  BY <1>1, <1>2 DEF SoldInv, SameLines
<1>4. Live(r)' => Live(r) \/ IndexAllows(r)
  BY <1>2 DEF Live, States
<1>5. salesFaults <= salesFaults' /\ overlapped \subseteq overlapped' /\ edited \subseteq edited'
  BY <1>1 DEF SalesTypes
<1> QED
  BY <1>2, <1>3, <1>4, <1>5, OrderWritten

LEMMA ConfirmStep ==
    ASSUME SalesInv, NEW u \in Salespeople, confirm_order(u)
    PROVE  SalesInv'
<1>1. SalesTypes /\ SoldInv
  BY DEF SalesInv
<1>2. PICK r : r = req[u].order
  OBVIOUS
<1>3. r \in DOMAIN order /\ req[u].at = "confirm"
  BY <1>1, <1>2 DEF SalesTypes, confirm_order, At
<1>4. UNCHANGED <<shipped, billed, overlapped, edited, dropped, salesFaults>>
  BY DEF confirm_order, served
<1>5. salesFaults' \in Nat /\ salesFaults <= salesFaults'
  BY <1>1, <1>4 DEF SalesTypes
<1>6. CASE UNCHANGED order /\ Done(u)
  <2>1. req' \in [Salespeople -> Request] /\ Others(u) /\ req'[u].at = "idle" /\ req'[u].order \in DOMAIN order
    BY <1>1, <1>6, Ends
  <2> QED
    BY <1>3, <1>4, <1>5, <1>6, <2>1, Walked DEF Holding, AfterSale, FulfilSteps, InvoiceSteps
<1>7. CASE /\ order[r].state \in {"quotation", "sent"} /\ IndexAllows(r)
           /\ order' = [order EXCEPT ![r].state = "confirmed"] /\ Goto(u, "others")
  <2>1. req' \in [Salespeople -> Request] /\ Others(u) /\ req'[u].at = "others" /\ req'[u].order \in DOMAIN order
    BY <1>1, <1>7, Goes
  <2>2. "confirmed" \in States \ {"delivered"}
    BY DEF States
  <2>3. /\ DOMAIN order' = DOMAIN order /\ order' \in [DOMAIN order -> Order]
        /\ order'[r].state = "confirmed"
    BY <1>1, <1>3, <1>7, <2>2, StateWritten
  <2>4. SalesTypes'
    BY <1>1, <1>4, <1>5, <2>1, <2>3, TypesKept DEF SalesTypes
  <2>5. ~Sold(r)
    BY <1>1, <1>7 DEF Sold, Live, SoldInv
  <2>6. Aside /\ \A w \in Salespeople : req'[w].at \in AfterSale => req[w].at \in AfterSale /\ req'[w].order = req[w].order
    BY <1>3, <2>1 DEF Aside, Others, AfterSale, Holding, FulfilSteps, InvoiceSteps
  <2>7. dropped \subseteq dropped' /\ dropped' \subseteq dropped \cup {r}
    BY <1>4
  <2> QED
    BY <1>3, <1>4, <1>7, <2>2, <2>4, <2>5, <2>6, <2>7, StateStep
<1> QED
  BY <1>2, <1>6, <1>7 DEF confirm_order

LEMMA ChangeStep ==
    ASSUME SalesInv, NEW r \in DOMAIN order, mark_sent(r) \/ mark_lost(r) \/ expire_quotations(r) \/ cancel_order(r)
    PROVE  SalesInv'
<1>1. SalesTypes /\ SoldInv
  BY DEF SalesInv
<1>2. PICK s \in {"sent", "lost", "expired", "cancelled"} :
         /\ order' = [order EXCEPT ![r].state = s] /\ (s = "sent" => order[r].state = "quotation")
         /\ dropped' = dropped \cup (IF Live(r) THEN {r} ELSE {})
         /\ UNCHANGED <<req, served, edited, asked, salesFaults>>
  BY DEF mark_sent, mark_lost, expire_quotations, cancel_order, Change
<1>3. s \in States \ {"delivered"} /\ s # "confirmed" /\ s # "quotation"
  BY DEF States
<1>4. /\ DOMAIN order' = DOMAIN order /\ order' \in [DOMAIN order -> Order] /\ order'[r].state = s
  BY <1>1, <1>2, <1>3, StateWritten
<1>5. dropped \subseteq dropped' /\ dropped' \subseteq dropped \cup {r} /\ (Sold(r) => r \in dropped')
  BY <1>2 DEF Sold
<1>6. UNCHANGED <<shipped, billed, overlapped, edited, salesFaults>> /\ req' = req
  BY <1>2 DEF served
<1>7. SalesTypes'
  BY <1>1, <1>4, <1>5, <1>6, OrdersKept DEF SalesTypes
<1>8. r \in dropped' => s # "sent"
  BY <1>1, <1>2 DEF SoldInv, Live
<1>9. Aside /\ \A w \in Salespeople : req'[w].at \in AfterSale => req[w].at \in AfterSale /\ req'[w].order = req[w].order
  BY <1>6 DEF Aside
<1>10. Sold(r) => Sold(r)'
  BY <1>5 DEF Sold
<1> QED
  BY <1>2, <1>3, <1>5, <1>6, <1>7, <1>8, <1>9, <1>10, StateStep

LEMMA SupersedeSourceStep ==
    ASSUME SalesInv, NEW u \in Salespeople, SupersedeSource(u)
    PROVE  SalesInv'
<1>1. SalesTypes /\ SoldInv
  BY DEF SalesInv
<1>2. PICK r : r = req[u].order
  OBVIOUS
<1>3. r \in DOMAIN order /\ req[u].at = "supersede"
  BY <1>1, <1>2 DEF SalesTypes, SupersedeSource, At
<1>4. /\ order' = [order EXCEPT ![r].state = "superseded"]
      /\ dropped' = dropped \cup (IF Live(r) THEN {r} ELSE {})
      /\ UNCHANGED <<shipped, billed, overlapped, edited, salesFaults>>
  BY <1>2 DEF SupersedeSource, served
<1>5. "superseded" \in States \ {"delivered"}
  BY DEF States
<1>6. /\ DOMAIN order' = DOMAIN order /\ order' \in [DOMAIN order -> Order] /\ order'[r].state = "superseded"
  BY <1>1, <1>3, <1>4, <1>5, StateWritten
<1>7. dropped \subseteq dropped' /\ dropped' \subseteq dropped \cup {r} /\ (Sold(r) => r \in dropped')
  BY <1>4 DEF Sold
<1>8. req' \in [Salespeople -> Request] /\ Others(u) /\ req'[u].at = "idle" /\ req'[u].order \in DOMAIN order
  BY <1>1, Ends DEF SupersedeSource
<1>9. SalesTypes'
  BY <1>1, <1>3, <1>4, <1>6, <1>7, <1>8, TypesKept DEF SalesTypes
<1>10. Aside /\ \A w \in Salespeople : req'[w].at \in AfterSale => req[w].at \in AfterSale /\ req'[w].order = req[w].order
  BY <1>3, <1>8 DEF Aside, Others, AfterSale, Holding, FulfilSteps, InvoiceSteps
<1>11. Sold(r) => Sold(r)'
  BY <1>7 DEF Sold
<1> QED
  BY <1>3, <1>4, <1>5, <1>7, <1>9, <1>10, <1>11, StateStep

LEMMA RefuseStep ==
    ASSUME SalesInv, NEW u \in Salespeople, RefuseIfLive(u)
    PROVE  SalesInv'
<1>1. SalesTypes
  BY DEF SalesInv
<1>2. UNCHANGED <<order, shipped, billed, overlapped, edited, dropped, salesFaults>> /\ req[u].at = "live"
  BY DEF RefuseIfLive, served, At
<1>3. /\ req' \in [Salespeople -> Request] /\ Others(u) /\ req'[u].at \in {"idle", "clone"}
      /\ req'[u].order \in DOMAIN order
  <2>1. Done(u) \/ Goto(u, "clone")
    BY DEF RefuseIfLive
  <2> QED
    BY <1>1, <2>1, Goes, Ends
<1>4. salesFaults' \in Nat /\ salesFaults <= salesFaults'
  BY <1>1, <1>2 DEF SalesTypes
<1> QED
  BY <1>2, <1>3, <1>4, Walked DEF Holding, AfterSale, FulfilSteps, InvoiceSteps

LEMMA SupersedeOthersStep ==
    ASSUME SalesInv, NEW u \in Salespeople, SupersedeOthers(u)
    PROVE  SalesInv'
<1>1. SalesTypes /\ SoldInv
  BY DEF SalesInv
<1>2. /\ req' \in [Salespeople -> Request] /\ Others(u) /\ req'[u].at = "idle"
      /\ req'[u].order \in DOMAIN order /\ req[u].at = "others"
  BY <1>1, Ends DEF SupersedeOthers, At
<1>3. UNCHANGED <<shipped, billed, overlapped, edited, dropped, salesFaults>>
  BY DEF SupersedeOthers, served
<1>4. /\ DOMAIN order' = DOMAIN order
      /\ \A x \in DOMAIN order :
            order'[x] = IF x # req[u].order /\ order[x].state \in {"quotation", "sent", "expired"}
                        THEN [order[x] EXCEPT !.state = "superseded"] ELSE order[x]
      /\ order' = [x \in DOMAIN order |-> order'[x]]
  BY DEF SupersedeOthers
<1>5. ASSUME NEW x \in DOMAIN order
      PROVE  /\ order'[x] \in Order /\ SameLines(x)
             /\ \/ order'[x].state = order[x].state
                \/ order[x].state \in {"quotation", "sent", "expired"} /\ order'[x].state = "superseded"
  <2>1. order[x] \in Order
    BY <1>1 DEF SalesTypes
  <2>2. CASE x # req[u].order /\ order[x].state \in {"quotation", "sent", "expired"}
    <3>1. PICK v : v = [order[x] EXCEPT !.state = "superseded"]
      OBVIOUS
    <3>2. /\ v \in Order /\ v.lines = order[x].lines /\ v.delivered = order[x].delivered
          /\ v.invoiced = order[x].invoiced /\ v.state = "superseded"
      BY <2>1, <3>1 DEF Order, States
    <3>3. order'[x] = v
      BY <1>4, <2>2, <3>1
    <3> QED
      BY <2>2, <3>2, <3>3 DEF SameLines
  <2>3. CASE ~(x # req[u].order /\ order[x].state \in {"quotation", "sent", "expired"})
    <3>1. order'[x] = order[x]
      BY <1>4, <2>3, Zenon
    <3> QED
      BY <2>1, <3>1 DEF SameLines
  <2> QED
    BY <2>2, <2>3
<1>6. order' \in [DOMAIN order -> Order]
  BY <1>4, <1>5
<1>7. SalesTypes'
  BY <1>1, <1>2, <1>3, <1>4, <1>6, TypesKept DEF SalesTypes
<1>8. \A x \in DOMAIN order : (Live(x)' <=> Live(x)) /\ (Sold(x)' <=> Sold(x))
  BY <1>3, <1>5 DEF Live, Sold
<1>9. Aside
  BY <1>2 DEF Aside, Others, Holding
<1>10. ASSUME NEW w \in Salespeople, req'[w].at \in AfterSale PROVE Sold(req[w].order)'
  <2>1. PICK x : x = req[w].order
    OBVIOUS
  <2>2. req'[w] = req[w]
    BY <1>2, <1>10 DEF Others, AfterSale, FulfilSteps, InvoiceSteps
  <2>3. Sold(x) /\ x \in DOMAIN order
    BY <1>1, <1>10, <2>1, <2>2 DEF SoldInv, SalesTypes
  <2>4. Sold(x)'
    BY <1>8, <2>3
  <2> QED
    BY <2>1, <2>2, <2>4 DEF Sold, Live
<1>11. \A x \in dropped' : order'[x].state # "quotation" /\ order'[x].state # "sent"
  BY <1>1, <1>3, <1>5 DEF SoldInv, SalesTypes
<1>12. \A x, s \in DOMAIN order' : Live(x)' /\ Live(s)' => x = s
  BY <1>1, <1>4, <1>8 DEF SoldInv
<1>13. \A x \in DOMAIN order \ edited' : Sold(x)' => SameLines(x) /\ (order'[x].state = "delivered" => order[x].state = "delivered")
  BY <1>5
<1>14. \A x \in DOMAIN order', l \in Lines :
           order'[x].delivered[l] > 0 \/ order'[x].invoiced[l] > 0 =>
               x \in DOMAIN order /\ l \in order'[x].lines /\ Sold(x)
  BY <1>1, <1>4, <1>5 DEF SoldInv, SameLines
<1>15. \A x \in DOMAIN order : order'[x].state = "confirmed" => order[x].state = "confirmed" \/ ~Sold(x)
  BY <1>5
<1>16. /\ salesFaults <= salesFaults' /\ overlapped \subseteq overlapped' /\ edited \subseteq edited'
       /\ DOMAIN order \subseteq DOMAIN order'
       /\ \A x \in DOMAIN order' : Sold(x)' => x \in DOMAIN order
       /\ \A x \in DOMAIN order : Sold(x) => Sold(x)'
  BY <1>1, <1>3, <1>4, <1>8 DEF SalesTypes
<1> QED
  BY <1>3, <1>7, <1>9, <1>10, <1>11, <1>12, <1>13, <1>14, <1>15, <1>16, Edited

LEMMA ReviseStep ==
    ASSUME SalesInv, NEW u \in Salespeople, revise_quote(u)
    PROVE  SalesInv'
<1>1. SalesTypes /\ SoldInv
  BY DEF SalesInv
<1>2. PICK n \in OrderVersions : DOMAIN order = 1..n
  BY <1>1 DEF SalesTypes
<1>3. n \in Nat /\ MaxRevisions \in Nat
  BY <1>2, SalesAssumption DEF OrderVersions
<1>4. Cardinality(DOMAIN order) = n
  BY <1>2, <1>3, FS_Interval
<1>5. PICK fresh : fresh = [state |-> "quotation", lines |-> {}, notes |-> FALSE,
                            delivered |-> NoneOf, invoiced |-> NoneOf]
  OBVIOUS
<1>6. /\ fresh \in Order /\ fresh.state = "quotation"
      /\ \A l \in Lines : fresh.delivered[l] = 0 /\ fresh.invoiced[l] = 0
  <2>1. NoneOf \in [Lines -> Nat] /\ \A l \in Lines : NoneOf[l] = 0
    BY DEF NoneOf
  <2>2. fresh.delivered = NoneOf /\ fresh.invoiced = NoneOf /\ fresh.state = "quotation"
    BY <1>5
  <2>3. "quotation" \in States /\ {} \in SUBSET Lines /\ FALSE \in BOOLEAN
    BY DEF States
  <2>4. fresh \in Order
    BY <1>5, <2>1, <2>3, SMTT(30) DEF Order
  <2> QED
    BY <2>1, <2>2, <2>4
<1>7. /\ n + 1 \in OrderVersions /\ req[u].at = "clone"
      /\ UNCHANGED <<shipped, billed, overlapped, edited, dropped, salesFaults>>
  BY <1>3, <1>4 DEF revise_quote, served, At, OrderVersions
<1>8. order' = [r \in 1..(n + 1) |-> IF r = n + 1 THEN fresh ELSE order[r]]
  BY <1>4, <1>5 DEF revise_quote
<1>9. DOMAIN order' = 1..(n + 1) /\ DOMAIN order' = DOMAIN order \cup {n + 1} /\ n + 1 \notin DOMAIN order
  BY <1>2, <1>3, <1>8
<1>10. (\A r \in DOMAIN order : order'[r] = order[r]) /\ order'[n + 1] = fresh
  BY <1>8, <1>9
<1>11. order' \in [DOMAIN order' -> Order]
  BY <1>1, <1>6, <1>8, <1>9 DEF SalesTypes
<1>12. PICK v : v = [req[u] EXCEPT !.at = "cloneLines", !.new = n + 1]
  OBVIOUS
<1>13. v \in Request /\ v.at = "cloneLines" /\ v.new = n + 1 /\ v.order = req[u].order
  <2>1. req[u] \in Request /\ n + 1 \in 0..MaxRevisions
    BY <1>1, <1>3, <1>7 DEF SalesTypes, OrderVersions
  <2> QED
    BY <1>12, <2>1 DEF Request
<1>14. req' = [req EXCEPT ![u] = v]
  BY <1>1, <1>4, <1>12 DEF revise_quote, SalesTypes
<1>15. req' \in [Salespeople -> Request] /\ req'[u] = v /\ Others(u)
  BY <1>1, <1>13, <1>14, ReqMoves
<1>16. SalesTypes'
  <2>1. \A w \in Salespeople :
          /\ req'[w].order \in DOMAIN order' /\ (req'[w].at = "cloneLines" => req'[w].new \in DOMAIN order')
          /\ req'[w].at = "advance" => req'[w].line \in Lines /\ req'[w].todo[req'[w].line] > 0
    BY <1>1, <1>9, <1>13, <1>15 DEF SalesTypes, Others
  <2>2. DOMAIN order' \subseteq OrderVersions /\ 1 \in DOMAIN order' /\ dropped' \subseteq DOMAIN order'
    BY <1>1, <1>7, <1>9 DEF SalesTypes
  <2> QED
    BY <1>1, <1>7, <1>9, <1>11, <1>15, <2>1, <2>2 DEF SalesTypes, OrderVersions, Lines
<1>17. \A x \in DOMAIN order : (Live(x)' <=> Live(x)) /\ (Sold(x)' <=> Sold(x))
  BY <1>7, <1>10 DEF Live, Sold
<1>18. ~Live(n + 1)' /\ ~Sold(n + 1)'
  <2>1. n + 1 \notin dropped'
    BY <1>1, <1>7, <1>9 DEF SalesTypes
  <2> QED
    BY <1>6, <1>10, <2>1 DEF Live, Sold
<1>19. Aside
  BY <1>7, <1>13, <1>15 DEF Aside, Others, Holding
<1>20. ASSUME NEW w \in Salespeople, req'[w].at \in AfterSale PROVE Sold(req[w].order)'
  <2>1. PICK x : x = req[w].order
    OBVIOUS
  <2>2. req'[w] = req[w]
    BY <1>13, <1>15, <1>20 DEF Others, AfterSale, FulfilSteps, InvoiceSteps
  <2>3. Sold(x) /\ x \in DOMAIN order
    BY <1>1, <1>20, <2>1, <2>2 DEF SoldInv, SalesTypes
  <2>4. Sold(x)'
    BY <1>17, <2>3
  <2> QED
    BY <2>1, <2>2, <2>4 DEF Sold, Live
<1>21. \A x \in dropped' : order'[x].state # "quotation" /\ order'[x].state # "sent"
  BY <1>1, <1>7, <1>10 DEF SoldInv, SalesTypes
<1>22. \A x, s \in DOMAIN order' : Live(x)' /\ Live(s)' => x = s
  BY <1>1, <1>9, <1>17, <1>18 DEF SoldInv
<1>23. \A x \in DOMAIN order \ edited' : Sold(x)' => SameLines(x) /\ (order'[x].state = "delivered" => order[x].state = "delivered")
  BY <1>10 DEF SameLines
<1>24. \A x \in DOMAIN order', l \in Lines :
           order'[x].delivered[l] > 0 \/ order'[x].invoiced[l] > 0 =>
               x \in DOMAIN order /\ l \in order'[x].lines /\ Sold(x)
  <2>1. ASSUME NEW x \in DOMAIN order', NEW l \in Lines, order'[x].delivered[l] > 0 \/ order'[x].invoiced[l] > 0
        PROVE  x \in DOMAIN order /\ l \in order'[x].lines /\ Sold(x)
    <3>1. x # n + 1
      BY <1>6, <1>10, <2>1
    <3> QED
      BY <1>1, <1>9, <1>10, <2>1, <3>1 DEF SoldInv
  <2> QED
    BY <2>1
<1>25. \A x \in DOMAIN order : order'[x].state = "confirmed" => order[x].state = "confirmed" \/ ~Sold(x)
  BY <1>10
<1>26. /\ salesFaults <= salesFaults' /\ overlapped \subseteq overlapped' /\ edited \subseteq edited'
       /\ DOMAIN order \subseteq DOMAIN order'
       /\ \A x \in DOMAIN order' : Sold(x)' => x \in DOMAIN order
       /\ \A x \in DOMAIN order : Sold(x) => Sold(x)'
  <2>1. salesFaults <= salesFaults' /\ overlapped \subseteq overlapped' /\ edited \subseteq edited'
    BY <1>1, <1>7 DEF SalesTypes
  <2>2. ASSUME NEW x \in DOMAIN order', Sold(x)' PROVE x \in DOMAIN order
    <3>1. x # n + 1
      BY <1>18, <2>2
    <3> QED
      BY <1>9, <3>1
  <2> QED
    BY <1>9, <1>17, <2>1, <2>2
<1> QED
  BY <1>7, <1>16, <1>19, <1>20, <1>21, <1>22, <1>23, <1>24, <1>25, <1>26, Edited

LEMMA CloneLinesStep ==
    ASSUME SalesInv, NEW u \in Salespeople, CloneLines(u)
    PROVE  SalesInv'
<1>1. SalesTypes
  BY DEF SalesInv
<1>2. PICK r : r = req[u].new
  OBVIOUS
<1>3. PICK s : s = req[u].order
  OBVIOUS
<1>4. r \in DOMAIN order /\ s \in DOMAIN order /\ order[r] \in Order /\ order[s] \in Order /\ req[u].at = "cloneLines"
  BY <1>1, <1>2, <1>3 DEF SalesTypes, CloneLines, At
<1>5. edited \subseteq edited' /\ (r \notin edited' => order[r].state = "quotation")
  BY <1>2 DEF CloneLines, NoteEdit
<1>6. UNCHANGED <<shipped, billed, overlapped, dropped, salesFaults>>
  BY DEF CloneLines, served
<1>7. /\ req' \in [Salespeople -> Request] /\ Others(u) /\ req'[u].order \in DOMAIN order
      /\ req'[u].at \in {"idle", "supersede"}
  <2>1. Done(u) \/ Goto(u, "supersede")
    BY DEF CloneLines
  <2> QED
    BY <1>1, <2>1, Goes, Ends
<1>8. PICK v : v = IF order[s].notes THEN order[r] ELSE [order[r] EXCEPT !.lines = order[r].lines \cup order[s].lines]
  OBVIOUS
<1>9. /\ v \in Order /\ v.state = order[r].state /\ order[r].lines \subseteq v.lines
      /\ v.delivered = order[r].delivered /\ v.invoiced = order[r].invoiced
  <2>1. CASE order[s].notes
    BY <1>4, <1>8, <2>1
  <2>2. CASE ~order[s].notes
    <3>1. PICK n : n = order[r].lines \cup order[s].lines
      OBVIOUS
    <3>2. n \in SUBSET Lines
      BY <1>4, <3>1 DEF Order
    <3>3. v = [order[r] EXCEPT !.lines = n]
      BY <1>8, <2>2, <3>1
    <3> QED
      BY <1>4, <3>1, <3>2, <3>3 DEF Order
  <2> QED
    BY <2>1, <2>2
<1>10. order' = [order EXCEPT ![r] = v]
  BY <1>1, <1>2, <1>3, <1>4, <1>8 DEF CloneLines, SalesTypes
<1>11. LinesKept(order[r], v)
  BY <1>9 DEF LinesKept
<1>12. /\ req[u].at \notin AfterSale /\ req'[u].at \notin AfterSale /\ req'[u].at # "cloneLines"
  BY <1>4, <1>7 DEF AfterSale, FulfilSteps, InvoiceSteps
<1> QED
  BY <1>4, <1>5, <1>6, <1>7, <1>9, <1>10, <1>11, <1>12, LinesWritten

\* The count of live sales fails.
LEMMA LiveCountFails ==
    ASSUME SalesInv, NEW u \in Salespeople, CountFails(u), req[u].at = "live"
    PROVE  SalesInv'
<1>1. SalesTypes
  BY DEF SalesInv
<1>2. UNCHANGED <<order, shipped, billed, edited, dropped>> /\ overlapped \subseteq overlapped'
  BY DEF CountFails
<1>3. salesFaults' \in Nat /\ salesFaults <= salesFaults'
  BY <1>1 DEF SalesTypes, CountFails
<1>4. Goto(u, "clone")
  BY DEF CountFails, At
<1>5. /\ req' \in [Salespeople -> Request] /\ Others(u) /\ req'[u].at = "clone" /\ req'[u].order \in DOMAIN order
  BY <1>1, <1>4, Goes
<1> QED
  BY <1>2, <1>3, <1>5, Walked DEF Holding, AfterSale, FulfilSteps, InvoiceSteps

-----------------------------------------------------------------------------
(* Delivering *)

Serves == {"serve", "advance", "outstanding", "flip"}

\* A request that serves a line has it to serve.
LEMMA ServingPends ==
    ASSUME SalesTypes, NEW u \in Salespeople, NEW r, NEW l, Serving(u, r, l)
    PROVE  Pending(u, r, l) /\ l \in Lines
BY DEF SalesTypes, Serving, Pending

\* What a step of one delivery leaves as it was.
LEMMA ServeMoved ==
    ASSUME SalesInv, SalesTypes', NEW u \in Salespeople, NEW r \in DOMAIN order,
           req[u].order = r, req[u].at \in FulfilSteps, Others(u),
           req'[u].at = "idle" \/ (req'[u].order = r /\ req'[u].at \in Serves),
           DOMAIN order' = DOMAIN order, \A x \in DOMAIN order \ {r} : order'[x] = order[x],
           order'[r].lines = order[r].lines, order'[r].invoiced = order[r].invoiced,
           \A l \in Lines : /\ order'[r].delivered[l] >= order[r].delivered[l]
                            /\ order'[r].delivered[l] # order[r].delivered[l] => l \in order[r].lines,
           order'[r].state = order[r].state \/ (order'[r].state = "delivered" /\ IndexAllows(r)),
           \A x \in OrderVersions \ {r} : shipped'[x] = shipped[x],
           UNCHANGED <<billed, dropped, edited>>, overlapped \subseteq overlapped', salesFaults <= salesFaults',
           r \notin edited => FlagFollows(r)' /\ \A l \in Lines : Shipping(r, l)'
    PROVE  SalesInv'
<1>1. SalesTypes /\ SoldInv /\ LinesInv /\ FlagInv
  BY DEF SalesInv
<1>2. Sold(r)
  BY <1>1 DEF SoldInv, AfterSale
<1>3. \A x \in DOMAIN order : Sold(x) => Sold(x)'
  BY <1>2 DEF Sold, Live
<1>4. SoldInv'
  <2>1. \A x, s \in DOMAIN order' : Live(x)' /\ Live(s)' => x = s
    <3>1. CASE order'[r].state = order[r].state
      <4>1. \A x \in DOMAIN order : Live(x)' <=> Live(x)
        BY <3>1 DEF Live
      <4> QED
        BY <1>1, <4>1 DEF SoldInv
    <3>2. CASE IndexAllows(r)
      <4>1. \A x \in DOMAIN order \ {r} : ~Live(x)'
        BY <3>2 DEF IndexAllows, Live
      <4> QED
        BY <4>1
    <3> QED
      BY <3>1, <3>2
  <2>2. \A x \in OrderVersions, l \in Lines : shipped'[x][l] > 0 \/ billed'[x][l] > 0 => x \in DOMAIN order' /\ Sold(x)'
    BY <1>1, <1>2, <1>3 DEF SoldInv
  <2>3. \A x \in DOMAIN order', l \in Lines :
          order'[x].delivered[l] > 0 \/ order'[x].invoiced[l] > 0 => Sold(x)' /\ l \in order'[x].lines
    <3>1. ASSUME NEW x \in DOMAIN order, NEW l \in Lines, order'[x].delivered[l] > 0 \/ order'[x].invoiced[l] > 0
          PROVE  Sold(x)' /\ l \in order'[x].lines
      <4>1. CASE x # r
        BY <1>1, <1>3, <3>1, <4>1 DEF SoldInv
      <4>2. CASE x = r
        BY <1>1, <1>2, <1>3, <3>1, <4>2 DEF SoldInv
      <4> QED
        BY <4>1, <4>2
    <3> QED
      BY <3>1
  <2>4. ASSUME NEW w \in Salespeople, req'[w].at \in AfterSale PROVE Sold(req[w].order)' /\ req'[w].order = req[w].order
    <3>1. PICK x : x = req[w].order
      OBVIOUS
    <3>2. Sold(x) /\ x \in DOMAIN order /\ req'[w].order = x
      BY <1>1, <1>2, <2>4, <3>1 DEF SoldInv, SalesTypes, Others, AfterSale, FulfilSteps, InvoiceSteps
    <3>3. Sold(x)'
      BY <1>3, <3>2
    <3> QED
      BY <3>1, <3>2, <3>3 DEF Sold, Live
  <2>5. \A x \in dropped' : order'[x].state # "quotation" /\ order'[x].state # "sent"
    BY <1>1 DEF SoldInv, SalesTypes
  <2> QED
    BY <2>1, <2>2, <2>3, <2>4, <2>5 DEF SoldInv, Sold, Live
<1>5. ASSUME NEW x \in DOMAIN order \ edited, NEW l \in Lines PROVE Shipping(x, l)' /\ Invoiced(x, l)'
  <2>1. Shipping(x, l) /\ Invoiced(x, l)
    BY <1>1, <1>5 DEF LinesInv
  <2>2. SameBillers(x, l)
    BY DEF SameBillers, Billing, Invoicing, Others, FulfilSteps, Serves
  <2>3. /\ x \in OrderVersions /\ order'[x].invoiced[l] = order[x].invoiced[l] /\ billed'[x][l] = billed[x][l]
        /\ order'[x].lines = order[x].lines /\ order'[x].delivered[l] >= order[x].delivered[l]
    BY <1>1, OrderFacts
  <2>4. Invoiced(x, l)'
    BY <1>1, <2>1, <2>2, <2>3, InvoicedFrame
  <2>5. ASSUME x # r PROVE Shipping(x, l)'
    <3>1. SameHolders(x, l)
      BY <2>5 DEF SameHolders, Pending, Serving, Others, Serves
    <3> QED
      BY <2>1, <2>3, <2>5, <3>1, ShippingFrame
  <2> QED
    BY <1>5, <2>4, <2>5
<1>6. ASSUME NEW x \in DOMAIN order \ edited PROVE FlagFollows(x)'
  <2>1. ASSUME x # r PROVE FlagFollows(x)'
    <3>1. FlagFollows(x) /\ order'[x] = order[x]
      BY <1>1, <1>6, <2>1 DEF FlagInv
    <3>2. OutstandingLines(x)' = OutstandingLines(x) /\ (Complete(x) => Complete(x)')
      BY <3>1 DEF Complete, OutstandingLines, Remaining
    <3>3. \A w \in Salespeople : /\ req'[w].order = x /\ req'[w].at = "flip" => req[w].order = x /\ req[w].at = "flip"
                                 /\ Flagging(w, x) => Flagging(w, x)'
      BY <2>1 DEF Flagging, Others
    <3>4. salesFaults' = 0 => salesFaults = 0
      BY <1>1 DEF SalesTypes
    <3> QED
      BY <3>1, <3>2, <3>3, <3>4 DEF FlagFollows
  <2> QED
    BY <1>6, <2>1
<1> QED
  BY <1>4, <1>5, <1>6 DEF SalesInv, LinesInv, FlagInv

LEMMA ReadOutstandingStep ==
    ASSUME SalesInv, NEW u \in Salespeople, ReadOutstanding(u)
    PROVE  SalesInv'
<1>1. SalesTypes /\ SoldInv /\ LinesInv /\ FlagInv
  BY DEF SalesInv
<1>2. PICK r : r = req[u].order
  OBVIOUS
<1>3. r \in DOMAIN order /\ req[u] \in Request /\ req[u].at \in {"goods", "services"}
  BY <1>1, <1>2 DEF SalesTypes, ReadOutstanding
<1>4. PICK open : open = OutstandingLines(r) \cap OfStep(req[u].at)
  OBVIOUS
<1>50. PICK want \in [Lines -> 0..(MaxQuantity + 1)] :
         LET own == req[u].order
             left == OutstandingLines(own) \cap OfStep(req[u].at)
         IN /\ \A l \in Lines : want[l] \in (IF l \in left THEN FormQuantities(own, l) ELSE {0})
            /\ LET taken == [l \in Lines |-> IF l \in left THEN Clamped(want[l], Remaining(own, l)) ELSE 0]
               IN /\ req' = [req EXCEPT ![u] = IF taken = NoneOf THEN Idle
                                               ELSE [@ EXCEPT !.at = "serve", !.todo = taken]]
                  /\ overlapped' = overlapped \cup
                      {<<own, l, "ship">> : l \in {x \in Lines : taken[x] > 0
                                                   /\ \E v \in Salespeople \ {u} : Pending(v, own, x)}}
  BY Zenon DEF ReadOutstanding
<1>51. PICK todo : todo = [l \in Lines |-> IF l \in open THEN Clamped(want[l], Remaining(r, l)) ELSE 0]
  OBVIOUS
<1>52. /\ req' = [req EXCEPT ![u] = IF todo = NoneOf THEN Idle
                                     ELSE [req[u] EXCEPT !.at = "serve", !.todo = todo]]
       /\ overlapped' = overlapped \cup
             {<<r, l, "ship">> : l \in {x \in Lines : todo[x] > 0
                                          /\ \E v \in Salespeople \ {u} : Pending(v, r, x)}}
  BY <1>2, <1>4, <1>50, <1>51, Zenon
<1>6. UNCHANGED <<order, shipped, billed, edited, dropped, salesFaults>>
  BY DEF ReadOutstanding
<1>7. /\ todo \in [Lines -> Nat]
      /\ \A l \in Lines : todo[l] > 0 => l \in order[r].lines /\ todo[l] + order[r].delivered[l] <= Ordered[l]
  <2>1. ASSUME NEW l \in Lines
        PROVE  /\ todo[l] \in Nat
               /\ todo[l] > 0 => l \in order[r].lines /\ todo[l] + order[r].delivered[l] <= Ordered[l]
    <3>1. want[l] \in Nat /\ Ordered[l] \in Nat /\ order[r].delivered[l] \in Nat
      <4>1. want[l] \in Nat
        BY <1>50, StockAssumption
      <4> QED
        BY <1>1, <1>3, <4>1, OrderedFacts, OrderFacts
    <3>2. CASE l \in open
      <4>1. l \in order[r].lines /\ Remaining(r, l) > 0
        BY <1>4, <3>2 DEF OutstandingLines
      <4>2. todo[l] = Clamped(want[l], Remaining(r, l))
        BY <1>51, <3>2
      <4> QED
        BY <3>1, <4>1, <4>2 DEF Clamped, Remaining
    <3>3. CASE l \notin open
      BY <1>51, <3>3
    <3> QED
      BY <3>2, <3>3
  <2>2. todo = [l \in Lines |-> todo[l]]
    BY <1>51
  <2> QED
    BY <2>1, <2>2
<1>8. salesFaults' \in Nat /\ salesFaults <= salesFaults' /\ overlapped \subseteq overlapped'
  BY <1>1, <1>52, <1>6 DEF SalesTypes
<1>9. CASE todo = NoneOf
  <2>1. req' \in [Salespeople -> Request] /\ req'[u] = Idle /\ Others(u) /\ Idle.at = "idle" /\ Idle.order \in DOMAIN order
    BY <1>1, <1>52, <1>9, IdleIsRequest, ReqMoves
  <2> QED
    BY <1>3, <1>6, <1>8, <2>1, Walked DEF Holding, AfterSale, FulfilSteps, InvoiceSteps
<1>10. CASE todo # NoneOf
  <2>1. PICK v : v = [req[u] EXCEPT !.at = "serve", !.todo = todo]
    OBVIOUS
  <2>2. v \in Request /\ v.at = "serve" /\ v.order = r /\ v.todo = todo
    BY <1>2, <1>3, <1>7, <2>1 DEF Request
  <2>3. req' = [req EXCEPT ![u] = v]
    BY <1>52, <1>10, <2>1
  <2>4. req' \in [Salespeople -> Request] /\ req'[u] = v /\ Others(u)
    BY <1>1, <2>2, <2>3, ReqMoves
  <2>5. SalesTypes'
    BY <1>1, <1>3, <1>6, <2>2, <2>4, TypesKept DEF SalesTypes
  <2>6. ASSUME r \notin edited, NEW l \in Lines PROVE Shipping(r, l)'
    <3>1. Shipping(r, l)
      BY <1>1, <1>3, <2>6 DEF LinesInv
    <3>2. CASE todo[l] = 0
      <4>1. \A w \in Salespeople : /\ Pending(w, r, l)' => Pending(w, r, l) /\ req'[w] = req[w]
                                   /\ Serving(w, r, l)' <=> Serving(w, r, l)
                                   /\ Serving(w, r, l)' => req'[w] = req[w]
        BY <1>3, <2>2, <2>4, <3>2 DEF Pending, Serving, Others
      <4>2. SameHolders(r, l)
        BY <4>1 DEF SameHolders
      <4> QED
        BY <1>6, <1>8, <3>1, <4>2, ShippingFrame
    <3>3. CASE todo[l] > 0 /\ <<r, l, "ship">> \notin overlapped'
      <4>1. \A w \in Salespeople \ {u} : ~Pending(w, r, l)
        BY <1>52, <3>3
      <4>2. \A w \in Salespeople : Pending(w, r, l)' => w = u
        BY <2>4, <4>1 DEF Pending, Others
      <4>3. \A w \in Salespeople : ~Serving(w, r, l)
        BY <1>1, <1>3, <4>1, ServingPends DEF Serving
      <4>4. \A w \in Salespeople : ~Serving(w, r, l)'
        BY <2>2, <2>4, <4>3 DEF Serving, Others
      <4>5. shipped[r][l] = order[r].delivered[l] /\ order[r].delivered[l] <= Ordered[l]
        BY <1>8, <3>1, <3>3, <4>3 DEF Shipping
      <4>6. req'[u].todo[l] + order'[r].delivered[l] <= Ordered[l] /\ l \in order'[r].lines
        BY <1>6, <1>7, <2>2, <2>4, <3>3
      <4> QED
        BY <1>6, <4>2, <4>4, <4>5, <4>6 DEF Shipping
    <3>4. CASE <<r, l, "ship">> \in overlapped'
      BY <3>4 DEF Shipping
    <3> QED
      BY <1>7, <3>2, <3>3, <3>4
  <2>7. ASSUME r \notin edited PROVE FlagFollows(r)'
    <3>1. FlagFollows(r)
      BY <1>1, <1>3, <2>7 DEF FlagInv
    <3>2. Complete(r) => Complete(r)'
      BY <1>6, <1>8 DEF Complete, OutstandingLines, Remaining
    <3>3. \A w \in Salespeople : /\ req'[w].order = r /\ req'[w].at = "flip" => req[w].order = r /\ req[w].at = "flip"
                                 /\ Flagging(w, r) => Flagging(w, r)'
      BY <2>2, <2>4 DEF Flagging, Others
    <3>4. OutstandingLines(r)' = OutstandingLines(r)
      BY <1>6 DEF OutstandingLines, Remaining
    <3> QED
      BY <1>6, <3>1, <3>2, <3>3, <3>4 DEF FlagFollows
  <2>8. \A l \in Lines : order'[r].delivered[l] >= order[r].delivered[l]
    BY <1>1, <1>3, <1>6, OrderFacts
  <2> QED
    BY <1>2, <1>3, <1>6, <1>8, <2>2, <2>4, <2>5, <2>6, <2>7, <2>8, ServeMoved DEF FulfilSteps, Serves
<1> QED
  BY <1>9, <1>10

LEMMA ServeLineStep ==
    ASSUME SalesInv, NEW u \in Salespeople, NEW l \in Lines, ServeLine(u, l)
    PROVE  SalesInv'
<1>1. SalesTypes /\ LinesInv /\ FlagInv
  BY DEF SalesInv
<1>2. PICK r : r = req[u].order
  OBVIOUS
<1>3. /\ r \in DOMAIN order /\ r \in OrderVersions /\ req[u] \in Request /\ req[u].at = "serve" /\ req[u].todo[l] > 0
      /\ req[u].todo[l] \in Nat /\ shipped[r][l] \in Nat /\ shipped[r] \in [Lines -> Nat]
  <2>1. r \in DOMAIN order /\ r \in OrderVersions /\ req[u] \in Request /\ req[u].at = "serve" /\ req[u].todo[l] > 0
    BY <1>1, <1>2 DEF SalesTypes, ServeLine, At
  <2> QED
    BY <1>1, <2>1, RequestFacts, OrderFacts DEF SalesTypes
<1>4. PICK v : v = [req[u] EXCEPT !.at = "advance", !.line = l]
  OBVIOUS
<1>5. v \in Request /\ v.at = "advance" /\ v.order = r /\ v.line = l /\ v.todo = req[u].todo
  BY <1>2, <1>3, <1>4 DEF Request
<1>6. req' = [req EXCEPT ![u] = v]
  BY <1>1, <1>4 DEF ServeLine, SalesTypes
<1>7. req' \in [Salespeople -> Request] /\ req'[u] = v /\ Others(u)
  BY <1>1, <1>5, <1>6, ReqMoves
<1>8. UNCHANGED <<order, billed, overlapped, edited, dropped, salesFaults>>
  BY DEF ServeLine
<1>9. /\ shipped' \in [OrderVersions -> [Lines -> Nat]]
      /\ shipped'[r][l] = shipped[r][l] + req[u].todo[l]
      /\ \A x \in Lines \ {l} : shipped'[r][x] = shipped[r][x]
      /\ \A x \in OrderVersions \ {r} : shipped'[x] = shipped[x]
  <2>1. PICK n : n = shipped[r][l] + req[u].todo[l]
    OBVIOUS
  <2>2. n \in Nat
    BY <1>3, <2>1
  <2>3. PICK f : f = [shipped[r] EXCEPT ![l] = n]
    OBVIOUS
  <2>4. f \in [Lines -> Nat] /\ f[l] = n /\ \A x \in Lines \ {l} : f[x] = shipped[r][x]
    BY <1>3, <2>2, <2>3
  <2>5. shipped' = [shipped EXCEPT ![r] = f]
    BY <1>1, <1>2, <1>3, <2>1, <2>3 DEF ServeLine, SalesTypes
  <2> QED
    BY <1>1, <1>3, <2>1, <2>4, <2>5 DEF SalesTypes
<1>10. SalesTypes'
  BY <1>1, <1>3, <1>5, <1>7, <1>8, <1>9, TypesKept DEF SalesTypes
<1>11. ASSUME r \notin edited, NEW x \in Lines PROVE Shipping(r, x)'
  <2>1. Shipping(r, x)
    BY <1>1, <1>3, <1>11 DEF LinesInv
  <2>2. CASE x # l
    <3>1. SameHolders(r, x)
      <4>1. /\ Pending(u, r, x)' => Pending(u, r, x) /\ req'[u].todo[x] = req[u].todo[x]
            /\ ~Serving(u, r, x)' /\ ~Serving(u, r, x)
        BY <1>2, <1>3, <1>5, <1>7, <2>2 DEF Pending, Serving
      <4>2. \A w \in Salespeople \ {u} : /\ Pending(w, r, x)' <=> Pending(w, r, x)
                                         /\ Serving(w, r, x)' <=> Serving(w, r, x)
                                         /\ req'[w] = req[w]
        BY <1>7 DEF Pending, Serving, Others
      <4> QED
        BY <4>1, <4>2 DEF SameHolders
    <3> QED
      BY <1>8, <1>9, <2>1, <2>2, <3>1, ShippingFrame
  <2>3. CASE x = l /\ <<r, l, "ship">> \notin overlapped'
    <3>1. Pending(u, r, l)
      BY <1>2, <1>3 DEF Pending
    <3>2. /\ \A w \in Salespeople : Pending(w, r, l) => w = u
          /\ l \in order[r].lines /\ req[u].todo[l] + order[r].delivered[l] <= Ordered[l]
          /\ order[r].delivered[l] <= Ordered[l]
      BY <1>8, <2>1, <2>3, <3>1 DEF Shipping
    <3>3. \A w \in Salespeople : ~Serving(w, r, l)
      BY <1>1, <1>3, <3>2, ServingPends DEF Serving
    <3>4. shipped[r][l] = order[r].delivered[l]
      BY <1>8, <2>1, <2>3, <3>3 DEF Shipping
    <3>5. \A w \in Salespeople : (Pending(w, r, l)' => w = u) /\ (Serving(w, r, l)' <=> w = u)
      BY <1>5, <1>7, <3>2, <3>3 DEF Pending, Serving, Others
    <3>6. /\ shipped'[r][l] = order'[r].delivered[l] + req'[u].todo[l]
          /\ req'[u].todo[l] + order'[r].delivered[l] <= Ordered[l] /\ l \in order'[r].lines
          /\ order'[r].delivered[l] <= Ordered[l]
      BY <1>5, <1>7, <1>8, <1>9, <3>2, <3>4
    <3> QED
      BY <2>3, <3>5, <3>6 DEF Shipping
  <2>4. CASE <<r, x, "ship">> \in overlapped'
    BY <2>4 DEF Shipping
  <2> QED
    BY <2>2, <2>3, <2>4
<1>12. ASSUME r \notin edited PROVE FlagFollows(r)'
  <2>1. FlagFollows(r)
    BY <1>1, <1>3, <1>12 DEF FlagInv
  <2>2. Complete(r) => Complete(r)'
    BY <1>8 DEF Complete, OutstandingLines, Remaining
  <2>3. \A w \in Salespeople : /\ req'[w].order = r /\ req'[w].at = "flip" => req[w].order = r /\ req[w].at = "flip"
                               /\ Flagging(w, r) => Flagging(w, r)'
    BY <1>5, <1>7 DEF Flagging, Others
  <2>4. OutstandingLines(r)' = OutstandingLines(r)
    BY <1>8 DEF OutstandingLines, Remaining
  <2> QED
    BY <1>8, <2>1, <2>2, <2>3, <2>4 DEF FlagFollows
<1>13. (\A x \in Lines : order'[r].delivered[x] >= order[r].delivered[x]) /\ salesFaults <= salesFaults'
  BY <1>1, <1>3, <1>8, OrderFacts DEF SalesTypes
<1> QED
  BY <1>2, <1>3, <1>5, <1>7, <1>8, <1>9, <1>10, <1>11, <1>12, <1>13, ServeMoved DEF FulfilSteps, Serves

\* The request goes on to the next line it has to serve.
LEMMA ServedFacts ==
    ASSUME SalesTypes, NEW u \in Salespeople, req[u].at = "advance", Served(u)
    PROVE  /\ req' \in [Salespeople -> Request] /\ Others(u) /\ req'[u].at \in {"serve", "outstanding"}
           /\ req'[u].order = req[u].order /\ req'[u].todo[req[u].line] = 0
           /\ \A l \in Lines \ {req[u].line} : req'[u].todo[l] = req[u].todo[l]
<1>1. req[u] \in Request /\ req[u].line \in Lines /\ req[u].todo \in [Lines -> Nat]
  BY RequestFacts DEF SalesTypes
<1>2. PICK rest : rest = [req[u].todo EXCEPT ![req[u].line] = 0]
  OBVIOUS
<1>3. rest \in [Lines -> Nat] /\ rest[req[u].line] = 0 /\ \A l \in Lines \ {req[u].line} : rest[l] = req[u].todo[l]
  BY <1>1, <1>2
<1>4. PICK step \in {"serve", "outstanding"} : step = IF rest = NoneOf THEN "outstanding" ELSE "serve"
  OBVIOUS
<1>5. PICK v : v = [req[u] EXCEPT !.todo = rest, !.line = "-", !.at = step]
  OBVIOUS
<1>6. v \in Request /\ v.at = step /\ v.order = req[u].order /\ v.todo = rest
  BY <1>1, <1>3, <1>4, <1>5 DEF Request
<1>7. req' = [req EXCEPT ![u] = v]
  BY <1>2, <1>4, <1>5 DEF Served, SalesTypes
<1> QED
  BY <1>3, <1>6, <1>7, ReqMoves

\* The quantity of the line is recorded, or is noted as lost.
LEMMA RecordedLine ==
    ASSUME SalesInv, SalesTypes', NEW u \in Salespeople, NEW r \in DOMAIN order, NEW l \in Lines,
           req[u].order = r, req[u].at = "advance", req[u].line = l, Served(u),
           DOMAIN order' = DOMAIN order, \A x \in DOMAIN order \ {r} : order'[x] = order[x],
           order'[r].lines = order[r].lines, order'[r].invoiced = order[r].invoiced,
           order'[r].state = order[r].state,
           \A x \in Lines \ {l} : order'[r].delivered[x] = order[r].delivered[x],
           order'[r].delivered[l] >= order[r].delivered[l],
           l \notin order[r].lines => order'[r].delivered[l] = order[r].delivered[l],
           <<r, l, "ship">> \notin overlapped' /\ l \in order[r].lines =>
               order'[r].delivered[l] = order[r].delivered[l] + req[u].todo[l],
           UNCHANGED <<shipped, billed, dropped, edited>>, overlapped \subseteq overlapped', salesFaults <= salesFaults'
    PROVE  SalesInv'
<1>1. SalesTypes /\ LinesInv /\ FlagInv
  BY DEF SalesInv
<1>2. /\ req' \in [Salespeople -> Request] /\ Others(u) /\ req'[u].at \in {"serve", "outstanding"}
      /\ req'[u].order = r /\ req'[u].todo[l] = 0
      /\ \A x \in Lines \ {l} : req'[u].todo[x] = req[u].todo[x]
  BY <1>1, ServedFacts
<1>3. /\ \A x \in Lines : order[r].delivered[x] \in Nat /\ order'[r].delivered[x] \in Nat
      /\ \A x \in Lines : order'[r].delivered[x] >= order[r].delivered[x]
  <2>1. order'[r] \in Order
    BY DEF SalesTypes
  <2>2. \A x \in Lines : order[r].delivered[x] \in Nat /\ order'[r].delivered[x] \in Nat
    BY <1>1, <2>1, OrderFacts DEF Order
  <2> QED
    BY <2>2
<1>4. ASSUME r \notin edited, NEW x \in Lines PROVE Shipping(r, x)'
  <2>1. Shipping(r, x)
    BY <1>1, <1>4 DEF LinesInv
  <2>2. CASE x # l
    <3>1. /\ Pending(u, r, x)' => Pending(u, r, x) /\ req'[u].todo[x] = req[u].todo[x]
          /\ ~Serving(u, r, x)' /\ ~Serving(u, r, x)
      BY <1>2, <2>2 DEF Pending, Serving
    <3>2. \A w \in Salespeople \ {u} :
              (Pending(w, r, x)' <=> Pending(w, r, x)) /\ (Serving(w, r, x)' <=> Serving(w, r, x)) /\ req'[w] = req[w]
      BY <1>2 DEF Pending, Serving, Others
    <3>3. SameHolders(r, x)
      BY <3>1, <3>2 DEF SameHolders
    <3> QED
      BY <2>1, <2>2, <3>3, ShippingFrame
  <2>3. CASE x = l /\ <<r, l, "ship">> \notin overlapped'
    <3>1. Serving(u, r, l) /\ Pending(u, r, l)
      BY <1>1, ServingPends DEF Serving
    <3>2. /\ \A w \in Salespeople : Pending(w, r, l) => w = u
          /\ l \in order[r].lines /\ req[u].todo[l] + order[r].delivered[l] <= Ordered[l]
          /\ shipped[r][l] = order[r].delivered[l] + req[u].todo[l]
      BY <2>1, <2>3, <3>1 DEF Shipping
    <3>3. \A w \in Salespeople \ {u} : ~Serving(w, r, l)
      BY <1>1, <3>2, ServingPends
    <3>4. \A w \in Salespeople : ~Pending(w, r, l)' /\ ~Serving(w, r, l)'
      BY <1>2, <3>2, <3>3 DEF Pending, Serving, Others
    <3>5. order'[r].delivered[l] = order[r].delivered[l] + req[u].todo[l]
      BY <2>3, <3>2
    <3>6. shipped'[r][l] = order'[r].delivered[l] /\ order'[r].delivered[l] <= Ordered[l]
      BY <1>1, <1>3, <3>2, <3>5, RequestFacts, OrderedFacts
    <3> QED
      BY <2>3, <3>4, <3>6 DEF Shipping
  <2>4. CASE <<r, x, "ship">> \in overlapped'
    BY <2>4 DEF Shipping
  <2> QED
    BY <2>2, <2>3, <2>4
<1>5. ASSUME r \notin edited PROVE FlagFollows(r)'
  <2>1. FlagFollows(r)
    BY <1>1, <1>5 DEF FlagInv
  <2>2. OutstandingLines(r)' \subseteq OutstandingLines(r)
    <3>1. \A x \in Lines : Remaining(r, x)' <= Remaining(r, x)
      BY <1>3, OrderedFacts DEF Remaining
    <3>2. \A x \in order[r].lines : Remaining(r, x)' > 0 => Remaining(r, x) > 0
      <4>1. \A x \in Lines : Remaining(r, x) \in Int /\ Remaining(r, x)' \in Int
        BY <1>3, OrderedFacts DEF Remaining
      <4> QED
        BY <1>1, <3>1, <4>1, OrderFacts
    <3> QED
      BY <3>2 DEF OutstandingLines
  <2>3. Complete(r) => Complete(r)'
    BY <2>2 DEF Complete
  <2>4. \A w \in Salespeople : req'[w].order = r /\ req'[w].at = "flip" => req[w].order = r /\ req[w].at = "flip"
    BY <1>2 DEF Others
  <2>5. Flagging(u, r)'
    BY <1>2 DEF Flagging
  <2> QED
    BY <2>1, <2>3, <2>4, <2>5 DEF FlagFollows
<1>6. \A x \in Lines : order'[r].delivered[x] # order[r].delivered[x] => x \in order[r].lines
  OBVIOUS
<1> QED
  BY <1>2, <1>3, <1>4, <1>5, <1>6, ServeMoved DEF FulfilSteps, Serves

LEMMA AdvanceDeliveredStep ==
    ASSUME SalesInv, NEW u \in Salespeople, AdvanceDelivered(u)
    PROVE  SalesInv'
<1>1. SalesTypes
  BY DEF SalesInv
<1>2. PICK r : r = req[u].order
  OBVIOUS
<1>3. PICK l : l = req[u].line
  OBVIOUS
<1>4. /\ r \in DOMAIN order /\ l \in Lines /\ order[r] \in Order /\ req[u].at = "advance"
      /\ req[u].todo[l] \in Nat /\ order[r].delivered \in [Lines -> Nat]
  <2>1. r \in DOMAIN order /\ l \in Lines /\ req[u].at = "advance"
    BY <1>1, <1>2, <1>3 DEF SalesTypes, AdvanceDelivered, At
  <2> QED
    BY <1>1, <2>1, OrderFacts, RequestFacts
<1>5. PICK n : n = order[r].delivered[l] + req[u].todo[l]
  OBVIOUS
<1>6. PICK d : d = [order[r].delivered EXCEPT ![l] = n]
  OBVIOUS
<1>7. n \in Nat /\ n >= order[r].delivered[l] /\ d \in [Lines -> Nat] /\ d[l] = n
      /\ \A x \in Lines \ {l} : d[x] = order[r].delivered[x]
  BY <1>4, <1>5, <1>6
<1>8. PICK v : v = IF l \in order[r].lines THEN [order[r] EXCEPT !.delivered = d] ELSE order[r]
  OBVIOUS
<1>9. /\ v \in Order /\ v.state = order[r].state /\ v.lines = order[r].lines /\ v.invoiced = order[r].invoiced
      /\ l \in order[r].lines => v.delivered = d
      /\ l \notin order[r].lines => v.delivered = order[r].delivered
  <2>1. CASE l \in order[r].lines
    BY <1>4, <1>7, <1>8, <2>1 DEF Order
  <2>2. CASE l \notin order[r].lines
    BY <1>4, <1>8, <2>2
  <2> QED
    BY <2>1, <2>2
<1>10. order' = [order EXCEPT ![r] = v]
  BY <1>1, <1>2, <1>3, <1>4, <1>5, <1>6, <1>8 DEF AdvanceDelivered, SalesTypes
<1>11. /\ DOMAIN order' = DOMAIN order /\ order' \in [DOMAIN order -> Order] /\ order'[r] = v
       /\ \A x \in DOMAIN order \ {r} : order'[x] = order[x]
  BY <1>1, <1>4, <1>9, <1>10, RowWritten
<1>12. UNCHANGED <<shipped, billed, overlapped, edited, dropped, salesFaults>> /\ Served(u)
  BY DEF AdvanceDelivered, served
<1>13. /\ req' \in [Salespeople -> Request] /\ Others(u) /\ req'[u].at \in {"serve", "outstanding"}
       /\ req'[u].order \in DOMAIN order
  BY <1>1, <1>2, <1>4, <1>12, ServedFacts
<1>14. SalesTypes'
  BY <1>1, <1>11, <1>12, <1>13, TypesKept DEF SalesTypes
<1>15. /\ \A x \in Lines \ {l} : order'[r].delivered[x] = order[r].delivered[x]
       /\ order'[r].delivered[l] >= order[r].delivered[l]
       /\ l \notin order[r].lines => order'[r].delivered[l] = order[r].delivered[l]
       /\ l \in order[r].lines => order'[r].delivered[l] = order[r].delivered[l] + req[u].todo[l]
  BY <1>4, <1>5, <1>7, <1>9, <1>11
<1>16. salesFaults <= salesFaults' /\ overlapped \subseteq overlapped'
  BY <1>1, <1>12 DEF SalesTypes
<1> QED
  BY <1>2, <1>3, <1>4, <1>9, <1>11, <1>12, <1>14, <1>15, <1>16, RecordedLine

LEMMA AdvanceLostStep ==
    ASSUME SalesInv, NEW u \in Salespeople, AdvanceLost(u)
    PROVE  SalesInv'
<1>1. SalesTypes
  BY DEF SalesInv
<1>2. PICK r : r = req[u].order
  OBVIOUS
<1>3. PICK l : l = req[u].line
  OBVIOUS
<1>4. r \in DOMAIN order /\ l \in Lines /\ req[u].at = "advance"
  BY <1>1, <1>2, <1>3 DEF SalesTypes, AdvanceLost, At
<1>5. UNCHANGED <<order, shipped, billed, edited, dropped>> /\ Served(u)
  BY DEF AdvanceLost
<1>6. overlapped \subseteq overlapped' /\ <<r, l, "ship">> \in overlapped'
  BY <1>2, <1>3 DEF AdvanceLost
<1>7. salesFaults' \in Nat /\ salesFaults <= salesFaults'
  BY <1>1 DEF AdvanceLost, SalesTypes
<1>8. /\ req' \in [Salespeople -> Request] /\ Others(u) /\ req'[u].at \in {"serve", "outstanding"}
      /\ req'[u].order \in DOMAIN order
  BY <1>1, <1>2, <1>4, <1>5, ServedFacts
<1>9. SalesTypes'
  BY <1>1, <1>5, <1>7, <1>8, TypesKept DEF SalesTypes
<1>10. order'[r].delivered[l] >= order[r].delivered[l]
  BY <1>1, <1>4, <1>5, OrderFacts
<1> QED
  BY <1>2, <1>3, <1>4, <1>5, <1>6, <1>7, <1>9, <1>10, RecordedLine

\* The delivery moves on or ends, and the orders stay as they are: it goes
\* to flag the order only when it is complete, and gives up only when it is
\* not, or by a fault.
LEMMA ServeWalked ==
    ASSUME SalesInv, NEW u \in Salespeople, NEW r \in DOMAIN order,
           req[u].order = r, req[u].at \in Serves,
           req' \in [Salespeople -> Request], Others(u), req'[u].order \in DOMAIN order,
           req'[u].at = "idle" \/ (req'[u].at = "flip" /\ req'[u].order = r),
           UNCHANGED <<order, shipped, billed, edited, dropped>>,
           overlapped \subseteq overlapped', salesFaults' \in Nat, salesFaults <= salesFaults',
           req[u].at = "advance" => <<r, req[u].line, "ship">> \in overlapped',
           req'[u].at = "flip" => Complete(r)',
           req'[u].at = "idle" =>
              salesFaults' # 0 \/ OutstandingLines(r) # {} \/ order[r].state # "confirmed"
    PROVE  SalesInv'
<1>1. SalesTypes /\ LinesInv /\ FlagInv
  BY DEF SalesInv
<1>2. SalesTypes'
  BY <1>1, TypesKept DEF SalesTypes
<1>3. ASSUME r \notin edited, NEW x \in Lines, <<r, x, "ship">> \notin overlapped' PROVE Shipping(r, x)'
  <2>1. Shipping(r, x)
    BY <1>1, <1>3 DEF LinesInv
  <2>2. ~Serving(u, r, x) /\ ~Serving(u, r, x)' /\ ~Pending(u, r, x)'
    BY <1>3 DEF Serving, Pending
  <2>3. \A w \in Salespeople \ {u} :
            (Pending(w, r, x)' <=> Pending(w, r, x)) /\ (Serving(w, r, x)' <=> Serving(w, r, x)) /\ req'[w] = req[w]
    BY DEF Pending, Serving, Others
  <2>4. SameHolders(r, x)
    BY <2>2, <2>3 DEF SameHolders
  <2> QED
    BY <2>1, <2>4, ShippingFrame
<1>4. ASSUME r \notin edited PROVE FlagFollows(r)'
  <2>1. FlagFollows(r)
    BY <1>1, <1>4 DEF FlagInv
  <2>2. OutstandingLines(r)' = OutstandingLines(r) /\ (Complete(r) => Complete(r)')
    BY DEF Complete, OutstandingLines, Remaining
  <2>3. \A w \in Salespeople \ {u} : /\ req'[w] = req[w]
                                     /\ Flagging(w, r)' <=> Flagging(w, r)
    BY DEF Others, Flagging
  <2>4. \A w \in Salespeople : req'[w].order = r /\ req'[w].at = "flip" => Complete(r)'
    BY <2>1, <2>2, <2>3 DEF FlagFollows
  <2>5. CASE req'[u].at = "flip"
    <3>1. Flagging(u, r)'
      BY <2>5 DEF Flagging
    <3> QED
      BY <2>1, <2>2, <2>4, <3>1 DEF FlagFollows
  <2>6. CASE req'[u].at = "idle"
    BY <2>1, <2>2, <2>4, <2>6 DEF FlagFollows
  <2> QED
    BY <2>5, <2>6
<1>5. \A x \in Lines : order'[r].delivered[x] >= order[r].delivered[x]
  BY <1>1, OrderFacts
<1>6. \A x \in Lines : Shipping(r, x)' \/ r \in edited
  BY <1>3 DEF Shipping
<1> QED
  BY <1>2, <1>4, <1>5, <1>6, ServeMoved DEF FulfilSteps, Serves

LEMMA CountOutstandingStep ==
    ASSUME SalesInv, NEW u \in Salespeople, CountOutstanding(u)
    PROVE  SalesInv'
<1>1. SalesTypes
  BY DEF SalesInv
<1>2. PICK r : r = req[u].order
  OBVIOUS
<1>3. r \in DOMAIN order /\ req[u].at = "outstanding"
  BY <1>1, <1>2 DEF SalesTypes, CountOutstanding, At
<1>4. UNCHANGED <<order, shipped, billed, overlapped, edited, dropped, salesFaults>>
  BY DEF CountOutstanding, served
<1>5. salesFaults' \in Nat /\ salesFaults <= salesFaults'
  BY <1>1, <1>4 DEF SalesTypes
<1>6. CASE OutstandingLines(r) = {} /\ Goto(u, "flip")
  <2>1. req' \in [Salespeople -> Request] /\ Others(u) /\ req'[u].at = "flip" /\ req'[u].order = r
    BY <1>1, <1>2, <1>6, Goes
  <2>2. Complete(r)'
    BY <1>4, <1>6 DEF Complete, OutstandingLines, Remaining
  <2> QED
    BY <1>2, <1>3, <1>4, <1>5, <2>1, <2>2, ServeWalked DEF Serves
<1>7. CASE OutstandingLines(r) # {} /\ Done(u)
  <2>1. req' \in [Salespeople -> Request] /\ Others(u) /\ req'[u].at = "idle" /\ req'[u].order \in DOMAIN order
    BY <1>1, <1>7, Ends
  <2> QED
    BY <1>2, <1>3, <1>4, <1>5, <1>7, <2>1, ServeWalked DEF Serves
<1> QED
  BY <1>2, <1>6, <1>7 DEF CountOutstanding

\* The count of open lines fails.
LEMMA OpenCountFails ==
    ASSUME SalesInv, NEW u \in Salespeople, CountFails(u), req[u].at = "outstanding"
    PROVE  SalesInv'
<1>1. SalesTypes
  BY DEF SalesInv
<1>2. PICK r : r = req[u].order
  OBVIOUS
<1>3. r \in DOMAIN order /\ order[r].lines \subseteq Lines
  <2>1. r \in DOMAIN order
    BY <1>1, <1>2 DEF SalesTypes
  <2> QED
    BY <1>1, <2>1, OrderFacts
<1>4. UNCHANGED <<order, shipped, billed, edited, dropped>> /\ overlapped \subseteq overlapped' /\ Goto(u, "flip")
  BY DEF CountFails, At
<1>5. \A l \in Lines : <<r, l, "count">> \in overlapped'
  BY <1>2 DEF CountFails, At
<1>6. salesFaults' \in Nat /\ salesFaults <= salesFaults'
  BY <1>1 DEF SalesTypes, CountFails
<1>7. req' \in [Salespeople -> Request] /\ Others(u) /\ req'[u].at = "flip" /\ req'[u].order = r
  BY <1>1, <1>2, <1>4, Goes
<1>8. Complete(r)'
  BY <1>3, <1>4, <1>5 DEF Complete, OutstandingLines
<1> QED
  BY <1>2, <1>3, <1>4, <1>6, <1>7, <1>8, ServeWalked DEF Serves

LEMMA MarkDeliveredStep ==
    ASSUME SalesInv, NEW u \in Salespeople, MarkDelivered(u)
    PROVE  SalesInv'
<1>1. SalesTypes /\ SoldInv /\ LinesInv /\ FlagInv
  BY DEF SalesInv
<1>2. PICK r : r = req[u].order
  OBVIOUS
<1>3. r \in DOMAIN order /\ order[r] \in Order /\ req[u].at = "flip"
  BY <1>1, <1>2 DEF SalesTypes, MarkDelivered, At
<1>4. UNCHANGED <<shipped, billed, overlapped, edited, dropped, salesFaults>>
  BY DEF MarkDelivered, served
<1>5. salesFaults' \in Nat /\ salesFaults <= salesFaults' /\ overlapped \subseteq overlapped'
  BY <1>1, <1>4 DEF SalesTypes
<1>6. req' \in [Salespeople -> Request] /\ Others(u) /\ req'[u].at = "idle" /\ req'[u].order \in DOMAIN order
  BY <1>1, Ends DEF MarkDelivered
<1>7. CASE ~IndexAllows(r) /\ order' = order
  <2>1. PICK x \in DOMAIN order \ {r} : Live(x)
    BY <1>7 DEF IndexAllows
  <2>2. ~Live(r)
    BY <1>1, <1>3, <2>1 DEF SoldInv
  <2>3. order[r].state # "confirmed"
    BY <2>2 DEF Live
  <2> QED
    BY <1>2, <1>3, <1>4, <1>5, <1>6, <1>7, <2>3, ServeWalked DEF Serves
<1>8. CASE IndexAllows(r) /\ order' = [order EXCEPT ![r].state = "delivered"]
  <2>1. "delivered" \in States
    BY DEF States
  <2>2. /\ DOMAIN order' = DOMAIN order /\ order' \in [DOMAIN order -> Order]
        /\ \A x \in DOMAIN order \ {r} : order'[x] = order[x]
        /\ order'[r].state = "delivered" /\ SameLines(r)
    BY <1>1, <1>3, <1>8, <2>1, StateWritten
  <2>3. SalesTypes'
    BY <1>1, <1>4, <1>5, <1>6, <2>2, TypesKept DEF SalesTypes
  <2>4. ASSUME r \notin edited, NEW x \in Lines PROVE Shipping(r, x)'
    <3>1. Shipping(r, x)
      BY <1>1, <1>3, <2>4 DEF LinesInv
    <3>2. SameHolders(r, x)
      BY <1>3, <1>6 DEF SameHolders, Pending, Serving, Others
    <3> QED
      BY <1>4, <2>2, <3>1, <3>2, ShippingFrame DEF SameLines
  <2>5. ASSUME r \notin edited PROVE FlagFollows(r)'
    <3>1. FlagFollows(r)
      BY <1>1, <1>3, <2>5 DEF FlagInv
    <3>2. Complete(r)
      BY <1>2, <1>3, <3>1 DEF FlagFollows
    <3>3. Complete(r)'
      BY <1>4, <2>2, <3>2 DEF Complete, OutstandingLines, Remaining, SameLines
    <3> QED
      BY <2>2, <3>3 DEF FlagFollows
  <2>6. \A x \in Lines : order'[r].delivered[x] = order[r].delivered[x] /\ order'[r].delivered[x] >= order[r].delivered[x]
    BY <1>1, <1>3, <2>2, OrderFacts DEF SameLines
  <2> QED
    BY SMTT(60), <1>2, <1>3, <1>4, <1>5, <1>6, <1>8, <2>2, <2>3, <2>4, <2>5, <2>6, ServeMoved DEF FulfilSteps, Serves, SameLines
<1> QED
  BY <1>2, <1>7, <1>8 DEF MarkDelivered

LEMMA AbandonDelivery ==
    ASSUME SalesInv, NEW u \in Salespeople, AbandonSale(u), req[u].at # "invoiced"
    PROVE  SalesInv'
<1>1. SalesTypes
  BY DEF SalesInv
<1>2. PICK r : r = req[u].order
  OBVIOUS
<1>3. r \in DOMAIN order
  BY <1>1, <1>2 DEF SalesTypes
<1>4. UNCHANGED <<order, shipped, billed, edited, dropped>>
  BY DEF AbandonSale
<1>5. salesFaults' \in Nat /\ salesFaults <= salesFaults' /\ salesFaults' # 0
  BY <1>1 DEF AbandonSale, SalesTypes
<1>6. overlapped \subseteq overlapped' /\ (req[u].at = "advance" => <<r, req[u].line, "ship">> \in overlapped')
  <2>1. PICK rest : overlapped' = overlapped \cup (IF At(u, "advance") THEN {<<r, req[u].line, "ship">>} ELSE {}) \cup rest
    BY <1>2 DEF AbandonSale
  <2> QED
    BY <2>1 DEF At
<1>7. req' \in [Salespeople -> Request] /\ Others(u) /\ req'[u].at = "idle" /\ req'[u].order \in DOMAIN order
  BY <1>1, Ends DEF AbandonSale
<1>8. CASE req[u].at \in {"others", "cloneLines", "supersede"}
  BY <1>4, <1>5, <1>6, <1>7, <1>8, Walked DEF Holding, AfterSale, FulfilSteps, InvoiceSteps
<1>9. CASE req[u].at \in Serves
  BY <1>2, <1>3, <1>4, <1>5, <1>6, <1>7, <1>9, ServeWalked
<1> QED
  BY <1>8, <1>9 DEF AbandonSale, Serves

-----------------------------------------------------------------------------
(* Invoicing *)

\* What a step of one invoice leaves as it was.
LEMMA BillMoved ==
    ASSUME SalesInv, SalesTypes', NEW u \in Salespeople, NEW r \in DOMAIN order,
           req[u].order = r, req[u].at \in InvoiceSteps, Others(u),
           req'[u].at = "idle" \/ (req'[u].order = r /\ req'[u].at \in InvoiceSteps),
           DOMAIN order' = DOMAIN order, \A x \in DOMAIN order \ {r} : order'[x] = order[x],
           order'[r].lines = order[r].lines, order'[r].delivered = order[r].delivered,
           order'[r].state = order[r].state,
           \A l \in Lines : order'[r].invoiced[l] > order[r].invoiced[l] => l \in order[r].lines,
           \A l \in Lines : order'[r].invoiced[l] >= order[r].invoiced[l],
           \A x \in OrderVersions \ {r} : billed'[x] = billed[x],
           UNCHANGED <<shipped, dropped, edited>>, overlapped \subseteq overlapped', salesFaults <= salesFaults',
           r \notin edited => \A l \in Lines : Invoiced(r, l)'
    PROVE  SalesInv'
<1>1. SalesTypes /\ SoldInv /\ LinesInv /\ FlagInv
  BY DEF SalesInv
<1>2. Sold(r)
  BY <1>1 DEF SoldInv, AfterSale
<1>3. \A x \in DOMAIN order : (Live(x)' <=> Live(x)) /\ (Sold(x) => Sold(x)')
  BY DEF Sold, Live
<1>4. SoldInv'
  <2>1. \A x, s \in DOMAIN order' : Live(x)' /\ Live(s)' => x = s
    BY <1>1, <1>3 DEF SoldInv
  <2>2. \A x \in OrderVersions, l \in Lines : shipped'[x][l] > 0 \/ billed'[x][l] > 0 => x \in DOMAIN order' /\ Sold(x)'
    BY <1>1, <1>2, <1>3 DEF SoldInv
  <2>3. \A x \in DOMAIN order', l \in Lines :
          order'[x].delivered[l] > 0 \/ order'[x].invoiced[l] > 0 => Sold(x)' /\ l \in order'[x].lines
    <3>1. ASSUME NEW x \in DOMAIN order, NEW l \in Lines, order'[x].delivered[l] > 0 \/ order'[x].invoiced[l] > 0
          PROVE  Sold(x)' /\ l \in order'[x].lines
      <4>1. CASE x # r
        BY <1>1, <1>3, <3>1, <4>1 DEF SoldInv
      <4>2. CASE x = r
        <5>1. order[r].invoiced[l] \in Nat /\ order'[r].invoiced[l] \in Nat
          <6>1. order'[r] \in Order
            BY DEF SalesTypes
          <6> QED
            BY <1>1, <6>1, OrderFacts DEF Order
        <5> QED
          BY <1>1, <1>2, <1>3, <3>1, <4>2, <5>1 DEF SoldInv
      <4> QED
        BY <4>1, <4>2
    <3> QED
      BY <3>1
  <2>4. ASSUME NEW w \in Salespeople, req'[w].at \in AfterSale PROVE Sold(req[w].order)' /\ req'[w].order = req[w].order
    <3>1. PICK x : x = req[w].order
      OBVIOUS
    <3>2. Sold(x) /\ x \in DOMAIN order /\ req'[w].order = x
      BY <1>1, <1>2, <2>4, <3>1 DEF SoldInv, SalesTypes, Others, AfterSale, FulfilSteps, InvoiceSteps
    <3>3. Sold(x)'
      BY <1>3, <3>2
    <3> QED
      BY <3>1, <3>2, <3>3 DEF Sold, Live
  <2>5. \A x \in dropped' : order'[x].state # "quotation" /\ order'[x].state # "sent"
    BY <1>1 DEF SoldInv, SalesTypes
  <2> QED
    BY <2>1, <2>2, <2>3, <2>4, <2>5 DEF SoldInv, Sold, Live
<1>5. ASSUME NEW x \in DOMAIN order \ edited, NEW l \in Lines PROVE Shipping(x, l)' /\ Invoiced(x, l)'
  <2>1. Shipping(x, l) /\ Invoiced(x, l)
    BY <1>1, <1>5 DEF LinesInv
  <2>2. SameHolders(x, l)
    BY DEF SameHolders, Pending, Serving, Others, InvoiceSteps
  <2>3. /\ x \in OrderVersions /\ order'[x].delivered[l] = order[x].delivered[l] /\ shipped'[x][l] = shipped[x][l]
        /\ order'[x].lines = order[x].lines /\ order'[x].delivered[l] >= order[x].delivered[l]
    BY <1>1, OrderFacts
  <2>4. Shipping(x, l)'
    BY <2>1, <2>2, <2>3, ShippingFrame
  <2>5. ASSUME x # r PROVE Invoiced(x, l)'
    <3>1. SameBillers(x, l)
      BY <2>5 DEF SameBillers, Billing, Invoicing, Others, InvoiceSteps
    <3> QED
      BY <1>1, <2>1, <2>3, <2>5, <3>1, InvoicedFrame
  <2> QED
    BY <1>5, <2>4, <2>5
<1>6. ASSUME NEW x \in DOMAIN order \ edited PROVE FlagFollows(x)'
  <2>1. FlagFollows(x) /\ order'[x].lines = order[x].lines /\ order'[x].state = order[x].state /\ order'[x].delivered = order[x].delivered
    BY <1>1, <1>6 DEF FlagInv
  <2>2. OutstandingLines(x)' = OutstandingLines(x) /\ (Complete(x) => Complete(x)')
    BY <2>1 DEF Complete, OutstandingLines, Remaining
  <2>3. \A w \in Salespeople : /\ req'[w].order = x /\ req'[w].at = "flip" => req[w].order = x /\ req[w].at = "flip"
                               /\ Flagging(w, x) => Flagging(w, x)'
    BY DEF Flagging, Others, InvoiceSteps
  <2>4. salesFaults' = 0 => salesFaults = 0
    BY <1>1 DEF SalesTypes
  <2> QED
    BY <2>1, <2>2, <2>3, <2>4 DEF FlagFollows
<1> QED
  BY <1>4, <1>5, <1>6 DEF SalesInv, LinesInv, FlagInv

LEMMA ReadBillableStep ==
    ASSUME SalesInv, NEW u \in Salespeople, ReadBillable(u)
    PROVE  SalesInv'
<1>1. SalesTypes /\ SoldInv /\ LinesInv
  BY DEF SalesInv
<1>2. PICK r : r = req[u].order
  OBVIOUS
<1>3. r \in DOMAIN order /\ req[u] \in Request /\ req[u].at = "billable"
  BY <1>1, <1>2 DEF SalesTypes, ReadBillable, At
<1>4. PICK todo : todo = [l \in Lines |-> Billable(r, l)]
  OBVIOUS
<1>5. /\ req' = [req EXCEPT ![u] = IF todo = NoneOf THEN Idle ELSE [req[u] EXCEPT !.at = "invoice", !.todo = todo]]
      /\ overlapped' = overlapped \cup
            {<<r, l, "bill">> : l \in {x \in Lines : todo[x] > 0
                                         /\ \E v \in Salespeople \ {u} : Billing(v, r, x)}}
  BY <1>2, <1>4, Zenon DEF ReadBillable
<1>6. UNCHANGED <<order, shipped, billed, edited, dropped, salesFaults>>
  BY DEF ReadBillable
<1>7. /\ todo \in [Lines -> Nat]
      /\ \A l \in Lines : todo[l] > 0 => l \in order[r].lines /\ order[r].invoiced[l] + todo[l] = order[r].delivered[l]
  <2>1. ASSUME NEW l \in Lines
        PROVE  /\ todo[l] \in Nat
               /\ todo[l] > 0 => l \in order[r].lines /\ order[r].invoiced[l] + todo[l] = order[r].delivered[l]
    <3>1. order[r].invoiced[l] \in Nat /\ order[r].delivered[l] \in Nat
      BY <1>1, <1>3, OrderFacts
    <3>2. order[r].delivered[l] > 0 => l \in order[r].lines
      BY <1>1, <1>3 DEF SoldInv
    <3>3. todo[l] = Billable(r, l)
      BY <1>4
    <3> QED
      BY <3>1, <3>2, <3>3 DEF Billable
  <2>2. todo = [l \in Lines |-> todo[l]]
    BY <1>4
  <2> QED
    BY <2>1, <2>2
<1>8. salesFaults' \in Nat /\ salesFaults <= salesFaults' /\ overlapped \subseteq overlapped'
  BY <1>1, <1>5, <1>6 DEF SalesTypes
<1>9. CASE todo = NoneOf
  <2>1. req' \in [Salespeople -> Request] /\ req'[u] = Idle /\ Others(u) /\ Idle.at = "idle" /\ Idle.order \in DOMAIN order
    BY <1>1, <1>5, <1>9, IdleIsRequest, ReqMoves
  <2> QED
    BY <1>3, <1>6, <1>8, <2>1, Walked DEF Holding, AfterSale, FulfilSteps, InvoiceSteps
<1>10. CASE todo # NoneOf
  <2>1. PICK v : v = [req[u] EXCEPT !.at = "invoice", !.todo = todo]
    OBVIOUS
  <2>2. v \in Request /\ v.at = "invoice" /\ v.order = r /\ v.todo = todo
    BY <1>2, <1>3, <1>7, <2>1 DEF Request
  <2>3. req' = [req EXCEPT ![u] = v]
    BY <1>5, <1>10, <2>1
  <2>4. req' \in [Salespeople -> Request] /\ req'[u] = v /\ Others(u)
    BY <1>1, <2>2, <2>3, ReqMoves
  <2>5. SalesTypes'
    BY <1>1, <1>3, <1>6, <2>2, <2>4, TypesKept DEF SalesTypes
  <2>6. \A l \in Lines : order'[r].delivered[l] >= order[r].delivered[l] /\ order'[r].invoiced[l] >= order[r].invoiced[l]
    BY <1>1, <1>3, <1>6, OrderFacts
  <2>7. ASSUME r \notin edited, NEW l \in Lines PROVE Invoiced(r, l)'
    <3>1. Invoiced(r, l)
      BY <1>1, <1>3, <2>7 DEF LinesInv
    <3>2. CASE todo[l] = 0
      <4>1. \A w \in Salespeople : /\ Billing(w, r, l)' => Billing(w, r, l) /\ req'[w] = req[w]
                                   /\ Invoicing(w, r, l)' <=> Invoicing(w, r, l)
        BY <1>3, <2>2, <2>4, <3>2 DEF Billing, Invoicing, Others
      <4>2. SameBillers(r, l)
        BY <4>1 DEF SameBillers
      <4> QED
        BY <1>1, <1>3, <1>6, <1>8, <2>5, <2>6, <3>1, <4>2, InvoicedFrame
    <3>3. CASE todo[l] > 0 /\ <<r, l, "bill">> \notin overlapped'
      <4>1. \A w \in Salespeople \ {u} : ~Billing(w, r, l)
        BY <1>5, <3>3
      <4>2. \A w \in Salespeople : (Billing(w, r, l)' => w = u) /\ ~Invoicing(w, r, l) /\ ~Invoicing(w, r, l)'
        BY <1>3, <2>2, <2>4, <4>1 DEF Billing, Invoicing, Others
      <4>3. billed[r][l] = order[r].invoiced[l] /\ order[r].invoiced[l] <= order[r].delivered[l]
        BY <1>8, <3>1, <3>3, <4>2 DEF Invoiced
      <4>4. order'[r].invoiced[l] + req'[u].todo[l] <= order'[r].delivered[l] /\ l \in order'[r].lines
        BY <1>1, <1>3, <1>6, <1>7, <2>2, <2>4, <3>3, OrderFacts
      <4> QED
        BY <1>6, <4>2, <4>3, <4>4 DEF Invoiced
    <3>4. CASE <<r, l, "bill">> \in overlapped'
      BY <3>4 DEF Invoiced
    <3> QED
      BY <1>7, <3>2, <3>3, <3>4
  <2>8. \A l \in Lines : order'[r].invoiced[l] > order[r].invoiced[l] => l \in order[r].lines
    BY <1>1, <1>3, <1>6, OrderFacts
  <2> QED
    BY <1>2, <1>3, <1>6, <1>8, <2>2, <2>4, <2>5, <2>6, <2>7, <2>8, BillMoved DEF InvoiceSteps
<1> QED
  BY <1>9, <1>10

LEMMA CreateInvoiceStep ==
    ASSUME SalesInv, NEW u \in Salespeople, create_customer_invoice(u)
    PROVE  SalesInv'
<1>1. SalesTypes /\ LinesInv
  BY DEF SalesInv
<1>2. PICK r : r = req[u].order
  OBVIOUS
<1>3. r \in DOMAIN order /\ r \in OrderVersions /\ req[u].at = "invoice"
  BY <1>1, <1>2 DEF SalesTypes, create_customer_invoice, At
<1>4. UNCHANGED <<order, shipped, overlapped, edited, dropped, salesFaults>>
  BY DEF create_customer_invoice
<1>5. /\ req' \in [Salespeople -> Request] /\ Others(u) /\ req'[u].at = "invoiced" /\ req'[u].order = r
      /\ req'[u].todo = req[u].todo
  BY <1>1, <1>2, Goes DEF create_customer_invoice
<1>6. /\ billed' \in [OrderVersions -> [Lines -> Nat]]
      /\ \A l \in Lines : billed'[r][l] = billed[r][l] + req[u].todo[l]
      /\ \A x \in OrderVersions \ {r} : billed'[x] = billed[x]
  <2>1. PICK f : f = [l \in Lines |-> billed[r][l] + req[u].todo[l]]
    OBVIOUS
  <2>2. f \in [Lines -> Nat] /\ \A l \in Lines : f[l] = billed[r][l] + req[u].todo[l]
    <3>1. \A l \in Lines : billed[r][l] \in Nat /\ req[u].todo[l] \in Nat
      BY <1>1, <1>3, OrderFacts, RequestFacts
    <3> QED
      BY <2>1, <3>1
  <2>3. billed' = [billed EXCEPT ![r] = f]
    BY <1>1, <1>2, <1>3, <2>1 DEF create_customer_invoice, SalesTypes
  <2> QED
    BY <1>1, <1>3, <2>2, <2>3 DEF SalesTypes
<1>7. salesFaults' \in Nat /\ salesFaults <= salesFaults'
  BY <1>1, <1>4 DEF SalesTypes
<1>8. SalesTypes'
  BY <1>1, <1>3, <1>4, <1>5, <1>6, <1>7, TypesKept DEF SalesTypes
<1>9. \A l \in Lines : /\ order'[r].delivered[l] >= order[r].delivered[l]
                       /\ order'[r].invoiced[l] = order[r].invoiced[l]
                       /\ order'[r].invoiced[l] >= order[r].invoiced[l]
                       /\ ~(order'[r].invoiced[l] > order[r].invoiced[l])
  BY <1>1, <1>3, <1>4, OrderFacts
<1>10. ASSUME r \notin edited, NEW l \in Lines PROVE Invoiced(r, l)'
  <2>1. Invoiced(r, l) /\ req[u].todo[l] \in Nat /\ billed[r][l] \in Nat
    BY <1>1, <1>3, <1>10, RequestFacts, OrderFacts DEF LinesInv
  <2>2. CASE req[u].todo[l] = 0
    <3>1. SameBillers(r, l)
      BY <1>2, <1>3, <1>5, <2>2 DEF SameBillers, Billing, Invoicing, Others
    <3>2. billed'[r][l] = billed[r][l]
      BY <1>6, <2>1, <2>2
    <3> QED
      BY <1>1, <1>3, <1>4, <1>8, <1>9, <2>1, <3>1, <3>2, InvoicedFrame
  <2>3. CASE req[u].todo[l] > 0 /\ <<r, l, "bill">> \notin overlapped'
    <3>1. Billing(u, r, l)
      BY <1>2, <1>3, <2>3 DEF Billing
    <3>2. /\ \A w \in Salespeople : Billing(w, r, l) => w = u
          /\ l \in order[r].lines /\ order[r].invoiced[l] + req[u].todo[l] <= order[r].delivered[l]
          /\ order[r].invoiced[l] <= order[r].delivered[l]
      BY <1>4, <2>1, <2>3, <3>1 DEF Invoiced
    <3>3. \A w \in Salespeople : ~Invoicing(w, r, l)
      BY <1>3, <3>2 DEF Invoicing
    <3>4. billed[r][l] = order[r].invoiced[l]
      BY <1>4, <2>1, <2>3, <3>3 DEF Invoiced
    <3>5. \A w \in Salespeople : Billing(w, r, l)' => w = u
      BY <1>5, <3>2 DEF Billing, Others
    <3>6. Invoicing(u, r, l)' /\ \A w \in Salespeople : Invoicing(w, r, l)' => w = u
      BY <1>5, <2>3, <3>5 DEF Billing, Invoicing
    <3>7. billed'[r][l] = order'[r].invoiced[l] + req'[u].todo[l]
      BY <1>4, <1>5, <1>6, <3>4
    <3> QED
      BY <1>4, <1>5, <3>2, <3>5, <3>6, <3>7 DEF Invoiced
  <2>4. CASE <<r, l, "bill">> \in overlapped'
    BY <2>4 DEF Invoiced
  <2> QED
    BY <2>1, <2>2, <2>3, <2>4
<1> QED
  BY <1>2, <1>3, <1>4, <1>5, <1>6, <1>7, <1>8, <1>9, <1>10, BillMoved DEF InvoiceSteps

LEMMA AdvanceInvoicedStep ==
    ASSUME SalesInv, NEW u \in Salespeople, NEW l \in Lines, AdvanceInvoiced(u, l)
    PROVE  SalesInv'
<1>1. SalesTypes /\ LinesInv
  BY DEF SalesInv
<1>2. PICK r : r = req[u].order
  OBVIOUS
<1>3. /\ r \in DOMAIN order /\ order[r] \in Order /\ req[u] \in Request /\ req[u].at = "invoiced" /\ req[u].todo[l] > 0
      /\ req[u].todo[l] \in Nat /\ req[u].todo \in [Lines -> Nat] /\ order[r].invoiced \in [Lines -> Nat]
  <2>1. r \in DOMAIN order /\ req[u].at = "invoiced" /\ req[u].todo[l] > 0
    BY <1>1, <1>2 DEF SalesTypes, AdvanceInvoiced, At
  <2> QED
    BY <1>1, <2>1, OrderFacts, RequestFacts
<1>4. PICK n : n = order[r].invoiced[l] + req[u].todo[l]
  OBVIOUS
<1>5. PICK d : d = [order[r].invoiced EXCEPT ![l] = n]
  OBVIOUS
<1>6. n \in Nat /\ n >= order[r].invoiced[l] /\ d \in [Lines -> Nat] /\ d[l] = n
      /\ \A x \in Lines \ {l} : d[x] = order[r].invoiced[x]
  BY <1>3, <1>4, <1>5
<1>7. PICK v : v = IF l \in order[r].lines THEN [order[r] EXCEPT !.invoiced = d] ELSE order[r]
  OBVIOUS
<1>8. /\ v \in Order /\ v.state = order[r].state /\ v.lines = order[r].lines /\ v.delivered = order[r].delivered
      /\ l \in order[r].lines => v.invoiced = d
      /\ l \notin order[r].lines => v.invoiced = order[r].invoiced
  <2>1. CASE l \in order[r].lines
    BY <1>3, <1>6, <1>7, <2>1 DEF Order
  <2>2. CASE l \notin order[r].lines
    BY <1>3, <1>7, <2>2
  <2> QED
    BY <2>1, <2>2
<1>9. order' = [order EXCEPT ![r] = v]
  BY <1>1, <1>2, <1>3, <1>4, <1>5, <1>7 DEF AdvanceInvoiced, SalesTypes
<1>10. /\ DOMAIN order' = DOMAIN order /\ order' \in [DOMAIN order -> Order] /\ order'[r] = v
       /\ \A x \in DOMAIN order \ {r} : order'[x] = order[x]
  BY <1>1, <1>3, <1>8, <1>9, RowWritten
<1>11. UNCHANGED <<shipped, billed, overlapped, edited, dropped, salesFaults>>
  BY DEF AdvanceInvoiced, served
<1>12. salesFaults' \in Nat /\ salesFaults <= salesFaults' /\ overlapped \subseteq overlapped'
  BY <1>1, <1>11 DEF SalesTypes
<1>13. PICK rest : rest = [req[u].todo EXCEPT ![l] = 0]
  OBVIOUS
<1>14. rest \in [Lines -> Nat] /\ rest[l] = 0 /\ \A x \in Lines \ {l} : rest[x] = req[u].todo[x]
  BY <1>3, <1>13
<1>15. PICK w : w = IF rest = NoneOf THEN Idle ELSE [req[u] EXCEPT !.todo = rest]
  OBVIOUS
<1>16. /\ w \in Request /\ w.order \in DOMAIN order /\ w.at \in {"idle", "invoiced"}
       /\ w.at = "idle" => \A x \in Lines : rest[x] = 0
       /\ w.at = "invoiced" => w.order = r /\ w.todo = rest
  <2>1. CASE rest = NoneOf
    BY <1>1, <1>15, <2>1, IdleIsRequest DEF NoneOf
  <2>2. CASE rest # NoneOf
    BY <1>2, <1>3, <1>14, <1>15, <2>2 DEF Request
  <2> QED
    BY <2>1, <2>2
<1>17. req' = [req EXCEPT ![u] = w]
  BY <1>1, <1>13, <1>15 DEF AdvanceInvoiced, SalesTypes
<1>18. req' \in [Salespeople -> Request] /\ req'[u] = w /\ Others(u)
  BY <1>1, <1>16, <1>17, ReqMoves
<1>19. SalesTypes'
  BY <1>1, <1>10, <1>11, <1>12, <1>16, <1>18, TypesKept DEF SalesTypes
<1>20. /\ \A x \in Lines \ {l} : order'[r].invoiced[x] = order[r].invoiced[x]
       /\ order'[r].invoiced[l] >= order[r].invoiced[l]
       /\ l \notin order[r].lines => order'[r].invoiced[l] = order[r].invoiced[l]
       /\ l \in order[r].lines => order'[r].invoiced[l] = order[r].invoiced[l] + req[u].todo[l]
  BY <1>3, <1>4, <1>6, <1>8, <1>10
<1>21. \A x \in Lines : /\ order'[r].invoiced[x] >= order[r].invoiced[x]
                        /\ order'[r].invoiced[x] > order[r].invoiced[x] => x \in order[r].lines
                        /\ order'[r].delivered[x] >= order[r].delivered[x]
  BY <1>1, <1>3, <1>8, <1>10, <1>20, OrderFacts
<1>22. ASSUME r \notin edited, NEW x \in Lines PROVE Invoiced(r, x)'
  <2>1. Invoiced(r, x)
    BY <1>1, <1>3, <1>22 DEF LinesInv
  <2>2. CASE x # l
    <3>1. /\ Billing(u, r, x)' => Billing(u, r, x) /\ req'[u].todo[x] = req[u].todo[x]
          /\ Invoicing(u, r, x)' <=> Invoicing(u, r, x)
      BY <1>2, <1>3, <1>14, <1>16, <1>18, <2>2 DEF Billing, Invoicing
    <3>2. \A y \in Salespeople \ {u} :
              (Billing(y, r, x)' <=> Billing(y, r, x)) /\ (Invoicing(y, r, x)' <=> Invoicing(y, r, x)) /\ req'[y] = req[y]
      BY <1>18 DEF Billing, Invoicing, Others
    <3>3. SameBillers(r, x)
      BY <3>1, <3>2 DEF SameBillers
    <3> QED
      BY <1>1, <1>3, <1>8, <1>10, <1>11, <1>19, <1>20, <1>21, <2>1, <2>2, <3>3, InvoicedFrame
  <2>3. CASE x = l /\ <<r, l, "bill">> \notin overlapped'
    <3>1. Billing(u, r, l) /\ Invoicing(u, r, l)
      BY <1>2, <1>3 DEF Billing, Invoicing
    <3>2. /\ \A y \in Salespeople : Billing(y, r, l) => y = u
          /\ l \in order[r].lines /\ order[r].invoiced[l] + req[u].todo[l] <= order[r].delivered[l]
          /\ billed[r][l] = order[r].invoiced[l] + req[u].todo[l]
      BY <1>11, <2>1, <2>3, <3>1 DEF Invoiced
    <3>3. \A y \in Salespeople : ~Billing(y, r, l)'
      BY <1>14, <1>16, <1>18, <3>2 DEF Billing, Others
    <3>4. \A y \in Salespeople : ~Invoicing(y, r, l)'
      BY <3>3 DEF Invoicing
    <3>5. billed'[r][l] = order'[r].invoiced[l] /\ order'[r].invoiced[l] <= order'[r].delivered[l]
      BY <1>8, <1>10, <1>11, <1>20, <3>2
    <3> QED
      BY <2>3, <3>3, <3>4, <3>5 DEF Invoiced
  <2>4. CASE <<r, x, "bill">> \in overlapped'
    BY <2>4 DEF Invoiced
  <2> QED
    BY <2>2, <2>3, <2>4
<1> QED
  BY <1>2, <1>3, <1>8, <1>10, <1>11, <1>12, <1>16, <1>18, <1>19, <1>21, <1>22, BillMoved DEF InvoiceSteps

\* An invoice that stopped before it recorded what it billed is noted.
LEMMA AbandonInvoice ==
    ASSUME SalesInv, NEW u \in Salespeople, AbandonSale(u), req[u].at = "invoiced"
    PROVE  SalesInv'
<1>1. SalesTypes /\ LinesInv
  BY DEF SalesInv
<1>2. PICK r : r = req[u].order
  OBVIOUS
<1>3. r \in DOMAIN order
  BY <1>1, <1>2 DEF SalesTypes
<1>4. UNCHANGED <<order, shipped, billed, edited, dropped>>
  BY DEF AbandonSale
<1>5. salesFaults' \in Nat /\ salesFaults <= salesFaults'
  BY <1>1 DEF AbandonSale, SalesTypes
<1>6. overlapped \subseteq overlapped' /\ \A x \in Lines : req[u].todo[x] > 0 => <<r, x, "bill">> \in overlapped'
  <2>1. PICK rest : overlapped' = overlapped \cup rest
                       \cup {<<r, l, "bill">> : l \in {x \in Lines : At(u, "invoiced") /\ req[u].todo[x] > 0}}
    BY <1>2 DEF AbandonSale
  <2> QED
    BY <2>1 DEF At
<1>7. req' \in [Salespeople -> Request] /\ Others(u) /\ req'[u].at = "idle" /\ req'[u].order \in DOMAIN order
  BY <1>1, Ends DEF AbandonSale
<1>8. SalesTypes'
  BY <1>1, <1>4, <1>5, <1>7, TypesKept DEF SalesTypes
<1>9. \A l \in Lines : /\ order'[r].delivered[l] >= order[r].delivered[l]
                       /\ order'[r].invoiced[l] >= order[r].invoiced[l]
                       /\ ~(order'[r].invoiced[l] > order[r].invoiced[l])
  BY <1>1, <1>3, <1>4, OrderFacts
<1>10. ASSUME r \notin edited, NEW x \in Lines PROVE Invoiced(r, x)'
  <2>1. Invoiced(r, x) /\ req[u].todo[x] \in Nat
    BY <1>1, <1>3, <1>10, RequestFacts DEF LinesInv
  <2>2. CASE req[u].todo[x] = 0
    <3>1. SameBillers(r, x)
      BY <1>7, <2>2 DEF SameBillers, Billing, Invoicing, Others
    <3> QED
      BY <1>1, <1>3, <1>4, <1>6, <1>8, <1>9, <2>1, <3>1, InvoicedFrame
  <2>3. CASE req[u].todo[x] > 0
    BY <1>6, <2>3 DEF Invoiced
  <2> QED
    BY <2>1, <2>2, <2>3
<1> QED
  BY <1>2, <1>3, <1>4, <1>5, <1>6, <1>7, <1>8, <1>9, <1>10, BillMoved DEF InvoiceSteps

-----------------------------------------------------------------------------
(* The invariant *)

LEMMA SalesKept ==
    ASSUME SalesInv, [SalesNext]_salesVars
    PROVE  SalesInv'
<1>1. CASE UNCHANGED salesVars
  <2>1. UNCHANGED <<order, req, shipped, billed, overlapped, edited, dropped, salesFaults>>
    BY <1>1 DEF salesVars
  <2>2. SalesTypes' /\ SoldInv'
    BY <2>1 DEF SalesInv, SalesTypes, SoldInv, Sold, Live
  <2>3. LinesInv'
    <3>1. Aside
      BY <2>1 DEF Aside
    <3>2. ASSUME NEW r \in DOMAIN order \ edited, NEW l \in Lines PROVE Shipping(r, l)' /\ Invoiced(r, l)'
      <4>1. SameHolders(r, l) /\ SameBillers(r, l)
        BY <3>1, AsideFrames
      <4>2. Shipping(r, l) /\ Invoiced(r, l) /\ SalesTypes /\ order'[r].delivered[l] >= order[r].delivered[l]
        BY <2>1, <3>2, OrderFacts DEF SalesInv, LinesInv
      <4> QED
        BY <2>1, <2>2, <4>1, <4>2, ShippingFrame, InvoicedFrame
    <3> QED
      BY <2>1, <3>2 DEF LinesInv
  <2>4. FlagInv'
    BY <2>1 DEF SalesInv, FlagInv, FlagFollows, Complete, OutstandingLines, Remaining, Flagging
  <2> QED
    BY <2>2, <2>3, <2>4 DEF SalesInv
<1>2. ASSUME NEW r \in DOMAIN order, mark_sent(r) \/ mark_lost(r) \/ expire_quotations(r) \/ cancel_order(r)
      PROVE  SalesInv'
  BY <1>2, ChangeStep
<1>3. ASSUME NEW r \in DOMAIN order, NEW u \in Salespeople,
             EditCheck(u, r) \/ CountLines(u, r) \/ ReadSource(u, r) \/ FulfilCheck(u, r) \/ InvoiceCheck(u, r)
      PROVE  SalesInv'
  BY <1>3, QuoteAskStep
<1>4. ASSUME NEW u \in Salespeople,
             \/ save_quote(u) \/ InsertLine(u) \/ add_line(u) \/ delete_line(u) \/ EditEnds(u)
             \/ confirm_order(u) \/ SupersedeOthers(u)
      PROVE  SalesInv'
  BY <1>4, EditStep, EditEndsStep, ConfirmStep, SupersedeOthersStep
<1>5. ASSUME NEW u \in Salespeople,
             RefuseIfLive(u) \/ revise_quote(u) \/ CloneLines(u) \/ SupersedeSource(u)
      PROVE  SalesInv'
  BY <1>5, RefuseStep, ReviseStep, CloneLinesStep, SupersedeSourceStep
<1>6. ASSUME NEW u \in Salespeople,
             \/ ReadOutstanding(u) \/ AdvanceDelivered(u) \/ AdvanceLost(u) \/ CountOutstanding(u)
             \/ MarkDelivered(u)
      PROVE  SalesInv'
  BY <1>6, ReadOutstandingStep, AdvanceDeliveredStep, AdvanceLostStep, CountOutstandingStep, MarkDeliveredStep
<1>7. ASSUME NEW u \in Salespeople, CountFails(u) PROVE SalesInv'
  <2>1. req[u].at = "live" \/ req[u].at = "outstanding"
    BY <1>7 DEF CountFails
  <2> QED
    BY <1>7, <2>1, LiveCountFails, OpenCountFails
<1>8. ASSUME NEW u \in Salespeople, ReadBillable(u) \/ create_customer_invoice(u) PROVE SalesInv'
  BY <1>8, ReadBillableStep, CreateInvoiceStep
<1>9. ASSUME NEW u \in Salespeople, NEW l \in Lines, ServeLine(u, l) \/ AdvanceInvoiced(u, l) PROVE SalesInv'
  BY <1>9, ServeLineStep, AdvanceInvoicedStep
<1>10. ASSUME NEW u \in Salespeople, AbandonSale(u) PROVE SalesInv'
  BY <1>10, AbandonDelivery, AbandonInvoice
<1>11. ASSUME NEW u \in Salespeople, SalesStep(u) PROVE SalesInv'
  BY <1>11, <1>4, <1>5, <1>6, <1>7, <1>8, <1>9, <1>10 DEF SalesStep
<1> QED
  BY <1>1, <1>2, <1>3, <1>11 DEF SalesNext

LEMMA SalesInitially == SalesInit => SalesInv
<1> SUFFICES ASSUME SalesInit PROVE SalesInv
  OBVIOUS
<1>1. PICK s \in {"quotation", "sent", "confirmed"}, notes \in BOOLEAN, n \in {1, MaxRevisions} :
         order = [r \in 1..n |-> [state |-> IF r = 1 THEN s ELSE "quotation", lines |-> Lines,
                                  notes |-> notes, delivered |-> NoneOf, invoiced |-> NoneOf]]
  BY DEF SalesInit
<1>2. n \in OrderVersions /\ 1 \in 1..n /\ 1..n \subseteq OrderVersions
  BY OrderedFacts DEF OrderVersions
<1>3. NoneOf \in [Lines -> Nat] /\ \A l \in Lines : NoneOf[l] = 0
  BY DEF NoneOf
<1>4. DOMAIN order = 1..n
  BY <1>1
<1>5. ASSUME NEW r \in DOMAIN order
      PROVE  /\ order[r] \in Order /\ order[r].lines = Lines
             /\ order[r].state = IF r = 1 THEN s ELSE "quotation"
             /\ \A l \in Lines : order[r].delivered[l] = 0 /\ order[r].invoiced[l] = 0
  <2>1. PICK st \in States : st = IF r = 1 THEN s ELSE "quotation"
    BY DEF States
  <2>2. order[r] = [state |-> st, lines |-> Lines, notes |-> notes, delivered |-> NoneOf, invoiced |-> NoneOf]
    BY <1>1, <1>4, <2>1
  <2>3. order[r] \in Order
    BY <1>3, <2>2 DEF Order
  <2> QED
    BY <1>3, <2>1, <2>2, <2>3
<1>6. order \in [DOMAIN order -> Order]
  <2>1. order = [r \in DOMAIN order |-> order[r]]
    BY <1>1
  <2> QED
    BY <1>5, <2>1
<1>7. /\ req \in [Salespeople -> Request] /\ \A u \in Salespeople : req[u].at = "idle" /\ req[u].order = 1
  <2>1. Idle \in Request /\ Idle.at = "idle" /\ Idle.order = 1
    BY <1>3, OrderedFacts DEF Idle, Request, OrderVersions
  <2> QED
    BY <2>1 DEF SalesInit
<1>8. /\ shipped \in [OrderVersions -> [Lines -> Nat]] /\ billed \in [OrderVersions -> [Lines -> Nat]]
      /\ \A r \in OrderVersions, l \in Lines : shipped[r][l] = 0 /\ billed[r][l] = 0
  BY <1>3 DEF SalesInit, OrderVersions
<1>9. overlapped = {} /\ edited = {} /\ dropped = {} /\ salesFaults = 0
  BY DEF SalesInit
<1>10. SalesTypes
  BY <1>2, <1>4, <1>6, <1>7, <1>8, <1>9 DEF SalesTypes
<1>11. SoldInv
  BY <1>4, <1>5, <1>7, <1>8, <1>9 DEF SoldInv, Sold, Live, AfterSale, FulfilSteps, InvoiceSteps
<1>12. LinesInv
  <2>1. ASSUME NEW r \in DOMAIN order, NEW l \in Lines PROVE Shipping(r, l) /\ Invoiced(r, l)
    <3>1. \A u \in Salespeople : ~Pending(u, r, l) /\ ~Serving(u, r, l) /\ ~Billing(u, r, l) /\ ~Invoicing(u, r, l)
      BY <1>7 DEF Pending, Serving, Billing, Invoicing
    <3>2. /\ order[r].delivered[l] = 0 /\ order[r].invoiced[l] = 0 /\ shipped[r][l] = 0 /\ billed[r][l] = 0
          /\ Ordered[l] \in Nat
      BY <1>2, <1>4, <1>5, <1>8, OrderedFacts
    <3> QED
      BY <3>1, <3>2 DEF Shipping, Invoiced
  <2> QED
    BY <2>1 DEF LinesInv
<1>13. FlagInv
  <2>1. ASSUME NEW r \in DOMAIN order PROVE FlagFollows(r)
    <3>1. order[r].state # "delivered" /\ \A u \in Salespeople : req[u].at # "flip"
      BY <1>5, <1>7
    <3>2. ASSUME order[r].lines # {} PROVE OutstandingLines(r) # {}
      <4>1. PICK l \in order[r].lines : TRUE
        BY <3>2
      <4>2. l \in Lines /\ order[r].delivered[l] = 0 /\ Ordered[l] \in Nat \ {0}
        BY <1>5, <4>1, OrderedFacts
      <4> QED
        BY <4>1, <4>2 DEF OutstandingLines, Remaining
    <3> QED
      BY <3>1, <3>2 DEF FlagFollows
  <2> QED
    BY <2>1 DEF FlagInv
<1> QED
  BY <1>10, <1>11, <1>12, <1>13 DEF SalesInv

LEMMA ShipmentsMeant == SalesInv => ShipmentsMatchOrders
<1> SUFFICES ASSUME SalesInv PROVE ShipmentsMatchOrders
  OBVIOUS
<1>1. SalesTypes /\ SoldInv /\ LinesInv /\ FlagInv
  BY DEF SalesInv
<1>2. ShipsWhatWasOrdered
  <2> SUFFICES ASSUME NEW r \in DOMAIN order, NEW l \in Lines, r \notin edited, <<r, l, "ship">> \notin overlapped
               PROVE  ~(shipped[r][l] > Ordered[l])
    BY DEF ShipsWhatWasOrdered
  <2>1. Shipping(r, l) /\ order[r].delivered[l] \in Nat /\ Ordered[l] \in Nat
    BY <1>1, OrderFacts, OrderedFacts DEF LinesInv
  <2>2. CASE \E u \in Salespeople : Serving(u, r, l)
    <3>1. PICK u \in Salespeople : Serving(u, r, l)
      BY <2>2
    <3>2. Pending(u, r, l) /\ req[u].todo[l] \in Nat
      BY <1>1, <3>1, ServingPends, RequestFacts
    <3>3. shipped[r][l] = order[r].delivered[l] + req[u].todo[l] /\ req[u].todo[l] + order[r].delivered[l] <= Ordered[l]
      BY <2>1, <3>1, <3>2 DEF Shipping
    <3> QED
      BY <2>1, <3>2, <3>3
  <2>3. CASE \A u \in Salespeople : ~Serving(u, r, l)
    <3>1. shipped[r][l] = order[r].delivered[l] /\ order[r].delivered[l] <= Ordered[l]
      BY <2>1, <2>3 DEF Shipping
    <3> QED
      BY <2>1, <3>1
  <2> QED
    BY <2>2, <2>3
<1>3. OneRevisionShips
  <2>1. ASSUME NEW r \in DOMAIN order, shipped[r] # NoneOf PROVE Sold(r)
    <3>1. r \in OrderVersions /\ shipped[r] \in [Lines -> Nat]
      BY <1>1 DEF SalesTypes
    <3>2. PICK l \in Lines : shipped[r][l] # 0
      <4>1. ASSUME \A l \in Lines : shipped[r][l] = 0 PROVE FALSE
        <5>1. shipped[r] = [l \in Lines |-> 0]
          BY <3>1, <4>1
        <5> QED
          BY <2>1, <5>1 DEF NoneOf
      <4> QED
        BY <4>1
    <3>3. shipped[r][l] > 0
      BY <3>1, <3>2
    <3> QED
      BY <1>1, <3>1, <3>3 DEF SoldInv
  <2> QED
    BY <1>1, <2>1 DEF OneRevisionShips, SoldInv, Sold
<1>4. DeliveredMeansFulfilled
  <2> SUFFICES ASSUME NEW r \in DOMAIN order \ edited
               PROVE  /\ order[r].state = "delivered" => \A l \in OutstandingLines(r) : <<r, l, "count">> \in overlapped
                      /\ ~ (order[r].state = "confirmed" /\ OutstandingLines(r) = {} /\ order[r].lines # {}
                               /\ salesFaults = 0 /\ \A u \in Salespeople : At(u, "idle"))
    BY DEF DeliveredMeansFulfilled
  <2>1. FlagFollows(r)
    BY <1>1 DEF FlagInv
  <2> QED
    BY <2>1 DEF FlagFollows, Complete, Flagging, At
<1> QED
  BY <1>2, <1>3, <1>4 DEF ShipmentsMatchOrders

LEMMA BillsMeant == SalesInv => BillsFollowDeliveries
<1> SUFFICES ASSUME SalesInv, NEW r \in DOMAIN order, NEW l \in Lines, r \notin edited, <<r, l, "bill">> \notin overlapped
             PROVE  ~(billed[r][l] > order[r].delivered[l])
  BY DEF BillsFollowDeliveries
<1>1. SalesTypes /\ LinesInv
  BY DEF SalesInv
<1>2. Invoiced(r, l) /\ order[r].delivered[l] \in Nat /\ order[r].invoiced[l] \in Nat
  BY <1>1, OrderFacts DEF LinesInv
<1>3. CASE \E u \in Salespeople : Invoicing(u, r, l)
  <2>1. PICK u \in Salespeople : Invoicing(u, r, l)
    BY <1>3
  <2>2. Billing(u, r, l) /\ req[u].todo[l] \in Nat
    BY <1>1, <2>1, RequestFacts DEF Invoicing
  <2>3. /\ billed[r][l] = order[r].invoiced[l] + req[u].todo[l]
        /\ order[r].invoiced[l] + req[u].todo[l] <= order[r].delivered[l]
    BY <1>2, <2>1, <2>2 DEF Invoiced
  <2> QED
    BY <1>2, <2>2, <2>3
<1>4. CASE \A u \in Salespeople : ~Invoicing(u, r, l)
  <2>1. billed[r][l] = order[r].invoiced[l] /\ order[r].invoiced[l] <= order[r].delivered[l]
    BY <1>2, <1>4 DEF Invoiced
  <2> QED
    BY <1>2, <2>1
<1> QED
  BY <1>3, <1>4

\* process_delivery, confirm_services, revise_quote and the edits, however
\* their requests interleave and whenever they end early: no line ships more
\* than was ordered, one revision of a family ships, and an order is flagged
\* as delivered when it is, except where a step on stale data is noted.
THEOREM ShipmentsMatch == SalesSpec => []ShipmentsMatchOrders
BY SalesInitially, SalesKept, ShipmentsMeant, PTL DEF SalesSpec

\* create_customer_invoice: an order is never billed beyond what it records
\* as delivered, unless two invoices read it together, one of them stopped
\* half way, or an edit on a stale state rewrote the lines.
THEOREM BillsFollow == SalesSpec => []BillsFollowDeliveries
BY SalesInitially, SalesKept, BillsMeant, PTL DEF SalesSpec

-----------------------------------------------------------------------------
(* The types *)

\* What the observing sets name: revisions there are, and their lines.
SalesNotes ==
    /\ overlapped \subseteq OrderVersions \X Lines \X {"ship", "bill", "count"}
    /\ edited \subseteq OrderVersions

\* Every step notes the revision and the lines of its own request.
LEMMA SalesNotesKept ==
    ASSUME SalesTypes, SalesNotes, [SalesNext]_salesVars
    PROVE  SalesNotes'
<1> PICK V, M : V = OrderVersions /\ M = {"ship", "bill", "count"}
  OBVIOUS
<1>0. overlapped \subseteq V \X Lines \X M /\ edited \subseteq V
  BY DEF SalesNotes
<1>1. SUFFICES overlapped' \subseteq V \X Lines \X M /\ edited' \subseteq V
  BY DEF SalesNotes, OrderVersions, Lines
<1>2. DOMAIN order \subseteq V /\ \A u \in Salespeople : req[u].order \in V
  BY DEF SalesTypes
<1>3. CASE UNCHANGED salesVars
  BY <1>0, <1>3 DEF salesVars
<1>4. ASSUME NEW r \in DOMAIN order, mark_sent(r) \/ mark_lost(r) \/ expire_quotations(r) \/ cancel_order(r)
      PROVE  UNCHANGED <<overlapped, edited>>
  BY <1>4 DEF mark_sent, mark_lost, expire_quotations, cancel_order, Change, served
<1>5. ASSUME NEW r \in DOMAIN order, NEW u \in Salespeople,
             EditCheck(u, r) \/ CountLines(u, r) \/ ReadSource(u, r) \/ FulfilCheck(u, r) \/ InvoiceCheck(u, r)
      PROVE  UNCHANGED <<overlapped, edited>>
  BY <1>5 DEF EditCheck, CountLines, ReadSource, FulfilCheck, InvoiceCheck, served
<1>6. ASSUME NEW u \in Salespeople, SalesStep(u)
      PROVE  overlapped' \subseteq V \X Lines \X M /\ edited' \subseteq V
  <2>1. ASSUME \/ EditEnds(u) \/ confirm_order(u) \/ SupersedeOthers(u) \/ RefuseIfLive(u) \/ revise_quote(u)
               \/ SupersedeSource(u) \/ AdvanceDelivered(u) \/ CountOutstanding(u) \/ MarkDelivered(u)
        PROVE  UNCHANGED <<overlapped, edited>>
    BY <2>1 DEF EditEnds, confirm_order, SupersedeOthers, RefuseIfLive, revise_quote, SupersedeSource,
                AdvanceDelivered, CountOutstanding, MarkDelivered, served
  <2>2. ASSUME create_customer_invoice(u) \/ \E l \in Lines : ServeLine(u, l) \/ AdvanceInvoiced(u, l)
        PROVE  UNCHANGED <<overlapped, edited>>
    BY <2>2 DEF create_customer_invoice, ServeLine, AdvanceInvoiced, served
  <2>3. ASSUME save_quote(u) \/ InsertLine(u) \/ add_line(u) \/ delete_line(u)
        PROVE  UNCHANGED overlapped /\ edited' \subseteq V
    <3>1. UNCHANGED overlapped /\ NoteEdit(req[u].order)
      BY <2>3 DEF save_quote, InsertLine, add_line, delete_line, served
    <3> QED
      BY <1>0, <1>2, <3>1 DEF NoteEdit
  <2>4. ASSUME CloneLines(u)
        PROVE  UNCHANGED overlapped /\ edited' \subseteq V
    <3>1. UNCHANGED overlapped /\ NoteEdit(req[u].new) /\ req[u].at = "cloneLines"
      BY <2>4 DEF CloneLines, At, served
    <3>2. req[u].new \in V
      BY <1>2, <3>1 DEF SalesTypes
    <3> QED
      BY <1>0, <3>1, <3>2 DEF NoteEdit
  <2>5. ASSUME NEW m \in M, NEW S \in SUBSET Lines,
               overlapped' = overlapped \cup {<<req[u].order, l, m>> : l \in S}
        PROVE  overlapped' \subseteq V \X Lines \X M
    BY <1>0, <1>2, <2>5
  <2>6. ASSUME ReadOutstanding(u)
        PROVE  UNCHANGED edited /\ overlapped' \subseteq V \X Lines \X M
    <3>1. PICK todo : /\ UNCHANGED edited
                      /\ overlapped' = overlapped \cup
                            {<<req[u].order, l, "ship">> : l \in {x \in Lines : todo[x] > 0
                                 /\ \E v \in Salespeople \ {u} : Pending(v, req[u].order, x)}}
      BY <2>6 DEF ReadOutstanding
    <3>2. PICK S : S = {x \in Lines : todo[x] > 0 /\ \E v \in Salespeople \ {u} : Pending(v, req[u].order, x)}
      OBVIOUS
    <3>3. S \subseteq Lines /\ "ship" \in M
      BY <3>2
    <3> QED
      BY <2>5, <3>1, <3>2, <3>3
  <2>7. ASSUME ReadBillable(u)
        PROVE  UNCHANGED edited /\ overlapped' \subseteq V \X Lines \X M
    <3>1. PICK todo : /\ UNCHANGED edited
                      /\ overlapped' = overlapped \cup
                            {<<req[u].order, l, "bill">> : l \in {x \in Lines : todo[x] > 0
                                 /\ \E v \in Salespeople \ {u} : Billing(v, req[u].order, x)}}
      BY <2>7 DEF ReadBillable
    <3>2. PICK S : S = {x \in Lines : todo[x] > 0 /\ \E v \in Salespeople \ {u} : Billing(v, req[u].order, x)}
      OBVIOUS
    <3>3. S \subseteq Lines /\ "bill" \in M
      BY <3>2
    <3> QED
      BY <2>5, <3>1, <3>2, <3>3
  <2>8. ASSUME CountFails(u)
        PROVE  UNCHANGED edited /\ overlapped' \subseteq V \X Lines \X M
    <3>1. UNCHANGED edited /\ (UNCHANGED overlapped \/ overlapped' = overlapped \cup {<<req[u].order, l, "count">> : l \in Lines})
      BY <2>8 DEF CountFails
    <3>2. "count" \in M
      OBVIOUS
    <3> QED
      BY <1>0, <2>5, <3>1, <3>2
  <2>9. ASSUME AdvanceLost(u)
        PROVE  UNCHANGED edited /\ overlapped' \subseteq V \X Lines \X M
    <3>1. UNCHANGED edited /\ overlapped' = overlapped \cup {<<req[u].order, req[u].line, "ship">>} /\ req[u].at = "advance"
      BY <2>9 DEF AdvanceLost, At
    <3>2. req[u].line \in Lines
      BY <3>1 DEF SalesTypes
    <3> QED
      BY <1>0, <1>2, <3>1, <3>2
  <2>10. ASSUME AbandonSale(u)
        PROVE  UNCHANGED edited /\ overlapped' \subseteq V \X Lines \X M
    <3>1. PICK S : S = {x \in Lines : At(u, "invoiced") /\ req[u].todo[x] > 0}
      OBVIOUS
    <3>2. PICK X : X = overlapped \cup {<<req[u].order, l, "bill">> : l \in S}
      OBVIOUS
    <3>3. /\ UNCHANGED edited
          /\ overlapped' = (overlapped \cup (IF At(u, "advance") THEN {<<req[u].order, req[u].line, "ship">>} ELSE {}))
                           \cup {<<req[u].order, l, "bill">> : l \in S}
      BY <2>10, <3>1 DEF AbandonSale
    <3>4. S \subseteq Lines /\ (At(u, "advance") => req[u].line \in Lines)
      BY <3>1 DEF SalesTypes, At
    <3>5. {<<req[u].order, l, "bill">> : l \in S} \subseteq V \X Lines \X M
      BY <1>2, <3>4
    <3>6. (IF At(u, "advance") THEN {<<req[u].order, req[u].line, "ship">>} ELSE {}) \subseteq V \X Lines \X M
      BY <1>2, <3>4
    <3> QED
      BY <1>0, <3>3, <3>5, <3>6
  <2> QED
    BY <1>0, <1>6, <2>1, <2>2, <2>3, <2>4, <2>6, <2>7, <2>8, <2>9, <2>10 DEF SalesStep
<1> QED
  BY <1>0, <1>3, <1>4, <1>5, <1>6 DEF SalesNext

\* The types as SalesTypeOK states them.
LEMMA SalesTypesMean == SalesTypes /\ SalesNotes => SalesTypeOK
<1> SUFFICES ASSUME SalesTypes, SalesNotes PROVE SalesTypeOK
  OBVIOUS
<1>1. /\ DOMAIN order \subseteq 1..MaxRevisions /\ \A r \in DOMAIN order : order[r] \in Order
      /\ DOMAIN req = Salespeople /\ \A u \in Salespeople : req[u] \in Request
  BY DEF SalesTypes, OrderVersions
<1>2. /\ DOMAIN shipped = 1..MaxRevisions /\ DOMAIN billed = 1..MaxRevisions
      /\ \A r \in 1..MaxRevisions : shipped[r] \in [Lines -> Nat] /\ billed[r] \in [Lines -> Nat]
  BY DEF SalesTypes, OrderVersions
<1>3. dropped \subseteq 1..MaxRevisions
  BY <1>1 DEF SalesTypes
<1>4. overlapped \subseteq (1..MaxRevisions) \X Lines \X {"ship", "bill", "count"} /\ edited \subseteq 1..MaxRevisions
  BY DEF SalesNotes, OrderVersions
<1> QED
  BY <1>1, <1>2, <1>3, <1>4 DEF SalesTypeOK

-----------------------------------------------------------------------------
(***************************************************************************)
(* Deliveries, receipts, drafts and counts in one warehouse, all at once.  *)
(* The components keep what they promise alone; the only table they share  *)
(* is the stock ledger, which sales and purchases reach by post_move.      *)
(***************************************************************************)

tradeVars == <<stockVars, salesVars, purchaseVars>>

TradeInit == StockInit /\ SalesInit /\ PurchaseInit

\* Any of them at any time: stock users, salespeople and buyers.
TradeNext ==
    \/ StockNext /\ UNCHANGED <<salesVars, purchaseVars>>
    \/ SalesNext /\ UNCHANGED <<drafts, count, counts, purchaseVars>>
    \/ PurchaseNext /\ UNCHANGED <<drafts, count, counts, salesVars>>

TradeSpec == TradeInit /\ [][TradeNext]_tradeVars

TradeInv == LedgerInv /\ SalesInv /\ PurchaseInv

\* post_move as a request of another component calls it: it waits for the
\* row a count has locked, so what the count has read stays the balance.
LEMMA PostDoneKeeps ==
    ASSUME LedgerInv, NEW route \in Routes, NEW qty \in Nat, PostDone(route, qty),
           UNCHANGED <<drafts, count, counts>>
    PROVE  LedgerInv'
<1>1. /\ quant' = Moved(quant, route, qty) /\ flow' = [flow EXCEPT ![route] = @ + qty]
      /\ ~RowLocked(route[1]) /\ ~RowLocked(route[2])
  BY DEF PostDone
<1>2. LedgerTypes /\ OnHandIsTheMoves /\ CountInv
  BY DEF LedgerInv, LedgerTypes, CountInv, CountTypes
<1>3. LedgerTypes' /\ OnHandIsTheMoves'
  BY <1>1, <1>2, MovesKeepBalances
<1>4. /\ DOMAIN quant \subseteq DOMAIN quant'
      /\ \A x \in DOMAIN quant : x # route[1] /\ x # route[2] => quant'[x] = quant[x]
  <2>1. (\A l \in DOMAIN quant : quant[l] \in Int) /\ qty \in Int
    BY <1>2 DEF LedgerTypes
  <2> QED
    BY <1>1, <2>1, MovedMeans
<1>5. ReadIsCurrent'
  BY <1>1, <1>2, <1>4 DEF CountInv, ReadIsCurrent, RowLocked
<1>6. CountTypes'
  BY <1>2, <1>3 DEF CountInv, CountTypes, LedgerTypes
<1> QED
  BY <1>3, <1>5, <1>6 DEF LedgerInv, CountInv, LedgerTypes

\* A sales request leaves the stock ledger alone, or delivers from it.
LEMMA SalesMoveStock ==
    ASSUME SalesTypes, SalesNext
    PROVE  UNCHANGED <<quant, flow>> \/ \E n \in Nat : PostDone(<<"internal", "customer">>, n)
<1>1. ASSUME NEW r \in DOMAIN order, mark_sent(r) \/ mark_lost(r) \/ expire_quotations(r) \/ cancel_order(r)
      PROVE  UNCHANGED <<quant, flow>>
  BY <1>1 DEF mark_sent, mark_lost, expire_quotations, cancel_order, Change, Effects
<1>2. ASSUME NEW r \in DOMAIN order, NEW u \in Salespeople,
             EditCheck(u, r) \/ CountLines(u, r) \/ ReadSource(u, r) \/ FulfilCheck(u, r) \/ InvoiceCheck(u, r)
      PROVE  UNCHANGED <<quant, flow>>
  BY <1>2 DEF EditCheck, CountLines, ReadSource, FulfilCheck, InvoiceCheck, Effects
<1>3. ASSUME NEW u \in Salespeople, NEW l \in Lines, ServeLine(u, l)
      PROVE  UNCHANGED <<quant, flow>> \/ \E n \in Nat : PostDone(<<"internal", "customer">>, n)
  <2>1. req[u].todo[l] \in Nat
    BY RequestFacts
  <2>2. IF l = "stockable" THEN PostDone(<<"internal", "customer">>, req[u].todo[l]) ELSE UNCHANGED <<quant, flow>>
    BY <1>3 DEF ServeLine, Effects
  <2> QED
    BY <2>1, <2>2
<1>4. ASSUME NEW u \in Salespeople, SalesStep(u), ~\E l \in Lines : ServeLine(u, l)
      PROVE  UNCHANGED <<quant, flow>>
  <2>1. ASSUME \/ save_quote(u) \/ InsertLine(u) \/ add_line(u) \/ delete_line(u) \/ EditEnds(u)
               \/ confirm_order(u) \/ SupersedeOthers(u)
        PROVE  UNCHANGED <<quant, flow>>
    BY <2>1 DEF save_quote, InsertLine, add_line, delete_line, EditEnds, confirm_order, SupersedeOthers, Effects
  <2>2. ASSUME RefuseIfLive(u) \/ revise_quote(u) \/ CloneLines(u) \/ SupersedeSource(u)
        PROVE  UNCHANGED <<quant, flow>>
    BY <2>2 DEF RefuseIfLive, revise_quote, CloneLines, SupersedeSource, Effects
  <2>3. ASSUME \/ ReadOutstanding(u) \/ AdvanceDelivered(u) \/ AdvanceLost(u)
               \/ CountOutstanding(u) \/ CountFails(u) \/ MarkDelivered(u)
        PROVE  UNCHANGED <<quant, flow>>
    BY <2>3 DEF ReadOutstanding, AdvanceDelivered, AdvanceLost, CountOutstanding, CountFails, MarkDelivered, Effects
  <2>4. ASSUME \/ ReadBillable(u) \/ create_customer_invoice(u) \/ AbandonSale(u)
               \/ \E l \in Lines : AdvanceInvoiced(u, l)
        PROVE  UNCHANGED <<quant, flow>>
    BY <2>4 DEF ReadBillable, create_customer_invoice, AbandonSale, AdvanceInvoiced, Effects
  <2> QED
    BY <1>4, <2>1, <2>2, <2>3, <2>4 DEF SalesStep
<1>5. \/ \E r \in DOMAIN order : mark_sent(r) \/ mark_lost(r) \/ expire_quotations(r) \/ cancel_order(r)
      \/ \E r \in DOMAIN order : \E u \in Salespeople :
            EditCheck(u, r) \/ CountLines(u, r) \/ ReadSource(u, r) \/ FulfilCheck(u, r) \/ InvoiceCheck(u, r)
      \/ \E u \in Salespeople : SalesStep(u)
  BY DEF SalesNext
<1> QED
  BY <1>1, <1>2, <1>3, <1>4, <1>5

\* A purchase request leaves the stock ledger alone, or receives into it.
LEMMA PurchasesMoveStock ==
    ASSUME PurchaseTypes, PurchaseNext
    PROVE  UNCHANGED <<quant, flow>> \/ \E n \in Nat : PostDone(<<"supplier", "internal">>, n)
<1>1. ASSUME NEW r \in DOMAIN po, mark_rfq_sent(r) \/ cancel_po(r) \/ \E u \in Buyers : Look(u, r) \/ BillCheck(u, r)
      PROVE  UNCHANGED <<quant, flow>>
  BY <1>1 DEF mark_rfq_sent, cancel_po, Look, BillCheck, Stock
<1>2. ASSUME NEW u \in Buyers, process_receipt(u)
      PROVE  \E n \in Nat : PostDone(<<"supplier", "internal">>, n)
  <2>1. buy[u].qty \in Nat
    BY DEF PurchaseTypes, Buy
  <2> QED
    BY <1>2, <2>1 DEF process_receipt
<1>3. ASSUME NEW u \in Buyers,
             \/ WriteLine(u) \/ confirm_po(u) \/ SupersedeOtherRfqs(u)
             \/ RefuseIfLivePo(u) \/ revise_rfq(u) \/ CloneLine(u) \/ SupersedeRfq(u)
      PROVE  UNCHANGED <<quant, flow>>
  BY <1>3 DEF WriteLine, confirm_po, SupersedeOtherRfqs, RefuseIfLivePo, revise_rfq, CloneLine, SupersedeRfq, Stock
<1>4. ASSUME NEW u \in Buyers,
             \/ ReadMissing(u) \/ AdvanceReceived(u) \/ CountMissing(u) \/ CountFails_(u) \/ MarkReceived(u)
             \/ ReadBillLines(u) \/ create_vendor_bill(u) \/ LinkBill(u) \/ AbandonPurchase(u)
      PROVE  UNCHANGED <<quant, flow>>
  BY <1>4 DEF ReadMissing, AdvanceReceived, CountMissing, CountFails_, MarkReceived, ReadBillLines,
              create_vendor_bill, LinkBill, AbandonPurchase, Stock
<1> QED
  BY <1>1, <1>2, <1>3, <1>4 DEF PurchaseNext

LEMMA TradeInitially == TradeInit => TradeInv
BY LedgerInit, SalesInitially, PurchaseInitially DEF TradeInit, TradeInv

\* The others do not touch the ledger, or post to it.
LEMMA LedgerRests ==
    ASSUME LedgerInv, UNCHANGED stockVars
    PROVE  LedgerInv'
BY LedgerStep

LEMMA TradeKept == TradeInv /\ [TradeNext]_tradeVars => TradeInv'
<1> SUFFICES ASSUME TradeInv, [TradeNext]_tradeVars PROVE TradeInv'
  OBVIOUS
<1>1. LedgerInv /\ SalesInv /\ PurchaseInv
  BY DEF TradeInv
<1>2. /\ <<"internal", "customer">> \in Routes /\ <<"supplier", "internal">> \in Routes
  BY DEF Routes, Locations
<1>3. SalesInv /\ [SalesNext]_salesVars => SalesInv'
  BY SalesKept
<1>4. PurchaseInv /\ [PurchaseNext]_purchaseVars => PurchaseInv'
  BY PurchaseStep
<1>5. CASE StockNext /\ UNCHANGED <<salesVars, purchaseVars>>
  <2>1. LedgerInv'
    BY <1>1, <1>5, LedgerStep
  <2> QED
    BY <1>1, <1>3, <1>4, <1>5, <2>1 DEF TradeInv
<1>6. CASE SalesNext /\ UNCHANGED <<drafts, count, counts, purchaseVars>>
  <2>1. UNCHANGED <<quant, flow>> \/ \E n \in Nat : PostDone(<<"internal", "customer">>, n)
    BY <1>1, <1>6, SalesMoveStock DEF SalesInv
  <2>2. LedgerInv'
    <3>1. ASSUME UNCHANGED <<quant, flow>> PROVE LedgerInv'
      BY <1>1, <1>6, <3>1, LedgerRests DEF stockVars
    <3>2. ASSUME NEW n \in Nat, PostDone(<<"internal", "customer">>, n) PROVE LedgerInv'
      BY <1>1, <1>2, <1>6, <3>2, PostDoneKeeps
    <3> QED
      BY <2>1, <3>1, <3>2
  <2> QED
    BY <1>1, <1>3, <1>4, <1>6, <2>2 DEF TradeInv
<1>7. CASE PurchaseNext /\ UNCHANGED <<drafts, count, counts, salesVars>>
  <2>1. UNCHANGED <<quant, flow>> \/ \E n \in Nat : PostDone(<<"supplier", "internal">>, n)
    BY <1>1, <1>7, PurchasesMoveStock DEF PurchaseInv
  <2>2. LedgerInv'
    <3>1. ASSUME UNCHANGED <<quant, flow>> PROVE LedgerInv'
      BY <1>1, <1>7, <3>1, LedgerRests DEF stockVars
    <3>2. ASSUME NEW n \in Nat, PostDone(<<"supplier", "internal">>, n) PROVE LedgerInv'
      BY <1>1, <1>2, <1>7, <3>2, PostDoneKeeps
    <3> QED
      BY <2>1, <3>1, <3>2
  <2> QED
    BY <1>1, <1>3, <1>4, <1>7, <2>2 DEF TradeInv
<1>8. CASE UNCHANGED tradeVars
  <2>1. UNCHANGED <<stockVars, salesVars, purchaseVars>>
    BY <1>8 DEF tradeVars
  <2> QED
    BY <1>1, <1>3, <1>4, <2>1, LedgerRests DEF TradeInv
<1> QED
  BY <1>5, <1>6, <1>7, <1>8 DEF TradeNext

\* post_move is the only way into the ledger: while salespeople deliver,
\* buyers receive and stock users enter, validate and count, what is on hand
\* is what the done moves say.
THEOREM OnHandInTrade == TradeSpec => []OnHandIsTheMoves
<1>1. TradeInv => OnHandIsTheMoves
  BY DEF TradeInv, LedgerInv
<1> QED
  BY <1>1, TradeInitially, TradeKept, PTL DEF TradeSpec

\* apply_adjustment against deliveries and receipts: a count that locked its
\* row ends at what was counted, whatever they post.
THEOREM CountsLandInTrade == TradeSpec => CountLandsOnCounted
<1> DEFINE Lands == \A u \in Counters :
          (count[u].at = "counting" /\ count[u].row /\ quant' # quant /\ count'[u].at = "none")
          => quant'["internal"] = count[u].counted
<1>1. TradeInv /\ [TradeNext]_tradeVars => [Lands]_stockVars
  <2>1. ASSUME CountInv, StockNext, NEW u \in Counters,
               count[u].at = "counting", count[u].row, quant' # quant, count'[u].at = "none"
        PROVE  quant'["internal"] = count[u].counted
    <3>1. \E v \in Counters : CommitCount(v)
      BY <2>1 DEF StockNext, create_move, validate_move, cancel_move, BeginCount, ReadOnHand, RollbackCount
    <3>2. PICK v \in Counters : CommitCount(v)
      BY <3>1
    <3>3. v = u
      BY <2>1, <3>2, CommitMeans DEF CountInv, ReadIsCurrent
    <3> QED
      BY <2>1, <3>2, <3>3, CommitMeans
  <2>2. ASSUME TradeInv, StockNext PROVE Lands
    BY <2>1, <2>2 DEF TradeInv, LedgerInv
  <2>3. ASSUME UNCHANGED count PROVE Lands
    BY <2>3
  <2>4. [TradeNext]_tradeVars => StockNext \/ UNCHANGED count
    BY DEF TradeNext, tradeVars, stockVars
  <2> QED
    BY <2>2, <2>3, <2>4
<1> QED
  BY TradeInitially, TradeKept, <1>1, PTL DEF TradeSpec, CountLandsOnCounted

\* process_delivery and process_receipt in one warehouse: neither family's
\* agreement with its orders depends on what the other, or the stock users,
\* do in between.
THEOREM OrdersMatchInTrade ==
    TradeSpec => [](ShipmentsMatchOrders /\ BillsFollowDeliveries /\ PurchasesMatchReceipts)
<1>1. TradeInv => ShipmentsMatchOrders /\ BillsFollowDeliveries /\ PurchasesMatchReceipts
  BY ShipmentsMeant, BillsMeant, PurchaseMeans DEF TradeInv
<1> QED
  BY <1>1, TradeInitially, TradeKept, PTL DEF TradeSpec

TradeTypesInv == TradeInv /\ StockNotes /\ SalesNotes /\ PurchaseNotes

\* A posted move keeps the rows and the totals of the ledger in their types.
LEMMA PostDoneTyped ==
    ASSUME StockNotes, NEW route \in Routes, NEW n \in Nat, PostDone(route, n), UNCHANGED drafts
    PROVE  StockNotes'
<1>1. quant' = Moved(quant, route, n) /\ flow' = [flow EXCEPT ![route] = @ + n]
  BY DEF PostDone
<1> QED
  BY <1>1, MovedRows DEF StockNotes

\* Nothing is noted before the first step.
LEMMA TypesInitially == TradeInit => TradeTypesInv
<1> SUFFICES ASSUME TradeInit PROVE TradeTypesInv
  OBVIOUS
<1>1. StockNotes
  BY StockAssumption DEF TradeInit, StockInit, StockNotes, Locations
<1>2. SalesNotes
  BY DEF TradeInit, SalesInit, SalesNotes
<1>3. PurchaseNotes
  BY DEF TradeInit, PurchaseInit, PurchaseNotes
<1> QED
  BY <1>1, <1>2, <1>3, TradeInitially DEF TradeTypesInv

\* No step of any of them leaves the types.
LEMMA TypesKeptInTrade == TradeTypesInv /\ [TradeNext]_tradeVars => TradeTypesInv'
<1> SUFFICES ASSUME TradeTypesInv, [TradeNext]_tradeVars PROVE TradeTypesInv'
  OBVIOUS
<1>1. TradeInv'
  BY TradeKept DEF TradeTypesInv
<1>2. CountTypes /\ SalesTypes /\ PurchaseTypes /\ StockNotes /\ SalesNotes /\ PurchaseNotes
  BY DEF TradeTypesInv, TradeInv, LedgerInv, CountInv, SalesInv, PurchaseInv
<1>3. [SalesNext]_salesVars /\ [PurchaseNext]_purchaseVars
  BY DEF tradeVars, TradeNext
<1>4. SalesNotes' /\ PurchaseNotes'
  BY <1>2, <1>3, SalesNotesKept, PurchaseNotesKept
<1>5. CASE [StockNext]_stockVars
  BY <1>1, <1>2, <1>4, <1>5, StockNotesKept DEF TradeTypesInv
<1>6. CASE SalesNext /\ UNCHANGED <<drafts, count, counts, purchaseVars>>
  <2>1. UNCHANGED <<quant, flow>> \/ \E n \in Nat : PostDone(<<"internal", "customer">>, n)
    BY <1>2, <1>6, SalesMoveStock
  <2>2. <<"internal", "customer">> \in Routes
    BY DEF Routes, Locations
  <2>3. StockNotes'
    BY <1>2, <1>6, <2>1, <2>2, PostDoneTyped DEF StockNotes
  <2> QED
    BY <1>1, <1>4, <2>3 DEF TradeTypesInv
<1>7. CASE PurchaseNext /\ UNCHANGED <<drafts, count, counts, salesVars>>
  <2>1. UNCHANGED <<quant, flow>> \/ \E n \in Nat : PostDone(<<"supplier", "internal">>, n)
    BY <1>2, <1>7, PurchasesMoveStock
  <2>2. <<"supplier", "internal">> \in Routes
    BY DEF Routes, Locations
  <2>3. StockNotes'
    BY <1>2, <1>7, <2>1, <2>2, PostDoneTyped DEF StockNotes
  <2> QED
    BY <1>1, <1>4, <2>3 DEF TradeTypesInv
<1> QED
  BY <1>5, <1>6, <1>7 DEF TradeNext, tradeVars

\* Stock users, salespeople and buyers at work together never leave the
\* types: no row of a location there is not, no order in a state, at a
\* quantity or in the hands of a request its table has no value for.
THEOREM TradeTypes == TradeSpec => [](StockTypeOK /\ SalesTypeOK /\ PurchaseTypeOK)
<1>1. TradeTypesInv => StockTypeOK /\ SalesTypeOK /\ PurchaseTypeOK
  BY StockTypesMean, SalesTypesMean, PurchaseTypesMean
     DEF TradeTypesInv, TradeInv, LedgerInv, CountInv, SalesInv, PurchaseInv
<1> QED
  BY <1>1, TypesInitially, TypesKeptInTrade, PTL DEF TradeSpec

-----------------------------------------------------------------------------
(***************************************************************************)
(* A closed year is covered by its closing entries, and a posted invoice   *)
(* has its ledger lines once: for any number of clerks, moves and          *)
(* requests. Two invariants beside the types carry them: what a request    *)
(* that closes the year has read is still true of every move that is not   *)
(* outdated, and of an invoice that was never expanded twice at once the   *)
(* lines are gone while a request expands it.                              *)
(***************************************************************************)

ClerkSteps == {"idle", "wipe", "expand", "expanding", "post", "locked", "year", "commit", "unpost",
              "counter", "link", "drafts", "balances", "closing", "mark", "lockup", "reopen"}
OnMove == {"wipe", "expand", "expanding", "post", "locked", "year", "commit", "unpost"}
Summing == {"closing", "mark"}

MovesListed == \E n \in Nat : DOMAIN mv = 1..n
KnownMoves == \A u \in Clerks : clerk[u].at \in OnMove => clerk[u].move \in DOMAIN mv
LateYear == \A u \in Clerks : clerk[u].at = "commit" /\ ~clerk[u].open => mv[clerk[u].move].year # 1
ClerkKinds == PostingsTypeOK /\ MovesListed /\ KnownMoves /\ LateYear

\* What the requests that close the year know.
OneCloses == \A u, v \in Clerks : u # v /\ clerk[u].at \in Summing /\ clerk[v].at \in Summing => Moves \subseteq outdated
DeltaRight == \A u \in Clerks : clerk[u].at = "closing" =>
                  \A m \in Moves \ outdated : clerk[u].delta[m] = InYear(m) - zeroed[m]
MarkRight == \A u \in Clerks : clerk[u].at = "mark" => \A m \in Moves \ outdated : zeroed[m] = InYear(m)
CloseInv == OneCloses /\ DeltaRight /\ MarkRight /\ ClosedYearIsCovered

\* The ledger lines of an invoice.
PostingLines(m) ==
    mv[m].kind = "invoice" =>
        /\ mv[m].gl \in {0, 1}
        /\ mv[m].state = "posted" => mv[m].gl = 1
        /\ \A v \in Clerks : clerk[v].move = m /\ clerk[v].at \in {"expand", "expanding"} => mv[m].gl = 0
        /\ \A v, w \in Clerks : Expanding(v, m) /\ Expanding(w, m) => v = w
PostingLinesInv == \A m \in DOMAIN mv \ raced : PostingLines(m)

PostingsInv == ClerkKinds /\ CloseInv /\ PostingLinesInv

LEMMA PostingsMeans == PostingsInv => ClosedYearIsCovered /\ LedgerLinesOnce /\ PostingsTypeOK
BY DEF PostingsInv, ClerkKinds, CloseInv, PostingLinesInv, PostingLines, LedgerLinesOnce

-----------------------------------------------------------------------------
(* What the helpers do *)

LEMMA RestTypes == Rest \in Clerk
BY PostingsAssumption DEF Rest, Clerk, Zero, Moves

LEMMA StepMeans ==
    ASSUME clerk \in [Clerks -> Clerk], NEW u \in Clerks, NEW p \in ClerkSteps, Step(u, p)
    PROVE  /\ clerk' \in [Clerks -> Clerk]
           /\ \A v \in Clerks \ {u} : clerk'[v] = clerk[v]
           /\ clerk'[u].at = p
           /\ p # "idle" => /\ clerk'[u].move = clerk[u].move /\ clerk'[u].delta = clerk[u].delta
                            /\ clerk'[u].open = clerk[u].open
<1>1. clerk' = [clerk EXCEPT ![u] = IF p = "idle" THEN Rest ELSE [clerk[u] EXCEPT !.at = p]]
  BY DEF Step
<1>2. [clerk[u] EXCEPT !.at = p] \in Clerk
  BY DEF Clerk, ClerkSteps
<1>3. clerk' \in [Clerks -> Clerk]
  BY <1>1, <1>2, RestTypes
<1>4. CASE p = "idle"
  BY <1>1, <1>3, <1>4 DEF Rest
<1>5. CASE p # "idle"
  <2>1. clerk'[u] = [clerk[u] EXCEPT !.at = p]
    BY <1>1, <1>5
  <2>2. clerk[u] \in Clerk
    OBVIOUS
  <2> QED
    BY <1>1, <1>3, <1>5, <2>1, <2>2 DEF Clerk
<1> QED
  BY <1>4, <1>5

LEMMA StartMeans ==
    ASSUME clerk \in [Clerks -> Clerk], NEW u \in Clerks, NEW p \in ClerkSteps, NEW m \in 0..MaxMoves,
           Start(u, p, m)
    PROVE  /\ clerk' \in [Clerks -> Clerk]
           /\ \A v \in Clerks \ {u} : clerk'[v] = clerk[v]
           /\ clerk[u].at = "idle" /\ clerk'[u].at = p /\ clerk'[u].move = m
<1>1. clerk' = [clerk EXCEPT ![u] = [Rest EXCEPT !.at = p, !.move = m]] /\ clerk[u].at = "idle"
  BY DEF Start
<1>2. [Rest EXCEPT !.at = p, !.move = m] \in Clerk
  BY RestTypes DEF Clerk, ClerkSteps
<1> QED
  BY <1>1, <1>2, RestTypes DEF Clerk

\* A draft gets the next number and leaves the others as they are.
LEMMA DraftedMeans ==
    ASSUME MovesListed, DOMAIN mv \subseteq Moves, Room, NEW kind \in {"entry", "invoice"}, NEW year \in {1, 2},
           \A m \in DOMAIN mv : mv[m] \in Move
    PROVE  LET new == Cardinality(DOMAIN mv) + 1
               drafted == Drafted(kind, year)
           IN /\ new \in Moves \ DOMAIN mv
              /\ DOMAIN drafted = DOMAIN mv \cup {new}
              /\ DOMAIN drafted = 1..new /\ new \in Nat
              /\ drafted \in [DOMAIN drafted -> Move]
              /\ \A m \in DOMAIN mv : drafted[m] = mv[m]
              /\ drafted[new] \in Move /\ drafted[new].state = "draft" /\ drafted[new].kind = kind
              /\ kind = "invoice" => drafted[new].gl = 0
<1> PICK n \in Nat : DOMAIN mv = 1..n
  BY DEF MovesListed
<1>1. Cardinality(DOMAIN mv) = n
  BY FS_Interval
<1>2. n < MaxMoves /\ MaxMoves \in Nat
  BY <1>1, PostingsAssumption DEF Room
<1> QED
  BY <1>1, <1>2 DEF Drafted, Moves, Move

\* The year's moves are the same if states and years are, and new ones are
\* drafts.
LEMMA InYearStays ==
    ASSUME DOMAIN mv \subseteq DOMAIN mv', NEW m,
           m \in DOMAIN mv => mv'[m].state = mv[m].state /\ mv'[m].year = mv[m].year,
           m \in DOMAIN mv' \ DOMAIN mv => mv'[m].state = "draft"
    PROVE  InYear(m)' = InYear(m)
BY DEF InYear

\* Nobody starts to sum up or marks, and the moves that count are the same:
\* what is known of the year stays true.
LEMMA CloseStays ==
    ASSUME CloseInv, zeroed' = zeroed, fy' = fy, outdated \subseteq outdated',
           \A m \in Moves \ outdated' : InYear(m)' = InYear(m),
           \A u \in Clerks : clerk'[u].at \in Summing => clerk'[u].at = clerk[u].at /\ clerk'[u].delta = clerk[u].delta
    PROVE  CloseInv'
<1> USE DEF CloseInv, Summing
<1>1. OneCloses'
  BY DEF OneCloses
<1>2. DeltaRight'
  BY DEF DeltaRight
<1>3. MarkRight'
  BY DEF MarkRight
<1>4. ClosedYearIsCovered'
  BY DEF ClosedYearIsCovered
<1> QED
  BY <1>1, <1>2, <1>3, <1>4

\* The invoices' lines and states are the same and nobody starts to expand.
LEMMA LinesStay ==
    ASSUME PostingLinesInv, raced \subseteq raced', DOMAIN mv' = DOMAIN mv,
           \A m \in DOMAIN mv : mv'[m].kind = mv[m].kind /\ mv'[m].gl = mv[m].gl
                                /\ (mv'[m].state = "posted" => mv[m].state = "posted"),
           \A u \in Clerks : clerk'[u].at \in {"wipe", "expand", "expanding"} =>
                 /\ clerk'[u].move = clerk[u].move /\ clerk[u].at \in {"wipe", "expand", "expanding"}
                 /\ clerk'[u].at \in {"expand", "expanding"} => clerk[u].at \in {"expand", "expanding"}
    PROVE  PostingLinesInv'
<1> SUFFICES ASSUME NEW m \in DOMAIN mv \ raced, mv[m].kind = "invoice" PROVE PostingLines(m)'
  BY DEF PostingLinesInv, PostingLines
<1>1. PostingLines(m)
  BY DEF PostingLinesInv
<1> QED
  BY <1>1 DEF PostingLines, Expanding

-----------------------------------------------------------------------------
(* Steps that touch nothing but the request itself *)

still == <<mv, fy, zeroed, raced, outdated>>

LEMMA ClerkQuiet ==
    ASSUME PostingsInv, UNCHANGED still, lock' \in 0..1, stray' \in BOOLEAN,
           NEW u \in Clerks, NEW p \in ClerkSteps \ {"wipe", "expand", "commit", "closing", "mark"}, Step(u, p),
           p = "expanding" => clerk[u].at = "expand",
           p \in OnMove => clerk[u].at \in OnMove
    PROVE  PostingsInv'
<1> USE DEF PostingsInv, ClerkKinds, still
<1>1. /\ clerk' \in [Clerks -> Clerk]
      /\ \A v \in Clerks \ {u} : clerk'[v] = clerk[v]
      /\ clerk'[u].at = p
      /\ p # "idle" => clerk'[u].move = clerk[u].move
  BY StepMeans DEF PostingsTypeOK
<1>2. PostingsTypeOK'
  BY <1>1 DEF PostingsTypeOK
<1>3. MovesListed' /\ KnownMoves' /\ LateYear'
  BY <1>1 DEF MovesListed, KnownMoves, LateYear, OnMove
<1>4. CloseInv'
  BY <1>1, CloseStays DEF Summing, InYear
<1>5. PostingLinesInv'
  BY <1>1, LinesStay
<1> QED
  BY <1>2, <1>3, <1>4, <1>5

LEMMA QuietStart ==
    ASSUME PostingsInv, UNCHANGED <<still, lock, stray>>,
           NEW u \in Clerks, NEW p \in {"unpost", "counter", "drafts", "reopen"}, NEW m \in DOMAIN mv \cup {0},
           Start(u, p, m), p = "unpost" => m \in DOMAIN mv
    PROVE  PostingsInv'
<1> USE DEF PostingsInv, ClerkKinds, still
<1>1. m \in 0..MaxMoves
  BY PostingsAssumption DEF PostingsTypeOK, Moves
<1>2. /\ clerk' \in [Clerks -> Clerk]
      /\ \A v \in Clerks \ {u} : clerk'[v] = clerk[v]
      /\ clerk'[u].at = p /\ clerk'[u].move = m
  BY <1>1, StartMeans DEF PostingsTypeOK, ClerkSteps
<1>3. PostingsTypeOK'
  BY <1>2 DEF PostingsTypeOK
<1>4. MovesListed' /\ KnownMoves' /\ LateYear'
  BY <1>2 DEF MovesListed, KnownMoves, LateYear, OnMove
<1>5. CloseInv'
  BY <1>2, CloseStays DEF Summing, InYear
<1>6. PostingLinesInv'
  BY <1>2, LinesStay
<1> QED
  BY <1>3, <1>4, <1>5, <1>6

-----------------------------------------------------------------------------
(* Moves are drafted *)

\* create_draft and CreateCounter: one more draft, and whoever is new on a
\* move is about to post the new entry.
LEMMA DraftStep ==
    ASSUME PostingsInv, Room, NEW kind \in {"entry", "invoice"}, NEW year \in {1, 2}, mv' = Drafted(kind, year),
           UNCHANGED <<fy, zeroed, raced, outdated, lock, stray>>,
           clerk' \in [Clerks -> Clerk],
           \A u \in Clerks : \/ clerk'[u] = clerk[u]
                             \/ /\ clerk'[u].at = "post" /\ clerk'[u].move = Cardinality(DOMAIN mv) + 1
    PROVE  PostingsInv'
<1> USE DEF PostingsInv, ClerkKinds
<1> DEFINE new == Cardinality(DOMAIN mv) + 1
<1>0. DOMAIN mv \subseteq Moves /\ MovesListed /\ \A m \in DOMAIN mv : mv[m] \in Move
  BY DEF PostingsTypeOK
<1>1. /\ new \in Moves \ DOMAIN mv
      /\ DOMAIN mv' = DOMAIN mv \cup {new}
      /\ DOMAIN mv' = 1..new /\ new \in Nat
      /\ mv' \in [DOMAIN mv' -> Move]
      /\ \A m \in DOMAIN mv : mv'[m] = mv[m]
      /\ mv'[new] \in Move /\ mv'[new].state = "draft"
      /\ mv'[new].kind = "invoice" => mv'[new].gl = 0
  BY <1>0, DraftedMeans
<1> HIDE DEF new
<1>2. \A u \in Clerks : clerk'[u] = clerk[u] \/ (clerk'[u].at = "post" /\ clerk'[u].move = new)
  BY DEF new
<1>3. PostingsTypeOK'
  BY <1>1 DEF PostingsTypeOK
<1>4. MovesListed' /\ KnownMoves' /\ LateYear'
  BY <1>1, <1>2 DEF MovesListed, KnownMoves, LateYear, OnMove
<1>5. \A m \in Moves \ outdated' : InYear(m)' = InYear(m)
  BY <1>1, InYearStays
<1>6. CloseInv'
  BY <1>2, <1>5, CloseStays DEF Summing
<1>7. ASSUME NEW m \in DOMAIN mv' \ raced', mv'[m].kind = "invoice" PROVE PostingLines(m)'
  <2>1. CASE m = new
    <3>1. \A v \in Clerks : clerk'[v].move = new => clerk'[v].at \notin {"wipe", "expand", "expanding"}
      BY <1>1, <1>2 DEF KnownMoves, OnMove
    <3> QED
      BY <1>1, <2>1, <3>1 DEF PostingLines, Expanding
  <2>2. CASE m # new
    <3>1. m \in DOMAIN mv \ raced /\ mv'[m] = mv[m] /\ PostingLines(m)
      BY <1>1, <1>7, <2>2 DEF PostingLinesInv
    <3> QED
      BY <1>2, <3>1 DEF PostingLines, Expanding
  <2> QED
    BY <2>1, <2>2
<1>8. PostingLinesInv'
  BY <1>7 DEF PostingLinesInv, PostingLines
<1> QED
  BY <1>3, <1>4, <1>6, <1>8

-----------------------------------------------------------------------------
(* Moves are written *)

\* One move changes, but not its kind and its year; whoever takes the step
\* keeps the move it is on. Types and numbers stay.
LEMMA WriteKinds ==
    ASSUME PostingsInv, NEW x \in DOMAIN mv, NEW new \in Move, mv' = [mv EXCEPT ![x] = new],
           new.kind = mv[x].kind, new.year = mv[x].year,
           UNCHANGED <<fy, zeroed, lock, stray>>, raced' = raced, outdated' \subseteq Moves,
           NEW u \in Clerks, NEW p \in ClerkSteps \ {"wipe", "commit"}, Step(u, p),
           p \in OnMove => clerk[u].at \in OnMove
    PROVE  ClerkKinds'
<1> USE DEF PostingsInv, ClerkKinds
<1>1. /\ clerk' \in [Clerks -> Clerk]
      /\ \A v \in Clerks \ {u} : clerk'[v] = clerk[v]
      /\ clerk'[u].at = p
      /\ p # "idle" => clerk'[u].move = clerk[u].move
  BY StepMeans DEF PostingsTypeOK
<1>2. DOMAIN mv' = DOMAIN mv /\ \A m \in DOMAIN mv : mv'[m] \in Move /\ mv'[m].year = mv[m].year
  BY DEF PostingsTypeOK
<1>3. PostingsTypeOK'
  BY <1>1, <1>2 DEF PostingsTypeOK
<1>4. MovesListed' /\ KnownMoves' /\ LateYear'
  BY <1>1, <1>2 DEF MovesListed, KnownMoves, LateYear, OnMove
<1> QED
  BY <1>3, <1>4

LEMMA WriteClose ==
    ASSUME PostingsInv, NEW x \in DOMAIN mv, NEW new \in Move, mv' = [mv EXCEPT ![x] = new],
           new.year = mv[x].year, new.state = mv[x].state \/ x \in outdated' \/ new.year # 1
                                  \/ ~(fy = "closed" \/ \E v \in Clerks : clerk[v].at \in Summing),
           UNCHANGED <<fy, zeroed>>, outdated \subseteq outdated',
           NEW u \in Clerks, NEW p \in ClerkSteps \ Summing, Step(u, p)
    PROVE  CloseInv'
<1> USE DEF PostingsInv, ClerkKinds
<1>1. /\ \A v \in Clerks \ {u} : clerk'[v] = clerk[v]
      /\ clerk'[u].at = p
  BY StepMeans DEF PostingsTypeOK
<1>2. \A v \in Clerks : clerk'[v].at \in Summing => clerk'[v].at = clerk[v].at /\ clerk'[v].delta = clerk[v].delta
  BY <1>1
<1>3. DOMAIN mv' = DOMAIN mv /\ mv'[x] = new /\ \A m \in DOMAIN mv \ {x} : mv'[m] = mv[m]
  OBVIOUS
<1>4. CASE new.state = mv[x].state \/ x \in outdated' \/ new.year # 1
  <2>1. \A m \in Moves \ outdated' : InYear(m)' = InYear(m)
    BY <1>3, <1>4 DEF InYear
  <2> QED
    BY <1>2, <2>1, CloseStays
<1>5. CASE ~(fy = "closed" \/ \E v \in Clerks : clerk[v].at \in Summing)
  BY <1>2, <1>5 DEF CloseInv, OneCloses, DeltaRight, MarkRight, ClosedYearIsCovered, Summing
<1> QED
  BY <1>4, <1>5

\* What the lines of the move that changes must satisfy; those of the others
\* do not change.
LEMMA WriteLines ==
    ASSUME PostingsInv, NEW x \in DOMAIN mv, NEW new \in Move, mv' = [mv EXCEPT ![x] = new],
           raced' = raced,
           NEW u \in Clerks, NEW p \in ClerkSteps, Step(u, p),
           p \in {"wipe", "expand", "expanding"} => clerk[u].move = x /\ clerk[u].at \in {"wipe", "expand", "expanding"},
           x \notin raced => PostingLines(x)'
    PROVE  PostingLinesInv'
<1> USE DEF PostingsInv, ClerkKinds
<1>1. /\ \A v \in Clerks \ {u} : clerk'[v] = clerk[v]
      /\ clerk'[u].at = p
      /\ p # "idle" => clerk'[u].move = clerk[u].move
  BY StepMeans DEF PostingsTypeOK
<1>2. DOMAIN mv' = DOMAIN mv /\ \A m \in DOMAIN mv \ {x} : mv'[m] = mv[m]
  OBVIOUS
<1>3. ASSUME NEW m \in DOMAIN mv \ raced, m # x PROVE PostingLines(m)'
  <2>1. PostingLines(m)
    BY DEF PostingLinesInv
  <2> QED
    BY <1>1, <1>2, <1>3, <2>1 DEF PostingLines, Expanding
<1> QED
  BY <1>2, <1>3 DEF PostingLinesInv

-----------------------------------------------------------------------------
(* The actions *)

LEMMA SameStep ==
    ASSUME PostingsInv, UNCHANGED <<still, stray, clerk>>, lock' \in 0..1
    PROVE  PostingsInv'
<1> USE DEF PostingsInv, ClerkKinds, still
<1>1. ClerkKinds'
  BY DEF PostingsTypeOK, MovesListed, KnownMoves, LateYear
<1>2. CloseInv'
  BY CloseStays DEF Summing, InYear
<1>3. PostingLinesInv'
  BY LinesStay
<1> QED
  BY <1>1, <1>2, <1>3

LEMMA RequestStep ==
    ASSUME PostingsInv, NEW u \in Clerks, NEW m \in DOMAIN mv, post_request(u, m)
    PROVE  PostingsInv'
<1> USE DEF PostingsInv, ClerkKinds
<1> DEFINE p == IF mv[m].kind = "invoice" THEN "wipe" ELSE "post"
<1>1. m \in 0..MaxMoves /\ p \in ClerkSteps /\ Start(u, p, m)
  BY PostingsAssumption DEF PostingsTypeOK, Moves, post_request, ClerkSteps
<1>2. /\ mv' = mv /\ lock' = lock /\ fy' = fy /\ zeroed' = zeroed /\ stray' = stray /\ outdated' = outdated
      /\ raced' = raced \cup (IF \E v \in Clerks \ {u} : Expanding(v, m) THEN {m} ELSE {})
  BY DEF post_request, books
<1>3. p = "wipe" <=> mv[m].kind = "invoice"
  OBVIOUS
<1> HIDE DEF p
<1>4. /\ clerk' \in [Clerks -> Clerk]
      /\ \A v \in Clerks \ {u} : clerk'[v] = clerk[v]
      /\ clerk'[u].at = p /\ clerk'[u].move = m
  BY <1>1, StartMeans DEF PostingsTypeOK
<1>5. p \in {"wipe", "post"}
  BY DEF p
<1>6. PostingsTypeOK'
  BY <1>2, <1>4 DEF PostingsTypeOK
<1>7. MovesListed' /\ KnownMoves' /\ LateYear'
  BY <1>2, <1>4, <1>5 DEF MovesListed, KnownMoves, LateYear, OnMove
<1>8. CloseInv'
  BY <1>2, <1>4, <1>5, CloseStays DEF Summing, InYear
<1>9. ASSUME NEW x \in DOMAIN mv \ raced' PROVE PostingLines(x)'
  <2>1. PostingLines(x)
    BY <1>2 DEF PostingLinesInv
  <2>2. x = m => \A v \in Clerks \ {u} : ~Expanding(v, m)
    BY <1>2, <1>9
  <2> QED
    BY <1>2, <1>4, <1>5, <2>1, <2>2 DEF PostingLines, Expanding
<1> QED
  BY <1>2, <1>6, <1>7, <1>8, <1>9 DEF PostingLinesInv

LEMMA WipeStep ==
    ASSUME PostingsInv, NEW u \in Clerks, WipeLines(u)
    PROVE  PostingsInv'
<1> USE DEF PostingsInv, ClerkKinds
<1> PICK m \in DOMAIN mv : m = clerk[u].move
  BY DEF WipeLines, KnownMoves, OnMove
<1>0. clerk[u].at = "wipe" /\ mv[m] \in Move /\ outdated' = outdated /\ outdated' \subseteq Moves
  BY DEF WipeLines, PostingsTypeOK
<1>1. CASE mv' = mv /\ Step(u, "idle")
  BY <1>1, ClerkQuiet DEF WipeLines, still, books, ClerkSteps, OnMove, PostingsTypeOK
<1>2. CASE mv' = [mv EXCEPT ![m].gl = 0] /\ Step(u, "expand") /\ ~(mv[m].state = "posted" /\ mv[m].gl > 0)
  <2> DEFINE new == [mv[m] EXCEPT !.gl = 0]
  <2>1. /\ new \in Move /\ mv' = [mv EXCEPT ![m] = new]
        /\ new.kind = mv[m].kind /\ new.year = mv[m].year /\ new.state = mv[m].state /\ new.gl = 0
    BY <1>0, <1>2 DEF Move
  <2>2. UNCHANGED <<fy, zeroed, lock, stray>> /\ raced' = raced
    BY DEF WipeLines, books
  <2> HIDE DEF new
  <2>3. ClerkKinds'
    BY <1>0, <1>2, <2>1, <2>2, WriteKinds DEF ClerkSteps, OnMove
  <2>4. CloseInv'
    BY <1>0, <1>2, <2>1, <2>2, WriteClose DEF ClerkSteps, Summing
  <2>5. ASSUME m \notin raced PROVE PostingLines(m)'
    <3>1. PostingLines(m)
      BY <2>5 DEF PostingLinesInv
    <3>2. /\ \A v \in Clerks \ {u} : clerk'[v] = clerk[v]
          /\ clerk'[u].at = "expand" /\ clerk'[u].move = m
      BY <1>2, StepMeans DEF PostingsTypeOK, ClerkSteps
    <3>3. mv'[m] = new
      BY <2>1
    <3>4. mv[m].kind = "invoice" => mv[m].state # "posted"
      BY <1>0, <1>2, <3>1 DEF PostingLines, Move
    <3> QED
      BY <1>0, <2>1, <3>1, <3>2, <3>3, <3>4 DEF PostingLines, Expanding
  <2>6. PostingLinesInv'
    BY <1>0, <1>2, <2>1, <2>2, <2>5, WriteLines DEF ClerkSteps
  <2> QED
    BY <2>3, <2>4, <2>6
<1> QED
  BY <1>1, <1>2 DEF WipeLines

LEMMA CommitStep ==
    ASSUME PostingsInv, NEW u \in Clerks, CommitLines(u)
    PROVE  PostingsInv'
<1> USE DEF PostingsInv, ClerkKinds
<1> PICK m \in DOMAIN mv : m = clerk[u].move
  BY DEF CommitLines, KnownMoves, OnMove
<1>0. clerk[u].at = "expanding" /\ mv[m] \in Move /\ outdated' = outdated /\ outdated' \subseteq Moves
  BY DEF CommitLines, PostingsTypeOK
<1>1. mv' = [mv EXCEPT ![m].gl = @ + 1] /\ Step(u, "post")
  BY DEF CommitLines
<1> DEFINE new == [mv[m] EXCEPT !.gl = @ + 1]
<1>2. /\ new \in Move /\ mv' = [mv EXCEPT ![m] = new]
      /\ new.kind = mv[m].kind /\ new.year = mv[m].year /\ new.state = mv[m].state /\ new.gl = mv[m].gl + 1
  BY <1>0, <1>1 DEF Move
<1>3. UNCHANGED <<fy, zeroed, lock, stray>> /\ raced' = raced
  BY DEF CommitLines, books
<1> HIDE DEF new
<1>4. ClerkKinds'
  BY <1>0, <1>1, <1>2, <1>3, WriteKinds DEF ClerkSteps, OnMove
<1>5. CloseInv'
  BY <1>0, <1>1, <1>2, <1>3, WriteClose DEF ClerkSteps, Summing
<1>6. ASSUME m \notin raced, mv'[m].kind = "invoice" PROVE PostingLines(m)'
  <2>1. /\ \A v \in Clerks \ {u} : clerk'[v] = clerk[v]
        /\ clerk'[u].at = "post"
    BY <1>1, StepMeans DEF PostingsTypeOK, ClerkSteps
  <2>2. mv'[m] = new /\ mv[m].kind = "invoice"
    BY <1>2, <1>6
  <2>3. PostingLines(m)
    BY <1>6 DEF PostingLinesInv
  <2>4. mv[m].gl = 0 /\ \A v \in Clerks \ {u} : ~Expanding(v, m)
    BY <1>0, <2>2, <2>3 DEF PostingLines, Expanding
  <2>5. mv[m].state # "posted"
    BY <2>2, <2>3, <2>4 DEF PostingLines
  <2> QED
    BY <1>2, <2>1, <2>2, <2>4, <2>5 DEF PostingLines, Expanding
<1>7. m \notin raced => PostingLines(m)'
  BY <1>6 DEF PostingLines
<1>8. PostingLinesInv'
  BY <1>0, <1>1, <1>2, <1>3, <1>7, WriteLines DEF ClerkSteps
<1> QED
  BY <1>4, <1>5, <1>8

LEMMA YearStep ==
    ASSUME PostingsInv, NEW u \in Clerks, ReadFiscalYear(u)
    PROVE  PostingsInv'
<1> USE DEF PostingsInv, ClerkKinds
<1> PICK m \in DOMAIN mv : m = clerk[u].move
  BY DEF ReadFiscalYear, KnownMoves, OnMove
<1>1. clerk[u].at = "year" /\ UNCHANGED <<still, lock, stray>>
  BY DEF ReadFiscalYear, still, books
<1>2. CASE mv[m].year = 1 /\ fy = "closed"
  <2>1. Step(u, "idle")
    BY <1>2 DEF ReadFiscalYear, Step
  <2> QED
    BY <1>1, <2>1, ClerkQuiet DEF ClerkSteps, OnMove, PostingsTypeOK, still
<1>3. CASE ~(mv[m].year = 1 /\ fy = "closed")
  <2>1. clerk' = [clerk EXCEPT ![u] = [clerk[u] EXCEPT !.at = "commit", !.open = (fy = "open")]]
    BY <1>3 DEF ReadFiscalYear
  <2>2. clerk \in [Clerks -> Clerk] /\ clerk[u] \in Clerk
    BY DEF PostingsTypeOK
  <2> DEFINE new == [clerk[u] EXCEPT !.at = "commit", !.open = (fy = "open")]
  <2>3. new \in Clerk /\ new.at = "commit" /\ new.move = clerk[u].move /\ (new.open <=> fy = "open")
    BY <2>2 DEF Clerk
  <2> HIDE DEF new
  <2>4. /\ clerk' \in [Clerks -> Clerk]
        /\ \A v \in Clerks \ {u} : clerk'[v] = clerk[v]
        /\ clerk'[u] = new
    BY <2>1, <2>2, <2>3 DEF new
  <2>5. PostingsTypeOK'
    BY <1>1, <2>4 DEF PostingsTypeOK, still
  <2>6. MovesListed' /\ KnownMoves'
    BY <1>1, <2>3, <2>4 DEF MovesListed, KnownMoves, OnMove, still
  <2>7. ~new.open => mv[m].year # 1
    BY <1>3, <2>3 DEF PostingsTypeOK
  <2>8. LateYear'
    BY <1>1, <2>3, <2>4, <2>7 DEF LateYear, still
  <2>9. CloseInv'
    BY <1>1, <2>3, <2>4, CloseStays DEF Summing, InYear, still
  <2>10. PostingLinesInv'
    BY <1>1, <2>3, <2>4, LinesStay DEF still
  <2> QED
    BY <2>5, <2>6, <2>8, <2>9, <2>10
<1> QED
  BY <1>2, <1>3

LEMMA PostStep ==
    ASSUME PostingsInv, NEW u \in Clerks, post_move(u)
    PROVE  PostingsInv'
<1> USE DEF PostingsInv, ClerkKinds
<1> PICK m \in DOMAIN mv : m = clerk[u].move
  BY DEF post_move, KnownMoves, OnMove
<1>0. clerk[u].at = "commit" /\ mv[m] \in Move /\ m \in Moves /\ UNCHANGED <<fy, zeroed, lock, stray>> /\ raced' = raced
  BY DEF post_move, PostingsTypeOK, books
<1>1. CASE mv[m].gl = 0
  BY <1>0, <1>1, ClerkQuiet DEF post_move, still, ClerkSteps, OnMove, PostingsTypeOK
<1>2. CASE mv[m].gl # 0
  <2> DEFINE new == [mv[m] EXCEPT !.state = "posted"]
             p == IF clerk[u].orig = 0 THEN "idle" ELSE "link"
  <2>1. /\ new \in Move /\ mv' = [mv EXCEPT ![m] = new]
        /\ new.kind = mv[m].kind /\ new.year = mv[m].year /\ new.state = "posted" /\ new.gl = mv[m].gl
    BY <1>0, <1>2 DEF Move, post_move
  <2>2. Step(u, p) /\ p \in {"idle", "link"}
    BY <1>2 DEF post_move
  <2>3. outdated' = outdated \cup (IF Closing /\ clerk[u].open THEN {m} ELSE {})
    BY <1>2 DEF post_move
  <2> HIDE DEF new, p
  <2>4. outdated' \subseteq Moves /\ outdated \subseteq outdated'
    BY <1>0, <2>3 DEF PostingsTypeOK
  <2>5. m \in outdated' \/ new.year # 1 \/ ~(fy = "closed" \/ \E v \in Clerks : clerk[v].at \in Summing)
    BY <1>0, <2>1, <2>3 DEF LateYear, Closing, Summing
  <2>6. ClerkKinds'
    BY <1>0, <2>1, <2>2, <2>4, WriteKinds DEF ClerkSteps, OnMove
  <2>7. CloseInv'
    BY <1>0, <2>1, <2>2, <2>4, <2>5, WriteClose DEF ClerkSteps, Summing
  <2>8. ASSUME m \notin raced PROVE PostingLines(m)'
    <3>1. PostingLines(m)
      BY <2>8 DEF PostingLinesInv
    <3>2. /\ \A v \in Clerks \ {u} : clerk'[v] = clerk[v]
          /\ clerk'[u].at = p
      BY <2>2, StepMeans DEF PostingsTypeOK, ClerkSteps
    <3>3. mv'[m] = new
      BY <2>1
    <3> QED
      BY <1>2, <2>1, <2>2, <3>1, <3>2, <3>3 DEF PostingLines, Expanding
  <2>9. PostingLinesInv'
    BY <1>0, <2>1, <2>2, <2>8, WriteLines DEF ClerkSteps
  <2> QED
    BY <2>6, <2>7, <2>9
<1> QED
  BY <1>1, <1>2

LEMMA UnpostKeeps ==
    ASSUME PostingsInv, NEW u \in Clerks, unpost_move(u)
    PROVE  PostingsInv'
<1> USE DEF PostingsInv, ClerkKinds
<1> PICK m \in DOMAIN mv : m = clerk[u].move
  BY DEF unpost_move, KnownMoves, OnMove
<1>0. clerk[u].at = "unpost" /\ mv[m] \in Move /\ m \in Moves /\ UNCHANGED <<fy, zeroed, lock, stray>> /\ raced' = raced
  BY DEF unpost_move, PostingsTypeOK, books
<1> DEFINE new == [mv[m] EXCEPT !.state = "draft"]
<1>1. /\ new \in Move /\ mv' = [mv EXCEPT ![m] = new]
      /\ new.kind = mv[m].kind /\ new.year = mv[m].year /\ new.state = "draft" /\ new.gl = mv[m].gl
  <2>1. mv[m].state \in {"draft", "posted"} /\ new \in Move
    BY <1>0 DEF Move
  <2>2. CASE mv[m].state = "posted"
    BY <1>0, <2>1, <2>2 DEF unpost_move, Move
  <2>3. CASE mv[m].state = "draft"
    <3>1. mv' = mv /\ new = mv[m]
      BY <1>0, <2>3 DEF unpost_move, Move
    <3>2. mv = [x \in DOMAIN mv |-> mv[x]]
      BY DEF PostingsTypeOK
    <3> QED
      BY <2>1, <2>3, <3>1, <3>2
  <2> QED
    BY <2>1, <2>2, <2>3
<1>2. Step(u, "idle") /\ outdated' = outdated \cup (IF Closing THEN {m} ELSE {})
  BY DEF unpost_move
<1> HIDE DEF new
<1>3. outdated' \subseteq Moves /\ outdated \subseteq outdated'
  BY <1>0, <1>2 DEF PostingsTypeOK
<1>4. m \in outdated' \/ ~(fy = "closed" \/ \E v \in Clerks : clerk[v].at \in Summing)
  BY <1>2 DEF Closing, Summing
<1>5. ClerkKinds'
  BY <1>0, <1>1, <1>2, <1>3, WriteKinds DEF ClerkSteps, OnMove
<1>6. CloseInv'
  BY <1>0, <1>1, <1>2, <1>3, <1>4, WriteClose DEF ClerkSteps, Summing
<1>7. ASSUME m \notin raced PROVE PostingLines(m)'
  <2>1. PostingLines(m)
    BY <1>7 DEF PostingLinesInv
  <2>2. /\ \A v \in Clerks \ {u} : clerk'[v] = clerk[v]
        /\ clerk'[u].at = "idle"
    BY <1>2, StepMeans DEF PostingsTypeOK, ClerkSteps
  <2> QED
    BY <1>1, <2>1, <2>2 DEF PostingLines, Expanding
<1>8. PostingLinesInv'
  BY <1>0, <1>1, <1>2, <1>7, WriteLines DEF ClerkSteps
<1> QED
  BY <1>5, <1>6, <1>8

LEMMA CounterStep ==
    ASSUME PostingsInv, NEW u \in Clerks, CreateCounter(u)
    PROVE  PostingsInv'
<1> USE DEF PostingsInv, ClerkKinds
<1>1. PICK year \in {1, 2} : mv' = Drafted("entry", year)
  BY DEF CreateCounter
<1> DEFINE new == [clerk[u] EXCEPT !.at = "post", !.orig = clerk[u].move, !.move = Cardinality(DOMAIN mv) + 1]
<1>2. /\ Room /\ clerk' = [clerk EXCEPT ![u] = new]
      /\ UNCHANGED <<fy, zeroed, raced, outdated, lock, stray>>
  BY DEF CreateCounter, books
<1>3. Cardinality(DOMAIN mv) + 1 \in 0..MaxMoves
  BY <1>2, DraftedMeans, PostingsAssumption DEF PostingsTypeOK, Moves
<1>4. clerk[u] \in Clerk /\ clerk \in [Clerks -> Clerk]
  BY DEF PostingsTypeOK
<1>5. new \in Clerk /\ new.at = "post" /\ new.move = Cardinality(DOMAIN mv) + 1
  BY <1>3, <1>4 DEF Clerk
<1> HIDE DEF new
<1>6. /\ clerk' \in [Clerks -> Clerk]
      /\ \A v \in Clerks : clerk'[v] = clerk[v] \/ (clerk'[v].at = "post" /\ clerk'[v].move = Cardinality(DOMAIN mv) + 1)
  BY <1>2, <1>4, <1>5
<1> QED
  BY <1>1, <1>2, <1>6, DraftStep

LEMMA LinkKeeps ==
    ASSUME PostingsInv, NEW u \in Clerks, LinkReversal(u)
    PROVE  PostingsInv'
<1> USE DEF PostingsInv, ClerkKinds
<1>1. /\ \A v \in Clerks \ {u} : clerk'[v] = clerk[v]
      /\ clerk'[u].at = "idle" /\ clerk' \in [Clerks -> Clerk]
  BY StepMeans DEF PostingsTypeOK, ClerkSteps, LinkReversal
<1>2. UNCHANGED <<fy, zeroed, lock, stray, raced, outdated>>
  BY DEF LinkReversal, books
<1>3. /\ DOMAIN mv' = DOMAIN mv /\ mv' \in [DOMAIN mv -> Move]
      /\ \A m \in DOMAIN mv : mv'[m].kind = mv[m].kind /\ mv'[m].gl = mv[m].gl /\ mv'[m].state = mv[m].state
                              /\ mv'[m].year = mv[m].year
  BY ZenonT(90) DEF LinkReversal, PostingsTypeOK, Move
<1>4. PostingsTypeOK'
  BY <1>1, <1>2, <1>3 DEF PostingsTypeOK
<1>5. MovesListed' /\ KnownMoves' /\ LateYear'
  BY <1>1, <1>3 DEF MovesListed, KnownMoves, LateYear, OnMove
<1>6. \A m \in Moves \ outdated' : InYear(m)' = InYear(m)
  BY <1>3 DEF InYear
<1>7. CloseInv'
  BY <1>1, <1>2, <1>6, CloseStays DEF Summing
<1>8. PostingLinesInv'
  BY <1>1, <1>2, <1>3, LinesStay
<1> QED
  BY <1>4, <1>5, <1>7, <1>8

LEMMA InYearInt == \A m : InYear(m) \in {0, 1}
BY DEF InYear

\* What a close reads is what is posted and not taken out yet; a close that
\* reads while another one is under way outdates every move.
LEMMA BalancesStep ==
    ASSUME PostingsInv, NEW u \in Clerks, ReadBalances(u)
    PROVE  PostingsInv'
<1> USE DEF PostingsInv, ClerkKinds
<1> DEFINE delta == [m \in Moves |-> InYear(m) - zeroed[m]]
           p == IF delta = Zero THEN "mark" ELSE "closing"
           new == [clerk[u] EXCEPT !.at = p, !.delta = delta]
<1>1. clerk' = [clerk EXCEPT ![u] = new] /\ UNCHANGED <<fy, zeroed, lock, stray, raced, mv>>
  BY DEF ReadBalances, books
<1>2. outdated' = outdated \cup (IF \E v \in Clerks \ {u} : clerk[v].at \in Summing THEN Moves ELSE {})
  BY DEF ReadBalances, Summing
<1>3. delta \in [Moves -> Int]
  BY InYearInt DEF PostingsTypeOK
<1>5. \A m \in Moves : delta[m] = InYear(m) - zeroed[m]
  OBVIOUS
<1>4. ASSUME delta = Zero, NEW m \in Moves PROVE zeroed[m] = InYear(m)
  <2>1. delta[m] = 0
    BY <1>4 DEF Zero
  <2>2. InYear(m) \in Int /\ zeroed[m] \in Int
    BY InYearInt DEF PostingsTypeOK
  <2> HIDE DEF delta
  <2> QED
    BY <1>5, <2>1, <2>2
<1>6. clerk[u] \in Clerk /\ clerk \in [Clerks -> Clerk]
  BY DEF PostingsTypeOK
<1> HIDE DEF delta
<1>7. new \in Clerk /\ new.at = p /\ new.delta = delta /\ p \in {"mark", "closing"} /\ (p = "mark" => delta = Zero)
  BY <1>3, <1>6 DEF Clerk
<1> HIDE DEF new, p
<1>8. /\ clerk' \in [Clerks -> Clerk]
      /\ \A v \in Clerks \ {u} : clerk'[v] = clerk[v]
      /\ clerk'[u] = new
  BY <1>1, <1>6, <1>7
<1>9. PostingsTypeOK'
  BY <1>1, <1>2, <1>8 DEF PostingsTypeOK
<1>10. MovesListed' /\ KnownMoves' /\ LateYear'
  BY <1>1, <1>7, <1>8 DEF MovesListed, KnownMoves, LateYear, OnMove
<1>11. OneCloses'
  BY <1>2, <1>7, <1>8 DEF CloseInv, OneCloses
<1>12. DeltaRight'
  BY <1>1, <1>2, <1>5, <1>7, <1>8 DEF CloseInv, DeltaRight, InYear
<1>13. MarkRight'
  BY <1>1, <1>2, <1>4, <1>7, <1>8 DEF CloseInv, MarkRight, InYear
<1>14. ClosedYearIsCovered'
  BY <1>1, <1>2 DEF CloseInv, ClosedYearIsCovered, InYear
<1>15. PostingLinesInv'
  BY <1>1, <1>7, <1>8, LinesStay
<1> QED
  BY <1>9, <1>10, <1>11, <1>12, <1>13, <1>14, <1>15 DEF CloseInv

\* The closing entry takes out what was read: the year is covered.
LEMMA ClosingStep ==
    ASSUME PostingsInv, NEW u \in Clerks, PostClosingEntry(u)
    PROVE  PostingsInv'
<1> USE DEF PostingsInv, ClerkKinds
<1>1. clerk[u].at = "closing" /\ UNCHANGED <<mv, lock, fy, raced, outdated>>
  BY DEF PostClosingEntry
<1>2. CASE lock < 1 /\ fy = "open"
  <2>1. zeroed' = [m \in Moves |-> zeroed[m] + clerk[u].delta[m]] /\ Step(u, "mark") /\ stray' = stray
    BY <1>2 DEF PostClosingEntry
  <2>2. /\ clerk' \in [Clerks -> Clerk]
        /\ \A v \in Clerks \ {u} : clerk'[v] = clerk[v]
        /\ clerk'[u].at = "mark"
    BY <2>1, StepMeans DEF PostingsTypeOK, ClerkSteps
  <2>3. clerk[u].delta \in [Moves -> Int] /\ zeroed \in [Moves -> Int]
    BY DEF PostingsTypeOK, Clerk
  <2>4. PostingsTypeOK'
    BY <1>1, <2>1, <2>2, <2>3 DEF PostingsTypeOK
  <2>5. MovesListed' /\ KnownMoves' /\ LateYear'
    BY <1>1, <2>2 DEF MovesListed, KnownMoves, LateYear, OnMove
  <2>6. OneCloses'
    BY <1>1, <2>2 DEF CloseInv, OneCloses, Summing
  <2>7. \A m \in Moves \ outdated : zeroed'[m] = InYear(m)
    BY <1>1, <2>1, <2>3, InYearInt DEF CloseInv, DeltaRight
  <2>8. \A v \in Clerks \ {u} : clerk[v].at \in Summing => Moves \subseteq outdated
    BY <1>1 DEF CloseInv, OneCloses, Summing
  <2>9. DeltaRight'
    BY <1>1, <2>2, <2>8 DEF DeltaRight, Summing
  <2>10. MarkRight'
    BY <1>1, <2>2, <2>7, <2>8 DEF MarkRight, Summing, InYear
  <2>11. ClosedYearIsCovered'
    BY <1>1, <1>2 DEF ClosedYearIsCovered
  <2>12. PostingLinesInv'
    BY <1>1, <2>2, LinesStay
  <2> QED
    BY <2>4, <2>5, <2>6, <2>9, <2>10, <2>11, <2>12 DEF CloseInv
<1>3. CASE ~(lock < 1 /\ fy = "open")
  BY <1>1, <1>3, ClerkQuiet DEF PostClosingEntry, still, ClerkSteps, OnMove, PostingsTypeOK
<1> QED
  BY <1>2, <1>3

\* The year is marked closed, or open again: what is known of it stays.
LEMMA MarkStep ==
    ASSUME PostingsInv, NEW u \in Clerks, MarkClosed(u) \/ MarkOpen(u)
    PROVE  PostingsInv'
<1> USE DEF PostingsInv, ClerkKinds
<1>1. PICK p \in {"lockup", "idle"} : Step(u, p)
  BY DEF MarkClosed, MarkOpen
<1>2. UNCHANGED <<mv, lock, zeroed, stray, raced, outdated>>
  BY DEF MarkClosed, MarkOpen
<1>3. fy' = "open" \/ (fy' = "closed" /\ clerk[u].at = "mark")
  BY DEF MarkClosed, MarkOpen
<1>4. /\ clerk' \in [Clerks -> Clerk]
      /\ \A v \in Clerks \ {u} : clerk'[v] = clerk[v]
      /\ clerk'[u].at = p
  BY <1>1, StepMeans DEF PostingsTypeOK, ClerkSteps
<1>5. PostingsTypeOK'
  BY <1>2, <1>3, <1>4 DEF PostingsTypeOK
<1>6. MovesListed' /\ KnownMoves' /\ LateYear'
  BY <1>2, <1>4 DEF MovesListed, KnownMoves, LateYear, OnMove
<1>7. OneCloses' /\ DeltaRight' /\ MarkRight'
  BY <1>2, <1>4 DEF CloseInv, OneCloses, DeltaRight, MarkRight, Summing, InYear
<1>8. ClosedYearIsCovered'
  BY <1>2, <1>3 DEF CloseInv, MarkRight, ClosedYearIsCovered, InYear
<1>9. PostingLinesInv'
  BY <1>2, <1>4, LinesStay
<1> QED
  BY <1>5, <1>6, <1>7, <1>8, <1>9 DEF CloseInv

\* The steps that only move the request on.
LEMMA ClerkMovesOn ==
    ASSUME PostingsInv, NEW u \in Clerks,
           \/ ExpandLines(u) \/ LockMove(u) \/ ReadLockDate(u) \/ CountDrafts(u) \/ AdvanceLock(u) \/ Drop(u)
    PROVE  PostingsInv'
<1> USE DEF PostingsInv, ClerkKinds, still, books, ClerkSteps, OnMove
<1>1. lock \in 0..1 /\ stray \in BOOLEAN
  BY DEF PostingsTypeOK
<1>2. CASE ExpandLines(u)
  BY <1>1, <1>2, ClerkQuiet DEF ExpandLines
<1>3. CASE LockMove(u)
  BY <1>1, <1>3, ClerkQuiet DEF LockMove
<1>4. CASE ReadLockDate(u)
  BY <1>1, <1>4, ClerkQuiet DEF ReadLockDate
<1>5. CASE CountDrafts(u)
  BY <1>1, <1>5, ClerkQuiet DEF CountDrafts
<1>6. CASE AdvanceLock(u)
  BY <1>1, <1>6, ClerkQuiet DEF AdvanceLock
<1>7. CASE Drop(u)
  BY <1>1, <1>7, ClerkQuiet DEF Drop
<1> QED
  BY <1>2, <1>3, <1>4, <1>5, <1>6, <1>7

LEMMA StartRequest ==
    ASSUME PostingsInv, NEW u \in Clerks,
           \/ \E m \in DOMAIN mv : reset_to_draft(u, m) \/ reverse_move(u, m)
           \/ close_fiscal_year(u) \/ reopen_fiscal_year(u)
    PROVE  PostingsInv'
<1> USE DEF still, books
<1>1. CASE \E m \in DOMAIN mv : reset_to_draft(u, m)
  BY <1>1, QuietStart DEF reset_to_draft
<1>2. CASE \E m \in DOMAIN mv : reverse_move(u, m)
  BY <1>2, QuietStart DEF reverse_move
<1>3. CASE close_fiscal_year(u)
  BY <1>3, QuietStart DEF close_fiscal_year
<1>4. CASE reopen_fiscal_year(u)
  BY <1>4, QuietStart DEF reopen_fiscal_year
<1> QED
  BY <1>1, <1>2, <1>3, <1>4

LEMMA NextInv ==
    ASSUME PostingsInv, [PostingsNext]_postingsVars
    PROVE  PostingsInv'
<1>1. CASE create_draft
  BY <1>1, DraftStep DEF create_draft, books, PostingsInv, ClerkKinds, PostingsTypeOK
<1>2. CASE SetLockDate
  BY <1>2, SameStep DEF SetLockDate, still, PostingsInv, ClerkKinds, PostingsTypeOK
<1>3. CASE UNCHANGED postingsVars
  BY <1>3, SameStep DEF postingsVars, still, PostingsInv, ClerkKinds, PostingsTypeOK
<1>4. ASSUME NEW u \in Clerks, NEW m \in DOMAIN mv, post_request(u, m) PROVE PostingsInv'
  BY <1>4, RequestStep
<1>5. ASSUME NEW u \in Clerks,
             \/ WipeLines(u) \/ CommitLines(u) \/ ReadFiscalYear(u) \/ post_move(u) \/ unpost_move(u)
             \/ CreateCounter(u) \/ LinkReversal(u) \/ ReadBalances(u) \/ PostClosingEntry(u)
             \/ MarkClosed(u) \/ MarkOpen(u)
      PROVE  PostingsInv'
  BY <1>5, WipeStep, CommitStep, YearStep, PostStep, UnpostKeeps, CounterStep, LinkKeeps, BalancesStep,
     ClosingStep, MarkStep
<1> QED
  BY <1>1, <1>2, <1>3, <1>4, <1>5, ClerkMovesOn, StartRequest DEF PostingsNext

LEMMA PostingInitInv == PostingsInit => PostingsInv
<1> SUFFICES ASSUME PostingsInit PROVE PostingsInv
  OBVIOUS
<1> USE DEF PostingsInit
<1>0. mv = [m \in {} |-> 0]
  OBVIOUS
<1>1. DOMAIN mv = {} /\ mv \in [DOMAIN mv -> Move]
  <2>1. DOMAIN mv = {}
    BY <1>0
  <2>2. mv \in [{} -> Move]
    BY <1>0
  <2> QED
    BY <2>1, <2>2
<1>2. \A u \in Clerks : clerk[u] = Rest /\ clerk[u].at = "idle"
  BY DEF Rest
<1>3. PostingsTypeOK
  <2>1. zeroed \in [Moves -> Int] /\ clerk \in [Clerks -> Clerk]
    BY RestTypes DEF Zero
  <2>2. DOMAIN mv \subseteq Moves /\ mv \in [DOMAIN mv -> Move]
    BY <1>1
  <2>3. lock \in 0..1
    <3>1. lock = 0
      OBVIOUS
    <3> QED
      BY <3>1
  <2>4. fy \in {"open", "closed"} /\ stray \in BOOLEAN /\ raced \subseteq Moves /\ outdated \subseteq Moves
    OBVIOUS
  <2> QED
    BY <2>1, <2>2, <2>3, <2>4 DEF PostingsTypeOK
<1>4. MovesListed /\ KnownMoves /\ LateYear
  BY <1>1, <1>2 DEF MovesListed, KnownMoves, LateYear, OnMove
<1>5. CloseInv
  BY <1>2 DEF CloseInv, OneCloses, DeltaRight, MarkRight, ClosedYearIsCovered, Summing
<1>6. PostingLinesInv
  BY <1>1 DEF PostingLinesInv
<1> QED
  BY <1>3, <1>4, <1>5, <1>6 DEF PostingsInv, ClerkKinds

LEMMA SpecInv == PostingsSpec => []PostingsInv
BY PostingInitInv, NextInv, PTL DEF PostingsSpec

-----------------------------------------------------------------------------
(* The theorems *)

\* The closing entries of a closed year take out exactly what is posted in
\* it, but for moves handled by a request that looked at the year too early.
THEOREM ClosedBooksBalance == PostingsSpec => []ClosedYearIsCovered
<1>1. PostingsInv => ClosedYearIsCovered
  BY PostingsMeans
<1> QED
  BY <1>1, SpecInv, PTL

\* A posted invoice has its ledger lines once, unless two requests expanded
\* them at the same time.
THEOREM InvoiceLinesOnce == PostingsSpec => []LedgerLinesOnce
<1>1. PostingsInv => LedgerLinesOnce
  BY PostingsMeans
<1> QED
  BY <1>1, SpecInv, PTL

\* Every move, request and closing entry keeps its type.
THEOREM PostingTypes == PostingsSpec => []PostingsTypeOK
<1>1. PostingsInv => PostingsTypeOK
  BY PostingsMeans
<1> QED
  BY <1>1, SpecInv, PTL

-----------------------------------------------------------------------------
(***************************************************************************)
(* What is posted for a record is what the record says, for any number of  *)
(* runs and months. While one run works on a record, and no other does,    *)
(* everything it has read is still so; the only entry the record does not  *)
(* know of yet is the one that run has just posted.                        *)
(***************************************************************************)

AssetSteps == {"schedule", "run", "post", "flag", "full", "dispose", "disposed", "drop"}
ChequeSteps == {"clear", "cleared", "bounce", "bounced"}
RunSteps == {"idle"} \cup AssetSteps \cup ChequeSteps \cup {"select", "occur", "advance"} \cup {"counter", "match"}
Dated == {"occur", "advance", "flag"}
RecordOf(step) ==
    IF step = "idle" THEN "none"
    ELSE IF step \in AssetSteps THEN "asset"
    ELSE IF step \in ChequeSteps THEN "cheque"
    ELSE IF step \in {"select", "occur", "advance"} THEN "recurring" ELSE "line"

PostedRows == [depreciation: [Months -> Nat], disposal: Nat, derecognised: Nat,
            cleared: Nat, bounced: Nat, occurrence: [Months -> Nat], counterpart: Nat]
Position == [at: RunSteps, on: Records \cup {"none"}, todo: SUBSET Months, n: Nat]

\* Each step is a step of one kind of record; an entry is for a month.
Fits(v) == v.on = RecordOf(v.at) /\ (v.at \in Dated => v.n \in Months)

PeriodTypes ==
    /\ today \in 1..Life /\ closedTo \in 0..Life
    /\ asset \in Asset /\ cheque \in {"holding", "cleared", "bounced"}
    /\ matched \in {"no", "existing", "counterpart"}
    /\ recurring \in 1..(Life + 1) /\ auto_post \in BOOLEAN
    /\ posted \in PostedRows
    /\ runner \in [Runners -> Position]
    /\ \A u \in Runners : Fits(runner[u])

\* At most one run is on the record.
Sole(record) == \A u, v \in Runners : runner[u].on = record /\ runner[v].on = record => u = v
OnStep(step) == \E u \in Runners : runner[u].at = step

PostedMonths == {k \in Months : asset.plan[k] = "posted"}
Depreciating == {"running", "fully_depreciated"}

\* What the run on the asset has read is still so.
AssetAsRead(u) ==
    LET at == runner[u].at
        todo == runner[u].todo
        n == runner[u].n
    IN /\ at \in {"schedule", "run"} => asset.state = "draft"
       /\ at = "schedule" => \A k \in Months \ todo : asset.plan[k] # "none"
       /\ at = "run" => \A k \in Months : asset.plan[k] # "none"
       /\ at \in {"post", "flag", "full", "dispose", "disposed"} => asset.state \in Depreciating
       /\ at \in {"post", "flag"} => \A k \in todo : asset.plan[k] = "planned"
       /\ at \in {"flag", "full"} => n \in todo
       /\ at = "full" => \A k \in todo \ {n} : asset.plan[k] = "planned"
       /\ at \in {"dispose", "disposed"} => n = Cardinality(PostedMonths)
       /\ at = "disposed" => posted.derecognised = n
       /\ at = "drop" => asset.state = "disposed"

Depreciated ==
    \A k \in Months :
        posted.depreciation[k] =
            IF asset.plan[k] = "posted" \/ \E u \in Runners : runner[u].at = "flag" /\ runner[u].n = k THEN 1 ELSE 0
Disposal ==
    /\ posted.disposal = (IF asset.state = "disposed" \/ OnStep("disposed") THEN 1 ELSE 0)
    /\ posted.disposal = 0 => posted.derecognised = 0
    /\ asset.state = "disposed" => posted.derecognised = Cardinality(PostedMonths)

AssetInv ==
    "asset" \notin overlaid =>
        /\ Sole("asset")
        /\ \A u \in Runners : AssetAsRead(u)
        /\ Depreciated
        /\ Disposal
        /\ asset.state = "running" => \A k \in Months : asset.plan[k] # "none"

ChequeInv ==
    "cheque" \notin overlaid =>
        /\ Sole("cheque")
        /\ \A u \in Runners : runner[u].at \in ChequeSteps => cheque = "holding"
        /\ posted.cleared = (IF cheque = "cleared" \/ OnStep("cleared") THEN 1 ELSE 0)
        /\ posted.bounced = (IF cheque = "bounced" \/ OnStep("bounced") THEN 1 ELSE 0)

RecurringInv ==
    "recurring" \notin overlaid =>
        /\ Sole("recurring")
        /\ \A u \in Runners : runner[u].at \in {"select", "occur"} => runner[u].todo = {recurring}
        /\ \A u \in Runners : runner[u].at \in {"occur", "advance"} => runner[u].n = recurring /\ recurring \in Months
        /\ \A k \in Months :
              posted.occurrence[k] = (IF k < recurring \/ (k = recurring /\ OnStep("advance")) THEN 1 ELSE 0)

LineInv ==
    "line" \notin overlaid =>
        /\ Sole("line")
        /\ \A u \in Runners : runner[u].at \in {"counter", "match"} => matched # "counterpart"
        /\ posted.counterpart = (IF matched = "counterpart" \/ OnStep("match") THEN 1 ELSE 0)

PeriodInv == PeriodTypes /\ AssetInv /\ ChequeInv /\ RecurringInv /\ LineInv

-----------------------------------------------------------------------------
(* Types *)

\* What there is to see of a run that moves.
RunMoved(u) ==
    /\ runner' \in [Runners -> Position]
    /\ \A v \in Runners \ {u} : runner'[v] = runner[v]
    /\ Fits(runner'[u])

LEMMA WaitingTypes == Waiting \in Position /\ Fits(Waiting) /\ Waiting.at = "idle"
BY DEF Waiting, Position, RunSteps, RecordOf, Fits, Dated

LEMMA RunnerMoves ==
    ASSUME PeriodTypes, NEW u \in Runners, NEW v \in Position, Fits(v),
           runner' = [runner EXCEPT ![u] = v]
    PROVE  RunMoved(u) /\ runner'[u] = v
BY DEF PeriodTypes, RunMoved

\* A request begins.
LEMMA LaunchMoves ==
    ASSUME PeriodTypes, NEW u \in Runners, NEW step, step \in RunSteps \ ({"idle"} \cup Dated), NEW todo \in SUBSET Months, NEW n \in Nat,
           NEW R, R = RecordOf(step), Launch(u, R, step, todo, n)
    PROVE  /\ RunMoved(u) /\ runner[u].at = "idle" /\ runner'[u].at = step /\ runner'[u].todo = todo /\ runner'[u].n = n
           /\ runner'[u].on = R /\ overlaid \subseteq overlaid'
           /\ (\E v \in Runners \ {u} : runner[v].on = R) => R \in overlaid'
<1> PICK v : v = [at |-> step, on |-> RecordOf(step), todo |-> todo, n |-> n]
  OBVIOUS
<1>1. v \in Position /\ Fits(v) /\ v.at = step /\ v.todo = todo /\ v.n = n /\ v.on = RecordOf(step)
  <2>1. RecordOf(step) \in Records \cup {"none"}
    BY DEF RecordOf, Records
  <2> QED
    BY <2>1 DEF Position, Fits, Dated
<1>2. runner' = [runner EXCEPT ![u] = v] /\ runner[u].at = "idle"
  BY DEF Launch
<1>3. RunMoved(u) /\ runner'[u] = v
  BY <1>1, <1>2, RunnerMoves
<1> QED
  BY <1>1, <1>2, <1>3 DEF Launch

\* It goes on to its next step, or ends.
LEMMA StepMoves ==
    ASSUME PeriodTypes, NEW u \in Runners, NEW step \in RunSteps \ Dated, ToRunner(u, step),
           step # "idle" => RecordOf(step) = RecordOf(runner[u].at)
    PROVE  /\ RunMoved(u) /\ runner'[u].at = step
           /\ step = "idle" => runner'[u] = Waiting
           /\ step # "idle" => runner'[u].todo = runner[u].todo /\ runner'[u].n = runner[u].n
<1>1. runner[u] \in Position /\ runner[u].on = RecordOf(runner[u].at)
  BY DEF PeriodTypes, Fits, Dated
<1>2. CASE step = "idle"
  <2>1. runner' = [runner EXCEPT ![u] = Waiting]
    BY <1>2 DEF ToRunner
  <2> QED
    BY <1>2, <2>1, WaitingTypes, RunnerMoves
<1>3. CASE step # "idle"
  <2> PICK v : v = [runner[u] EXCEPT !.at = step]
    OBVIOUS
  <2>1. v \in Position /\ Fits(v) /\ v.at = step /\ v.todo = runner[u].todo /\ v.n = runner[u].n
    BY <1>1, <1>3 DEF Position, Fits, Dated
  <2>2. runner' = [runner EXCEPT ![u] = v]
    BY <1>3 DEF ToRunner
  <2> QED
    BY <1>3, <2>1, <2>2, RunnerMoves
<1> QED
  BY <1>2, <1>3

-----------------------------------------------------------------------------
(* What a step of one record leaves alone *)

Away(record) ==
    /\ overlaid \subseteq overlaid'
    /\ \A v \in Runners : runner'[v] = runner[v] \/ (runner[v].on # record /\ runner'[v].on # record)

AssetEntries == <<posted.depreciation, posted.disposal, posted.derecognised>>
ChequeEntries == <<posted.cleared, posted.bounced>>

LEMMA OnRecord ==
    ASSUME PeriodTypes, NEW u \in Runners
    PROVE  /\ runner[u].on = RecordOf(runner[u].at)
           /\ runner[u].on # "asset" => runner[u].at \notin AssetSteps
           /\ runner[u].on # "cheque" => runner[u].at \notin ChequeSteps
           /\ runner[u].on # "recurring" => runner[u].at \notin {"select", "occur", "advance"}
           /\ runner[u].on # "line" => runner[u].at \notin {"counter", "match"}
           /\ runner[u].on = "none" <=> runner[u].at = "idle"
BY DEF PeriodTypes, RecordOf, Position, RunSteps, AssetSteps, ChequeSteps, Fits, Dated

LEMMA AssetFrame ==
    ASSUME PeriodTypes, PeriodTypes', AssetInv, Away("asset"), UNCHANGED <<asset, AssetEntries>>
    PROVE  AssetInv'
<1> SUFFICES ASSUME "asset" \notin overlaid'
             PROVE  /\ Sole("asset")' /\ (\A u \in Runners : AssetAsRead(u))' /\ Depreciated' /\ Disposal'
                    /\ asset'.state = "running" => \A k \in Months : asset'.plan[k] # "none"
  BY DEF AssetInv
<1>1. /\ Sole("asset") /\ (\A u \in Runners : AssetAsRead(u)) /\ Depreciated /\ Disposal
      /\ asset.state = "running" => \A k \in Months : asset.plan[k] # "none"
  BY DEF AssetInv, Away
<1>2. \A v \in Runners : \/ runner'[v] = runner[v]
                         \/ runner[v].at \notin AssetSteps /\ runner'[v].at \notin AssetSteps
  BY OnRecord DEF Away, PeriodTypes, RecordOf, Position, RunSteps, AssetSteps, ChequeSteps, Fits, Dated
<1>3. /\ posted'.depreciation = posted.depreciation /\ posted'.disposal = posted.disposal
      /\ posted'.derecognised = posted.derecognised /\ PostedMonths' = PostedMonths /\ asset' = asset
  BY DEF AssetEntries, PostedMonths
<1>4. Sole("asset")'
  BY <1>1 DEF Sole, Away
<1>5. (\A u \in Runners : AssetAsRead(u))'
  BY <1>1, <1>2, <1>3 DEF AssetAsRead, AssetSteps
<1>6. Depreciated'
  BY <1>1, <1>2, <1>3 DEF Depreciated, AssetSteps
<1>7. Disposal'
  BY <1>1, <1>2, <1>3 DEF Disposal, OnStep, AssetSteps
<1> QED
  BY <1>1, <1>3, <1>4, <1>5, <1>6, <1>7

LEMMA ChequeFrame ==
    ASSUME PeriodTypes, PeriodTypes', ChequeInv, Away("cheque"), UNCHANGED <<cheque, ChequeEntries>>
    PROVE  ChequeInv'
<1>1. \A v \in Runners : \/ runner'[v] = runner[v]
                         \/ runner[v].at \notin ChequeSteps /\ runner'[v].at \notin ChequeSteps
  BY OnRecord DEF Away, PeriodTypes, RecordOf, Position, RunSteps, AssetSteps, ChequeSteps, Fits, Dated
<1>2. posted'.cleared = posted.cleared /\ posted'.bounced = posted.bounced
  BY DEF ChequeEntries
<1> QED
  BY <1>1, <1>2 DEF ChequeInv, Away, Sole, OnStep, ChequeSteps

LEMMA RecurringFrame ==
    ASSUME PeriodTypes, PeriodTypes', RecurringInv, Away("recurring"),
           recurring' = recurring, posted'.occurrence = posted.occurrence
    PROVE  RecurringInv'
<1>1. \A v \in Runners : \/ runner'[v] = runner[v]
                         \/ runner[v].at \notin {"select", "occur", "advance"} /\ runner'[v].at \notin {"select", "occur", "advance"}
  BY OnRecord DEF Away, PeriodTypes, RecordOf, Position, RunSteps, AssetSteps, ChequeSteps, Fits, Dated
<1> QED
  BY <1>1 DEF RecurringInv, Away, Sole, OnStep

LEMMA LineFrame ==
    ASSUME PeriodTypes, PeriodTypes', LineInv, Away("line"),
           matched' = matched, posted'.counterpart = posted.counterpart
    PROVE  LineInv'
<1>1. \A v \in Runners : \/ runner'[v] = runner[v]
                         \/ runner[v].at \notin {"counter", "match"} /\ runner'[v].at \notin {"counter", "match"}
  BY OnRecord DEF Away, PeriodTypes, RecordOf, Position, RunSteps, AssetSteps, ChequeSteps, Fits, Dated
<1> QED
  BY <1>1 DEF LineInv, Away, Sole, OnStep

\* A run that is on one record leaves the others alone.
LEMMA StaysAway ==
    ASSUME NEW u \in Runners, NEW R, RunMoved(u), overlaid \subseteq overlaid',
           runner[u].on \in {R, "none"}, runner'[u].on \in {R, "none"}
    PROVE  \A r \in Records \ {R} : Away(r)
BY DEF RunMoved, Away, Records

-----------------------------------------------------------------------------
(* Cheques, recurring entries, bank statement lines *)

LEMMA ChequeStep ==
    ASSUME PeriodTypes, ChequeInv, NEW u \in Runners, ReadCheque(u) \/ PostCheque(u) \/ FlagCheque(u)
    PROVE  /\ PeriodTypes' /\ ChequeInv' /\ \A r \in Records \ {"cheque"} : Away(r)
           /\ UNCHANGED <<asset, AssetEntries, recurring, posted.occurrence, matched, posted.counterpart>>
<1> USE DEF given, rows
<1>1. /\ runner \in [Runners -> Position] /\ posted \in PostedRows /\ runner[u] \in Position
      /\ runner[u].on = RecordOf(runner[u].at)
  BY DEF PeriodTypes, Fits, Dated
<1>2. ASSUME NEW step \in {"clear", "bounce"}, Launch(u, "cheque", step, {}, 0), cheque = "holding",
             UNCHANGED <<given, rows, posted, halts>>
      PROVE  /\ PeriodTypes' /\ ChequeInv' /\ (\A r \in Records \ {"cheque"} : Away(r)) /\ posted' = posted
  <2>1. RecordOf(step) = "cheque" /\ step \in RunSteps \ ({"idle"} \cup Dated) /\ {} \in SUBSET Months /\ 0 \in Nat
    BY DEF RecordOf, AssetSteps, ChequeSteps, RunSteps, Dated
  <2>2. /\ RunMoved(u) /\ runner[u].at = "idle" /\ runner'[u].at = step
        /\ runner'[u].on = "cheque" /\ overlaid \subseteq overlaid'
        /\ (\E v \in Runners \ {u} : runner[v].on = "cheque") => "cheque" \in overlaid'
    BY <1>2, <2>1, LaunchMoves
  <2>3. runner[u].on = "none"
    BY <1>1, <2>2 DEF RecordOf
  <2>4. PeriodTypes'
    BY <1>2, <2>2 DEF PeriodTypes, RunMoved
  <2>5. ChequeInv'
    <3> SUFFICES ASSUME "cheque" \notin overlaid' PROVE ChequeInv'
      BY DEF ChequeInv
    <3>1. \A v \in Runners \ {u} : runner[v].on # "cheque" /\ runner'[v] = runner[v]
      BY <2>2 DEF RunMoved
    <3>2. /\ \A v \in Runners \ {u} : runner[v].at \notin ChequeSteps
      BY <3>1, OnRecord
    <3> QED
      BY <1>2, <2>2, <3>1, <3>2 DEF ChequeInv, Sole, OnStep, ChequeSteps
  <2> QED
    BY <1>2, <2>2, <2>3, <2>4, <2>5, StaysAway
<1>3. CASE ReadCheque(u)
  BY <1>2, <1>3 DEF ReadCheque, AssetEntries
<1>4. CASE PostCheque(u)
  <2> PICK step : step = IF today <= closedTo THEN "idle" ELSE IF runner[u].at = "clear" THEN "cleared" ELSE "bounced"
    OBVIOUS
  <2>1. runner[u].at \in {"clear", "bounce"} /\ ToRunner(u, step) /\ UNCHANGED <<given, rows, overlaid>>
    BY <1>4 DEF PostCheque
  <2>2. RecordOf(runner[u].at) = "cheque" /\ step \in RunSteps \ Dated /\ (step # "idle" => RecordOf(step) = "cheque")
    BY <2>1 DEF RecordOf, AssetSteps, ChequeSteps, RunSteps, Dated
  <2>3. /\ RunMoved(u) /\ runner'[u].at = step /\ (step = "idle" => runner'[u] = Waiting)
        /\ runner[u].on = "cheque" /\ runner'[u].on \in {"cheque", "none"}
    BY <1>1, <2>1, <2>2, StepMoves DEF RunMoved, Fits, RecordOf, Dated
  <2>4. /\ posted' \in PostedRows
        /\ posted'.cleared = posted.cleared + (IF step = "cleared" THEN 1 ELSE 0)
        /\ posted'.bounced = posted.bounced + (IF step = "bounced" THEN 1 ELSE 0)
        /\ UNCHANGED <<AssetEntries, posted.occurrence, posted.counterpart>>
    <3>1. posted' = IF step = "idle" THEN posted ELSE IF step = "cleared"
                    THEN [posted EXCEPT !.cleared = posted.cleared + 1] ELSE [posted EXCEPT !.bounced = posted.bounced + 1]
      BY <1>4 DEF PostCheque
    <3> QED
      BY <1>1, <3>1, <2>1 DEF PostedRows, AssetEntries
  <2>5. PeriodTypes'
    BY <2>1, <2>3, <2>4 DEF PeriodTypes, RunMoved
  <2>6. ChequeInv'
    <3> SUFFICES ASSUME "cheque" \notin overlaid' PROVE ChequeInv'
      BY DEF ChequeInv
    <3>1. \A v \in Runners \ {u} : runner[v].on # "cheque" /\ runner'[v] = runner[v]
      BY <2>1, <2>3 DEF RunMoved, ChequeInv, Sole
    <3>2. \A v \in Runners \ {u} : runner[v].at \notin ChequeSteps
      BY <3>1, OnRecord
    <3>3. /\ cheque = "holding" /\ posted.cleared = 0 /\ posted.bounced = 0
      BY <2>1, <3>2 DEF ChequeInv, ChequeSteps, OnStep
    <3>4. /\ OnStep("cleared")' <=> step = "cleared"
          /\ OnStep("bounced")' <=> step = "bounced"
      BY <2>3, <3>1, <3>2 DEF OnStep, ChequeSteps
    <3> QED
      BY <2>1, <2>3, <2>4, <3>1, <3>2, <3>3, <3>4 DEF ChequeInv, Sole, ChequeSteps
  <2> QED
    BY <2>1, <2>3, <2>4, <2>5, <2>6, StaysAway
<1>5. CASE FlagCheque(u)
  <2>1. /\ runner[u].at \in {"cleared", "bounced"} /\ cheque' = runner[u].at /\ ToRunner(u, "idle")
        /\ UNCHANGED <<given, asset, recurring, matched, posted, overlaid>>
    BY <1>5 DEF FlagCheque
  <2>2. RunMoved(u) /\ runner'[u].at = "idle" /\ runner[u].on = "cheque" /\ runner'[u].on = "none"
    BY <1>1, <2>1, StepMoves DEF RunMoved, Fits, RecordOf, RunSteps, AssetSteps, ChequeSteps, Dated
  <2>3. PeriodTypes'
    BY <2>1, <2>2 DEF PeriodTypes, RunMoved
  <2>4. ChequeInv'
    <3> SUFFICES ASSUME "cheque" \notin overlaid' PROVE ChequeInv'
      BY DEF ChequeInv
    <3>1. \A v \in Runners \ {u} : runner[v].on # "cheque" /\ runner'[v] = runner[v]
      BY <2>1, <2>2 DEF RunMoved, ChequeInv, Sole
    <3>2. \A v \in Runners \ {u} : runner[v].at \notin ChequeSteps
      BY <3>1, OnRecord
    <3>3. /\ OnStep("cleared") <=> runner[u].at = "cleared"
          /\ OnStep("bounced") <=> runner[u].at = "bounced"
          /\ cheque = "holding" /\ ~OnStep("cleared")' /\ ~OnStep("bounced")'
      BY <2>1, <2>2, <3>1, <3>2 DEF OnStep, ChequeSteps, ChequeInv
    <3> QED
      BY <2>1, <2>2, <3>1, <3>2, <3>3 DEF ChequeInv, Sole, ChequeSteps
  <2> QED
    BY <2>1, <2>2, <2>3, <2>4, StaysAway DEF AssetEntries
<1> QED
  BY <1>3, <1>4, <1>5

LEMMA RecurringStep ==
    ASSUME PeriodTypes, RecurringInv, NEW u \in Runners,
           ReadNextDate(u) \/ ReadTemplate(u) \/ generate_occurrence(u) \/ AdvanceNextDate(u)
    PROVE  /\ PeriodTypes' /\ RecurringInv' /\ \A r \in Records \ {"recurring"} : Away(r)
           /\ UNCHANGED <<asset, AssetEntries, cheque, ChequeEntries, matched, posted.counterpart>>
<1> USE DEF given, rows
<1>1. /\ runner \in [Runners -> Position] /\ posted \in PostedRows /\ runner[u] \in Position
      /\ runner[u].on = RecordOf(runner[u].at) /\ recurring \in 1..(Life + 1) /\ Life \in Nat
  BY PeriodAssumption DEF PeriodTypes, Fits, Dated
<1>2. CASE ReadNextDate(u)
  <2>1. /\ Launch(u, "recurring", "select", {recurring}, 0) /\ recurring <= Life
        /\ UNCHANGED <<given, rows, posted, halts>>
    BY <1>2 DEF ReadNextDate
  <2>2. recurring \in Months
    BY <1>1, <2>1 DEF Months
  <2>3. RecordOf("select") = "recurring" /\ "select" \in RunSteps \ ({"idle"} \cup Dated) /\ {recurring} \in SUBSET Months /\ 0 \in Nat
    BY <2>2 DEF RecordOf, AssetSteps, ChequeSteps, RunSteps, Dated
  <2>4. /\ RunMoved(u) /\ runner[u].at = "idle" /\ runner'[u].at = "select" /\ runner'[u].todo = {recurring}
        /\ runner'[u].on = "recurring" /\ overlaid \subseteq overlaid'
        /\ (\E v \in Runners \ {u} : runner[v].on = "recurring") => "recurring" \in overlaid'
    BY <2>1, <2>3, LaunchMoves
  <2>5. runner[u].on = "none"
    BY <1>1, <2>4 DEF RecordOf
  <2>6. PeriodTypes'
    BY <2>1, <2>4 DEF PeriodTypes, RunMoved
  <2>7. RecurringInv'
    <3> SUFFICES ASSUME "recurring" \notin overlaid' PROVE RecurringInv'
      BY DEF RecurringInv
    <3>1. \A v \in Runners \ {u} : runner[v].on # "recurring" /\ runner'[v] = runner[v]
      BY <2>4 DEF RunMoved
    <3>2. \A v \in Runners \ {u} : runner[v].at \notin {"select", "occur", "advance"}
      BY <3>1, OnRecord
    <3> QED
      BY <2>1, <2>4, <3>1, <3>2 DEF RecurringInv, Sole, OnStep
  <2> QED
    BY <2>1, <2>4, <2>5, <2>6, <2>7, StaysAway DEF AssetEntries, ChequeEntries
<1>3. CASE ReadTemplate(u)
  <2>1. /\ runner[u].at = "select"
        /\ runner' = [runner EXCEPT ![u] = IF recurring <= Life
                          THEN [runner[u] EXCEPT !.at = "occur", !.n = recurring] ELSE Waiting]
        /\ UNCHANGED <<given, rows, posted, overlaid>>
    BY <1>3 DEF ReadTemplate
  <2>2. runner[u].on = "recurring"
    BY <1>1, <2>1 DEF RecordOf, AssetSteps, ChequeSteps
  <2> PICK v : v = IF recurring <= Life THEN [[runner[u] EXCEPT !.at = "occur"] EXCEPT !.n = recurring] ELSE Waiting
    OBVIOUS
  <2>3. v \in Position /\ Fits(v)
    <3>1. CASE recurring <= Life
      <4>1. recurring \in Months /\ recurring \in Nat /\ "occur" \in RunSteps /\ RecordOf("occur") = "recurring"
        BY <1>1, <3>1 DEF Months, RecordOf, RunSteps, AssetSteps, ChequeSteps, Dated
      <4>2. v \in Position /\ v.at = "occur" /\ v.n = recurring /\ v.on = "recurring"
        BY <1>1, <2>2, <3>1, <4>1 DEF Position
      <4> QED
        BY <4>1, <4>2 DEF Fits, Dated
    <3> QED
      BY <3>1, WaitingTypes
  <2>4. /\ v.at \in {"occur", "idle"}
        /\ v.at = "occur" => v.todo = runner[u].todo /\ v.n = recurring /\ recurring \in Months
        /\ v.on = RecordOf(v.at) /\ v.on \in {"recurring", "none"}
    <3>1. v.on = RecordOf(v.at)
      BY <2>3 DEF Fits, Dated
    <3>2. CASE recurring <= Life
      <4>1. v.at = "occur" /\ v.todo = runner[u].todo /\ v.n = recurring /\ v.on = runner[u].on
        BY <1>1, <3>2 DEF Position
      <4> QED
        BY <1>1, <2>2, <3>1, <3>2, <4>1 DEF Months
    <3>3. CASE ~(recurring <= Life)
      BY <3>1, <3>3 DEF Waiting
    <3> QED
      BY <3>2, <3>3
  <2>5. runner' = [runner EXCEPT ![u] = v]
    BY <1>1, <2>1
  <2>6. RunMoved(u) /\ runner'[u] = v
    BY <2>3, <2>5, RunnerMoves
  <2>7. PeriodTypes'
    BY <2>1, <2>6 DEF PeriodTypes, RunMoved
  <2>8. RecurringInv'
    <3> SUFFICES ASSUME "recurring" \notin overlaid PROVE RecurringInv'
      BY <2>1 DEF RecurringInv
    <3>1. \A w \in Runners \ {u} : runner[w].on # "recurring" /\ runner'[w] = runner[w]
      BY <2>2, <2>6 DEF RunMoved, RecurringInv, Sole
    <3>2. \A w \in Runners \ {u} : runner[w].at \notin {"select", "occur", "advance"}
      BY <3>1, OnRecord
    <3>3. ~OnStep("advance") /\ ~OnStep("advance")'
      BY <2>1, <2>4, <2>6, <3>1, <3>2 DEF OnStep
    <3> QED
      BY <2>1, <2>4, <2>6, <3>1, <3>2, <3>3 DEF RecurringInv, Sole
  <2> QED
    BY <2>1, <2>2, <2>4, <2>6, <2>7, <2>8, StaysAway DEF AssetEntries, ChequeEntries
<1>5. CASE generate_occurrence(u)
  <2>1. PICK date \in runner[u].todo :
           /\ runner[u].at = "occur"
           /\ IF auto_post => date > closedTo
              THEN posted' = [posted EXCEPT !.occurrence[date] = @ + 1] /\ ToRunner(u, "advance")
              ELSE UNCHANGED posted /\ ToRunner(u, "idle")
           /\ UNCHANGED <<given, rows, overlaid, runs, halts>>
    BY <1>5 DEF generate_occurrence
  <2>2. runner[u].on = "recurring" /\ date \in Months
    BY <1>1, <2>1 DEF RecordOf, AssetSteps, ChequeSteps, Position
  <2>3. CASE auto_post => date > closedTo
    <3> PICK v : v = [runner[u] EXCEPT !.at = "advance"]
      OBVIOUS
    <3>1. v \in Position /\ v.at = "advance" /\ v.n = runner[u].n /\ v.on = "recurring" /\ Fits(v)
      <4>1. runner[u].n \in Months
        BY <2>1 DEF PeriodTypes, Fits, Dated
      <4>2. "advance" \in RunSteps /\ RecordOf("advance") = "recurring"
        BY DEF RecordOf, RunSteps, AssetSteps, ChequeSteps, Dated
      <4>3. v \in Position /\ v.at = "advance" /\ v.n = runner[u].n /\ v.on = "recurring"
        BY <1>1, <2>2, <4>2 DEF Position
      <4> QED
        BY <4>1, <4>2, <4>3 DEF Fits, Dated
    <3>2. runner' = [runner EXCEPT ![u] = v]
      BY <1>1, <2>1, <2>3 DEF ToRunner
    <3>3. RunMoved(u) /\ runner'[u] = v
      BY <3>1, <3>2, RunnerMoves
    <3>4. /\ posted' \in PostedRows
          /\ posted'.occurrence = [posted.occurrence EXCEPT ![date] = posted.occurrence[date] + 1]
          /\ UNCHANGED <<AssetEntries, ChequeEntries, posted.counterpart>>
      BY <1>1, <2>1, <2>2, <2>3 DEF PostedRows, AssetEntries, ChequeEntries
    <3>5. PeriodTypes'
      BY <2>1, <3>3, <3>4 DEF PeriodTypes, RunMoved
    <3>6. RecurringInv'
      <4> SUFFICES ASSUME "recurring" \notin overlaid PROVE RecurringInv'
        BY <2>1 DEF RecurringInv
      <4>1. \A w \in Runners \ {u} : runner[w].on # "recurring" /\ runner'[w] = runner[w]
        BY <2>2, <3>3 DEF RunMoved, RecurringInv, Sole
      <4>2. \A w \in Runners \ {u} : runner[w].at \notin {"select", "occur", "advance"}
        BY <4>1, OnRecord
      <4>3. /\ date = recurring /\ ~OnStep("advance") /\ OnStep("advance")'
            /\ runner[u].n = recurring /\ recurring \in Months
        <5>1. runner[u].todo = {recurring} /\ runner[u].n = recurring /\ recurring \in Months
          BY <2>1 DEF RecurringInv
        <5>2. runner'[u].at = "advance"
          BY <3>1, <3>3
        <5> QED
          BY <2>1, <4>2, <5>1, <5>2 DEF OnStep
      <4>4. \A k \in Months : posted'.occurrence[k] = (IF k < recurring \/ k = recurring THEN 1 ELSE 0)
        <5>1. posted.occurrence \in [Months -> Nat] /\ \A k \in Months : posted.occurrence[k] = (IF k < recurring THEN 1 ELSE 0)
          BY <1>1, <4>3 DEF RecurringInv, PostedRows
        <5>2. ~(recurring < recurring)
          BY <1>1
        <5> QED
          BY <3>4, <4>3, <5>1, <5>2
      <4> QED
        BY ZenonT(90), <2>1, <2>2, <3>1, <3>3, <4>1, <4>2, <4>3, <4>4 DEF RecurringInv, Sole
    <3> QED
      BY <2>1, <2>2, <3>1, <3>3, <3>4, <3>5, <3>6, StaysAway
  <2>4. CASE ~(auto_post => date > closedTo)
    <3>1. posted' = posted /\ ToRunner(u, "idle")
      BY <2>1, <2>4
    <3>2. RunMoved(u) /\ runner'[u].at = "idle" /\ runner'[u].on = "none"
      BY <3>1, StepMoves DEF RunMoved, Fits, RecordOf, RunSteps, Dated
    <3>3. PeriodTypes'
      BY <2>1, <3>1, <3>2 DEF PeriodTypes, RunMoved
    <3>4. RecurringInv'
      <4> SUFFICES ASSUME "recurring" \notin overlaid PROVE RecurringInv'
        BY <2>1 DEF RecurringInv
      <4>1. \A w \in Runners \ {u} : runner[w].on # "recurring" /\ runner'[w] = runner[w]
        BY <2>2, <3>2 DEF RunMoved, RecurringInv, Sole
      <4>2. \A w \in Runners \ {u} : runner[w].at \notin {"select", "occur", "advance"}
        BY <4>1, OnRecord
      <4>3. ~OnStep("advance") /\ ~OnStep("advance")'
        BY <2>1, <3>2, <4>1, <4>2 DEF OnStep
      <4> QED
        BY <2>1, <3>1, <3>2, <4>1, <4>2, <4>3 DEF RecurringInv, Sole
    <3> QED
      BY <2>1, <2>2, <3>1, <3>2, <3>3, <3>4, StaysAway DEF AssetEntries, ChequeEntries
  <2> QED
    BY <2>3, <2>4
<1>4. CASE AdvanceNextDate(u)
  <2>1. /\ runner[u].at = "advance" /\ recurring' = (IF recurring <= Life THEN runner[u].n + 1 ELSE recurring)
        /\ ToRunner(u, "idle")
        /\ UNCHANGED <<given, asset, cheque, matched, posted, overlaid>>
    BY <1>4 DEF AdvanceNextDate
  <2>2. RunMoved(u) /\ runner'[u].at = "idle" /\ runner[u].on = "recurring" /\ runner'[u].on = "none"
    BY <1>1, <2>1, StepMoves DEF RunMoved, Fits, RecordOf, RunSteps, AssetSteps, ChequeSteps, Dated
  <2>3. runner[u].n \in Months
    BY <2>1 DEF PeriodTypes, Fits, Dated
  <2>4. PeriodTypes'
    BY <1>1, <2>1, <2>2, <2>3 DEF PeriodTypes, RunMoved, Months
  <2>5. RecurringInv'
    <3> SUFFICES ASSUME "recurring" \notin overlaid PROVE RecurringInv'
      BY <2>1 DEF RecurringInv
    <3>1. \A w \in Runners \ {u} : runner[w].on # "recurring" /\ runner'[w] = runner[w]
      BY <2>2 DEF RunMoved, RecurringInv, Sole
    <3>2. \A w \in Runners \ {u} : runner[w].at \notin {"select", "occur", "advance"}
      BY <3>1, OnRecord
    <3>3. OnStep("advance") /\ ~OnStep("advance")' /\ recurring' = recurring + 1
      BY <2>1, <2>2, <3>1, <3>2 DEF OnStep, RecurringInv, Months
    <3>4. \A k \in Months : k < recurring' <=> k < recurring \/ k = recurring
      BY <1>1, <3>3 DEF Months
    <3> QED
      BY <2>1, <2>2, <3>1, <3>2, <3>3, <3>4 DEF RecurringInv, Sole
  <2> QED
    BY <2>1, <2>2, <2>4, <2>5, StaysAway DEF AssetEntries, ChequeEntries
<1> QED
  BY <1>2, <1>3, <1>4, <1>5

LEMMA LineStep ==
    ASSUME PeriodTypes, LineInv, NEW u \in Runners, ReadLine(u) \/ quick_counterpart(u) \/ MatchCounterpart(u)
    PROVE  /\ PeriodTypes' /\ LineInv' /\ \A r \in Records \ {"line"} : Away(r)
           /\ UNCHANGED <<asset, AssetEntries, cheque, ChequeEntries, recurring, posted.occurrence>>
<1> USE DEF given, rows
<1>1. /\ runner \in [Runners -> Position] /\ posted \in PostedRows /\ runner[u] \in Position
      /\ runner[u].on = RecordOf(runner[u].at)
  BY DEF PeriodTypes, Fits, Dated
<1>2. CASE ReadLine(u)
  <2>1. /\ Launch(u, "line", "counter", {}, 0) /\ matched = "no" /\ UNCHANGED <<given, rows, posted, halts>>
    BY <1>2 DEF ReadLine
  <2>2. RecordOf("counter") = "line" /\ "counter" \in RunSteps \ ({"idle"} \cup Dated) /\ {} \in SUBSET Months /\ 0 \in Nat
    BY DEF RecordOf, AssetSteps, ChequeSteps, RunSteps, Dated
  <2>3. /\ RunMoved(u) /\ runner[u].at = "idle" /\ runner'[u].at = "counter"
        /\ runner'[u].on = "line" /\ overlaid \subseteq overlaid'
        /\ (\E v \in Runners \ {u} : runner[v].on = "line") => "line" \in overlaid'
    BY <2>1, <2>2, LaunchMoves
  <2>4. runner[u].on = "none"
    BY <1>1, <2>3 DEF RecordOf
  <2>5. PeriodTypes'
    BY <2>1, <2>3 DEF PeriodTypes, RunMoved
  <2>6. LineInv'
    <3> SUFFICES ASSUME "line" \notin overlaid' PROVE LineInv'
      BY DEF LineInv
    <3>1. \A v \in Runners \ {u} : runner[v].on # "line" /\ runner'[v] = runner[v]
      BY <2>3 DEF RunMoved
    <3>2. \A v \in Runners \ {u} : runner[v].at \notin {"counter", "match"}
      BY <3>1, OnRecord
    <3> QED
      BY <2>1, <2>3, <3>1, <3>2 DEF LineInv, Sole, OnStep
  <2> QED
    BY <2>1, <2>3, <2>4, <2>5, <2>6, StaysAway DEF AssetEntries, ChequeEntries
<1>3. CASE quick_counterpart(u)
  <2> PICK step : step = IF today > closedTo THEN "match" ELSE "idle"
    OBVIOUS
  <2>1. runner[u].at = "counter" /\ ToRunner(u, step) /\ UNCHANGED <<given, rows, overlaid>>
    BY <1>3 DEF quick_counterpart
  <2>2. RecordOf(runner[u].at) = "line" /\ step \in RunSteps \ Dated /\ (step # "idle" => RecordOf(step) = "line")
    BY <2>1 DEF RecordOf, AssetSteps, ChequeSteps, RunSteps, Dated
  <2>3. /\ RunMoved(u) /\ runner'[u].at = step
        /\ runner[u].on = "line" /\ runner'[u].on \in {"line", "none"}
    BY <1>1, <2>1, <2>2, StepMoves DEF RunMoved, Fits, RecordOf, Dated
  <2>4. /\ posted' \in PostedRows
        /\ posted'.counterpart = posted.counterpart + (IF step = "match" THEN 1 ELSE 0)
        /\ UNCHANGED <<AssetEntries, ChequeEntries, posted.occurrence>>
    <3>1. posted' = IF step = "idle" THEN posted ELSE [posted EXCEPT !.counterpart = posted.counterpart + 1]
      BY <1>3 DEF quick_counterpart
    <3> QED
      BY <1>1, <3>1 DEF PostedRows, AssetEntries, ChequeEntries
  <2>5. PeriodTypes'
    BY <2>1, <2>3, <2>4 DEF PeriodTypes, RunMoved
  <2>6. LineInv'
    <3> SUFFICES ASSUME "line" \notin overlaid PROVE LineInv'
      BY <2>1 DEF LineInv
    <3>1. \A v \in Runners \ {u} : runner[v].on # "line" /\ runner'[v] = runner[v]
      BY <2>3 DEF RunMoved, LineInv, Sole
    <3>2. \A v \in Runners \ {u} : runner[v].at \notin {"counter", "match"}
      BY <3>1, OnRecord
    <3>3. ~OnStep("match") /\ matched # "counterpart" /\ (OnStep("match")' <=> step = "match")
      BY <2>1, <2>3, <3>1, <3>2 DEF LineInv, OnStep
    <3> QED
      BY <2>1, <2>3, <2>4, <3>1, <3>2, <3>3 DEF LineInv, Sole
  <2> QED
    BY <2>1, <2>3, <2>4, <2>5, <2>6, StaysAway
<1>4. CASE MatchCounterpart(u)
  <2>1. /\ runner[u].at = "match" /\ matched' = "counterpart" /\ ToRunner(u, "idle")
        /\ UNCHANGED <<given, asset, cheque, recurring, posted, overlaid>>
    BY <1>4 DEF MatchCounterpart, match_line
  <2>2. RunMoved(u) /\ runner'[u].at = "idle" /\ runner[u].on = "line" /\ runner'[u].on = "none"
    BY <1>1, <2>1, StepMoves DEF RunMoved, Fits, RecordOf, RunSteps, AssetSteps, ChequeSteps, Dated
  <2>3. PeriodTypes'
    BY <2>1, <2>2 DEF PeriodTypes, RunMoved
  <2>4. LineInv'
    <3> SUFFICES ASSUME "line" \notin overlaid PROVE LineInv'
      BY <2>1 DEF LineInv
    <3>1. \A v \in Runners \ {u} : runner[v].on # "line" /\ runner'[v] = runner[v]
      BY <2>1, <2>2 DEF RunMoved, LineInv, Sole
    <3>2. \A v \in Runners \ {u} : runner[v].at \notin {"counter", "match"}
      BY <3>1, OnRecord
    <3> QED
      BY <2>1, <2>2, <3>1, <3>2 DEF LineInv, Sole, OnStep
  <2> QED
    BY <2>1, <2>2, <2>3, <2>4, StaysAway DEF AssetEntries, ChequeEntries
<1> QED
  BY <1>2, <1>3, <1>4

-----------------------------------------------------------------------------
(* The asset *)

\* No other run is on the asset, before the step or after it.
OthersOff(u) ==
    \A v \in Runners \ {u} : runner'[v] = runner[v] /\ runner[v].on # "asset" /\ runner[v].at \notin AssetSteps

\* Then what is posted is what the asset and this one run say.
AssetBy(u) ==
    /\ AssetAsRead(u)
    /\ \A k \in Months :
          posted.depreciation[k] =
              IF asset.plan[k] = "posted" \/ (runner[u].at = "flag" /\ runner[u].n = k) THEN 1 ELSE 0
    /\ posted.disposal = (IF asset.state = "disposed" \/ runner[u].at = "disposed" THEN 1 ELSE 0)
    /\ posted.disposal = 0 => posted.derecognised = 0
    /\ asset.state = "disposed" => posted.derecognised = Cardinality(PostedMonths)
    /\ asset.state = "running" => \A k \in Months : asset.plan[k] # "none"

LEMMA AssetAlone ==
    ASSUME AssetInv, "asset" \notin overlaid, NEW u \in Runners, OthersOff(u)
    PROVE  AssetBy(u)
<1>1. \A v \in Runners : runner[v].at \in AssetSteps => v = u
  BY DEF OthersOff
<1>2. /\ OnStep("disposed") <=> runner[u].at = "disposed"
      /\ \A k : (\E v \in Runners : runner[v].at = "flag" /\ runner[v].n = k) <=> (runner[u].at = "flag" /\ runner[u].n = k)
  BY <1>1 DEF OnStep, AssetSteps
<1> QED
  BY <1>2 DEF AssetInv, AssetBy, Depreciated, Disposal

LEMMA AssetSettles ==
    ASSUME PeriodTypes, NEW u \in Runners, OthersOff(u), AssetBy(u)'
    PROVE  AssetInv'
<1>1. \A v \in Runners : runner'[v].at \in AssetSteps => v = u
  BY DEF OthersOff
<1>2. /\ OnStep("disposed")' <=> runner'[u].at = "disposed"
      /\ \A k : (\E v \in Runners : runner'[v].at = "flag" /\ runner'[v].n = k) <=> (runner'[u].at = "flag" /\ runner'[u].n = k)
  BY <1>1 DEF OnStep, AssetSteps
<1>3. Sole("asset")'
  BY DEF Sole, OthersOff
<1>4. (\A v \in Runners : AssetAsRead(v))'
  BY <1>1 DEF AssetBy, AssetAsRead, AssetSteps
<1>5. Depreciated'
  BY <1>2 DEF AssetBy, Depreciated
<1>6. Disposal'
  BY <1>2 DEF AssetBy, Disposal
<1> QED
  BY <1>3, <1>4, <1>5, <1>6 DEF AssetInv, AssetBy

\* The other records do not move.
AssetOnly ==
    /\ \A r \in Records \ {"asset"} : Away(r)
    /\ UNCHANGED <<cheque, ChequeEntries, recurring, posted.occurrence, matched, posted.counterpart>>

LEMMA PlansFinite == Cardinality(PostedMonths) \in Nat
<1>1. IsFiniteSet(Months)
  BY PeriodAssumption, FS_Interval DEF Months
<1>2. PostedMonths \subseteq Months
  BY DEF PostedMonths
<1> QED
  BY <1>1, <1>2, FS_Subset, FS_CardinalityType

\* A run that is on the asset, which no other run disturbs.
LEMMA AssetOwner ==
    ASSUME PeriodTypes, AssetInv, "asset" \notin overlaid, NEW u \in Runners, runner[u].on = "asset", RunMoved(u)
    PROVE  OthersOff(u) /\ AssetBy(u)
<1>1. OthersOff(u)
  BY OnRecord DEF OthersOff, RunMoved, AssetInv, Sole
<1> QED
  BY <1>1, AssetAlone

\* A run that begins on the asset.
LEMMA AssetEntered ==
    ASSUME PeriodTypes, AssetInv, NEW u \in Runners, NEW step, step \in AssetSteps \ {"flag"},
           NEW todo \in SUBSET Months, NEW n \in Nat, NEW R, R = "asset", Launch(u, R, step, todo, n)
    PROVE  /\ RunMoved(u) /\ runner[u].at = "idle" /\ runner'[u].at = step /\ runner'[u].todo = todo /\ runner'[u].n = n
           /\ runner[u].on = "none" /\ runner'[u].on = "asset" /\ overlaid \subseteq overlaid'
           /\ "asset" \notin overlaid' => OthersOff(u) /\ AssetBy(u)
<1>1. step \in RunSteps \ ({"idle"} \cup Dated) /\ R = RecordOf(step)
  BY DEF RunSteps, AssetSteps, RecordOf, Dated
<1>2. /\ RunMoved(u) /\ runner[u].at = "idle" /\ runner'[u].at = step /\ runner'[u].todo = todo /\ runner'[u].n = n
      /\ runner'[u].on = "asset" /\ overlaid \subseteq overlaid'
      /\ (\E v \in Runners \ {u} : runner[v].on = "asset") => "asset" \in overlaid'
  BY <1>1, LaunchMoves
<1>3. runner[u].on = "none"
  BY <1>2, OnRecord
<1>4. ASSUME "asset" \notin overlaid' PROVE OthersOff(u) /\ AssetBy(u)
  <2>1. OthersOff(u)
    BY <1>2, <1>4, OnRecord DEF OthersOff, RunMoved
  <2> QED
    BY <1>2, <1>4, <2>1, AssetAlone
<1> QED
  BY <1>2, <1>3, <1>4

LEMMA ConfirmRunStep ==
    ASSUME PeriodTypes, AssetInv, NEW u \in Runners, confirm_asset(u) \/ ReadDue(u) \/ ReadAccumulated(u)
    PROVE  PeriodTypes' /\ AssetInv' /\ AssetOnly
<1> USE DEF given, rows
<1>1. UNCHANGED <<given, rows, posted, halts>>
  BY DEF confirm_asset, ReadDue, ReadAccumulated
<1>2. ASSUME NEW step, step \in AssetSteps \ {"flag"}, NEW todo \in SUBSET Months, NEW n \in Nat, Launch(u, "asset", step, todo, n),
             AssetBy(u) /\ runner'[u].at = step /\ runner'[u].todo = todo /\ runner'[u].n = n /\ runner[u].at = "idle"
                 => AssetBy(u)'
      PROVE  PeriodTypes' /\ AssetInv' /\ AssetOnly
  <2>1. /\ RunMoved(u) /\ runner[u].at = "idle" /\ runner'[u].at = step /\ runner'[u].todo = todo /\ runner'[u].n = n
        /\ runner[u].on = "none" /\ runner'[u].on = "asset" /\ overlaid \subseteq overlaid'
        /\ "asset" \notin overlaid' => OthersOff(u) /\ AssetBy(u)
    BY <1>2, AssetEntered
  <2>2. PeriodTypes'
    BY <1>1, <2>1 DEF PeriodTypes, RunMoved
  <2>3. AssetInv'
    <3>1. CASE "asset" \in overlaid'
      BY <3>1 DEF AssetInv
    <3>2. CASE "asset" \notin overlaid'
      BY <1>2, <2>1, <3>2, AssetSettles
    <3> QED
      BY <3>1, <3>2
  <2>4. AssetOnly
    BY <1>1, <2>1, StaysAway DEF AssetOnly, ChequeEntries
  <2> QED
    BY <2>2, <2>3, <2>4
<1>3. PostedMonths' = PostedMonths
  BY <1>1 DEF PostedMonths
<1>4. CASE confirm_asset(u)
  <2>1. Launch(u, "asset", "schedule", Months, 0) /\ asset.state = "draft"
    BY <1>4 DEF confirm_asset
  <2>2. AssetBy(u) /\ runner'[u].at = "schedule" /\ runner'[u].todo = Months /\ runner[u].at = "idle" => AssetBy(u)'
    BY <1>1, <1>3, <2>1 DEF AssetBy, AssetAsRead
  <2> QED
    BY <1>2, <2>1, <2>2 DEF AssetSteps
<1>5. CASE ReadDue(u)
  <2> PICK due : due = {k \in Months : asset.plan[k] = "planned" /\ k <= today}
    OBVIOUS
  <2>1. Launch(u, "asset", "post", due, 0) /\ asset.state = "running"
    BY <1>5 DEF ReadDue
  <2>2. AssetBy(u) /\ runner'[u].at = "post" /\ runner'[u].todo = due /\ runner[u].at = "idle" => AssetBy(u)'
    BY <1>1, <1>3, <2>1 DEF AssetBy, AssetAsRead, Depreciating
  <2> QED
    BY <1>2, <2>1, <2>2 DEF AssetSteps
<1>6. CASE ReadAccumulated(u)
  <2>1. Launch(u, "asset", "dispose", {}, Cardinality(PostedMonths)) /\ asset.state \in Depreciating
    BY <1>6 DEF ReadAccumulated, PostedMonths, Depreciating
  <2>2. AssetBy(u) /\ runner'[u].at = "dispose" /\ runner'[u].n = Cardinality(PostedMonths) /\ runner[u].at = "idle"
            => AssetBy(u)'
    BY <1>1, <1>3, <2>1 DEF AssetBy, AssetAsRead, Depreciating
  <2> QED
    BY <1>2, <2>1, <2>2, PlansFinite DEF AssetSteps
<1> QED
  BY <1>4, <1>5, <1>6

\* A step of the run that is on the asset.
LEMMA AssetMoves ==
    ASSUME PeriodTypes, AssetInv, NEW u \in Runners, RunMoved(u), runner[u].on = "asset",
           runner'[u].on \in {"asset", "none"}, asset' \in Asset, posted' \in PostedRows,
           UNCHANGED <<today, closedTo, auto_post, cheque, recurring, matched, overlaid>>,
           UNCHANGED <<ChequeEntries, posted.occurrence, posted.counterpart>>,
           AssetBy(u) => AssetBy(u)'
    PROVE  PeriodTypes' /\ AssetInv' /\ AssetOnly
<1>1. PeriodTypes'
  BY DEF PeriodTypes, RunMoved
<1>2. CASE "asset" \in overlaid
  BY <1>1, <1>2, StaysAway DEF AssetInv, AssetOnly
<1>3. CASE "asset" \notin overlaid
  BY <1>1, <1>3, StaysAway, AssetOwner, AssetSettles DEF AssetOnly
<1> QED
  BY <1>2, <1>3

\* Where a run on the asset stands.
LEMMA OnAsset ==
    ASSUME PeriodTypes, NEW u \in Runners, runner[u].at \in AssetSteps
    PROVE  /\ RecordOf(runner[u].at) = "asset" /\ runner[u].on = "asset"
           /\ runner[u].at \in {"post", "flag", "full", "dispose", "disposed", "drop", "schedule", "run"}
           /\ runner[u].todo \subseteq Months /\ runner[u].n \in Nat /\ runner[u] \in Position
           /\ asset.plan \in [Months -> {"none", "planned", "posted"}] /\ asset \in Asset
           /\ asset.state \in {"draft", "running", "fully_depreciated", "disposed"}
           /\ posted \in PostedRows /\ posted.depreciation \in [Months -> Nat]
           /\ posted.disposal \in Nat /\ posted.derecognised \in Nat
BY DEF PeriodTypes, Fits, RecordOf, AssetSteps, Position, Asset, PostedRows, Dated

\* To the next step of the same run, or to none.
LEMMA AssetGoes ==
    ASSUME PeriodTypes, NEW u \in Runners, runner[u].at \in AssetSteps,
           NEW step, step \in (AssetSteps \ {"flag"}) \cup {"idle"}, ToRunner(u, step)
    PROVE  /\ RunMoved(u) /\ runner[u].on = "asset" /\ runner'[u].on \in {"asset", "none"} /\ runner'[u].at = step
           /\ step # "idle" => runner'[u].todo = runner[u].todo /\ runner'[u].n = runner[u].n
<1>1. step \in RunSteps \ Dated /\ (step # "idle" => RecordOf(step) = RecordOf(runner[u].at))
      /\ RecordOf(step) \in {"asset", "none"}
  BY DEF RunSteps, AssetSteps, RecordOf, Dated
<1> QED
  BY <1>1, OnAsset, StepMoves DEF RunMoved, Fits, Dated

LEMMA MonthStep ==
    ASSUME PeriodTypes, AssetInv, NEW u \in Runners, InsertMonth(u)
    PROVE  PeriodTypes' /\ AssetInv' /\ AssetOnly
<1>1. PICK k \in runner[u].todo :
         /\ runner[u].at = "schedule" /\ \A x \in runner[u].todo : k <= x
         /\ asset' = [asset EXCEPT !.plan[k] = IF @ = "none" THEN "planned" ELSE @]
         /\ runner' = [runner EXCEPT ![u].todo = @ \ {k}, ![u].at = IF k = Life THEN "run" ELSE @]
         /\ UNCHANGED <<today, closedTo, auto_post, cheque, recurring, matched, posted, overlaid>>
  BY DEF InsertMonth, given
<1>2. /\ runner[u].on = "asset" /\ runner[u] \in Position /\ k \in Months /\ runner[u].todo \subseteq Months
      /\ asset \in Asset /\ asset.plan \in [Months -> {"none", "planned", "posted"}] /\ posted \in PostedRows
      /\ runner \in [Runners -> Position]
  BY <1>1, OnAsset DEF AssetSteps, PeriodTypes
<1> PICK step : step = IF k = Life THEN "run" ELSE "schedule"
  OBVIOUS
<1> PICK v : v = [[runner[u] EXCEPT !.todo = runner[u].todo \ {k}] EXCEPT !.at = step]
  OBVIOUS
<1>3. v \in Position /\ Fits(v) /\ v.at = step /\ v.todo = runner[u].todo \ {k} /\ v.on = "asset"
  <2>1. step \in RunSteps /\ RecordOf(step) = "asset" /\ step \notin Dated
    BY DEF RunSteps, AssetSteps, RecordOf, Dated
  <2> QED
    BY <1>2, <2>1 DEF Position, Fits, Dated
<1>4. runner' = [runner EXCEPT ![u] = v]
  BY <1>1, <1>2
<1>5. RunMoved(u) /\ runner'[u] = v
  BY <1>3, <1>4, RunnerMoves
<1>6. /\ asset' \in Asset /\ asset'.state = asset.state /\ asset'.plan \in [Months -> {"none", "planned", "posted"}]
      /\ asset'.plan[k] = (IF asset.plan[k] = "none" THEN "planned" ELSE asset.plan[k])
      /\ \A x \in Months \ {k} : asset'.plan[x] = asset.plan[x]
  BY <1>1, <1>2 DEF Asset
<1>7. PostedMonths' = PostedMonths
  BY <1>2, <1>6 DEF PostedMonths
<1>8. k = Life => \A x \in runner[u].todo : x = k
  BY <1>1, <1>2, PeriodAssumption DEF Months
<1>9. AssetBy(u) => AssetBy(u)'
  BY <1>1, <1>2, <1>3, <1>5, <1>6, <1>7, <1>8 DEF AssetBy, AssetAsRead
<1> QED
  BY <1>1, <1>2, <1>3, <1>5, <1>6, <1>9, AssetMoves DEF ChequeEntries

LEMMA RunStep ==
    ASSUME PeriodTypes, AssetInv, NEW u \in Runners, SetRunning(u)
    PROVE  PeriodTypes' /\ AssetInv' /\ AssetOnly
<1>1. /\ runner[u].at = "run" /\ asset' = [asset EXCEPT !.state = "running"] /\ ToRunner(u, "idle")
      /\ UNCHANGED <<today, closedTo, auto_post, cheque, recurring, matched, posted, overlaid>>
  BY DEF SetRunning, given
<1>2. /\ runner[u].on = "asset" /\ asset \in Asset /\ posted \in PostedRows
      /\ RunMoved(u) /\ runner'[u].on \in {"asset", "none"} /\ runner'[u].at = "idle"
  BY <1>1, OnAsset, AssetGoes DEF AssetSteps
<1>3. asset' \in Asset /\ asset'.state = "running" /\ asset'.plan = asset.plan /\ PostedMonths' = PostedMonths
  BY <1>1, <1>2 DEF Asset, PostedMonths
<1>4. AssetBy(u) => AssetBy(u)'
  BY <1>1, <1>2, <1>3 DEF AssetBy, AssetAsRead
<1> QED
  BY <1>1, <1>2, <1>3, <1>4, AssetMoves DEF ChequeEntries

LEMMA DepreciateStep ==
    ASSUME PeriodTypes, AssetInv, NEW u \in Runners, post_due_depreciation(u)
    PROVE  PeriodTypes' /\ AssetInv' /\ AssetOnly
<1>1. PICK k \in runner[u].todo :
         /\ runner[u].at = "post"
         /\ IF k > closedTo
            THEN /\ posted' = [posted EXCEPT !.depreciation[k] = @ + 1]
                 /\ runner' = [runner EXCEPT ![u].at = "flag", ![u].n = k]
            ELSE /\ UNCHANGED posted
                 /\ runner' = [runner EXCEPT ![u] = IF runner[u].todo = {k} THEN Waiting
                                                    ELSE [runner[u] EXCEPT !.todo = runner[u].todo \ {k}]]
         /\ UNCHANGED <<today, closedTo, auto_post, asset, cheque, recurring, matched, overlaid>>
  BY DEF post_due_depreciation, given, rows
<1>2. /\ runner[u].on = "asset" /\ runner[u] \in Position /\ k \in Months /\ k \in Nat /\ runner[u].todo \subseteq Months
      /\ asset \in Asset /\ asset.plan \in [Months -> {"none", "planned", "posted"}] /\ posted \in PostedRows
      /\ runner \in [Runners -> Position]
  BY <1>1, OnAsset DEF AssetSteps, PeriodTypes, Months
<1>3. PostedMonths' = PostedMonths
  BY <1>1 DEF PostedMonths
<1>4. CASE k > closedTo
  <2> PICK v : v = [[runner[u] EXCEPT !.at = "flag"] EXCEPT !.n = k]
    OBVIOUS
  <2>1. v \in Position /\ Fits(v) /\ v.at = "flag" /\ v.n = k /\ v.todo = runner[u].todo /\ v.on = "asset"
    <3>1. "flag" \in RunSteps /\ RecordOf("flag") = "asset"
      BY DEF RunSteps, AssetSteps, RecordOf, Dated
    <3> QED
      BY <1>2, <3>1 DEF Position, Fits, Dated
  <2>2. runner' = [runner EXCEPT ![u] = v]
    BY <1>1, <1>2, <1>4
  <2>3. RunMoved(u) /\ runner'[u] = v
    BY <2>1, <2>2, RunnerMoves
  <2>4. /\ posted' \in PostedRows /\ posted'.depreciation[k] = posted.depreciation[k] + 1
        /\ \A x \in Months \ {k} : posted'.depreciation[x] = posted.depreciation[x]
        /\ posted'.disposal = posted.disposal /\ posted'.derecognised = posted.derecognised
        /\ UNCHANGED <<ChequeEntries, posted.occurrence, posted.counterpart>>
    BY <1>1, <1>2, <1>4 DEF PostedRows, ChequeEntries
  <2>5. AssetBy(u) => AssetBy(u)'
    <3> SUFFICES ASSUME AssetBy(u) PROVE AssetBy(u)'
      OBVIOUS
    <3>1. asset.plan[k] = "planned" /\ posted.depreciation[k] = 0
      BY <1>1, <1>2 DEF AssetBy, AssetAsRead
    <3>2. AssetAsRead(u)'
      BY <1>1, <1>2, <1>3, <2>1, <2>3 DEF AssetBy, AssetAsRead
    <3>3. \A x \in Months : posted'.depreciation[x] =
              IF asset'.plan[x] = "posted" \/ (runner'[u].at = "flag" /\ runner'[u].n = x) THEN 1 ELSE 0
      BY <1>1, <1>2, <2>1, <2>3, <2>4, <3>1 DEF AssetBy
    <3> QED
      BY <1>1, <1>2, <1>3, <2>1, <2>3, <2>4, <3>2, <3>3 DEF AssetBy
  <2> QED
    BY <1>1, <1>2, <2>1, <2>3, <2>4, <2>5, AssetMoves
<1>5. CASE ~(k > closedTo)
  <2> PICK v : v = IF runner[u].todo = {k} THEN Waiting ELSE [runner[u] EXCEPT !.todo = runner[u].todo \ {k}]
    OBVIOUS
  <2>1. /\ v \in Position /\ Fits(v) /\ v.on \in {"asset", "none"}
        /\ v.at = "idle" \/ (v.at = "post" /\ v.todo = runner[u].todo \ {k})
    <3>1. RecordOf("post") = "asset" /\ RecordOf("idle") = "none"
      BY DEF AssetSteps, RecordOf
    <3>2. CASE runner[u].todo = {k}
      BY <3>1, <3>2, WaitingTypes DEF Fits, Dated
    <3>3. CASE runner[u].todo # {k}
      BY <1>1, <1>2, <3>1, <3>3 DEF Position, Fits, Dated
    <3> QED
      BY <3>2, <3>3
  <2>2. runner' = [runner EXCEPT ![u] = v] /\ posted' = posted
    BY <1>1, <1>5
  <2>3. RunMoved(u) /\ runner'[u] = v
    BY <2>1, <2>2, RunnerMoves
  <2>4. AssetBy(u) => AssetBy(u)'
    BY <1>1, <1>3, <2>1, <2>2, <2>3 DEF AssetBy, AssetAsRead
  <2> QED
    BY <1>1, <1>2, <2>1, <2>2, <2>3, <2>4, AssetMoves DEF ChequeEntries
<1> QED
  BY <1>4, <1>5

LEMMA FlagStep ==
    ASSUME PeriodTypes, AssetInv, NEW u \in Runners, FlagMonth(u)
    PROVE  PeriodTypes' /\ AssetInv' /\ AssetOnly
<1> PICK k : k = runner[u].n
  OBVIOUS
<1>1. /\ runner[u].at = "flag" /\ asset' = IF asset.plan[k] = "none" THEN asset ELSE [asset EXCEPT !.plan[k] = "posted"]
      /\ ToRunner(u, "full") /\ UNCHANGED <<today, closedTo, auto_post, cheque, recurring, matched, posted, overlaid>>
  BY DEF FlagMonth, given
<1>2. /\ runner[u].on = "asset" /\ asset \in Asset /\ asset.plan \in [Months -> {"none", "planned", "posted"}]
      /\ posted \in PostedRows /\ runner[u].todo \subseteq Months /\ k \in Months
      /\ RunMoved(u) /\ runner'[u].on \in {"asset", "none"} /\ runner'[u].at = "full"
      /\ runner'[u].todo = runner[u].todo /\ runner'[u].n = k
  BY <1>1, OnAsset, AssetGoes DEF AssetSteps, PeriodTypes, Fits, Dated
<1>3. /\ asset' \in Asset /\ asset'.state = asset.state
      /\ \A x \in Months \ {k} : asset'.plan[x] = asset.plan[x]
      /\ asset'.plan[k] = (IF asset.plan[k] = "none" THEN "none" ELSE "posted")
  BY <1>1, <1>2 DEF Asset
<1>4. AssetBy(u) => AssetBy(u)'
  <2> SUFFICES ASSUME AssetBy(u) PROVE AssetBy(u)'
    OBVIOUS
  <2>1. asset.plan[k] = "planned" /\ asset.state \in Depreciating /\ k \in runner[u].todo
    BY <1>1 DEF AssetBy, AssetAsRead
  <2>2. AssetAsRead(u)'
    BY <1>1, <1>2, <1>3, <2>1 DEF AssetBy, AssetAsRead
  <2>3. \A x \in Months : posted'.depreciation[x] =
            IF asset'.plan[x] = "posted" \/ (runner'[u].at = "flag" /\ runner'[u].n = x) THEN 1 ELSE 0
    BY <1>1, <1>2, <1>3, <2>1 DEF AssetBy
  <2> QED
    BY <1>1, <1>2, <1>3, <2>1, <2>2, <2>3 DEF AssetBy, Depreciating
<1> QED
  BY <1>1, <1>2, <1>3, <1>4, AssetMoves DEF ChequeEntries

LEMMA FullyStep ==
    ASSUME PeriodTypes, AssetInv, NEW u \in Runners, MarkFully(u)
    PROVE  PeriodTypes' /\ AssetInv' /\ AssetOnly
<1> PICK k, rest : k = runner[u].n /\ rest = runner[u].todo \ {k}
  OBVIOUS
<1>1. /\ runner[u].at = "full"
      /\ asset' = IF k = Life /\ asset.state = "running" THEN [asset EXCEPT !.state = "fully_depreciated"] ELSE asset
      /\ runner' = [runner EXCEPT ![u] = IF rest = {} THEN Waiting ELSE [runner[u] EXCEPT !.at = "post", !.todo = rest]]
      /\ UNCHANGED <<today, closedTo, auto_post, cheque, recurring, matched, posted, overlaid>>
  BY DEF MarkFully, given
<1>2. /\ runner[u].on = "asset" /\ asset \in Asset /\ posted \in PostedRows
      /\ runner[u] \in Position /\ runner[u].todo \subseteq Months
  BY <1>1, OnAsset DEF AssetSteps
<1> PICK v : v = IF rest = {} THEN Waiting ELSE [runner[u] EXCEPT !.at = "post", !.todo = rest]
  OBVIOUS
<1>3. /\ v \in Position /\ Fits(v) /\ v.on \in {"asset", "none"}
      /\ v.at = "idle" \/ (v.at = "post" /\ v.todo = rest)
  <2>1. RecordOf("post") = "asset" /\ RecordOf("idle") = "none" /\ "post" \in RunSteps
    BY DEF AssetSteps, RecordOf, RunSteps, Dated
  <2>2. CASE rest = {}
    BY <2>1, <2>2, WaitingTypes DEF Fits, Dated
  <2>3. CASE rest # {}
    BY <1>1, <1>2, <2>1, <2>3 DEF Position, Fits, Dated
  <2> QED
    BY <2>2, <2>3
<1>4. RunMoved(u) /\ runner'[u] = v
  BY ZenonT(90), <1>1, <1>3, RunnerMoves
<1>5. /\ asset' \in Asset /\ asset'.plan = asset.plan /\ PostedMonths' = PostedMonths
      /\ asset'.state \in {asset.state, "fully_depreciated"} /\ (asset'.state # asset.state => asset.state = "running")
  BY <1>1, <1>2 DEF Asset, PostedMonths
<1>6. AssetBy(u) => AssetBy(u)'
  BY SMTT(60), <1>1, <1>2, <1>3, <1>4, <1>5 DEF AssetBy, AssetAsRead, Depreciating
<1> QED
  BY <1>1, <1>2, <1>3, <1>4, <1>5, <1>6, AssetMoves DEF ChequeEntries

LEMMA DisposeStep ==
    ASSUME PeriodTypes, AssetInv, NEW u \in Runners, dispose_asset(u) \/ SetDisposed(u) \/ DropPlanned(u)
    PROVE  PeriodTypes' /\ AssetInv' /\ AssetOnly
<1>1. CASE dispose_asset(u)
  <2> PICK step : step = IF today > closedTo THEN "disposed" ELSE "idle"
    OBVIOUS
  <2>1. /\ runner[u].at = "dispose" /\ ToRunner(u, step)
        /\ posted' = IF step = "idle" THEN posted
                     ELSE [posted EXCEPT !.disposal = @ + 1, !.derecognised = @ + runner[u].n]
        /\ UNCHANGED <<today, closedTo, auto_post, asset, cheque, recurring, matched, overlaid>>
    BY <1>1 DEF dispose_asset, given, rows
  <2>2. /\ runner[u].on = "asset" /\ asset \in Asset /\ posted \in PostedRows /\ runner[u].n \in Nat
        /\ posted.disposal \in Nat /\ posted.derecognised \in Nat
        /\ RunMoved(u) /\ runner'[u].on \in {"asset", "none"} /\ runner'[u].at = step
        /\ step # "idle" => runner'[u].todo = runner[u].todo /\ runner'[u].n = runner[u].n
    BY <2>1, OnAsset, AssetGoes DEF AssetSteps
  <2>3. /\ posted' \in PostedRows /\ posted'.depreciation = posted.depreciation
        /\ posted'.disposal = posted.disposal + (IF step = "idle" THEN 0 ELSE 1)
        /\ posted'.derecognised = posted.derecognised + (IF step = "idle" THEN 0 ELSE runner[u].n)
        /\ UNCHANGED <<ChequeEntries, posted.occurrence, posted.counterpart>>
    <3>1. CASE step = "idle"
      BY <2>1, <2>2, <3>1 DEF ChequeEntries
    <3>2. CASE step # "idle"
      <4> PICK a, b : a = posted.disposal + 1 /\ b = posted.derecognised + runner[u].n
        OBVIOUS
      <4>1. a \in Nat /\ b \in Nat
        BY <2>2
      <4>2. posted' = [posted EXCEPT !.disposal = a, !.derecognised = b]
        BY <2>1, <3>2
      <4> QED
        BY <2>2, <3>2, <4>1, <4>2 DEF PostedRows, ChequeEntries
    <3> QED
      BY <3>1, <3>2
  <2>4. PostedMonths' = PostedMonths
    BY <2>1 DEF PostedMonths
  <2>5. AssetBy(u) => AssetBy(u)'
    <3> SUFFICES ASSUME AssetBy(u) PROVE AssetBy(u)'
      OBVIOUS
    <3>1. asset.state # "disposed" /\ posted.disposal = 0 /\ posted.derecognised = 0
      BY <2>1 DEF AssetBy, AssetAsRead, Depreciating
    <3>2. AssetAsRead(u)'
      BY <2>1, <2>2, <2>3, <2>4, <3>1 DEF AssetBy, AssetAsRead
    <3> QED
      BY <2>1, <2>2, <2>3, <2>4, <3>1, <3>2 DEF AssetBy
  <2> QED
    BY <2>1, <2>2, <2>3, <2>5, AssetMoves
<1>2. CASE SetDisposed(u)
  <2>1. /\ runner[u].at = "disposed" /\ asset' = [asset EXCEPT !.state = "disposed"] /\ ToRunner(u, "drop")
        /\ UNCHANGED <<today, closedTo, auto_post, cheque, recurring, matched, posted, overlaid>>
    BY <1>2 DEF SetDisposed, given
  <2>2. /\ runner[u].on = "asset" /\ asset \in Asset /\ posted \in PostedRows
        /\ RunMoved(u) /\ runner'[u].on \in {"asset", "none"} /\ runner'[u].at = "drop"
    BY <2>1, OnAsset, AssetGoes DEF AssetSteps
  <2>3. asset' \in Asset /\ asset'.state = "disposed" /\ asset'.plan = asset.plan /\ PostedMonths' = PostedMonths
    BY <2>1, <2>2 DEF Asset, PostedMonths
  <2>4. AssetBy(u) => AssetBy(u)'
    BY <2>1, <2>2, <2>3 DEF AssetBy, AssetAsRead
  <2> QED
    BY <2>1, <2>2, <2>3, <2>4, AssetMoves DEF ChequeEntries
<1>3. CASE DropPlanned(u)
  <2>1. /\ runner[u].at = "drop" /\ ToRunner(u, "idle")
        /\ asset' = [asset EXCEPT !.plan = [k \in Months |-> IF asset.plan[k] = "planned" THEN "none" ELSE asset.plan[k]]]
        /\ UNCHANGED <<today, closedTo, auto_post, cheque, recurring, matched, posted, overlaid>>
    BY <1>3 DEF DropPlanned, given
  <2>2. /\ runner[u].on = "asset" /\ asset \in Asset /\ posted \in PostedRows
        /\ asset.plan \in [Months -> {"none", "planned", "posted"}]
        /\ RunMoved(u) /\ runner'[u].on \in {"asset", "none"} /\ runner'[u].at = "idle"
    BY <2>1, OnAsset, AssetGoes DEF AssetSteps
  <2>3. /\ asset' \in Asset /\ asset'.state = asset.state
        /\ \A k \in Months : asset'.plan[k] = "posted" <=> asset.plan[k] = "posted"
    BY <2>1, <2>2 DEF Asset
  <2>4. PostedMonths' = PostedMonths
    BY <2>3 DEF PostedMonths
  <2>5. AssetBy(u) => AssetBy(u)'
    BY <2>1, <2>2, <2>3, <2>4 DEF AssetBy, AssetAsRead
  <2> QED
    BY <2>1, <2>2, <2>3, <2>5, AssetMoves DEF ChequeEntries
<1> QED
  BY <1>1, <1>2, <1>3

-----------------------------------------------------------------------------
(* A run that ends early, and the calendar *)

LEMMA HaltStep ==
    ASSUME PeriodInv, NEW u \in Runners, Halt(u)
    PROVE  PeriodInv'
<1> PICK half : half = {"flag", "full", "disposed", "drop", "cleared", "bounced", "advance", "match"}
  OBVIOUS
<1>1. /\ PeriodTypes /\ AssetInv /\ ChequeInv /\ RecurringInv /\ LineInv
      /\ ToRunner(u, "idle") /\ runner[u].at # "idle"
      /\ overlaid' = overlaid \cup (IF runner[u].at \in half THEN {runner[u].on} ELSE {})
      /\ UNCHANGED <<today, closedTo, auto_post, asset, cheque, recurring, matched, posted>>
  BY DEF PeriodInv, Halt, given, rows
<1>2. RunMoved(u) /\ runner'[u].at = "idle" /\ runner'[u] = Waiting /\ runner'[u].on = "none"
  BY <1>1, StepMoves, WaitingTypes DEF RunSteps, Fits, RecordOf, Dated
<1>3. PeriodTypes'
  BY <1>1, <1>2 DEF PeriodTypes, RunMoved
<1>4. overlaid \subseteq overlaid' /\ \A R : runner[u].on # R /\ R # "none" => Away(R)
  BY <1>1, <1>2 DEF Away, RunMoved
<1>5. UNCHANGED <<AssetEntries, ChequeEntries, posted.occurrence, posted.counterpart>> /\ PostedMonths' = PostedMonths
  BY <1>1 DEF AssetEntries, ChequeEntries, PostedMonths
<1>6. runner[u].on \notin overlaid' => runner[u].at \notin half /\ runner[u].on \notin overlaid
  BY <1>1
<1>7. AssetInv'
  <2>1. CASE runner[u].on # "asset"
    BY <1>1, <1>3, <1>4, <1>5, <2>1, AssetFrame
  <2>2. CASE runner[u].on = "asset" /\ "asset" \in overlaid'
    BY <2>2 DEF AssetInv
  <2>3. CASE runner[u].on = "asset" /\ "asset" \notin overlaid'
    <3>1. OthersOff(u) /\ AssetBy(u)
      BY <1>1, <1>2, <1>6, <2>3, AssetOwner
    <3>2. AssetBy(u)'
      BY <1>1, <1>2, <1>5, <1>6, <2>3, <3>1 DEF AssetBy, AssetAsRead
    <3> QED
      BY <1>1, <3>1, <3>2, AssetSettles
  <2> QED
    BY <2>1, <2>2, <2>3
<1>8. \A R : Sole(R) /\ runner[u].on = R => \A v \in Runners \ {u} : runner[v].on # R /\ runner'[v] = runner[v]
  BY <1>2 DEF Sole, RunMoved
<1>9. ChequeInv'
  <2>1. CASE runner[u].on # "cheque"
    BY <1>1, <1>3, <1>4, <1>5, <2>1, ChequeFrame
  <2>2. CASE runner[u].on = "cheque" /\ "cheque" \in overlaid'
    BY <2>2 DEF ChequeInv
  <2>3. CASE runner[u].on = "cheque" /\ "cheque" \notin overlaid'
    <3>1. \A v \in Runners \ {u} : runner[v].at \notin ChequeSteps /\ runner'[v] = runner[v] /\ runner[v].on # "cheque"
      BY <1>1, <1>6, <1>8, <2>3, OnRecord DEF ChequeInv
    <3>2. ~OnStep("cleared") /\ ~OnStep("bounced") /\ ~OnStep("cleared")' /\ ~OnStep("bounced")'
      BY <1>2, <1>6, <2>3, <3>1 DEF OnStep, ChequeSteps
    <3> QED
      BY <1>1, <1>2, <1>6, <2>3, <3>1, <3>2 DEF ChequeInv, Sole, ChequeSteps
  <2> QED
    BY <2>1, <2>2, <2>3
<1>10. RecurringInv'
  <2>1. CASE runner[u].on # "recurring"
    BY <1>1, <1>3, <1>4, <1>5, <2>1, RecurringFrame
  <2>2. CASE runner[u].on = "recurring" /\ "recurring" \in overlaid'
    BY <2>2 DEF RecurringInv
  <2>3. CASE runner[u].on = "recurring" /\ "recurring" \notin overlaid'
    <3>1. \A v \in Runners \ {u} : runner[v].at \notin {"select", "occur", "advance"} /\ runner'[v] = runner[v] /\ runner[v].on # "recurring"
      BY <1>1, <1>6, <1>8, <2>3, OnRecord DEF RecurringInv
    <3>2. ~OnStep("advance") /\ ~OnStep("advance")'
      BY <1>2, <1>6, <2>3, <3>1 DEF OnStep
    <3> QED
      BY <1>1, <1>2, <1>6, <2>3, <3>1, <3>2 DEF RecurringInv, Sole
  <2> QED
    BY <2>1, <2>2, <2>3
<1>11. LineInv'
  <2>1. CASE runner[u].on # "line"
    BY <1>1, <1>3, <1>4, <1>5, <2>1, LineFrame
  <2>2. CASE runner[u].on = "line" /\ "line" \in overlaid'
    BY <2>2 DEF LineInv
  <2>3. CASE runner[u].on = "line" /\ "line" \notin overlaid'
    <3>1. \A v \in Runners \ {u} : runner[v].at \notin {"counter", "match"} /\ runner'[v] = runner[v] /\ runner[v].on # "line"
      BY <1>1, <1>6, <1>8, <2>3, OnRecord DEF LineInv
    <3>2. ~OnStep("match") /\ ~OnStep("match")'
      BY <1>2, <1>6, <2>3, <3>1 DEF OnStep
    <3> QED
      BY <1>1, <1>2, <1>6, <2>3, <3>1, <3>2 DEF LineInv, Sole
  <2> QED
    BY <2>1, <2>2, <2>3
<1> QED
  BY <1>3, <1>7, <1>9, <1>10, <1>11 DEF PeriodInv

\* A suggestion is taken: no entry is posted, no run moves.
LEMMA MatchOneStep ==
    ASSUME PeriodInv, match_one
    PROVE  PeriodInv'
<1>1. /\ UNCHANGED <<today, closedTo, auto_post, asset, cheque, recurring, posted, runner>>
      /\ matched' = "existing" /\ overlaid \subseteq overlaid'
      /\ matched = "counterpart" => "line" \in overlaid'
  BY DEF match_one, match_line, given
<1>2. PeriodTypes'
  BY <1>1 DEF PeriodInv, PeriodTypes
<1>3. \A R : Away(R)
  BY <1>1 DEF Away
<1>4. UNCHANGED <<AssetEntries, ChequeEntries, posted.occurrence, posted.counterpart>>
  BY <1>1 DEF AssetEntries, ChequeEntries
<1>5. LineInv'
  <2> SUFFICES ASSUME "line" \notin overlaid' PROVE LineInv'
    BY DEF LineInv
  <2>1. Sole("line") /\ matched # "counterpart" /\ posted.counterpart = (IF OnStep("match") THEN 1 ELSE 0)
    BY <1>1 DEF PeriodInv, LineInv
  <2> QED
    BY <1>1, <2>1 DEF LineInv, Sole, OnStep
<1> QED
  BY <1>1, <1>2, <1>3, <1>4, <1>5, AssetFrame, ChequeFrame, RecurringFrame DEF PeriodInv

\* Time passes, the lock date moves, or nothing happens.
LEMMA CalendarStep ==
    ASSUME PeriodInv, NextMonth \/ SetLock \/ UNCHANGED periodVars
    PROVE  PeriodInv'
<1>1. UNCHANGED <<asset, cheque, recurring, matched, posted, runner, overlaid>>
  BY DEF NextMonth, SetLock, periodVars, rows
<1>2. today' \in 1..Life /\ closedTo' \in 0..Life /\ auto_post' = auto_post
  BY PeriodAssumption DEF NextMonth, SetLock, periodVars, PeriodInv, PeriodTypes
<1>3. PeriodTypes'
  BY <1>1, <1>2 DEF PeriodInv, PeriodTypes
<1>4. \A R : Away(R)
  BY <1>1 DEF Away
<1>5. UNCHANGED <<AssetEntries, ChequeEntries, posted.occurrence, posted.counterpart>>
  BY <1>1 DEF AssetEntries, ChequeEntries
<1> QED
  BY <1>1, <1>3, <1>4, <1>5, AssetFrame, ChequeFrame, RecurringFrame, LineFrame DEF PeriodInv

LEMMA PeriodStep ==
    ASSUME PeriodInv, [PeriodNext]_periodVars
    PROVE  PeriodInv'
<1>1. PeriodTypes /\ AssetInv /\ ChequeInv /\ RecurringInv /\ LineInv
  BY DEF PeriodInv
<1>2. "asset" \in Records /\ "cheque" \in Records /\ "recurring" \in Records /\ "line" \in Records
  BY DEF Records
<1>3. ASSUME NEW u \in Runners,
             \/ confirm_asset(u) \/ InsertMonth(u) \/ SetRunning(u)
             \/ ReadDue(u) \/ post_due_depreciation(u) \/ FlagMonth(u) \/ MarkFully(u)
             \/ ReadAccumulated(u) \/ dispose_asset(u) \/ SetDisposed(u) \/ DropPlanned(u)
      PROVE  PeriodInv'
  <2>1. PeriodTypes' /\ AssetInv' /\ AssetOnly
    BY <1>1, <1>3, ConfirmRunStep, MonthStep, RunStep, DepreciateStep, FlagStep, FullyStep, DisposeStep
  <2> QED
    BY <1>1, <1>2, <2>1, ChequeFrame, RecurringFrame, LineFrame DEF PeriodInv, AssetOnly
<1>4. ASSUME NEW u \in Runners, ReadCheque(u) \/ PostCheque(u) \/ FlagCheque(u) PROVE PeriodInv'
  <2>1. /\ PeriodTypes' /\ ChequeInv' /\ \A r \in Records \ {"cheque"} : Away(r)
        /\ UNCHANGED <<asset, AssetEntries, recurring, posted.occurrence, matched, posted.counterpart>>
    BY <1>1, <1>4, ChequeStep
  <2> QED
    BY <1>1, <1>2, <2>1, AssetFrame, RecurringFrame, LineFrame DEF PeriodInv
<1>5. ASSUME NEW u \in Runners, ReadNextDate(u) \/ ReadTemplate(u) \/ generate_occurrence(u) \/ AdvanceNextDate(u) PROVE PeriodInv'
  <2>1. /\ PeriodTypes' /\ RecurringInv' /\ \A r \in Records \ {"recurring"} : Away(r)
        /\ UNCHANGED <<asset, AssetEntries, cheque, ChequeEntries, matched, posted.counterpart>>
    BY <1>1, <1>5, RecurringStep
  <2> QED
    BY <1>1, <1>2, <2>1, AssetFrame, ChequeFrame, LineFrame DEF PeriodInv
<1>6. ASSUME NEW u \in Runners, ReadLine(u) \/ quick_counterpart(u) \/ MatchCounterpart(u) PROVE PeriodInv'
  <2>1. /\ PeriodTypes' /\ LineInv' /\ \A r \in Records \ {"line"} : Away(r)
        /\ UNCHANGED <<asset, AssetEntries, cheque, ChequeEntries, recurring, posted.occurrence>>
    BY <1>1, <1>6, LineStep
  <2> QED
    BY <1>1, <1>2, <2>1, AssetFrame, ChequeFrame, RecurringFrame DEF PeriodInv
<1> QED
  BY <1>3, <1>4, <1>5, <1>6, HaltStep, MatchOneStep, CalendarStep DEF PeriodNext

LEMMA PeriodInitially == PeriodInit => PeriodInv
<1> SUFFICES ASSUME PeriodInit PROVE PeriodInv
  OBVIOUS
<1>1. Life \in Nat \ {0} /\ 1 \in Months
  BY PeriodAssumption DEF Months
<1>2. \A u \in Runners : runner[u].at = "idle" /\ runner[u].on = "none"
  BY DEF PeriodInit, Waiting
<1>3. PeriodTypes
  <2>1. runner \in [Runners -> Position] /\ \A u \in Runners : Fits(runner[u])
    BY WaitingTypes DEF PeriodInit
  <2>2. asset \in Asset /\ posted \in PostedRows
    BY DEF PeriodInit, Asset, PostedRows, NothingPosted
  <2>3. today \in 1..Life /\ closedTo \in 0..Life /\ recurring \in 1..(Life + 1)
    BY <1>1 DEF PeriodInit
  <2>4. cheque \in {"holding", "cleared", "bounced"} /\ matched \in {"no", "existing", "counterpart"} /\ auto_post \in BOOLEAN
    BY DEF PeriodInit
  <2> QED
    BY <2>1, <2>2, <2>3, <2>4 DEF PeriodTypes
<1>4. /\ asset.state = "draft" /\ \A k \in Months : asset.plan[k] = "none" /\ posted.depreciation[k] = 0 /\ posted.occurrence[k] = 0
      /\ posted.disposal = 0 /\ posted.derecognised = 0 /\ posted.cleared = 0 /\ posted.bounced = 0 /\ posted.counterpart = 0
      /\ cheque = "holding" /\ recurring = 1 /\ matched = "no"
  BY DEF PeriodInit, NothingPosted
<1>5. AssetInv
  BY <1>2, <1>4 DEF AssetInv, Sole, AssetAsRead, Depreciated, Disposal, OnStep
<1>6. ChequeInv /\ LineInv
  BY <1>2, <1>4 DEF ChequeInv, LineInv, Sole, OnStep, ChequeSteps
<1>7. RecurringInv
  BY <1>1, <1>2, <1>4 DEF RecurringInv, Sole, OnStep, Months
<1> QED
  BY <1>3, <1>5, <1>6, <1>7 DEF PeriodInv

LEMMA PeriodMeans == PeriodInv => PostedAsRecorded
<1> SUFFICES ASSUME PeriodInv PROVE PostedAsRecorded
  OBVIOUS
<1>1. PeriodTypes /\ AssetInv /\ ChequeInv /\ RecurringInv /\ LineInv
  BY DEF PeriodInv
<1>2. \A u \in Runners : runner[u].on = RecordOf(runner[u].at)
  BY <1>1 DEF PeriodTypes, Fits, Dated
<1>3. ASSUME Free("asset")
      PROVE  /\ \A k \in Months : posted.depreciation[k] = (IF asset.plan[k] = "posted" THEN 1 ELSE 0)
             /\ posted.disposal = (IF asset.state = "disposed" THEN 1 ELSE 0)
             /\ asset.state = "disposed" => posted.derecognised = Cardinality({k \in Months : posted.depreciation[k] > 0})
             /\ asset.state = "running" => \A k \in Months : asset.plan[k] # "none"
  <2>1. \A u \in Runners : runner[u].at \notin AssetSteps
    BY <1>2, <1>3 DEF Free, RecordOf, AssetSteps
  <2>2. \A k \in Months : posted.depreciation[k] = (IF asset.plan[k] = "posted" THEN 1 ELSE 0)
    BY <1>1, <1>3, <2>1 DEF AssetInv, Depreciated, AssetSteps, Free
  <2>3. {k \in Months : posted.depreciation[k] > 0} = PostedMonths
    BY <2>2 DEF PostedMonths
  <2>4. Disposal /\ (asset.state = "running" => \A k \in Months : asset.plan[k] # "none") /\ ~OnStep("disposed")
    BY <1>1, <1>3, <2>1 DEF AssetInv, AssetSteps, OnStep, Free
  <2> QED
    BY <2>2, <2>3, <2>4 DEF Disposal
<1>4. ASSUME Free("cheque")
      PROVE  /\ posted.cleared = (IF cheque = "cleared" THEN 1 ELSE 0)
             /\ posted.bounced = (IF cheque = "bounced" THEN 1 ELSE 0)
  <2>1. \A u \in Runners : runner[u].at \notin ChequeSteps
    BY <1>2, <1>4 DEF Free, RecordOf, AssetSteps, ChequeSteps
  <2> QED
    BY <1>1, <1>4, <2>1 DEF ChequeInv, ChequeSteps, OnStep, Free
<1>5. ASSUME Free("recurring")
      PROVE  \A k \in Months : posted.occurrence[k] = (IF k < recurring THEN 1 ELSE 0)
  <2>1. \A u \in Runners : runner[u].at # "advance"
    BY <1>2, <1>5 DEF Free, RecordOf, AssetSteps, ChequeSteps
  <2> QED
    BY <1>1, <1>5, <2>1 DEF RecurringInv, OnStep, Free
<1>6. ASSUME Free("line") PROVE posted.counterpart = (IF matched = "counterpart" THEN 1 ELSE 0)
  <2>1. \A u \in Runners : runner[u].at # "match"
    BY <1>2, <1>6 DEF Free, RecordOf, AssetSteps, ChequeSteps
  <2> QED
    BY <1>1, <1>6, <2>1 DEF LineInv, OnStep, Free
<1> QED
  BY <1>3, <1>4, <1>5, <1>6 DEF PostedAsRecorded

\* post_due_depreciation, dispose_asset, clear_pdc, bounce_pdc,
\* generate_occurrence and quick_counterpart: what has been posted for a
\* record is what the record says, for any number of months and runs.
THEOREM EntriesAreRecorded == PeriodSpec => []PostedAsRecorded
BY PeriodInitially, PeriodStep, PeriodMeans, PTL DEF PeriodSpec

-----------------------------------------------------------------------------
(* The types *)

\* What is noted as overlaid is a record: a run that is under way is on one.
LEMMA OverlaidAreRecords ==
    ASSUME PeriodTypes, overlaid \subseteq Records, [PeriodNext]_periodVars
    PROVE  overlaid' \subseteq Records
<1>1. ASSUME NEW u \in Runners,
             \/ confirm_asset(u) \/ ReadDue(u) \/ ReadAccumulated(u) \/ ReadCheque(u) \/ ReadNextDate(u) \/ ReadLine(u)
      PROVE  overlaid' \subseteq Records
  <2>1. \E r \in Records : \E s, t, n : Launch(u, r, s, t, n)
    <3>1. "asset" \in Records /\ "cheque" \in Records /\ "recurring" \in Records /\ "line" \in Records
      BY DEF Records
    <3>2. ASSUME confirm_asset(u) PROVE Launch(u, "asset", "schedule", Months, 0)
      BY <3>2 DEF confirm_asset
    <3>3. ASSUME ReadDue(u) PROVE \E t : Launch(u, "asset", "post", t, 0)
      BY <3>3 DEF ReadDue
    <3>4. ASSUME ReadAccumulated(u) PROVE \E n : Launch(u, "asset", "dispose", {}, n)
      BY <3>4 DEF ReadAccumulated
    <3>5. ASSUME ReadCheque(u) PROVE \E s : Launch(u, "cheque", s, {}, 0)
      BY <3>5 DEF ReadCheque
    <3>6. ASSUME ReadNextDate(u) PROVE \E t : Launch(u, "recurring", "select", t, 0)
      BY <3>6 DEF ReadNextDate
    <3>7. ASSUME ReadLine(u) PROVE Launch(u, "line", "counter", {}, 0)
      BY <3>7 DEF ReadLine
    <3> QED
      BY <1>1, <3>1, <3>2, <3>3, <3>4, <3>5, <3>6, <3>7
  <2> QED
    BY <2>1 DEF Launch
<1>2. ASSUME NEW u \in Runners,
             \/ InsertMonth(u) \/ SetRunning(u) \/ post_due_depreciation(u) \/ FlagMonth(u) \/ MarkFully(u)
             \/ dispose_asset(u) \/ SetDisposed(u) \/ DropPlanned(u) \/ PostCheque(u) \/ FlagCheque(u)
             \/ ReadTemplate(u) \/ generate_occurrence(u) \/ AdvanceNextDate(u) \/ quick_counterpart(u) \/ MatchCounterpart(u)
      PROVE  overlaid' = overlaid
  BY <1>2 DEF InsertMonth, SetRunning, post_due_depreciation, FlagMonth, MarkFully, dispose_asset, SetDisposed,
              DropPlanned, PostCheque, FlagCheque, ReadTemplate, generate_occurrence, AdvanceNextDate, quick_counterpart, MatchCounterpart
<1>3. ASSUME NEW u \in Runners, Halt(u) PROVE overlaid' \subseteq Records
  <2>1. runner[u].at # "idle" /\ overlaid' \subseteq overlaid \cup {runner[u].on}
    BY <1>3 DEF Halt
  <2>2. runner[u].on = RecordOf(runner[u].at)
    BY DEF PeriodTypes, Fits, Dated
  <2>3. RecordOf(runner[u].at) \in Records
    BY <2>1 DEF RecordOf, Records
  <2> QED
    BY <2>1, <2>2, <2>3
<1>4. CASE NextMonth \/ SetLock \/ UNCHANGED periodVars
  BY <1>4 DEF NextMonth, SetLock, periodVars
<1>5. CASE match_one
  BY <1>5 DEF match_one, Records
<1> QED
  BY <1>1, <1>2, <1>3, <1>4, <1>5 DEF PeriodNext

\* The types as PeriodTypeOK states them.
LEMMA PeriodTypesMean == PeriodTypes /\ overlaid \subseteq Records => PeriodTypeOK
<1> SUFFICES ASSUME PeriodTypes, overlaid \subseteq Records PROVE PeriodTypeOK
  OBVIOUS
<1>1. DOMAIN posted = DOMAIN NothingPosted
  BY DEF PeriodTypes, PostedRows, NothingPosted
<1>2. DOMAIN runner = Runners /\ \A u \in Runners : runner[u] \in Position
  BY DEF PeriodTypes
<1>3. ASSUME NEW u \in Runners
      PROVE  /\ runner[u].at \in {"idle", "schedule", "run", "post", "flag", "full", "dispose", "disposed", "drop",
                                  "clear", "cleared", "bounce", "bounced", "select", "occur", "advance", "counter", "match"}
             /\ runner[u].on \in Records \cup {"none"} /\ runner[u].todo \subseteq Months /\ runner[u].n \in Nat
  BY <1>2 DEF Position, RunSteps, AssetSteps, ChequeSteps, Dated
<1> QED
  BY <1>1, <1>2, <1>3 DEF PeriodTypeOK, PeriodTypes

\* Assets, cheques, recurring entries, statement lines and the runs on them
\* stay in their types, whichever runs overlap or die halfway.
THEOREM PeriodRowsTyped == PeriodSpec => []PeriodTypeOK
<1>1. PeriodInit => overlaid \subseteq Records
  BY DEF PeriodInit
<1>2. PeriodInv /\ overlaid \subseteq Records /\ [PeriodNext]_periodVars => PeriodInv' /\ (overlaid \subseteq Records)'
  BY PeriodStep, OverlaidAreRecords DEF PeriodInv
<1>3. PeriodInv /\ overlaid \subseteq Records => PeriodTypeOK
  BY PeriodTypesMean DEF PeriodInv
<1> QED
  BY PeriodInitially, <1>1, <1>2, <1>3, PTL DEF PeriodSpec

=============================================================================
