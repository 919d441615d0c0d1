------------------------- MODULE SettlementProofs -------------------------
(***************************************************************************)
(* The books agree with the matches, for any number of requests, invoices  *)
(* and payments (Settlement): what a request has read of an entry is still *)
(* so, or the entry has been crossed.                                      *)
(***************************************************************************)
EXTENDS Settlement, Sums, FiniteSetTheorems, TLAPS

(* The invariant *)

Excepted == crossed \cup behind
Desk == [at : {"idle", "legs", "cash", "match", "refresh", "write", "flag", "unpay",
               "open", "reverse", "reversed", "against", "mark", "unpost", "affected", "delete"},
         on : Entries \cup {0}, cash : Nat, legs : [Entries -> Nat], todo : SUBSET Entries, open : Int]

\* What stands where: an entry is named once it is there, and what is
\* claimed of an entry is on the list of entries to refresh.
Placed(r) ==
    /\ r.at = "idle" => r = AtDesk
    /\ r.on \in DOMAIN entry \cup {0} /\ r.todo \subseteq DOMAIN entry
    /\ \A e \in Entries : r.legs[e] > 0 => e \in DOMAIN entry
    /\ r.at \in {"legs", "match"} => r.on = 0
    /\ r.at = "cash" => r.on \in Docs \cup {0} /\ r.cash > 0 /\ (r.on # 0 => r.todo = {})
    /\ r.at \in {"unpay", "open", "reverse", "reversed", "against", "mark"} => r.on \in Docs
    /\ r.at \in {"refresh", "write", "flag"} => r.on \in Payments \cup {0}
    /\ r.at \in {"write", "flag"} => r.todo # {}
    /\ r.at = "unpost" => r.on \in Entries
    /\ r.at \in {"affected", "delete"} => r.on \in Payments
    /\ r.at \in {"cash", "match", "unpay"} => \A e \in Entries : r.legs[e] > 0 => e \in r.todo

BookTypes ==
    /\ Docs \subseteq DOMAIN entry /\ DOMAIN entry \subseteq Entries
    /\ \A e \in DOMAIN entry : entry[e] \in Entry /\ entry[e].total > 0
    /\ pairs \in [Docs \X Payments -> Nat] /\ credited \in [Docs -> Nat]
    /\ \A d \in Docs, p \in Payments : p \notin DOMAIN entry => pairs[<<d, p>>] = 0
    /\ desk \in [Cashiers -> Desk]
    /\ \A u \in Cashiers : Placed(desk[u])
    /\ crossed \subseteq Entries /\ behind \subseteq Entries

\* Amounts claimed for matching are still open.
LegsLeft(u, e) ==
    desk[u].at \in {"cash", "match", "unpay"} /\ desk[u].legs[e] > 0 /\ e \notin crossed
    => Settled(e) + desk[u].legs[e] <= entry[e].total

\* The open amount read for a refresh is still the open amount.
OpenHolds(u) ==
    desk[u].at = "write" /\ Lowest(desk[u].todo) \notin crossed
    => desk[u].open = OpenAmount(Lowest(desk[u].todo))
FlagHolds(u) ==
    desk[u].at = "flag" /\ Lowest(desk[u].todo) \notin crossed
    => LET e == Lowest(desk[u].todo)
       IN OpenAmount(e) = 0 /\ entry[e].residual = 0 /\ entry[e].pay = "paid"

\* Who has an entry still to refresh, and who is cancelling an invoice.
WillRefresh(u, e) == desk[u].at \in {"match", "refresh", "write", "flag"} /\ e \in desk[u].todo
Cancels(u, d) == desk[u].at \in {"open", "reverse", "reversed", "against", "mark"} /\ desk[u].on = d
Marks(u, d) == desk[u].at = "mark" /\ desk[u].on = d
Unmatched(d) == \A p \in Payments : pairs[<<d, p>>] = 0

ReversalHolds(u, d) ==
    desk[u].at \in {"reverse", "reversed", "against"} /\ desk[u].on = d /\ d \notin crossed
    => desk[u].open = OpenAmount(d)
CancelHolds(u, d) ==
    Cancels(u, d) /\ d \notin Excepted
    => /\ entry[d].posted
       /\ desk[u].at \in {"open", "reverse", "reversed"} => entry[d].pay = "not_paid"
       /\ Unmatched(d) \/ \E v \in Cashiers : WillRefresh(v, d)
       /\ desk[u].at \in {"against", "mark"} =>
             entry[d].pay = "reversed" /\ \A v \in Cashiers \ {u} : ~Cancels(v, d)
       /\ desk[u].at = "mark" => Settled(d) = entry[d].total

\* A payment that is being reset is no longer matched; nor is an invoice.
Resets(u, e) == desk[u].at \in {"refresh", "write", "flag", "unpost"} /\ desk[u].on = e
ResetHolds(u, e) == Resets(u, e) /\ e \notin Excepted => Settled(e) = 0

Within(e) == e \notin crossed => Settled(e) <= entry[e].total
DraftUnmatched(e) == e \notin Excepted /\ ~entry[e].posted => Settled(e) = 0 /\ entry[e].pay = "not_paid"
Flagged(e) == e \notin Excepted /\ entry[e].reconciled => Settled(e) >= entry[e].total

\* A cancelled invoice, once it is marked, is out of everybody's reach.
Grasps(u, d) == d \in desk[u].todo \/ Cancels(u, d) \/ (desk[u].at = "unpost" /\ desk[u].on = d)
Terminal(d) ==
    /\ credited[d] > 0 /\ entry[d].posted /\ entry[d].pay = "reversed" /\ entry[d].residual = 0
    /\ Settled(d) = entry[d].total /\ Unmatched(d)
Reversed(d) ==
    d \notin Excepted /\ credited[d] > 0 /\ (\A u \in Cashiers : ~Marks(u, d))
    => Terminal(d) /\ \A u \in Cashiers : ~Grasps(u, d)

\* Somebody has still to write down what has become of the entry.
Busies(u, e) ==
    \/ WillRefresh(u, e)
    \/ desk[u].at \in {"against", "mark"} /\ desk[u].on = e
    \/ e \in Payments /\ Resets(u, e)
Agrees(e) ==
    e \notin Excepted /\ (\A u \in Cashiers : ~Busies(u, e)) /\ entry[e].posted /\ (e \in Docs => credited[e] = 0)
    => /\ entry[e].residual = OpenAmount(e)
       /\ entry[e].pay = PayState(entry[e].residual, entry[e].total)
       /\ entry[e].reconciled = (entry[e].residual = 0)

Reliable(u) ==
    /\ \A e \in Entries : LegsLeft(u, e)
    /\ OpenHolds(u) /\ FlagHolds(u)
    /\ \A d \in Docs : ReversalHolds(u, d) /\ CancelHolds(u, d)
    /\ \A e \in Entries : ResetHolds(u, e)
Booked(e) == Within(e) /\ DraftUnmatched(e) /\ Flagged(e) /\ Agrees(e) /\ (e \in Docs => Reversed(e))

BookInv ==
    /\ BookTypes
    /\ \A u \in Cashiers : Reliable(u)
    /\ \A e \in DOMAIN entry : Booked(e)

-----------------------------------------------------------------------------
(* What has been matched, as sums *)

\* Settled, of any table of matches and any credits.
Matches == [Docs \X Payments -> Nat]
Credits == [Docs -> Nat]
Held(m, c, e) ==
    IF e \in Docs THEN SumFunction([p \in Payments |-> m[<<e, p>>]]) + c[e]
    ELSE SumFunction([d \in Docs |-> m[<<d, e>>]])

\* Invoices and payments are finitely many, and apart.
LEMMA EntriesListed ==
    /\ IsFiniteSet(Docs) /\ IsFiniteSet(Payments) /\ Docs \cap Payments = {} /\ Docs # {}
    /\ Entries \subseteq Nat /\ 0 \notin Entries /\ \A e \in Entries : e \in Docs <=> e \notin Payments
<1>1. Invoices \in Nat \ {0} /\ MaxPayments \in Nat
  BY SettlementAssumption
<1>2. IsFiniteSet(Docs) /\ IsFiniteSet(Payments)
  BY <1>1, FS_Interval DEF Docs, Payments
<1>3. 1 \in Docs
  BY <1>1 DEF Docs
<1> QED
  BY <1>1, <1>2, <1>3 DEF Docs, Payments, Entries

\* A row of naturals has a natural sum, which is zero when they all are.
LEMMA RowSum ==
    ASSUME NEW S, IsFiniteSet(S), NEW f \in [S -> Nat]
    PROVE  /\ SumFunction(f) \in Nat
           /\ SumFunction(f) = 0 <=> \A x \in S : f[x] = 0
<1>1. DOMAIN f = S /\ \A x \in S : f[x] \in Nat
  OBVIOUS
<1>2. SumFunction(f) = SumFunctionOnSet(f, S)
  BY <1>1 DEF SumFunction
<1>3. SumFunctionOnSet(f, S) \in Nat
  BY <1>1, SumNat
<1>4. ASSUME NEW x \in S PROVE f[x] <= SumFunctionOnSet(f, S)
  <2>1. PICK r : r = S \ {x}
    OBVIOUS
  <2>2. SumFunctionOnSet(f, S) = f[x] + SumFunctionOnSet(f, r)
    <3>1. \A y \in S : f[y] \in Int
      OBVIOUS
    <3> QED
      BY <2>1, <3>1, SumWithout
  <2>3. IsFiniteSet(r) /\ \A y \in r : f[y] \in Nat
    BY <2>1, FS_Subset
  <2>4. SumFunctionOnSet(f, r) \in Nat
    BY <2>3, SumNat
  <2> QED
    BY <2>2, <2>4
<1>5. ASSUME \A x \in S : f[x] = 0 PROVE SumFunctionOnSet(f, S) = 0
  <2>1. PICK T : T = {}
    OBVIOUS
  <2>2. T \in SUBSET S /\ (\A x \in S : f[x] \in Int) /\ \A x \in S \ T : f[x] = 0
    BY <1>5, <2>1
  <2>3. SumFunctionOnSet(f, S) = SumFunctionOnSet(f, T)
    BY <2>2, SumPadded
  <2> QED
    BY <2>1, <2>3, SumOfNothing
<1>6. (\A x \in S : f[x] = 0) => SumFunctionOnSet(f, S) = 0
  BY <1>5
<1>7. SumFunctionOnSet(f, S) = 0 => \A x \in S : f[x] = 0
  BY <1>1, <1>4
<1> QED
  BY <1>2, <1>3, <1>6, <1>7

\* One more match in a row.
LEMMA RowGrows ==
    ASSUME NEW S, IsFiniteSet(S), NEW f \in [S -> Nat], NEW g \in [S -> Nat], NEW x \in S, NEW k \in Nat,
           g[x] = f[x] + k, \A y \in S \ {x} : g[y] = f[y]
    PROVE  SumFunction(g) = SumFunction(f) + k
<1>1. DOMAIN f = S /\ DOMAIN g = S /\ \A y \in S : f[y] \in Int /\ g[y] \in Int
  OBVIOUS
<1>2. \A y \in S \ {x} : f[y] = g[y]
  OBVIOUS
<1>3. SumFunctionOnSet(g, S) = SumFunctionOnSet(f, S) + (g[x] - f[x])
  BY <1>1, <1>2, SumOneChange
<1>4. SumFunctionOnSet(f, S) \in Int
  BY <1>1, SumInt
<1> QED
  BY <1>1, <1>3, <1>4 DEF SumFunction

\* A row from which matches are deleted.
LEMMA RowShrinks ==
    ASSUME NEW S, IsFiniteSet(S), NEW f \in [S -> Nat], NEW g \in [S -> Nat], \A y \in S : g[y] <= f[y]
    PROVE  SumFunction(g) <= SumFunction(f)
<1>1. DOMAIN f = S /\ DOMAIN g = S /\ \A y \in S : g[y] \in Int /\ f[y] \in Int /\ g[y] <= f[y]
  OBVIOUS
<1>2. SumFunctionOnSet(g, S) <= SumFunctionOnSet(f, S)
  BY <1>1, SumMonotone
<1> QED
  BY <1>1, <1>2 DEF SumFunction

\* The rows and columns of the table of matches.
LEMMA RowsOf ==
    ASSUME NEW m \in Matches, NEW c \in Credits
    PROVE  /\ \A d \in Docs :
                 /\ [p \in Payments |-> m[<<d, p>>]] \in [Payments -> Nat]
                 /\ Held(m, c, d) = SumFunction([p \in Payments |-> m[<<d, p>>]]) + c[d]
           /\ \A p \in Payments :
                 /\ [d \in Docs |-> m[<<d, p>>]] \in [Docs -> Nat]
                 /\ Held(m, c, p) = SumFunction([d \in Docs |-> m[<<d, p>>]])
<1> USE DEF Matches, Credits
<1>1. \A p \in Payments : p \notin Docs
  BY EntriesListed
<1> QED
  BY <1>1 DEF Held

\* What is matched is a natural, and zero when nothing is.
LEMMA HeldNat ==
    ASSUME NEW m \in Matches, NEW c \in Credits, NEW e \in Entries
    PROVE  /\ Held(m, c, e) \in Nat
           /\ e \in Docs => (Held(m, c, e) = 0 => c[e] = 0 /\ \A p \in Payments : m[<<e, p>>] = 0)
           /\ e \in Docs => ((\A p \in Payments : m[<<e, p>>] = 0) => Held(m, c, e) = c[e])
           /\ e \in Payments => (Held(m, c, e) = 0 <=> \A d \in Docs : m[<<d, e>>] = 0)
<1> USE DEF Matches, Credits
<1>1. CASE e \in Docs
  <2>1. PICK f : f = [p \in Payments |-> m[<<e, p>>]]
    OBVIOUS
  <2>2. f \in [Payments -> Nat] /\ Held(m, c, e) = SumFunction(f) + c[e] /\ c[e] \in Nat
    BY <1>1, <2>1, RowsOf
  <2>3. SumFunction(f) \in Nat /\ (SumFunction(f) = 0 <=> \A p \in Payments : f[p] = 0)
    BY <2>2, RowSum, EntriesListed
  <2>4. e \notin Payments /\ \A p \in Payments : f[p] = m[<<e, p>>]
    BY <1>1, <2>1, EntriesListed
  <2>5. Held(m, c, e) \in Nat
    BY <2>2, <2>3
  <2>6. ASSUME Held(m, c, e) = 0 PROVE c[e] = 0 /\ SumFunction(f) = 0
    BY <2>2, <2>3, <2>6
  <2>7. ASSUME SumFunction(f) = 0 PROVE Held(m, c, e) = c[e]
    BY <2>2, <2>7
  <2> QED
    BY <1>1, <2>3, <2>4, <2>5, <2>6, <2>7
<1>2. CASE e \in Payments
  <2>1. PICK f : f = [d \in Docs |-> m[<<d, e>>]]
    OBVIOUS
  <2>2. f \in [Docs -> Nat] /\ Held(m, c, e) = SumFunction(f)
    BY <1>2, <2>1, RowsOf
  <2>3. SumFunction(f) \in Nat /\ (SumFunction(f) = 0 <=> \A d \in Docs : f[d] = 0)
    BY <2>2, RowSum, EntriesListed
  <2>4. e \notin Docs /\ \A d \in Docs : f[d] = m[<<d, e>>]
    BY <1>2, <2>1, EntriesListed
  <2> QED
    BY <1>2, <2>2, <2>3, <2>4
<1> QED
  BY <1>1, <1>2 DEF Entries

\* An invoice whose matches and credit are the same holds the same, and so
\* does a payment.
LEMMA HeldSameDoc ==
    ASSUME NEW m, NEW c, NEW n, NEW b, NEW e \in Docs, b[e] = c[e], \A p \in Payments : n[<<e, p>>] = m[<<e, p>>]
    PROVE  Held(n, b, e) = Held(m, c, e)
<1>1. [p \in Payments |-> m[<<e, p>>]] = [p \in Payments |-> n[<<e, p>>]]
  OBVIOUS
<1> QED
  BY <1>1 DEF Held
LEMMA HeldSamePayment ==
    ASSUME NEW m, NEW c, NEW n, NEW b, NEW e \in Payments, \A d \in Docs : n[<<d, e>>] = m[<<d, e>>]
    PROVE  Held(n, b, e) = Held(m, c, e)
<1>1. [d \in Docs |-> m[<<d, e>>]] = [d \in Docs |-> n[<<d, e>>]] /\ e \notin Docs
  BY EntriesListed
<1> QED
  BY <1>1 DEF Held

\* MatchNext: one match more, for an invoice and a payment.
LEMMA HeldMatched ==
    ASSUME NEW m \in Matches, NEW c \in Credits,
           NEW d \in Docs, NEW p \in Payments, NEW k \in Nat, NEW n \in Matches,
           n[<<d, p>>] = m[<<d, p>>] + k,
           \A x \in Docs, y \in Payments : x # d \/ y # p => n[<<x, y>>] = m[<<x, y>>]
    PROVE  /\ Held(n, c, d) = Held(m, c, d) + k /\ Held(n, c, p) = Held(m, c, p) + k
           /\ \A e \in Entries \ {d, p} : Held(n, c, e) = Held(m, c, e)
<1> USE DEF Matches, Credits
<1>3. Held(n, c, d) = Held(m, c, d) + k
  <2>1. PICK f, g : f = [y \in Payments |-> m[<<d, y>>]] /\ g = [y \in Payments |-> n[<<d, y>>]]
    OBVIOUS
  <2>2. f \in [Payments -> Nat] /\ Held(m, c, d) = SumFunction(f) + c[d]
    BY ZenonT(90), <2>1, RowsOf
  <2>3. g \in [Payments -> Nat] /\ Held(n, c, d) = SumFunction(g) + c[d]
    BY <2>1, RowsOf
  <2>4. g[p] = f[p] + k /\ \A y \in Payments \ {p} : g[y] = f[y]
    BY <2>1
  <2>5. SumFunction(g) = SumFunction(f) + k
    BY SMTT(60), <2>2, <2>3, <2>4, RowGrows, EntriesListed
  <2>6. SumFunction(f) \in Nat /\ c[d] \in Nat
    BY <2>2, RowSum, EntriesListed
  <2> QED
    BY <2>2, <2>3, <2>5, <2>6
<1>4. Held(n, c, p) = Held(m, c, p) + k
  <2>1. PICK f, g : f = [x \in Docs |-> m[<<x, p>>]] /\ g = [x \in Docs |-> n[<<x, p>>]]
    OBVIOUS
  <2>2. f \in [Docs -> Nat] /\ Held(m, c, p) = SumFunction(f)
    BY <2>1, RowsOf
  <2>3. g \in [Docs -> Nat] /\ Held(n, c, p) = SumFunction(g)
    BY <2>1, RowsOf
  <2>4. g[d] = f[d] + k /\ \A x \in Docs \ {d} : g[x] = f[x]
    BY <2>1
  <2>5. SumFunction(g) = SumFunction(f) + k
    BY SMTT(60), <2>2, <2>3, <2>4, RowGrows, EntriesListed
  <2> QED
    BY <2>2, <2>3, <2>5
<1>5. ASSUME NEW e \in Entries \ {d, p} PROVE Held(n, c, e) = Held(m, c, e)
  <2>1. e \in Entries /\ e # d /\ e # p /\ d \notin Payments /\ p \notin Docs
    BY <1>5, EntriesListed
  <2>2. CASE e \in Docs
    <3>1. \A y \in Payments : n[<<e, y>>] = m[<<e, y>>]
      BY <2>1, <2>2
    <3> QED
      BY <2>2, <3>1, HeldSameDoc
  <2>3. CASE e \in Payments
    <3>1. \A x \in Docs : n[<<x, e>>] = m[<<x, e>>]
      BY <2>1, <2>3
    <3> QED
      BY <2>3, <3>1, HeldSamePayment
  <2> QED
    BY <2>1, <2>2, <2>3 DEF Entries
<1> QED
  BY <1>3, <1>4, <1>5

\* DeletePairs: the matches of one payment go.
LEMMA HeldDeleted ==
    ASSUME NEW m \in Matches, NEW c \in Credits, NEW p \in Payments,
           NEW n, n = [x \in Docs \X Payments |-> IF x[2] = p THEN 0 ELSE m[x]]
    PROVE  /\ n \in Matches
           /\ \A d \in Docs : n[<<d, p>>] = 0 /\ \A y \in Payments \ {p} : n[<<d, y>>] = m[<<d, y>>]
           /\ Held(n, c, p) = 0
           /\ \A d \in Docs : Held(n, c, d) <= Held(m, c, d) /\ (m[<<d, p>>] = 0 => Held(n, c, d) = Held(m, c, d))
           /\ \A y \in Payments \ {p} : Held(n, c, y) = Held(m, c, y)
<1> USE DEF Matches, Credits
<1>1. n \in [Docs \X Payments -> Nat]
  OBVIOUS
<1>2. \A d \in Docs : n[<<d, p>>] = 0 /\ \A y \in Payments \ {p} : n[<<d, y>>] = m[<<d, y>>]
  OBVIOUS
<1>3. Held(n, c, p) = 0
  BY <1>1, <1>2, HeldNat DEF Entries
<1>4. ASSUME NEW d \in Docs
      PROVE  Held(n, c, d) <= Held(m, c, d) /\ (m[<<d, p>>] = 0 => Held(n, c, d) = Held(m, c, d))
  <2>1. PICK f, g : f = [y \in Payments |-> m[<<d, y>>]] /\ g = [y \in Payments |-> n[<<d, y>>]]
    OBVIOUS
  <2>2. f \in [Payments -> Nat] /\ Held(m, c, d) = SumFunction(f) + c[d]
    BY <2>1, RowsOf
  <2>3. g \in [Payments -> Nat] /\ Held(n, c, d) = SumFunction(g) + c[d]
    BY <1>1, <2>1, RowsOf
  <2>4. \A y \in Payments : g[y] <= f[y]
    BY <1>2, <2>1, <2>2, <2>3
  <2>5. SumFunction(g) <= SumFunction(f)
    BY <2>2, <2>3, <2>4, RowShrinks, EntriesListed
  <2>6. SumFunction(f) \in Nat /\ SumFunction(g) \in Nat /\ c[d] \in Nat
    BY <2>2, <2>3, RowSum, EntriesListed
  <2>7. m[<<d, p>>] = 0 => f = g
    BY <1>2, <2>1
  <2> QED
    BY <2>2, <2>3, <2>5, <2>6, <2>7
<1>5. ASSUME NEW y \in Payments \ {p} PROVE Held(n, c, y) = Held(m, c, y)
  <2>1. \A d \in Docs : n[<<d, y>>] = m[<<d, y>>]
    BY <1>2
  <2> QED
    BY <2>1, HeldSamePayment
<1> QED
  BY <1>1, <1>2, <1>3, <1>4, <1>5

-----------------------------------------------------------------------------
(* Reading the state *)

\* What is settled is a natural number, zero only when nothing is matched.
LEMMA SettledNat ==
    ASSUME BookTypes
    PROVE  /\ \A e \in Entries : Settled(e) \in Nat
           /\ \A d \in Docs : /\ Settled(d) = 0 => credited[d] = 0 /\ Unmatched(d)
                              /\ Unmatched(d) => Settled(d) = credited[d]
           /\ \A p \in Payments : Settled(p) = 0 <=> \A d \in Docs : pairs[<<d, p>>] = 0
<1>1. pairs \in Matches /\ credited \in Credits
  BY DEF BookTypes, Matches, Credits
<1>2. \A e : Settled(e) = Held(pairs, credited, e)
  BY DEF Settled, Held
<1>3. \A e \in Entries : Held(pairs, credited, e) \in Nat
  BY <1>1, HeldNat
<1>4. ASSUME NEW d \in Docs
      PROVE  /\ Held(pairs, credited, d) = 0 => credited[d] = 0 /\ Unmatched(d)
             /\ Unmatched(d) => Held(pairs, credited, d) = credited[d]
  BY <1>1, HeldNat DEF Unmatched, Entries
<1>5. ASSUME NEW p \in Payments
      PROVE  Held(pairs, credited, p) = 0 <=> \A d \in Docs : pairs[<<d, p>>] = 0
  BY <1>1, HeldNat DEF Entries
<1> QED
  BY <1>2, <1>3, <1>4, <1>5

\* No table moves and nothing is settled.
LEMMA SettledStays ==
    ASSUME UNCHANGED <<pairs, credited>>
    PROVE  \A e : Settled(e)' = Settled(e) /\ (Unmatched(e)' <=> Unmatched(e))
BY DEF Settled, Unmatched

\* The entry a refresh turns to next is on its list.
LEMMA LowestIsOne ==
    ASSUME NEW T, T \subseteq Entries, T # {}
    PROVE  Lowest(T) \in T
<1>1. T \subseteq Nat
  BY EntriesListed
<1>2. \E e \in T : \A x \in T : e <= x
  BY <1>1, LeastNumber
<1> QED
  BY <1>2 DEF Lowest

\* A place stays a place when entries are added.
LEMMA PlacedStays ==
    ASSUME DOMAIN entry \subseteq DOMAIN entry', NEW r, Placed(r)
    PROVE  Placed(r)'
BY DEF Placed

\* The types as SettlementTypeOK states them.
LEMMA BookTypesMean == BookTypes => SettlementTypeOK
BY DEF BookTypes, SettlementTypeOK, Desk

\* What is known of an entry and of a desk, for the steps.
LEMMA Known ==
    ASSUME BookTypes
    PROVE  /\ \A e \in DOMAIN entry :
                 /\ e \in Entries /\ e \in Nat /\ e # 0 /\ entry[e] \in Entry
                 /\ entry[e].total \in Nat /\ entry[e].total > 0 /\ entry[e].residual \in Nat
                 /\ Settled(e) \in Nat /\ OpenAmount(e) = entry[e].total - Settled(e)
           /\ Docs \subseteq DOMAIN entry
           /\ \A u \in Cashiers :
                 /\ desk[u] \in Desk /\ Placed(desk[u])
                 /\ desk[u].open \in Int /\ desk[u].cash \in Nat
                 /\ desk[u].legs \in [Entries -> Nat] /\ desk[u].todo \subseteq DOMAIN entry
<1>1. \A e \in DOMAIN entry : e \in Entries /\ entry[e] \in Entry /\ entry[e].total > 0
  BY DEF BookTypes
<1>2. \A e \in DOMAIN entry : entry[e].total \in Nat /\ entry[e].residual \in Nat
  BY <1>1 DEF Entry
<1>3. \A e \in DOMAIN entry : Settled(e) \in Nat
  BY <1>1, SettledNat
<1>4. \A u \in Cashiers : desk[u] \in Desk /\ Placed(desk[u])
  BY DEF BookTypes
<1>5. \A u \in Cashiers : /\ desk[u].open \in Int /\ desk[u].cash \in Nat
                          /\ desk[u].legs \in [Entries -> Nat]
  BY <1>4 DEF Desk
<1>6. \A u \in Cashiers : desk[u].todo \subseteq DOMAIN entry
  BY <1>4 DEF Placed
<1> QED
  BY <1>1, <1>2, <1>3, <1>4, <1>5, <1>6, EntriesListed DEF OpenAmount, BookTypes

-----------------------------------------------------------------------------
(* What a step leaves to the others *)

\* For the settlement an entry stays as it is, its flag aside.
Same(e) ==
    /\ Settled(e)' = Settled(e) /\ (e \in Docs /\ Unmatched(e) => Unmatched(e)')
    /\ entry'[e].posted = entry[e].posted /\ entry'[e].pay = entry[e].pay
    /\ entry'[e].residual = entry[e].residual
Untouched(e) ==
    /\ Same(e) /\ entry'[e].reconciled = entry[e].reconciled
    /\ e \in Docs => credited'[e] = credited[e]

\* A step crosses every entry it changes under one of the desks of W.
Guarded(W) ==
    /\ crossed \subseteq crossed' /\ behind \subseteq behind' /\ DOMAIN entry \subseteq DOMAIN entry'
    /\ \A v \in W : desk'[v] = desk[v]
    /\ \A e \in DOMAIN entry : entry'[e].total = entry[e].total
    /\ \A v \in W : \A e \in DOMAIN entry : Relies(v, e) /\ e \notin crossed' => Same(e)

\* A desk leaves no refresh undone on an invoice that another cancels, and
\* begins to cancel only what is not paid.
Steady(w) ==
    \A d \in Docs :
        d \notin Excepted' =>
            /\ WillRefresh(w, d) => WillRefresh(w, d)' \/ \A v \in Cashiers \ {w} : ~Cancels(v, d)
            /\ Cancels(w, d)' => Cancels(w, d) \/ entry[d].pay = "not_paid"

\* A desk leaves no entry without what it owes it, and cannot reach an
\* invoice that is cancelled.
Loyal(w, e) ==
    e \notin Excepted' =>
        /\ Busies(w, e) => Busies(w, e)'
        /\ e \in Docs /\ Marks(w, e) => Marks(w, e)'
        /\ e \in Docs /\ Terminal(e) /\ ~Grasps(w, e) => ~Grasps(w, e)'

\* The other desks may still rely on what they have read.
LEMMA OthersRely ==
    ASSUME BookInv, NEW W \in SUBSET Cashiers, Guarded(W), \A w \in Cashiers \ W : Steady(w), NEW v \in W
    PROVE  Reliable(v)'
<1>1. /\ BookTypes /\ Reliable(v) /\ v \in Cashiers
      /\ crossed \subseteq crossed' /\ behind \subseteq behind' /\ desk'[v] = desk[v]
  BY DEF BookInv, Guarded
<1>2. \A e \in DOMAIN entry : /\ entry'[e].total = entry[e].total
                              /\ Relies(v, e) /\ e \notin crossed' => Same(e)
  BY DEF Guarded
<1>3. \A e \in DOMAIN entry : e \notin Excepted' => e \notin Excepted /\ e \notin crossed'
  BY <1>1 DEF Excepted
<1>4. \A e \in Entries : LegsLeft(v, e)'
  <2> SUFFICES ASSUME NEW e \in Entries, desk[v].at \in {"cash", "match", "unpay"}, desk[v].legs[e] > 0, e \notin crossed'
               PROVE  Settled(e)' + desk[v].legs[e] <= entry'[e].total
    BY <1>1 DEF LegsLeft
  <2>1. e \in DOMAIN entry
    BY <1>1, Known DEF Placed
  <2>2. Relies(v, e)
    BY DEF Relies
  <2>3. Settled(e)' = Settled(e) /\ entry'[e].total = entry[e].total
    BY <1>2, <2>1, <2>2 DEF Same
  <2>4. Settled(e) + desk[v].legs[e] <= entry[e].total
    BY <1>1 DEF Reliable, LegsLeft
  <2> QED
    BY <2>3, <2>4
<1>5. OpenHolds(v)' /\ FlagHolds(v)'
  <2> SUFFICES ASSUME desk[v].at \in {"write", "flag"}, NEW e, e = Lowest(desk[v].todo), e \notin crossed'
               PROVE  /\ desk[v].at = "write" => desk[v].open = OpenAmount(e)'
                      /\ desk[v].at = "flag" => OpenAmount(e)' = 0 /\ entry'[e].residual = 0 /\ entry'[e].pay = "paid"
    BY <1>1 DEF OpenHolds, FlagHolds
  <2>1. e \in desk[v].todo /\ e \in DOMAIN entry
    <3>1. Placed(desk[v]) /\ desk[v].todo \subseteq DOMAIN entry /\ DOMAIN entry \subseteq Entries
      BY <1>1, Known
    <3>2. desk[v].todo # {}
      BY <3>1 DEF Placed
    <3> QED
      BY <3>1, <3>2, LowestIsOne
  <2>2. Relies(v, e)
    BY DEF Relies
  <2>3. Same(e) /\ entry'[e].total = entry[e].total
    BY <1>2, <2>1, <2>2
  <2>4. OpenAmount(e)' = OpenAmount(e)
    BY <2>3 DEF OpenAmount, Same
  <2>5. e \notin crossed
    BY <1>1
  <2>6. desk[v].at = "write" => desk[v].open = OpenAmount(e)
    BY <1>1, <2>5 DEF Reliable, OpenHolds
  <2>7. desk[v].at = "flag" => OpenAmount(e) = 0 /\ entry[e].residual = 0 /\ entry[e].pay = "paid"
    BY <1>1, <2>5 DEF Reliable, FlagHolds
  <2> QED
    BY <2>3, <2>4, <2>6, <2>7 DEF Same
<1>6. \A d \in Docs : CancelHolds(v, d)'
  <2> SUFFICES ASSUME NEW d \in Docs, Cancels(v, d)', d \notin Excepted' PROVE CancelHolds(v, d)'
    BY DEF CancelHolds
  <2>1. Cancels(v, d) /\ d \in DOMAIN entry
    BY <1>1, Known DEF Cancels
  <2>2. d \notin Excepted /\ d \notin crossed'
    BY <1>3, <2>1
  <2>3. Relies(v, d)
    BY <2>1 DEF Relies, Cancels
  <2>4. Same(d) /\ entry'[d].total = entry[d].total
    BY <1>2, <2>1, <2>2, <2>3
  <2>6. /\ entry[d].posted
        /\ desk[v].at \in {"open", "reverse", "reversed"} => entry[d].pay = "not_paid"
        /\ Unmatched(d) \/ \E x \in Cashiers : WillRefresh(x, d)
        /\ desk[v].at \in {"against", "mark"} =>
              entry[d].pay = "reversed" /\ \A x \in Cashiers \ {v} : ~Cancels(x, d)
        /\ desk[v].at = "mark" => Settled(d) = entry[d].total
    BY <1>1, <2>1, <2>2 DEF Reliable, CancelHolds
  <2>7. \A x \in Cashiers : WillRefresh(x, d) => WillRefresh(x, d)'
    <3> SUFFICES ASSUME NEW x \in Cashiers, WillRefresh(x, d) PROVE WillRefresh(x, d)'
      OBVIOUS
    <3>1. CASE x \in W
      <4>1. desk'[x] = desk[x]
        BY <3>1 DEF Guarded
      <4> QED
        BY <4>1 DEF WillRefresh
    <3>2. CASE x \notin W
      <4>1. Steady(x) /\ x # v
        BY <3>2
      <4> QED
        BY <1>1, <2>1, <4>1 DEF Steady
    <3> QED
      BY <3>1, <3>2
  <2>8. desk[v].at \in {"against", "mark"} => \A x \in Cashiers \ {v} : ~Cancels(x, d)'
    <3> SUFFICES ASSUME desk[v].at \in {"against", "mark"}, NEW x \in Cashiers \ {v}, Cancels(x, d)' PROVE FALSE
      OBVIOUS
    <3>1. CASE x \in W
      <4>1. desk'[x] = desk[x]
        BY <3>1 DEF Guarded
      <4> QED
        BY <2>6, <4>1 DEF Cancels
    <3>2. CASE x \notin W
      <4>1. Steady(x)
        BY <3>2
      <4> QED
        BY <2>6, <4>1 DEF Steady
    <3> QED
      BY <3>1, <3>2
  <2>9. Unmatched(d)' \/ \E x \in Cashiers : WillRefresh(x, d)'
    BY <2>4, <2>6, <2>7 DEF Same
  <2>10. /\ entry'[d].posted
         /\ desk'[v].at \in {"open", "reverse", "reversed"} => entry'[d].pay = "not_paid"
         /\ desk'[v].at \in {"against", "mark"} => entry'[d].pay = "reversed"
         /\ desk'[v].at = "mark" => Settled(d)' = entry'[d].total
    BY <1>1, <2>4, <2>6 DEF Same
  <2>11. desk'[v].at \in {"against", "mark"} => \A x \in Cashiers \ {v} : ~Cancels(x, d)'
    BY <1>1, <2>8
  <2> QED
    BY <2>9, <2>10, <2>11 DEF CancelHolds
<1>7. \A e \in Entries : ResetHolds(v, e)'
  <2> SUFFICES ASSUME NEW e \in Entries, Resets(v, e)', e \notin Excepted' PROVE Settled(e)' = 0
    BY DEF ResetHolds
  <2>1. Resets(v, e)
    BY <1>1 DEF Resets
  <2>2. e \in DOMAIN entry
    <3>1. Placed(desk[v]) /\ e # 0
      BY <1>1, Known, EntriesListed
    <3> QED
      BY <2>1, <3>1 DEF Placed, Resets
  <2>3. Relies(v, e)
    BY <2>1 DEF Relies, Resets
  <2>4. Settled(e)' = Settled(e)
    BY <1>2, <1>3, <2>2, <2>3 DEF Same
  <2>5. Settled(e) = 0
    BY <1>1, <1>3, <2>1, <2>2 DEF Reliable, ResetHolds
  <2> QED
    BY <2>4, <2>5
<1>8. \A d \in Docs : ReversalHolds(v, d)'
  <2> SUFFICES ASSUME NEW d \in Docs, desk[v].at \in {"reverse", "reversed", "against"}, desk[v].on = d, d \notin crossed'
               PROVE  desk[v].open = OpenAmount(d)'
    BY <1>1 DEF ReversalHolds
  <2>1. d \in DOMAIN entry /\ Relies(v, d)
    BY <1>1, Known DEF Relies
  <2>2. OpenAmount(d)' = OpenAmount(d)
    BY <1>2, <2>1 DEF OpenAmount, Same
  <2> QED
    BY <1>1, <2>2 DEF Reliable, ReversalHolds
<1> QED
  BY <1>4, <1>5, <1>6, <1>7, <1>8 DEF Reliable

\* An entry that is not touched stays booked as it was.
LEMMA EntryStays ==
    ASSUME BookInv, NEW W \in SUBSET Cashiers, Guarded(W), NEW e \in DOMAIN entry, Untouched(e),
           \A w \in Cashiers \ W : Loyal(w, e)
    PROVE  Booked(e)'
<1>1. Booked(e) /\ (e \notin crossed' => e \notin crossed) /\ (e \notin Excepted' => e \notin Excepted)
  BY DEF BookInv, Guarded, Excepted
<1>2. /\ Settled(e)' = Settled(e) /\ (e \in Docs /\ Unmatched(e) => Unmatched(e)')
      /\ entry'[e].posted = entry[e].posted /\ entry'[e].pay = entry[e].pay
      /\ entry'[e].residual = entry[e].residual /\ entry'[e].reconciled = entry[e].reconciled
      /\ entry'[e].total = entry[e].total /\ (e \in Docs => credited'[e] = credited[e])
  BY DEF Untouched, Same, Guarded
<1>3. OpenAmount(e)' = OpenAmount(e)
  BY <1>2 DEF OpenAmount
<1>4. Within(e)'
  BY <1>1, <1>2 DEF Booked, Within
<1>5. DraftUnmatched(e)'
  BY <1>1, <1>2, Zenon DEF Booked, DraftUnmatched
<1>6. Flagged(e)'
  BY <1>1, <1>2, Zenon DEF Booked, Flagged
<1>7. \A w \in Cashiers : \/ desk'[w] = desk[w]
                          \/ Loyal(w, e)
  BY DEF Guarded
<1>8. Agrees(e)'
  <2> SUFFICES ASSUME e \notin Excepted', \A u \in Cashiers : ~Busies(u, e)', entry'[e].posted, e \in Docs => credited'[e] = 0
               PROVE  /\ entry'[e].residual = OpenAmount(e)'
                      /\ entry'[e].pay = PayState(entry'[e].residual, entry'[e].total)
                      /\ entry'[e].reconciled = (entry'[e].residual = 0)
    BY Zenon DEF Agrees, PayState
  <2>1. \A u \in Cashiers : ~Busies(u, e)
    <3> SUFFICES ASSUME NEW w \in Cashiers, Busies(w, e) PROVE FALSE
      OBVIOUS
    <3>1. CASE desk'[w] = desk[w]
      BY <3>1 DEF Busies, WillRefresh, Resets
    <3>2. CASE Loyal(w, e)
      BY <3>2 DEF Loyal
    <3> QED
      BY <1>7, <3>1, <3>2
  <2>2. /\ entry[e].residual = OpenAmount(e)
        /\ entry[e].pay = PayState(entry[e].residual, entry[e].total)
        /\ entry[e].reconciled = (entry[e].residual = 0)
    <3>1. e \notin Excepted /\ entry[e].posted /\ (e \in Docs => credited[e] = 0)
      BY <1>1, <1>2, Zenon
    <3> QED
      BY <1>1, <2>1, <3>1, Zenon DEF Booked, Agrees
  <2> QED
    BY <1>2, <1>3, <2>2, Zenon
<1>9. e \in Docs => Reversed(e)'
  <2> SUFFICES ASSUME e \in Docs, e \notin Excepted', credited'[e] > 0, \A u \in Cashiers : ~Marks(u, e)'
               PROVE  Terminal(e)' /\ \A u \in Cashiers : ~Grasps(u, e)'
    BY DEF Reversed
  <2>1. \A u \in Cashiers : ~Marks(u, e)
    <3> SUFFICES ASSUME NEW w \in Cashiers, Marks(w, e) PROVE FALSE
      OBVIOUS
    <3>1. CASE desk'[w] = desk[w]
      BY <3>1 DEF Marks
    <3>2. CASE Loyal(w, e)
      BY <3>2 DEF Loyal
    <3> QED
      BY <1>7, <3>1, <3>2
  <2>2. Terminal(e) /\ \A u \in Cashiers : ~Grasps(u, e)
    BY <1>1, <1>2, <2>1 DEF Booked, Reversed
  <2>3. Terminal(e)'
    BY <1>2, <2>2, Zenon DEF Terminal
  <2>4. ASSUME NEW w \in Cashiers PROVE ~Grasps(w, e)'
    <3>1. CASE desk'[w] = desk[w]
      BY <2>2, <3>1 DEF Grasps, Cancels
    <3>2. CASE Loyal(w, e)
      BY <2>2, <3>2 DEF Loyal
    <3> QED
      BY <1>7, <3>1, <3>2
  <2> QED
    BY <2>3, <2>4
<1> QED
  BY <1>4, <1>5, <1>6, <1>8, <1>9 DEF Booked

\* A step of one desk: what it has read, and the entries of T it touches,
\* have to be looked at; the rest follows.
LEMMA StepKeeps ==
    ASSUME BookInv, NEW u \in Cashiers, NEW T, BookTypes', Guarded(Cashiers \ {u}), Steady(u), Reliable(u)',
           \A e \in DOMAIN entry \ T : Untouched(e) /\ Loyal(u, e),
           \A e \in T : e \in DOMAIN entry' => Booked(e)',
           DOMAIN entry' \subseteq DOMAIN entry \cup T
    PROVE  BookInv'
<1>1. PICK W : W = Cashiers \ {u}
  OBVIOUS
<1>2. W \in SUBSET Cashiers /\ Guarded(W) /\ \A w \in Cashiers \ W : w = u
  BY <1>1
<1>3. \A v \in W : Reliable(v)'
  BY <1>2, OthersRely
<1>4. \A v \in Cashiers : Reliable(v)'
  BY <1>1, <1>3
<1>5. ASSUME NEW e \in DOMAIN entry \ T PROVE Booked(e)'
  <2>1. \A w \in Cashiers \ W : Loyal(w, e)
    BY <1>2
  <2> QED
    BY <1>2, <2>1, EntryStays
<1>6. \A e \in DOMAIN entry' : Booked(e)'
  BY <1>5
<1> QED
  BY <1>4, <1>6 DEF BookInv

-----------------------------------------------------------------------------
(* Steps that only read *)

\* The types, when one desk moves.
LEMMA TypesStay ==
    ASSUME BookTypes, NEW u \in Cashiers, NEW r \in Desk, Placed(r)', desk' = [desk EXCEPT ![u] = r],
           DOMAIN entry \subseteq DOMAIN entry', DOMAIN entry' \subseteq Entries,
           \A e \in DOMAIN entry' : entry'[e] \in Entry /\ entry'[e].total > 0,
           pairs' \in [Docs \X Payments -> Nat], credited' \in [Docs -> Nat],
           \A d \in Docs, p \in Payments : p \notin DOMAIN entry' => pairs'[<<d, p>>] = 0,
           crossed' \subseteq Entries, behind' \subseteq Entries
    PROVE  BookTypes' /\ desk'[u] = r /\ \A v \in Cashiers \ {u} : desk'[v] = desk[v]
<1>1. desk \in [Cashiers -> Desk] /\ \A v \in Cashiers : Placed(desk[v])
  BY DEF BookTypes
<1>2. desk' \in [Cashiers -> Desk] /\ desk'[u] = r /\ \A v \in Cashiers \ {u} : desk'[v] = desk[v]
  BY <1>1
<1>3. ASSUME NEW v \in Cashiers PROVE Placed(desk[v])'
  <2>1. CASE v = u
    BY <1>2, <2>1 DEF Placed
  <2>2. CASE v # u
    <3>1. PICK q : q = desk[v]
      OBVIOUS
    <3>2. Placed(q)'
      BY <1>1, <3>1, PlacedStays
    <3> QED
      BY <1>2, <2>2, <3>1, <3>2 DEF Placed
  <2> QED
    BY <2>1, <2>2
<1>4. Docs \subseteq DOMAIN entry'
  BY DEF BookTypes
<1> QED
  BY <1>2, <1>3, <1>4 DEF BookTypes

\* A desk that has changed nothing since it sat down owes nothing.
LEMMA NothingOwed ==
    ASSUME NEW u, desk[u].at \notin {"match", "refresh", "write", "flag", "unpost", "against", "mark"}
    PROVE  \A e : ~WillRefresh(u, e) /\ ~Busies(u, e) /\ ~Marks(u, e) /\ ~Resets(u, e)
BY DEF WillRefresh, Busies, Marks, Resets

\* A step that moves a desk and no table.
LEMMA DeskStep ==
    ASSUME BookInv, NEW u \in Cashiers, NEW r \in Desk, Placed(r), desk' = [desk EXCEPT ![u] = r],
           UNCHANGED <<entry, pairs, credited, crossed>>, behind \subseteq behind', behind' \subseteq Entries,
           \A e \in DOMAIN entry : r.at \in {"cash", "match", "unpay"} /\ r.legs[e] > 0 /\ e \notin crossed
                                   => Settled(e) + r.legs[e] <= entry[e].total,
           r.at = "write" /\ Lowest(r.todo) \notin crossed => r.open = OpenAmount(Lowest(r.todo)),
           r.at # "flag",
           \A d \in Docs : r.at \in {"reverse", "reversed", "against"} /\ r.on = d /\ d \notin crossed
                            => r.open = OpenAmount(d),
           \A d \in Docs : CancelHolds(u, d)',
           \A e \in Entries : r.at \in {"refresh", "write", "unpost"} /\ r.on = e /\ e \notin Excepted' => Settled(e) = 0,
           Steady(u), \A e \in DOMAIN entry : Loyal(u, e)
    PROVE  BookInv'
<1>1. BookTypes
  BY DEF BookInv
<1>2. /\ BookTypes' /\ desk'[u] = r /\ \A v \in Cashiers \ {u} : desk'[v] = desk[v]
  <2>1. Placed(r)'
    BY PlacedStays
  <2> QED
    BY <1>1, <2>1, TypesStay DEF BookTypes
<1>3. \A e : Settled(e)' = Settled(e) /\ (Unmatched(e)' <=> Unmatched(e))
  BY SettledStays
<1>4. \A e \in DOMAIN entry : Untouched(e)
  BY <1>3, Zenon DEF Untouched, Same
<1>5. Guarded(Cashiers \ {u})
  BY <1>2, <1>4 DEF Guarded, Untouched
<1>6. \A e \in Entries : LegsLeft(u, e)'
  <2> SUFFICES ASSUME NEW e \in Entries, r.at \in {"cash", "match", "unpay"}, r.legs[e] > 0, e \notin crossed
               PROVE  Settled(e)' + r.legs[e] <= entry[e].total
    BY <1>2 DEF LegsLeft
  <2>1. e \in DOMAIN entry
    BY DEF Placed
  <2> QED
    BY <1>3, <2>1
<1>7. OpenHolds(u)'
  BY <1>2, <1>3 DEF OpenHolds, OpenAmount
<1>8. FlagHolds(u)'
  BY <1>2 DEF FlagHolds
<1>9. \A e \in Entries : ResetHolds(u, e)'
  BY <1>2, <1>3 DEF ResetHolds, Resets
<1>14. \A d \in Docs : ReversalHolds(u, d)'
  BY <1>2, <1>3 DEF ReversalHolds, OpenAmount
<1>10. Reliable(u)'
  BY <1>6, <1>7, <1>8, <1>9, <1>14 DEF Reliable
<1>11. PICK T : T = {}
  OBVIOUS
<1>12. /\ \A e \in DOMAIN entry \ T : Untouched(e) /\ Loyal(u, e)
       /\ \A e \in T : e \in DOMAIN entry' => Booked(e)'
       /\ DOMAIN entry' \subseteq DOMAIN entry \cup T
  BY <1>4, <1>11
<1> QED
  BY <1>2, <1>5, <1>10, <1>12, StepKeeps

\* The same, when the desk owed nothing and does not begin to cancel.
LEMMA QuietStep ==
    ASSUME BookInv, NEW u \in Cashiers, NEW r \in Desk, Placed(r), desk' = [desk EXCEPT ![u] = r],
           UNCHANGED <<entry, pairs, credited, crossed, behind>>,
           desk[u].at \notin {"match", "refresh", "write", "flag", "unpost", "against", "mark"},
           r.at \notin {"open", "reverse", "reversed", "against", "mark", "write", "flag"},
           \A e \in DOMAIN entry : r.at \in {"cash", "match", "unpay"} /\ r.legs[e] > 0 /\ e \notin crossed
                                   => Settled(e) + r.legs[e] <= entry[e].total,
           \A e \in Entries : r.at \in {"refresh", "unpost"} /\ r.on = e /\ e \notin Excepted => Settled(e) = 0,
           \A d \in Docs : Terminal(d) /\ ~Grasps(u, d) => d \notin r.todo /\ ~(r.at = "unpost" /\ r.on = d)
    PROVE  BookInv'
<1>1. desk \in [Cashiers -> Desk]
  BY DEF BookInv, BookTypes
<1>2. desk'[u] = r /\ (Excepted' = Excepted)
  BY <1>1 DEF Excepted
<1>3. \A e : ~WillRefresh(u, e) /\ ~Busies(u, e) /\ ~Marks(u, e) /\ ~Resets(u, e)
  BY NothingOwed
<1>4. \A d : ~Cancels(u, d)'
  BY <1>2 DEF Cancels
<1>5. \A d \in Docs : CancelHolds(u, d)'
  BY <1>4 DEF CancelHolds
<1>6. Steady(u)
  BY <1>3, <1>4 DEF Steady
<1>7. \A e \in DOMAIN entry : Loyal(u, e)
  BY <1>2, <1>3, <1>4 DEF Loyal, Grasps
<1>8. \A e \in Entries : r.at \in {"refresh", "write", "unpost"} /\ r.on = e /\ e \notin Excepted' => Settled(e) = 0
  BY <1>2
<1>9. behind \subseteq behind' /\ behind' \subseteq Entries /\ r.at # "flag" /\ (r.at = "write" => FALSE)
  BY DEF BookInv, BookTypes
<1> QED
  BY <1>5, <1>6, <1>7, <1>8, <1>9, DeskStep

\* A desk that is free, as every desk is at first.
LEMMA AtDeskIsPlaced ==
    ASSUME BookTypes
    PROVE  AtDesk \in Desk /\ Placed(AtDesk)
<1>1. NoLegs \in [Entries -> Nat] /\ \A e \in Entries : NoLegs[e] = 0
  BY DEF NoLegs
<1>2. AtDesk \in Desk /\ AtDesk.legs = NoLegs
  BY <1>1 DEF AtDesk, Desk
<1> QED
  BY <1>1, <1>2 DEF AtDesk, Placed

\* post_settlement: the form is taken as it is.
LEMMA PostSettlementStep ==
    ASSUME BookInv, NEW u \in Cashiers, post_settlement(u)
    PROVE  BookInv'
<1>1. BookTypes
  BY DEF BookInv
<1>0. PICK want \in [Docs -> 0..(Total + 1)], advances \in SUBSET (DOMAIN entry \cap Payments), cash \in 0..Total :
         /\ Visit(u, [AtDesk EXCEPT !.at = "legs", !.cash = cash,
                       !.legs = [e \in Entries |-> IF e \in Docs THEN want[e]
                                                   ELSE IF e \in advances THEN Total + 1 ELSE 0]])
         /\ UNCHANGED <<tables, crossed, behind, mishaps>>
  BY Zenon DEF post_settlement
<1>2. PICK legs, r :
         /\ legs = [e \in Entries |-> IF e \in Docs THEN want[e] ELSE IF e \in advances THEN Total + 1 ELSE 0]
         /\ r = [AtDesk EXCEPT !.at = "legs", !.cash = cash, !.legs = legs]
         /\ desk[u].at = "idle" /\ desk' = [desk EXCEPT ![u] = r]
         /\ UNCHANGED <<entry, pairs, credited, crossed, behind>>
  BY <1>0, Zenon DEF Visit, tables
<1>3. Total \in Nat /\ cash \in Nat
  BY SettlementAssumption
<1>4. legs \in [Entries -> Nat] /\ \A e \in Entries : legs[e] > 0 => e \in DOMAIN entry
  <2>1. \A e \in Docs : want[e] \in Nat /\ e \in DOMAIN entry
    BY <1>1, <1>3 DEF BookTypes
  <2>2. \A e \in advances : e \in DOMAIN entry
    OBVIOUS
  <2> QED
    BY <1>2, <1>3, <2>1, <2>2
<1>5. r \in Desk /\ r.at = "legs" /\ r.on = 0 /\ r.todo = {} /\ r.legs = legs
  BY <1>1, <1>2, <1>3, <1>4, AtDeskIsPlaced DEF AtDesk, Desk
<1>6. Placed(r)
  BY <1>4, <1>5 DEF Placed
<1> QED
  BY <1>2, <1>5, <1>6, QuietStep

\* register_payment: an invoice and cash for it.
LEMMA RegisterPaymentStep ==
    ASSUME BookInv, NEW u \in Cashiers, register_payment(u)
    PROVE  BookInv'
<1>1. BookTypes
  BY DEF BookInv
<1>2. PICK d, cash, r :
         /\ d \in Docs /\ cash \in 1..Total /\ r = [AtDesk EXCEPT !.at = "cash", !.on = d, !.cash = cash]
         /\ desk[u].at = "idle" /\ desk' = [desk EXCEPT ![u] = r]
         /\ UNCHANGED <<entry, pairs, credited, crossed, behind>>
  BY Zenon DEF register_payment, Visit, tables
<1>3. Total \in Nat /\ cash \in Nat /\ cash > 0 /\ d \in DOMAIN entry /\ d \in Entries
  BY <1>1, <1>2, SettlementAssumption DEF BookTypes, Entries
<1>4. NoLegs \in [Entries -> Nat] /\ \A e \in Entries : NoLegs[e] = 0
  BY DEF NoLegs
<1>5. r \in Desk /\ r.at = "cash" /\ r.on = d /\ r.cash = cash /\ r.todo = {} /\ r.legs = NoLegs
  BY <1>1, <1>2, <1>3, <1>4, AtDeskIsPlaced DEF AtDesk, Desk
<1>6. Placed(r)
  BY <1>2, <1>3, <1>4, <1>5 DEF Placed
<1>7. \A e \in DOMAIN entry : ~(r.legs[e] > 0)
  BY <1>1, <1>4, <1>5 DEF BookTypes
<1> QED
  BY <1>2, <1>5, <1>6, <1>7, QuietStep

\* reset_document: nothing is matched on the invoice.
LEMMA ResetDocumentStep ==
    ASSUME BookInv, NEW u \in Cashiers, NEW d \in Docs, reset_document(u, d)
    PROVE  BookInv'
<1>1. BookTypes
  BY DEF BookInv
<1>2. PICK r : /\ r = [AtDesk EXCEPT !.at = "unpost", !.on = d]
               /\ desk[u].at = "idle" /\ desk' = [desk EXCEPT ![u] = r]
               /\ UNCHANGED <<entry, pairs, credited, crossed, behind>>
               /\ entry[d].pay # "reversed" /\ Settled(d) = 0
  BY Zenon DEF reset_document, Visit, tables
<1>3. d \in DOMAIN entry /\ d \in Entries
  BY <1>1 DEF BookTypes, Entries
<1>4. r \in Desk /\ r.at = "unpost" /\ r.on = d /\ r.todo = {} /\ r.legs = NoLegs
  BY <1>1, <1>2, <1>3, AtDeskIsPlaced DEF AtDesk, Desk
<1>5. \A e \in Entries : ~(r.legs[e] > 0)
  BY <1>4 DEF NoLegs
<1>6. Placed(r)
  BY <1>3, <1>4, <1>5 DEF Placed
<1>7. \A x \in Docs : Terminal(x) => x # d
  BY <1>2 DEF Terminal
<1> QED
  BY <1>2, <1>4, <1>6, <1>7, QuietStep

\* reset_payment_to_draft begins.
LEMMA ResetPaymentStep ==
    ASSUME BookInv, NEW u \in Cashiers, NEW p \in DOMAIN entry \cap Payments, reset_payment_to_draft(u, p)
    PROVE  BookInv'
<1>1. BookTypes
  BY DEF BookInv
<1>2. PICK r : /\ r = [AtDesk EXCEPT !.at = "affected", !.on = p]
               /\ desk[u].at = "idle" /\ desk' = [desk EXCEPT ![u] = r]
               /\ UNCHANGED <<entry, pairs, credited, crossed, behind>>
  BY Zenon DEF reset_payment_to_draft, Visit, tables
<1>3. p \in DOMAIN entry /\ p \in Entries /\ p \in Payments
  BY DEF Entries
<1>4. r \in Desk /\ r.at = "affected" /\ r.on = p /\ r.todo = {} /\ r.legs = NoLegs
  BY <1>1, <1>2, <1>3, AtDeskIsPlaced DEF AtDesk, Desk
<1>5. \A e \in Entries : ~(r.legs[e] > 0)
  BY <1>4 DEF NoLegs
<1>6. Placed(r)
  BY <1>3, <1>4, <1>5 DEF Placed
<1> QED
  BY <1>2, <1>4, <1>6, QuietStep

\* What is clipped is no more than what is open.
LEMMA Clipped ==
    ASSUME NEW want \in Nat, NEW open \in Int
    PROVE  Clip(want, open) \in Nat /\ (Clip(want, open) > 0 => Clip(want, open) <= open)
BY DEF Clip

\* The open amounts are read: no more is claimed than is open.
LEMMA ReadLegsStep ==
    ASSUME BookInv, NEW u \in Cashiers, ReadLegs(u)
    PROVE  BookInv'
<1>1. BookTypes
  BY DEF BookInv
<1>2. PICK legs, r :
         /\ legs = [e \in Entries |-> IF desk[u].legs[e] = 0 THEN 0 ELSE Clip(desk[u].legs[e], OpenAmount(e))]
         /\ r = IF legs = NoLegs /\ desk[u].cash = 0 THEN AtDesk
                ELSE [desk[u] EXCEPT !.legs = legs, !.todo = {e \in Entries : legs[e] > 0},
                                     !.at = IF desk[u].cash > 0 THEN "cash" ELSE "match"]
         /\ desk[u].at = "legs" /\ desk' = [desk EXCEPT ![u] = r]
         /\ UNCHANGED <<entry, pairs, credited, crossed, behind>>
  BY <1>1, Zenon DEF ReadLegs, Stands, tables, BookTypes
<1>3. desk[u] \in Desk /\ Placed(desk[u]) /\ desk[u].on = 0 /\ desk[u].cash \in Nat /\ desk[u].legs \in [Entries -> Nat]
  BY <1>1, <1>2, Known DEF Placed
<1>4. \A e \in Entries : legs[e] \in Nat /\ (legs[e] > 0 => e \in DOMAIN entry /\ legs[e] <= OpenAmount(e))
  <2> SUFFICES ASSUME NEW e \in Entries PROVE legs[e] \in Nat /\ (legs[e] > 0 => e \in DOMAIN entry /\ legs[e] <= OpenAmount(e))
    OBVIOUS
  <2>1. CASE desk[u].legs[e] = 0
    BY <1>2, <2>1
  <2>2. CASE desk[u].legs[e] # 0
    <3>1. desk[u].legs[e] \in Nat /\ e \in DOMAIN entry
      BY <1>3, <2>2 DEF Placed
    <3>2. OpenAmount(e) \in Int
      BY <1>1, <3>1, Known
    <3>3. legs[e] = Clip(desk[u].legs[e], OpenAmount(e))
      BY <1>2, <2>2
    <3> QED
      BY <3>1, <3>2, <3>3, Clipped
  <2> QED
    BY <2>1, <2>2
<1>5. CASE r = AtDesk
  <2>1. r \in Desk /\ Placed(r)
    BY <1>1, <1>5, AtDeskIsPlaced
  <2>2. r.at = "idle" /\ r.todo = {}
    BY <1>5 DEF AtDesk
  <2> QED
    BY <1>2, <2>1, <2>2, QuietStep
<1>6. CASE r # AtDesk
  <2>1. r = [desk[u] EXCEPT !.legs = legs, !.todo = {e \in Entries : legs[e] > 0},
                            !.at = IF desk[u].cash > 0 THEN "cash" ELSE "match"]
    BY <1>2, <1>6
  <2>2. legs \in [Entries -> Nat] /\ {e \in Entries : legs[e] > 0} \in SUBSET Entries
    BY <1>2, <1>4
  <2>3. /\ r \in Desk /\ r.at \in {"cash", "match"} /\ r.on = 0 /\ r.legs = legs
        /\ r.todo = {e \in Entries : legs[e] > 0} /\ r.cash = desk[u].cash /\ (r.at = "cash" => r.cash > 0)
    BY <1>3, <2>1, <2>2 DEF Desk
  <2>4. Placed(r)
    BY <1>4, <2>3 DEF Placed
  <2>5. \A e \in DOMAIN entry : r.legs[e] > 0 => Settled(e) + r.legs[e] <= entry[e].total
    <3> SUFFICES ASSUME NEW e \in DOMAIN entry, r.legs[e] > 0 PROVE Settled(e) + r.legs[e] <= entry[e].total
      OBVIOUS
    <3>1. e \in Entries /\ Settled(e) \in Nat /\ entry[e].total \in Nat /\ OpenAmount(e) = entry[e].total - Settled(e)
      BY <1>1, Known
    <3> QED
      BY <1>4, <2>3, <3>1
  <2>6. \A d \in Docs : Terminal(d) => d \notin r.todo
    <3> SUFFICES ASSUME NEW d \in Docs, Terminal(d), d \in r.todo PROVE FALSE
      OBVIOUS
    <3>1. d \in DOMAIN entry /\ legs[d] \in Nat /\ legs[d] > 0 /\ legs[d] <= OpenAmount(d)
      BY <1>4, <2>3
    <3>2. OpenAmount(d) = entry[d].total - Settled(d) /\ Settled(d) \in Nat
      BY <1>1, <3>1, Known
    <3> QED
      BY <3>1, <3>2 DEF Terminal
  <2> QED
    BY <1>2, <2>3, <2>4, <2>5, <2>6, QuietStep
<1> QED
  BY <1>5, <1>6

\* register_payment reads what its invoice has left.
LEMMA ReadInvoiceStep ==
    ASSUME BookInv, NEW u \in Cashiers, ReadInvoice(u)
    PROVE  BookInv'
<1>1. BookTypes /\ Reliable(u)
  BY DEF BookInv
<1>2. PICK d, r :
         /\ d = desk[u].on
         /\ r = IF OpenAmount(d) <= 0 THEN [desk[u] EXCEPT !.at = "refresh", !.legs = NoLegs, !.on = 0]
                ELSE [desk[u] EXCEPT !.at = "match", !.legs = [desk[u].legs EXCEPT ![d] = OpenAmount(d)],
                                     !.todo = desk[u].todo \cup {d}, !.on = 0]
         /\ desk[u].at = "unpay" /\ desk' = [desk EXCEPT ![u] = r]
         /\ UNCHANGED <<entry, pairs, credited, crossed, behind>>
  BY <1>1, Zenon DEF ReadInvoice, Stands, tables, BookTypes
<1>3. /\ desk[u] \in Desk /\ desk[u].legs \in [Entries -> Nat] /\ desk[u].todo \subseteq DOMAIN entry
      /\ d \in Docs /\ d \in DOMAIN entry /\ d \in Entries
      /\ \A e \in Entries : desk[u].legs[e] > 0 => e \in desk[u].todo /\ e \in DOMAIN entry
  BY <1>1, <1>2, Known DEF Placed
<1>4. OpenAmount(d) = entry[d].total - Settled(d) /\ OpenAmount(d) \in Int /\ Settled(d) \in Nat
  BY <1>1, <1>3, Known
<1>5. CASE OpenAmount(d) <= 0
  <2>1. r = [desk[u] EXCEPT !.at = "refresh", !.legs = NoLegs, !.on = 0]
    BY <1>2, <1>5
  <2>2. NoLegs \in [Entries -> Nat] /\ \A e \in Entries : NoLegs[e] = 0
    BY DEF NoLegs
  <2>3. r \in Desk /\ r.at = "refresh" /\ r.on = 0 /\ r.legs = NoLegs /\ r.todo = desk[u].todo
    BY <1>3, <2>1, <2>2 DEF Desk
  <2>4. Placed(r)
    BY <1>3, <2>2, <2>3 DEF Placed
  <2>5. \A e \in Entries : r.on # e
    BY <2>3, EntriesListed
  <2>6. \A x \in Docs : ~Grasps(u, x) => x \notin r.todo
    BY <2>3 DEF Grasps
  <2> QED
    BY <1>2, <2>3, <2>4, <2>5, <2>6, QuietStep
<1>6. CASE ~(OpenAmount(d) <= 0)
  <2>1. PICK legs : legs = [desk[u].legs EXCEPT ![d] = OpenAmount(d)]
    OBVIOUS
  <2>2. OpenAmount(d) \in Nat /\ OpenAmount(d) > 0
    BY <1>4, <1>6
  <2>3. /\ legs \in [Entries -> Nat] /\ legs[d] = OpenAmount(d)
        /\ \A e \in Entries \ {d} : legs[e] = desk[u].legs[e]
    BY <1>3, <2>1, <2>2
  <2>4. r = [desk[u] EXCEPT !.at = "match", !.legs = legs, !.todo = desk[u].todo \cup {d}, !.on = 0]
    BY <1>2, <1>6, <2>1
  <2>5. desk[u].todo \cup {d} \in SUBSET Entries
    BY <1>1, <1>3 DEF BookTypes
  <2>6. r \in Desk /\ r.at = "match" /\ r.on = 0 /\ r.legs = legs /\ r.todo = desk[u].todo \cup {d}
    BY <1>3, <2>3, <2>4, <2>5 DEF Desk
  <2>7. Placed(r)
    BY <1>3, <2>3, <2>6 DEF Placed
  <2>8. \A e \in DOMAIN entry : r.legs[e] > 0 /\ e \notin crossed => Settled(e) + r.legs[e] <= entry[e].total
    <3> SUFFICES ASSUME NEW e \in DOMAIN entry, r.legs[e] > 0, e \notin crossed
                 PROVE  Settled(e) + r.legs[e] <= entry[e].total
      OBVIOUS
    <3>1. e \in Entries /\ entry[e].total \in Nat /\ Settled(e) \in Nat
      BY <1>1, Known
    <3>2. CASE e = d
      BY <1>4, <2>3, <2>6, <3>1, <3>2
    <3>3. CASE e # d
      <4>1. r.legs[e] = desk[u].legs[e]
        BY <2>3, <2>6, <3>1, <3>3
      <4> QED
        BY <1>1, <1>2, <3>1, <4>1 DEF Reliable, LegsLeft
    <3> QED
      BY <3>2, <3>3
  <2>9. \A x \in Docs : Terminal(x) /\ ~Grasps(u, x) => x \notin r.todo
    <3>1. ~Terminal(d)
      BY <1>4, <2>2 DEF Terminal
    <3> QED
      BY <2>6, <3>1 DEF Grasps
  <2> QED
    BY <1>2, <2>6, <2>7, <2>8, <2>9, QuietStep
<1> QED
  BY <1>5, <1>6

\* The invoices a payment settled are those it is matched with.
LEMMA FindAffectedStep ==
    ASSUME BookInv, NEW u \in Cashiers, FindAffected(u)
    PROVE  BookInv'
<1>1. BookTypes
  BY DEF BookInv
<1>2. PICK p, todo, r :
         /\ p = desk[u].on /\ todo = {d \in Docs : pairs[<<d, p>>] > 0}
         /\ r = [desk[u] EXCEPT !.at = "delete", !.todo = todo]
         /\ desk[u].at = "affected" /\ desk' = [desk EXCEPT ![u] = r]
         /\ UNCHANGED <<entry, pairs, credited, crossed, behind>>
  BY <1>1, Zenon DEF FindAffected, Stands, tables, BookTypes
<1>3. /\ desk[u] \in Desk /\ p \in Payments /\ p \in DOMAIN entry /\ todo \subseteq Docs /\ Docs \subseteq DOMAIN entry
      /\ \A e \in Entries : desk[u].legs[e] > 0 => e \in DOMAIN entry
  <2>1. p \in Payments /\ p \in DOMAIN entry \cup {0}
    BY <1>1, <1>2, Known DEF Placed
  <2>2. p # 0
    BY <2>1, EntriesListed DEF Entries
  <2>3. \A e \in Entries : desk[u].legs[e] > 0 => e \in DOMAIN entry
    BY <1>1, Known DEF Placed
  <2> QED
    BY <1>1, <1>2, <2>1, <2>2, <2>3, Known
<1>4. r \in Desk /\ r.at = "delete" /\ r.on = p /\ r.todo = todo /\ r.legs = desk[u].legs
  <2>1. todo \in SUBSET Entries
    BY <1>3 DEF Entries
  <2> QED
    BY <1>2, <1>3, <2>1 DEF Desk
<1>5. Placed(r)
  BY <1>3, <1>4 DEF Placed
<1>6. \A d \in Docs : Terminal(d) => d \notin r.todo
  BY <1>2, <1>3, <1>4 DEF Terminal, Unmatched
<1> QED
  BY <1>2, <1>4, <1>5, <1>6, QuietStep

\* refresh_payment_state turns to the next entry, or the request is done, or
\* a payment whose invoices are all refreshed is about to be unposted.
LEMMA ReadOpenStep ==
    ASSUME BookInv, NEW u \in Cashiers, ReadOpen(u)
    PROVE  BookInv'
<1>1. BookTypes /\ Reliable(u) /\ behind \subseteq Entries
  BY DEF BookInv, BookTypes
<1>2. PICK r :
         /\ r = IF desk[u].todo = {} THEN (IF desk[u].on = 0 THEN AtDesk ELSE [desk[u] EXCEPT !.at = "unpost"])
                ELSE [desk[u] EXCEPT !.at = "write", !.open = OpenAmount(Lowest(desk[u].todo))]
         /\ desk[u].at = "refresh" /\ desk' = [desk EXCEPT ![u] = r]
         /\ UNCHANGED <<entry, pairs, credited, crossed, behind>>
  BY <1>1, Zenon DEF ReadOpen, Stands, tables, BookTypes
<1>3. /\ desk[u] \in Desk /\ Placed(desk[u]) /\ desk[u].todo \subseteq DOMAIN entry /\ DOMAIN entry \subseteq Entries
      /\ desk[u].on \in Payments \cup {0} /\ desk[u].on \in DOMAIN entry \cup {0}
  BY <1>1, <1>2, Known DEF Placed, BookTypes
<1>4. desk'[u] = r /\ Excepted' = Excepted /\ behind \subseteq behind' /\ behind' \subseteq Entries
  BY <1>1, <1>2 DEF Excepted, BookTypes
<1>5. CASE desk[u].todo = {} /\ desk[u].on = 0
  <2>1. r \in Desk /\ Placed(r) /\ r.at = "idle" /\ r.todo = {}
    BY <1>1, <1>2, <1>5, AtDeskIsPlaced DEF AtDesk
  <2>2. \A e \in Entries : ~WillRefresh(u, e) /\ ~Busies(u, e) /\ ~Marks(u, e)
    BY <1>2, <1>5, EntriesListed DEF WillRefresh, Busies, Resets, Marks
  <2>3. \A e : ~Cancels(u, e)' /\ ~Grasps(u, e)'
    BY <1>4, <2>1 DEF Cancels, Grasps
  <2>4. Steady(u) /\ \A d \in Docs : CancelHolds(u, d)'
    BY <2>2, <2>3 DEF Steady, CancelHolds, Entries
  <2>5. \A e \in DOMAIN entry : Loyal(u, e)
    BY <1>3, <2>2, <2>3 DEF Loyal
  <2> QED
    BY <1>2, <1>4, <2>1, <2>4, <2>5, DeskStep
<1>6. CASE desk[u].todo = {} /\ desk[u].on # 0
  <2>1. r = [desk[u] EXCEPT !.at = "unpost"] /\ desk[u].on \in Payments /\ desk[u].on \in Entries /\ desk[u].on \notin Docs
    BY <1>2, <1>3, <1>6, EntriesListed DEF Entries
  <2>2. r \in Desk /\ r.at = "unpost" /\ r.on = desk[u].on /\ r.todo = {} /\ r.legs = desk[u].legs
    BY <1>3, <1>6, <2>1 DEF Desk
  <2>3. Placed(r)
    BY <1>3, <2>1, <2>2 DEF Placed
  <2>4. \A e : ~WillRefresh(u, e) /\ ~Marks(u, e) /\ ~Cancels(u, e)' /\ (Busies(u, e) => Busies(u, e)')
    BY <1>2, <1>4, <1>6, <2>2 DEF WillRefresh, Busies, Resets, Marks, Cancels
  <2>5. \A d \in Docs : ~Grasps(u, d)'
    BY <1>4, <2>1, <2>2 DEF Cancels, Grasps
  <2>6. Steady(u) /\ \A d \in Docs : CancelHolds(u, d)'
    BY <2>4 DEF Steady, CancelHolds
  <2>7. \A e \in DOMAIN entry : Loyal(u, e)
    BY <2>4, <2>5 DEF Loyal
  <2>8. \A e \in Entries : r.on = e /\ e \notin Excepted' => Settled(e) = 0
    BY <1>1, <1>2, <1>4, <2>2 DEF Reliable, ResetHolds, Resets
  <2> QED
    BY <1>2, <1>4, <2>2, <2>3, <2>6, <2>7, <2>8, DeskStep
<1>7. CASE desk[u].todo # {}
  <2>1. r = [desk[u] EXCEPT !.at = "write", !.open = OpenAmount(Lowest(desk[u].todo))]
    BY <1>2, <1>7
  <2>2. OpenAmount(Lowest(desk[u].todo)) \in Int
    <3>1. Lowest(desk[u].todo) \in DOMAIN entry
      BY <1>3, <1>7, LowestIsOne
    <3>2. PICK e \in DOMAIN entry : e = Lowest(desk[u].todo)
      BY <3>1
    <3>3. OpenAmount(e) = entry[e].total - Settled(e) /\ entry[e].total \in Nat /\ Settled(e) \in Nat
      BY <1>1, Known
    <3> QED
      BY <3>2, <3>3
  <2>3. /\ r \in Desk /\ r.at = "write" /\ r.on = desk[u].on /\ r.todo = desk[u].todo /\ r.legs = desk[u].legs
        /\ r.open = OpenAmount(Lowest(r.todo))
    BY <1>3, <2>1, <2>2 DEF Desk
  <2>4. Placed(r)
    BY <1>3, <1>7, <2>3 DEF Placed
  <2>5. \A e : /\ WillRefresh(u, e) => WillRefresh(u, e)'
               /\ ~Marks(u, e) /\ ~Cancels(u, e)' /\ (Busies(u, e) => Busies(u, e)')
    BY <1>2, <1>4, <2>3 DEF WillRefresh, Busies, Resets, Marks, Cancels
  <2>6. \A d : ~Grasps(u, d) => ~Grasps(u, d)'
    BY <1>4, <2>3 DEF Cancels, Grasps
  <2>7. Steady(u) /\ \A d \in Docs : CancelHolds(u, d)'
    BY <2>5 DEF Steady, CancelHolds
  <2>8. \A e \in DOMAIN entry : Loyal(u, e)
    BY <2>5, <2>6 DEF Loyal
  <2>9. \A e \in Entries : r.on = e /\ e \notin Excepted' => Settled(e) = 0
    BY <1>1, <1>2, <1>4, <2>3 DEF Reliable, ResetHolds, Resets
  <2> QED
    BY <1>2, <1>4, <2>3, <2>4, <2>7, <2>8, <2>9, DeskStep
<1> QED
  BY <1>5, <1>6, <1>7

\* A step of a cancellation that has changed nothing yet.
LEMMA CancelStep ==
    ASSUME BookInv, NEW u \in Cashiers, NEW r \in Desk, Placed(r), desk' = [desk EXCEPT ![u] = r],
           UNCHANGED <<entry, pairs, credited, crossed, behind>>,
           desk[u].at \in {"idle", "open", "reverse"}, r.at \in {"open", "reverse", "reversed"},
           r.todo \subseteq desk[u].todo,
           \A d \in Docs : r.on = d /\ d \notin Excepted =>
               /\ entry[d].posted /\ entry[d].pay = "not_paid"
               /\ Unmatched(d) \/ \E v \in Cashiers : WillRefresh(v, d),
           \A d \in Docs : r.at \in {"reverse", "reversed", "against"} /\ r.on = d /\ d \notin crossed
                            => r.open = OpenAmount(d)
    PROVE  BookInv'
<1>1. desk \in [Cashiers -> Desk] /\ behind \subseteq Entries
  BY DEF BookInv, BookTypes
<1>2. /\ desk'[u] = r /\ (\A v \in Cashiers \ {u} : desk'[v] = desk[v]) /\ Excepted' = Excepted
      /\ behind \subseteq behind' /\ behind' \subseteq Entries
  BY <1>1 DEF Excepted
<1>3. \A e : ~WillRefresh(u, e) /\ ~Busies(u, e) /\ ~Marks(u, e) /\ ~Resets(u, e)
  BY NothingOwed
<1>4. \A d : Cancels(u, d)' => r.on = d
  BY <1>2 DEF Cancels
<1>5. \A d \in Docs : CancelHolds(u, d)'
  <2> SUFFICES ASSUME NEW d \in Docs, Cancels(u, d)', d \notin Excepted PROVE CancelHolds(u, d)'
    BY <1>2 DEF CancelHolds
  <2>1. r.on = d
    BY <1>4
  <2>2. \A e : Settled(e)' = Settled(e) /\ (Unmatched(e)' <=> Unmatched(e))
    BY SettledStays
  <2>4. \A v \in Cashiers : WillRefresh(v, d) => WillRefresh(v, d)'
    BY <1>2, <1>3 DEF WillRefresh
  <2>5. Unmatched(d)' \/ \E v \in Cashiers : WillRefresh(v, d)'
    BY <2>1, <2>2, <2>4
  <2>6. entry'[d].posted /\ entry'[d].pay = "not_paid"
    BY <2>1
  <2> QED
    BY <1>2, <2>5, <2>6 DEF CancelHolds
<1>6. Steady(u)
  BY <1>2, <1>3, <1>4 DEF Steady
<1>7. ASSUME NEW e \in DOMAIN entry PROVE Loyal(u, e)
  <2>1. e \in Docs /\ e \notin Excepted /\ Terminal(e) => r.on # e
    BY DEF Terminal
  <2>2. e \in Docs /\ e \notin Excepted /\ Terminal(e) /\ ~Grasps(u, e) => ~Grasps(u, e)'
    BY <1>2, <1>4, <2>1 DEF Grasps
  <2> QED
    BY <1>2, <1>3, <2>2 DEF Loyal
<1> QED
  BY <1>2, <1>5, <1>6, <1>7, DeskStep

\* cancel_document: what is not paid is not matched, or will be refreshed.
LEMMA CancelDocumentStep ==
    ASSUME BookInv, NEW u \in Cashiers, NEW d \in Docs, cancel_document(u, d)
    PROVE  BookInv'
<1>1. BookTypes /\ \A v \in Cashiers : Reliable(v)
  BY DEF BookInv
<1>2. PICK r : /\ r = [AtDesk EXCEPT !.at = "open", !.on = d]
               /\ desk[u].at = "idle" /\ desk' = [desk EXCEPT ![u] = r]
               /\ UNCHANGED <<entry, pairs, credited, crossed, behind>>
               /\ entry[d].posted /\ entry[d].pay = "not_paid"
  BY Zenon DEF cancel_document, Visit, tables
<1>3. d \in DOMAIN entry /\ d \in Entries
  BY <1>1 DEF BookTypes, Entries
<1>4. r \in Desk /\ r.at = "open" /\ r.on = d /\ r.todo = {} /\ r.legs = NoLegs
  BY <1>1, <1>2, <1>3, AtDeskIsPlaced DEF AtDesk, Desk
<1>5. \A e \in Entries : ~(r.legs[e] > 0)
  BY <1>4 DEF NoLegs
<1>6. Placed(r)
  BY <1>3, <1>4, <1>5 DEF Placed
<1>7. ASSUME d \notin Excepted, \A v \in Cashiers : ~WillRefresh(v, d) PROVE Unmatched(d)
  <2>1. Booked(d)
    BY <1>3 DEF BookInv
  <2>2. \A v \in Cashiers : ~(desk[v].at \in {"against", "mark"} /\ desk[v].on = d)
    BY <1>1, <1>2, <1>7 DEF Reliable, CancelHolds, Cancels
  <2>3. credited[d] \in Nat /\ d \notin Payments
    BY <1>1, EntriesListed DEF BookTypes, Entries
  <2>4. credited[d] = 0
    <3>1. ~(credited[d] > 0)
      BY <1>2, <1>7, <2>1, <2>2 DEF Booked, Reversed, Terminal, Marks
    <3> QED
      BY <2>3, <3>1
  <2>5. \A v \in Cashiers : ~Busies(v, d)
    BY <1>7, <2>2, <2>3 DEF Busies
  <2>6. entry[d].residual = OpenAmount(d) /\ entry[d].pay = PayState(entry[d].residual, entry[d].total)
    BY <1>2, <1>7, <2>1, <2>4, <2>5 DEF Booked, Agrees
  <2>7. ~(entry[d].residual < entry[d].total)
    BY <1>2, <2>6 DEF PayState
  <2>8. Settled(d) = 0
    BY <1>1, <1>3, <2>6, <2>7, Known
  <2> QED
    BY <1>1, <2>8, SettledNat
<1>8. \A x \in Docs : r.on = x /\ x \notin Excepted =>
         /\ entry[x].posted /\ entry[x].pay = "not_paid"
         /\ Unmatched(x) \/ \E v \in Cashiers : WillRefresh(v, x)
  BY <1>2, <1>4, <1>7
<1>9. r.todo \subseteq desk[u].todo
  BY <1>4
<1> QED
  BY <1>2, <1>4, <1>6, <1>8, <1>9, CancelStep

\* What is open of the invoice is read.
LEMMA ReadToCancelStep ==
    ASSUME BookInv, NEW u \in Cashiers, ReadToCancel(u)
    PROVE  BookInv'
<1>1. BookTypes /\ Reliable(u)
  BY DEF BookInv
<1>2. PICK d, r :
         /\ d = desk[u].on /\ r = [desk[u] EXCEPT !.at = "reverse", !.open = OpenAmount(d)]
         /\ desk[u].at = "open" /\ desk' = [desk EXCEPT ![u] = r]
         /\ UNCHANGED <<entry, pairs, credited, crossed, behind>>
  BY <1>1, Zenon DEF ReadToCancel, Stands, tables, BookTypes
<1>3. desk[u] \in Desk /\ Placed(desk[u]) /\ d \in Docs /\ d \in DOMAIN entry
  BY <1>1, <1>2, Known DEF Placed
<1>4. OpenAmount(d) \in Int
  <2>1. OpenAmount(d) = entry[d].total - Settled(d) /\ entry[d].total \in Nat /\ Settled(d) \in Nat
    BY <1>1, <1>3, Known
  <2> QED
    BY <2>1
<1>5. /\ r \in Desk /\ r.at = "reverse" /\ r.on = d /\ r.todo = desk[u].todo /\ r.legs = desk[u].legs
      /\ r.open = OpenAmount(d)
  BY <1>2, <1>3, <1>4 DEF Desk
<1>6. Placed(r)
  BY <1>3, <1>5 DEF Placed
<1>7. d \notin Excepted => /\ entry[d].posted /\ entry[d].pay = "not_paid"
                           /\ Unmatched(d) \/ \E v \in Cashiers : WillRefresh(v, d)
  BY <1>1, <1>2, <1>3 DEF Reliable, CancelHolds, Cancels
<1>8. \A x \in Docs : r.on = x /\ x \notin Excepted =>
         /\ entry[x].posted /\ entry[x].pay = "not_paid"
         /\ Unmatched(x) \/ \E v \in Cashiers : WillRefresh(v, x)
  BY <1>5, <1>7
<1>9. r.todo \subseteq desk[u].todo
  BY <1>5
<1>10. \A x \in Docs : r.on = x => r.open = OpenAmount(x)
  BY <1>5
<1> QED
  BY <1>2, <1>5, <1>6, <1>8, <1>9, <1>10, CancelStep

\* reverse_move posts the counter-entry, or finds nothing to reverse.
LEMMA PostReversalStep ==
    ASSUME BookInv, NEW u \in Cashiers, PostReversal(u)
    PROVE  BookInv'
<1>1. BookTypes /\ Reliable(u)
  BY DEF BookInv
<1>2. PICK d, r :
         /\ d = desk[u].on /\ desk[u].at = "reverse" /\ desk' = [desk EXCEPT ![u] = r]
         /\ r = IF entry[d].posted THEN [desk[u] EXCEPT !.at = "reversed"] ELSE AtDesk
         /\ UNCHANGED <<entry, pairs, credited, crossed, behind>>
  <2>1. PICK d, step : d = desk[u].on /\ step = IF entry[d].posted THEN "reversed" ELSE "idle"
    OBVIOUS
  <2>2. /\ desk[u].at = "reverse" /\ UNCHANGED <<entry, pairs, credited, crossed, behind>>
        /\ desk' = [desk EXCEPT ![u] = IF step = "idle" THEN AtDesk ELSE [desk[u] EXCEPT !.at = step]]
    BY <1>1, <2>1 DEF PostReversal, Proceed, Stands, tables, BookTypes
  <2>3. step = "idle" \/ step = "reversed"
    BY <2>1
  <2>4. (IF step = "idle" THEN AtDesk ELSE [desk[u] EXCEPT !.at = step])
        = IF entry[d].posted THEN [desk[u] EXCEPT !.at = "reversed"] ELSE AtDesk
    BY <2>1
  <2> QED
    BY <2>1, <2>2, <2>4
<1>3. desk[u] \in Desk /\ Placed(desk[u]) /\ d \in Docs /\ d \in DOMAIN entry
  BY <1>1, <1>2, Known DEF Placed
<1>4. CASE ~entry[d].posted
  <2>1. r \in Desk /\ Placed(r) /\ r.at = "idle" /\ r.todo = {}
    BY <1>1, <1>2, <1>4, AtDeskIsPlaced DEF AtDesk
  <2> QED
    BY <1>2, <2>1, QuietStep
<1>5. CASE entry[d].posted
  <2>1. /\ r \in Desk /\ r.at = "reversed" /\ r.on = d /\ r.todo = desk[u].todo /\ r.legs = desk[u].legs
        /\ r.open = desk[u].open
    BY <1>2, <1>3, <1>5 DEF Desk
  <2>2. Placed(r)
    BY <1>3, <2>1 DEF Placed
  <2>3. d \notin Excepted => /\ entry[d].pay = "not_paid"
                             /\ Unmatched(d) \/ \E v \in Cashiers : WillRefresh(v, d)
    BY <1>1, <1>2, <1>3 DEF Reliable, CancelHolds, Cancels
  <2>4. \A x \in Docs : r.on = x /\ x \notin Excepted =>
           /\ entry[x].posted /\ entry[x].pay = "not_paid"
           /\ Unmatched(x) \/ \E v \in Cashiers : WillRefresh(v, x)
    BY <1>5, <2>1, <2>3
  <2>5. r.todo \subseteq desk[u].todo
    BY <2>1
  <2>6. \A x \in Docs : r.on = x /\ x \notin crossed => r.open = OpenAmount(x)
    BY <1>1, <1>2, <1>3, <2>1 DEF Reliable, ReversalHolds
  <2> QED
    BY ZenonT(90), <1>2, <2>1, <2>2, <2>4, <2>5, <2>6, CancelStep
<1> QED
  BY <1>4, <1>5

\* A request that ends early leaves what it owed behind.
LEMMA LeaveDeskStep ==
    ASSUME BookInv, NEW u \in Cashiers, LeaveDesk(u)
    PROVE  BookInv'
<1>1. BookTypes
  BY DEF BookInv
<1>2. PICK r :
         /\ r = AtDesk /\ desk' = [desk EXCEPT ![u] = r]
         /\ desk[u].at \in {"match", "refresh", "write", "flag", "against", "mark", "unpost"}
         /\ behind' = behind \cup desk[u].todo
                        \cup ({desk[u].on} \cap (IF desk[u].at \in {"against", "mark"} THEN Docs ELSE Payments))
         /\ UNCHANGED <<entry, pairs, credited, crossed>>
  BY <1>1 DEF LeaveDesk, Proceed, tables, BookTypes
<1>3. r \in Desk /\ Placed(r) /\ r.at = "idle" /\ r.todo = {}
  BY <1>1, <1>2, AtDeskIsPlaced DEF AtDesk
<1>4. behind \subseteq behind' /\ behind' \subseteq Entries
  <2>1. behind \subseteq Entries /\ desk[u].todo \subseteq Entries
    BY <1>1, Known DEF BookTypes
  <2> QED
    BY <1>2, <2>1 DEF Entries
<1>5. desk'[u] = r
  BY <1>1, <1>2 DEF BookTypes
<1>6. \A e : e \notin Excepted' => ~WillRefresh(u, e) /\ ~Busies(u, e) /\ ~(e \in Docs /\ Marks(u, e))
  <2> SUFFICES ASSUME NEW e, e \notin behind' PROVE ~WillRefresh(u, e) /\ ~Busies(u, e) /\ ~(e \in Docs /\ Marks(u, e))
    BY DEF Excepted
  <2>1. e \notin desk[u].todo
    BY <1>2
  <2>2. Placed(desk[u])
    BY <1>1, Known
  <2>3. ~(desk[u].at \in {"against", "mark"} /\ desk[u].on = e)
    BY <1>2, <2>2 DEF Placed
  <2>4. ~(e \in Payments /\ Resets(u, e))
    BY <1>2 DEF Resets
  <2> QED
    BY <2>1, <2>3, <2>4 DEF WillRefresh, Busies, Marks
<1>7. \A e : ~Cancels(u, e)' /\ ~Grasps(u, e)'
  BY <1>3, <1>5 DEF Cancels, Grasps
<1>8. Steady(u) /\ \A d \in Docs : CancelHolds(u, d)'
  BY <1>6, <1>7 DEF Steady, CancelHolds
<1>9. \A e \in DOMAIN entry : Loyal(u, e)
  BY <1>6, <1>7 DEF Loyal
<1> QED
  BY <1>2, <1>3, <1>4, <1>8, <1>9, DeskStep

-----------------------------------------------------------------------------
(* Steps that write to one entry *)

\* A step that writes to one entry has crossed it if another desk relied on
\* it, unless what the others read is as it was.
LEMMA EntryStep ==
    ASSUME BookInv, NEW u \in Cashiers, NEW r \in Desk, Placed(r), desk' = [desk EXCEPT ![u] = r],
           NEW t \in DOMAIN entry, DOMAIN entry' = DOMAIN entry, \A e \in DOMAIN entry \ {t} : entry'[e] = entry[e],
           entry'[t] \in Entry, entry'[t].total = entry[t].total,
           pairs' = pairs, credited' \in [Docs -> Nat], \A d \in Docs \ {t} : credited'[d] = credited[d],
           \A e \in DOMAIN entry \ {t} : Settled(e)' = Settled(e),
           crossed \subseteq crossed', crossed' \subseteq Entries, behind' = behind,
           Same(t) \/ \A v \in Cashiers \ {u} : Relies(v, t) => t \in crossed',
           Steady(u), \A e \in DOMAIN entry \ {t} : Loyal(u, e), Reliable(u)', Booked(t)'
    PROVE  BookInv'
<1>1. BookTypes
  BY DEF BookInv
<1>2. \A e \in DOMAIN entry' : entry'[e] \in Entry /\ entry'[e].total = entry[e].total /\ entry'[e].total > 0
  <2>1. \A e \in DOMAIN entry : entry[e] \in Entry /\ entry[e].total > 0
    BY <1>1 DEF BookTypes
  <2> QED
    BY <2>1
<1>3. BookTypes' /\ desk'[u] = r /\ \A v \in Cashiers \ {u} : desk'[v] = desk[v]
  <2>1. Placed(r)'
    BY PlacedStays
  <2> QED
    BY <1>1, <1>2, <2>1, TypesStay DEF BookTypes
<1>4. \A e \in DOMAIN entry \ {t} : Untouched(e)
  BY DEF Untouched, Same, Unmatched
<1>5. Guarded(Cashiers \ {u})
  <2>1. ASSUME NEW v \in Cashiers \ {u}, NEW e \in DOMAIN entry, Relies(v, e), e \notin crossed' PROVE Same(e)
    <3>1. CASE e = t
      BY <2>1, <3>1
    <3>2. CASE e # t
      BY <1>4, <2>1, <3>2 DEF Untouched
    <3> QED
      BY <3>1, <3>2
  <2> QED
    BY <1>2, <1>3, <2>1 DEF Guarded
<1>6. PICK T : T = {t}
  OBVIOUS
<1>7. /\ \A e \in DOMAIN entry \ T : Untouched(e) /\ Loyal(u, e)
      /\ \A e \in T : e \in DOMAIN entry' => Booked(e)'
      /\ DOMAIN entry' \subseteq DOMAIN entry \cup T
  BY <1>4, <1>6
<1> QED
  BY <1>3, <1>5, <1>7, StepKeeps

\* A desk that has nothing read relies on nothing.
LEMMA FreeIsReliable ==
    ASSUME NEW u, desk'[u].at = "idle"
    PROVE  Reliable(u)'
BY DEF Reliable, LegsLeft, OpenHolds, FlagHolds, ReversalHolds, CancelHolds, Cancels, ResetHolds, Resets

\* What is crossed when one entry is written to.
LEMMA CrossingOne ==
    ASSUME BookTypes, NEW u, NEW t \in DOMAIN entry, NEW X, X = Crossing(u, {t})
    PROVE  /\ crossed \subseteq X /\ X \subseteq crossed \cup {t} /\ X \subseteq Entries
           /\ \A v \in Cashiers \ {u} : Relies(v, t) => t \in X
BY DEF Crossing, BookTypes

\* refresh_payment_state writes what is left: it is still so, and when
\* nothing is left the flag is still to be set.
LEMMA RefreshStep ==
    ASSUME BookInv, NEW u \in Cashiers, refresh_payment_state(u)
    PROVE  BookInv'
<1>1. BookTypes /\ Reliable(u)
  BY DEF BookInv
<1>2. PICK t, open, x, r :
         /\ t = Lowest(desk[u].todo) /\ open = desk[u].open
         /\ x = [entry[t] EXCEPT !.residual = IF open < 0 THEN 0 ELSE open, !.pay = PayState(open, entry[t].total)]
         /\ r = IF open <= 0 THEN [desk[u] EXCEPT !.at = "flag"]
                ELSE [desk[u] EXCEPT !.at = "refresh", !.todo = desk[u].todo \ {t}]
  OBVIOUS
<1>3. desk[u].at = "write" /\ desk[u] \in Desk /\ Placed(desk[u]) /\ desk[u].todo # {} /\ desk[u].todo \subseteq DOMAIN entry
  BY <1>1, Known DEF refresh_payment_state, Stands, Placed
<1>4. t \in desk[u].todo /\ t \in DOMAIN entry /\ open \in Int
  BY <1>1, <1>2, <1>3, LowestIsOne, Known DEF BookTypes
<1>5. /\ entry' = [entry EXCEPT ![t] = x] /\ desk' = [desk EXCEPT ![u] = r]
      /\ crossed' = Crossing(u, {t}) /\ UNCHANGED <<pairs, credited, behind>>
  BY <1>1, <1>2, <1>4, Zenon DEF refresh_payment_state, BookTypes
<1>6. /\ t \in Entries /\ entry[t] \in Entry /\ entry[t].total \in Nat /\ entry[t].total > 0 /\ Settled(t) \in Nat
      /\ OpenAmount(t) = entry[t].total - Settled(t)
  BY <1>1, <1>4, Known
<1>7. /\ x \in Entry /\ x.posted = entry[t].posted /\ x.total = entry[t].total /\ x.reconciled = entry[t].reconciled
      /\ x.residual = (IF open < 0 THEN 0 ELSE open) /\ x.pay = PayState(open, entry[t].total)
  <2>1. PayState(open, entry[t].total) \in {"not_paid", "partial", "paid", "reversed"}
    BY DEF PayState
  <2>2. (IF open < 0 THEN 0 ELSE open) \in Nat
    BY <1>4
  <2> QED
    BY <1>2, <1>6, <2>1, <2>2 DEF Entry
<1>8. /\ r \in Desk /\ r.on = desk[u].on /\ r.legs = desk[u].legs
      /\ open <= 0 => r.at = "flag" /\ r.todo = desk[u].todo
      /\ ~(open <= 0) => r.at = "refresh" /\ r.todo = desk[u].todo \ {t}
  BY <1>2, <1>3 DEF Desk
<1>9. r.at \in {"refresh", "flag"} /\ r.todo \subseteq desk[u].todo /\ desk[u].todo \subseteq r.todo \cup {t}
  BY <1>8
<1>10. Placed(r)
  BY <1>3, <1>8, <1>9 DEF Placed
<1>11. /\ desk'[u] = r /\ (\A v \in Cashiers \ {u} : desk'[v] = desk[v])
       /\ DOMAIN entry' = DOMAIN entry /\ entry'[t] = x /\ \A e \in DOMAIN entry \ {t} : entry'[e] = entry[e]
  BY <1>1, <1>4, <1>5 DEF BookTypes
<1>12. \A e : Settled(e)' = Settled(e) /\ (Unmatched(e)' <=> Unmatched(e))
  BY <1>5, SettledStays
<1>13. /\ crossed \subseteq crossed' /\ crossed' \subseteq Entries
       /\ \A v \in Cashiers \ {u} : Relies(v, t) => t \in crossed'
  BY <1>1, <1>4, <1>5, CrossingOne
<1>14. \A e : (e \notin Excepted' => e \notin Excepted) /\ (e \notin crossed' => e \notin crossed)
  BY <1>5, <1>13 DEF Excepted
<1>15. t \notin crossed => open = OpenAmount(t) /\ Settled(t) <= entry[t].total
  BY <1>1, <1>2, <1>3, <1>4 DEF Reliable, OpenHolds, BookInv, Booked, Within
<1>16. OpenAmount(t)' = OpenAmount(t)
  BY <1>7, <1>11, <1>12 DEF OpenAmount
<1>17. Reliable(u)'
  <2>1. (\A e \in Entries : LegsLeft(u, e)') /\ OpenHolds(u)'
    BY <1>9, <1>11 DEF LegsLeft, OpenHolds
  <2>2. FlagHolds(u)'
    <3> SUFFICES ASSUME r.at = "flag", Lowest(r.todo) \notin crossed'
                 PROVE  /\ OpenAmount(Lowest(r.todo))' = 0
                        /\ entry'[Lowest(r.todo)].residual = 0 /\ entry'[Lowest(r.todo)].pay = "paid"
      BY <1>11 DEF FlagHolds
    <3>1. open <= 0 /\ Lowest(r.todo) = t
      BY <1>2, <1>8
    <3>2. open = OpenAmount(t) /\ Settled(t) <= entry[t].total
      BY <1>14, <1>15, <3>1
    <3>3. open = 0
      BY <1>6, <3>1, <3>2
    <3>4. x.residual = 0 /\ x.pay = "paid"
      BY <1>7, <3>3 DEF PayState
    <3> QED
      BY <1>11, <1>16, <3>1, <3>2, <3>3, <3>4
  <2>3. \A d \in Docs : ReversalHolds(u, d)' /\ CancelHolds(u, d)'
    BY <1>9, <1>11 DEF ReversalHolds, CancelHolds, Cancels
  <2>4. ASSUME NEW e \in Entries PROVE ResetHolds(u, e)'
    <3> SUFFICES ASSUME Resets(u, e)', e \notin Excepted' PROVE Settled(e)' = 0
      BY DEF ResetHolds
    <3>1. Resets(u, e)
      BY <1>3, <1>8, <1>11 DEF Resets
    <3> QED
      BY <1>1, <1>12, <1>14, <3>1 DEF Reliable, ResetHolds
  <2> QED
    BY <2>1, <2>2, <2>3, <2>4 DEF Reliable
<1>18. Steady(u)
  <2> SUFFICES ASSUME NEW d \in Docs, d \notin Excepted'
               PROVE  /\ WillRefresh(u, d) => WillRefresh(u, d)' \/ \A v \in Cashiers \ {u} : ~Cancels(v, d)
                      /\ Cancels(u, d)' => Cancels(u, d) \/ entry[d].pay = "not_paid"
    BY DEF Steady
  <2>1. ~Cancels(u, d)'
    BY <1>9, <1>11 DEF Cancels
  <2>2. ASSUME WillRefresh(u, d), NEW v \in Cashiers \ {u}, Cancels(v, d) PROVE WillRefresh(u, d)'
    <3>1. Relies(v, d) /\ d \notin crossed'
      BY <2>2 DEF Cancels, Relies, Excepted
    <3>2. d # t
      BY <1>13, <3>1
    <3> QED
      BY <1>9, <1>11, <2>2, <3>2 DEF WillRefresh
  <2> QED
    BY <2>1, <2>2
<1>19. \A e \in DOMAIN entry \ {t} : Loyal(u, e)
  <2> SUFFICES ASSUME NEW e \in DOMAIN entry \ {t}
               PROVE  (Busies(u, e) => Busies(u, e)') /\ ~Marks(u, e) /\ (~Grasps(u, e) => ~Grasps(u, e)')
    BY DEF Loyal
  <2>1. Busies(u, e) => Busies(u, e)'
    BY <1>3, <1>8, <1>9, <1>11 DEF Busies, WillRefresh, Resets
  <2>2. ~Marks(u, e) /\ (~Grasps(u, e) => ~Grasps(u, e)')
    BY <1>3, <1>9, <1>11 DEF Marks, Grasps, Cancels
  <2> QED
    BY <2>1, <2>2
<1>20. Booked(t)'
  <2>1. Booked(t)
    BY <1>4 DEF BookInv
  <2>2. Within(t)'
    BY <1>7, <1>11, <1>12, <1>14, <2>1 DEF Booked, Within
  <2>3. DraftUnmatched(t)'
    <3> SUFFICES ASSUME t \notin Excepted', ~x.posted PROVE Settled(t) = 0 /\ x.pay = "not_paid"
      BY <1>11, <1>12, Zenon DEF DraftUnmatched
    <3>1. Settled(t) = 0
      BY <1>7, <1>14, <2>1, Zenon DEF Booked, DraftUnmatched
    <3>2. open = entry[t].total
      BY <1>6, <1>14, <1>15, <3>1 DEF Excepted
    <3> QED
      BY <1>6, <1>7, <3>1, <3>2 DEF PayState
  <2>4. Flagged(t)'
    BY <1>7, <1>11, <1>12, <1>14, <2>1, Zenon DEF Booked, Flagged
  <2>5. Agrees(t)'
    <3> SUFFICES ASSUME t \notin Excepted', ~Busies(u, t)'
                 PROVE  x.residual = OpenAmount(t) /\ x.pay = PayState(x.residual, x.total)
                        /\ x.reconciled = (x.residual = 0)
      BY <1>11, <1>16, Zenon DEF Agrees, PayState
    <3>1. ~(open <= 0)
      BY <1>4, <1>8, <1>11 DEF Busies, WillRefresh
    <3>2. open = OpenAmount(t)
      BY <1>14, <1>15 DEF Excepted
    <3>3. x.residual = open /\ x.residual # 0
      BY <1>4, <1>7, <3>1
    <3>4. ~entry[t].reconciled
      <4>1. ~(Settled(t) >= entry[t].total)
        BY <1>6, <3>1, <3>2
      <4> QED
        BY <1>14, <2>1, <4>1, Zenon DEF Booked, Flagged
    <3>5. x.reconciled = FALSE
      <4>1. entry[t].reconciled \in BOOLEAN
        BY <1>6 DEF Entry
      <4> QED
        BY <1>7, <3>4, <4>1, Zenon
    <3> QED
      BY <1>7, <3>2, <3>3, <3>5, Zenon
  <2>6. t \in Docs => Reversed(t)'
    <3> SUFFICES ASSUME t \in Docs, t \notin Excepted', credited[t] > 0, \A v \in Cashiers : ~Marks(v, t)' PROVE FALSE
      BY <1>5 DEF Reversed
    <3>1. \A v \in Cashiers : ~Marks(v, t)
      BY <1>3, <1>11 DEF Marks
    <3>2. ~Grasps(u, t)
      BY <1>14, <2>1, <3>1 DEF Booked, Reversed
    <3> QED
      BY <1>4, <3>2 DEF Grasps
  <2> QED
    BY <2>2, <2>3, <2>4, <2>5, <2>6 DEF Booked
<1>21. /\ entry'[t] \in Entry /\ entry'[t].total = entry[t].total /\ pairs' = pairs /\ behind' = behind
       /\ credited' \in [Docs -> Nat] /\ \A d \in Docs \ {t} : credited'[d] = credited[d]
  BY <1>1, <1>5, <1>7, <1>11 DEF BookTypes
<1>22. /\ \A e \in DOMAIN entry \ {t} : Settled(e)' = Settled(e)
       /\ Same(t) \/ \A v \in Cashiers \ {u} : Relies(v, t) => t \in crossed'
  BY <1>12, <1>13
<1> QED
  BY <1>4, <1>5, <1>8, <1>10, <1>11, <1>13, <1>17, <1>18, <1>19, <1>20, <1>21, <1>22, EntryStep

\* The flag is set: nothing is left, and nobody cancels what is paid.
LEMMA FlagReconciledStep ==
    ASSUME BookInv, NEW u \in Cashiers, FlagReconciled(u)
    PROVE  BookInv'
<1>1. BookTypes /\ \A v \in Cashiers : Reliable(v)
  BY DEF BookInv
<1>2. PICK t, x, r :
         /\ t = Lowest(desk[u].todo) /\ x = [entry[t] EXCEPT !.reconciled = TRUE]
         /\ r = [desk[u] EXCEPT !.at = "refresh", !.todo = desk[u].todo \ {t}]
  OBVIOUS
<1>3. desk[u].at = "flag" /\ desk[u] \in Desk /\ Placed(desk[u]) /\ desk[u].todo # {} /\ desk[u].todo \subseteq DOMAIN entry
  BY <1>1, Known DEF FlagReconciled, Stands, Placed
<1>4. t \in desk[u].todo /\ t \in DOMAIN entry
  BY <1>1, <1>2, <1>3, LowestIsOne DEF BookTypes
<1>5. /\ entry' = [entry EXCEPT ![t] = x] /\ desk' = [desk EXCEPT ![u] = r]
      /\ UNCHANGED <<pairs, credited, crossed, behind>>
  BY <1>1, <1>2, <1>4, Zenon DEF FlagReconciled, BookTypes
<1>6. /\ t \in Entries /\ entry[t] \in Entry /\ entry[t].total \in Nat /\ entry[t].total > 0 /\ Settled(t) \in Nat
      /\ OpenAmount(t) = entry[t].total - Settled(t)
  BY <1>1, <1>4, Known
<1>7. /\ x \in Entry /\ x.posted = entry[t].posted /\ x.total = entry[t].total /\ x.reconciled = TRUE
      /\ x.residual = entry[t].residual /\ x.pay = entry[t].pay
  BY <1>2, <1>6 DEF Entry
<1>8. /\ r \in Desk /\ r.on = desk[u].on /\ r.legs = desk[u].legs
      /\ r.at = "refresh" /\ r.todo = desk[u].todo \ {t}
  BY <1>2, <1>3 DEF Desk
<1>10. Placed(r)
  BY <1>3, <1>8 DEF Placed
<1>11. /\ desk'[u] = r /\ (\A v \in Cashiers \ {u} : desk'[v] = desk[v])
       /\ DOMAIN entry' = DOMAIN entry /\ entry'[t] = x /\ \A e \in DOMAIN entry \ {t} : entry'[e] = entry[e]
  BY <1>1, <1>4, <1>5 DEF BookTypes
<1>12. \A e : Settled(e)' = Settled(e) /\ (Unmatched(e)' <=> Unmatched(e))
  BY <1>5, SettledStays
<1>13. Excepted' = Excepted /\ crossed' \subseteq Entries
  BY <1>1, <1>5 DEF Excepted, BookTypes
<1>15. t \notin crossed => OpenAmount(t) = 0 /\ entry[t].residual = 0 /\ entry[t].pay = "paid"
  BY <1>1, <1>2, <1>3 DEF Reliable, FlagHolds
<1>16. OpenAmount(t)' = OpenAmount(t)
  BY <1>7, <1>11, <1>12 DEF OpenAmount
<1>17. Reliable(u)'
  <2>1. (\A e \in Entries : LegsLeft(u, e)') /\ OpenHolds(u)' /\ FlagHolds(u)'
    BY <1>8, <1>11 DEF LegsLeft, OpenHolds, FlagHolds
  <2>2. \A d \in Docs : ReversalHolds(u, d)' /\ CancelHolds(u, d)'
    BY <1>8, <1>11 DEF ReversalHolds, CancelHolds, Cancels
  <2>3. ASSUME NEW e \in Entries PROVE ResetHolds(u, e)'
    <3>1. Resets(u, e)' => Resets(u, e)
      BY <1>3, <1>8, <1>11 DEF Resets
    <3> QED
      BY <1>1, <1>12, <1>13, <3>1 DEF Reliable, ResetHolds
  <2> QED
    BY <2>1, <2>2, <2>3 DEF Reliable
<1>18. Steady(u)
  <2> SUFFICES ASSUME NEW d \in Docs, d \notin Excepted
               PROVE  /\ WillRefresh(u, d) => WillRefresh(u, d)' \/ \A v \in Cashiers \ {u} : ~Cancels(v, d)
                      /\ Cancels(u, d)' => Cancels(u, d) \/ entry[d].pay = "not_paid"
    BY <1>13 DEF Steady
  <2>1. ~Cancels(u, d)'
    BY <1>8, <1>11 DEF Cancels
  <2>2. ASSUME WillRefresh(u, d), NEW v \in Cashiers \ {u}, Cancels(v, d) PROVE WillRefresh(u, d)'
    <3>1. entry[d].pay \in {"not_paid", "reversed"}
      BY <1>1, <2>2 DEF Reliable, CancelHolds, Cancels
    <3>2. d # t
      BY <1>15, <3>1 DEF Excepted
    <3> QED
      BY <1>8, <1>11, <2>2, <3>2 DEF WillRefresh
  <2> QED
    BY <2>1, <2>2
<1>19. \A e \in DOMAIN entry \ {t} : Loyal(u, e)
  <2> SUFFICES ASSUME NEW e \in DOMAIN entry \ {t}
               PROVE  (Busies(u, e) => Busies(u, e)') /\ ~Marks(u, e) /\ (~Grasps(u, e) => ~Grasps(u, e)')
    BY DEF Loyal
  <2>1. Busies(u, e) => Busies(u, e)'
    BY <1>3, <1>8, <1>11 DEF Busies, WillRefresh, Resets
  <2>2. ~Marks(u, e) /\ (~Grasps(u, e) => ~Grasps(u, e)')
    BY <1>3, <1>8, <1>11 DEF Marks, Grasps, Cancels
  <2> QED
    BY <2>1, <2>2
<1>20. Booked(t)'
  <2>1. Booked(t)
    BY <1>4 DEF BookInv
  <2>2. Within(t)' /\ DraftUnmatched(t)'
    BY <1>5, <1>7, <1>11, <1>12, <1>13, <2>1, Zenon DEF Booked, Within, DraftUnmatched
  <2>3. t \notin crossed => Settled(t) >= entry[t].total
    BY <1>6, <1>15
  <2>4. Flagged(t)'
    BY <1>7, <1>11, <1>12, <1>13, <2>3, Zenon DEF Flagged, Excepted
  <2>5. Agrees(t)'
    <3> SUFFICES ASSUME t \notin Excepted
                 PROVE  x.residual = OpenAmount(t) /\ x.pay = PayState(x.residual, x.total)
                        /\ x.reconciled = (x.residual = 0)
      BY <1>11, <1>13, <1>16, Zenon DEF Agrees, PayState
    <3>1. OpenAmount(t) = 0 /\ x.residual = 0 /\ x.pay = "paid"
      BY <1>7, <1>15 DEF Excepted
    <3>2. PayState(0, x.total) = "paid"
      BY DEF PayState
    <3>3. x.reconciled = (x.residual = 0)
      BY <1>7, <3>1, Zenon
    <3> QED
      BY <3>1, <3>2, <3>3, Zenon
  <2>6. t \in Docs => Reversed(t)'
    <3> SUFFICES ASSUME t \in Docs, t \notin Excepted, credited[t] > 0, \A v \in Cashiers : ~Marks(v, t)' PROVE FALSE
      BY <1>5, <1>13 DEF Reversed
    <3>1. \A v \in Cashiers : ~Marks(v, t)
      BY <1>3, <1>11 DEF Marks
    <3>2. ~Grasps(u, t)
      BY <2>1, <3>1 DEF Booked, Reversed
    <3> QED
      BY <1>4, <3>2 DEF Grasps
  <2> QED
    BY <2>2, <2>4, <2>5, <2>6 DEF Booked
<1>21. /\ entry'[t] \in Entry /\ entry'[t].total = entry[t].total /\ pairs' = pairs /\ behind' = behind
       /\ credited' \in [Docs -> Nat] /\ \A d \in Docs \ {t} : credited'[d] = credited[d]
  BY <1>1, <1>5, <1>7, <1>11 DEF BookTypes
<1>22. Same(t) /\ crossed \subseteq crossed' /\ \A e \in DOMAIN entry \ {t} : Settled(e)' = Settled(e)
  BY <1>5, <1>7, <1>11, <1>12 DEF Same
<1> QED
  BY <1>4, <1>5, <1>8, <1>10, <1>11, <1>13, <1>17, <1>18, <1>19, <1>20, <1>21, <1>22, EntryStep

\* The original is flagged as reversed: nobody else cancels it, or it has
\* been crossed.
LEMMA FlagReversedStep ==
    ASSUME BookInv, NEW u \in Cashiers, FlagReversed(u)
    PROVE  BookInv'
<1>1. BookTypes /\ Reliable(u)
  BY DEF BookInv
<1>2. PICK t, x, r :
         /\ t = desk[u].on /\ x = [entry[t] EXCEPT !.pay = "reversed"]
         /\ r = [desk[u] EXCEPT !.at = "against"]
  OBVIOUS
<1>3. desk[u].at = "reversed" /\ desk[u] \in Desk /\ Placed(desk[u]) /\ t \in Docs /\ t \in DOMAIN entry
  BY <1>1, <1>2, Known DEF FlagReversed, Stands, Placed
<1>5. /\ entry' = [entry EXCEPT ![t] = x] /\ desk' = [desk EXCEPT ![u] = r]
      /\ crossed' = Crossing(u, {t}) /\ UNCHANGED <<pairs, credited, behind>>
  <2>1. PICK step : step = "against"
    OBVIOUS
  <2>2. desk' = [desk EXCEPT ![u] = IF step = "idle" THEN AtDesk ELSE [desk[u] EXCEPT !.at = step]]
    BY <1>1, <2>1 DEF FlagReversed, Proceed, BookTypes
  <2>3. desk' = [desk EXCEPT ![u] = r]
    BY <1>2, <2>1, <2>2
  <2> QED
    BY <1>1, <1>2, <1>3, <2>3, Zenon DEF FlagReversed, BookTypes
<1>6. /\ t \in Entries /\ entry[t] \in Entry /\ t \notin Payments
  BY <1>1, <1>3, Known, EntriesListed
<1>7. /\ x \in Entry /\ x.posted = entry[t].posted /\ x.total = entry[t].total /\ x.reconciled = entry[t].reconciled
      /\ x.residual = entry[t].residual /\ x.pay = "reversed"
  BY <1>2, <1>6 DEF Entry
<1>8. /\ r \in Desk /\ r.on = t /\ r.legs = desk[u].legs
      /\ r.at = "against" /\ r.todo = desk[u].todo /\ r.open = desk[u].open
  BY <1>2, <1>3 DEF Desk
<1>10. Placed(r)
  BY <1>2, <1>3, <1>8 DEF Placed
<1>11. /\ desk'[u] = r /\ (\A v \in Cashiers \ {u} : desk'[v] = desk[v])
       /\ DOMAIN entry' = DOMAIN entry /\ entry'[t] = x /\ \A e \in DOMAIN entry \ {t} : entry'[e] = entry[e]
  BY <1>1, <1>3, <1>5 DEF BookTypes
<1>12. \A e : Settled(e)' = Settled(e) /\ (Unmatched(e)' <=> Unmatched(e))
  BY <1>5, SettledStays
<1>13. /\ crossed \subseteq crossed' /\ crossed' \subseteq Entries
       /\ \A v \in Cashiers \ {u} : Relies(v, t) => t \in crossed'
  BY SMTT(60), <1>1, <1>3, <1>5, CrossingOne
<1>14. \A e : (e \notin Excepted' => e \notin Excepted) /\ (e \notin crossed' => e \notin crossed)
  BY <1>5, <1>13 DEF Excepted
<1>15. t \notin Excepted => /\ entry[t].posted /\ entry[t].pay = "not_paid"
                            /\ Unmatched(t) \/ \E v \in Cashiers : WillRefresh(v, t)
  BY <1>1, <1>2, <1>3 DEF Reliable, CancelHolds, Cancels
<1>16. OpenAmount(t)' = OpenAmount(t)
  BY <1>7, <1>11, <1>12 DEF OpenAmount
<1>17. \A e : ~WillRefresh(u, e) /\ ~Marks(u, e) /\ ~Busies(u, e)
  BY <1>3 DEF WillRefresh, Marks, Busies, Resets
<1>18. Reliable(u)'
  <2>1. (\A e \in Entries : LegsLeft(u, e)' /\ ResetHolds(u, e)') /\ OpenHolds(u)' /\ FlagHolds(u)'
    BY <1>8, <1>11 DEF LegsLeft, OpenHolds, FlagHolds, ResetHolds, Resets
  <2>2. ASSUME NEW d \in Docs PROVE ReversalHolds(u, d)'
    BY <1>1, <1>2, <1>3, <1>8, <1>11, <1>14, <1>16 DEF Reliable, ReversalHolds
  <2>3. ASSUME NEW d \in Docs PROVE CancelHolds(u, d)'
    <3> SUFFICES ASSUME Cancels(u, d)', d \notin Excepted' PROVE CancelHolds(u, d)'
      BY DEF CancelHolds
    <3>1. d = t /\ t \notin Excepted /\ t \notin crossed'
      BY <1>8, <1>11, <1>14 DEF Cancels, Excepted
    <3>2. \A v \in Cashiers : WillRefresh(v, t) => WillRefresh(v, t)'
      BY <1>11, <1>17 DEF WillRefresh
    <3>3. Unmatched(t)' \/ \E v \in Cashiers : WillRefresh(v, t)'
      BY <1>12, <1>15, <3>1, <3>2
    <3>4. ASSUME NEW v \in Cashiers \ {u}, Cancels(v, t)' PROVE FALSE
      <4>1. Relies(v, t)
        BY <1>11, <3>4 DEF Cancels, Relies
      <4> QED
        BY <1>13, <3>1, <4>1
    <3>5. entry'[t].posted /\ entry'[t].pay = "reversed" /\ desk'[u].at = "against"
      BY <1>7, <1>8, <1>11, <1>15, <3>1
    <3> QED
      BY <3>1, <3>3, <3>4, <3>5 DEF CancelHolds
  <2> QED
    BY <2>1, <2>2, <2>3 DEF Reliable
<1>19. Steady(u)
  <2>1. \A d : Cancels(u, d)' => Cancels(u, d)
    BY <1>2, <1>3, <1>8, <1>11 DEF Cancels
  <2> QED
    BY <1>17, <2>1 DEF Steady
<1>20. \A e \in DOMAIN entry \ {t} : Loyal(u, e)
  <2>1. \A e : ~Grasps(u, e) => ~Grasps(u, e)'
    BY <1>2, <1>3, <1>8, <1>11 DEF Grasps, Cancels
  <2> QED
    BY <1>17, <2>1 DEF Loyal
<1>21. Booked(t)'
  <2>1. Booked(t)
    BY <1>3 DEF BookInv
  <2>2. Within(t)' /\ Flagged(t)'
    BY <1>7, <1>11, <1>12, <1>14, <2>1, Zenon DEF Booked, Within, Flagged
  <2>3. DraftUnmatched(t)'
    BY <1>7, <1>11, <1>14, <1>15, Zenon DEF DraftUnmatched
  <2>4. Busies(u, t)'
    BY <1>8, <1>11 DEF Busies
  <2>5. Agrees(t)'
    BY <2>4, Zenon DEF Agrees
  <2>6. Reversed(t)'
    <3> SUFFICES ASSUME t \notin Excepted', credited[t] > 0, \A v \in Cashiers : ~Marks(v, t)' PROVE FALSE
      BY <1>5 DEF Reversed
    <3>1. \A v \in Cashiers : ~Marks(v, t)
      BY <1>11, <1>17 DEF Marks
    <3>2. ~Grasps(u, t)
      BY <1>3, <1>14, <2>1, <3>1 DEF Booked, Reversed
    <3> QED
      BY <1>2, <1>3, <3>2 DEF Grasps, Cancels
  <2> QED
    BY <2>2, <2>3, <2>5, <2>6 DEF Booked
<1>22. /\ entry'[t] \in Entry /\ entry'[t].total = entry[t].total /\ pairs' = pairs /\ behind' = behind
       /\ credited' \in [Docs -> Nat] /\ \A d \in Docs \ {t} : credited'[d] = credited[d]
  BY <1>1, <1>5, <1>7, <1>11 DEF BookTypes
<1>23. /\ \A e \in DOMAIN entry \ {t} : Settled(e)' = Settled(e)
       /\ Same(t) \/ \A v \in Cashiers \ {u} : Relies(v, t) => t \in crossed'
  BY <1>12, <1>13
<1> QED
  BY <1>3, <1>5, <1>8, <1>10, <1>11, <1>13, <1>18, <1>19, <1>20, <1>21, <1>22, <1>23, EntryStep

\* The reversal is matched with what was open: the invoice is then settled
\* in full. When nothing was open, somebody has still to refresh it.
LEMMA MatchReversalStep ==
    ASSUME BookInv, NEW u \in Cashiers, MatchReversal(u)
    PROVE  BookInv'
<1>1. BookTypes /\ Reliable(u)
  BY DEF BookInv
<1>2. PICK t, open : t = desk[u].on /\ open = desk[u].open
  OBVIOUS
<1>3. desk[u].at = "against" /\ desk[u] \in Desk /\ Placed(desk[u]) /\ t \in Docs /\ t \in DOMAIN entry /\ open \in Int
  BY <1>1, <1>2, Known DEF MatchReversal, Stands, Placed
<1>4. /\ t \in Entries /\ entry[t] \in Entry /\ entry[t].total \in Nat /\ entry[t].total > 0 /\ Settled(t) \in Nat
      /\ OpenAmount(t) = entry[t].total - Settled(t) /\ t \notin Payments /\ credited[t] \in Nat
  BY <1>1, <1>3, Known, EntriesListed DEF BookTypes
<1>5. crossed' = Crossing(u, {t}) /\ UNCHANGED <<entry, pairs, behind>>
  BY <1>2, Zenon DEF MatchReversal
<1>6. /\ crossed \subseteq crossed' /\ crossed' \subseteq Entries
      /\ \A v \in Cashiers \ {u} : Relies(v, t) => t \in crossed'
  BY <1>1, <1>3, <1>5, CrossingOne
<1>7. \A e : (e \notin Excepted' => e \notin Excepted) /\ (e \notin crossed' => e \notin crossed)
  BY <1>5, <1>6 DEF Excepted
<1>8. t \notin Excepted => /\ entry[t].posted /\ entry[t].pay = "reversed"
                           /\ Unmatched(t) \/ \E v \in Cashiers : WillRefresh(v, t)
                           /\ \A v \in Cashiers \ {u} : ~Cancels(v, t)
  BY <1>1, <1>2, <1>3 DEF Reliable, CancelHolds, Cancels
<1>9. t \notin crossed => open = OpenAmount(t)
  BY <1>1, <1>2, <1>3 DEF Reliable, ReversalHolds
<1>10. \A e : ~WillRefresh(u, e) /\ ~Marks(u, e) /\ (e # t => ~Busies(u, e))
  BY <1>2, <1>3 DEF WillRefresh, Marks, Busies, Resets
<1>11. Booked(t)
  BY <1>3 DEF BookInv
<1>12. (\A e : Unmatched(e)' <=> Unmatched(e)) /\ DOMAIN entry' = DOMAIN entry /\ entry'[t] = entry[t]
  BY <1>5 DEF Unmatched
<1>13. CASE open > 0
  <2>1. PICK r, b : r = [desk[u] EXCEPT !.at = "mark"] /\ b = [credited EXCEPT ![t] = credited[t] + open]
    OBVIOUS
  <2>2. credited' = b /\ desk' = [desk EXCEPT ![u] = r]
    <3>1. PICK step : step = "mark"
      OBVIOUS
    <3>2. desk' = [desk EXCEPT ![u] = IF step = "idle" THEN AtDesk ELSE [desk[u] EXCEPT !.at = step]]
      BY <1>1, <1>2, <1>13, <3>1 DEF MatchReversal, Proceed, BookTypes
    <3>3. desk' = [desk EXCEPT ![u] = r]
      BY <2>1, <3>1, <3>2
    <3> QED
      BY <1>1, <1>2, <1>3, <1>13, <2>1, <3>3, Zenon DEF MatchReversal, BookTypes
  <2>3. r \in Desk /\ r.on = t /\ r.legs = desk[u].legs /\ r.at = "mark" /\ r.todo = desk[u].todo
    BY <1>2, <1>3, <2>1 DEF Desk
  <2>4. Placed(r)
    BY <1>2, <1>3, <2>3 DEF Placed
  <2>5. desk'[u] = r /\ \A v \in Cashiers \ {u} : desk'[v] = desk[v]
    BY <1>1, <2>2 DEF BookTypes
  <2>6. /\ b \in [Docs -> Nat] /\ Settled(t)' = Settled(t) + open /\ b[t] > 0
        /\ \A e \in Entries \ {t} : Settled(e)' = Settled(e)
    <3>1. pairs \in [Docs \X Payments -> Nat] /\ credited \in [Docs -> Nat] /\ open \in Nat
      BY <1>1, <1>3, <1>13 DEF BookTypes
    <3>2. PICK f : f = [y \in Payments |-> pairs[<<t, y>>]]
      OBVIOUS
    <3>3. SumFunction(f) \in Nat
      <4>1. f \in [Payments -> Nat]
        BY <1>3, <3>1, <3>2
      <4> QED
        BY <4>1, RowSum, EntriesListed
    <3>4. Settled(t) = SumFunction(f) + credited[t] /\ Settled(t)' = SumFunction(f) + b[t]
      BY <1>3, <1>5, <2>2, <3>2 DEF Settled
    <3>5. /\ b \in [Docs -> Nat] /\ b[t] = credited[t] + open /\ b[t] > 0
          /\ \A e \in Docs \ {t} : b[e] = credited[e]
      BY <1>3, <1>4, <1>13, <2>1, <3>1
    <3>6. \A e \in Entries \ {t} : Settled(e)' = Settled(e)
      BY <1>5, <2>2, <3>5 DEF Settled
    <3> QED
      BY <1>3, <1>4, <3>3, <3>4, <3>5, <3>6
  <2>7. t \notin crossed' => Settled(t)' = entry[t].total
    BY <1>3, <1>4, <1>7, <1>9, <2>6
  <2>8. Reliable(u)'
    <3>1. (\A e \in Entries : LegsLeft(u, e)' /\ ResetHolds(u, e)') /\ OpenHolds(u)' /\ FlagHolds(u)'
      BY <2>3, <2>5 DEF LegsLeft, OpenHolds, FlagHolds, ResetHolds, Resets
    <3>2. \A d \in Docs : ReversalHolds(u, d)'
      BY <2>3, <2>5 DEF ReversalHolds
    <3>3. ASSUME NEW d \in Docs PROVE CancelHolds(u, d)'
      <4> SUFFICES ASSUME Cancels(u, d)', d \notin Excepted' PROVE CancelHolds(u, d)'
        BY DEF CancelHolds
      <4>1. d = t /\ t \notin Excepted /\ t \notin crossed'
        BY <1>7, <2>3, <2>5 DEF Cancels, Excepted
      <4>2. \A v \in Cashiers : WillRefresh(v, t) => WillRefresh(v, t)'
        BY <1>10, <2>5 DEF WillRefresh
      <4>3. Unmatched(t)' \/ \E v \in Cashiers : WillRefresh(v, t)'
        BY <1>8, <1>12, <4>1, <4>2
      <4>4. \A v \in Cashiers \ {u} : ~Cancels(v, t)'
        BY <1>8, <2>5, <4>1 DEF Cancels
      <4>5. entry'[t].posted /\ entry'[t].pay = "reversed" /\ Settled(t)' = entry'[t].total /\ desk'[u].at = "mark"
        BY <1>8, <1>12, <2>3, <2>5, <2>7, <4>1
      <4> QED
        BY <4>1, <4>3, <4>4, <4>5 DEF CancelHolds
    <3> QED
      BY <3>1, <3>2, <3>3 DEF Reliable
  <2>9. Steady(u)
    <3>1. \A d : Cancels(u, d)' => Cancels(u, d)
      BY <1>2, <1>3, <2>3, <2>5 DEF Cancels
    <3> QED
      BY <1>10, <3>1 DEF Steady
  <2>10. \A e \in DOMAIN entry \ {t} : Loyal(u, e)
    <3>1. \A e : ~Grasps(u, e) => ~Grasps(u, e)'
      BY <1>2, <1>3, <2>3, <2>5 DEF Grasps, Cancels
    <3> QED
      BY <1>10, <3>1 DEF Loyal
  <2>11. Booked(t)'
    <3>1. Within(t)' /\ Flagged(t)'
      BY <1>4, <1>12, <2>7 DEF Within, Flagged, Excepted
    <3>2. DraftUnmatched(t)'
      BY <1>7, <1>8, <1>12, Zenon DEF DraftUnmatched
    <3>3. Busies(u, t)' /\ Marks(u, t)'
      BY <2>3, <2>5 DEF Busies, Marks
    <3>4. Agrees(t)' /\ Reversed(t)'
      BY <3>3, Zenon DEF Agrees, Reversed
    <3> QED
      BY <3>1, <3>2, <3>4 DEF Booked
  <2>12. /\ \A e \in DOMAIN entry \ {t} : Settled(e)' = Settled(e) /\ entry'[e] = entry[e]
         /\ Same(t) \/ \A v \in Cashiers \ {u} : Relies(v, t) => t \in crossed'
    BY <1>1, <1>5, <1>6, <2>6 DEF BookTypes
  <2>13. /\ entry'[t] \in Entry /\ entry'[t].total = entry[t].total /\ pairs' = pairs /\ behind' = behind
         /\ credited' \in [Docs -> Nat] /\ \A d \in Docs \ {t} : credited'[d] = credited[d]
    BY <1>1, <1>4, <1>5, <1>12, <2>1, <2>2, <2>6 DEF BookTypes
  <2> QED
    BY <1>3, <1>6, <1>12, <2>2, <2>3, <2>4, <2>8, <2>9, <2>10, <2>11, <2>12, <2>13, EntryStep
<1>14. CASE ~(open > 0)
  <2>1. PICK r : r = AtDesk
    OBVIOUS
  <2>2. credited' = credited /\ desk' = [desk EXCEPT ![u] = r]
    <3>1. PICK step : step = "idle"
      OBVIOUS
    <3>2. desk' = [desk EXCEPT ![u] = IF step = "idle" THEN AtDesk ELSE [desk[u] EXCEPT !.at = step]]
      BY <1>1, <1>2, <1>14, <3>1 DEF MatchReversal, Proceed, BookTypes
    <3>3. desk' = [desk EXCEPT ![u] = r]
      BY <2>1, <3>1, <3>2
    <3> QED
      BY <1>2, <1>14, <3>3, Zenon DEF MatchReversal
  <2>3. r \in Desk /\ Placed(r) /\ r.at = "idle" /\ r.todo = {}
    BY <1>1, <2>1, AtDeskIsPlaced DEF AtDesk
  <2>4. desk'[u] = r /\ \A v \in Cashiers \ {u} : desk'[v] = desk[v]
    BY <1>1, <2>2 DEF BookTypes
  <2>5. \A e : Settled(e)' = Settled(e)
    BY <1>5, <2>2, SettledStays
  <2>6. Reliable(u)'
    BY <2>3, <2>4, FreeIsReliable
  <2>7. \A e : ~Cancels(u, e)' /\ ~Grasps(u, e)'
    BY <2>3, <2>4 DEF Cancels, Grasps
  <2>8. Steady(u) /\ \A e \in DOMAIN entry \ {t} : Loyal(u, e)
    BY <1>10, <2>7 DEF Steady, Loyal
  <2>9. Booked(t)'
    <3>1. Within(t)' /\ DraftUnmatched(t)' /\ Flagged(t)'
      BY <1>7, <1>11, <1>12, <2>5, Zenon DEF Booked, Within, DraftUnmatched, Flagged
    <3>2. Agrees(t)'
      <4> SUFFICES ASSUME t \notin Excepted', \A v \in Cashiers : ~Busies(v, t)', credited[t] = 0 PROVE FALSE
        BY <1>3, <2>2, Zenon DEF Agrees
      <4>1. \A v \in Cashiers : ~WillRefresh(v, t)
        BY <1>10, <2>4 DEF Busies, WillRefresh
      <4>2. Unmatched(t)
        BY <1>7, <1>8, <4>1
      <4>3. Settled(t) = 0
        BY <1>1, <1>3, <4>2, SettledNat
      <4>4. open = entry[t].total
        BY <1>4, <1>7, <1>9, <4>3 DEF Excepted
      <4> QED
        BY <1>4, <1>14, <4>4
    <3>3. Reversed(t)'
      <4> SUFFICES ASSUME t \notin Excepted', credited[t] > 0, \A v \in Cashiers : ~Marks(v, t)' PROVE FALSE
        BY <2>2 DEF Reversed
      <4>1. \A v \in Cashiers : ~Marks(v, t)
        BY <1>10, <2>4 DEF Marks
      <4>2. ~Grasps(u, t)
        BY <1>3, <1>7, <1>11, <4>1 DEF Booked, Reversed
      <4> QED
        BY <1>2, <1>3, <4>2 DEF Grasps, Cancels
    <3> QED
      BY <3>1, <3>2, <3>3 DEF Booked
  <2>10. /\ \A e \in DOMAIN entry \ {t} : Settled(e)' = Settled(e) /\ entry'[e] = entry[e]
         /\ Same(t) \/ \A v \in Cashiers \ {u} : Relies(v, t) => t \in crossed'
    BY <1>5, <1>6, <2>5
  <2>11. /\ entry'[t] \in Entry /\ entry'[t].total = entry[t].total /\ pairs' = pairs /\ behind' = behind
         /\ credited' \in [Docs -> Nat] /\ \A d \in Docs \ {t} : credited'[d] = credited[d]
    BY <1>1, <1>4, <1>5, <1>12, <2>2 DEF BookTypes
  <2> QED
    BY <1>3, <1>6, <1>12, <2>2, <2>3, <2>6, <2>8, <2>9, <2>10, <2>11, EntryStep
<1> QED
  BY <1>13, <1>14

\* The invoice is taken out: nobody can reach it any more.
LEMMA MarkReversedStep ==
    ASSUME BookInv, NEW u \in Cashiers, MarkReversed(u)
    PROVE  BookInv'
<1>1. BookTypes /\ Reliable(u)
  BY DEF BookInv
<1>2. PICK t, x, r :
         t = desk[u].on /\ x = [entry[t] EXCEPT !.pay = "reversed", !.residual = 0] /\ r = AtDesk
  OBVIOUS
<1>3. desk[u].at = "mark" /\ Placed(desk[u]) /\ t \in Docs /\ t \in DOMAIN entry
  BY <1>1, <1>2, Known DEF MarkReversed, Stands, Placed
<1>4. /\ t \in Entries /\ entry[t] \in Entry /\ entry[t].total \in Nat /\ entry[t].total > 0 /\ t \notin Payments
      /\ Settled(t) \in Nat
  BY <1>1, <1>3, Known, EntriesListed
<1>5. /\ entry' = [entry EXCEPT ![t] = x] /\ desk' = [desk EXCEPT ![u] = r]
      /\ crossed' = Crossing(u, {t}) \cup Refreshing(u, t) /\ UNCHANGED <<pairs, credited, behind>>
  <2>1. PICK step : step = "idle"
    OBVIOUS
  <2>2. desk' = [desk EXCEPT ![u] = IF step = "idle" THEN AtDesk ELSE [desk[u] EXCEPT !.at = step]]
    BY <1>1, <2>1 DEF MarkReversed, Proceed, BookTypes
  <2>3. desk' = [desk EXCEPT ![u] = r]
    BY <1>2, <2>1, <2>2
  <2> QED
    BY <1>1, <1>2, <1>3, <2>3, Zenon DEF MarkReversed, BookTypes
<1>6. x \in Entry /\ x.posted = entry[t].posted /\ x.total = entry[t].total /\ x.pay = "reversed" /\ x.residual = 0
  BY <1>2, <1>4 DEF Entry
<1>7. r \in Desk /\ Placed(r) /\ r.at = "idle" /\ r.todo = {}
  BY <1>1, <1>2, AtDeskIsPlaced DEF AtDesk
<1>8. /\ desk'[u] = r /\ (\A v \in Cashiers \ {u} : desk'[v] = desk[v])
      /\ DOMAIN entry' = DOMAIN entry /\ entry'[t] = x /\ \A e \in DOMAIN entry \ {t} : entry'[e] = entry[e]
  BY <1>1, <1>3, <1>5 DEF BookTypes
<1>9. \A e : Settled(e)' = Settled(e) /\ (Unmatched(e)' <=> Unmatched(e))
  BY <1>5, SettledStays
<1>10. /\ crossed \subseteq crossed' /\ crossed' \subseteq Entries
       /\ \A v \in Cashiers \ {u} : Relies(v, t) \/ t \in desk[v].todo => t \in crossed'
  <2>2. /\ crossed \subseteq Crossing(u, {t}) /\ Crossing(u, {t}) \subseteq crossed \cup {t} /\ crossed \subseteq Entries
        /\ \A v \in Cashiers \ {u} : Relies(v, t) => t \in Crossing(u, {t})
    BY <1>1 DEF Crossing, BookTypes
  <2>3. /\ Refreshing(u, t) \subseteq {t}
        /\ \A v \in Cashiers \ {u} : t \in desk[v].todo => t \in Refreshing(u, t)
    BY DEF Refreshing
  <2> QED
    BY <1>4, <1>5, <2>2, <2>3
<1>11. \A e : (e \notin Excepted' => e \notin Excepted) /\ (e \notin crossed' => e \notin crossed)
  BY <1>5, <1>10 DEF Excepted
<1>12. \A e : ~WillRefresh(u, e) /\ (e # t => ~Busies(u, e) /\ ~Marks(u, e)) /\ ~Cancels(u, e)' /\ ~Grasps(u, e)'
  BY <1>2, <1>3, <1>7, <1>8 DEF WillRefresh, Marks, Busies, Resets, Cancels, Grasps
<1>13. Reliable(u)'
  BY <1>7, <1>8, FreeIsReliable
<1>14. Steady(u) /\ \A e \in DOMAIN entry \ {t} : Loyal(u, e)
  BY <1>12 DEF Steady, Loyal
<1>15. Booked(t)'
  <2>1. Booked(t)
    BY <1>3 DEF BookInv
  <2>2. Within(t)'
    BY <1>6, <1>8, <1>9, <1>11, <2>1 DEF Booked, Within
  <2>3. ASSUME t \notin Excepted' PROVE Terminal(t)' /\ \A v \in Cashiers : ~Grasps(v, t)'
    <3>1. /\ entry[t].posted /\ Settled(t) = entry[t].total
          /\ Unmatched(t) \/ \E v \in Cashiers : WillRefresh(v, t)
          /\ \A v \in Cashiers \ {u} : ~Cancels(v, t)
      BY <1>1, <1>2, <1>3, <1>11, <2>3 DEF Reliable, CancelHolds, Cancels
    <3>2. t \notin crossed'
      BY <2>3 DEF Excepted
    <3>3. Unmatched(t)
      BY <1>10, <1>12, <3>1, <3>2 DEF WillRefresh
    <3>4. credited[t] = entry[t].total
      BY <1>1, <1>3, <3>1, <3>3, SettledNat
    <3>5. Terminal(t)'
      BY <1>4, <1>5, <1>6, <1>8, <1>9, <3>1, <3>3, <3>4 DEF Terminal
    <3>6. ASSUME NEW v \in Cashiers \ {u} PROVE ~Grasps(v, t)'
      <4>1. t \notin desk[v].todo /\ ~Relies(v, t)
        BY <1>10, <3>2
      <4>2. ~(desk[v].at = "unpost" /\ desk[v].on = t)
        BY <4>1 DEF Relies
      <4> QED
        BY <1>8, <3>1, <4>1, <4>2 DEF Grasps, Cancels
    <3> QED
      BY <1>12, <3>5, <3>6
  <2>4. DraftUnmatched(t)' /\ Flagged(t)'
    <3>1. t \notin Excepted' => entry'[t].posted /\ Settled(t)' = entry'[t].total /\ credited'[t] > 0
      BY <2>3 DEF Terminal
    <3>2. t \notin Excepted' => Settled(t)' >= entry'[t].total
      BY <1>4, <1>6, <1>8, <3>1
    <3> QED
      BY <3>1, <3>2, Zenon DEF DraftUnmatched, Flagged
  <2>5. Agrees(t)'
    <3> SUFFICES ASSUME t \notin Excepted', credited'[t] = 0 PROVE FALSE
      BY <1>3, Zenon DEF Agrees
    <3>1. credited'[t] > 0
      BY <2>3 DEF Terminal
    <3> QED
      BY <3>1
  <2>6. Reversed(t)'
    BY <2>3 DEF Reversed
  <2> QED
    BY <2>2, <2>4, <2>5, <2>6 DEF Booked
<1>16. /\ entry'[t] \in Entry /\ entry'[t].total = entry[t].total /\ pairs' = pairs /\ behind' = behind
       /\ credited' \in [Docs -> Nat] /\ \A d \in Docs \ {t} : credited'[d] = credited[d]
  BY <1>1, <1>5, <1>6, <1>8 DEF BookTypes
<1>17. /\ \A e \in DOMAIN entry \ {t} : Settled(e)' = Settled(e)
       /\ Same(t) \/ \A v \in Cashiers \ {u} : Relies(v, t) => t \in crossed'
  BY <1>9, <1>10
<1> QED
  BY <1>3, <1>5, <1>7, <1>8, <1>10, <1>13, <1>14, <1>15, <1>16, <1>17, EntryStep

\* unpost_move: what is reset holds no matches.
LEMMA UnpostStep ==
    ASSUME BookInv, NEW u \in Cashiers, Unpost(u)
    PROVE  BookInv'
<1>1. BookTypes /\ Reliable(u)
  BY DEF BookInv
<1>2. PICK t, x, r :
         /\ t = desk[u].on /\ r = AtDesk
         /\ x = IF entry[t].posted THEN [entry[t] EXCEPT !.posted = FALSE, !.pay = "not_paid", !.residual = 0] ELSE entry[t]
  OBVIOUS
<1>3. desk[u].at = "unpost" /\ t \in Entries /\ t \in DOMAIN entry
  <2>1. desk[u].at = "unpost" /\ Placed(desk[u])
    BY <1>1, Known DEF Unpost, Stands
  <2> QED
    BY <1>2, <2>1, EntriesListed DEF Placed
<1>4. entry[t] \in Entry
  BY <1>1, <1>3, Known
<1>5. /\ desk' = [desk EXCEPT ![u] = r] /\ crossed' = Crossing(u, {t}) /\ UNCHANGED <<pairs, credited, behind>>
      /\ entry' = IF entry[t].posted
                  THEN [entry EXCEPT ![t] = [entry[t] EXCEPT !.posted = FALSE, !.pay = "not_paid", !.residual = 0]]
                  ELSE entry
  <2>1. PICK step : step = "idle"
    OBVIOUS
  <2>2. desk' = [desk EXCEPT ![u] = IF step = "idle" THEN AtDesk ELSE [desk[u] EXCEPT !.at = step]]
    BY <1>1, <2>1 DEF Unpost, Proceed, BookTypes
  <2>3. desk' = [desk EXCEPT ![u] = r]
    BY <1>2, <2>1, <2>2
  <2> QED
    BY <1>1, <1>2, <1>3, <2>3, Zenon DEF Unpost, BookTypes
<1>6. /\ x \in Entry /\ x.total = entry[t].total /\ x.reconciled = entry[t].reconciled /\ ~x.posted
      /\ x.pay = "not_paid" \/ (x = entry[t] /\ ~entry[t].posted)
  BY <1>2, <1>4 DEF Entry
<1>7. r \in Desk /\ Placed(r) /\ r.at = "idle" /\ r.todo = {}
  BY <1>1, <1>2, AtDeskIsPlaced DEF AtDesk
<1>8. /\ desk'[u] = r /\ (\A v \in Cashiers \ {u} : desk'[v] = desk[v])
      /\ DOMAIN entry' = DOMAIN entry /\ entry'[t] = x /\ \A e \in DOMAIN entry \ {t} : entry'[e] = entry[e]
  BY <1>1, <1>2, <1>3, <1>5 DEF BookTypes
<1>9. \A e : Settled(e)' = Settled(e) /\ (Unmatched(e)' <=> Unmatched(e))
  BY <1>5, SettledStays
<1>10. /\ crossed \subseteq crossed' /\ crossed' \subseteq Entries
       /\ \A v \in Cashiers \ {u} : Relies(v, t) => t \in crossed'
  <2>1. crossed' = Crossing(u, {t})
    BY <1>5
  <2> QED
    BY <1>1, <1>3, <2>1, CrossingOne
<1>11. \A e : (e \notin Excepted' => e \notin Excepted) /\ (e \notin crossed' => e \notin crossed)
  BY <1>5, <1>10 DEF Excepted
<1>12. \A e : ~WillRefresh(u, e) /\ (e # t => ~Busies(u, e)) /\ ~Marks(u, e) /\ ~Cancels(u, e)' /\ ~Grasps(u, e)'
  BY <1>2, <1>3, <1>7, <1>8 DEF WillRefresh, Marks, Busies, Resets, Cancels, Grasps
<1>13. Reliable(u)'
  BY <1>7, <1>8, FreeIsReliable
<1>14. Steady(u) /\ \A e \in DOMAIN entry \ {t} : Loyal(u, e)
  BY <1>12 DEF Steady, Loyal
<1>15. Booked(t)'
  <2>1. Booked(t)
    BY <1>3 DEF BookInv
  <2>2. Within(t)' /\ Flagged(t)'
    BY <1>6, <1>8, <1>9, <1>11, <2>1, Zenon DEF Booked, Within, Flagged
  <2>3. t \notin Excepted' => Settled(t) = 0
    BY <1>1, <1>2, <1>3, <1>11 DEF Reliable, ResetHolds, Resets
  <2>4. DraftUnmatched(t)'
    BY <1>6, <1>8, <1>9, <1>11, <2>1, <2>3, Zenon DEF Booked, DraftUnmatched
  <2>5. Agrees(t)'
    BY <1>6, <1>8, Zenon DEF Agrees
  <2>6. t \in Docs => Reversed(t)'
    <3>1. t \in Docs /\ t \notin Excepted' => credited[t] = 0
      BY <1>1, <2>3, SettledNat
    <3>2. t \in Docs /\ t \notin Excepted' => ~(credited'[t] > 0)
      BY <1>5, <3>1
    <3> QED
      BY <3>2 DEF Reversed
  <2> QED
    BY <2>2, <2>4, <2>5, <2>6 DEF Booked
<1>16. /\ entry'[t] \in Entry /\ entry'[t].total = entry[t].total /\ pairs' = pairs /\ behind' = behind
       /\ credited' \in [Docs -> Nat] /\ \A d \in Docs \ {t} : credited'[d] = credited[d]
  BY <1>1, <1>5, <1>6, <1>8 DEF BookTypes
<1>17. /\ \A e \in DOMAIN entry \ {t} : Settled(e)' = Settled(e)
       /\ Same(t) \/ \A v \in Cashiers \ {u} : Relies(v, t) => t \in crossed'
  BY <1>9, <1>10
<1> QED
  BY <1>3, <1>5, <1>7, <1>8, <1>10, <1>13, <1>14, <1>15, <1>16, <1>17, EntryStep

\* A draft is posted again: nobody has to do with it, or it is crossed.
LEMMA RepostStep ==
    ASSUME BookInv, NEW t \in DOMAIN entry, repost(t)
    PROVE  BookInv'
<1>1. BookTypes
  BY DEF BookInv
<1>2. PICK x :
         x = [entry[t] EXCEPT !.posted = TRUE, !.residual = entry[t].total,
                              !.reconciled = t \in Payments /\ entry[t].reconciled]
  OBVIOUS
<1>3. /\ entry' = [entry EXCEPT ![t] = x] /\ UNCHANGED <<pairs, credited, desk, behind>>
      /\ crossed' = crossed \cup {y \in {t} : \E v \in Cashiers : Relies(v, y)}
      /\ ~entry[t].posted /\ (t \in Docs => Settled(t) = 0)
  BY <1>2, Zenon DEF repost
<1>4. /\ t \in Entries /\ entry[t] \in Entry /\ entry[t].total \in Nat /\ entry[t].total > 0
      /\ Settled(t) \in Nat /\ OpenAmount(t) = entry[t].total - Settled(t)
  BY <1>1, Known
<1>5. /\ x \in Entry /\ x.posted = TRUE /\ x.total = entry[t].total /\ x.residual = entry[t].total
      /\ x.pay = entry[t].pay /\ x.reconciled = (t \in Payments /\ entry[t].reconciled)
  BY <1>2, <1>4 DEF Entry
<1>6. DOMAIN entry' = DOMAIN entry /\ entry'[t] = x /\ \A e \in DOMAIN entry \ {t} : entry'[e] = entry[e]
  BY <1>3
<1>7. \A e : Settled(e)' = Settled(e) /\ (Unmatched(e)' <=> Unmatched(e))
  BY <1>3, SettledStays
<1>8. /\ crossed \subseteq crossed' /\ crossed' \subseteq Entries
      /\ \A v \in Cashiers : Relies(v, t) => t \in crossed'
  BY <1>1, <1>3, <1>4 DEF BookTypes
<1>9. \A e : (e \notin Excepted' => e \notin Excepted) /\ (e \notin crossed' => e \notin crossed)
  BY <1>3, <1>8 DEF Excepted
<1>10. BookTypes'
  <2>1. ASSUME NEW v \in Cashiers PROVE Placed(desk[v])'
    <3>1. Placed(desk[v])
      BY <1>1 DEF BookTypes
    <3> QED
      BY <1>3, <1>6, <3>1 DEF Placed
  <2>2. \A e \in DOMAIN entry' : entry'[e] \in Entry /\ entry'[e].total > 0
    <3>1. \A e \in DOMAIN entry : entry[e] \in Entry /\ entry[e].total > 0
      BY <1>1 DEF BookTypes
    <3> QED
      BY <1>4, <1>5, <1>6, <3>1
  <2> QED
    BY <1>1, <1>3, <1>6, <1>8, <2>1, <2>2 DEF BookTypes
<1>11. \A e \in DOMAIN entry \ {t} : Untouched(e)
  BY <1>3, <1>6, <1>7 DEF Untouched, Same
<1>12. PICK W : W = Cashiers
  OBVIOUS
<1>13. Guarded(W)
  <2>1. ASSUME NEW v \in W, NEW e \in DOMAIN entry, Relies(v, e), e \notin crossed PROVE Same(e) \/ e \in crossed'
    <3>1. CASE e = t
      BY <1>8, <1>12, <2>1, <3>1
    <3>2. CASE e # t
      BY <1>11, <2>1, <3>2 DEF Untouched
    <3> QED
      BY <3>1, <3>2
  <2>2. \A v \in W : \A e \in DOMAIN entry : Relies(v, e) /\ e \notin crossed' => Same(e)
    BY <1>8, <2>1
  <2>3. \A e \in DOMAIN entry : entry'[e].total = entry[e].total
    BY <1>5, <1>6
  <2> QED
    BY <1>3, <1>6, <1>8, <2>2, <2>3 DEF Guarded
<1>14. W \in SUBSET Cashiers /\ Cashiers \ W = {}
  BY <1>12
<1>15. \A v \in W : Reliable(v)'
  BY <1>13, <1>14, OthersRely
<1>16. \A e \in DOMAIN entry \ {t} : Booked(e)'
  BY <1>11, <1>13, <1>14, EntryStays
<1>17. Booked(t)'
  <2>1. Booked(t)
    BY DEF BookInv
  <2>2. Within(t)'
    BY <1>5, <1>6, <1>7, <1>9, <2>1 DEF Booked, Within
  <2>3. DraftUnmatched(t)'
    BY <1>5, <1>6, Zenon DEF DraftUnmatched
  <2>4. Flagged(t)'
    BY <1>5, <1>6, <1>7, <1>9, <2>1, Zenon DEF Booked, Flagged
  <2>5. t \notin Excepted' => Settled(t) = 0 /\ entry[t].pay = "not_paid"
    BY <1>3, <1>9, <2>1, Zenon DEF Booked, DraftUnmatched
  <2>6. Agrees(t)'
    <3> SUFFICES ASSUME t \notin Excepted'
                 PROVE  x.residual = OpenAmount(t)' /\ x.pay = PayState(x.residual, x.total)
                        /\ x.reconciled = (x.residual = 0)
      BY <1>6, Zenon DEF Agrees, PayState
    <3>1. OpenAmount(t)' = entry[t].total
      BY <1>4, <1>5, <1>6, <1>7, <2>5 DEF OpenAmount
    <3>2. x.pay = PayState(x.residual, x.total)
      BY <1>4, <1>5, <2>5 DEF PayState
    <3>3. ~(Settled(t) >= entry[t].total)
      BY <1>4, <2>5
    <3>4. ~entry[t].reconciled
      BY <1>9, <2>1, <3>3, Zenon DEF Booked, Flagged
    <3>5. x.residual # 0
      BY <1>4, <1>5
    <3>6. x.reconciled = (x.residual = 0)
      BY <1>5, <3>4, <3>5, Zenon
    <3> QED
      BY <1>5, <3>1, <3>2, <3>6, Zenon
  <2>7. t \in Docs => Reversed(t)'
    <3>1. t \in Docs => credited[t] = 0
      BY <1>1, <1>3, SettledNat
    <3>2. t \in Docs => ~(credited'[t] > 0)
      BY <1>3, <3>1
    <3> QED
      BY <3>2 DEF Reversed
  <2> QED
    BY <2>2, <2>3, <2>4, <2>6, <2>7 DEF Booked
<1> QED
  BY <1>6, <1>10, <1>12, <1>15, <1>16, <1>17 DEF BookInv

-----------------------------------------------------------------------------
(* Steps that write to several entries *)

\* The payment is created: it is matched with nothing yet. When posting it
\* is refused, it stays as a draft.
LEMMA NewPaymentStep ==
    ASSUME BookInv, NEW u \in Cashiers, NewPayment(u)
    PROVE  BookInv'
<1>1. BookTypes /\ Reliable(u)
  BY DEF BookInv
<1>2. PICK p \in Payments :
         /\ DOMAIN entry = 1..(p - 1) /\ desk[u].at = "cash"
         /\ \/ /\ entry' = [e \in 1..p |-> IF e = p THEN Posted(desk[u].cash) ELSE entry[e]]
               /\ LET paid == [desk[u].legs EXCEPT ![p] = desk[u].cash]
                  IN desk' = [desk EXCEPT ![u] = IF desk[u].on = 0
                                THEN [@ EXCEPT !.at = "match", !.legs = paid, !.todo = desk[u].todo \cup {p}]
                                ELSE [@ EXCEPT !.at = "unpay", !.legs = paid, !.todo = {p}]]
            \/ /\ entry' = [e \in 1..p |-> IF e = p THEN [Posted(desk[u].cash) EXCEPT !.posted = FALSE, !.residual = 0]
                                           ELSE entry[e]]
               /\ Proceed(u, "idle")
         /\ UNCHANGED <<pairs, credited, crossed, behind, bounds>>
  BY Zenon DEF NewPayment, Stands
<1>3. /\ desk[u] \in Desk /\ Placed(desk[u]) /\ desk[u].cash \in Nat /\ desk[u].cash > 0
      /\ desk[u].legs \in [Entries -> Nat] /\ desk[u].todo \subseteq DOMAIN entry
      /\ desk[u].on \in Docs \cup {0} /\ (desk[u].on # 0 => desk[u].todo = {})
      /\ \A e \in Entries : desk[u].legs[e] > 0 => e \in desk[u].todo /\ e \in DOMAIN entry
  BY <1>1, <1>2, Known DEF Placed
<1>4. p \in Nat /\ p \in Entries /\ p \notin Docs /\ p # 0
  BY EntriesListed DEF Entries
<1>5. p \notin DOMAIN entry /\ 1..p = DOMAIN entry \cup {p}
  BY <1>2, <1>4
<1>6. UNCHANGED <<pairs, credited, crossed, behind>>
  BY <1>2
<1>7. \A e : Settled(e)' = Settled(e) /\ (Unmatched(e)' <=> Unmatched(e))
  BY <1>6, SettledStays
<1>8. Settled(p) = 0
  <2>1. \A d \in Docs : pairs[<<d, p>>] = 0
    BY <1>1, <1>5 DEF BookTypes
  <2> QED
    BY <1>1, <2>1, SettledNat
<1>9. PICK x, r :
         /\ x = entry'[p] /\ x \in Entry /\ x.total = desk[u].cash /\ x.reconciled = FALSE /\ x.pay = "not_paid"
         /\ x.posted => x.residual = desk[u].cash
         /\ DOMAIN entry' = DOMAIN entry \cup {p} /\ \A e \in DOMAIN entry : entry'[e] = entry[e]
         /\ desk' = [desk EXCEPT ![u] = r] /\ r \in Desk
         /\ r = AtDesk \/ (/\ r.at \in {"match", "unpay"} /\ r.on = desk[u].on /\ (r.at = "match" <=> r.on = 0)
                           /\ r.todo = desk[u].todo \cup {p}
                           /\ r.legs = [desk[u].legs EXCEPT ![p] = desk[u].cash])
  <2>1. /\ Posted(desk[u].cash) \in Entry
        /\ [Posted(desk[u].cash) EXCEPT !.posted = FALSE, !.residual = 0] \in Entry
    BY <1>3 DEF Posted, Entry
  <2>2. CASE entry' = [e \in 1..p |-> IF e = p THEN Posted(desk[u].cash) ELSE entry[e]]
    <3>1. PICK x : x = Posted(desk[u].cash)
      OBVIOUS
    <3>2. /\ x = entry'[p] /\ DOMAIN entry' = DOMAIN entry \cup {p}
          /\ \A e \in DOMAIN entry : entry'[e] = entry[e]
      BY <1>4, <1>5, <2>2, <3>1
    <3>3. /\ x \in Entry /\ x.total = desk[u].cash /\ x.reconciled = FALSE /\ x.pay = "not_paid"
          /\ x.residual = desk[u].cash
      BY <2>1, <3>1 DEF Posted
    <3>4. CASE Proceed(u, "idle")
      <4>1. PICK step : step = "idle"
        OBVIOUS
      <4>2. desk' = [desk EXCEPT ![u] = IF step = "idle" THEN AtDesk ELSE [desk[u] EXCEPT !.at = step]]
        BY <1>1, <3>4, <4>1 DEF Proceed, BookTypes
      <4>3. desk' = [desk EXCEPT ![u] = AtDesk] /\ AtDesk \in Desk
        BY <1>1, <4>1, <4>2, AtDeskIsPlaced
      <4> QED
        BY <3>2, <3>3, <4>3
    <3>5. CASE ~Proceed(u, "idle")
      <4>1. PICK paid : paid = [desk[u].legs EXCEPT ![p] = desk[u].cash]
        OBVIOUS
      <4>2. desk' = [desk EXCEPT ![u] = IF desk[u].on = 0
                                THEN [desk[u] EXCEPT !.at = "match", !.legs = paid, !.todo = desk[u].todo \cup {p}]
                                ELSE [desk[u] EXCEPT !.at = "unpay", !.legs = paid, !.todo = {p}]]
        BY <1>1, <1>2, <3>5, <4>1, Zenon DEF BookTypes
      <4>3. paid \in [Entries -> Nat] /\ desk[u].todo \cup {p} \in SUBSET Entries /\ {p} \in SUBSET Entries
        BY <1>1, <1>3, <1>4, <4>1 DEF BookTypes
      <4>4. PICK r : r = IF desk[u].on = 0
                         THEN [desk[u] EXCEPT !.at = "match", !.legs = paid, !.todo = desk[u].todo \cup {p}]
                         ELSE [desk[u] EXCEPT !.at = "unpay", !.legs = paid, !.todo = {p}]
        OBVIOUS
      <4>5. CASE desk[u].on = 0
        <5>1. r \in Desk /\ r.at = "match" /\ r.on = 0 /\ r.todo = desk[u].todo \cup {p} /\ r.legs = paid
          BY <1>3, <4>3, <4>4, <4>5 DEF Desk
        <5> QED
          BY <3>2, <3>3, <4>1, <4>2, <4>4, <4>5, <5>1
      <4>6. CASE desk[u].on # 0
        <5>1. r \in Desk /\ r.at = "unpay" /\ r.on = desk[u].on /\ r.todo = {p} /\ r.legs = paid
          BY <1>3, <4>3, <4>4, <4>6 DEF Desk
        <5>2. r.todo = desk[u].todo \cup {p}
          BY <1>3, <4>6, <5>1
        <5>3. desk' = [desk EXCEPT ![u] = r]
          BY <4>2, <4>4
        <5>4. /\ r.at \in {"match", "unpay"} /\ (r.at = "match" <=> r.on = 0)
              /\ r.legs = [desk[u].legs EXCEPT ![p] = desk[u].cash]
          BY <4>1, <4>6, <5>1
        <5> QED
          BY <3>2, <3>3, <5>1, <5>2, <5>3, <5>4
      <4> QED
        BY <4>5, <4>6
    <3> QED
      BY <3>4, <3>5
  <2>3. CASE /\ entry' = [e \in 1..p |-> IF e = p THEN [Posted(desk[u].cash) EXCEPT !.posted = FALSE, !.residual = 0]
                                         ELSE entry[e]]
             /\ Proceed(u, "idle")
    <3>1. PICK x : x = [Posted(desk[u].cash) EXCEPT !.posted = FALSE, !.residual = 0]
      OBVIOUS
    <3>2. /\ x = entry'[p] /\ DOMAIN entry' = DOMAIN entry \cup {p}
          /\ \A e \in DOMAIN entry : entry'[e] = entry[e]
      BY <1>4, <1>5, <2>3, <3>1
    <3>3. /\ x \in Entry /\ x.total = desk[u].cash /\ x.reconciled = FALSE /\ x.pay = "not_paid"
          /\ x.posted = FALSE
      BY <2>1, <3>1 DEF Posted
    <3>4. PICK step : step = "idle"
      OBVIOUS
    <3>5. desk' = [desk EXCEPT ![u] = IF step = "idle" THEN AtDesk ELSE [desk[u] EXCEPT !.at = step]]
      BY <1>1, <2>3, <3>4 DEF Proceed, BookTypes
    <3>6. desk' = [desk EXCEPT ![u] = AtDesk] /\ AtDesk \in Desk
      BY <1>1, <3>4, <3>5, AtDeskIsPlaced
    <3> QED
      BY <3>2, <3>3, <3>6
  <2> QED
    BY <1>2, <2>2, <2>3
<1>10. Placed(r)' /\ DOMAIN entry \subseteq DOMAIN entry'
  <2>1. CASE r = AtDesk
    <3>1. Placed(AtDesk)
      BY <1>1, AtDeskIsPlaced
    <3>2. DOMAIN entry \subseteq DOMAIN entry'
      BY <1>9
    <3>3. Placed(r)
      BY <2>1, <3>1
    <3> QED
      BY <3>2, <3>3, PlacedStays
  <2>2. CASE r # AtDesk
    <3>1. /\ r.at \in {"match", "unpay"} /\ r.on = desk[u].on /\ (r.at = "match" <=> r.on = 0)
          /\ r.todo = desk[u].todo \cup {p} /\ r.legs = [desk[u].legs EXCEPT ![p] = desk[u].cash]
      BY <1>9, <2>2
    <3>2. r.on \in Docs \cup {0} /\ (r.on # 0 => r.on \in DOMAIN entry) /\ Docs \subseteq DOMAIN entry
      BY <1>1, <1>3, <3>1 DEF BookTypes
    <3>3. \A e \in Entries : r.legs[e] > 0 => e \in r.todo /\ e \in DOMAIN entry \cup {p}
      BY <1>3, <3>1
    <3> QED
      BY <1>3, <1>9, <3>1, <3>2, <3>3 DEF Placed
  <2> QED
    BY <2>1, <2>2
<1>11. BookTypes' /\ desk'[u] = r /\ \A v \in Cashiers \ {u} : desk'[v] = desk[v]
  <2>1. \A e \in DOMAIN entry' : entry'[e] \in Entry /\ entry'[e].total > 0
    <3>1. \A e \in DOMAIN entry : entry[e] \in Entry /\ entry[e].total > 0
      BY <1>1 DEF BookTypes
    <3> QED
      BY <1>3, <1>9, <3>1
  <2>2. DOMAIN entry' \subseteq Entries
    BY <1>1, <1>4, <1>9 DEF BookTypes
  <2>3. /\ pairs' \in [Docs \X Payments -> Nat] /\ credited' \in [Docs -> Nat]
        /\ crossed' \subseteq Entries /\ behind' \subseteq Entries
        /\ \A d \in Docs, q \in Payments : q \notin DOMAIN entry' => pairs'[<<d, q>>] = 0
    BY <1>1, <1>6, <1>10 DEF BookTypes
  <2> QED
    BY <1>1, <1>9, <1>10, <2>1, <2>2, <2>3, TypesStay
<1>12. \A e \in DOMAIN entry : Untouched(e)
  BY <1>6, <1>7, <1>9 DEF Untouched, Same
<1>13. Guarded(Cashiers \ {u})
  BY <1>6, <1>9, <1>10, <1>11, <1>12 DEF Guarded, Untouched
<1>14. Excepted' = Excepted /\ \A e : ~WillRefresh(u, e) /\ ~Busies(u, e) /\ ~Marks(u, e)
  BY <1>2, <1>6, NothingOwed DEF Excepted
<1>15. r.at \in {"idle", "match", "unpay"} /\ r.todo \subseteq desk[u].todo \cup {p}
  BY <1>9 DEF AtDesk
<1>16. Steady(u) /\ \A e \in DOMAIN entry : Loyal(u, e)
  <2>1. \A e : ~Cancels(u, e)' /\ (e # p /\ ~Grasps(u, e) => ~Grasps(u, e)')
    BY <1>11, <1>15 DEF Cancels, Grasps
  <2> QED
    BY <1>5, <1>14, <2>1 DEF Steady, Loyal
<1>17. Reliable(u)'
  <2>1. /\ OpenHolds(u)' /\ FlagHolds(u)' /\ (\A e \in Entries : ResetHolds(u, e)')
        /\ \A d \in Docs : ReversalHolds(u, d)' /\ CancelHolds(u, d)'
    BY <1>11, <1>15 DEF OpenHolds, FlagHolds, ResetHolds, Resets, ReversalHolds, CancelHolds, Cancels
  <2>2. ASSUME NEW e \in Entries PROVE LegsLeft(u, e)'
    <3> SUFFICES ASSUME r.at \in {"match", "unpay"}, r.legs[e] > 0, e \notin crossed
                 PROVE  Settled(e) + r.legs[e] <= entry'[e].total
      BY <1>6, <1>7, <1>11, <1>15 DEF LegsLeft
    <3>1. r.legs = [desk[u].legs EXCEPT ![p] = desk[u].cash]
      BY <1>9 DEF AtDesk
    <3>2. CASE e = p
      BY <1>3, <1>8, <1>9, <3>1, <3>2
    <3>3. CASE e # p
      <4>1. r.legs[e] = desk[u].legs[e] /\ e \in DOMAIN entry
        BY <1>3, <3>1, <3>3
      <4>2. Settled(e) + desk[u].legs[e] <= entry[e].total
        BY <1>1, <1>2, <4>1 DEF Reliable, LegsLeft
      <4> QED
        BY <1>9, <4>1, <4>2
    <3> QED
      BY <3>2, <3>3
  <2> QED
    BY <2>1, <2>2 DEF Reliable
<1>18. Booked(p)'
  <2>1. Settled(p)' = 0 /\ entry'[p] = x /\ x.total \in Nat /\ x.total > 0
    BY <1>3, <1>7, <1>8, <1>9
  <2>2. Within(p)' /\ DraftUnmatched(p)'
    BY <1>9, <2>1 DEF Within, DraftUnmatched
  <2>3. Flagged(p)'
    BY <1>9, <2>1, Zenon DEF Flagged
  <2>4. Agrees(p)'
    <3> SUFFICES ASSUME x.posted
                 PROVE  x.residual = OpenAmount(p)' /\ x.pay = PayState(x.residual, x.total)
                        /\ x.reconciled = (x.residual = 0)
      BY <2>1, Zenon DEF Agrees, PayState
    <3>1. x.residual = x.total
      BY <1>9
    <3>2. OpenAmount(p)' = x.total
      BY <2>1 DEF OpenAmount
    <3>3. x.pay = PayState(x.residual, x.total)
      BY <1>9, <2>1, <3>1 DEF PayState
    <3>4. x.residual # 0
      BY <2>1, <3>1
    <3>5. x.reconciled = (x.residual = 0)
      BY <1>9, <3>4, Zenon
    <3> QED
      BY <3>1, <3>2, <3>3, <3>5, Zenon
  <2> QED
    BY <1>4, <2>2, <2>3, <2>4 DEF Booked
<1>19. PICK T : T = {p}
  OBVIOUS
<1>20. /\ \A e \in DOMAIN entry \ T : Untouched(e) /\ Loyal(u, e)
       /\ \A e \in T : e \in DOMAIN entry' => Booked(e)'
       /\ DOMAIN entry' \subseteq DOMAIN entry \cup T
  BY <1>9, <1>12, <1>16, <1>18, <1>19
<1> QED
  BY <1>11, <1>13, <1>16, <1>17, <1>20, StepKeeps

\* The greedy matching goes on: what it takes was still open, or one of the
\* two is crossed.
LEMMA MatchNextStep ==
    ASSUME BookInv, NEW u \in Cashiers, MatchNext(u)
    PROVE  BookInv'
<1>1. BookTypes /\ Reliable(u)
  BY DEF BookInv
<1>2. PICK legs, debits, credits :
         /\ legs = desk[u].legs /\ debits = {d \in Docs : legs[d] > 0} /\ credits = {p \in Payments : legs[p] > 0}
  OBVIOUS
<1>3. /\ desk[u].at = "match" /\ UNCHANGED <<entry, credited, behind>>
      /\ IF debits = {} \/ credits = {}
         THEN /\ desk' = [desk EXCEPT ![u] = [desk[u] EXCEPT !.at = "refresh", !.legs = NoLegs]]
              /\ UNCHANGED <<pairs, crossed>>
         ELSE \E d, p, k :
                 /\ d = Lowest(debits) /\ p = Lowest(credits)
                 /\ k = IF legs[d] < legs[p] THEN legs[d] ELSE legs[p]
                 /\ pairs' = [pairs EXCEPT ![<<d, p>>] = @ + k]
                 /\ desk' = [desk EXCEPT ![u].legs = [legs EXCEPT ![d] = legs[d] - k, ![p] = legs[p] - k]]
                 /\ crossed' = Crossing(u, {d, p}) \cup {e \in {d, p} : ~entry[e].posted}
  <2>1. desk[u].at = "match" /\ UNCHANGED <<entry, credited, behind>>
    BY DEF MatchNext, Stands
  <2>2. CASE debits = {} \/ credits = {}
    <3>1. /\ desk' = [desk EXCEPT ![u] = [desk[u] EXCEPT !.at = "refresh", !.legs = NoLegs]]
          /\ UNCHANGED <<pairs, crossed>>
      BY <1>2, <2>2 DEF MatchNext
    <3> QED
      BY <2>1, <2>2, <3>1
  <2>3. CASE ~(debits = {} \/ credits = {})
    <3>1. PICK d, p, k : d = Lowest(debits) /\ p = Lowest(credits) /\ k = IF legs[d] < legs[p] THEN legs[d] ELSE legs[p]
      OBVIOUS
    <3>2. pairs' = [pairs EXCEPT ![<<d, p>>] = @ + k]
      BY ZenonT(90), <1>2, <2>3, <3>1 DEF MatchNext
    <3>3. desk' = [desk EXCEPT ![u].legs = [legs EXCEPT ![d] = legs[d] - k, ![p] = legs[p] - k]]
      BY ONLY SMTT(60), MatchNext(u), <1>2, <2>3, <3>1 DEF MatchNext
    <3>4. crossed' = Crossing(u, {d, p}) \cup {e \in {d, p} : ~entry[e].posted}
      BY <1>2, <2>3, <3>1 DEF MatchNext
    <3> QED
      BY <2>1, <2>3, <3>1, <3>2, <3>3, <3>4
  <2> QED
    BY <2>2, <2>3
<1>4. /\ desk[u] \in Desk /\ desk[u].on = 0 /\ legs \in [Entries -> Nat] /\ desk[u].todo \subseteq DOMAIN entry
      /\ \A e \in Entries : legs[e] > 0 => e \in desk[u].todo /\ e \in DOMAIN entry
  BY <1>1, <1>2, <1>3, Known DEF Placed
<1>5. CASE debits = {} \/ credits = {}
  <2>1. PICK r : r = [desk[u] EXCEPT !.at = "refresh", !.legs = NoLegs]
    OBVIOUS
  <2>2. desk' = [desk EXCEPT ![u] = r] /\ UNCHANGED <<entry, pairs, credited, crossed, behind>>
    BY <1>3, <1>5, <2>1
  <2>3. NoLegs \in [Entries -> Nat] /\ \A e \in Entries : NoLegs[e] = 0
    BY DEF NoLegs
  <2>4. r \in Desk /\ r.at = "refresh" /\ r.on = 0 /\ r.legs = NoLegs /\ r.todo = desk[u].todo
    BY <1>4, <2>1, <2>3 DEF Desk
  <2>5. Placed(r)
    BY <1>4, <2>3, <2>4 DEF Placed
  <2>6. desk'[u] = r /\ Excepted' = Excepted /\ behind \subseteq behind' /\ behind' \subseteq Entries
    BY <1>1, <2>2 DEF BookTypes, Excepted
  <2>7. \A e : /\ WillRefresh(u, e) => WillRefresh(u, e)'
               /\ ~Marks(u, e) /\ ~Cancels(u, e)' /\ (Busies(u, e) => Busies(u, e)')
               /\ ~Grasps(u, e) => ~Grasps(u, e)'
    BY <1>3, <2>4, <2>6 DEF WillRefresh, Busies, Resets, Marks, Cancels, Grasps
  <2>8. Steady(u) /\ \A d \in Docs : CancelHolds(u, d)'
    BY <2>7 DEF Steady, CancelHolds
  <2>9. \A e \in DOMAIN entry : Loyal(u, e)
    BY <2>7 DEF Loyal
  <2>10. \A e \in Entries : r.on # e
    BY <2>4, EntriesListed
  <2> QED
    BY <2>2, <2>4, <2>5, <2>6, <2>8, <2>9, <2>10, DeskStep
<1>6. CASE debits # {} /\ credits # {}
  <2>1. PICK d, p, k :
           /\ d = Lowest(debits) /\ p = Lowest(credits)
           /\ k = IF legs[d] < legs[p] THEN legs[d] ELSE legs[p]
           /\ pairs' = [pairs EXCEPT ![<<d, p>>] = @ + k]
           /\ desk' = [desk EXCEPT ![u].legs = [legs EXCEPT ![d] = legs[d] - k, ![p] = legs[p] - k]]
           /\ crossed' = Crossing(u, {d, p}) \cup {e \in {d, p} : ~entry[e].posted}
    BY <1>3, <1>6
  <2>2. d \in Docs /\ legs[d] > 0 /\ p \in Payments /\ legs[p] > 0
    <3>1. debits \subseteq Entries /\ credits \subseteq Entries
      BY <1>2 DEF Entries
    <3>2. d \in debits /\ p \in credits
      BY <1>6, <2>1, <3>1, LowestIsOne
    <3> QED
      BY <1>2, <3>2
  <2>3. d \in Entries /\ p \in Entries /\ d # p /\ {d, p} \subseteq DOMAIN entry /\ {d, p} \subseteq desk[u].todo
    BY <1>4, <2>2, EntriesListed DEF Entries
  <2>4. k \in Nat /\ k <= legs[d] /\ k <= legs[p]
    BY <1>4, <2>1, <2>3
  <2>5. PICK rest : rest = [legs EXCEPT ![d] = legs[d] - k, ![p] = legs[p] - k]
    OBVIOUS
  <2>6. /\ rest \in [Entries -> Nat] /\ rest[d] = legs[d] - k /\ rest[p] = legs[p] - k
        /\ \A e \in Entries \ {d, p} : rest[e] = legs[e]
    BY <1>4, <2>3, <2>4, <2>5
  <2>7. PICK r : r = [desk[u] EXCEPT !.legs = rest]
    OBVIOUS
  <2>8. desk' = [desk EXCEPT ![u] = r]
    BY <1>1, <2>1, <2>5, <2>7 DEF BookTypes
  <2>9. r \in Desk /\ r.at = "match" /\ r.on = 0 /\ r.legs = rest /\ r.todo = desk[u].todo
    BY <1>3, <1>4, <2>6, <2>7 DEF Desk
  <2>10. \A e \in Entries : rest[e] > 0 => legs[e] > 0
    BY <2>2, <2>6
  <2>11. Placed(r)
    BY <1>4, <2>9, <2>10 DEF Placed
  <2>12. /\ pairs' \in [Docs \X Payments -> Nat] /\ pairs'[<<d, p>>] = pairs[<<d, p>>] + k
         /\ \A x \in Docs, y \in Payments : x # d \/ y # p => pairs'[<<x, y>>] = pairs[<<x, y>>]
    BY <1>1, <2>1, <2>2, <2>4 DEF BookTypes
  <2>13. /\ Settled(d)' = Settled(d) + k /\ Settled(p)' = Settled(p) + k
         /\ \A e \in Entries \ {d, p} : Settled(e)' = Settled(e)
    <3>1. PICK m, c, n : m = pairs /\ c = credited /\ n = pairs'
      OBVIOUS
    <3>2. m \in Matches /\ c \in Credits
      BY <1>1, <3>1 DEF BookTypes, Matches, Credits
    <3>3. n \in Matches
      BY <2>12, <3>1 DEF Matches
    <3>4. n[<<d, p>>] = m[<<d, p>>] + k
      BY <2>12, <3>1
    <3>5. \A x \in Docs, y \in Payments : x # d \/ y # p => n[<<x, y>>] = m[<<x, y>>]
      BY <2>12, <3>1
    <3>6. /\ Held(n, c, d) = Held(m, c, d) + k /\ Held(n, c, p) = Held(m, c, p) + k
          /\ \A e \in Entries \ {d, p} : Held(n, c, e) = Held(m, c, e)
      BY <2>2, <2>4, <3>2, <3>3, <3>4, <3>5, HeldMatched
    <3>7. \A e : Settled(e) = Held(m, c, e) /\ Settled(e)' = Held(n, c, e)
      BY <1>3, <3>1 DEF Settled, Held
    <3> QED
      BY <3>6, <3>7
  <2>14. /\ crossed \subseteq crossed' /\ crossed' \subseteq Entries
         /\ \A e \in {d, p} : ~entry[e].posted \/ (\E v \in Cashiers \ {u} : Relies(v, e)) => e \in crossed'
    BY <1>1, <2>1, <2>3 DEF Crossing, BookTypes
  <2>15. \A e : (e \notin Excepted' => e \notin Excepted) /\ (e \notin crossed' => e \notin crossed)
    BY <1>3, <2>14 DEF Excepted
  <2>16. BookTypes' /\ desk'[u] = r /\ \A v \in Cashiers \ {u} : desk'[v] = desk[v]
    <3>1. Placed(r)'
      BY <1>3, <2>11 DEF Placed
    <3>2. \A x \in Docs, y \in Payments : y \notin DOMAIN entry' => pairs'[<<x, y>>] = 0
      <4>1. \A x \in Docs, y \in Payments : y \notin DOMAIN entry => pairs[<<x, y>>] = 0
        BY <1>1 DEF BookTypes
      <4> QED
        BY ZenonT(90), <1>3, <2>3, <2>12, <4>1
    <3>3. /\ DOMAIN entry \subseteq DOMAIN entry' /\ DOMAIN entry' \subseteq Entries
          /\ \A e \in DOMAIN entry' : entry'[e] \in Entry /\ entry'[e].total > 0
          /\ credited' \in [Docs -> Nat] /\ behind' \subseteq Entries
      BY <1>1, <1>3 DEF BookTypes
    <3> QED
      BY <1>1, <2>8, <2>9, <2>12, <2>14, <3>1, <3>2, <3>3, TypesStay
  <2>17. \A e \in DOMAIN entry \ {d, p} : Untouched(e)
    <3>1. \A x \in Docs \ {d} : Unmatched(x)' <=> Unmatched(x)
      BY <2>12 DEF Unmatched
    <3>2. DOMAIN entry \subseteq Entries
      BY <1>1 DEF BookTypes
    <3> QED
      BY <1>3, <2>13, <3>1, <3>2 DEF Untouched, Same
  <2>18. Guarded(Cashiers \ {u})
    <3>1. ASSUME NEW v \in Cashiers \ {u}, NEW e \in DOMAIN entry, Relies(v, e), e \notin crossed' PROVE Same(e)
      <4>1. e \notin {d, p}
        BY <2>14, <3>1
      <4> QED
        BY <2>17, <3>1, <4>1 DEF Untouched
    <3> QED
      BY <1>3, <2>14, <2>16, <3>1 DEF Guarded
  <2>19. \A e : /\ WillRefresh(u, e) <=> WillRefresh(u, e)'
                /\ Busies(u, e) => Busies(u, e)'
                /\ ~Marks(u, e) /\ ~Cancels(u, e)' /\ (~Grasps(u, e) => ~Grasps(u, e)')
    BY <1>3, <2>9, <2>16 DEF WillRefresh, Busies, Resets, Marks, Cancels, Grasps
  <2>20. Steady(u) /\ \A e \in DOMAIN entry : Loyal(u, e)
    BY <2>19 DEF Steady, Loyal
  <2>21. \A e \in {d, p} : e \notin crossed => Settled(e) + legs[e] <= entry[e].total
    BY <1>1, <1>2, <1>3, <2>2, <2>3 DEF Reliable, LegsLeft
  <2>22. \A e \in {d, p} : /\ Settled(e)' = Settled(e) + k /\ rest[e] = legs[e] - k
                           /\ legs[e] \in Nat /\ k <= legs[e] /\ Settled(e) \in Nat /\ entry[e].total \in Nat
    BY <1>1, <1>4, <2>3, <2>4, <2>6, <2>13, Known
  <2>23. Reliable(u)'
    <3>1. /\ OpenHolds(u)' /\ FlagHolds(u)' /\ (\A e \in Entries : ResetHolds(u, e)')
          /\ \A x \in Docs : ReversalHolds(u, x)' /\ CancelHolds(u, x)'
      BY <2>9, <2>16 DEF OpenHolds, FlagHolds, ResetHolds, Resets, ReversalHolds, CancelHolds, Cancels
    <3>2. ASSUME NEW e \in Entries PROVE LegsLeft(u, e)'
      <4> SUFFICES ASSUME rest[e] > 0, e \notin crossed' PROVE Settled(e)' + rest[e] <= entry[e].total
        BY <1>3, <2>9, <2>16 DEF LegsLeft
      <4>1. CASE e \in {d, p}
        BY <2>4, <2>15, <2>21, <2>22, <4>1
      <4>2. CASE e \notin {d, p}
        <5>1. rest[e] = legs[e] /\ Settled(e)' = Settled(e)
          BY <2>6, <2>13, <4>2
        <5> QED
          BY <1>1, <1>2, <1>3, <2>15, <5>1 DEF Reliable, LegsLeft
      <4> QED
        BY <4>1, <4>2
    <3> QED
      BY <3>1, <3>2 DEF Reliable
  <2>24. \A e \in {d, p} : Booked(e)'
    <3> SUFFICES ASSUME NEW e \in {d, p} PROVE Booked(e)'
      OBVIOUS
    <3>1. Booked(e) /\ e \in DOMAIN entry
      BY <2>3 DEF BookInv
    <3>2. Within(e)'
      BY <1>3, <2>4, <2>15, <2>21, <2>22 DEF Within
    <3>3. e \notin Excepted' => entry[e].posted
      BY <2>14 DEF Excepted
    <3>4. DraftUnmatched(e)'
      BY <1>3, <3>3, Zenon DEF DraftUnmatched
    <3>5. Flagged(e)'
      <4>1. Settled(e) >= entry[e].total => Settled(e)' >= entry[e].total
        BY <2>4, <2>22
      <4> QED
        BY <1>3, <2>15, <3>1, <4>1, Zenon DEF Booked, Flagged
    <3>6. Agrees(e)'
      <4>1. Busies(u, e)'
        BY <2>3, <2>9, <2>16 DEF Busies, WillRefresh
      <4> QED
        BY <4>1, Zenon DEF Agrees
    <3>7. e \in Docs => Reversed(e)'
      <4> SUFFICES ASSUME e \in Docs, e \notin Excepted', credited[e] > 0, \A v \in Cashiers : ~Marks(v, e)' PROVE FALSE
        BY <1>3 DEF Reversed
      <4>1. \A v \in Cashiers : ~Marks(v, e)
        BY <2>16, <2>19 DEF Marks
      <4>2. ~Grasps(u, e)
        BY <2>15, <3>1, <4>1 DEF Booked, Reversed
      <4> QED
        BY <2>3, <4>2 DEF Grasps
    <3> QED
      BY <3>2, <3>4, <3>5, <3>6, <3>7 DEF Booked
  <2>25. PICK T : T = {d, p}
    OBVIOUS
  <2>26. /\ \A e \in DOMAIN entry \ T : Untouched(e) /\ Loyal(u, e)
         /\ \A e \in T : e \in DOMAIN entry' => Booked(e)'
         /\ DOMAIN entry' \subseteq DOMAIN entry \cup T
    BY <1>3, <2>17, <2>20, <2>24, <2>25
  <2> QED
    BY <2>16, <2>18, <2>20, <2>23, <2>26, StepKeeps
<1> QED
  BY <1>5, <1>6

\* The matches of a payment are deleted: the invoices it settled are to be
\* refreshed, or were matched too late to be found.
LEMMA DeletePairsStep ==
    ASSUME BookInv, NEW u \in Cashiers, DeletePairs(u)
    PROVE  BookInv'
<1>1. BookTypes /\ Reliable(u)
  BY DEF BookInv
<1>2. PICK p, M, r :
         /\ p = desk[u].on /\ M = {d \in Docs : pairs[<<d, p>>] > 0}
         /\ r = [desk[u] EXCEPT !.at = "refresh"]
  OBVIOUS
<1>3. desk[u].at = "delete" /\ desk[u] \in Desk /\ Placed(desk[u]) /\ desk[u].todo \subseteq DOMAIN entry
  BY <1>1, Known DEF DeletePairs, Stands
<1>4. p \in Payments /\ p \in Entries /\ p \in DOMAIN entry /\ p \notin Docs
  <2>1. p \in Payments /\ p \in DOMAIN entry \cup {0}
    BY <1>2, <1>3 DEF Placed
  <2> QED
    BY <2>1, EntriesListed DEF Entries
<1>5. /\ pairs' = [x \in Docs \X Payments |-> IF x[2] = p THEN 0 ELSE pairs[x]]
      /\ entry' = [e \in DOMAIN entry |-> IF e = p \/ e \in desk[u].todo
                                          THEN [entry[e] EXCEPT !.reconciled = FALSE] ELSE entry[e]]
      /\ crossed' = Crossing(u, {p} \cup M)
      /\ behind' = behind \cup {d \in Docs \ desk[u].todo : pairs[<<d, p>>] > 0}
      /\ credited' = credited /\ desk' = [desk EXCEPT ![u] = r]
  <2>1. PICK step : step = "refresh"
    OBVIOUS
  <2>2. desk' = [desk EXCEPT ![u] = IF step = "idle" THEN AtDesk ELSE [desk[u] EXCEPT !.at = step]]
    BY <1>1, <2>1 DEF DeletePairs, Proceed, BookTypes
  <2>3. desk' = [desk EXCEPT ![u] = r]
    BY <1>2, <2>1, <2>2
  <2> QED
    BY <1>2, <2>3, Zenon DEF DeletePairs
<1>6. r \in Desk /\ r.at = "refresh" /\ r.on = p /\ r.legs = desk[u].legs /\ r.todo = desk[u].todo
  BY <1>2, <1>3 DEF Desk
<1>7. Placed(r)
  BY <1>2, <1>3, <1>4, <1>6 DEF Placed
<1>8. /\ DOMAIN entry' = DOMAIN entry
      /\ \A e \in DOMAIN entry : /\ e = p \/ e \in desk[u].todo => entry'[e] = [entry[e] EXCEPT !.reconciled = FALSE]
                                 /\ ~(e = p \/ e \in desk[u].todo) => entry'[e] = entry[e]
  BY <1>5
<1>9. \A e \in DOMAIN entry :
         /\ e \in Entries /\ entry'[e] \in Entry /\ entry'[e].posted = entry[e].posted /\ entry'[e].total = entry[e].total
         /\ entry'[e].pay = entry[e].pay /\ entry'[e].residual = entry[e].residual
         /\ e = p \/ e \in desk[u].todo => entry'[e].reconciled = FALSE
         /\ ~(e = p \/ e \in desk[u].todo) => entry'[e].reconciled = entry[e].reconciled
  <2> SUFFICES ASSUME NEW e \in DOMAIN entry
               PROVE  /\ e \in Entries /\ entry'[e] \in Entry /\ entry'[e].posted = entry[e].posted
                      /\ entry'[e].total = entry[e].total
                      /\ entry'[e].pay = entry[e].pay /\ entry'[e].residual = entry[e].residual
                      /\ e = p \/ e \in desk[u].todo => entry'[e].reconciled = FALSE
                      /\ ~(e = p \/ e \in desk[u].todo) => entry'[e].reconciled = entry[e].reconciled
    OBVIOUS
  <2>1. e \in Entries /\ entry[e] \in Entry
    BY <1>1, Known
  <2>2. CASE e = p \/ e \in desk[u].todo
    <3>1. entry'[e] = [entry[e] EXCEPT !.reconciled = FALSE]
      BY <1>8, <2>2
    <3> QED
      BY <2>1, <2>2, <3>1 DEF Entry
  <2>3. CASE ~(e = p \/ e \in desk[u].todo)
    <3>1. entry'[e] = entry[e]
      BY <1>8, <2>3
    <3> QED
      BY <2>1, <2>3, <3>1
  <2> QED
    BY <2>2, <2>3
<1>10. /\ pairs' \in [Docs \X Payments -> Nat]
       /\ \A d \in Docs : pairs'[<<d, p>>] = 0 /\ \A y \in Payments \ {p} : pairs'[<<d, y>>] = pairs[<<d, y>>]
       /\ Settled(p)' = 0
       /\ \A d \in Docs : Settled(d)' <= Settled(d) /\ (d \notin M => Settled(d)' = Settled(d))
       /\ \A y \in Payments \ {p} : Settled(y)' = Settled(y)
  <2>1. PICK m, c, n : m = pairs /\ c = credited /\ n = pairs'
    OBVIOUS
  <2>2. m \in Matches /\ c \in Credits
    BY <1>1, <2>1 DEF BookTypes, Matches, Credits
  <2>3. n = [x \in Docs \X Payments |-> IF x[2] = p THEN 0 ELSE m[x]]
    BY <1>5, <2>1
  <2>4. /\ n \in Matches
        /\ \A d \in Docs : n[<<d, p>>] = 0 /\ \A y \in Payments \ {p} : n[<<d, y>>] = m[<<d, y>>]
        /\ Held(n, c, p) = 0
        /\ \A d \in Docs : Held(n, c, d) <= Held(m, c, d) /\ (m[<<d, p>>] = 0 => Held(n, c, d) = Held(m, c, d))
        /\ \A y \in Payments \ {p} : Held(n, c, y) = Held(m, c, y)
    BY SMTT(60), <1>4, <2>2, <2>3, HeldDeleted
  <2>5. \A e : Settled(e) = Held(m, c, e) /\ Settled(e)' = Held(n, c, e)
    BY <1>5, <2>1 DEF Settled, Held
  <2>6. \A d \in Docs : d \notin M => m[<<d, p>>] = 0
    BY <1>2, <1>4, <2>1, <2>2 DEF Matches
  <2> QED
    BY <2>1, <2>4, <2>5, <2>6 DEF Matches
<1>11. \A e \in DOMAIN entry : /\ Settled(e)' \in Nat /\ Settled(e) \in Nat /\ entry[e].total \in Nat
                               /\ Settled(e)' <= Settled(e) /\ (e \notin {p} \cup M => Settled(e)' = Settled(e))
  <2> SUFFICES ASSUME NEW e \in DOMAIN entry
               PROVE  /\ Settled(e)' \in Nat /\ Settled(e) \in Nat /\ entry[e].total \in Nat
                      /\ Settled(e)' <= Settled(e) /\ (e \notin {p} \cup M => Settled(e)' = Settled(e))
    OBVIOUS
  <2>1. e \in Entries /\ Settled(e) \in Nat /\ entry[e].total \in Nat
    BY <1>1, Known
  <2>2. Settled(e)' \in Nat
    <3>1. PICK n, c : n = pairs' /\ c = credited
      OBVIOUS
    <3>2. n \in Matches /\ c \in Credits
      BY <1>1, <1>10, <3>1 DEF BookTypes, Matches, Credits
    <3>3. Settled(e)' = Held(n, c, e)
      BY <1>5, <3>1 DEF Settled, Held
    <3> QED
      BY <2>1, <3>2, <3>3, HeldNat
  <2>3. CASE e = p
    BY <1>10, <2>1, <2>3
  <2>4. CASE e \in Docs
    BY <1>10, <2>1, <2>2, <2>4
  <2>5. CASE e \in Payments \ {p}
    BY <1>10, <2>1, <2>5
  <2> QED
    BY <2>1, <2>2, <2>3, <2>4, <2>5 DEF Entries
<1>12. /\ M \subseteq Docs /\ crossed \subseteq crossed' /\ crossed' \subseteq Entries
       /\ \A e \in {p} \cup M : (\E v \in Cashiers \ {u} : Relies(v, e)) => e \in crossed'
  <2>1. M \subseteq Docs /\ crossed \subseteq Entries
    BY <1>1, <1>2 DEF BookTypes
  <2> QED
    BY <1>4, <1>5, <2>1 DEF Crossing, Entries
<1>13. /\ behind \subseteq behind' /\ behind' \subseteq Entries
       /\ \A e \in M : e \in desk[u].todo \/ e \in behind'
  BY <1>1, <1>2, <1>5 DEF BookTypes, Entries
<1>14. \A e : (e \notin Excepted' => e \notin Excepted /\ e \notin behind') /\ (e \notin crossed' => e \notin crossed)
  BY <1>12, <1>13 DEF Excepted
<1>15. BookTypes' /\ desk'[u] = r /\ \A v \in Cashiers \ {u} : desk'[v] = desk[v]
  <2>1. Placed(r)'
    BY <1>7, <1>8 DEF Placed
  <2>2. \A x \in Docs, y \in Payments : y \notin DOMAIN entry' => pairs'[<<x, y>>] = 0
    <3>1. \A x \in Docs, y \in Payments : y \notin DOMAIN entry => pairs[<<x, y>>] = 0
      BY <1>1 DEF BookTypes
    <3> QED
      BY ZenonT(90), <1>8, <1>10, <3>1
  <2>3. \A e \in DOMAIN entry' : entry'[e] \in Entry /\ entry'[e].total > 0
    <3>1. \A e \in DOMAIN entry : entry[e].total > 0
      BY <1>1 DEF BookTypes
    <3> QED
      BY <1>8, <1>9, <3>1
  <2>4. /\ DOMAIN entry \subseteq DOMAIN entry' /\ DOMAIN entry' \subseteq Entries /\ credited' \in [Docs -> Nat]
    BY <1>1, <1>5, <1>8 DEF BookTypes
  <2> QED
    BY <1>1, <1>5, <1>6, <1>10, <1>12, <1>13, <2>1, <2>2, <2>3, <2>4, TypesStay
<1>16. \A e \in DOMAIN entry : e \notin {p} \cup M => Same(e)
  <2>1. \A e \in Docs : Unmatched(e) => Unmatched(e)'
    BY <1>10 DEF Unmatched
  <2> QED
    BY <1>9, <1>11, <2>1 DEF Same
<1>17. Guarded(Cashiers \ {u})
  BY <1>8, <1>9, <1>12, <1>13, <1>15, <1>16 DEF Guarded
<1>18. \A e : /\ ~WillRefresh(u, e) /\ ~Busies(u, e) /\ ~Marks(u, e)
              /\ ~Cancels(u, e)' /\ (~Grasps(u, e) => ~Grasps(u, e)')
  BY <1>3, <1>6, <1>15 DEF WillRefresh, Busies, Resets, Marks, Cancels, Grasps
<1>19. Steady(u) /\ \A e \in DOMAIN entry : Loyal(u, e)
  BY <1>18 DEF Steady, Loyal
<1>20. Reliable(u)'
  <2>1. /\ OpenHolds(u)' /\ FlagHolds(u)' /\ (\A e \in Entries : LegsLeft(u, e)')
        /\ \A x \in Docs : ReversalHolds(u, x)' /\ CancelHolds(u, x)'
    BY <1>6, <1>15 DEF OpenHolds, FlagHolds, LegsLeft, ReversalHolds, CancelHolds, Cancels
  <2>2. \A e \in Entries : ResetHolds(u, e)'
    BY <1>6, <1>10, <1>15 DEF ResetHolds, Resets
  <2> QED
    BY <2>1, <2>2 DEF Reliable
<1>21. PICK T : T = {p} \cup desk[u].todo \cup M
  OBVIOUS
<1>22. \A e \in DOMAIN entry \ T : Untouched(e)
  BY <1>5, <1>9, <1>16, <1>21 DEF Untouched
<1>23. ASSUME NEW e \in T, e \in DOMAIN entry PROVE Booked(e)'
  <2>1. Booked(e)
    BY <1>23 DEF BookInv
  <2>2. Within(e)'
    BY <1>9, <1>11, <1>14, <1>23, <2>1 DEF Booked, Within
  <2>3. DraftUnmatched(e)'
    <3>1. Settled(e) = 0 => Settled(e)' = 0
      BY <1>11, <1>23
    <3> QED
      BY <1>9, <1>14, <1>23, <2>1, <3>1, Zenon DEF Booked, DraftUnmatched
  <2>4. e \notin Excepted' => e = p \/ e \in desk[u].todo
    BY <1>13, <1>14, <1>21, <1>23
  <2>5. Flagged(e)'
    BY <1>9, <1>23, <2>4, Zenon DEF Flagged
  <2>6. Agrees(e)'
    <3>1. e = p => Busies(u, e)'
      BY <1>4, <1>6, <1>15 DEF Busies, Resets
    <3>2. e \in desk[u].todo => Busies(u, e)'
      BY <1>6, <1>15 DEF Busies, WillRefresh
    <3> QED
      BY <2>4, <3>1, <3>2, Zenon DEF Agrees
  <2>7. e \in Docs => Reversed(e)'
    <3> SUFFICES ASSUME e \in Docs, e \notin Excepted', credited[e] > 0, \A v \in Cashiers : ~Marks(v, e)' PROVE FALSE
      BY <1>5 DEF Reversed
    <3>1. \A v \in Cashiers : ~Marks(v, e)
      BY <1>15, <1>18 DEF Marks
    <3>2. ~Grasps(u, e)
      BY <1>14, <2>1, <3>1 DEF Booked, Reversed
    <3>3. e \in desk[u].todo
      BY <1>4, <2>4
    <3> QED
      BY <3>2, <3>3 DEF Grasps
  <2> QED
    BY <2>2, <2>3, <2>5, <2>6, <2>7 DEF Booked
<1>24. /\ \A e \in DOMAIN entry \ T : Untouched(e) /\ Loyal(u, e)
       /\ \A e \in T : e \in DOMAIN entry' => Booked(e)'
       /\ DOMAIN entry' \subseteq DOMAIN entry \cup T
  BY <1>8, <1>19, <1>22, <1>23
<1> QED
  BY <1>15, <1>17, <1>19, <1>20, <1>24, StepKeeps

-----------------------------------------------------------------------------
(* The theorems *)

\* An entry that says what its matches say is booked, when nobody has
\* cancelled it.
LEMMA BookedAtFirst ==
    ASSUME NEW e, NEW s \in Nat, NEW t \in Nat, Settled(e) = s, entry[e].total = t, s <= t, t > 0,
           entry[e].posted, entry[e].residual = t - s, entry[e].pay = PayState(t - s, t),
           entry[e].reconciled = (s = t), e \in Docs => credited[e] = 0
    PROVE  Booked(e)
<1>1. Within(e) /\ DraftUnmatched(e)
  BY DEF Within, DraftUnmatched
<1>2. Flagged(e)
  <2>1. s = t => s >= t
    OBVIOUS
  <2>2. entry[e].reconciled => s = t
    BY Zenon
  <2> QED
    BY <2>1, <2>2, Zenon DEF Flagged
<1>3. Agrees(e)
  <2>1. OpenAmount(e) = t - s /\ (s = t <=> t - s = 0)
    BY DEF OpenAmount
  <2>2. entry[e].reconciled = (t - s = 0)
    BY <2>1, Zenon
  <2> QED
    BY <2>1, <2>2, Zenon DEF Agrees
<1>4. e \in Docs => Reversed(e)
  BY DEF Reversed
<1> QED
  BY <1>1, <1>2, <1>3, <1>4 DEF Booked

\* At first the invoices are posted; one may be paid in part already.
LEMMA BooksBegin == SettlementInit => BookInv
<1> SUFFICES ASSUME SettlementInit PROVE BookInv
  OBVIOUS
<1>1. /\ credited = [d \in Docs |-> 0] /\ desk = [u \in Cashiers |-> AtDesk] /\ crossed = {} /\ behind = {}
  BY DEF SettlementInit
<1>2. Total \in Nat /\ Total > 0 /\ Invoices \in Nat /\ Invoices > 0 /\ MaxPayments \in Nat
  BY SettlementAssumption
<1>3. /\ Posted(Total) \in Entry /\ Posted(Total).posted = TRUE /\ Posted(Total).total = Total
      /\ Posted(Total).residual = Total /\ Posted(Total).pay = "not_paid" /\ Posted(Total).reconciled = FALSE
  BY <1>2 DEF Posted, Entry
<1>4. PayState(Total, Total) = "not_paid" /\ PayState(0, 1) = "paid"
      /\ (Total > 1 => PayState(Total - 1, Total) = "partial")
  BY <1>2 DEF PayState
<1>5. credited \in [Docs -> Nat] /\ \A d \in Docs : credited[d] = 0
  BY <1>1
<1>6. NoLegs \in [Entries -> Nat] /\ \A e \in Entries : NoLegs[e] = 0
  BY DEF NoLegs
<1>7. /\ AtDesk \in Desk /\ AtDesk.at = "idle" /\ AtDesk.on = 0 /\ AtDesk.todo = {} /\ AtDesk.legs = NoLegs
  BY <1>6 DEF AtDesk, Desk
<1>8. Placed(AtDesk)
  BY <1>6, <1>7 DEF Placed
<1>9. ASSUME Docs \subseteq DOMAIN entry, DOMAIN entry \subseteq Entries,
             \A e \in DOMAIN entry : entry[e] \in Entry /\ entry[e].total > 0,
             pairs \in [Docs \X Payments -> Nat],
             \A d \in Docs, p \in Payments : p \notin DOMAIN entry => pairs[<<d, p>>] = 0
      PROVE  BookTypes
  BY <1>1, <1>5, <1>7, <1>8, <1>9 DEF BookTypes
<1>10. ASSUME NEW u \in Cashiers PROVE Reliable(u)
  <2>1. desk[u].at = "idle"
    BY <1>1, <1>7
  <2> QED
    BY <2>1 DEF Reliable, LegsLeft, OpenHolds, FlagHolds, ReversalHolds, CancelHolds, Cancels, ResetHolds, Resets
<1>11. CASE entry = [d \in Docs |-> Posted(Total)] /\ pairs = [x \in Docs \X Payments |-> 0]
  <2>1. pairs \in [Docs \X Payments -> Nat] /\ \A d \in Docs, p \in Payments : pairs[<<d, p>>] = 0
    BY <1>11
  <2>2. DOMAIN entry = Docs /\ Docs \subseteq Entries /\ \A e \in Docs : entry[e] = Posted(Total)
    BY <1>11 DEF Entries
  <2>3. BookTypes
    BY <1>2, <1>3, <1>9, <2>1, <2>2
  <2>4. ASSUME NEW e \in Docs PROVE Booked(e)
    <3>1. Settled(e) = 0
      BY <1>5, <2>1, <2>3, SettledNat DEF Unmatched
    <3>2. PICK s, t : s = 0 /\ t = Total
      OBVIOUS
    <3>3. s \in Nat /\ t \in Nat /\ Settled(e) = s /\ s <= t /\ t > 0 /\ t - s = Total /\ (s = t) = FALSE
      BY <1>2, <3>1, <3>2
    <3>4. /\ entry[e].total = t /\ entry[e].posted /\ entry[e].residual = t - s
          /\ entry[e].pay = PayState(t - s, t)
      BY <1>3, <1>4, <2>2, <3>2, <3>3
    <3>5. entry[e].reconciled = (s = t)
      BY <1>3, <2>2, <3>3, Zenon
    <3> QED
      BY <1>5, <3>3, <3>4, <3>5, BookedAtFirst
  <2> QED
    BY <1>10, <2>2, <2>3, <2>4 DEF BookInv
<1>12. CASE /\ MaxPayments > 0 /\ Total > 1
            /\ entry = [e \in 1..(Invoices + 1) |->
                          IF e = 1 THEN [Posted(Total) EXCEPT !.pay = "partial", !.residual = Total - 1]
                          ELSE IF e \in Docs THEN Posted(Total)
                          ELSE [Posted(1) EXCEPT !.pay = "paid", !.residual = 0, !.reconciled = TRUE]]
            /\ pairs = [x \in Docs \X Payments |-> IF x = <<1, Invoices + 1>> THEN 1 ELSE 0]
  <2>1. PICK q, d : q = Invoices + 1 /\ d = 1
    OBVIOUS
  <2>2. q \in Payments /\ d \in Docs /\ q \notin Docs /\ 1..(Invoices + 1) = Docs \cup {q} /\ q # d
    BY <1>2, <1>12, <2>1 DEF Docs, Payments
  <2>3. PICK x, y : /\ x = [Posted(Total) EXCEPT !.pay = "partial", !.residual = Total - 1]
                    /\ y = [Posted(1) EXCEPT !.pay = "paid", !.residual = 0, !.reconciled = TRUE]
    OBVIOUS
  <2>4. /\ x \in Entry /\ x.posted = TRUE /\ x.total = Total /\ x.residual = Total - 1
        /\ x.pay = "partial" /\ x.reconciled = FALSE
    <3>1. Total - 1 \in Nat
      BY <1>2, <1>12
    <3>2. /\ x.posted = TRUE /\ x.total = Total /\ x.residual = Total - 1
          /\ x.pay = "partial" /\ x.reconciled = FALSE
      BY <2>3 DEF Posted
    <3>3. x \in Entry
      BY <1>2, <2>3, <3>1 DEF Posted, Entry
    <3> QED
      BY <3>2, <3>3
  <2>5. /\ y \in Entry /\ y.posted = TRUE /\ y.total = 1 /\ y.residual = 0
        /\ y.pay = "paid" /\ y.reconciled = TRUE
    BY <2>3 DEF Posted, Entry
  <2>6. /\ DOMAIN entry = Docs \cup {q} /\ entry[d] = x /\ entry[q] = y
        /\ \A e \in Docs \ {d} : entry[e] = Posted(Total)
    BY <1>12, <2>1, <2>2, <2>3
  <2>7. /\ pairs \in [Docs \X Payments -> Nat] /\ pairs[<<d, q>>] = 1
        /\ \A e \in Docs, p \in Payments : e # d \/ p # q => pairs[<<e, p>>] = 0
    BY <1>12, <2>1, <2>2
  <2>8. BookTypes
    <3>1. \A e \in DOMAIN entry : entry[e] \in Entry /\ entry[e].total > 0
      BY <1>2, <1>3, <2>4, <2>5, <2>6
    <3>2. Docs \subseteq DOMAIN entry /\ DOMAIN entry \subseteq Entries
      BY <2>2, <2>6 DEF Entries
    <3>3. \A e \in Docs, p \in Payments : p \notin DOMAIN entry => pairs[<<e, p>>] = 0
      BY <2>6, <2>7
    <3> QED
      BY <1>9, <2>7, <3>1, <3>2, <3>3
  <2>9. Settled(d) = 1 /\ Settled(q) = 1 /\ \A e \in Docs \ {d} : Settled(e) = 0
    <3>1. PICK m, c, n, k : m = [z \in Docs \X Payments |-> 0] /\ c = credited /\ n = pairs /\ k = 1
      OBVIOUS
    <3>2. m \in Matches /\ c \in Credits /\ \A e \in Docs, p \in Payments : m[<<e, p>>] = 0
      BY <1>5, <3>1 DEF Matches, Credits
    <3>3. n \in Matches /\ k \in Nat
      BY <2>7, <3>1 DEF Matches
    <3>4. n[<<d, q>>] = m[<<d, q>>] + k
      BY <2>2, <2>7, <3>1, <3>2
    <3>5. \A e \in Docs, p \in Payments : e # d \/ p # q => n[<<e, p>>] = m[<<e, p>>]
      BY <2>7, <3>1, <3>2
    <3>6. /\ Held(n, c, d) = Held(m, c, d) + k /\ Held(n, c, q) = Held(m, c, q) + k
          /\ \A e \in Entries \ {d, q} : Held(n, c, e) = Held(m, c, e)
      BY <2>2, <3>2, <3>3, <3>4, <3>5, HeldMatched
    <3>7. \A e \in Docs : e \in Entries /\ Held(m, c, e) = 0
      <4>1. ASSUME NEW e \in Docs PROVE e \in Entries /\ Held(m, c, e) = 0
        <5>1. e \in Entries /\ c[e] = 0
          BY <1>5, <3>1 DEF Entries
        <5>2. Held(m, c, e) = c[e]
          BY <3>2, <5>1, HeldNat
        <5> QED
          BY <5>1, <5>2
      <4> QED
        BY <4>1
    <3>8. Held(m, c, q) = 0
      <4>1. q \in Entries
        BY <2>2 DEF Entries
      <4> QED
        BY <2>2, <3>2, <4>1, HeldNat
    <3>9. \A e : Settled(e) = Held(n, c, e)
      BY <3>1 DEF Settled, Held
    <3> QED
      BY <2>2, <3>1, <3>6, <3>7, <3>8, <3>9
  <2>10. Booked(d)
    <3>1. PICK s, t : s = 1 /\ t = Total
      OBVIOUS
    <3>2. s \in Nat /\ t \in Nat /\ Settled(d) = s /\ s <= t /\ t > 0 /\ (s = t) = FALSE
      BY <1>12, <1>2, <2>9, <3>1
    <3>3. entry[d].total = t /\ entry[d].posted /\ entry[d].residual = t - s /\ entry[d].pay = PayState(t - s, t)
      BY <1>4, <1>12, <2>4, <2>6, <3>1
    <3>4. entry[d].reconciled = (s = t)
      BY <2>4, <2>6, <3>2, Zenon
    <3> QED
      BY <1>5, <3>2, <3>3, <3>4, BookedAtFirst
  <2>11. Booked(q)
    <3>1. PICK s : s = 1
      OBVIOUS
    <3>2. s \in Nat /\ Settled(q) = s /\ s <= s /\ s > 0 /\ s - s = 0
      BY <2>9, <3>1
    <3>3. entry[q].total = s /\ entry[q].posted /\ entry[q].residual = s - s /\ entry[q].pay = PayState(s - s, s)
      BY <1>4, <2>5, <2>6, <3>1, <3>2
    <3>4. entry[q].reconciled = (s = s)
      BY <2>5, <2>6, Zenon
    <3> QED
      BY <2>2, <3>2, <3>3, <3>4, BookedAtFirst
  <2>12. ASSUME NEW e \in Docs \ {d} PROVE Booked(e)
    <3>1. PICK s, t : s = 0 /\ t = Total
      OBVIOUS
    <3>2. s \in Nat /\ t \in Nat /\ Settled(e) = s /\ s <= t /\ t > 0 /\ t - s = Total /\ (s = t) = FALSE
      BY <1>2, <2>9, <3>1
    <3>3. entry[e].total = t /\ entry[e].posted /\ entry[e].residual = t - s /\ entry[e].pay = PayState(t - s, t)
      BY <1>3, <1>4, <2>6, <3>1, <3>2
    <3>4. entry[e].reconciled = (s = t)
      BY <1>3, <2>6, <3>2, Zenon
    <3> QED
      BY <1>5, <3>2, <3>3, <3>4, BookedAtFirst
  <2> QED
    BY <1>10, <2>6, <2>8, <2>10, <2>11, <2>12 DEF BookInv
<1> QED
  BY <1>11, <1>12 DEF SettlementInit

\* Nothing happens.
LEMMA BooksRest == BookInv /\ UNCHANGED settlementVars => BookInv'
<1> SUFFICES ASSUME BookInv, UNCHANGED settlementVars PROVE BookInv'
  OBVIOUS
<1>1. UNCHANGED <<entry, pairs, credited, desk, crossed, behind>>
  BY DEF settlementVars
<1>2. BookTypes'
  BY <1>1 DEF BookInv, BookTypes, Placed
<1>3. PICK W : W = Cashiers
  OBVIOUS
<1>4. \A e : Settled(e)' = Settled(e) /\ (Unmatched(e)' <=> Unmatched(e))
  BY <1>1, SettledStays
<1>5. \A e \in DOMAIN entry : Untouched(e)
  BY <1>1, <1>4, Zenon DEF Untouched, Same
<1>6. Guarded(W)
  BY <1>1, <1>5 DEF Guarded, Untouched
<1>7. W \in SUBSET Cashiers /\ Cashiers \ W = {}
  BY <1>3
<1>8. \A v \in W : Reliable(v)'
  BY <1>6, <1>7, OthersRely
<1>9. \A e \in DOMAIN entry : Booked(e)'
  BY <1>5, <1>6, <1>7, EntryStays
<1> QED
  BY <1>1, <1>2, <1>3, <1>8, <1>9 DEF BookInv

\* Every step keeps the books.
LEMMA BooksKept == BookInv /\ [SettlementNext]_settlementVars => BookInv'
<1> SUFFICES ASSUME BookInv, SettlementNext PROVE BookInv'
  BY BooksRest
<1>1. ASSUME NEW e \in DOMAIN entry, repost(e) PROVE BookInv'
  BY <1>1, RepostStep
<1>2. ASSUME NEW u \in Cashiers, post_settlement(u) \/ register_payment(u) \/ ReadLegs(u) \/ NewPayment(u) \/ ReadInvoice(u)
      PROVE  BookInv'
  BY <1>2, PostSettlementStep, RegisterPaymentStep, ReadLegsStep, NewPaymentStep, ReadInvoiceStep
<1>3. ASSUME NEW u \in Cashiers, NEW d \in Docs, cancel_document(u, d) \/ reset_document(u, d) PROVE BookInv'
  BY <1>3, CancelDocumentStep, ResetDocumentStep
<1>4. ASSUME NEW u \in Cashiers, NEW p \in DOMAIN entry \cap Payments, reset_payment_to_draft(u, p) PROVE BookInv'
  BY <1>4, ResetPaymentStep
<1>5. ASSUME NEW u \in Cashiers, MatchNext(u) \/ ReadOpen(u) \/ refresh_payment_state(u) \/ FlagReconciled(u)
      PROVE  BookInv'
  BY <1>5, MatchNextStep, ReadOpenStep, RefreshStep, FlagReconciledStep
<1>6. ASSUME NEW u \in Cashiers,
             ReadToCancel(u) \/ PostReversal(u) \/ FlagReversed(u) \/ MatchReversal(u) \/ MarkReversed(u)
      PROVE  BookInv'
  BY <1>6, ReadToCancelStep, PostReversalStep, FlagReversedStep, MatchReversalStep, MarkReversedStep
<1>7. ASSUME NEW u \in Cashiers, Unpost(u) \/ FindAffected(u) \/ DeletePairs(u) \/ LeaveDesk(u) PROVE BookInv'
  BY <1>7, UnpostStep, FindAffectedStep, DeletePairsStep, LeaveDeskStep
<1> QED
  BY <1>1, <1>2, <1>3, <1>4, <1>5, <1>6, <1>7 DEF SettlementNext

\* The tables keep their shape: what is on a desk, in the books and in the
\* matches is of its type, however many requests there are.
THEOREM SettlementTypes == SettlementSpec => []SettlementTypeOK
<1>1. SettlementInit => BookInv
  BY BooksBegin
<1>2. BookInv /\ [SettlementNext]_settlementVars => BookInv'
  BY BooksKept
<1>3. BookInv => SettlementTypeOK
  BY BookTypesMean DEF BookInv
<1> QED
  BY <1>1, <1>2, <1>3, PTL DEF SettlementSpec

\* No invoice is settled beyond its total and no payment spent twice, and
\* when every request is done residual, payment state and flag say what the
\* matches say (documents.rs, service.rs), except of entries that two
\* requests worked on at once or whose request ended early.
THEOREM BooksAgreeAlways == SettlementSpec => []BooksAgree
<1>1. SettlementInit => BookInv
  BY BooksBegin
<1>2. BookInv /\ [SettlementNext]_settlementVars => BookInv'
  BY BooksKept
<1>3. BookInv => BooksAgree
  <2> SUFFICES ASSUME BookInv PROVE BooksAgree
    OBVIOUS
  <2>1. BookTypes /\ \A e \in DOMAIN entry : Booked(e)
    BY DEF BookInv
  <2>2. NeverOverSettled
    BY <2>1 DEF NeverOverSettled, Booked, Within
  <2>3. ASSUME \A u \in Cashiers : Stands(u, "idle"), NEW e \in DOMAIN entry \ (crossed \cup behind)
        PROVE  IF ~entry[e].posted THEN Settled(e) = 0
               ELSE IF e \in Docs /\ credited[e] > 0
                    THEN entry[e].pay = "reversed" /\ entry[e].residual = 0 /\ Settled(e) = entry[e].total
                    ELSE /\ entry[e].residual = OpenAmount(e)
                         /\ entry[e].pay = PayState(entry[e].residual, entry[e].total)
                         /\ entry[e].reconciled = (entry[e].residual = 0)
    <3>1. Booked(e) /\ e \notin Excepted
      BY <2>1 DEF Excepted
    <3>2. \A u \in Cashiers : ~Busies(u, e) /\ ~Marks(u, e)
      BY <2>3 DEF Stands, Busies, WillRefresh, Resets, Marks
    <3>3. ~entry[e].posted => Settled(e) = 0
      BY <3>1, Zenon DEF Booked, DraftUnmatched
    <3>4. e \in Docs /\ credited[e] > 0
          => entry[e].pay = "reversed" /\ entry[e].residual = 0 /\ Settled(e) = entry[e].total
      BY <3>1, <3>2 DEF Booked, Reversed, Terminal
    <3>5. e \in Docs /\ ~(credited[e] > 0) => credited[e] = 0
      BY <2>1 DEF BookTypes
    <3>6. entry[e].posted /\ ~(e \in Docs /\ credited[e] > 0)
          => /\ entry[e].residual = OpenAmount(e)
             /\ entry[e].pay = PayState(entry[e].residual, entry[e].total)
             /\ entry[e].reconciled = (entry[e].residual = 0)
      BY <3>1, <3>2, <3>5, Zenon DEF Booked, Agrees
    <3> QED
      BY <3>3, <3>4, <3>6, Zenon
  <2> QED
    BY <2>2, <2>3, Zenon DEF BooksAgree
<1> QED
  BY <1>1, <1>2, <1>3, PTL DEF SettlementSpec

=============================================================================
