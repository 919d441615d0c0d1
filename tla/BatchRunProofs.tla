--------------------------- MODULE BatchRunProofs ---------------------------
(***************************************************************************)
(* The batch engine for any number of items, chunks and callers. An item   *)
(* is written by one statement and counted by a later one, so the counters *)
(* trail the rows. The invariant keeps account of what is on its way       *)
(* between them: the rows a caller has loaded and not yet added to the     *)
(* total, the rows a chunk has marked and not yet counted, the rows a      *)
(* retry has reset and not yet taken off. Sums over callers and chunks are *)
(* sizes of heaps of pairs, so that no recursive sum is needed.            *)
(***************************************************************************)
EXTENDS BatchRun, FiniteSetTheorems, WellFoundedInduction, TLAPS

-----------------------------------------------------------------------------
(* Finite sets *)

LEMMA Below == \A a, b \in Nat : <<a, b>> \notin OpToRel(<, Nat) => b =< a
BY DEF OpToRel

LEMMA LessThan == \E R : IsWellFoundedOn(R, Nat) /\ \A a, b \in Nat : <<a, b>> \notin R => b =< a
BY NatLessThanWellFounded, Below, Zenon

\* A set of numbers has a least one.
LEMMA Least ==
    ASSUME NEW S \in SUBSET Nat, S # {}
    PROVE  \E x \in S : \A y \in S : x =< y
<1>1. PICK R : IsWellFoundedOn(R, Nat) /\ \A a, b \in Nat : <<a, b>> \notin R => b =< a
  BY LessThan
<1>2. IsWellFoundedOn(R, Nat) /\ S \subseteq Nat
  BY <1>1
<1>3. PICK x \in S : \A y \in S : ~(<<y, x>> \in R)
  BY <1>2, WFMin
<1>4. ASSUME NEW y \in S PROVE x =< y
  <2>1. <<y, x>> \notin R /\ y \in Nat /\ x \in Nat
    BY <1>3
  <2> QED
    BY <1>1, <2>1
<1> QED
  BY <1>4

LEMMA MinExists == ASSUME NEW S \in SUBSET Nat, S # {} PROVE Min(S) \in S
BY Least DEF Min

\* A finite one has a greatest one: the member with the fewest above it.
LEMMA MaxExists ==
    ASSUME NEW S \in SUBSET Nat, S # {}, IsFiniteSet(S)
    PROVE  Max(S) \in S
<1> DEFINE above(x) == {y \in S : y > x}
           sizes == {Cardinality(above(x)) : x \in S}
<1>1. \A x \in S : IsFiniteSet(above(x)) /\ Cardinality(above(x)) \in Nat
  BY FS_Subset, FS_CardinalityType
<1>2. sizes \in SUBSET Nat /\ sizes # {}
  BY <1>1
<1>3. PICK n \in sizes : \A m \in sizes : n =< m
  <2> HIDE DEF sizes
  <2> QED
    BY <1>2, Least
<1>4. PICK x \in S : n = Cardinality(above(x))
  OBVIOUS
<1>5. ASSUME NEW y \in S, ~(x >= y) PROVE FALSE
  <2>1. x \in Nat /\ y \in Nat /\ y > x /\ ~(y > y) /\ \A z \in S : z > y => z > x
    BY <1>5
  <2>2. above(y) \in SUBSET above(x) /\ y \in above(x) /\ y \notin above(y)
    BY <2>1
  <2>3. n =< Cardinality(above(y)) /\ n = Cardinality(above(x))
    BY <1>3, <1>4
  <2>4. /\ IsFiniteSet(above(x))
        /\ Cardinality(above(x)) \in Nat /\ Cardinality(above(y)) \in Nat
    BY <1>1
  <2> HIDE DEF above
  <2>5. Cardinality(above(y)) =< Cardinality(above(x)) /\ Cardinality(above(x)) # Cardinality(above(y))
    BY <2>2, <2>4, FS_Subset
  <2> QED
    BY <2>3, <2>4, <2>5
<1> QED
  BY <1>5 DEF Max

LEMMA DisjointUnion ==
    ASSUME NEW S, NEW T, IsFiniteSet(S), IsFiniteSet(T), S \cap T = {}
    PROVE  /\ IsFiniteSet(S \cup T) /\ Cardinality(S \cup T) = Cardinality(S) + Cardinality(T)
           /\ Cardinality(S) \in Nat /\ Cardinality(T) \in Nat
<1>1. Cardinality(S \cap T) = 0
  BY FS_EmptySet
<1>2. Cardinality(S) \in Nat /\ Cardinality(T) \in Nat
  BY FS_CardinalityType
<1>3. /\ IsFiniteSet(S \cup T)
      /\ Cardinality(S \cup T) = Cardinality(S) + Cardinality(T) - Cardinality(S \cap T)
  BY FS_Union
<1> QED
  BY <1>1, <1>2, <1>3

\* Taking a part of a finite set away leaves the rest.
LEMMA Removing ==
    ASSUME NEW W, NEW S, IsFiniteSet(W), W \cap S = S
    PROVE  Cardinality(W \ S) = Cardinality(W) - Cardinality(S)
BY FS_Difference

\* f[x] tokens for each x: as many as the sum of f.
Heap(f) == UNION {{x} \X (1..f[x]) : x \in DOMAIN f}

LEMMA HeapMembers == ASSUME NEW f PROVE \A y : y \in Heap(f) <=> \E x \in DOMAIN f : y \in {x} \X (1..f[x])
BY DEF Heap

LEMMA EmptyHeap ==
    ASSUME NEW f, \A x \in DOMAIN f : f[x] = 0
    PROVE  Heap(f) = {} /\ IsFiniteSet(Heap(f)) /\ Cardinality(Heap(f)) = 0
<1>1. \A x \in DOMAIN f : 1..f[x] = {}
  OBVIOUS
<1>2. Heap(f) = {}
  BY <1>1 DEF Heap
<1>3. IsFiniteSet({}) /\ Cardinality({}) = 0
  BY FS_EmptySet
<1> QED
  BY <1>2, <1>3

LEMMA HeapAdds ==
    ASSUME NEW D, NEW f \in [D -> Nat], NEW x \in D, f[x] = 0, NEW n \in Nat,
           IsFiniteSet(Heap(f)), NEW g \in [D -> Nat], g[x] = n, \A y \in D \ {x} : g[y] = f[y]
    PROVE  /\ IsFiniteSet(Heap(g)) /\ Cardinality(Heap(g)) = Cardinality(Heap(f)) + n
           /\ Cardinality(Heap(f)) \in Nat
<1>1. Heap(g) = Heap(f) \cup ({x} \X (1..n))
  <2>1. 1..f[x] = {} /\ DOMAIN f = D /\ DOMAIN g = D /\ g[x] = n /\ \A y \in D \ {x} : g[y] = f[y]
    OBVIOUS
  <2>2. \A z : z \in Heap(g) <=> \E y \in D : z \in {y} \X (1..g[y])
    BY <2>1, HeapMembers
  <2>3. \A z : z \in Heap(f) <=> \E y \in D : z \in {y} \X (1..f[y])
    BY <2>1, HeapMembers
  <2>4. \A z : ~(z \in {x} \X (1..f[x]))
    BY <2>1
  <2>5. ASSUME NEW z PROVE z \in Heap(g) <=> z \in Heap(f) \/ z \in {x} \X (1..n)
    BY <2>1, <2>2, <2>3, <2>4
  <2> QED
    BY <2>5
<1>2. Heap(f) \cap ({x} \X (1..n)) = {}
  BY HeapMembers
<1>3. IsFiniteSet({x} \X (1..n)) /\ Cardinality({x} \X (1..n)) = n
  <2>1. IsFiniteSet({x}) /\ Cardinality({x}) = 1
    BY FS_Singleton
  <2>2. IsFiniteSet(1..n) /\ Cardinality(1..n) = n
    BY FS_Interval
  <2>3. /\ IsFiniteSet({x} \X (1..n))
        /\ Cardinality({x} \X (1..n)) = Cardinality({x}) * Cardinality(1..n)
    BY <2>1, <2>2, FS_Product
  <2> QED
    BY <2>1, <2>2, <2>3
<1>4. /\ IsFiniteSet(Heap(f) \cup ({x} \X (1..n))) /\ Cardinality(Heap(f)) \in Nat
      /\ Cardinality(Heap(f) \cup ({x} \X (1..n))) = Cardinality(Heap(f)) + Cardinality({x} \X (1..n))
  BY <1>2, <1>3, DisjointUnion
<1> QED
  BY <1>1, <1>3, <1>4

LEMMA HeapDrops ==
    ASSUME NEW D, NEW f \in [D -> Nat], NEW x \in D, IsFiniteSet(Heap(f)), NEW g \in [D -> Nat], g[x] = 0,
           \A y \in D \ {x} : g[y] = f[y]
    PROVE  /\ IsFiniteSet(Heap(g)) /\ Cardinality(Heap(f)) = Cardinality(Heap(g)) + f[x]
           /\ Cardinality(Heap(g)) \in Nat
<1>2. Heap(g) \subseteq Heap(f)
  <2>1. DOMAIN f = D /\ DOMAIN g = D /\ 1..g[x] = {} /\ \A y \in D \ {x} : g[y] = f[y]
    OBVIOUS
  <2>2. \A z : ~(z \in {x} \X (1..g[x]))
    BY <2>1
  <2> QED
    BY <2>1, <2>2, HeapMembers
<1>3. IsFiniteSet(Heap(g))
  BY <1>2, FS_Subset
<1> PICK n \in Nat : n = f[x]
  OBVIOUS
<1>4. \A y \in D \ {x} : f[y] = g[y]
  OBVIOUS
<1> QED
  BY <1>3, <1>4, HeapAdds

-----------------------------------------------------------------------------
(* Types *)

Execs == [at: {"none", "load", "process", "markOk", "markFailed", "count", "complete", "bail"},
          rows: SUBSET Items, ok: SUBSET Items, bad: SUBSET Items, nOk: Nat, nBad: Nat]
Calls == [at: {"none", "bump", "reopen", "paging", "mark", "complete"}, after: Nat, chunks: Nat, n: Nat]

LEMMA NothingTypes == NoExec \in Execs /\ NoCall \in Calls
BY DEF NoExec, NoCall, Execs, Calls

LEMMA WithFinite ==
    ASSUME NEW st
    PROVE  With(st) \in SUBSET Items /\ IsFiniteSet(With(st)) /\ Cardinality(With(st)) \in Nat
<1>1. With(st) \in SUBSET Items
  BY DEF With
<1> QED
  BY <1>1, BatchAssumption, FS_Subset, FS_CardinalityType

LEMMA SetItemsTypes ==
    ASSUME item \in [Items -> ItemStatuses], NEW S, NEW st \in ItemStatuses, SetItems(S, st)
    PROVE  item' \in [Items -> ItemStatuses]
BY DEF SetItems

LEMMA SubsetsCount ==
    ASSUME NEW S \in SUBSET Items
    PROVE  IsFiniteSet(S) /\ Cardinality(S) \in Nat
BY BatchAssumption, FS_Subset, FS_CardinalityType

\* What the queue's own steps do to the jobs of this run.
LEMMA QueueTypes ==
    ASSUME phase \in [Chunks -> Queue!Phases], tries \in [Chunks -> 0..MaxAttempts], void = {}, NEW c \in Chunks,
           Queue!Submit(c) \/ Queue!Begin({c}) \/ Queue!Succeed(c) \/ Queue!TryAgain(c) \/ Queue!Bury(c)
    PROVE  phase' \in [Chunks -> Queue!Phases] /\ tries' \in [Chunks -> 0..MaxAttempts] /\ void' = {}
<1> USE BatchAssumption DEF Queue!Phases
<1>1. CASE Queue!Submit(c)
  BY <1>1 DEF Queue!Submit
<1>2. CASE Queue!Begin({c})
  <2>1. tries[c] \in Nat /\ tries[c] < MaxAttempts
    BY <1>2 DEF Queue!Begin
  <2> QED
    BY <1>2, <2>1 DEF Queue!Begin
<1>3. CASE Queue!Succeed(c)
  BY <1>3 DEF Queue!Succeed
<1>4. CASE Queue!TryAgain(c)
  BY <1>4 DEF Queue!TryAgain
<1>5. CASE Queue!Bury(c)
  BY <1>5 DEF Queue!Bury
<1> QED
  BY <1>1, <1>2, <1>3, <1>4, <1>5

\* The page that is dispatched next, and its chunk job.
LEMMA PageTypes ==
    ASSUME TypeOK, NEW p \in Callers, DispatchPage(p)
    PROVE  \E c \in Chunks, S \in SUBSET Items, n \in Nat :
              /\ Queue!Submit(c) /\ payload' = [payload EXCEPT ![c] = S]
              /\ call' = [call EXCEPT ![p].after = n, ![p].chunks = @ + 1]
<1> PICK ids, unused :
        /\ ids = FirstBy({i \in With("pending") : i > call[p].after}, ChunkSize) /\ ids # {}
        /\ unused = {c \in Chunks : phase[c] = "absent"} /\ unused # {}
        /\ Queue!Submit(Min(unused)) /\ payload' = [payload EXCEPT ![Min(unused)] = ids]
        /\ call' = [call EXCEPT ![p].after = Max(ids), ![p].chunks = @ + 1]
  BY DEF DispatchPage
<1>1. ids \in SUBSET Items /\ ids \in SUBSET Nat /\ IsFiniteSet(ids)
  <2>1. ids \in SUBSET Items
    BY DEF FirstBy, With
  <2> QED
    BY <2>1, SubsetsCount, BatchAssumption
<1>2. unused \in SUBSET Nat /\ unused \subseteq Chunks
  BY BatchAssumption
<1>3. Min(unused) \in Chunks /\ Max(ids) \in Nat
  BY <1>1, <1>2, MinExists, MaxExists
<1> QED
  BY <1>1, <1>3

LEMMA TypeStep ==
    ASSUME TypeOK, [Next]_vars
    PROVE  TypeOK'
<1> USE DEF rowVars, queueVars, boundVars
<1>1. /\ run \in RunStatuses
      /\ counts \in [total: Nat, processed: Nat, succeeded: Nat, exceptions: Nat]
      /\ item \in [Items -> ItemStatuses]
      /\ phase \in [Chunks -> Queue!Phases] /\ tries \in [Chunks -> 0..MaxAttempts] /\ void = {}
      /\ payload \in [Chunks -> SUBSET Items]
      /\ exec \in [Chunks -> Execs] /\ call \in [Callers -> Calls] /\ clamped \in BOOLEAN
  BY DEF TypeOK, Execs, Calls
<1>2. SUFFICES
      /\ run' \in RunStatuses
      /\ counts' \in [total: Nat, processed: Nat, succeeded: Nat, exceptions: Nat]
      /\ item' \in [Items -> ItemStatuses]
      /\ phase' \in [Chunks -> Queue!Phases] /\ tries' \in [Chunks -> 0..MaxAttempts] /\ void' = {}
      /\ payload' \in [Chunks -> SUBSET Items]
      /\ exec' \in [Chunks -> Execs] /\ call' \in [Callers -> Calls] /\ clamped' \in BOOLEAN
  BY DEF TypeOK, Execs, Calls
<1> DEFINE Typed ==
      /\ run' \in RunStatuses
      /\ counts' \in [total: Nat, processed: Nat, succeeded: Nat, exceptions: Nat]
      /\ item' \in [Items -> ItemStatuses]
      /\ phase' \in [Chunks -> Queue!Phases] /\ tries' \in [Chunks -> 0..MaxAttempts] /\ void' = {}
      /\ payload' \in [Chunks -> SUBSET Items]
      /\ exec' \in [Chunks -> Execs] /\ call' \in [Callers -> Calls] /\ clamped' \in BOOLEAN
<1>3. \A S \in SUBSET Items : Cardinality(S) \in Nat
  BY SubsetsCount
<1>4. ASSUME NEW p \in Callers, NEW S \in SUBSET Items, add_items(p, S) PROVE Typed
  <2> PICK fresh \in SUBSET Items : fresh = S \cap With("absent")
    BY WithFinite
  <2>1. [NoCall EXCEPT !.at = "bump", !.n = Cardinality(fresh)] \in Calls
    BY <1>3 DEF NoCall, Calls
  <2>2. item' \in [Items -> ItemStatuses]
    BY <1>1, <1>4, SetItemsTypes DEF add_items, ItemStatuses
  <2>3. call' = call \/ call' = [call EXCEPT ![p] = [NoCall EXCEPT !.at = "bump", !.n = Cardinality(fresh)]]
    BY <1>4 DEF add_items
  <2> QED
    BY <1>1, <1>4, <2>1, <2>2, <2>3 DEF add_items
<1>5. ASSUME NEW p \in Callers, BumpTotal(p) PROVE Typed
  BY <1>1, <1>5, NothingTypes DEF BumpTotal, Calls
<1>6. ASSUME NEW p \in Callers, start(p) \/ resume(p) PROVE Typed
  <2>1. [NoCall EXCEPT !.at = "paging"] \in Calls
    BY DEF NoCall, Calls
  <2> QED
    BY <1>1, <1>6, <2>1 DEF start, resume, RunStatuses
<1>7. ASSUME NEW p \in Callers, DispatchPage(p) PROVE Typed
  <2> PICK c \in Chunks, S \in SUBSET Items, n \in Nat :
              /\ Queue!Submit(c) /\ payload' = [payload EXCEPT ![c] = S]
              /\ call' = [call EXCEPT ![p].after = n, ![p].chunks = @ + 1]
    BY <1>7, PageTypes
  <2>1. call[p] \in Calls /\ call[p].chunks + 1 \in Nat
    BY <1>1 DEF Calls
  <2>2. call' \in [Callers -> Calls]
    BY <1>1, <2>1 DEF Calls
  <2>3. phase' \in [Chunks -> Queue!Phases] /\ tries' \in [Chunks -> 0..MaxAttempts] /\ void' = {}
    BY <1>1, QueueTypes
  <2> QED
    BY <1>1, <1>7, <2>2, <2>3 DEF DispatchPage
<1>8. ASSUME NEW p \in Callers, NoMorePages(p) \/ MarkRunning(p) \/ StartCompletes(p) \/ CallCutShort(p) PROVE Typed
  BY <1>1, <1>8, NothingTypes DEF NoMorePages, MarkRunning, StartCompletes, CallCutShort, maybe_complete, RunStatuses, Calls
<1>9. ASSUME NEW p \in Callers, NEW S \in SUBSET Items, retry_exceptions(p, S) PROVE Typed
  <2> PICK reset \in SUBSET Items : reset = S \cap With("failed")
    BY WithFinite
  <2>1. [NoCall EXCEPT !.at = "reopen", !.n = Cardinality(reset)] \in Calls
    BY <1>3 DEF NoCall, Calls
  <2>2. item' \in [Items -> ItemStatuses]
    BY <1>1, <1>9, SetItemsTypes DEF retry_exceptions, ItemStatuses
  <2> QED
    BY <1>1, <1>9, <2>1, <2>2 DEF retry_exceptions
<1>10. ASSUME NEW p \in Callers, ReopenRun(p) PROVE Typed
  <2>1. [NoCall EXCEPT !.at = "paging"] \in Calls
    BY DEF NoCall, Calls
  <2>2. \A m, n \in Nat : NonNegative(m - n) \in Nat
    BY DEF NonNegative
  <2>3. call[p].n \in Nat
    BY <1>1 DEF Calls
  <2>4. counts' \in [total: Nat, processed: Nat, succeeded: Nat, exceptions: Nat]
    BY <1>1, <1>10, <2>2, <2>3 DEF ReopenRun
  <2>5. clamped' \in BOOLEAN
    BY <1>1, <1>10, Zenon DEF ReopenRun
  <2> QED
    BY <1>1, <1>10, <2>1, <2>4, <2>5 DEF ReopenRun, RunStatuses
<1>11. ASSUME pause \/ cancel PROVE Typed
  BY <1>1, <1>11 DEF pause, cancel, RunStatuses
<1>12. ASSUME NEW c \in Chunks, BeginChunk(c) PROVE Typed
  <2>1. \A a \in {"bail", "load"} : [NoExec EXCEPT !.at = a] \in Execs
    BY DEF NoExec, Execs
  <2>2. phase' \in [Chunks -> Queue!Phases] /\ tries' \in [Chunks -> 0..MaxAttempts] /\ void' = {}
    BY <1>1, <1>12, QueueTypes DEF BeginChunk
  <2> QED
    BY <1>1, <1>12, <2>1, <2>2 DEF BeginChunk
<1>13. ASSUME NEW c \in Chunks, LoadItems(c) PROVE Typed
  <2>1. \A a \in {"complete", "process"}, rows \in SUBSET Items : [NoExec EXCEPT !.at = a, !.rows = rows] \in Execs
    BY DEF NoExec, Execs
  <2>2. payload[c] \cap With("pending") \in SUBSET Items
    BY <1>1
  <2> QED
    BY <1>1, <1>13, <2>1, <2>2 DEF LoadItems
<1>14. ASSUME NEW c \in Chunks, ProcessItems(c) PROVE Typed
  <2>1. \A a \in {"markOk", "markFailed"}, ok, bad \in SUBSET Items :
            [NoExec EXCEPT !.at = a, !.ok = ok, !.bad = bad] \in Execs
    BY DEF NoExec, Execs
  <2>2. exec[c].rows \in SUBSET Items
    BY <1>1 DEF Execs
  <2> PICK ok \in SUBSET exec[c].rows :
          exec' = [exec EXCEPT ![c] =
             [NoExec EXCEPT !.at = IF ok # {} THEN "markOk" ELSE "markFailed",
                            !.ok = ok, !.bad = exec[c].rows \ ok]]
    BY <1>14 DEF ProcessItems
  <2>3. exec' \in [Chunks -> Execs]
    BY <1>1, <2>1, <2>2
  <2> QED
    BY <1>1, <1>14, <2>3 DEF ProcessItems
<1>15. ASSUME NEW c \in Chunks, MarkSucceeded(c) PROVE Typed
  <2> PICK fresh \in SUBSET Items : fresh = exec[c].ok \cap With("pending")
    BY WithFinite
  <2>1. \A a \in {"markFailed", "count", "complete"} :
            [exec[c] EXCEPT !.ok = {}, !.nOk = Cardinality(fresh), !.at = a] \in Execs
    BY ZenonT(90), <1>1, <1>3 DEF Execs
  <2>2. item' \in [Items -> ItemStatuses]
    BY <1>1, <1>15, SetItemsTypes DEF MarkSucceeded, ItemStatuses
  <2> QED
    BY <1>1, <1>15, <2>1, <2>2 DEF MarkSucceeded
<1>16. ASSUME NEW c \in Chunks, MarkFailed(c) PROVE Typed
  <2> PICK fresh \in SUBSET Items : fresh = exec[c].bad \cap With("pending")
    BY WithFinite
  <2>1. \A a \in {"count", "complete"} :
            [exec[c] EXCEPT !.bad = {}, !.nBad = Cardinality(fresh), !.at = a] \in Execs
    BY ZenonT(90), <1>1, <1>3 DEF Execs
  <2>2. item' \in [Items -> ItemStatuses]
    BY <1>1, <1>16, SetItemsTypes DEF MarkFailed, ItemStatuses
  <2> QED
    BY <1>1, <1>16, <2>1, <2>2 DEF MarkFailed
<1>17. ASSUME NEW c \in Chunks, CountOutcomes(c) PROVE Typed
  <2>1. [NoExec EXCEPT !.at = "complete"] \in Execs
    BY DEF NoExec, Execs
  <2>2. exec[c].nOk \in Nat /\ exec[c].nBad \in Nat
    BY <1>1 DEF Execs
  <2>3. counts' \in [total: Nat, processed: Nat, succeeded: Nat, exceptions: Nat]
    <3>1. /\ counts.processed + exec[c].nOk + exec[c].nBad \in Nat
          /\ counts.succeeded + exec[c].nOk \in Nat /\ counts.exceptions + exec[c].nBad \in Nat
      BY <1>1, <2>2
    <3>2. counts' = [counts EXCEPT !.processed = counts.processed + exec[c].nOk + exec[c].nBad,
                                   !.succeeded = counts.succeeded + exec[c].nOk,
                                   !.exceptions = counts.exceptions + exec[c].nBad]
      BY <1>17 DEF CountOutcomes
    <3> QED
      BY ONLY <1>1, <3>1, <3>2
  <2> QED
    BY <1>1, <1>17, <2>1, <2>3 DEF CountOutcomes
<1>18. ASSUME NEW c \in Chunks, EndChunk(c) \/ ChunkFails(c) \/ ChunkLost(c) PROVE Typed
  <2>1. /\ run' \in RunStatuses /\ UNCHANGED <<counts, item, payload, call, clamped>>
        /\ exec' \in [Chunks -> Execs]
    BY <1>1, <1>18, NothingTypes DEF EndChunk, ChunkFails, ChunkLost, maybe_complete, RunStatuses
  <2>2. phase' \in [Chunks -> Queue!Phases] /\ tries' \in [Chunks -> 0..MaxAttempts] /\ void' = {}
    <3>1. CASE UNCHANGED <<phase, tries, void>>
      BY <1>1, <3>1
    <3>2. CASE Queue!Succeed(c) \/ Queue!TryAgain(c) \/ Queue!Bury(c)
      BY <1>1, <3>2, QueueTypes
    <3> QED
      BY <1>18, <3>1, <3>2 DEF EndChunk, ChunkFails, ChunkLost
  <2> QED
    BY <1>1, <2>1, <2>2
<1>19. CASE UNCHANGED vars
  BY <1>1, <1>19 DEF vars
<1> HIDE DEF Typed
<1>20. ASSUME NEW p \in Callers, CallStep(p) PROVE Typed
  BY <1>5, <1>7, <1>8, <1>10, <1>20 DEF CallStep
<1>21. ASSUME NEW c \in Chunks, ChunkStep(c) PROVE Typed
  BY <1>12, <1>13, <1>14, <1>15, <1>16, <1>17, <1>18, <1>21 DEF ChunkStep
<1>22. ASSUME NEW p \in Callers,
              \/ \E S \in SUBSET Items : add_items(p, S) \/ retry_exceptions(p, S)
              \/ start(p) \/ resume(p) \/ CallStep(p) \/ CallCutShort(p)
       PROVE  Typed
  BY <1>4, <1>6, <1>8, <1>9, <1>20, <1>22
<1>23. ASSUME NEW c \in Chunks, ChunkStep(c) \/ ChunkFails(c) \/ ChunkLost(c) PROVE Typed
  BY <1>18, <1>21, <1>23
<1>24. ASSUME Next PROVE Typed
  BY <1>11, <1>22, <1>23, <1>24 DEF Next
<1> QED
  BY <1>19, <1>24 DEF Typed

LEMMA TypeInit == Init => TypeOK
<1> SUFFICES ASSUME Init PROVE TypeOK
  OBVIOUS
<1>1. /\ run \in RunStatuses /\ item \in [Items -> ItemStatuses] /\ payload \in [Chunks -> SUBSET Items]
      /\ counts \in [total: Nat, processed: Nat, succeeded: Nat, exceptions: Nat] /\ clamped \in BOOLEAN
  BY DEF Init, RunStatuses, ItemStatuses
<1>2. /\ phase \in [Chunks -> Queue!Phases] /\ tries \in [Chunks -> 0..MaxAttempts] /\ void = {}
  BY BatchAssumption DEF Init, Queue!DeliveryInit, Queue!Phases
<1>3. exec \in [Chunks -> Execs] /\ call \in [Callers -> Calls]
  BY NothingTypes DEF Init
<1> QED
  BY <1>1, <1>2, <1>3 DEF TypeOK, Execs, Calls

\* The types of the run, its items, its chunk jobs and whoever works on them.
THEOREM BatchTypes == Spec => []TypeOK
BY TypeInit, TypeStep, PTL DEF Spec

-----------------------------------------------------------------------------
(* Completion *)

\* Before the first start nothing is dispatched, and nobody completes the run.
Unstarted ==
    dispatches = 0 =>
        /\ run # "completed"
        /\ \A p \in Callers : call[p].at \in {"none", "bump"}
        /\ \A c \in Chunks : phase[c] = "absent" /\ exec[c].at = "none"

CompletionInv == TypeOK /\ dispatches \in Nat /\ crashes \in Nat /\ errors \in Nat /\ Unstarted /\ CompletedMeansDone

\* A step that adds no pending item, and completes the run only if none is left.
LEMMA NothingReopened ==
    ASSUME CompletionInv, With("pending")' \subseteq With("pending"), crashes' = crashes \/ crashes' = crashes + 1,
           run' = "completed" => run = "completed" \/ With("pending")' = {},
           \A p \in Callers : call[p].at = "reopen" => call'[p].at = "reopen"
    PROVE  CompletedMeansDone'
BY DEF CompletionInv, CompletedMeansDone

LEMMA PendingShrinks ==
    ASSUME NEW S, NEW st \in ItemStatuses \ {"pending"}, SetItems(S, st)
    PROVE  With("pending")' \subseteq With("pending")
BY DEF SetItems, With

LEMMA CompletionStep ==
    ASSUME CompletionInv, [Next]_vars
    PROVE  CompletionInv'
<1> USE DEF rowVars, queueVars, boundVars
<1>1. /\ TypeOK /\ dispatches \in Nat /\ crashes \in Nat /\ errors \in Nat /\ Unstarted
      /\ call \in [Callers -> Calls] /\ exec \in [Chunks -> Execs] /\ phase \in [Chunks -> Queue!Phases]
  BY DEF CompletionInv, TypeOK, Calls, Execs
<1> DEFINE Done == dispatches' \in Nat /\ crashes' \in Nat /\ errors' \in Nat /\ Unstarted' /\ CompletedMeansDone'
<1>2. ASSUME UNCHANGED item PROVE With("pending")' = With("pending")
  BY <1>2 DEF With
<1>3. ASSUME NEW p \in Callers, NEW S \in SUBSET Items, add_items(p, S) PROVE Done
  <2>1. dispatches = 0 /\ run # "completed" /\ UNCHANGED <<run, phase, exec, dispatches, crashes, errors>>
    BY <1>1, <1>3 DEF add_items, Unstarted
  <2>2. \A q \in Callers : call'[q].at \in {"none", "bump"}
    BY <1>1, <1>3, <2>1 DEF add_items, Unstarted, NoCall
  <2> QED
    BY <1>1, <2>1, <2>2 DEF Unstarted, CompletedMeansDone
<1>4. ASSUME NEW p \in Callers, NEW S \in SUBSET Items, retry_exceptions(p, S) PROVE Done
  <2>1. /\ dispatches' = dispatches + 1 /\ UNCHANGED <<crashes, errors>>
        /\ call'[p].at = "reopen"
    BY <1>1, <1>4 DEF retry_exceptions, NoCall
  <2> QED
    BY <1>1, <2>1 DEF Unstarted, CompletedMeansDone
<1>5. ASSUME NEW p \in Callers, start(p) \/ resume(p) PROVE Done
  <2>1. /\ dispatches' = dispatches + 1 /\ UNCHANGED <<item, crashes, errors>> /\ call[p].at = "none"
        /\ run' = "completed" => run = "completed"
        /\ \A q \in Callers \ {p} : call'[q] = call[q]
    BY <1>1, <1>5 DEF start, resume
  <2>2. CompletedMeansDone'
    BY <1>2, <2>1, NothingReopened
  <2> QED
    BY <1>1, <2>1, <2>2 DEF Unstarted
<1>6. ASSUME NEW p \in Callers, ReopenRun(p) PROVE Done
  <2>1. call[p].at = "reopen" /\ run' = "running" /\ UNCHANGED <<crashes, errors, dispatches>>
    BY <1>6 DEF ReopenRun
  <2> QED
    BY <1>1, <2>1 DEF Unstarted, CompletedMeansDone
<1>7. ASSUME NEW p \in Callers, BumpTotal(p) PROVE Done
  <2>1. /\ UNCHANGED <<run, item, phase, exec, dispatches, crashes, errors>>
        /\ call[p].at = "bump" /\ call'[p].at = "none" /\ \A q \in Callers \ {p} : call'[q] = call[q]
    BY <1>1, <1>7 DEF BumpTotal, NoCall
  <2>2. CompletedMeansDone'
    BY <1>2, <2>1, NothingReopened
  <2> QED
    BY <1>1, <2>1, <2>2 DEF Unstarted
<1>8. ASSUME NEW p \in Callers, DispatchPage(p) \/ NoMorePages(p) \/ MarkRunning(p) \/ StartCompletes(p) PROVE Done
  <2>1. /\ UNCHANGED <<item, dispatches, crashes, errors>>
        /\ call[p].at \in {"paging", "mark", "complete"} /\ \A q \in Callers \ {p} : call'[q] = call[q]
        /\ run' = "completed" => run = "completed" \/ With("pending") = {}
    BY <1>1, <1>8 DEF DispatchPage, NoMorePages, MarkRunning, StartCompletes, maybe_complete
  <2>2. CompletedMeansDone'
    BY <1>2, <2>1, NothingReopened
  <2> QED
    BY <1>1, <2>1, <2>2 DEF Unstarted
<1>9. ASSUME NEW p \in Callers, CallCutShort(p) PROVE Done
  <2>1. /\ UNCHANGED <<run, item, phase, exec, dispatches, errors>> /\ crashes' = crashes + 1
        /\ call'[p].at = "none" /\ \A q \in Callers \ {p} : call'[q] = call[q]
    BY <1>1, <1>9 DEF CallCutShort, NoCall
  <2> QED
    BY <1>1, <2>1 DEF Unstarted, CompletedMeansDone
<1>10. ASSUME pause \/ cancel PROVE Done
  <2>1. UNCHANGED <<item, phase, exec, call, dispatches, crashes, errors>> /\ run' # "completed"
    BY <1>10 DEF pause, cancel
  <2> QED
    BY <1>1, <2>1 DEF Unstarted, CompletedMeansDone
<1>11. ASSUME NEW c \in Chunks, ChunkStep(c) \/ ChunkFails(c) \/ ChunkLost(c) PROVE Done
  <2>1. exec[c].at # "none" \/ phase[c] = "pending"
    BY <1>1, <1>11
    DEF ChunkStep, ChunkFails, ChunkLost, BeginChunk, LoadItems, ProcessItems, MarkSucceeded, MarkFailed,
        CountOutcomes, EndChunk, Queue!Begin
  <2>2. dispatches' = dispatches /\ call' = call /\ (crashes' = crashes \/ crashes' = crashes + 1)
        /\ (errors' = errors \/ errors' = errors + 1)
    BY <1>11
    DEF ChunkStep, ChunkFails, ChunkLost, BeginChunk, LoadItems, ProcessItems, MarkSucceeded, MarkFailed,
        CountOutcomes, EndChunk
  <2>3. dispatches # 0
    BY <1>1, <2>1 DEF Unstarted
  <2>4. \/ UNCHANGED item
        \/ \E S, st : st \in ItemStatuses \ {"pending"} /\ SetItems(S, st)
    BY <1>11
    DEF ChunkStep, ChunkFails, ChunkLost, BeginChunk, LoadItems, ProcessItems, MarkSucceeded, MarkFailed,
        CountOutcomes, EndChunk, ItemStatuses
  <2>5. With("pending")' \subseteq With("pending")
    BY <1>2, <2>4, PendingShrinks
  <2>6. run' = run \/ (item' = item /\ maybe_complete)
    BY <1>11
    DEF ChunkStep, ChunkFails, ChunkLost, BeginChunk, LoadItems, ProcessItems, MarkSucceeded, MarkFailed,
        CountOutcomes, EndChunk
  <2>7. run' = "completed" => run = "completed" \/ With("pending")' = {}
    BY <1>2, <2>6 DEF maybe_complete
  <2>8. CompletedMeansDone'
    BY <2>2, <2>5, <2>7, NothingReopened
  <2> QED
    BY <1>1, <2>2, <2>3, <2>8 DEF Unstarted
<1>12. ASSUME UNCHANGED vars PROVE Done
  BY <1>1, <1>12 DEF vars, CompletionInv, Unstarted, CompletedMeansDone, With
<1> HIDE DEF Done
<1>13. ASSUME NEW p \in Callers, CallStep(p) PROVE Done
  BY <1>6, <1>7, <1>8, <1>13 DEF CallStep
<1>14. ASSUME NEW p \in Callers,
              \/ \E S \in SUBSET Items : add_items(p, S) \/ retry_exceptions(p, S)
              \/ start(p) \/ resume(p) \/ CallStep(p) \/ CallCutShort(p)
       PROVE  Done
  BY <1>3, <1>4, <1>5, <1>9, <1>13, <1>14
<1>15. ASSUME Next PROVE Done
  BY <1>10, <1>11, <1>14, <1>15 DEF Next
<1>16. TypeOK'
  BY <1>1, TypeStep
<1> QED
  BY <1>12, <1>15, <1>16 DEF Done, CompletionInv

LEMMA CompletionInit == Init => CompletionInv
BY TypeInit DEF Init, CompletionInv, Unstarted, CompletedMeansDone, NoCall, NoExec, Queue!DeliveryInit

\* maybe_complete reads the rows: a completed run has no pending item unless
\* a retry has just reset one and is about to reopen the run, or died first.
THEOREM CompletedIsDone == Spec => []CompletedMeansDone
<1>1. CompletionInv => CompletedMeansDone
  BY DEF CompletionInv
<1> QED
  BY <1>1, CompletionInit, CompletionStep, PTL DEF Spec

\* mark_succeeded: an item that succeeded stays succeeded, whatever chunk
\* still holds it and whoever retries.
THEOREM SucceededStays == Spec => SucceededIsFinal
<1>1. ASSUME TypeOK, [Next]_vars, NEW i \in Items, item[i] = "succeeded" PROVE item'[i] = "succeeded"
  <2>1. \A S, st, a : S \subseteq With(a) /\ a # "succeeded" /\ SetItems(S, st) => item'[i] = "succeeded"
    BY <1>1 DEF With, SetItems
  <2>2. \/ item' = item
        \/ \E S, st, a : S \subseteq With(a) /\ a # "succeeded" /\ SetItems(S, st)
    <3>1. ASSUME NEW p \in Callers, NEW S, add_items(p, S) PROVE SetItems(S \cap With("absent"), "pending")
      BY <3>1 DEF add_items
    <3>2. ASSUME NEW p \in Callers, NEW S, retry_exceptions(p, S) PROVE SetItems(S \cap With("failed"), "pending")
      BY <3>2 DEF retry_exceptions
    <3>3. ASSUME NEW c \in Chunks, MarkSucceeded(c) PROVE SetItems(exec[c].ok \cap With("pending"), "succeeded")
      BY <3>3 DEF MarkSucceeded
    <3>4. ASSUME NEW c \in Chunks, MarkFailed(c) PROVE SetItems(exec[c].bad \cap With("pending"), "failed")
      BY <3>4 DEF MarkFailed
    <3>5. \A S, T, st, a : SetItems(S \cap With(a), st) /\ a # "succeeded" =>
              \E R, s2, b : R \subseteq With(b) /\ b # "succeeded" /\ SetItems(R, s2)
      OBVIOUS
    <3> HIDE DEF SetItems
    <3>6. ASSUME NEW p \in Callers, start(p) \/ resume(p) \/ CallStep(p) \/ CallCutShort(p) PROVE item' = item
      BY <3>6 DEF start, resume, CallStep, BumpTotal, DispatchPage, NoMorePages, MarkRunning, StartCompletes, ReopenRun,
                  CallCutShort, rowVars
    <3>7. ASSUME NEW c \in Chunks, ChunkStep(c) \/ ChunkFails(c) \/ ChunkLost(c),
                 ~MarkSucceeded(c), ~MarkFailed(c) PROVE item' = item
      BY <3>7 DEF ChunkStep, BeginChunk, LoadItems, ProcessItems, CountOutcomes, EndChunk, ChunkFails, ChunkLost, rowVars
    <3>8. pause \/ cancel \/ UNCHANGED vars => item' = item
      BY DEF pause, cancel, vars
    <3> QED
      BY <1>1, <3>1, <3>2, <3>3, <3>4, <3>5, <3>6, <3>7, <3>8 DEF Next
  <2> QED
    BY <1>1, <2>1, <2>2
<1>2. TypeOK /\ [Next]_vars => [\A i \in Items : item[i] = "succeeded" => item'[i] = "succeeded"]_vars
  BY <1>1
<1> QED
  BY <1>2, TypeInit, TypeStep, PTL DEF Spec, SucceededIsFinal

-----------------------------------------------------------------------------
(* The counters *)

\* What is on its way to the counters: rows added, rows written, rows reset.
Loading == [p \in Callers |-> IF call[p].at = "bump" THEN call[p].n ELSE 0]
Reopening == [p \in Callers |-> IF call[p].at = "reopen" THEN call[p].n ELSE 0]
Succeeding == [c \in Chunks |-> exec[c].nOk]
Failing == [c \in Chunks |-> exec[c].nBad]

\* An outcome is only carried between the statement that wrote it and the one
\* that counts it.
Carrying(c) ==
    /\ exec[c].at \notin {"markFailed", "count"} => exec[c].nOk = 0
    /\ exec[c].at # "count" => exec[c].nBad = 0

Heaps == /\ IsFiniteSet(Heap(Loading)) /\ IsFiniteSet(Heap(Reopening))
         /\ IsFiniteSet(Heap(Succeeding)) /\ IsFiniteSet(Heap(Failing))

Loaded == Items \ With("absent")
Added == counts.total + Cardinality(Heap(Loading))

Accounts ==
    /\ Added <= Cardinality(Loaded)
    /\ Undisturbed => /\ Added = Cardinality(Loaded)
                      /\ counts.succeeded + Cardinality(Heap(Succeeding)) = Cardinality(With("succeeded"))
    /\ Undisturbed /\ ~clamped =>
           counts.exceptions + Cardinality(Heap(Failing)) = Cardinality(With("failed")) + Cardinality(Heap(Reopening))
    /\ ~clamped => counts.processed = counts.succeeded + counts.exceptions

\* A chunk is only handled by the attempt that runs its job.
Attended == \A c \in Chunks : exec[c].at # "none" => phase[c] = "running"

CounterInv ==
    /\ TypeOK /\ crashes \in Nat /\ errors \in Nat /\ Attended
    /\ \A c \in Chunks : Carrying(c)
    /\ Heaps /\ Accounts

LEMMA CountersMean == CounterInv => CountersAgree
<1> SUFFICES ASSUME CounterInv PROVE CountersAgree
  OBVIOUS
<1>1. /\ Accounts /\ \A c \in Chunks : Carrying(c)
      /\ counts \in [total: Nat, processed: Nat, succeeded: Nat, exceptions: Nat]
      /\ Cardinality(Heap(Loading)) \in Nat
  BY FS_CardinalityType DEF CounterInv, Heaps, TypeOK
<1>2. Loaded \in SUBSET Items /\ Cardinality(Loaded) \in Nat
  BY SubsetsCount DEF Loaded
<1>3. LoadNeverDoubleCounts
  BY <1>1, <1>2 DEF Accounts, Added, Loaded, LoadNeverDoubleCounts
<1>4. ASSUME Quiet PROVE /\ Cardinality(Heap(Loading)) = 0 /\ Cardinality(Heap(Reopening)) = 0
                         /\ Cardinality(Heap(Succeeding)) = 0 /\ Cardinality(Heap(Failing)) = 0
  <2>1. \A p \in Callers : Loading[p] = 0 /\ Reopening[p] = 0
    BY <1>4 DEF Quiet, Loading, Reopening
  <2>2. \A c \in Chunks : Succeeding[c] = 0 /\ Failing[c] = 0
    BY <1>1, <1>4 DEF Quiet, Carrying, Succeeding, Failing
  <2>3. DOMAIN Loading = Callers /\ DOMAIN Reopening = Callers /\ DOMAIN Succeeding = Chunks /\ DOMAIN Failing = Chunks
    BY DEF Loading, Reopening, Succeeding, Failing
  <2> QED
    BY <2>1, <2>2, <2>3, EmptyHeap
<1>5. Cardinality(With("succeeded")) \in Nat /\ Cardinality(With("failed")) \in Nat
  BY WithFinite
<1> QED
  BY <1>1, <1>2, <1>3, <1>4, <1>5 DEF Accounts, Added, Loaded, CountersAgree

LEMMA HeapTypes ==
    ASSUME call \in [Callers -> Calls], exec \in [Chunks -> Execs]
    PROVE  /\ Loading \in [Callers -> Nat] /\ Reopening \in [Callers -> Nat]
           /\ Succeeding \in [Chunks -> Nat] /\ Failing \in [Chunks -> Nat]
BY DEF Loading, Reopening, Succeeding, Failing, Calls, Execs

\* A step of one caller.
LEMMA CallMoves ==
    ASSUME call \in [Callers -> Calls], NEW p \in Callers, NEW v \in Calls, call' = [call EXCEPT ![p] = v]
    PROVE  /\ Loading' \in [Callers -> Nat] /\ Loading'[p] = (IF v.at = "bump" THEN v.n ELSE 0)
           /\ \A q \in Callers \ {p} : Loading'[q] = Loading[q]
           /\ Reopening' \in [Callers -> Nat] /\ Reopening'[p] = (IF v.at = "reopen" THEN v.n ELSE 0)
           /\ \A q \in Callers \ {p} : Reopening'[q] = Reopening[q]
<1>1. call' \in [Callers -> Calls] /\ call'[p] = v /\ \A q \in Callers \ {p} : call'[q] = call[q]
  OBVIOUS
<1> QED
  BY <1>1 DEF Loading, Reopening, Calls

\* And of one chunk.
LEMMA ExecMoves ==
    ASSUME exec \in [Chunks -> Execs], NEW c \in Chunks, NEW v \in Execs, exec' = [exec EXCEPT ![c] = v],
           \A d \in Chunks : Carrying(d),
           v.at \notin {"markFailed", "count"} => v.nOk = 0, v.at # "count" => v.nBad = 0
    PROVE  /\ (\A d \in Chunks : Carrying(d))'
           /\ Succeeding' \in [Chunks -> Nat] /\ Succeeding'[c] = v.nOk
           /\ \A d \in Chunks \ {c} : Succeeding'[d] = Succeeding[d]
           /\ Failing' \in [Chunks -> Nat] /\ Failing'[c] = v.nBad
           /\ \A d \in Chunks \ {c} : Failing'[d] = Failing[d]
<1>1. exec' \in [Chunks -> Execs] /\ exec'[c] = v /\ \A d \in Chunks \ {c} : exec'[d] = exec[d]
  OBVIOUS
<1>2. (\A d \in Chunks : Carrying(d))'
  BY <1>1 DEF Carrying
<1> QED
  BY <1>1, <1>2 DEF Succeeding, Failing, Execs

\* Functions that agree everywhere are one.
LEMMA SameFunction ==
    ASSUME NEW D, NEW f \in [D -> Nat], NEW g \in [D -> Nat], NEW x \in D, g[x] = f[x],
           \A y \in D \ {x} : g[y] = f[y]
    PROVE  g = f
OBVIOUS

\* Rows S that were in state a are now in state b.
LEMMA RowsMove ==
    ASSUME item \in [Items -> ItemStatuses], NEW a, NEW b, a # b, NEW S, S \subseteq With(a), SetItems(S, b)
    PROVE  /\ With(b)' = With(b) \cup S /\ With(a)' = With(a) \ S /\ \A z : z # a /\ z # b => With(z)' = With(z)
           /\ S \in SUBSET Items /\ Cardinality(S) \in Nat
           /\ Cardinality(With(b)') = Cardinality(With(b)) + Cardinality(S)
           /\ Cardinality(With(a)') = Cardinality(With(a)) - Cardinality(S)
<1>1. /\ With(b)' = With(b) \cup S /\ With(a)' = With(a) \ S /\ \A z : z # a /\ z # b => With(z)' = With(z)
      /\ S \in SUBSET Items /\ S \cap With(b) = {} /\ With(a) \cap S = S
  BY DEF With, SetItems
<1>2. IsFiniteSet(S) /\ Cardinality(S) \in Nat
  BY <1>1, SubsetsCount
<1>3. IsFiniteSet(With(b)) /\ IsFiniteSet(With(a))
  BY WithFinite
<1>4. Cardinality(With(b) \cup S) = Cardinality(With(b)) + Cardinality(S)
  BY <1>1, <1>2, <1>3, DisjointUnion
<1>5. Cardinality(With(a) \ S) = Cardinality(With(a)) - Cardinality(S)
  BY <1>1, <1>3, FS_Difference
<1> QED
  BY <1>1, <1>2, <1>4, <1>5

\* Every number in the accounts, and what is known of it.
Sizes ==
    /\ counts \in [total: Nat, processed: Nat, succeeded: Nat, exceptions: Nat]
    /\ Cardinality(Heap(Loading)) \in Nat /\ Cardinality(Heap(Reopening)) \in Nat
    /\ Cardinality(Heap(Succeeding)) \in Nat /\ Cardinality(Heap(Failing)) \in Nat
    /\ Cardinality(Loaded) \in Nat
    /\ Cardinality(With("succeeded")) \in Nat /\ Cardinality(With("failed")) \in Nat

LEMMA SizesKnown == CounterInv => Sizes
<1> SUFFICES ASSUME CounterInv PROVE Sizes
  OBVIOUS
<1>1. Loaded \in SUBSET Items
  BY DEF Loaded
<1>2. /\ Cardinality(Heap(Loading)) \in Nat /\ Cardinality(Heap(Reopening)) \in Nat
      /\ Cardinality(Heap(Succeeding)) \in Nat /\ Cardinality(Heap(Failing)) \in Nat
  BY FS_CardinalityType DEF CounterInv, Heaps
<1> QED
  BY <1>1, <1>2, SubsetsCount, WithFinite DEF Sizes, CounterInv, TypeOK

Balanced == (\A c \in Chunks : Carrying(c)) /\ Heaps /\ Accounts

\* A step of a caller that neither carries rows nor takes any up.
LEMMA IdleCall ==
    ASSUME CounterInv, NEW p \in Callers, NEW v \in Calls, call' = [call EXCEPT ![p] = v],
           call[p].at \notin {"bump", "reopen"}, v.at \notin {"bump", "reopen"},
           UNCHANGED <<counts, item, exec, clamped, crashes, errors>>
    PROVE  Balanced'
<1>1. call \in [Callers -> Calls] /\ exec \in [Chunks -> Execs]
  BY DEF CounterInv, TypeOK, Calls, Execs
<1>2. /\ Loading' \in [Callers -> Nat] /\ Loading'[p] = 0 /\ \A q \in Callers \ {p} : Loading'[q] = Loading[q]
      /\ Reopening' \in [Callers -> Nat] /\ Reopening'[p] = 0 /\ \A q \in Callers \ {p} : Reopening'[q] = Reopening[q]
  BY <1>1, CallMoves
<1>3. Loading \in [Callers -> Nat] /\ Reopening \in [Callers -> Nat] /\ Loading[p] = 0 /\ Reopening[p] = 0
  BY <1>1, HeapTypes DEF Loading, Reopening
<1>4. Loading' = Loading /\ Reopening' = Reopening
  BY <1>2, <1>3, SameFunction
<1>5. Succeeding' = Succeeding /\ Failing' = Failing
  BY DEF Succeeding, Failing
<1>6. (\A st : With(st)' = With(st)) /\ Loaded' = Loaded /\ (\A c \in Chunks : Carrying(c))'
  BY DEF With, Loaded, Carrying, CounterInv
<1> QED
  BY <1>4, <1>5, <1>6 DEF CounterInv, Balanced, Heaps, Accounts, Added, Undisturbed

\* A step of a chunk that writes no outcome and has none to count.
LEMMA IdleChunk ==
    ASSUME CounterInv, NEW c \in Chunks, NEW v \in Execs, exec' = [exec EXCEPT ![c] = v],
           exec[c].nOk = 0, exec[c].nBad = 0, v.nOk = 0, v.nBad = 0,
           UNCHANGED <<counts, item, call, clamped, crashes>>, errors' = errors \/ errors' = errors + 1
    PROVE  Balanced'
<1>1. exec \in [Chunks -> Execs] /\ call \in [Callers -> Calls] /\ \A d \in Chunks : Carrying(d)
  BY DEF CounterInv, TypeOK, Execs, Calls
<1>2. /\ (\A d \in Chunks : Carrying(d))'
      /\ Succeeding' \in [Chunks -> Nat] /\ Succeeding'[c] = 0 /\ \A d \in Chunks \ {c} : Succeeding'[d] = Succeeding[d]
      /\ Failing' \in [Chunks -> Nat] /\ Failing'[c] = 0 /\ \A d \in Chunks \ {c} : Failing'[d] = Failing[d]
  BY <1>1, ExecMoves
<1>3. Succeeding \in [Chunks -> Nat] /\ Failing \in [Chunks -> Nat] /\ Succeeding[c] = 0 /\ Failing[c] = 0
  BY <1>1, HeapTypes DEF Succeeding, Failing
<1>4. Succeeding' = Succeeding /\ Failing' = Failing
  BY <1>2, <1>3, SameFunction
<1>5. Loading' = Loading /\ Reopening' = Reopening
  BY DEF Loading, Reopening
<1>6. (\A st : With(st)' = With(st)) /\ Loaded' = Loaded
  BY DEF With, Loaded
<1>7. Undisturbed' => Undisturbed
  BY DEF CounterInv, Undisturbed
<1> QED
  BY <1>2, <1>4, <1>5, <1>6, <1>7 DEF CounterInv, Balanced, Heaps, Accounts, Added

\* add_items and its update of the total.
LEMMA AddStep ==
    ASSUME CounterInv, NEW p \in Callers, NEW S \in SUBSET Items, add_items(p, S)
    PROVE  Balanced'
<1> PICK fresh : fresh = S \cap With("absent")
  OBVIOUS
<1> PICK v : v = [NoCall EXCEPT !.at = "bump", !.n = Cardinality(fresh)]
  OBVIOUS
<1>1. /\ call[p].at = "none" /\ SetItems(fresh, "pending")
      /\ call' = IF fresh = {} THEN call ELSE [call EXCEPT ![p] = v]
      /\ UNCHANGED <<counts, exec, clamped, crashes, errors>>
  BY DEF add_items
<1>2. /\ Sizes /\ Heaps /\ Accounts /\ \A c \in Chunks : Carrying(c)
      /\ item \in [Items -> ItemStatuses] /\ call \in [Callers -> Calls] /\ exec \in [Chunks -> Execs]
  BY SizesKnown DEF CounterInv, TypeOK, Calls, Execs
<1>3. /\ With("absent")' = With("absent") \ fresh
      /\ With("succeeded")' = With("succeeded") /\ With("failed")' = With("failed")
      /\ fresh \in SUBSET Items /\ Cardinality(fresh) \in Nat /\ IsFiniteSet(fresh)
  <2>1. fresh \subseteq With("absent") /\ SetItems(fresh, "pending") /\ item \in [Items -> ItemStatuses]
    BY <1>1, <1>2
  <2>3. /\ With("absent")' = With("absent") \ fresh /\ \A z : z # "absent" /\ z # "pending" => With(z)' = With(z)
        /\ fresh \in SUBSET Items /\ With("absent") \cap fresh = fresh
    BY <2>1 DEF With, SetItems
  <2>4. Cardinality(fresh) \in Nat /\ IsFiniteSet(With("absent"))
    BY <2>3, SubsetsCount, WithFinite
  <2>5. Cardinality(With("absent") \ fresh) = Cardinality(With("absent")) - Cardinality(fresh)
    <3>1. PICK W : W = With("absent")
      OBVIOUS
    <3>2. IsFiniteSet(W) /\ W \cap fresh = fresh
      BY <2>3, <2>4, <3>1
    <3> QED
      BY ONLY <3>1, <3>2, Removing
  <2>2. /\ With("absent")' = With("absent") \ fresh /\ \A z : z # "absent" /\ z # "pending" => With(z)' = With(z)
        /\ fresh \in SUBSET Items /\ Cardinality(fresh) \in Nat
        /\ Cardinality(With("absent")') = Cardinality(With("absent")) - Cardinality(fresh)
    BY <2>3, <2>4, <2>5
  <2> QED
    BY <2>2, SubsetsCount
<1>4. Loaded' = Loaded \cup fresh /\ Cardinality(Loaded') = Cardinality(Loaded) + Cardinality(fresh)
  <2>1. Loaded' = Loaded \cup fresh /\ Loaded \cap fresh = {} /\ Loaded \in SUBSET Items
    BY <1>3 DEF Loaded
  <2>2. IsFiniteSet(Loaded)
    BY <2>1, SubsetsCount
  <2> QED
    BY <1>3, <2>1, <2>2, DisjointUnion
<1>5. /\ Succeeding' = Succeeding /\ Failing' = Failing /\ (\A c \in Chunks : Carrying(c))'
  BY <1>1, <1>2 DEF Succeeding, Failing, Carrying
<1>6. /\ Reopening' = Reopening /\ IsFiniteSet(Heap(Loading'))
      /\ Cardinality(Heap(Loading')) = Cardinality(Heap(Loading)) + Cardinality(fresh)
  <2>1. CASE fresh = {}
    <3>1. Cardinality(fresh) = 0
      BY <2>1, FS_EmptySet
    <3>2. Loading' = Loading /\ Reopening' = Reopening
      BY <1>1, <2>1 DEF Loading, Reopening
    <3> QED
      BY <1>2, <3>1, <3>2 DEF Heaps, Sizes
  <2>2. CASE fresh # {}
    <3>1. v \in Calls /\ v.at = "bump" /\ v.n = Cardinality(fresh) /\ call' = [call EXCEPT ![p] = v]
      BY <1>1, <1>3, <2>2 DEF NoCall, Calls
    <3>2. /\ Loading' \in [Callers -> Nat] /\ Loading'[p] = Cardinality(fresh)
          /\ \A q \in Callers \ {p} : Loading'[q] = Loading[q]
          /\ Reopening' \in [Callers -> Nat] /\ Reopening'[p] = 0 /\ \A q \in Callers \ {p} : Reopening'[q] = Reopening[q]
      BY <1>2, <3>1, CallMoves
    <3>3. Loading \in [Callers -> Nat] /\ Loading[p] = 0 /\ Reopening \in [Callers -> Nat] /\ Reopening[p] = 0
      BY <1>1, <1>2, HeapTypes DEF Loading, Reopening
    <3>4. Reopening' = Reopening
      BY <3>2, <3>3, SameFunction
    <3>5. IsFiniteSet(Heap(Loading)) /\ Cardinality(fresh) \in Nat
      BY <1>2, <1>3 DEF Heaps
    <3> QED
      BY <3>2, <3>3, <3>4, <3>5, HeapAdds
  <2> QED
    BY <2>1, <2>2
<1>7. Heaps'
  BY <1>2, <1>5, <1>6 DEF Heaps
<1>8. Accounts'
  BY <1>1, <1>2, <1>3, <1>4, <1>5, <1>6 DEF Accounts, Added, Undisturbed, Sizes
<1> QED
  BY <1>5, <1>7, <1>8 DEF Balanced

LEMMA BumpStep ==
    ASSUME CounterInv, NEW p \in Callers, BumpTotal(p)
    PROVE  Balanced'
<1>1. /\ call[p].at = "bump" /\ call' = [call EXCEPT ![p] = NoCall]
      /\ counts' = [counts EXCEPT !.total = @ + call[p].n] /\ UNCHANGED <<item, exec, clamped, crashes, errors>>
  BY DEF BumpTotal, boundVars
<1>2. /\ Sizes /\ Heaps /\ Accounts /\ \A c \in Chunks : Carrying(c)
      /\ call \in [Callers -> Calls] /\ exec \in [Chunks -> Execs]
  BY SizesKnown DEF CounterInv, TypeOK, Calls, Execs
<1>3. /\ Succeeding' = Succeeding /\ Failing' = Failing /\ (\A c \in Chunks : Carrying(c))'
      /\ (\A st : With(st)' = With(st)) /\ Loaded' = Loaded
  BY <1>1, <1>2 DEF Succeeding, Failing, Carrying, With, Loaded
<1>4. /\ Loading' \in [Callers -> Nat] /\ Loading'[p] = 0 /\ \A q \in Callers \ {p} : Loading'[q] = Loading[q]
      /\ Reopening' \in [Callers -> Nat] /\ Reopening'[p] = 0 /\ \A q \in Callers \ {p} : Reopening'[q] = Reopening[q]
  <2>1. NoCall \in Calls /\ NoCall.at = "none"
    BY NothingTypes DEF NoCall
  <2> QED
    BY <1>1, <1>2, <2>1, CallMoves
<1>5. Loading \in [Callers -> Nat] /\ Loading[p] = call[p].n /\ Reopening \in [Callers -> Nat] /\ Reopening[p] = 0
  BY <1>1, <1>2, HeapTypes DEF Loading, Reopening
<1>6. Reopening' = Reopening
  BY <1>4, <1>5, SameFunction
<1>7. /\ IsFiniteSet(Heap(Loading')) /\ Cardinality(Heap(Loading)) = Cardinality(Heap(Loading')) + call[p].n
      /\ Cardinality(Heap(Loading')) \in Nat
  BY <1>2, <1>4, <1>5, HeapDrops DEF Heaps
<1>8. call[p].n \in Nat
  BY <1>2 DEF Calls
<1>9. /\ counts'.total = counts.total + call[p].n /\ counts'.processed = counts.processed
      /\ counts'.succeeded = counts.succeeded /\ counts'.exceptions = counts.exceptions
  <2>1. counts \in [total: Nat, processed: Nat, succeeded: Nat, exceptions: Nat]
    BY <1>2 DEF Sizes
  <2> QED
    BY ONLY <1>1, <2>1
<1>10. Heaps'
  BY <1>2, <1>3, <1>6, <1>7 DEF Heaps
<1>11. Added' = Added
  BY <1>2, <1>7, <1>8, <1>9 DEF Added, Sizes
<1>12. Accounts'
  BY <1>1, <1>2, <1>3, <1>6, <1>9, <1>11 DEF Accounts, Undisturbed
<1> QED
  BY <1>3, <1>10, <1>12 DEF Balanced

\* retry_exceptions resets rows, and takes them off the counters later.
LEMMA RetryStep ==
    ASSUME CounterInv, NEW p \in Callers, NEW S \in SUBSET Items, retry_exceptions(p, S)
    PROVE  Balanced'
<1> PICK reset : reset = S \cap With("failed")
  OBVIOUS
<1> PICK v : v = [NoCall EXCEPT !.at = "reopen", !.n = Cardinality(reset)]
  OBVIOUS
<1>1. /\ call[p].at = "none" /\ SetItems(reset, "pending") /\ call' = [call EXCEPT ![p] = v]
      /\ UNCHANGED <<counts, exec, clamped, crashes, errors>>
  BY DEF retry_exceptions
<1>2. /\ Sizes /\ Heaps /\ Accounts /\ \A c \in Chunks : Carrying(c)
      /\ item \in [Items -> ItemStatuses] /\ call \in [Callers -> Calls] /\ exec \in [Chunks -> Execs]
  BY SizesKnown DEF CounterInv, TypeOK, Calls, Execs
<1>3. /\ With("absent")' = With("absent") /\ With("succeeded")' = With("succeeded")
      /\ Cardinality(With("failed")') = Cardinality(With("failed")) - Cardinality(reset)
      /\ Cardinality(reset) \in Nat
  <2>1. reset \subseteq With("failed") /\ SetItems(reset, "pending") /\ item \in [Items -> ItemStatuses]
    BY <1>1, <1>2
  <2>3. /\ With("failed")' = With("failed") \ reset /\ \A z : z # "failed" /\ z # "pending" => With(z)' = With(z)
        /\ reset \in SUBSET Items /\ With("failed") \cap reset = reset
    BY <2>1 DEF With, SetItems
  <2>4. Cardinality(reset) \in Nat /\ IsFiniteSet(With("failed"))
    BY <2>3, SubsetsCount, WithFinite
  <2>5. Cardinality(With("failed") \ reset) = Cardinality(With("failed")) - Cardinality(reset)
    <3>1. PICK W : W = With("failed")
      OBVIOUS
    <3>2. IsFiniteSet(W) /\ W \cap reset = reset
      BY <2>3, <2>4, <3>1
    <3> QED
      BY ONLY <3>1, <3>2, Removing
  <2>2. /\ With("failed")' = With("failed") \ reset /\ \A z : z # "failed" /\ z # "pending" => With(z)' = With(z)
        /\ reset \in SUBSET Items /\ Cardinality(reset) \in Nat
        /\ Cardinality(With("failed")') = Cardinality(With("failed")) - Cardinality(reset)
    BY <2>3, <2>4, <2>5
  <2> QED
    BY <2>2, SubsetsCount
<1>4. Loaded' = Loaded /\ Succeeding' = Succeeding /\ Failing' = Failing /\ (\A c \in Chunks : Carrying(c))'
  BY <1>1, <1>2, <1>3 DEF Loaded, Succeeding, Failing, Carrying
<1>5. v \in Calls /\ v.at = "reopen" /\ v.n = Cardinality(reset)
  BY <1>3 DEF NoCall, Calls
<1>6. /\ Loading' \in [Callers -> Nat] /\ Loading'[p] = 0 /\ \A q \in Callers \ {p} : Loading'[q] = Loading[q]
      /\ Reopening' \in [Callers -> Nat] /\ Reopening'[p] = Cardinality(reset)
      /\ \A q \in Callers \ {p} : Reopening'[q] = Reopening[q]
  BY <1>1, <1>2, <1>5, CallMoves
<1>7. Loading \in [Callers -> Nat] /\ Loading[p] = 0 /\ Reopening \in [Callers -> Nat] /\ Reopening[p] = 0
  BY <1>1, <1>2, HeapTypes DEF Loading, Reopening
<1>8. Loading' = Loading
  BY <1>6, <1>7, SameFunction
<1>9. /\ IsFiniteSet(Heap(Reopening'))
      /\ Cardinality(Heap(Reopening')) = Cardinality(Heap(Reopening)) + Cardinality(reset)
  BY <1>2, <1>3, <1>6, <1>7, HeapAdds DEF Heaps
<1>10. Heaps'
  BY <1>2, <1>4, <1>8, <1>9 DEF Heaps
<1>11. Accounts'
  BY <1>1, <1>2, <1>3, <1>4, <1>8, <1>9 DEF Accounts, Added, Undisturbed, Sizes
<1> QED
  BY <1>4, <1>10, <1>11 DEF Balanced

LEMMA ReopenStep ==
    ASSUME CounterInv, NEW p \in Callers, ReopenRun(p)
    PROVE  Balanced'
<1> PICK v : v = [NoCall EXCEPT !.at = "paging"]
  OBVIOUS
<1> PICK n : n = call[p].n
  OBVIOUS
<1>1. /\ call[p].at = "reopen" /\ call' = [call EXCEPT ![p] = v]
      /\ counts' = [counts EXCEPT !.processed = NonNegative(counts.processed - n),
                                  !.exceptions = NonNegative(counts.exceptions - n)]
      /\ ~clamped' => ~clamped /\ ~(counts.processed < n) /\ ~(counts.exceptions < n)
      /\ UNCHANGED <<item, exec, crashes, errors>>
  BY DEF ReopenRun, boundVars
<1>2. /\ Sizes /\ Heaps /\ Accounts /\ \A c \in Chunks : Carrying(c)
      /\ call \in [Callers -> Calls] /\ exec \in [Chunks -> Execs] /\ n \in Nat
  BY SizesKnown DEF CounterInv, TypeOK, Calls, Execs
<1>3. /\ Succeeding' = Succeeding /\ Failing' = Failing /\ (\A c \in Chunks : Carrying(c))'
      /\ (\A st : With(st)' = With(st)) /\ Loaded' = Loaded
  BY <1>1, <1>2 DEF Succeeding, Failing, Carrying, With, Loaded
<1>4. v \in Calls /\ v.at = "paging"
  BY DEF NoCall, Calls
<1>5. /\ Loading' \in [Callers -> Nat] /\ Loading'[p] = 0 /\ \A q \in Callers \ {p} : Loading'[q] = Loading[q]
      /\ Reopening' \in [Callers -> Nat] /\ Reopening'[p] = 0 /\ \A q \in Callers \ {p} : Reopening'[q] = Reopening[q]
  BY <1>1, <1>2, <1>4, CallMoves
<1>6. Loading \in [Callers -> Nat] /\ Loading[p] = 0 /\ Reopening \in [Callers -> Nat] /\ Reopening[p] = n
  BY <1>1, <1>2, HeapTypes DEF Loading, Reopening
<1>7. Loading' = Loading
  BY <1>5, <1>6, SameFunction
<1>8. /\ IsFiniteSet(Heap(Reopening')) /\ Cardinality(Heap(Reopening)) = Cardinality(Heap(Reopening')) + n
      /\ Cardinality(Heap(Reopening')) \in Nat
  BY <1>2, <1>5, <1>6, HeapDrops DEF Heaps
<1>9. /\ counts'.total = counts.total /\ counts'.succeeded = counts.succeeded
      /\ ~clamped' => /\ ~clamped
                      /\ counts'.processed = counts.processed - n /\ counts'.exceptions = counts.exceptions - n
  <2>1. counts \in [total: Nat, processed: Nat, succeeded: Nat, exceptions: Nat]
    BY <1>2 DEF Sizes
  <2>2. /\ counts'.total = counts.total /\ counts'.succeeded = counts.succeeded
        /\ counts'.processed = NonNegative(counts.processed - n)
        /\ counts'.exceptions = NonNegative(counts.exceptions - n)
    BY ONLY <1>1, <2>1
  <2>3. \A m \in Nat : ~(m < n) => NonNegative(m - n) = m - n
    BY <1>2 DEF NonNegative
  <2> QED
    BY <1>1, <2>1, <2>2, <2>3
<1>10. Heaps'
  BY <1>2, <1>3, <1>7, <1>8 DEF Heaps
<1>11. Accounts'
  BY <1>1, <1>2, <1>3, <1>7, <1>8, <1>9 DEF Accounts, Added, Undisturbed, Sizes
<1> QED
  BY <1>3, <1>10, <1>11 DEF Balanced

\* A call that is cut short, or a chunk that fails or is lost, takes what it
\* carried with it: only the total is still bounded by the rows.
LEMMA CutShortStep ==
    ASSUME CounterInv, NEW p \in Callers, CallCutShort(p)
    PROVE  Balanced'
<1>1. /\ call' = [call EXCEPT ![p] = NoCall] /\ crashes' = crashes + 1 /\ UNCHANGED <<counts, item, exec, clamped, errors>>
  BY DEF CallCutShort, rowVars
<1>2. /\ Sizes /\ Heaps /\ Accounts /\ \A c \in Chunks : Carrying(c)
      /\ call \in [Callers -> Calls] /\ exec \in [Chunks -> Execs] /\ crashes \in Nat /\ errors \in Nat
  BY SizesKnown DEF CounterInv, TypeOK, Calls, Execs
<1>3. /\ Succeeding' = Succeeding /\ Failing' = Failing /\ (\A c \in Chunks : Carrying(c))' /\ Loaded' = Loaded
  BY <1>1, <1>2 DEF Succeeding, Failing, Carrying, With, Loaded
<1>4. /\ Loading' \in [Callers -> Nat] /\ Loading'[p] = 0 /\ \A q \in Callers \ {p} : Loading'[q] = Loading[q]
      /\ Reopening' \in [Callers -> Nat] /\ Reopening'[p] = 0 /\ \A q \in Callers \ {p} : Reopening'[q] = Reopening[q]
  <2>1. NoCall \in Calls /\ NoCall.at = "none"
    BY NothingTypes DEF NoCall
  <2> QED
    BY <1>1, <1>2, <2>1, CallMoves
<1>5. Loading \in [Callers -> Nat] /\ Reopening \in [Callers -> Nat] /\ Loading[p] \in Nat
  BY <1>1, <1>2, HeapTypes
<1>6. /\ IsFiniteSet(Heap(Loading')) /\ Cardinality(Heap(Loading)) = Cardinality(Heap(Loading')) + Loading[p]
      /\ Cardinality(Heap(Loading')) \in Nat /\ IsFiniteSet(Heap(Reopening'))
  BY <1>2, <1>4, <1>5, HeapDrops DEF Heaps
<1>7. Heaps'
  BY <1>2, <1>3, <1>6 DEF Heaps
<1>8. Accounts'
  <2>1. ~Undisturbed'
    BY <1>1, <1>2 DEF Undisturbed
  <2>2. Added' <= Cardinality(Loaded)'
    BY <1>1, <1>2, <1>3, <1>5, <1>6 DEF Accounts, Added, Sizes
  <2> QED
    BY <1>1, <1>2, <2>1, <2>2 DEF Accounts
<1> QED
  BY <1>3, <1>7, <1>8 DEF Balanced

LEMMA LoseChunkStep ==
    ASSUME CounterInv, NEW c \in Chunks, ChunkFails(c) \/ ChunkLost(c)
    PROVE  Balanced'
<1>1. /\ exec' = [exec EXCEPT ![c] = NoExec] /\ UNCHANGED <<counts, item, call, clamped>>
      /\ (crashes' = crashes + 1 /\ errors' = errors) \/ (errors' = errors + 1 /\ crashes' = crashes)
  BY DEF ChunkFails, ChunkLost, rowVars
<1>2. /\ Sizes /\ Heaps /\ Accounts /\ \A d \in Chunks : Carrying(d)
      /\ call \in [Callers -> Calls] /\ exec \in [Chunks -> Execs] /\ crashes \in Nat /\ errors \in Nat
  BY SizesKnown DEF CounterInv, TypeOK, Calls, Execs
<1>3. Loading' = Loading /\ Reopening' = Reopening /\ Loaded' = Loaded
  BY <1>1 DEF Loading, Reopening, Loaded, With
<1>4. /\ (\A d \in Chunks : Carrying(d))'
      /\ Succeeding' \in [Chunks -> Nat] /\ Succeeding'[c] = 0 /\ \A d \in Chunks \ {c} : Succeeding'[d] = Succeeding[d]
      /\ Failing' \in [Chunks -> Nat] /\ Failing'[c] = 0 /\ \A d \in Chunks \ {c} : Failing'[d] = Failing[d]
  <2>1. NoExec \in Execs /\ NoExec.nOk = 0 /\ NoExec.nBad = 0
    BY NothingTypes DEF NoExec
  <2> QED
    BY <1>1, <1>2, <2>1, ExecMoves
<1>5. Succeeding \in [Chunks -> Nat] /\ Failing \in [Chunks -> Nat]
  BY <1>2, HeapTypes
<1>6. IsFiniteSet(Heap(Succeeding')) /\ IsFiniteSet(Heap(Failing'))
  BY <1>2, <1>4, <1>5, HeapDrops DEF Heaps
<1>7. Heaps'
  BY <1>2, <1>3, <1>6 DEF Heaps
<1>8. ~Undisturbed'
  <2>1. crashes' + errors' # 0
    BY <1>1, <1>2
  <2> QED
    BY <2>1 DEF Undisturbed
<1>9. Accounts'
  BY <1>1, <1>2, <1>3, <1>8 DEF Accounts, Added
<1> QED
  BY <1>4, <1>7, <1>9 DEF Balanced

\* The rows that succeeded, or failed, are written: they are now carried.
LEMMA MarkStep ==
    ASSUME CounterInv, NEW c \in Chunks, MarkSucceeded(c) \/ MarkFailed(c)
    PROVE  Balanced'
<1>1. /\ UNCHANGED <<counts, call, clamped, crashes, errors>>
      /\ Sizes /\ Heaps /\ Accounts /\ \A d \in Chunks : Carrying(d)
      /\ item \in [Items -> ItemStatuses] /\ call \in [Callers -> Calls] /\ exec \in [Chunks -> Execs]
  BY SizesKnown DEF MarkSucceeded, MarkFailed, boundVars, CounterInv, TypeOK, Calls, Execs
<1>2. Loading' = Loading /\ Reopening' = Reopening
  BY <1>1 DEF Loading, Reopening
<1>3. Succeeding \in [Chunks -> Nat] /\ Failing \in [Chunks -> Nat]
  BY <1>1, HeapTypes
<1>4. CASE MarkSucceeded(c)
  <2> PICK fresh : fresh = exec[c].ok \cap With("pending")
    OBVIOUS
  <2> PICK v : v = [exec[c] EXCEPT !.ok = {}, !.nOk = Cardinality(fresh),
                                   !.at = IF exec[c].bad # {} THEN "markFailed"
                                          ELSE IF fresh # {} THEN "count" ELSE "complete"]
    OBVIOUS
  <2>1. exec[c].at = "markOk" /\ SetItems(fresh, "succeeded") /\ exec' = [exec EXCEPT ![c] = v]
    BY <1>4 DEF MarkSucceeded
  <2>2. fresh \subseteq With("pending") /\ item \in [Items -> ItemStatuses] /\ "pending" # "succeeded"
    BY <1>1
  <2>3. /\ \A z : z # "pending" /\ z # "succeeded" => With(z)' = With(z)
        /\ Cardinality(fresh) \in Nat
        /\ Cardinality(With("succeeded")') = Cardinality(With("succeeded")) + Cardinality(fresh)
    BY ONLY ZenonT(90), <2>1, <2>2, RowsMove, BatchAssumption
  <2>4. Cardinality(fresh) = 0 \/ fresh # {}
    BY FS_EmptySet
  <2>5. exec[c] \in Execs /\ exec[c].nOk = 0 /\ exec[c].nBad = 0
    BY <1>1, <2>1 DEF Carrying
  <2>6. /\ v \in Execs /\ v.nOk = Cardinality(fresh) /\ v.nBad = 0
        /\ v.at = (IF exec[c].bad # {} THEN "markFailed" ELSE IF fresh # {} THEN "count" ELSE "complete")
    BY <2>3, <2>5 DEF Execs
  <2>7. v.at \notin {"markFailed", "count"} => v.nOk = 0
    BY <2>4, <2>6
  <2>8. /\ (\A d \in Chunks : Carrying(d))'
        /\ Succeeding' \in [Chunks -> Nat] /\ Succeeding'[c] = Cardinality(fresh)
        /\ \A d \in Chunks \ {c} : Succeeding'[d] = Succeeding[d]
        /\ Failing' \in [Chunks -> Nat] /\ Failing'[c] = 0 /\ \A d \in Chunks \ {c} : Failing'[d] = Failing[d]
    BY <1>1, <2>1, <2>6, <2>7, ExecMoves
  <2>9. Succeeding[c] = 0 /\ Failing[c] = 0
    BY <2>5 DEF Succeeding, Failing
  <2>10. Failing' = Failing
    BY <1>3, <2>8, <2>9, SameFunction
  <2>11. /\ IsFiniteSet(Heap(Succeeding'))
         /\ Cardinality(Heap(Succeeding')) = Cardinality(Heap(Succeeding)) + Cardinality(fresh)
    <3>1. IsFiniteSet(Heap(Succeeding))
      BY <1>1 DEF Heaps
    <3> QED
      BY ONLY <1>3, <2>3, <2>8, <2>9, <3>1, HeapAdds
  <2>12. Heaps'
    BY <1>1, <1>2, <2>10, <2>11 DEF Heaps
  <2>13. Loaded' = Loaded /\ With("failed")' = With("failed")
    BY <2>3 DEF Loaded
  <2>14. Accounts'
    BY <1>1, <1>2, <2>3, <2>10, <2>11, <2>13 DEF Accounts, Added, Undisturbed, Sizes
  <2> QED
    BY <2>8, <2>12, <2>14 DEF Balanced
<1>5. CASE MarkFailed(c)
  <2> PICK fresh : fresh = exec[c].bad \cap With("pending")
    OBVIOUS
  <2> PICK v : v = [exec[c] EXCEPT !.bad = {}, !.nBad = Cardinality(fresh),
                                   !.at = IF fresh # {} \/ exec[c].nOk > 0 THEN "count" ELSE "complete"]
    OBVIOUS
  <2>1. exec[c].at = "markFailed" /\ SetItems(fresh, "failed") /\ exec' = [exec EXCEPT ![c] = v]
    BY <1>5 DEF MarkFailed
  <2>2. fresh \subseteq With("pending") /\ item \in [Items -> ItemStatuses] /\ "pending" # "failed"
    BY <1>1
  <2>3. /\ \A z : z # "pending" /\ z # "failed" => With(z)' = With(z)
        /\ Cardinality(fresh) \in Nat
        /\ Cardinality(With("failed")') = Cardinality(With("failed")) + Cardinality(fresh)
    BY ONLY ZenonT(90), <2>1, <2>2, RowsMove, BatchAssumption
  <2>4. Cardinality(fresh) = 0 \/ fresh # {}
    BY FS_EmptySet
  <2>5. exec[c] \in Execs /\ exec[c].nBad = 0 /\ exec[c].nOk \in Nat
    BY <1>1, <2>1 DEF Carrying, Execs
  <2>6. /\ v \in Execs /\ v.nBad = Cardinality(fresh) /\ v.nOk = exec[c].nOk
        /\ v.at = (IF fresh # {} \/ exec[c].nOk > 0 THEN "count" ELSE "complete")
    BY <2>3, <2>5 DEF Execs
  <2>7. v.at # "count" => v.nOk = 0 /\ v.nBad = 0
    BY <2>4, <2>5, <2>6
  <2>8. /\ (\A d \in Chunks : Carrying(d))'
        /\ Succeeding' \in [Chunks -> Nat] /\ Succeeding'[c] = exec[c].nOk
        /\ \A d \in Chunks \ {c} : Succeeding'[d] = Succeeding[d]
        /\ Failing' \in [Chunks -> Nat] /\ Failing'[c] = Cardinality(fresh)
        /\ \A d \in Chunks \ {c} : Failing'[d] = Failing[d]
    BY ZenonT(90), <1>1, <2>1, <2>6, <2>7, ExecMoves
  <2>9. Succeeding[c] = exec[c].nOk /\ Failing[c] = 0
    BY <2>5 DEF Succeeding, Failing
  <2>10. Succeeding' = Succeeding
    BY <1>3, <2>8, <2>9, SameFunction
  <2>11. /\ IsFiniteSet(Heap(Failing'))
         /\ Cardinality(Heap(Failing')) = Cardinality(Heap(Failing)) + Cardinality(fresh)
    BY <1>1, <1>3, <2>3, <2>8, <2>9, HeapAdds DEF Heaps
  <2>12. Heaps'
    BY <1>1, <1>2, <2>10, <2>11 DEF Heaps
  <2>13. Loaded' = Loaded /\ With("succeeded")' = With("succeeded")
    BY <2>3 DEF Loaded
  <2>14. Accounts'
    BY <1>1, <1>2, <2>3, <2>10, <2>11, <2>13 DEF Accounts, Added, Undisturbed, Sizes
  <2> QED
    BY <2>8, <2>12, <2>14 DEF Balanced
<1> QED
  BY <1>4, <1>5

\* The rows carried are counted.
LEMMA CountStep ==
    ASSUME CounterInv, NEW c \in Chunks, CountOutcomes(c)
    PROVE  Balanced'
<1> PICK v : v = [NoExec EXCEPT !.at = "complete"]
  OBVIOUS
<1>1. /\ exec' = [exec EXCEPT ![c] = v] /\ UNCHANGED <<item, call, clamped, crashes, errors>>
      /\ counts' = [counts EXCEPT !.processed = counts.processed + exec[c].nOk + exec[c].nBad,
                                  !.succeeded = counts.succeeded + exec[c].nOk,
                                  !.exceptions = counts.exceptions + exec[c].nBad]
  BY DEF CountOutcomes, boundVars
<1>2. /\ Sizes /\ Heaps /\ Accounts /\ \A d \in Chunks : Carrying(d)
      /\ call \in [Callers -> Calls] /\ exec \in [Chunks -> Execs]
      /\ exec[c].nOk \in Nat /\ exec[c].nBad \in Nat
  BY SizesKnown DEF CounterInv, TypeOK, Calls, Execs
<1>3. Loading' = Loading /\ Reopening' = Reopening /\ Loaded' = Loaded /\ \A st : With(st)' = With(st)
  BY <1>1 DEF Loading, Reopening, Loaded, With
<1>4. v \in Execs /\ v.nOk = 0 /\ v.nBad = 0
  BY DEF NoExec, Execs
<1>5. /\ (\A d \in Chunks : Carrying(d))'
      /\ Succeeding' \in [Chunks -> Nat] /\ Succeeding'[c] = 0 /\ \A d \in Chunks \ {c} : Succeeding'[d] = Succeeding[d]
      /\ Failing' \in [Chunks -> Nat] /\ Failing'[c] = 0 /\ \A d \in Chunks \ {c} : Failing'[d] = Failing[d]
  BY <1>1, <1>2, <1>4, ExecMoves
<1>6. Succeeding \in [Chunks -> Nat] /\ Failing \in [Chunks -> Nat] /\ Succeeding[c] = exec[c].nOk /\ Failing[c] = exec[c].nBad
  BY <1>2, HeapTypes DEF Succeeding, Failing
<1>7. /\ IsFiniteSet(Heap(Succeeding')) /\ Cardinality(Heap(Succeeding)) = Cardinality(Heap(Succeeding')) + exec[c].nOk
      /\ Cardinality(Heap(Succeeding')) \in Nat
  BY <1>2, <1>5, <1>6, HeapDrops DEF Heaps
<1>8. /\ IsFiniteSet(Heap(Failing')) /\ Cardinality(Heap(Failing)) = Cardinality(Heap(Failing')) + exec[c].nBad
      /\ Cardinality(Heap(Failing')) \in Nat
  BY <1>2, <1>5, <1>6, HeapDrops DEF Heaps
<1>9. Heaps'
  BY <1>2, <1>3, <1>7, <1>8 DEF Heaps
<1>10. /\ counts'.total = counts.total /\ counts'.processed = counts.processed + exec[c].nOk + exec[c].nBad
       /\ counts'.succeeded = counts.succeeded + exec[c].nOk /\ counts'.exceptions = counts.exceptions + exec[c].nBad
  <2>1. counts \in [total: Nat, processed: Nat, succeeded: Nat, exceptions: Nat]
    BY <1>2 DEF Sizes
  <2> QED
    BY ONLY <1>1, <2>1
<1>11. Accounts'
  BY <1>1, <1>2, <1>3, <1>7, <1>8, <1>10 DEF Accounts, Added, Undisturbed, Sizes
<1> QED
  BY <1>5, <1>9, <1>11 DEF Balanced

LEMMA CounterInit == Init => CounterInv
<1> SUFFICES ASSUME Init PROVE CounterInv
  OBVIOUS
<1>1. \A c \in Chunks : Carrying(c)
  BY DEF Init, Carrying, NoExec
<1>2. /\ \A p \in Callers : Loading[p] = 0 /\ Reopening[p] = 0
      /\ \A c \in Chunks : Succeeding[c] = 0 /\ Failing[c] = 0
      /\ DOMAIN Loading = Callers /\ DOMAIN Reopening = Callers /\ DOMAIN Succeeding = Chunks /\ DOMAIN Failing = Chunks
  BY DEF Init, Loading, Reopening, Succeeding, Failing, NoCall, NoExec
<1>3. Heaps /\ Cardinality(Heap(Loading)) = 0 /\ Cardinality(Heap(Reopening)) = 0
            /\ Cardinality(Heap(Succeeding)) = 0 /\ Cardinality(Heap(Failing)) = 0
  BY <1>2, EmptyHeap DEF Heaps
<1>4. Loaded = {} /\ With("succeeded") = {} /\ With("failed") = {}
  BY DEF Init, Loaded, With
<1>5. Cardinality({}) = 0
  BY FS_EmptySet
<1>6. Accounts
  BY <1>3, <1>4, <1>5 DEF Init, Accounts, Added
<1> QED
  BY <1>1, <1>3, <1>6, TypeInit DEF Init, CounterInv, Attended, NoExec

\* The faults of a run only add up.
LEMMA FaultsCount ==
    ASSUME crashes \in Nat, errors \in Nat, [Next]_vars
    PROVE  crashes' \in Nat /\ errors' \in Nat
<1> USE DEF rowVars, queueVars, boundVars
<1>1. ASSUME NEW p \in Callers, NEW S, add_items(p, S) \/ retry_exceptions(p, S) PROVE UNCHANGED <<crashes, errors>>
  BY <1>1 DEF add_items, retry_exceptions
<1>2. ASSUME NEW p \in Callers, start(p) \/ resume(p) \/ CallStep(p) PROVE UNCHANGED <<crashes, errors>>
  BY <1>2 DEF start, resume, CallStep, BumpTotal, DispatchPage, NoMorePages, MarkRunning, StartCompletes, ReopenRun
<1>3. ASSUME NEW p \in Callers, CallCutShort(p) PROVE crashes' = crashes + 1 /\ errors' = errors
  BY <1>3 DEF CallCutShort
<1>4. ASSUME NEW c \in Chunks, ChunkStep(c) PROVE crashes' = crashes /\ errors' \in {errors, errors + 1}
  BY <1>4 DEF ChunkStep, BeginChunk, LoadItems, ProcessItems, MarkSucceeded, MarkFailed, CountOutcomes, EndChunk
<1>5. ASSUME NEW c \in Chunks, ChunkFails(c) \/ ChunkLost(c)
      PROVE  crashes' \in {crashes, crashes + 1} /\ errors' \in {errors, errors + 1}
  BY <1>5 DEF ChunkFails, ChunkLost
<1>6. pause \/ cancel \/ UNCHANGED vars => UNCHANGED <<crashes, errors>>
  BY DEF pause, cancel, vars
<1> HIDE DEF rowVars, queueVars, boundVars
<1> QED
  BY <1>1, <1>2, <1>3, <1>4, <1>5, <1>6 DEF Next

LEMMA AttendedStep ==
    ASSUME TypeOK, Attended, [Next]_vars
    PROVE  Attended'
<1> USE DEF rowVars, queueVars, boundVars
<1>1. /\ phase \in [Chunks -> Queue!Phases] /\ exec \in [Chunks -> Execs]
  BY DEF TypeOK, Execs
<1>2. ASSUME NEW p \in Callers, NEW S, add_items(p, S) \/ retry_exceptions(p, S) PROVE UNCHANGED <<phase, exec>>
  BY <1>2 DEF add_items, retry_exceptions
<1>3. ASSUME NEW p \in Callers, start(p) \/ resume(p) \/ CallStep(p) \/ CallCutShort(p), ~DispatchPage(p)
      PROVE  UNCHANGED <<phase, exec>>
  BY <1>3 DEF start, resume, CallStep, BumpTotal, NoMorePages, MarkRunning, StartCompletes, ReopenRun, CallCutShort
<1>4. ASSUME NEW p \in Callers, DispatchPage(p) PROVE Attended'
  <2>1. exec' = exec /\ \E c : Queue!Submit(c)
    BY <1>4 DEF DispatchPage
  <2> QED
    BY <1>1, <2>1 DEF Attended, Queue!Submit
<1>5. ASSUME NEW c \in Chunks, BeginChunk(c) PROVE Attended'
  <2>1. /\ Queue!Begin({c}) /\ \A d \in Chunks \ {c} : exec'[d] = exec[d]
    BY <1>1, <1>5 DEF BeginChunk
  <2> QED
    BY <1>1, <2>1 DEF Attended, Queue!Begin
<1>6. ASSUME NEW c \in Chunks, LoadItems(c) \/ ProcessItems(c) \/ MarkSucceeded(c) \/ MarkFailed(c) \/ CountOutcomes(c)
      PROVE  Attended'
  <2>1. phase' = phase /\ exec[c].at # "none" /\ \A d \in Chunks \ {c} : exec'[d] = exec[d]
    BY <1>1, <1>6 DEF LoadItems, ProcessItems, MarkSucceeded, MarkFailed, CountOutcomes
  <2> QED
    BY <1>1, <2>1 DEF Attended
<1>7. ASSUME NEW c \in Chunks, EndChunk(c) \/ ChunkFails(c) \/ ChunkLost(c) PROVE Attended'
  <2>1. exec'[c] = NoExec /\ \A d \in Chunks \ {c} : exec'[d] = exec[d]
    BY <1>1, <1>7 DEF EndChunk, ChunkFails, ChunkLost
  <2>2. phase' = phase \/ Queue!Succeed(c) \/ Queue!TryAgain(c) \/ Queue!Bury(c)
    BY <1>7 DEF EndChunk, ChunkFails, ChunkLost
  <2>3. \A d \in Chunks \ {c} : phase'[d] = phase[d]
    BY <1>1, <2>2 DEF Queue!Succeed, Queue!TryAgain, Queue!Bury
  <2> QED
    BY <2>1, <2>3 DEF Attended, NoExec
<1>8. pause \/ cancel \/ UNCHANGED vars => UNCHANGED <<phase, exec>>
  BY DEF pause, cancel, vars
<1>9. ASSUME UNCHANGED <<phase, exec>> PROVE Attended'
  BY <1>9 DEF Attended
<1> HIDE DEF rowVars, queueVars, boundVars
<1>10. ASSUME NEW p \in Callers,
              \/ \E S \in SUBSET Items : add_items(p, S) \/ retry_exceptions(p, S)
              \/ start(p) \/ resume(p) \/ CallStep(p) \/ CallCutShort(p)
       PROVE  Attended'
  BY <1>2, <1>3, <1>4, <1>9, <1>10
<1>11. ASSUME NEW c \in Chunks, ChunkStep(c) \/ ChunkFails(c) \/ ChunkLost(c) PROVE Attended'
  BY <1>5, <1>6, <1>7, <1>11 DEF ChunkStep
<1>12. ASSUME Next PROVE Attended'
  BY <1>8, <1>9, <1>10, <1>11, <1>12 DEF Next
<1> QED
  BY <1>8, <1>9, <1>12

LEMMA CounterStep ==
    ASSUME CounterInv, [Next]_vars
    PROVE  CounterInv'
<1> USE DEF rowVars, queueVars, boundVars
<1>1. /\ TypeOK /\ TypeOK' /\ crashes \in Nat /\ errors \in Nat /\ Attended /\ \A c \in Chunks : Carrying(c)
      /\ call \in [Callers -> Calls] /\ exec \in [Chunks -> Execs]
      /\ call' \in [Callers -> Calls] /\ exec' \in [Chunks -> Execs]
  BY TypeStep DEF CounterInv, TypeOK, Calls, Execs
<1>2. ASSUME NEW p \in Callers, start(p) \/ resume(p) \/ DispatchPage(p) \/ NoMorePages(p) \/ MarkRunning(p) \/ StartCompletes(p)
      PROVE  Balanced'
  <2>1. UNCHANGED <<counts, item, exec, clamped, crashes, errors>> /\ call[p].at \notin {"bump", "reopen"}
    BY <1>2 DEF start, resume, DispatchPage, NoMorePages, MarkRunning, StartCompletes
  <2>2. call[p] \in Calls
    BY <1>1
  <2>3. \E v : v.at \notin {"bump", "reopen"} /\ call' = [call EXCEPT ![p] = v]
    <3>1. CASE start(p) \/ resume(p)
      BY <3>1 DEF start, resume, NoCall
    <3>2. CASE DispatchPage(p)
      <4>1. PICK a, b : call' = [call EXCEPT ![p].after = a, ![p].chunks = b]
        BY <3>2 DEF DispatchPage
      <4> PICK v : v = [[call[p] EXCEPT !.after = a] EXCEPT !.chunks = b]
        OBVIOUS
      <4>2. v.at = call[p].at
        BY <2>2 DEF Calls
      <4>3. call' = [call EXCEPT ![p] = v]
        BY <1>1, <4>1
      <4> QED
        BY <2>1, <4>2, <4>3
    <3>3. CASE NoMorePages(p)
      BY <2>2, <3>3 DEF NoMorePages, Calls
    <3>4. CASE MarkRunning(p)
      BY <2>2, <3>4 DEF MarkRunning, Calls, NoCall
    <3>5. CASE StartCompletes(p)
      BY <3>5 DEF StartCompletes, NoCall
    <3> QED
      BY <1>2, <3>1, <3>2, <3>3, <3>4, <3>5
  <2>4. PICK v : v.at \notin {"bump", "reopen"} /\ call' = [call EXCEPT ![p] = v]
    BY <2>3
  <2>5. v \in Calls
    BY <1>1, <2>4
  <2> QED
    BY <2>1, <2>4, <2>5, IdleCall
<1>3. ASSUME NEW c \in Chunks, BeginChunk(c) \/ LoadItems(c) \/ ProcessItems(c) \/ EndChunk(c)
      PROVE  Balanced'
  <2>1. UNCHANGED <<counts, item, call, clamped, crashes>> /\ (errors' = errors \/ errors' = errors + 1)
    BY <1>3 DEF BeginChunk, LoadItems, ProcessItems, EndChunk
  <2>2. \E v : v.nOk = 0 /\ v.nBad = 0 /\ exec' = [exec EXCEPT ![c] = v]
    BY <1>3 DEF BeginChunk, LoadItems, ProcessItems, EndChunk, NoExec
  <2>3. PICK v : v.nOk = 0 /\ v.nBad = 0 /\ exec' = [exec EXCEPT ![c] = v]
    BY <2>2
  <2>4. v \in Execs
    BY <1>1, <2>3
  <2>5. exec[c].nOk = 0 /\ exec[c].nBad = 0
    <3>1. BeginChunk(c) => exec[c].at = "none"
      BY <1>1 DEF Attended, BeginChunk, Queue!Begin
    <3>2. exec[c].at \notin {"markOk", "markFailed", "count"}
      BY <1>3, <3>1 DEF LoadItems, ProcessItems, EndChunk
    <3> QED
      BY <1>1, <3>2 DEF Carrying
  <2> QED
    BY <2>1, <2>3, <2>4, <2>5, IdleChunk
<1>4. ASSUME UNCHANGED <<counts, item, call, exec, clamped, crashes, errors>> PROVE Balanced'
  BY <1>4 DEF CounterInv, Balanced, Carrying, Heaps, Loading, Reopening, Succeeding, Failing, Accounts, Added,
              Loaded, With, Undisturbed
<1>5. ASSUME pause \/ cancel \/ UNCHANGED vars PROVE Balanced'
  <2>1. UNCHANGED <<counts, item, call, exec, clamped, crashes, errors>>
    BY <1>5 DEF pause, cancel, vars
  <2> QED
    BY <2>1, <1>4
<1>6. ASSUME NEW p \in Callers, CallStep(p) PROVE Balanced'
  BY <1>2, <1>6, BumpStep, ReopenStep DEF CallStep
<1>7. ASSUME NEW p \in Callers,
              \/ \E S \in SUBSET Items : add_items(p, S) \/ retry_exceptions(p, S)
              \/ start(p) \/ resume(p) \/ CallStep(p) \/ CallCutShort(p)
      PROVE  Balanced'
  BY <1>2, <1>6, <1>7, AddStep, RetryStep, CutShortStep
<1>8. ASSUME NEW c \in Chunks, ChunkStep(c) \/ ChunkFails(c) \/ ChunkLost(c) PROVE Balanced'
  BY <1>3, <1>8, LoseChunkStep, MarkStep, CountStep DEF ChunkStep
<1>9. ASSUME Next PROVE Balanced'
  BY <1>5, <1>7, <1>8, <1>9 DEF Next
<1>10. Balanced'
  BY <1>5, <1>9
<1>11. crashes' \in Nat /\ errors' \in Nat
  BY <1>1, FaultsCount
<1>12. Attended'
  BY <1>1, AttendedStep
<1> QED
  BY <1>1, <1>10, <1>11, <1>12 DEF CounterInv, Balanced

\* What batch.rs counts agrees with what it wrote: nothing is counted twice,
\* and when nothing is under way the progress counters are the row counts.
THEOREM CountersHold == Spec => []CountersAgree
BY CounterInit, CounterStep, CountersMean, PTL DEF Spec

-----------------------------------------------------------------------------
(* The chunk jobs *)

LEMMA NoJobYet == Init => Queue!DeliveryInit
BY DEF Init

\* Every step of the engine is at most one step of the queue's contract, at
\* one chunk job.
LEMMA ChunkJobStep == [Next]_vars => [Queue!DeliveryNext]_(Queue!deliveryVars)
<1> SUFFICES ASSUME [Next]_vars
             PROVE  Queue!DeliveryNext \/ UNCHANGED <<phase, tries, void>>
  BY DEF Queue!deliveryVars
<1>1. ASSUME NEW p \in Callers, DispatchPage(p)
      PROVE  \E c \in Chunks : Queue!Submit(c)
  <2>1. PICK unused : /\ unused = {c \in Chunks : phase[c] = "absent"} /\ unused # {}
                      /\ Queue!Submit(Min(unused))
    BY <1>1 DEF DispatchPage
  <2>2. unused \in SUBSET Nat /\ unused \subseteq Chunks
    BY <2>1, BatchAssumption
  <2>3. Min(unused) \in unused
    BY <2>1, <2>2, MinExists
  <2> QED
    BY <2>1, <2>2, <2>3
<1>2. ASSUME NEW c \in Chunks, BeginChunk(c)
      PROVE  \E S \in SUBSET Chunks : Queue!Begin(S)
  BY <1>2 DEF BeginChunk
<1>3. ASSUME NEW c \in Chunks, EndChunk(c)
      PROVE  Queue!Succeed(c)
  BY <1>3 DEF EndChunk
<1>4. ASSUME NEW c \in Chunks, ChunkFails(c)
      PROVE  Queue!TryAgain(c) \/ Queue!Bury(c)
  BY <1>4 DEF ChunkFails
<1>5. ASSUME NEW p \in Callers,
             \/ \E S \in SUBSET Items : add_items(p, S) \/ retry_exceptions(p, S)
             \/ start(p) \/ resume(p) \/ CallCutShort(p)
             \/ BumpTotal(p) \/ NoMorePages(p) \/ MarkRunning(p) \/ StartCompletes(p) \/ ReopenRun(p)
      PROVE  UNCHANGED <<phase, tries, void>>
  BY <1>5 DEF add_items, retry_exceptions, start, resume, CallCutShort, BumpTotal, NoMorePages, MarkRunning,
              StartCompletes, ReopenRun, queueVars
<1>6. ASSUME NEW c \in Chunks,
             LoadItems(c) \/ ProcessItems(c) \/ MarkSucceeded(c) \/ MarkFailed(c) \/ CountOutcomes(c) \/ ChunkLost(c)
      PROVE  UNCHANGED <<phase, tries, void>>
  BY <1>6 DEF LoadItems, ProcessItems, MarkSucceeded, MarkFailed, CountOutcomes, ChunkLost, queueVars
<1>7. pause \/ cancel \/ UNCHANGED vars => UNCHANGED <<phase, tries, void>>
  BY DEF pause, cancel, vars, queueVars
<1>8. ASSUME NEW p \in Callers, CallStep(p)
      PROVE  Queue!DeliveryNext \/ UNCHANGED <<phase, tries, void>>
  BY <1>1, <1>5, <1>8 DEF CallStep, Queue!DeliveryNext
<1>9. ASSUME NEW c \in Chunks, ChunkStep(c)
      PROVE  Queue!DeliveryNext \/ UNCHANGED <<phase, tries, void>>
  BY <1>2, <1>3, <1>6, <1>9 DEF ChunkStep, Queue!DeliveryNext
<1>10. ASSUME NEW c \in Chunks, ChunkFails(c)
       PROVE  Queue!DeliveryNext
  BY <1>4, <1>10 DEF Queue!DeliveryNext
<1> QED
  BY <1>5, <1>6, <1>7, <1>8, <1>9, <1>10 DEF Next

\* start, handle_chunk and the outcomes the worker records: whatever
\* callers, chunks and crashes do, the jobs of a run are jobs as the queue's
\* contract has them: one attempt at a time, given up only after all of them.
THEOREM ChunkJobsAreJobs == Spec => Queue!DeliverySpec
<1>1. Init => Queue!DeliveryInit
  BY NoJobYet
<1>2. [Next]_vars => [Queue!DeliveryNext]_(Queue!deliveryVars)
  BY ChunkJobStep
<1> QED
  BY <1>1, <1>2, PTL DEF Spec, Queue!DeliverySpec

=============================================================================
