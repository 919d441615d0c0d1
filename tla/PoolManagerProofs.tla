------------------------- MODULE PoolManagerProofs -------------------------
(***************************************************************************)
(* The pool manager for every set of tasks, databases and budgets: no      *)
(* failed, cancelled or racing creation leaks a reservation or overwrites  *)
(* a pool, the idle evictor spares what was used in time, and the budget   *)
(* is kept as long as no reservation was computed from an outdated sum.    *)
(*                                                                         *)
(* The first half needs no arithmetic: committed and alloc are of some set *)
(* of values there, whichever it is. The second half is about the sums.    *)
(***************************************************************************)
EXTENDS PoolManager, Sums, TLAPS

\* A call that has budget reserved.
Opening(t) == call[t].at \in {"connect", "insert", "release"}

CallShape ==
    \E C, A, T : call \in [Tasks -> [at: Stages, db: Databases, committed: C, alloc: A, evicted: BOOLEAN, now: T]]

PoolShape ==
    \A d \in DOMAIN pools :
        \E A : pools[d] \in [max: A, last: Int, pinned: BOOLEAN, by: Tasks \cup {Nobody},
                             users: SUBSET Tasks]

\* A task that closes a pool is in that stage of its call.
CloserInv == \A t \in Tasks : closing.by = t => call[t].at = "closing"

TimeInv == clock \in Int /\ idle.at \in Int /\ idle.at <= clock

\* Reservations and the calls that hold them correspond one to one.
HeldInv ==
    /\ \A d \in DOMAIN creating : \E t \in Tasks :
          Opening(t) /\ call[t].db = d /\ call[t].alloc = creating[d]
    /\ \A t \in Tasks : Opening(t) => call[t].db \in DOMAIN creating
    /\ \A t, u \in Tasks : Opening(t) /\ Opening(u) /\ call[t].db = call[u].db => t = u

IInv == CallShape /\ CloserInv /\ HeldInv

-----------------------------------------------------------------------------

\* The initial state satisfies the inductive invariant.
LEMMA IInvInit == Init => IInv
<1> SUFFICES ASSUME Init PROVE IInv
  OBVIOUS
<1>1. call \in [Tasks -> [at: Stages, db: Databases, committed: {0}, alloc: {0}, evicted: BOOLEAN, now: {0}]]
  BY PoolAssumption DEF Init, NoCall, Stages
<1>2. CloserInv
  BY PoolAssumption DEF Init, CloserInv, Free
<1>3. HeldInv
  BY DEF Init, NoCall, HeldInv, Opening
<1> QED
  BY <1>1, <1>2, <1>3 DEF IInv, CallShape

\* What a change of stage does to the calls.
LEMMA GotoFacts ==
    ASSUME CallShape, NEW t \in Tasks, NEW stage \in Stages, Goto(t, stage)
    PROVE  /\ CallShape'
           /\ call'[t].at = stage /\ call'[t].db = call[t].db /\ call'[t].alloc = call[t].alloc
           /\ \A u \in Tasks : u # t => call'[u] = call[u]
<1>1. PICK C, A, T : call \in [Tasks -> [at: Stages, db: Databases, committed: C, alloc: A, evicted: BOOLEAN, now: T]]
  BY DEF CallShape
<1>2. call' \in [Tasks -> [at: Stages, db: Databases, committed: C, alloc: A, evicted: BOOLEAN, now: T]]
  BY <1>1 DEF Goto
<1>3. CallShape'
  BY <1>2 DEF CallShape
<1> QED
  BY <1>1, <1>3 DEF Goto

\* A call that neither takes nor gives back budget leaves reservations alone.
LEMMA HeldKept ==
    ASSUME HeldInv, UNCHANGED creating,
           \A u \in Tasks : Opening(u)' <=> Opening(u),
           \A u \in Tasks : Opening(u) => call'[u].db = call[u].db /\ call'[u].alloc = call[u].alloc
    PROVE  HeldInv'
BY DEF HeldInv

\* A call that ends, and drops its reservation, leaves those of the others.
LEMMA HeldDropped ==
    ASSUME HeldInv, NEW t \in Tasks, Opening(t), ~Opening(t)',
           creating' = Drop(creating, {call[t].db}),
           \A u \in Tasks : u # t => call'[u] = call[u]
    PROVE  HeldInv'
<1>1. DOMAIN creating' = DOMAIN creating \ {call[t].db}
      /\ \A d \in DOMAIN creating' : creating'[d] = creating[d]
  BY DEF Drop, Restrict
<1>2. \A u \in Tasks : u # t => (Opening(u)' <=> Opening(u))
  BY DEF Opening
<1>3. \A d \in DOMAIN creating' : \E u \in Tasks :
        Opening(u)' /\ call'[u].db = d /\ call'[u].alloc = creating'[d]
  BY <1>1, <1>2 DEF HeldInv
<1>4. \A u \in Tasks : Opening(u)' => call'[u].db \in DOMAIN creating'
  BY <1>1, <1>2 DEF HeldInv
<1>5. \A u, v \in Tasks : Opening(u)' /\ Opening(v)' /\ call'[u].db = call'[v].db => u = v
  BY <1>2 DEF HeldInv
<1> QED
  BY <1>3, <1>4, <1>5 DEF HeldInv

\* A call that reserves budget for a database nobody reserves for.
LEMMA HeldTaken ==
    ASSUME HeldInv, NEW t \in Tasks, ~Opening(t), Opening(t)',
           call'[t].db \notin DOMAIN creating,
           creating' = Put(creating, call'[t].db, call'[t].alloc),
           \A u \in Tasks : u # t => call'[u] = call[u]
    PROVE  HeldInv'
<1> DEFINE d == call'[t].db
<1>1. DOMAIN creating' = DOMAIN creating \cup {d} /\ creating'[d] = call'[t].alloc
      /\ \A c \in DOMAIN creating : creating'[c] = creating[c]
  BY DEF Put
<1>2. \A u \in Tasks : u # t => (Opening(u)' <=> Opening(u))
  BY DEF Opening
<1>3. \A c \in DOMAIN creating' : \E u \in Tasks :
        Opening(u)' /\ call'[u].db = c /\ call'[u].alloc = creating'[c]
  <2> SUFFICES ASSUME NEW c \in DOMAIN creating'
               PROVE  \E u \in Tasks : Opening(u)' /\ call'[u].db = c /\ call'[u].alloc = creating'[c]
    OBVIOUS
  <2>1. CASE c = d
    BY <1>1, <2>1
  <2>2. CASE c # d
    BY <1>1, <1>2, <2>2 DEF HeldInv
  <2> QED
    BY <2>1, <2>2
<1>4. \A u \in Tasks : Opening(u)' => call'[u].db \in DOMAIN creating'
  BY <1>1, <1>2 DEF HeldInv
<1>5. \A u \in Tasks : u # t /\ Opening(u)' => call'[u].db # d
  BY <1>2 DEF HeldInv
<1>6. \A u, v \in Tasks : Opening(u)' /\ Opening(v)' /\ call'[u].db = call'[v].db => u = v
  BY <1>2, <1>5 DEF HeldInv
<1> QED
  BY <1>3, <1>4, <1>6 DEF HeldInv

\* Only the stage of a call changes, not into or out of opening, nor out of
\* closing; the lock and the reservations stay.
LEMMA StageOnly ==
    ASSUME IInv, NEW t \in Tasks, NEW stage \in Stages, Goto(t, stage),
           UNCHANGED creating, closing'.by = closing.by, call[t].at # "closing",
           Opening(t) <=> stage \in {"connect", "insert", "release"}
    PROVE  IInv'
<1>1. /\ CallShape'
      /\ call'[t].at = stage /\ call'[t].db = call[t].db /\ call'[t].alloc = call[t].alloc
      /\ \A u \in Tasks : u # t => call'[u] = call[u]
  BY GotoFacts DEF IInv
<1>2. \A u \in Tasks : Opening(u)' <=> Opening(u)
  BY <1>1 DEF Opening
<1>3. \A u \in Tasks : Opening(u) => call'[u].db = call[u].db /\ call'[u].alloc = call[u].alloc
  BY <1>1
<1>4. HeldInv'
  BY <1>2, <1>3, HeldKept DEF IInv
<1>5. CloserInv'
  BY <1>1 DEF IInv, CloserInv
<1> QED
  BY <1>1, <1>4, <1>5 DEF IInv

\* The same for a call that changes more than its stage, outside of opening.
LEMMA NotOpening ==
    ASSUME IInv, CallShape', NEW t \in Tasks, ~Opening(t), ~Opening(t)',
           UNCHANGED creating, \A u \in Tasks : u # t => call'[u] = call[u], CloserInv'
    PROVE  IInv'
<1>1. \A u \in Tasks : Opening(u)' <=> Opening(u)
  BY DEF Opening
<1>2. \A u \in Tasks : Opening(u) => call'[u].db = call[u].db /\ call'[u].alloc = call[u].alloc
  OBVIOUS
<1>3. HeldInv'
  BY <1>1, <1>2, HeldKept DEF IInv
<1> QED
  BY <1>3 DEF IInv

\* A call drops its reservation and ends or returns.
LEMMA StageDrops ==
    ASSUME IInv, NEW t \in Tasks, NEW stage \in {"none", "using"}, Goto(t, stage), Opening(t),
           creating' = Drop(creating, {call[t].db}), UNCHANGED closing
    PROVE  IInv'
<1>0. stage \in Stages
  BY DEF Stages
<1>1. /\ CallShape' /\ call'[t].at = stage
      /\ \A u \in Tasks : u # t => call'[u] = call[u]
  BY <1>0, GotoFacts DEF IInv
<1>2. ~Opening(t)'
  BY <1>1 DEF Opening
<1>3. HeldInv'
  BY <1>1, <1>2, HeldDropped DEF IInv
<1>4. CloserInv'
  BY <1>1 DEF IInv, CloserInv, Opening
<1> QED
  BY <1>1, <1>3, <1>4 DEF IInv

\* Reserving keeps the invariant: the slot of the database is free, or taken.
LEMMA ReserveStep ==
    ASSUME IInv, NEW t \in Tasks, Reserve(t)
    PROVE  IInv'
<1> DEFINE d == call[t].db
           remaining == plan_allocation(call[t].committed, SumFunction(creating))
           share == Share(remaining)
<1>1. call[t].at = "reserve" /\ ~Opening(t) /\ UNCHANGED closing
  BY DEF Reserve, Opening
<1>2. CASE UNCHANGED creating /\ \E s \in {"wait", "none", "evict"} : Goto(t, s)
  <2>1. PICK s \in {"wait", "none", "evict"} : Goto(t, s)
    BY <1>2
  <2>2. s \in Stages /\ s \notin {"connect", "insert", "release"}
    BY DEF Stages
  <2> QED
    BY <1>1, <1>2, <2>1, <2>2, StageOnly
<1>3. CASE /\ d \notin DOMAIN creating
           /\ creating' = Put(creating, d, share)
           /\ call' = [call EXCEPT ![t].at = "connect", ![t].alloc = share]
  <2> HIDE DEF share
  <2>1. PICK C, A, T : call \in [Tasks -> [at: Stages, db: Databases, committed: C, alloc: A, evicted: BOOLEAN, now: T]]
    BY DEF IInv, CallShape
  <2>2. call' \in [Tasks -> [at: Stages, db: Databases, committed: C, alloc: A \cup {share}, evicted: BOOLEAN, now: T]]
    BY ZenonT(90), <1>3, <2>1 DEF Stages
  <2>3. CallShape'
    BY <2>2 DEF CallShape
  <2>4. /\ call'[t].at = "connect" /\ call'[t].alloc = share /\ call'[t].db = d
        /\ \A u \in Tasks : u # t => call'[u] = call[u]
    BY <1>3, <2>1
  <2>5. Opening(t)'
    BY <2>4 DEF Opening
  <2>6. HeldInv'
    BY <1>1, <1>3, <2>4, <2>5, HeldTaken DEF IInv
  <2>7. CloserInv'
    BY <1>1, <2>4 DEF IInv, CloserInv
  <2> QED
    BY <2>3, <2>6, <2>7 DEF IInv
<1>4. CASE UNCHANGED creating /\ call' = [call EXCEPT ![t].at = "evict", ![t].now = clock]
  <2>1. PICK C, A, T : call \in [Tasks -> [at: Stages, db: Databases, committed: C, alloc: A, evicted: BOOLEAN, now: T]]
    BY DEF IInv, CallShape
  <2>2. call' \in [Tasks -> [at: Stages, db: Databases, committed: C, alloc: A, evicted: BOOLEAN, now: T \cup {clock}]]
    BY ZenonT(90), <1>4, <2>1 DEF Stages
  <2>3. call'[t].at = "evict" /\ \A u \in Tasks : u # t => call'[u] = call[u]
    BY <1>4, <2>1
  <2>4. CloserInv'
    BY <1>1, <2>3 DEF IInv, CloserInv
  <2> QED
    BY <1>1, <1>4, <2>2, <2>3, <2>4, NotOpening DEF CallShape, Opening
<1> QED
  BY <1>2, <1>3, <1>4 DEF Reserve

\* Every step preserves the invariant.
LEMMA IInvStep == IInv /\ [Next]_vars => IInv'
<1> SUFFICES ASSUME IInv, [Next]_vars PROVE IInv'
  OBVIOUS
<1>0. PICK C, A, T : call \in [Tasks -> [at: Stages, db: Databases, committed: C, alloc: A, evicted: BOOLEAN, now: T]]
  BY DEF IInv, CallShape
<1>1. ASSUME UNCHANGED <<creating, call>>, \A t \in Tasks : closing'.by # t \/ closing' = closing PROVE IInv'
  <2>1. \A t \in Tasks : Opening(t)' <=> Opening(t)
    BY <1>1 DEF Opening
  <2> QED
    BY <1>1, <2>1, HeldKept DEF IInv, CallShape, CloserInv
<1>2. ASSUME NEW t \in Tasks, NEW d \in Databases, Ask(t, d) PROVE IInv'
  <2>1. call' \in [Tasks -> [at: Stages, db: Databases, committed: C \cup {0}, alloc: A \cup {0},
                            evicted: BOOLEAN, now: T \cup {0}]]
    BY <1>0, <1>2 DEF Ask, NoCall, Stages
  <2>2. /\ call[t].at = "none" /\ call'[t].at = "look" /\ UNCHANGED <<creating, closing>>
        /\ \A u \in Tasks : u # t => call'[u] = call[u]
    BY <1>0, <1>2 DEF Ask, NoCall
  <2>3. CloserInv'
    BY <2>2 DEF IInv, CloserInv
  <2> QED
    BY <2>1, <2>2, <2>3, NotOpening DEF CallShape, Opening
<1>3. ASSUME NEW t \in Tasks, FastPath(t) PROVE IInv'
  <2>1. call[t].at = "look" /\ UNCHANGED <<creating, closing>>
    BY <1>3 DEF FastPath
  <2>2. CASE Goto(t, "using")
    BY <2>1, <2>2, StageOnly DEF Opening, Stages
  <2>3. CASE call' = [call EXCEPT ![t].at = "read", ![t].evicted = FALSE]
    <3>1. call' \in [Tasks -> [at: Stages, db: Databases, committed: C, alloc: A, evicted: BOOLEAN, now: T]]
      BY ZenonT(90), <1>0, <2>3 DEF Stages
    <3>2. call'[t].at = "read" /\ \A u \in Tasks : u # t => call'[u] = call[u]
      BY <1>0, <2>3
    <3>3. CloserInv'
      BY <2>1, <3>2 DEF IInv, CloserInv
    <3> QED
      BY <2>1, <3>1, <3>2, <3>3, NotOpening DEF CallShape, Opening
  <2> QED
    BY <1>3, <2>2, <2>3 DEF FastPath
<1>4. ASSUME NEW t \in Tasks, ReadBudget(t) PROVE IInv'
  <2> DEFINE sum == committed_budget
  <2>1. /\ call[t].at = "read" /\ UNCHANGED <<creating, closing>>
        /\ call' = [call EXCEPT ![t].at = "reserve", ![t].committed = sum]
    BY <1>4 DEF ReadBudget
  <2> HIDE DEF sum
  <2>2. call' \in [Tasks -> [at: Stages, db: Databases, committed: C \cup {sum}, alloc: A, evicted: BOOLEAN, now: T]]
    BY ZenonT(90), <1>0, <2>1 DEF Stages
  <2>3. call'[t].at = "reserve" /\ \A u \in Tasks : u # t => call'[u] = call[u]
    BY <1>0, <2>1
  <2>4. CloserInv'
    BY <2>1, <2>3 DEF IInv, CloserInv
  <2> QED
    BY <2>1, <2>2, <2>3, <2>4, NotOpening DEF CallShape, Opening
<1>5. ASSUME NEW t \in Tasks, Reserve(t) PROVE IInv'
  BY <1>5, ReserveStep
<1>6. ASSUME NEW t \in Tasks, WaitOver(t) PROVE IInv'
  BY <1>6, StageOnly DEF WaitOver, Opening, Stages
<1>7. ASSUME NEW t \in Tasks, evict_lru_for_budget(t) PROVE IInv'
  <2>1. call[t].at = "evict" /\ UNCHANGED creating
    BY <1>7 DEF evict_lru_for_budget
  <2>2. CASE Goto(t, "none") /\ UNCHANGED closing
    BY <2>1, <2>2, StageOnly DEF Opening, Stages
  <2>3. CASE closing'.by = t /\ call' = [call EXCEPT ![t].at = "closing", ![t].evicted = TRUE]
    <3>0. call' = [call EXCEPT ![t].at = "closing", ![t].evicted = TRUE] /\ "closing" \in Stages
      BY <2>3 DEF Stages
    <3>1. call' \in [Tasks -> [at: Stages, db: Databases, committed: C, alloc: A, evicted: BOOLEAN, now: T]]
      BY <1>0, <3>0
    <3>2. call'[t].at = "closing" /\ \A u \in Tasks : u # t => call'[u] = call[u]
      BY <1>0, <2>3
    <3>3. CloserInv'
      BY <2>3, <3>2 DEF CloserInv
    <3> QED
      BY <2>1, <3>1, <3>2, <3>3, NotOpening DEF CallShape, Opening
  <2>4. CASE \E d \in DOMAIN pools :
                CloseUnder(t, {d}) /\ call' = [call EXCEPT ![t].at = "closing", ![t].evicted = TRUE]
    <3>1. PICK d \in DOMAIN pools :
              CloseUnder(t, {d}) /\ call' = [call EXCEPT ![t].at = "closing", ![t].evicted = TRUE]
      BY <2>4
    <3>2. closing'.by = t
      BY <3>1 DEF CloseUnder
    <3> QED
      BY <2>3, <3>1, <3>2
  <2> QED
    BY <1>7, <2>2, <2>4 DEF evict_lru_for_budget
<1>8. ASSUME NEW t \in Tasks, Connect(t) PROVE IInv'
  BY <1>8, StageOnly DEF Connect, Opening, Stages
<1>9. ASSUME NEW t \in Tasks, Insert(t) PROVE IInv'
  BY <1>9, StageOnly DEF Insert, Opening, Stages
<1>10. ASSUME NEW t \in Tasks, Release(t) PROVE IInv'
  BY <1>10, StageDrops DEF Release, Opening
<1>11. ASSUME NEW t \in Tasks, ConnectFails(t) PROVE IInv'
  BY <1>11, StageDrops DEF ConnectFails, Opening
<1>12. ASSUME NEW t \in Tasks, Done(t) PROVE IInv'
  <2>1. closing'.by = closing.by
    BY <1>12 DEF Done
  <2> QED
    BY <1>12, <2>1, StageOnly DEF Done, Opening, Stages
<1>13. ASSUME NEW t \in Tasks, Cancel(t) PROVE IInv'
  <2>1. Goto(t, "none")
    BY <1>13 DEF Cancel
  <2>2. CASE call[t].at \in {"connect", "insert"}
    BY <1>13, <2>1, <2>2, StageDrops DEF Cancel, Opening
  <2>3. CASE call[t].at = "closing"
    <3>1. /\ CallShape' /\ call'[t].at = "none"
          /\ \A u \in Tasks : u # t => call'[u] = call[u]
      BY <2>1, GotoFacts DEF IInv, Stages
    <3>2. UNCHANGED creating /\ closing' = Free
      BY <1>13, <2>3 DEF Cancel
    <3>3. CloserInv'
      BY <3>2, PoolAssumption DEF CloserInv, Free
    <3> QED
      BY <2>3, <3>1, <3>2, <3>3, NotOpening DEF Opening
  <2>4. CASE call[t].at \in {"look", "read", "wait", "evict"}
    BY <1>13, <2>1, <2>4, StageOnly DEF Cancel, Opening, Stages
  <2> QED
    BY <1>13, <2>2, <2>3, <2>4 DEF Cancel
<1>14. ASSUME CloseDone PROVE IInv'
  <2>1. call' = [t \in Tasks |-> IF closing.by = t THEN [call[t] EXCEPT !.at = "read"] ELSE call[t]]
        /\ UNCHANGED creating /\ closing' = Free
    BY <1>14 DEF CloseDone
  <2>2. call' \in [Tasks -> [at: Stages, db: Databases, committed: C, alloc: A, evicted: BOOLEAN, now: T]]
    BY <1>0, <2>1 DEF Stages
  <2>3. \A t \in Tasks : Opening(t) => call'[t] = call[t]
    BY <2>1 DEF IInv, CloserInv, Opening
  <2>4. \A t \in Tasks : closing.by = t => ~Opening(t) /\ call'[t].at = "read"
    BY <1>0, <2>1 DEF IInv, CloserInv, Opening
  <2>5. \A t \in Tasks : Opening(t)' <=> Opening(t)
    BY <2>1, <2>4 DEF Opening
  <2>6. HeldInv'
    BY <2>1, <2>3, <2>5, HeldKept DEF IInv
  <2>7. CloserInv'
    BY <2>1, PoolAssumption DEF CloserInv, Free
  <2> QED
    BY <2>2, <2>6, <2>7 DEF IInv, CallShape
<1>15. ASSUME NEW d \in Databases, remove_pool(d) PROVE IInv'
  BY <1>1, <1>15, PoolAssumption DEF remove_pool, CloseUnder
<1>16. ASSUME FindIdle \/ Tick PROVE IInv'
  BY <1>1, <1>16 DEF FindIdle, Tick
<1>17. ASSUME EvictIdle PROVE IInv'
  BY <1>1, <1>17, PoolAssumption DEF EvictIdle, CloseUnder
<1>18. CASE UNCHANGED vars
  BY <1>1, <1>18 DEF vars
<1> QED
  BY <1>2, <1>3, <1>4, <1>5, <1>6, <1>7, <1>8, <1>9, <1>10, <1>11, <1>12, <1>13, <1>14, <1>15,
     <1>16, <1>17, <1>18 DEF Next, Proceed

\* ReservationsAreHeld: reservations and the calls that are opening a pool
\* correspond one to one, whatever fails, is cancelled or races.
THEOREM Reservations == Spec => []ReservationsAreHeld
<1>1. IInv => ReservationsAreHeld
  BY DEF IInv, HeldInv, Opening, ReservationsAreHeld
<1> QED
  BY <1>1, IInvInit, IInvStep, PTL DEF Spec

-----------------------------------------------------------------------------
(* The map of pools *)

Borrow(t) == \E d \in DOMAIN pools : HandOut(t, d)

GiveBack(t) == pools' = [d \in DOMAIN pools |-> [pools[d] EXCEPT !.users = @ \ {t}]]

NewPool(t, d) ==
    /\ d \notin DOMAIN pools
    /\ \E m : pools' = Put(pools, d, [max |-> m, last |-> clock, pinned |-> FALSE,
                                     by |-> t, users |-> {t}])

\* Every way in which a step changes the map.
PoolsChange ==
    \/ UNCHANGED pools
    \/ \E t \in Tasks : Borrow(t) \/ GiveBack(t) \/ \E d \in Databases : NewPool(t, d)
    \/ \E actor \in Tasks \cup {"admin"} : \E d \in DOMAIN pools : CloseUnder(actor, {d})
    \/ EvictIdle

\* No step of the manager changes the map in another way.
LEMMA EveryPoolsChange == IInv /\ [Next]_vars => PoolsChange
<1> SUFFICES ASSUME IInv, [Next]_vars PROVE PoolsChange
  OBVIOUS
<1>1. ASSUME UNCHANGED pools PROVE PoolsChange
  BY <1>1 DEF PoolsChange
<1>2. ASSUME NEW t \in Tasks, FastPath(t) PROVE PoolsChange
  <2>1. UNCHANGED pools \/ Borrow(t)
    BY <1>2 DEF FastPath, Borrow
  <2> QED
    BY <2>1 DEF PoolsChange
<1>3. ASSUME NEW t \in Tasks, Insert(t) PROVE PoolsChange
  <2>1. CASE call[t].db \in DOMAIN pools
    <3>1. Borrow(t)
      BY <1>3, <2>1 DEF Insert, Borrow
    <3> QED
      BY <3>1 DEF PoolsChange
  <2>2. CASE call[t].db \notin DOMAIN pools
    <3>1. call[t].db \in Databases
      BY DEF IInv, CallShape
    <3>2. NewPool(t, call[t].db)
      BY <1>3, <2>2 DEF Insert, NewPool
    <3> QED
      BY <3>1, <3>2 DEF PoolsChange
  <2> QED
    BY <2>1, <2>2
<1>4. ASSUME NEW t \in Tasks, Done(t) PROVE PoolsChange
  <2>1. GiveBack(t)
    BY <1>4 DEF Done, GiveBack
  <2> QED
    BY <2>1 DEF PoolsChange
<1>5. ASSUME NEW t \in Tasks, evict_lru_for_budget(t) PROVE PoolsChange
  <2>1. UNCHANGED pools \/ \E d \in DOMAIN pools : CloseUnder(t, {d})
    BY <1>5 DEF evict_lru_for_budget
  <2> QED
    BY <2>1 DEF PoolsChange
<1>6. ASSUME NEW d \in Databases, remove_pool(d) PROVE PoolsChange
  BY <1>6 DEF remove_pool, PoolsChange
<1>7. ASSUME NEW t \in Tasks,
             \/ ReadBudget(t) \/ Reserve(t) \/ WaitOver(t) \/ Connect(t) \/ Release(t)
             \/ ConnectFails(t) \/ Cancel(t) \/ \E d \in Databases : Ask(t, d)
      PROVE  UNCHANGED pools
  BY <1>7 DEF ReadBudget, Reserve, WaitOver, Connect, Release, ConnectFails, Cancel, Ask
<1>8. ASSUME CloseDone \/ FindIdle \/ Tick \/ UNCHANGED vars PROVE UNCHANGED pools
  BY <1>8 DEF CloseDone, FindIdle, Tick, vars
<1>9. ASSUME EvictIdle PROVE PoolsChange
  BY <1>9 DEF PoolsChange
<1> QED
  BY <1>1, <1>2, <1>3, <1>4, <1>5, <1>6, <1>7, <1>8, <1>9 DEF Next, Proceed

\* Entries of the map, and the order of the two times that are compared.
PInv == PoolShape /\ TimeInv

\* The initial state satisfies it.
LEMMA PInvInit == Init => PInv
<1> SUFFICES ASSUME Init PROVE PInv
  OBVIOUS
<1>1. \A d \in DOMAIN pools :
        pools[d] \in [max: PrimarySizes, last: Int, pinned: BOOLEAN, by: Tasks \cup {Nobody},
                      users: SUBSET Tasks]
  BY DEF Init
<1>2. PoolShape
  BY <1>1 DEF PoolShape
<1>3. TimeInv
  BY DEF Init, TimeInv
<1> QED
  BY <1>2, <1>3 DEF PInv

\* The clock never runs backwards, and idle.at is a reading of it.
LEMMA TimeStep == TimeInv /\ [Next]_vars => TimeInv'
<1> SUFFICES ASSUME TimeInv, [Next]_vars PROVE TimeInv'
  OBVIOUS
<1>1. CASE UNCHANGED <<clock, idle>>
  BY <1>1 DEF TimeInv
<1>2. CASE Tick
  BY <1>2 DEF TimeInv, Tick
<1>3. CASE FindIdle
  BY <1>3 DEF TimeInv, FindIdle
<1>4. CASE EvictIdle
  BY <1>4 DEF TimeInv, EvictIdle
<1>5. ASSUME NEW t \in Tasks, Proceed(t) PROVE UNCHANGED <<clock, idle>>
  BY <1>5 DEF Proceed, FastPath, ReadBudget, Reserve, WaitOver, evict_lru_for_budget, Connect,
              Insert, Release, Done
<1>6. ASSUME NEW t \in Tasks, ConnectFails(t) \/ Cancel(t) \/ \E d \in Databases : Ask(t, d)
      PROVE  UNCHANGED <<clock, idle>>
  BY <1>6 DEF ConnectFails, Cancel, Ask
<1>7. ASSUME CloseDone \/ (\E d \in Databases : remove_pool(d)) \/ UNCHANGED vars
      PROVE  UNCHANGED <<clock, idle>>
  BY <1>7 DEF CloseDone, remove_pool, vars
<1> QED
  BY <1>1, <1>2, <1>3, <1>4, <1>5, <1>6, <1>7 DEF Next

\* Entries stay entries; and one that stays keeps its creator, its size and its pin.
LEMMA PoolsStep ==
    ASSUME PInv, PoolsChange
    PROVE  /\ PoolShape'
           /\ \A d \in DOMAIN pools \cap DOMAIN pools' :
                 /\ pools'[d].by = pools[d].by /\ pools'[d].max = pools[d].max
                 /\ pools'[d].pinned = pools[d].pinned
<1> DEFINE Shape(e) == \E A : e \in [max: A, last: Int, pinned: BOOLEAN, by: Tasks \cup {Nobody},
                                    users: SUBSET Tasks]
           Same(d) == /\ pools'[d].by = pools[d].by /\ pools'[d].max = pools[d].max
                      /\ pools'[d].pinned = pools[d].pinned
           Keeps == (\A d \in DOMAIN pools' : Shape(pools'[d]))
                    /\ \A d \in DOMAIN pools \cap DOMAIN pools' : Same(d)
<1>0. clock \in Int /\ \A d \in DOMAIN pools : Shape(pools[d])
  BY DEF PInv, TimeInv, PoolShape
<1>1. ASSUME UNCHANGED pools PROVE Keeps
  BY <1>0, <1>1
<1>2. ASSUME NEW t \in Tasks, NEW d \in DOMAIN pools, HandOut(t, d) PROVE Keeps
  <2>1. DOMAIN pools' = DOMAIN pools /\ \A c \in DOMAIN pools : c # d => pools'[c] = pools[c]
    BY <1>2 DEF HandOut
  <2>2. PICK A : pools[d] \in [max: A, last: Int, pinned: BOOLEAN, by: Tasks \cup {Nobody},
                               users: SUBSET Tasks]
    BY <1>0
  <2>3. pools'[d] = [pools[d] EXCEPT !.last = clock, !.users = @ \cup {t}]
    BY <1>2 DEF HandOut
  <2>4. pools'[d] \in [max: A, last: Int, pinned: BOOLEAN, by: Tasks \cup {Nobody},
                       users: SUBSET Tasks]
        /\ Same(d)
    BY ZenonT(90), <1>0, <2>2, <2>3
  <2> QED
    BY <1>0, <2>1, <2>4
<1>3. ASSUME NEW t \in Tasks, GiveBack(t) PROVE Keeps
  <2>1. DOMAIN pools' = DOMAIN pools
    BY <1>3 DEF GiveBack
  <2>2. ASSUME NEW d \in DOMAIN pools PROVE Shape(pools'[d]) /\ Same(d)
    <3>1. PICK A : pools[d] \in [max: A, last: Int, pinned: BOOLEAN, by: Tasks \cup {Nobody},
                                 users: SUBSET Tasks]
      BY <1>0
    <3>2. pools'[d] = [pools[d] EXCEPT !.users = @ \ {t}]
      BY <1>3 DEF GiveBack
    <3>3. pools'[d] \in [max: A, last: Int, pinned: BOOLEAN, by: Tasks \cup {Nobody},
                         users: SUBSET Tasks]
          /\ Same(d)
      BY <3>1, <3>2
    <3> QED
      BY <3>3
  <2> QED
    BY <2>1, <2>2
<1>4. ASSUME NEW t \in Tasks, NEW d \in Databases, NewPool(t, d) PROVE Keeps
  <2>1. PICK m : pools' = Put(pools, d, [max |-> m, last |-> clock, pinned |-> FALSE,
                                         by |-> t, users |-> {t}])
    BY <1>4 DEF NewPool
  <2>2. /\ DOMAIN pools' = DOMAIN pools \cup {d} /\ d \notin DOMAIN pools
        /\ pools'[d] = [max |-> m, last |-> clock, pinned |-> FALSE, by |-> t, users |-> {t}]
        /\ \A c \in DOMAIN pools : pools'[c] = pools[c]
    BY <1>4, <2>1 DEF NewPool, Put
  <2>3. pools'[d] \in [max: {m}, last: Int, pinned: BOOLEAN, by: Tasks \cup {Nobody},
                       users: SUBSET Tasks]
    BY <1>0, <2>2
  <2> QED
    BY <1>0, <2>2, <2>3
<1>5. ASSUME NEW S, pools' = Drop(pools, S) PROVE Keeps
  <2>1. DOMAIN pools' = DOMAIN pools \ S /\ \A d \in DOMAIN pools' : pools'[d] = pools[d]
    BY <1>5 DEF Drop, Restrict
  <2> QED
    BY <1>0, <2>1
<1>6. ASSUME NEW actor, NEW d, CloseUnder(actor, {d}) PROVE Keeps
  <2>1. pools' = Drop(pools, {d})
    BY <1>6 DEF CloseUnder
  <2> QED
    BY <1>5, <2>1
<1>7. ASSUME EvictIdle PROVE Keeps
  <2>1. \E S : pools' = Drop(pools, S)
    BY <1>7 DEF EvictIdle, CloseUnder
  <2> QED
    BY <1>5, <2>1
<1>8. Keeps
  <2> HIDE DEF Keeps
  <2> QED
    BY <1>1, <1>2, <1>3, <1>4, <1>6, <1>7 DEF PoolsChange, Borrow
<1> QED
  BY <1>8 DEF PoolShape

\* What leaves the map in the evictor's name is idle for longer than the
\* timeout, by the present clock too.
LEMMA EvictedIsAged ==
    ASSUME PInv, PoolsChange, NEW d \in DOMAIN pools \ DOMAIN pools', closing'.by = "evictor"
    PROVE  Aged(d, clock, IdleTimeout)
<1>1. EvictIdle
  <2>1. ~UNCHANGED pools
    OBVIOUS
  <2>2. ASSUME NEW t \in Tasks, Borrow(t) \/ GiveBack(t) \/ \E c \in Databases : NewPool(t, c)
        PROVE  DOMAIN pools \subseteq DOMAIN pools'
    BY <2>2 DEF Borrow, HandOut, GiveBack, NewPool, Put
  <2>3. ASSUME NEW actor \in Tasks \cup {"admin"}, NEW c \in DOMAIN pools, CloseUnder(actor, {c})
        PROVE  FALSE
    <3>1. closing'.by = actor
      BY <2>3 DEF CloseUnder
    <3> QED
      BY <2>3, <3>1, PoolAssumption
  <2> QED
    BY <2>1, <2>2, <2>3 DEF PoolsChange
<1>2. d \in {c \in idle.names \cap DOMAIN pools : Aged(c, idle.at, IdleTimeout)}
  BY <1>1 DEF EvictIdle, CloseUnder, Drop, Restrict
<1>3. pools[d].last \in Int
  BY DEF PInv, PoolShape
<1> QED
  BY <1>2, <1>3, PoolAssumption DEF Aged, PInv, TimeInv

\* The invariant of the map holds always.
LEMMA PoolInvariance == Spec => [](IInv /\ PInv)
<1>1. IInv /\ PInv /\ [Next]_vars => PInv'
  BY EveryPoolsChange, PoolsStep, TimeStep DEF PInv
<1> QED
  BY <1>1, IInvInit, IInvStep, PInvInit, PTL DEF Spec

\* NeverReplaced: an open pool keeps its place in the map until it is closed.
THEOREM PoolsAreKept == Spec => NeverReplaced
<1>1. IInv /\ PInv /\ [Next]_vars =>
        \A d \in DOMAIN pools \cap DOMAIN pools' :
            pools'[d].by = pools[d].by /\ pools'[d].max = pools[d].max
  BY EveryPoolsChange, PoolsStep
<1>2. IInv /\ PInv /\ [Next]_vars =>
        [\A d \in DOMAIN pools \cap DOMAIN pools' :
            pools'[d].by = pools[d].by /\ pools'[d].max = pools[d].max]_vars
  BY <1>1
<1> QED
  BY <1>2, PoolInvariance, PTL DEF Spec, NeverReplaced

\* FreshPoolsStay: the evictor closes no pool that was used in time.
THEOREM FreshPoolsAreKept == Spec => FreshPoolsStay
<1>1. IInv /\ PInv /\ [Next]_vars =>
        \A d \in DOMAIN pools \ DOMAIN pools' :
            \/ closing'.by # "evictor"
            \/ Aged(d, clock, IdleTimeout)
  BY EveryPoolsChange, EvictedIsAged
<1>2. IInv /\ PInv /\ [Next]_vars =>
        [\A d \in DOMAIN pools \ DOMAIN pools' :
            \/ closing'.by # "evictor"
            \/ Aged(d, clock, IdleTimeout)]_vars
  BY <1>1
<1> QED
  BY <1>2, PoolInvariance, PTL DEF Spec, FreshPoolsStay

-----------------------------------------------------------------------------
(* Types, with the sums of the budget *)

PoolsTyped(f) == DOMAIN f \subseteq Databases /\ \A d \in DOMAIN f : f[d] \in Entry
CreatingTyped(f) == DOMAIN f \subseteq Databases /\ \A d \in DOMAIN f : f[d] \in 1..MaxPerPool
LockTyped(c) == c \in [by: Tasks \cup {Nobody, "admin", "evictor"}, waits: SUBSET Tasks]
Counted == calls \in 0..MaxCalls /\ faults \in 0..MaxFaults /\ removals \in 0..MaxRemovals
Typed ==
    /\ PoolsTyped(pools) /\ CreatingTyped(creating) /\ LockTyped(closing)
    /\ call \in [Tasks -> Call]
    /\ idle \in [names: SUBSET Databases, at: 0..MaxClock]
    /\ clock \in 0..MaxClock /\ stale \in BOOLEAN /\ Counted

\* The parts are the type invariant.
LEMMA TypedMeans == Typed <=> TypeOK
BY DEF Typed, TypeOK, PoolsTyped, CreatingTyped, LockTyped, Counted

\* The initial state has the types.
LEMMA TypedInit == Init => Typed
<1> SUFFICES ASSUME Init PROVE Typed
  OBVIOUS
<1>1. PoolsTyped(pools)
  BY PoolAssumption DEF Init, PoolsTyped, Entry
<1>2. CreatingTyped(creating) /\ LockTyped(closing)
  BY DEF Init, CreatingTyped, LockTyped, Free
<1>3. call \in [Tasks -> Call]
  BY PoolAssumption DEF Init, NoCall, Call, Stages
<1>4. idle \in [names: SUBSET Databases, at: 0..MaxClock] /\ clock \in 0..MaxClock /\ Counted
  BY PoolAssumption DEF Init, Counted
<1>5. stale \in BOOLEAN
  BY DEF Init
<1> QED
  BY <1>1, <1>2, <1>3, <1>4, <1>5 DEF Typed

\* The sums are natural numbers.
LEMMA BudgetsAreNumbers ==
    ASSUME Typed
    PROVE  committed_budget \in Nat /\ SumFunction(creating) \in Nat
<1>1. PICK m : m = [d \in DOMAIN pools |-> pools[d].max]
  OBVIOUS
<1>2. IsFiniteSet(DOMAIN m) /\ \A d \in DOMAIN m : m[d] \in Nat
  BY <1>1, PoolAssumption, FS_Subset DEF Typed, PoolsTyped, Entry
<1>3. SumFunctionOnSet(m, DOMAIN m) \in Nat
  BY <1>2, SumNat
<1>4. IsFiniteSet(DOMAIN creating) /\ \A d \in DOMAIN creating : creating[d] \in Nat
  BY PoolAssumption, FS_Subset DEF Typed, CreatingTyped
<1>5. SumFunctionOnSet(creating, DOMAIN creating) \in Nat
  BY <1>4, SumNat
<1> QED
  BY <1>1, <1>3, <1>5 DEF committed_budget, SumFunction

\* plan_allocation hands out no more than is left, and at least one.
LEMMA Shares ==
    ASSUME NEW c \in Nat, NEW r \in Nat, NEW left, left = plan_allocation(c, r), Fits(left)
    PROVE  Share(left) \in 1..MaxPerPool /\ c + r + Share(left) <= GlobalMax
BY PoolAssumption DEF plan_allocation, Fits, Share

\* Pools that are closed: the map shrinks and the lock waits for borrowers.
LEMMA CloseTypes ==
    ASSUME Typed, NEW actor \in Tasks \cup {"admin", "evictor"}, NEW S, S \subseteq DOMAIN pools, CloseUnder(actor, S)
    PROVE  PoolsTyped(pools') /\ LockTyped(closing')
<1>1. PICK w \in SUBSET UNION {pools[d].users : d \in S} : closing' = [by |-> actor, waits |-> w]
  BY DEF CloseUnder
<1>2. \A d \in S : pools[d].users \subseteq Tasks
  BY DEF Typed, PoolsTyped, Entry
<1>3. w \subseteq Tasks
  BY <1>1, <1>2
<1>4. DOMAIN pools' = DOMAIN pools \ S /\ \A d \in DOMAIN pools' : pools'[d] = pools[d]
  BY DEF CloseUnder, Drop, Restrict
<1> QED
  BY <1>1, <1>3, <1>4 DEF Typed, PoolsTyped, LockTyped

\* A pool that is handed out.
LEMMA HandOutTypes ==
    ASSUME Typed, NEW t \in Tasks, NEW d \in DOMAIN pools, HandOut(t, d)
    PROVE  PoolsTyped(pools')
<1>1. PICK e : e = [pools[d] EXCEPT !.last = clock, !.users = @ \cup {t}]
  OBVIOUS
<1>2. pools' = [pools EXCEPT ![d] = e]
  BY <1>1 DEF HandOut
<1>3. e \in Entry
  BY <1>1 DEF Typed, PoolsTyped, Entry
<1> QED
  BY <1>2, <1>3 DEF Typed, PoolsTyped

\* An entry that is put into a map.
LEMMA PutTypes ==
    ASSUME Typed, NEW d \in Databases, NEW e
    PROVE  /\ e \in Entry /\ pools' = Put(pools, d, e) => PoolsTyped(pools')
           /\ e \in 1..MaxPerPool /\ creating' = Put(creating, d, e) => CreatingTyped(creating')
BY DEF Typed, PoolsTyped, CreatingTyped, Put

\* A reservation that is dropped.
LEMMA DropTypes ==
    ASSUME Typed, NEW d, creating' = Drop(creating, {d})
    PROVE  CreatingTyped(creating')
BY DEF Typed, CreatingTyped, Drop, Restrict

\* A call that goes to its next stage.
LEMMA GotoTypes ==
    ASSUME Typed, NEW t \in Tasks, NEW stage \in Stages, Goto(t, stage)
    PROVE  call' \in [Tasks -> Call]
BY DEF Typed, Goto, Call

\* A call of which fields change.
LEMMA CallWritten ==
    ASSUME Typed, NEW t \in Tasks, NEW v \in Call
    PROVE  /\ call' = [call EXCEPT ![t] = v] => call' \in [Tasks -> Call]
           /\ \A a, c : v = [call[t] EXCEPT !.at = a, !.committed = c]
                 /\ call' = [call EXCEPT ![t].at = a, ![t].committed = c] => call' \in [Tasks -> Call]
           /\ \A a, c : v = [call[t] EXCEPT !.at = a, !.alloc = c]
                 /\ call' = [call EXCEPT ![t].at = a, ![t].alloc = c] => call' \in [Tasks -> Call]
           /\ \A a, c : v = [call[t] EXCEPT !.at = a, !.evicted = c]
                 /\ call' = [call EXCEPT ![t].at = a, ![t].evicted = c] => call' \in [Tasks -> Call]
BY DEF Typed

\* A call that is opening a pool holds the reservation of its database, and
\* that is the share it was given.
LEMMA ShareHeld ==
    ASSUME Typed, HeldInv, NEW t \in Tasks, Opening(t)
    PROVE  /\ call[t].db \in DOMAIN creating /\ creating[call[t].db] = call[t].alloc
           /\ call[t].alloc \in 1..MaxPerPool
BY DEF Typed, CreatingTyped, HeldInv

\* get_pool and its callers keep the types.
LEMMA CallerTypes ==
    ASSUME Typed, HeldInv, NEW t \in Tasks,
           \/ Proceed(t) \/ ConnectFails(t) \/ Cancel(t)
           \/ \E d \in Databases : Ask(t, d)
    PROVE  Typed'
<1>0. Primary \in Databases /\ MaxClock \in Nat
  BY PoolAssumption
<1>1. ASSUME UNCHANGED <<pools, closing, idle, clock, boundVars>>, call' \in [Tasks -> Call], CreatingTyped(creating'),
             stale' \in BOOLEAN
      PROVE  Typed'
  BY <1>1, Zenon DEF Typed, boundVars, Counted
<1>2. ASSUME NEW d \in Databases, Ask(t, d) PROVE Typed'
  <2>1. PICK n : n = [NoCall EXCEPT !.at = "look", !.db = d]
    OBVIOUS
  <2>2. n \in Call
    <3>1. n = [at |-> "look", db |-> d, committed |-> 0, alloc |-> 0, evicted |-> FALSE, now |-> 0]
      BY <2>1 DEF NoCall
    <3>2. "look" \in Stages /\ 0 \in 0..MaxClock
      BY <1>0 DEF Stages
    <3> QED
      BY <3>1, <3>2 DEF Call
  <2>3. call' = [call EXCEPT ![t] = n]
    BY <1>2, <2>1 DEF Ask
  <2>4. call' \in [Tasks -> Call]
    BY <2>2, <2>3 DEF Typed
  <2>5. Counted'
    <3>1. Counted /\ calls < MaxCalls /\ calls' = calls + 1 /\ UNCHANGED <<faults, removals>>
      BY <1>2 DEF Ask, Typed
    <3> QED
      BY <3>1, PoolAssumption DEF Counted
  <2>6. UNCHANGED <<pools, creating, closing, idle, clock, stale>>
    BY <1>2 DEF Ask
  <2> QED
    BY <2>4, <2>5, <2>6, Zenon DEF Typed
<1>3. ASSUME FastPath(t) PROVE Typed'
  <2>1. UNCHANGED <<creating, closing, idle, clock, stale, boundVars>>
    BY <1>3 DEF FastPath
  <2>2. PoolsTyped(pools')
    <3>1. CASE call[t].db \in DOMAIN pools
      BY <1>3, <3>1, HandOutTypes DEF FastPath
    <3>2. CASE call[t].db \notin DOMAIN pools
      BY <1>3, <3>2 DEF FastPath, Typed
    <3> QED
      BY <3>1, <3>2
  <2>3. call' \in [Tasks -> Call]
    BY <1>3, GotoTypes DEF FastPath, Typed, Call, Stages
  <2> QED
    BY <2>1, <2>2, <2>3, Zenon DEF Typed, boundVars, Counted
<1>4. ASSUME ReadBudget(t) PROVE Typed'
  <2>1. PICK c \in Nat : c = committed_budget
    BY BudgetsAreNumbers
  <2>2. call' = [call EXCEPT ![t].at = "reserve", ![t].committed = c]
    BY <1>4, <2>1 DEF ReadBudget
  <2>3. call' \in [Tasks -> Call]
    <3>1. PICK v : v = [call[t] EXCEPT !.at = "reserve", !.committed = c]
      OBVIOUS
    <3>2. v \in Call
      BY <3>1 DEF Typed, Call, Stages
    <3> QED
      BY <2>2, <3>1, <3>2, CallWritten
  <2>4. UNCHANGED <<pools, creating, closing, idle, clock, stale, boundVars>>
    BY <1>4 DEF ReadBudget
  <2> QED
    BY <2>3, <2>4, Zenon DEF Typed, boundVars, Counted
<1>5. ASSUME Reserve(t) PROVE Typed'
  <2>1. UNCHANGED <<pools, closing, idle, clock, boundVars>>
    BY <1>5 DEF Reserve
  <2>2. PICK d, left : d = call[t].db /\ left = plan_allocation(call[t].committed, SumFunction(creating))
    OBVIOUS
  <2>3. \/ Goto(t, "wait") /\ UNCHANGED <<creating, stale>>
        \/ /\ Fits(left)
           /\ creating' = Put(creating, d, Share(left))
           /\ call' = [call EXCEPT ![t].at = "connect", ![t].alloc = Share(left)]
           /\ stale' = (stale \/ call[t].committed < committed_budget)
        \/ (Goto(t, "none") \/ call' = [call EXCEPT ![t].at = "evict", ![t].now = clock]) /\ UNCHANGED <<creating, stale>>
    BY <1>5, <2>2 DEF Reserve
  <2>4. CASE UNCHANGED <<creating, stale>>
             /\ (Goto(t, "wait") \/ Goto(t, "none") \/ call' = [call EXCEPT ![t].at = "evict", ![t].now = clock])
    <3>1. call' \in [Tasks -> Call]
      BY <2>4, GotoTypes DEF Typed, Call, Stages
    <3> QED
      BY <1>1, <2>1, <2>4, <3>1 DEF Typed
  <2>5. CASE /\ Fits(left)
             /\ creating' = Put(creating, d, Share(left))
             /\ call' = [call EXCEPT ![t].at = "connect", ![t].alloc = Share(left)]
             /\ stale' = (stale \/ call[t].committed < committed_budget)
    <3>1. call[t] \in Call /\ SumFunction(creating) \in Nat
      BY BudgetsAreNumbers DEF Typed
    <3>2. PICK s : s = Share(left)
      OBVIOUS
    <3>3. s \in 1..MaxPerPool /\ d \in Databases
      BY <2>2, <2>5, <3>1, <3>2, Shares DEF Call
    <3>4. CreatingTyped(creating')
      BY <2>5, <3>2, <3>3, PutTypes
    <3>5. call' \in [Tasks -> Call]
      <4>1. PICK v : v = [call[t] EXCEPT !.at = "connect", !.alloc = s]
        OBVIOUS
      <4>2. v \in Call
        <5>1. s \in Nat
          BY <3>3, PoolAssumption
        <5> QED
          BY <4>1, <5>1 DEF Typed, Call, Stages
      <4>3. call' = [call EXCEPT ![t].at = "connect", ![t].alloc = s]
        BY <2>5, <3>2
      <4> QED
        BY <4>1, <4>2, <4>3, CallWritten
    <3>6. stale' \in BOOLEAN
      BY <2>5
    <3> QED
      BY <1>1, <2>1, <3>4, <3>5, <3>6
  <2> QED
    BY <2>3, <2>4, <2>5
<1>6. ASSUME NEW stage \in Stages, Goto(t, stage), UNCHANGED <<pools, creating, closing, idle, clock, stale, boundVars>>
      PROVE  Typed'
  <2>1. call' \in [Tasks -> Call]
    BY <1>6, GotoTypes
  <2> QED
    BY <1>1, <1>6, <2>1 DEF Typed
<1>7. ASSUME WaitOver(t) \/ Connect(t) PROVE Typed'
  BY <1>6, <1>7 DEF WaitOver, Connect, Stages
<1>8. ASSUME evict_lru_for_budget(t) PROVE Typed'
  <2>1. UNCHANGED <<creating, idle, clock, stale, boundVars>>
    BY <1>8 DEF evict_lru_for_budget
  <2>2. CASE Goto(t, "none") /\ UNCHANGED <<pools, closing>>
    BY <1>6, <2>1, <2>2 DEF Stages
  <2>3. ASSUME NEW d \in DOMAIN pools, CloseUnder(t, {d}), call' = [call EXCEPT ![t].at = "closing", ![t].evicted = TRUE]
        PROVE  Typed'
    <3>1. call' \in [Tasks -> Call]
      <4>1. PICK v : v = [call[t] EXCEPT !.at = "closing", !.evicted = TRUE]
        OBVIOUS
      <4>2. v \in Call
        BY ZenonT(90), <4>1 DEF Typed, Call, Stages
      <4> QED
        BY <2>3, <4>1, <4>2, CallWritten
    <3>2. {d} \subseteq DOMAIN pools
      BY <2>3
    <3>3. PoolsTyped(pools') /\ LockTyped(closing')
      BY <2>3, <3>2, CloseTypes
    <3> QED
      BY <2>1, <3>1, <3>3, Zenon DEF Typed, boundVars, Counted
  <2> QED
    BY <1>8, <2>2, <2>3 DEF evict_lru_for_budget
<1>9. ASSUME Insert(t) PROVE Typed'
  <2>1. UNCHANGED <<creating, closing, idle, clock, stale, boundVars>> /\ Goto(t, "release") /\ Opening(t)
    BY <1>9 DEF Insert, Opening
  <2>2. call' \in [Tasks -> Call]
    BY <2>1, GotoTypes DEF Stages
  <2>3. PoolsTyped(pools')
    <3>1. CASE call[t].db \in DOMAIN pools
      BY <1>9, <3>1, HandOutTypes DEF Insert
    <3>2. CASE call[t].db \notin DOMAIN pools
      <4>1. PICK e : e = [max |-> call[t].alloc, last |-> clock, pinned |-> FALSE, by |-> t, users |-> {t}]
        OBVIOUS
      <4>2. e \in Entry
        BY <2>1, <4>1, ShareHeld, PoolAssumption DEF Typed, Entry
      <4>3. call[t].db \in Databases
        BY DEF Typed, Call
      <4>4. pools' = Put(pools, call[t].db, e)
        BY <1>9, <3>2, <4>1 DEF Insert
      <4> QED
        BY <4>2, <4>3, <4>4, PutTypes
    <3> QED
      BY <3>1, <3>2
  <2> QED
    BY <2>1, <2>2, <2>3, Zenon DEF Typed, boundVars, Counted
<1>10. ASSUME Release(t) PROVE Typed'
  <2>1. UNCHANGED <<pools, closing, idle, clock, stale, boundVars>> /\ Goto(t, "using")
        /\ creating' = Drop(creating, {call[t].db})
    BY <1>10 DEF Release
  <2>2. call' \in [Tasks -> Call]
    BY <2>1, GotoTypes DEF Stages
  <2>3. CreatingTyped(creating')
    BY <2>1, DropTypes
  <2> QED
    BY <1>1, <2>1, <2>2, <2>3 DEF Typed
<1>11. ASSUME ConnectFails(t) \/ Cancel(t) PROVE Typed'
  <2>1. UNCHANGED <<pools, idle, clock, stale, calls, removals>> /\ faults < MaxFaults /\ faults' = faults + 1
        /\ Goto(t, "none") /\ (closing' = Free \/ closing' = closing)
        /\ (creating' = Drop(creating, {call[t].db}) \/ creating' = creating)
    BY <1>11 DEF ConnectFails, Cancel
  <2>2. call' \in [Tasks -> Call]
    BY <2>1, GotoTypes DEF Stages
  <2>3. CreatingTyped(creating')
    BY <2>1, DropTypes DEF Typed
  <2>4. LockTyped(closing')
    BY <2>1 DEF Typed, LockTyped, Free
  <2>5. Counted'
    BY <2>1, PoolAssumption DEF Typed, Counted
  <2> QED
    BY <2>1, <2>2, <2>3, <2>4, <2>5, Zenon DEF Typed
<1>12. ASSUME Done(t) PROVE Typed'
  <2>1. UNCHANGED <<creating, idle, clock, stale, boundVars>> /\ Goto(t, "none")
    BY <1>12 DEF Done
  <2>2. call' \in [Tasks -> Call]
    BY <2>1, GotoTypes DEF Stages
  <2>3. LockTyped(closing')
    BY <1>12 DEF Done, Typed, LockTyped
  <2>4. ASSUME NEW d \in DOMAIN pools' PROVE d \in DOMAIN pools /\ pools'[d] \in Entry
    <3>1. d \in DOMAIN pools /\ pools'[d] = [pools[d] EXCEPT !.users = @ \ {t}]
      BY <1>12, <2>4 DEF Done
    <3> QED
      BY <3>1 DEF Typed, PoolsTyped, Entry
  <2>5. PoolsTyped(pools')
    BY <2>4 DEF Typed, PoolsTyped
  <2> QED
    BY <2>1, <2>2, <2>3, <2>5, Zenon DEF Typed, boundVars, Counted
<1> QED
  BY <1>2, <1>3, <1>4, <1>5, <1>7, <1>8, <1>9, <1>10, <1>11, <1>12 DEF Proceed

\* Every step keeps the types.
LEMMA TypedStep == Typed /\ HeldInv /\ [Next]_vars => Typed'
<1> SUFFICES ASSUME Typed, HeldInv, [Next]_vars PROVE Typed'
  OBVIOUS
<1>1. ASSUME NEW t \in Tasks,
             \/ Proceed(t) \/ ConnectFails(t) \/ Cancel(t)
             \/ \E d \in Databases : Ask(t, d)
      PROVE  Typed'
  BY <1>1, CallerTypes
<1>2. ASSUME CloseDone PROVE Typed'
  <2>1. call' = [t \in Tasks |-> IF closing.by = t THEN [call[t] EXCEPT !.at = "read"] ELSE call[t]]
        /\ closing' = Free /\ UNCHANGED <<pools, creating, idle, clock, stale, boundVars>>
    BY <1>2 DEF CloseDone
  <2>2. call' \in [Tasks -> Call]
    BY <2>1 DEF Typed, Call, Stages
  <2>3. LockTyped(closing')
    BY <2>1 DEF LockTyped, Free
  <2> QED
    BY <2>1, <2>2, <2>3, Zenon DEF Typed, boundVars, Counted
<1>3. ASSUME NEW d \in Databases, remove_pool(d) PROVE Typed'
  <2>1. UNCHANGED <<creating, call, idle, clock, stale, calls, faults>> /\ CloseUnder("admin", {d}) /\ {d} \subseteq DOMAIN pools
    BY <1>3 DEF remove_pool
  <2>2. Counted'
    BY <1>3, PoolAssumption DEF remove_pool, Typed, Counted
  <2>3. PoolsTyped(pools') /\ LockTyped(closing')
    BY <2>1, CloseTypes
  <2> QED
    BY <2>1, <2>2, <2>3, Zenon DEF Typed
<1>4. ASSUME FindIdle PROVE Typed'
  <2>1. UNCHANGED <<pools, creating, closing, call, clock, stale, boundVars>>
    BY <1>4 DEF FindIdle
  <2>2. idle' \in [names: SUBSET Databases, at: 0..MaxClock]
    BY <1>4 DEF FindIdle, Typed, PoolsTyped
  <2> QED
    BY <2>1, <2>2, Zenon DEF Typed, boundVars, Counted
<1>5. ASSUME EvictIdle PROVE Typed'
  <2>1. UNCHANGED <<creating, call, clock, stale, boundVars>>
    BY <1>5 DEF EvictIdle
  <2>2. idle' \in [names: SUBSET Databases, at: 0..MaxClock]
    BY <1>5 DEF EvictIdle, Typed
  <2>3. PICK S : S = {d \in idle.names \cap DOMAIN pools : Aged(d, idle.at, IdleTimeout)}
    OBVIOUS
  <2>4. CloseUnder("evictor", S) /\ S \subseteq DOMAIN pools
    BY <1>5, <2>3 DEF EvictIdle
  <2>5. PoolsTyped(pools') /\ LockTyped(closing')
    BY <2>4, CloseTypes
  <2> QED
    BY <2>1, <2>2, <2>5, Zenon DEF Typed, boundVars, Counted
<1>6. ASSUME Tick PROVE Typed'
  <2>1. UNCHANGED <<pools, creating, closing, call, idle, stale, boundVars>> /\ clock' \in 0..MaxClock
    BY <1>6, PoolAssumption DEF Tick, Typed
  <2> QED
    BY <2>1, Zenon DEF Typed, boundVars, Counted
<1>7. CASE UNCHANGED vars
  BY <1>7, Zenon DEF vars, boundVars, Typed, Counted
<1> QED
  BY <1>1, <1>2, <1>3, <1>4, <1>5, <1>6, <1>7 DEF Next

\* TypeOK: every sum that is read is a number, every share between one and
\* MaxPerPool, and a lock waits only for callers.
THEOREM Typing == Spec => []TypeOK
<1>1. IInv /\ Typed /\ [Next]_vars => Typed'
  BY TypedStep DEF IInv
<1> QED
  BY <1>1, TypedMeans, TypedInit, IInvInit, IInvStep, PTL DEF Spec

-----------------------------------------------------------------------------
(* The budget *)

\* What each database and each call takes of the budget.
Sizes == [d \in Databases |-> IF d \in DOMAIN pools THEN pools[d].max ELSE 0]
Pending(t) == call[t].at \in {"connect", "insert"}
Opens == [t \in Tasks |-> IF Pending(t) THEN call[t].alloc ELSE 0]

\* Both are natural numbers.
LEMMA TakenTypes ==
    ASSUME Typed
    PROVE  /\ \A d \in Databases : Sizes[d] \in Nat
           /\ \A t \in Tasks : Opens[t] \in Nat
           /\ SumFunctionOnSet(Sizes, Databases) \in Nat /\ SumFunctionOnSet(Opens, Tasks) \in Nat
<1>1. \A d \in Databases : Sizes[d] \in Nat
  BY DEF Typed, PoolsTyped, Entry, Sizes
<1>2. \A t \in Tasks : Opens[t] \in Nat
  BY DEF Typed, Call, Opens
<1>3. IsFiniteSet(Databases) /\ IsFiniteSet(Tasks)
  BY PoolAssumption
<1>4. PICK f, g : f = Sizes /\ g = Opens
  OBVIOUS
<1>5. SumFunctionOnSet(f, Databases) \in Nat /\ SumFunctionOnSet(g, Tasks) \in Nat
  BY <1>1, <1>2, <1>3, <1>4, SumNat
<1> QED
  BY <1>1, <1>2, <1>4, <1>5

\* Granted is their sum.
LEMMA GrantedSum ==
    Typed => /\ committed_budget = SumFunctionOnSet(Sizes, Databases)
             /\ Granted = SumFunctionOnSet(Sizes, Databases) + SumFunctionOnSet(Opens, Tasks)
             /\ SumFunctionOnSet(Sizes, Databases) \in Nat /\ SumFunctionOnSet(Opens, Tasks) \in Nat
             /\ (\A d \in Databases : Sizes[d] \in Nat) /\ (\A t \in Tasks : Opens[t] \in Nat)
<1> SUFFICES ASSUME Typed
             PROVE  /\ committed_budget = SumFunctionOnSet(Sizes, Databases)
                    /\ Granted = SumFunctionOnSet(Sizes, Databases) + SumFunctionOnSet(Opens, Tasks)
  BY TakenTypes
<1>1. PICK f, g : f = Sizes /\ g = Opens
  OBVIOUS
<1>2. PICK m : m = [d \in DOMAIN pools |-> pools[d].max]
  OBVIOUS
<1>3. PICK a : a = [t \in {u \in Tasks : call[u].at \in {"connect", "insert"}} |-> call[t].alloc]
  OBVIOUS
<1>4. IsFiniteSet(Databases) /\ IsFiniteSet(Tasks)
  BY PoolAssumption
<1>5. DOMAIN m \subseteq Databases /\ (\A d \in DOMAIN m : m[d] \in Int)
      /\ \A d \in Databases : f[d] = IF d \in DOMAIN m THEN m[d] ELSE 0
  BY <1>1, <1>2 DEF Typed, PoolsTyped, Entry, Sizes
<1>6. DOMAIN a \subseteq Tasks /\ (\A t \in DOMAIN a : a[t] \in Int)
      /\ \A t \in Tasks : g[t] = IF t \in DOMAIN a THEN a[t] ELSE 0
  BY <1>1, <1>3 DEF Typed, Call, Opens, Pending
<1>7. SumFunction(m) = SumFunctionOnSet(f, Databases)
  BY <1>4, <1>5, SumFunctionPadded
<1>8. SumFunction(a) = SumFunctionOnSet(g, Tasks)
  BY <1>4, <1>6, SumFunctionPadded
<1>9. committed_budget = SumFunctionOnSet(Sizes, Databases)
  BY <1>1, <1>2, <1>7 DEF committed_budget
<1>10. Granted = committed_budget + SumFunction(a)
  BY <1>3 DEF Granted
<1> QED
  BY <1>1, <1>8, <1>9, <1>10

\* And in the next state.
LEMMA GrantedSumThen ==
    (Typed => /\ committed_budget = SumFunctionOnSet(Sizes, Databases)
              /\ Granted = SumFunctionOnSet(Sizes, Databases) + SumFunctionOnSet(Opens, Tasks)
              /\ SumFunctionOnSet(Sizes, Databases) \in Nat /\ SumFunctionOnSet(Opens, Tasks) \in Nat
              /\ (\A d \in Databases : Sizes[d] \in Nat) /\ (\A t \in Tasks : Opens[t] \in Nat))'
BY GrantedSum, PTL

\* What is being opened is reserved: each call that opens a pool holds a
\* reservation of its own.
LEMMA OpensAreReserved ==
    ASSUME Typed, HeldInv
    PROVE  SumFunctionOnSet(Opens, Tasks) <= SumFunction(creating)
<1>1. PICK g, P, c, b : g = Opens /\ P = {t \in Tasks : Pending(t)} /\ c = creating /\ b = [t \in Tasks |-> call[t].db]
  OBVIOUS
<1>2. IsFiniteSet(Tasks) /\ P \in SUBSET Tasks /\ IsFiniteSet(P)
  BY <1>1, PoolAssumption, FS_Subset
<1>3. (\A t \in Tasks : g[t] \in Int) /\ \A t \in Tasks \ P : g[t] = 0
  BY <1>1 DEF Typed, Call, Opens
<1>4. SumFunctionOnSet(g, Tasks) = SumFunctionOnSet(g, P)
  BY <1>2, <1>3, SumPadded
<1>5. \A t \in P : b[t] \in DOMAIN c /\ g[t] = c[b[t]]
  <2> SUFFICES ASSUME NEW t \in P PROVE b[t] \in DOMAIN c /\ g[t] = c[b[t]]
    OBVIOUS
  <2>1. t \in Tasks /\ Pending(t) /\ Opening(t)
    BY <1>1 DEF Pending, Opening
  <2>2. call[t].db \in DOMAIN creating /\ creating[call[t].db] = call[t].alloc
    BY <2>1, ShareHeld
  <2> QED
    BY <1>1, <2>1, <2>2 DEF Opens
<1>6. \A t, u \in P : b[t] = b[u] => t = u
  BY <1>1 DEF HeldInv, Pending, Opening
<1>7. SumFunctionOnSet(g, P) = SumFunctionOnSet(c, {b[t] : t \in P})
  <2>1. \A t \in P : g[t] \in Int /\ g[t] = c[b[t]]
    BY <1>2, <1>3, <1>5
  <2> QED
    BY <1>2, <1>6, <2>1, SumAlong
<1>8. PICK T : T = {b[t] : t \in P}
  OBVIOUS
<1>9. T \in SUBSET DOMAIN c /\ IsFiniteSet(DOMAIN c) /\ \A d \in DOMAIN c : c[d] \in Nat
  BY <1>1, <1>5, <1>8, PoolAssumption, FS_Subset DEF Typed, CreatingTyped
<1>10. SumFunctionOnSet(c, T) <= SumFunctionOnSet(c, DOMAIN c)
  BY <1>9, SumOfPart
<1> QED
  BY <1>1, <1>4, <1>7, <1>8, <1>10 DEF SumFunction

\* A step after which no database and no call takes more.
LEMMA TakesNoMore ==
    ASSUME Typed, Typed', \A d \in Databases : Sizes'[d] <= Sizes[d], \A t \in Tasks : Opens'[t] <= Opens[t]
    PROVE  Granted' <= Granted
<1>1. PICK f, g, h, k : f = Sizes /\ g = Opens /\ h = Sizes' /\ k = Opens'
  OBVIOUS
<1>2. IsFiniteSet(Databases) /\ IsFiniteSet(Tasks)
  BY PoolAssumption
<1>3. \A d \in Databases : h[d] \in Int /\ f[d] \in Int /\ h[d] <= f[d]
  BY <1>1, GrantedSum, GrantedSumThen
<1>4. \A t \in Tasks : k[t] \in Int /\ g[t] \in Int /\ k[t] <= g[t]
  BY <1>1, GrantedSum, GrantedSumThen
<1>5. SumFunctionOnSet(h, Databases) <= SumFunctionOnSet(f, Databases)
  BY <1>2, <1>3, SumMonotone
<1>6. SumFunctionOnSet(k, Tasks) <= SumFunctionOnSet(g, Tasks)
  BY <1>2, <1>4, SumMonotone
<1>7. /\ Granted = SumFunctionOnSet(f, Databases) + SumFunctionOnSet(g, Tasks)
      /\ SumFunctionOnSet(f, Databases) \in Nat /\ SumFunctionOnSet(g, Tasks) \in Nat
  BY <1>1, GrantedSum
<1>8. /\ Granted' = SumFunctionOnSet(h, Databases) + SumFunctionOnSet(k, Tasks)
      /\ SumFunctionOnSet(h, Databases) \in Nat /\ SumFunctionOnSet(k, Tasks) \in Nat
  BY <1>1, GrantedSumThen
<1> QED
  BY <1>5, <1>6, <1>7, <1>8

BudgetInv == ~stale => Granted <= GlobalMax \/ PinnedAlone

\* At first only the default database is open, however much it takes.
LEMMA BudgetInit == Init => BudgetInv
BY DEF Init, NoCall, BudgetInv, PinnedAlone

\* Reserving: the share fits beside the sum that was read, what is reserved
\* and so what is being opened; and the sum that was read is not too small.
LEMMA ReserveKeepsBudget ==
    ASSUME Typed, Typed', HeldInv, BudgetInv, NEW t \in Tasks, Reserve(t)
    PROVE  BudgetInv'
<1>0. UNCHANGED pools /\ call[t].at = "reserve"
  BY DEF Reserve
<1>1. PICK f, g, h, k : f = Sizes /\ g = Opens /\ h = Sizes' /\ k = Opens'
  OBVIOUS
<1>2. h = f
  BY <1>0, <1>1 DEF Sizes
<1>3. PICK d, left : d = call[t].db /\ left = plan_allocation(call[t].committed, SumFunction(creating))
  OBVIOUS
<1>4. \/ Goto(t, "wait") /\ UNCHANGED <<creating, stale>>
      \/ /\ Fits(left)
         /\ creating' = Put(creating, d, Share(left))
         /\ call' = [call EXCEPT ![t].at = "connect", ![t].alloc = Share(left)]
         /\ stale' = (stale \/ call[t].committed < committed_budget)
      \/ (Goto(t, "none") \/ call' = [call EXCEPT ![t].at = "evict", ![t].now = clock]) /\ UNCHANGED <<creating, stale>>
  BY <1>3 DEF Reserve
<1>5. CASE UNCHANGED <<creating, stale>>
           /\ (Goto(t, "wait") \/ Goto(t, "none") \/ call' = [call EXCEPT ![t].at = "evict", ![t].now = clock])
  <2>1. ~Pending(t)' /\ \A u \in Tasks : u # t => call'[u] = call[u]
    BY <1>5 DEF Goto, Typed, Pending, Call
  <2>2. \A u \in Tasks : k[u] <= g[u]
    <3> SUFFICES ASSUME NEW u \in Tasks PROVE k[u] <= g[u]
      OBVIOUS
    <3>1. CASE u = t
      BY <1>1, <2>1, <3>1, GrantedSum DEF Opens
    <3>2. CASE u # t
      BY <1>1, <2>1, <3>2, GrantedSum DEF Opens, Pending
    <3> QED
      BY <3>1, <3>2
  <2>3. \A c \in Databases : h[c] <= f[c]
    BY <1>1, <1>2, GrantedSum
  <2>4. Granted' <= Granted
    BY <1>1, <2>2, <2>3, TakesNoMore
  <2>5. PinnedAlone => PinnedAlone'
    BY <1>0, <2>1 DEF PinnedAlone, Pending
  <2>6. PICK m, n : m = Granted /\ n = Granted'
    OBVIOUS
  <2>7. m \in Int /\ n \in Int /\ n <= m /\ GlobalMax \in Int
    BY <2>4, <2>6, GrantedSum, GrantedSumThen, PoolAssumption
  <2> QED
    BY <1>5, <2>5, <2>6, <2>7 DEF BudgetInv
<1>6. CASE /\ Fits(left)
           /\ creating' = Put(creating, d, Share(left))
           /\ call' = [call EXCEPT ![t].at = "connect", ![t].alloc = Share(left)]
           /\ stale' = (stale \/ call[t].committed < committed_budget)
  <2> SUFFICES ASSUME ~stale' PROVE Granted' <= GlobalMax
    BY DEF BudgetInv
  <2>1. PICK s, r, c : s = Share(left) /\ r = SumFunction(creating) /\ c = call[t].committed
    OBVIOUS
  <2>2. c \in Nat /\ r \in Nat
    BY <2>1, BudgetsAreNumbers DEF Typed, Call
  <2>3. s \in 1..MaxPerPool /\ c + r + s <= GlobalMax
    BY <1>3, <1>6, <2>1, <2>2, Shares
  <2>4. committed_budget <= c
    <3>1. ~(call[t].committed < committed_budget)
      BY <1>6, Zenon
    <3>2. PICK b : b = committed_budget
      OBVIOUS
    <3>3. b \in Nat /\ ~(c < b)
      BY <2>1, <3>1, <3>2, BudgetsAreNumbers
    <3> QED
      BY <2>2, <3>2, <3>3
  <2>5. /\ call'[t].at = "connect" /\ call'[t].alloc = s
        /\ \A u \in Tasks : u # t => call'[u] = call[u]
    BY <1>6, <2>1 DEF Typed, Call
  <2>6. k[t] = s /\ g[t] = 0 /\ \A u \in Tasks \ {t} : g[u] = k[u]
    BY <1>0, <1>1, <2>5 DEF Opens, Pending
  <2>7. IsFiniteSet(Tasks) /\ \A u \in Tasks : g[u] \in Int /\ k[u] \in Int
    BY <1>1, GrantedSum, GrantedSumThen, PoolAssumption
  <2>8. SumFunctionOnSet(k, Tasks) = SumFunctionOnSet(g, Tasks) + (k[t] - g[t])
    BY <2>6, <2>7, SumOneChange
  <2>9. SumFunctionOnSet(g, Tasks) <= r
    BY <1>1, <2>1, OpensAreReserved
  <2>10. Granted' = SumFunctionOnSet(f, Databases) + SumFunctionOnSet(k, Tasks)
    BY <1>1, <1>2, GrantedSumThen
  <2>11. committed_budget = SumFunctionOnSet(f, Databases)
         /\ SumFunctionOnSet(f, Databases) \in Nat /\ SumFunctionOnSet(g, Tasks) \in Nat
    BY <1>1, GrantedSum
  <2>12. s \in Nat /\ GlobalMax \in Nat /\ MaxPerPool \in Nat
    BY <2>3, PoolAssumption
  <2> QED
    BY <2>2, <2>3, <2>4, <2>6, <2>8, <2>9, <2>10, <2>11, <2>12
<1> QED
  BY <1>4, <1>5, <1>6

\* One call takes more or less, and so do all together.
LEMMA TasksChange ==
    ASSUME NEW g, NEW k, NEW t \in Tasks, \A u \in Tasks : g[u] \in Int /\ k[u] \in Int,
           \A u \in Tasks \ {t} : g[u] = k[u]
    PROVE  SumFunctionOnSet(k, Tasks) = SumFunctionOnSet(g, Tasks) + (k[t] - g[t])
<1>1. IsFiniteSet(Tasks)
  BY PoolAssumption
<1> QED
  BY <1>1, SumOneChange

\* Inserting: what was being opened is now open.
LEMMA InsertKeepsBudget ==
    ASSUME Typed, Typed', HeldInv, BudgetInv, NEW t \in Tasks, Insert(t), call[t].db \notin DOMAIN pools
    PROVE  BudgetInv'
<1>0. call[t].at = "insert" /\ Goto(t, "release") /\ UNCHANGED stale /\ call[t].db \in Databases
  BY DEF Insert, Typed, Call
<1>1. PICK f, g, h, k, d, s : f = Sizes /\ g = Opens /\ h = Sizes' /\ k = Opens' /\ d = call[t].db /\ s = call[t].alloc
  OBVIOUS
<1>2. pools' = Put(pools, d, [max |-> s, last |-> clock, pinned |-> FALSE, by |-> t, users |-> {t}])
  BY <1>1 DEF Insert
<1>3. DOMAIN pools' = DOMAIN pools \cup {d} /\ pools'[d].max = s /\ \A c \in DOMAIN pools : c # d => pools'[c] = pools[c]
  BY <1>2 DEF Put
<1>4. f[d] = 0 /\ h[d] = s /\ \A c \in Databases \ {d} : f[c] = h[c]
  BY <1>0, <1>1, <1>3 DEF Sizes
<1>5. call'[t].at = "release" /\ \A u \in Tasks : u # t => call'[u] = call[u]
  BY <1>0 DEF Goto, Typed, Call
<1>6. g[t] = s /\ k[t] = 0 /\ \A u \in Tasks \ {t} : g[u] = k[u]
  BY <1>0, <1>1, <1>5 DEF Opens, Pending
<1>7. IsFiniteSet(Tasks) /\ t \in Tasks /\ \A u \in Tasks : g[u] \in Int /\ k[u] \in Int
  BY <1>1, GrantedSum, GrantedSumThen, PoolAssumption
<1>8. SumFunctionOnSet(k, Tasks) = SumFunctionOnSet(g, Tasks) + (k[t] - g[t])
  <2>1. \A u \in Tasks \ {t} : g[u] = k[u]
    BY <1>6
  <2> QED
    BY <1>7, <2>1, TasksChange
<1>9. SumFunctionOnSet(h, Databases) = SumFunctionOnSet(f, Databases) + (h[d] - f[d])
  <2>1. IsFiniteSet(Databases) /\ d \in Databases /\ \A c \in Databases : f[c] \in Int /\ h[c] \in Int
    BY <1>0, <1>1, GrantedSum, GrantedSumThen, PoolAssumption
  <2>2. \A c \in Databases \ {d} : f[c] = h[c]
    BY <1>4
  <2> QED
    BY <2>1, <2>2, SumOneChange
<1>10. Granted = SumFunctionOnSet(f, Databases) + SumFunctionOnSet(g, Tasks)
       /\ SumFunctionOnSet(f, Databases) \in Nat /\ SumFunctionOnSet(g, Tasks) \in Nat
  BY <1>1, GrantedSum
<1>11. Granted' = SumFunctionOnSet(h, Databases) + SumFunctionOnSet(k, Tasks)
  BY <1>1, GrantedSumThen
<1>12. s \in Nat
  BY <1>1 DEF Typed, Call
<1>13. Granted' = Granted
  BY <1>4, <1>6, <1>8, <1>9, <1>10, <1>11, <1>12
<1>14. ~PinnedAlone
  BY <1>0 DEF PinnedAlone
<1> QED
  BY <1>0, <1>13, <1>14 DEF BudgetInv

\* A step by which pools keep their size or go, and calls keep their share or
\* give it up.
LEMMA GivesUp ==
    ASSUME Typed, Typed', BudgetInv, UNCHANGED stale,
           DOMAIN pools' \subseteq DOMAIN pools,
           \A d \in DOMAIN pools' : pools'[d].max = pools[d].max /\ pools'[d].pinned = pools[d].pinned,
           \A u \in Tasks : Pending(u)' => Pending(u) /\ call'[u].alloc = call[u].alloc
    PROVE  BudgetInv'
<1>1. PICK f, g, h, k : f = Sizes /\ g = Opens /\ h = Sizes' /\ k = Opens'
  OBVIOUS
<1>2. \A u \in Tasks : g[u] \in Nat /\ k[u] \in Nat
  BY <1>1, GrantedSum, GrantedSumThen
<1>3. \A d \in Databases : f[d] \in Nat /\ h[d] \in Nat
  BY <1>1, GrantedSum, GrantedSumThen
<1>4. \A u \in Tasks : k[u] <= g[u]
  <2> SUFFICES ASSUME NEW u \in Tasks PROVE k[u] <= g[u]
    OBVIOUS
  <2>1. CASE Pending(u)'
    BY <1>1, <1>2, <2>1 DEF Opens
  <2>2. CASE ~Pending(u)'
    BY <1>1, <1>2, <2>2 DEF Opens
  <2> QED
    BY <2>1, <2>2
<1>5. \A d \in Databases : h[d] <= f[d]
  BY <1>1, <1>3 DEF Sizes
<1>6. Granted' <= Granted
  BY <1>1, <1>4, <1>5, TakesNoMore
<1>7. PinnedAlone => PinnedAlone'
  BY DEF PinnedAlone, Pending
<1>8. PICK m, n : m = Granted /\ n = Granted'
  OBVIOUS
<1>9. m \in Int /\ n \in Int /\ n <= m /\ GlobalMax \in Int
  BY <1>6, <1>8, GrantedSum, GrantedSumThen, PoolAssumption
<1> QED
  BY <1>7, <1>8, <1>9 DEF BudgetInv

\* Every step keeps the budget.
LEMMA BudgetStep == IInv /\ PInv /\ Typed /\ BudgetInv /\ [Next]_vars => BudgetInv'
<1> SUFFICES ASSUME IInv, PInv, Typed, BudgetInv, [Next]_vars PROVE BudgetInv'
  OBVIOUS
<1>0. Typed' /\ HeldInv
  BY TypedStep DEF IInv
<1>1. ASSUME NEW t \in Tasks, Reserve(t) PROVE BudgetInv'
  BY <1>0, <1>1, ReserveKeepsBudget
<1>2. ASSUME NEW t \in Tasks, Insert(t), call[t].db \notin DOMAIN pools PROVE BudgetInv'
  BY <1>0, <1>2, InsertKeepsBudget
<1>3. \A d \in DOMAIN pools \cap DOMAIN pools' :
        pools'[d].max = pools[d].max /\ pools'[d].pinned = pools[d].pinned
  BY EveryPoolsChange, PoolsStep
<1>4. ASSUME DOMAIN pools' \subseteq DOMAIN pools, UNCHANGED stale,
             \A u \in Tasks : Pending(u)' => Pending(u) /\ call'[u].alloc = call[u].alloc
      PROVE  BudgetInv'
  <2>1. \A d \in DOMAIN pools' : pools'[d].max = pools[d].max /\ pools'[d].pinned = pools[d].pinned
    BY <1>3, <1>4
  <2> QED
    BY <1>0, <1>4, <2>1, GivesUp
<1>5. ASSUME NEW t \in Tasks, NEW stage, call[t].at # stage,
             Goto(t, stage), stage = "insert" => call[t].at = "connect", stage # "connect"
      PROVE  \A u \in Tasks : Pending(u)' => Pending(u) /\ call'[u].alloc = call[u].alloc
  BY <1>5 DEF Goto, Typed, Pending
<1>6. ASSUME NEW t \in Tasks, call'[t].at \notin {"connect", "insert"}, \A u \in Tasks : u # t => call'[u] = call[u]
      PROVE  \A u \in Tasks : Pending(u)' => Pending(u) /\ call'[u].alloc = call[u].alloc
  BY <1>6 DEF Pending
<1>7. ASSUME NEW t \in Tasks, NEW d \in Databases, Ask(t, d) PROVE BudgetInv'
  <2>1. UNCHANGED <<pools, stale>> /\ call'[t].at = "look" /\ \A u \in Tasks : u # t => call'[u] = call[u]
    BY <1>7 DEF Ask, NoCall, Typed
  <2> QED
    BY <1>4, <1>6, <2>1
<1>8. ASSUME NEW t \in Tasks, FastPath(t) PROVE BudgetInv'
  <2>1. DOMAIN pools' = DOMAIN pools /\ UNCHANGED stale
    BY <1>8 DEF FastPath, HandOut
  <2>2. call'[t].at \in {"using", "read"} /\ \A u \in Tasks : u # t => call'[u] = call[u]
    BY <1>8 DEF FastPath, Goto, Typed, Call
  <2> QED
    BY <1>4, <1>6, <2>1, <2>2
<1>9. ASSUME NEW t \in Tasks, ReadBudget(t) PROVE BudgetInv'
  <2>1. PICK c : c = committed_budget
    OBVIOUS
  <2>2. call' = [call EXCEPT ![t].at = "reserve", ![t].committed = c] /\ UNCHANGED <<pools, stale>>
    BY <1>9, <2>1 DEF ReadBudget
  <2>3. call'[t].at = "reserve" /\ \A u \in Tasks : u # t => call'[u] = call[u]
    BY <2>2 DEF Typed, Call
  <2> QED
    BY <1>4, <1>6, <2>2, <2>3
<1>10. ASSUME NEW t \in Tasks, WaitOver(t) \/ Connect(t) \/ Release(t) \/ ConnectFails(t) \/ Cancel(t) PROVE BudgetInv'
  <2>1. UNCHANGED <<pools, stale>>
    BY <1>10 DEF WaitOver, Connect, Release, ConnectFails, Cancel
  <2>2. \A u \in Tasks : Pending(u)' => Pending(u) /\ call'[u].alloc = call[u].alloc
    BY <1>5, <1>10 DEF WaitOver, Connect, Release, ConnectFails, Cancel
  <2> QED
    BY <1>4, <2>1, <2>2
<1>11. ASSUME NEW t \in Tasks, evict_lru_for_budget(t) PROVE BudgetInv'
  <2>1. UNCHANGED stale /\ DOMAIN pools' \subseteq DOMAIN pools
    BY <1>11 DEF evict_lru_for_budget, CloseUnder, Drop, Restrict
  <2>2. call'[t].at \in {"none", "closing"} /\ \A u \in Tasks : u # t => call'[u] = call[u]
    <3>1. CASE Goto(t, "none")
      BY <3>1 DEF Goto, Typed, Call
    <3>2. CASE call' = [call EXCEPT ![t].at = "closing", ![t].evicted = TRUE]
      BY <3>2 DEF Typed, Call
    <3> QED
      BY <1>11, <3>1, <3>2 DEF evict_lru_for_budget
  <2> QED
    BY <1>4, <1>6, <2>1, <2>2
<1>12. ASSUME NEW t \in Tasks, Insert(t), call[t].db \in DOMAIN pools PROVE BudgetInv'
  <2>1. DOMAIN pools' = DOMAIN pools /\ UNCHANGED stale /\ Goto(t, "release") /\ call[t].at = "insert"
    BY <1>12 DEF Insert, HandOut
  <2> QED
    BY <1>4, <1>5, <2>1
<1>13. ASSUME NEW t \in Tasks, Done(t) PROVE BudgetInv'
  <2>1. DOMAIN pools' = DOMAIN pools /\ UNCHANGED stale /\ Goto(t, "none") /\ call[t].at = "using"
    BY <1>13 DEF Done
  <2> QED
    BY <1>4, <1>5, <2>1
<1>14. ASSUME CloseDone PROVE BudgetInv'
  <2>1. UNCHANGED <<pools, stale>> /\ call' = [t \in Tasks |-> IF closing.by = t THEN [call[t] EXCEPT !.at = "read"] ELSE call[t]]
    BY <1>14 DEF CloseDone
  <2>2. \A u \in Tasks : Pending(u)' => Pending(u) /\ call'[u].alloc = call[u].alloc
    BY <2>1 DEF Pending, Typed, Call
  <2> QED
    BY <1>4, <2>1, <2>2
<1>15. ASSUME UNCHANGED <<call, stale>>, DOMAIN pools' \subseteq DOMAIN pools PROVE BudgetInv'
  BY <1>4, <1>15 DEF Pending
<1>16. ASSUME (\E d \in Databases : remove_pool(d)) \/ EvictIdle \/ FindIdle \/ Tick \/ UNCHANGED vars PROVE BudgetInv'
  <2>1. UNCHANGED <<call, stale>>
    BY <1>16 DEF remove_pool, EvictIdle, FindIdle, Tick, vars
  <2>2. DOMAIN pools' \subseteq DOMAIN pools
    BY <1>16 DEF remove_pool, EvictIdle, FindIdle, Tick, vars, CloseUnder, Drop, Restrict
  <2> QED
    BY <1>15, <2>1, <2>2
<1> QED
  BY <1>1, <1>2, <1>7, <1>8, <1>9, <1>10, <1>11, <1>12, <1>13, <1>14, <1>16 DEF Next, Proceed

\* OnlyStaleSumOvercommits: whatever is cancelled, fails, races, is evicted or
\* removed, and whatever the registered pool takes, the pools that are open and
\* those being opened stay within GlobalMax, or only the registered one is
\* open, unless a share was computed from a sum that had grown since.
THEOREM BudgetIsKept == Spec => []OnlyStaleSumOvercommits
<1>1. BudgetInv => OnlyStaleSumOvercommits
  BY DEF BudgetInv, OnlyStaleSumOvercommits, HardBudget
<1>2. IInv /\ Typed /\ [Next]_vars => Typed'
  BY TypedStep DEF IInv
<1>3. Spec => [](IInv /\ PInv)
  BY PoolInvariance
<1> QED
  BY <1>1, <1>2, <1>3, TypedInit, BudgetInit, BudgetStep, PTL DEF Spec

=============================================================================
