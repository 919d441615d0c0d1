---------------------------- MODULE PoolManager ----------------------------
(***************************************************************************)
(* DatabasePoolManager of vortex-orm (pool_manager.rs): one connection     *)
(* pool per tenant database, opened by the first request that asks for it, *)
(* out of one budget of connections.                                       *)
(*                                                                         *)
(* Tasks run get_pool at the same time. Two pieces of state are shared:    *)
(* pools, behind an async lock that get_pool takes and gives back several  *)
(* times, and creating, the reservations, behind a mutex that is never     *)
(* held across an await. An eviction or removal closes the pool while it   *)
(* holds the write lock of pools, and closing waits for every connection   *)
(* that is still borrowed; until then everyone who needs pools waits.      *)
(***************************************************************************)
EXTENDS Integers, FiniteSets, Functions

CONSTANTS Tasks,          \* requests and jobs that ask for a pool
          Databases,
          Primary,        \* the default database, registered at start-up
          Nobody,
          PrimarySizes,   \* max_connections its pool may have: nothing ties it to GlobalMax
          GlobalMax,      \* global_max_connections
          MinPerPool, MaxPerPool,
          Grace,          \* PRESSURE_IDLE_GRACE, in clock ticks
          IdleTimeout,    \* pool_idle_timeout, in clock ticks
          MaxClock,       \* bound: the clock
          MaxCalls,       \* bound: calls of get_pool
          MaxFaults,      \* bound: failed connects and cancelled calls
          MaxRemovals     \* bound: calls of remove_pool

ASSUME PoolAssumption ==
    /\ IsFiniteSet(Tasks) /\ IsFiniteSet(Databases) /\ Primary \in Databases
    /\ Tasks \cap {Nobody, "admin", "evictor"} = {} /\ Nobody # "evictor"
    /\ GlobalMax \in Nat /\ PrimarySizes \subseteq Nat \ {0}
    /\ MinPerPool \in Nat /\ MaxPerPool \in Nat \ {0}
    /\ Grace \in Nat /\ IdleTimeout \in Nat
    /\ MaxClock \in Nat /\ MaxCalls \in Nat /\ MaxFaults \in Nat /\ MaxRemovals \in Nat

VARIABLES
    pools,      \* HashMap<String, PoolEntry>, with the tasks that borrow from each
    creating,   \* HashMap<String, u32>: the reserved budget
    closing,    \* who closes a pool under the write lock, and whom it waits for
    call,       \* the calls of get_pool
    idle,       \* the evictor: names found idle, and when
    clock,
    stale,      \* observation: budget was reserved on an outdated sum
    calls, faults, removals

boundVars == <<calls, faults, removals>>
vars == <<pools, creating, closing, call, idle, clock, stale, calls, faults, removals>>

Entry == [max: Nat \ {0}, last: 0..MaxClock, pinned: BOOLEAN, by: Tasks \cup {Nobody}, users: SUBSET Tasks]

Stages == {"none", "look", "read", "reserve", "wait", "evict", "closing",
           "connect", "insert", "release", "using"}

Call == [at: Stages, db: Databases, committed: Nat, alloc: Nat, evicted: BOOLEAN,
         now: 0..MaxClock]

Free == [by |-> Nobody, waits |-> {}]

NoCall == [at |-> "none", db |-> Primary, committed |-> 0, alloc |-> 0, evicted |-> FALSE, now |-> 0]

TypeOK ==
    /\ DOMAIN pools \subseteq Databases /\ \A d \in DOMAIN pools : pools[d] \in Entry
    /\ DOMAIN creating \subseteq Databases /\ \A d \in DOMAIN creating : creating[d] \in 1..MaxPerPool
    /\ closing \in [by: Tasks \cup {Nobody, "admin", "evictor"}, waits: SUBSET Tasks]
    /\ call \in [Tasks -> Call]
    /\ idle \in [names: SUBSET Databases, at: 0..MaxClock]
    /\ clock \in 0..MaxClock
    /\ stale \in BOOLEAN
    /\ calls \in 0..MaxCalls /\ faults \in 0..MaxFaults /\ removals \in 0..MaxRemovals

\* register_pool has put the default database in at start-up.
Init ==
    /\ \E size \in PrimarySizes :
          pools = [d \in {Primary} |-> [max |-> size, last |-> 0, pinned |-> TRUE, by |-> Nobody, users |-> {}]]
    /\ creating = [d \in {} |-> 0]
    /\ closing = Free
    /\ call = [t \in Tasks |-> NoCall]
    /\ idle = [names |-> {}, at |-> 0]
    /\ clock = 0
    /\ stale = FALSE
    /\ calls = 0 /\ faults = 0 /\ removals = 0

-----------------------------------------------------------------------------

\* The lock of pools can be had.
Unlocked == closing = Free

Put(f, d, v) == [x \in DOMAIN f \cup {d} |-> IF x = d THEN v ELSE f[x]]
Drop(f, S) == Restrict(f, DOMAIN f \ S)

Goto(t, stage) == call' = [call EXCEPT ![t].at = stage]

committed_budget == SumFunction([d \in DOMAIN pools |-> pools[d].max])

\* A slip: what other creations have reserved is not subtracted.
plan_allocation_NoReserved(committed, reserved) ==
    IF committed > GlobalMax THEN 0 ELSE GlobalMax - committed

\* A slip: a plain subtraction wraps around, and plenty seems to be left.
plan_allocation_Wraps(committed, reserved) ==
    IF committed + reserved > GlobalMax THEN MaxPerPool ELSE GlobalMax - (committed + reserved)

\* saturating_sub: what is left of the budget.
plan_allocation(committed, reserved) ==
    IF committed + reserved > GlobalMax THEN 0 ELSE GlobalMax - (committed + reserved)

\* A slip: what is left is handed out, however little it is.
Fits_Unchecked(remaining) == TRUE

Fits(remaining) == remaining >= 1 /\ remaining >= MinPerPool

Share(remaining) == IF remaining < MaxPerPool THEN remaining ELSE MaxPerPool

\* Idle for longer than the limit at the given time.
Aged(d, now, limit) == now - pools[d].last > limit

\* The entry is removed, and its pool closed before the lock is given back:
\* that waits for those of its users who hold a connection just then.
CloseUnder(actor, S) ==
    /\ pools' = Drop(pools, S)
    /\ \E borrowers \in SUBSET UNION {pools[d].users : d \in S} :
          closing' = [by |-> actor, waits |-> borrowers]

\* The caller gets the pool that is in the map, and borrows from it.
HandOut(t, d) == pools' = [pools EXCEPT ![d].last = clock, ![d].users = @ \cup {t}]

-----------------------------------------------------------------------------
(* get_pool *)

Ask(t, d) ==
    /\ call[t].at = "none"
    /\ calls < MaxCalls
    /\ calls' = calls + 1
    /\ call' = [call EXCEPT ![t] = [NoCall EXCEPT !.at = "look", !.db = d]]
    /\ UNCHANGED <<pools, creating, closing, idle, clock, stale, faults, removals>>

FastPath(t) ==
    /\ call[t].at = "look"
    /\ Unlocked
    /\ IF call[t].db \in DOMAIN pools
       THEN HandOut(t, call[t].db) /\ Goto(t, "using")
       ELSE UNCHANGED pools /\ call' = [call EXCEPT ![t].at = "read", ![t].evicted = FALSE]
    /\ UNCHANGED <<creating, closing, idle, clock, stale, boundVars>>

\* The sum is read under the lock of pools, and used after the lock is gone.
ReadBudget(t) ==
    /\ call[t].at = "read"
    /\ Unlocked
    /\ call' = [call EXCEPT ![t].at = "reserve", ![t].committed = committed_budget]
    /\ UNCHANGED <<pools, creating, closing, idle, clock, stale, boundVars>>

\* One critical section of creating: somebody else is opening this pool, or
\* budget is reserved, or there is too little of it.
Reserve(t) ==
    /\ call[t].at = "reserve"
    /\ LET d == call[t].db
           remaining == plan_allocation(call[t].committed, SumFunction(creating))
       IN \/ /\ d \in DOMAIN creating
             /\ Goto(t, "wait")
             /\ UNCHANGED <<creating, stale>>
          \/ /\ d \notin DOMAIN creating /\ Fits(remaining)
             /\ creating' = Put(creating, d, Share(remaining))
             /\ call' = [call EXCEPT ![t].at = "connect", ![t].alloc = Share(remaining)]
             /\ stale' = (stale \/ call[t].committed < committed_budget)
          \/ /\ d \notin DOMAIN creating /\ ~Fits(remaining)
             /\ IF call[t].evicted THEN Goto(t, "none")
                ELSE call' = [call EXCEPT ![t].at = "evict", ![t].now = clock]
             /\ UNCHANGED <<creating, stale>>
    /\ UNCHANGED <<pools, closing, idle, clock, boundVars>>

\* 50 ms later the fast path is tried again.
WaitOver(t) ==
    /\ call[t].at = "wait"
    /\ Goto(t, "look")
    /\ UNCHANGED <<pools, creating, closing, idle, clock, stale, boundVars>>

\* The least recently used pool that has been idle for the grace period, or
\* the call fails: budget exhausted. The time was taken before the lock.
evict_lru_for_budget(t) ==
    /\ call[t].at = "evict"
    /\ Unlocked
    /\ LET candidates == {d \in DOMAIN pools : ~pools[d].pinned /\ Aged(d, call[t].now, Grace)} IN
        \/ /\ candidates = {}
           /\ Goto(t, "none")
           /\ UNCHANGED <<pools, closing>>
        \/ \E d \in candidates :
              /\ \A c \in candidates : pools[d].last <= pools[c].last
              /\ CloseUnder(t, {d})
              /\ call' = [call EXCEPT ![t].at = "closing", ![t].evicted = TRUE]
    /\ UNCHANGED <<creating, idle, clock, stale, boundVars>>

Connect(t) ==
    /\ call[t].at = "connect"
    /\ Goto(t, "insert")
    /\ UNCHANGED <<pools, creating, closing, idle, clock, stale, boundVars>>

\* A slip: a failed connect forgets its reservation.
ConnectFails_Leaks(t) ==
    /\ call[t].at = "connect"
    /\ faults < MaxFaults
    /\ faults' = faults + 1
    /\ Goto(t, "none")
    /\ UNCHANGED <<pools, creating, closing, idle, clock, stale, calls, removals>>

ConnectFails(t) ==
    /\ call[t].at = "connect"
    /\ faults < MaxFaults
    /\ faults' = faults + 1
    /\ creating' = Drop(creating, {call[t].db})
    /\ Goto(t, "none")
    /\ UNCHANGED <<pools, closing, idle, clock, stale, calls, removals>>

\* A slip: the map is not looked at again before the insert.
Insert_Overwrites(t) ==
    /\ call[t].at = "insert"
    /\ Unlocked
    /\ pools' = Put(pools, call[t].db, [max |-> call[t].alloc, last |-> clock, pinned |-> FALSE,
                                        by |-> t, users |-> {t}])
    /\ Goto(t, "release")
    /\ UNCHANGED <<creating, closing, idle, clock, stale, boundVars>>

\* If a pool has appeared meanwhile the new one, of which nobody knows, is
\* closed and the caller gets the other.
Insert(t) ==
    /\ call[t].at = "insert"
    /\ Unlocked
    /\ IF call[t].db \in DOMAIN pools
       THEN HandOut(t, call[t].db)
       ELSE pools' = Put(pools, call[t].db,
                         [max |-> call[t].alloc, last |-> clock, pinned |-> FALSE,
                          by |-> t, users |-> {t}])
    /\ Goto(t, "release")
    /\ UNCHANGED <<creating, closing, idle, clock, stale, boundVars>>

\* The reservation is dropped, and the pool returned.
Release(t) ==
    /\ call[t].at = "release"
    /\ creating' = Drop(creating, {call[t].db})
    /\ Goto(t, "using")
    /\ UNCHANGED <<pools, closing, idle, clock, stale, boundVars>>

\* A slip: the reservation is taken back by code that a dropped future skips.
Cancel_KeepsReservation(t) ==
    /\ call[t].at \in {"look", "read", "wait", "evict", "closing", "connect", "insert"}
    /\ faults < MaxFaults
    /\ faults' = faults + 1
    /\ closing' = IF call[t].at = "closing" THEN Free ELSE closing
    /\ Goto(t, "none")
    /\ UNCHANGED <<pools, creating, idle, clock, stale, calls, removals>>

\* The future is dropped at an await, its reservation and its lock with it.
\* (While it closes a pool it opened in vain, that is Release and Done.)
Cancel(t) ==
    /\ call[t].at \in {"look", "read", "wait", "evict", "closing", "connect", "insert"}
    /\ faults < MaxFaults
    /\ faults' = faults + 1
    /\ creating' = IF call[t].at \in {"connect", "insert"} THEN Drop(creating, {call[t].db})
                   ELSE creating
    /\ closing' = IF call[t].at = "closing" THEN Free ELSE closing
    /\ Goto(t, "none")
    /\ UNCHANGED <<pools, idle, clock, stale, calls, removals>>

\* The caller gives its connection back.
Done(t) ==
    /\ call[t].at = "using"
    /\ Goto(t, "none")
    /\ pools' = [d \in DOMAIN pools |-> [pools[d] EXCEPT !.users = @ \ {t}]]
    /\ closing' = [closing EXCEPT !.waits = @ \ {t}]
    /\ UNCHANGED <<creating, idle, clock, stale, boundVars>>

\* The pool is closed and the write lock given back; a caller that made
\* room for itself reads the budget again.
CloseDone ==
    /\ ~Unlocked
    /\ closing.waits = {}
    /\ closing' = Free
    /\ call' = [t \in Tasks |-> IF closing.by = t THEN [call[t] EXCEPT !.at = "read"] ELSE call[t]]
    /\ UNCHANGED <<pools, creating, idle, clock, stale, boundVars>>

-----------------------------------------------------------------------------
(* The other users of the map *)

\* The database manager duplicates or drops a database.
remove_pool(d) ==
    /\ Unlocked
    /\ d \in DOMAIN pools
    /\ removals < MaxRemovals
    /\ removals' = removals + 1
    /\ CloseUnder("admin", {d})
    /\ UNCHANGED <<creating, call, idle, clock, stale, calls, faults>>

\* evict_idle_pools, every minute: names are collected under the read lock ..
FindIdle ==
    /\ Unlocked
    /\ idle.names = {}
    /\ LET found == {d \in DOMAIN pools \ {Primary} : ~pools[d].pinned /\ Aged(d, clock, IdleTimeout)} IN
        /\ found # {}
        /\ idle' = [names |-> found, at |-> clock]
    /\ UNCHANGED <<pools, creating, closing, call, clock, stale, boundVars>>

\* A slip: the age is not looked at again.
EvictIdle_NoRecheck ==
    /\ Unlocked
    /\ idle.names # {}
    /\ CloseUnder("evictor", idle.names \cap DOMAIN pools)
    /\ idle' = [idle EXCEPT !.names = {}]
    /\ UNCHANGED <<creating, call, clock, stale, boundVars>>

\* .. and removed under the write lock if they are still idle by the time
\* that was taken then.
EvictIdle ==
    /\ Unlocked
    /\ idle.names # {}
    /\ CloseUnder("evictor", {d \in idle.names \cap DOMAIN pools : Aged(d, idle.at, IdleTimeout)})
    /\ idle' = [idle EXCEPT !.names = {}]
    /\ UNCHANGED <<creating, call, clock, stale, boundVars>>

Tick ==
    /\ clock < MaxClock
    /\ clock' = clock + 1
    /\ UNCHANGED <<pools, creating, closing, call, idle, stale, boundVars>>

-----------------------------------------------------------------------------

Proceed(t) ==
    \/ FastPath(t) \/ ReadBudget(t) \/ Reserve(t) \/ WaitOver(t) \/ evict_lru_for_budget(t)
    \/ Connect(t) \/ Insert(t) \/ Release(t) \/ Done(t)

Next ==
    \/ \E t \in Tasks :
          Proceed(t) \/ ConnectFails(t) \/ Cancel(t) \/ (\E d \in Databases : Ask(t, d))
    \/ CloseDone
    \/ \E d \in Databases : remove_pool(d)
    \/ FindIdle \/ EvictIdle \/ Tick

Spec == Init /\ [][Next]_vars

(* Tasks are polled, connects return, callers give their connections back  *)
(* (none of them asks for another pool before), and a close that has       *)
(* nobody left to wait for ends.                                           *)
FairSpec ==
    /\ Spec
    /\ \A t \in Tasks : WF_vars(Proceed(t))
    /\ WF_vars(CloseDone)

-----------------------------------------------------------------------------
(* Properties *)

\* Connections the open pools may use: those in the map and those that are
\* being opened and are not in it yet.
Granted ==
    committed_budget
    + SumFunction([t \in {u \in Tasks : call[u].at \in {"connect", "insert"}} |-> call[t].alloc])

\* "a hard budget across every managed pool: the sum of all pools'
\* max_connections (plus reservations) never exceeds it" (pool_manager.rs).
HardBudget == Granted <= GlobalMax

\* Only registered pools are open, and nobody is opening another.
PinnedAlone ==
    /\ \A d \in DOMAIN pools : pools[d].pinned
    /\ \A t \in Tasks : call[t].at \notin {"connect", "insert"}

\* The budget is kept, whether creations are cancelled, fail, or meet, except
\* that register_pool may have put in more than GlobalMax by itself: then
\* get_pool opens nothing beside it. A reservation computed from a sum that a
\* pool inserted since has outdated is the one thing that breaks this.
OnlyStaleSumOvercommits == ~stale => HardBudget \/ PinnedAlone

\* A cancelled, failed or finished creation leaves no reservation: each one
\* belongs to exactly one call that is opening that pool, with that share.
ReservationsAreHeld ==
    /\ \A d \in DOMAIN creating : \E t \in Tasks :
          /\ call[t].at \in {"connect", "insert", "release"}
          /\ call[t].db = d /\ call[t].alloc = creating[d]
    /\ \A t \in Tasks : call[t].at \in {"connect", "insert", "release"} =>
          call[t].db \in DOMAIN creating
    /\ \A t, u \in Tasks :
          /\ {call[t].at, call[u].at} \subseteq {"connect", "insert", "release"}
          /\ call[t].db = call[u].db
          => t = u

\* A pool leaves the map only to be closed: no other pool takes its place
\* while it is in the map, however many calls open the same database.
NeverReplaced ==
    [][\A d \in DOMAIN pools \cap DOMAIN pools' :
          pools'[d].by = pools[d].by /\ pools'[d].max = pools[d].max]_vars

\* Without pressure for budget and without an administrator, a pool that was
\* used within the idle timeout is never closed, even if the evictor had
\* already found it idle.
FreshPoolsStay ==
    [][\A d \in DOMAIN pools \ DOMAIN pools' :
          \/ closing'.by # "evictor"
          \/ Aged(d, clock, IdleTimeout)]_vars

\* Every call of get_pool comes back, with a pool or an error.
EveryCallReturns ==
    \A t \in Tasks : call[t].at # "none" ~> call[t].at \in {"none", "using"}

=============================================================================
