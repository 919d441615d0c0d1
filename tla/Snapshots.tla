------------------------------ MODULE Snapshots ------------------------------
(***************************************************************************)
(* Period snapshots of vortex-framework: versioned sets of frozen records. *)
(* freeze looks at the set once and then inserts batch by batch, each in a *)
(* transaction of its own; seal closes the set in between for all it       *)
(* knows. live is the data that is frozen, which goes on changing.         *)
(*                                                                         *)
(* sealedAs and overtaken only observe: what a set held when it was        *)
(* sealed, and sets that were sealed while a freeze was under way.         *)
(***************************************************************************)
EXTENDS Integers, FiniteSets

CONSTANTS Freezers,      \* calls of freeze that can be under way at once
          Keys,          \* the entities, in batches of one
          MaxSets,       \* bound: sets of the label
          MaxLive,       \* bound: the values the data takes
          MaxFreezes     \* bound: calls of freeze

ASSUME SnapshotAssumption ==
    /\ IsFiniteSet(Keys) /\ MaxSets \in Nat \ {0} /\ MaxLive \in Nat /\ MaxFreezes \in Nat

VARIABLES
    live,
    sets,        \* snapshot_set: status and the records by key, by version
    freezer,     \* the set and the records each call still has to insert
    sealedAs, overtaken,
    freezes      \* how much of the bound has been used

snapshotVars == <<live, sets, freezer, sealedAs, overtaken, freezes>>

Versions == 1..MaxSets
Frozen == UNION {[K -> 0..MaxLive] : K \in SUBSET Keys}
Unborn == [status |-> "none", records |-> [k \in {} |-> 0]]
Inactive == [on |-> 0, todo |-> [k \in {} |-> 0]]

SnapshotTypeOK ==
    /\ live \in 0..MaxLive
    /\ sets \in [Versions -> [status : {"none", "open", "sealed"}, records : Frozen]]
    /\ freezer \in [Freezers -> [on : {0} \cup Versions, todo : Frozen]]
    /\ sealedAs \in [Versions -> Frozen] /\ overtaken \subseteq Versions
    /\ freezes \in Nat

SnapshotInit ==
    /\ live = 0
    /\ sets = [v \in Versions |-> Unborn]
    /\ freezer = [f \in Freezers |-> Inactive]
    /\ sealedAs = [v \in Versions |-> Unborn.records] /\ overtaken = {} /\ freezes = 0

-----------------------------------------------------------------------------

Without(r, k) == [x \in DOMAIN r \ {k} |-> r[x]]

DataChanges ==
    /\ live < MaxLive
    /\ live' = live + 1
    /\ UNCHANGED <<sets, freezer, sealedAs, overtaken, freezes>>

\* MAX(version) + 1, with UNIQUE behind it.
create_set(v) ==
    /\ sets[v].status = "none" /\ \A x \in 1..(v - 1) : sets[x].status # "none"
    /\ sets' = [sets EXCEPT ![v].status = "open"]
    /\ UNCHANGED <<live, freezer, sealedAs, overtaken, freezes>>

\* freeze: the look at the set, with the records it was called with.
freeze(f, v, K) ==
    /\ freezer[f].on = 0
    /\ freezes < MaxFreezes
    /\ sets[v].status = "open" /\ K # {}
    /\ freezer' = [freezer EXCEPT ![f] = [on |-> v, todo |-> [k \in K |-> live]]]
    /\ freezes' = freezes + 1
    /\ UNCHANGED <<live, sets, sealedAs, overtaken>>

\* A slip: ON CONFLICT DO UPDATE.
Inserted_Upsert(r, k, value) == [x \in DOMAIN r \cup {k} |-> IF x = k THEN value ELSE r[x]]

\* ON CONFLICT DO NOTHING.
Inserted(r, k, value) == [x \in DOMAIN r \cup {k} |-> IF x \in DOMAIN r THEN r[x] ELSE value]

InsertBatch(f, k) ==
    LET v == freezer[f].on
    IN /\ v # 0
       /\ k \in DOMAIN freezer[f].todo
       /\ sets' = [sets EXCEPT ![v].records = Inserted(@, k, freezer[f].todo[k])]
       /\ freezer' = [freezer EXCEPT ![f] = IF DOMAIN freezer[f].todo = {k} THEN Inactive
                                            ELSE [@ EXCEPT !.todo = Without(freezer[f].todo, k)]]
       /\ UNCHANGED <<live, sealedAs, overtaken, freezes>>

\* The process dies, or a batch fails: what is in stays, the caller retries.
StopFreeze(f) ==
    /\ freezer[f].on # 0
    /\ freezer' = [freezer EXCEPT ![f] = Inactive]
    /\ UNCHANGED <<live, sets, sealedAs, overtaken, freezes>>

\* A sealed set stays as it is.
seal(v) ==
    /\ sets[v].status = "open"
    /\ sets' = [sets EXCEPT ![v].status = "sealed"]
    /\ sealedAs' = [sealedAs EXCEPT ![v] = sets[v].records]
    /\ overtaken' = overtaken \cup (IF \E f \in Freezers : freezer[f].on = v THEN {v} ELSE {})
    /\ UNCHANGED <<live, freezer, freezes>>

SnapshotNext ==
    \/ DataChanges
    \/ \E v \in Versions : create_set(v) \/ seal(v)
    \/ \E f \in Freezers :
          \/ \E v \in Versions, K \in SUBSET Keys : freeze(f, v, K)
          \/ \E k \in Keys : InsertBatch(f, k)
          \/ StopFreeze(f)

SnapshotSpec == SnapshotInit /\ [][SnapshotNext]_snapshotVars

-----------------------------------------------------------------------------
(* Properties *)

\* "A sealed freeze is immutable by contract": a calculation that reads a
\* sealed set reads what was in it when it was sealed, whatever is retried
\* with newer data. Only a freeze that was under way at that moment can
\* still add records, and it never changes one that is there.
SealedStaysAsSealed ==
    \A v \in Versions : sets[v].status = "sealed" =>
        LET now == sets[v].records
        IN /\ DOMAIN sealedAs[v] \subseteq DOMAIN now
           /\ \A k \in DOMAIN sealedAs[v] : now[k] = sealedAs[v][k]
           /\ v \notin overtaken => DOMAIN now = DOMAIN sealedAs[v] /\ \A f \in Freezers : freezer[f].on # v

=============================================================================
