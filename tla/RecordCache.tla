----------------------------- MODULE RecordCache -----------------------------
(***************************************************************************)
(* The read-through record cache of vortex-orm over one record of a        *)
(* multi-tenant model: every app server keeps copies keyed by the company  *)
(* of the reader's context, save and delete drop the copy of the record's  *)
(* own company here and notify the others. The read, the write, the drop   *)
(* and the notification are statements of their own.                       *)
(*                                                                         *)
(* A version stands for the contents of the row. doubted only observes:    *)
(* the copies that no drop is going to reach, because a find put them back *)
(* after it, because the write named another company, or because the drop  *)
(* or its notification was lost.                                           *)
(***************************************************************************)
EXTENDS Integers, FiniteSets, Sequences, SequencesExt

CONSTANTS Apps,          \* app servers, each with its own cache
          Callers,       \* find, save and delete calls that can be under way
          NumCompanies,
          SoftDelete,    \* the model marks deleted rows instead of removing them
          MaxEntries,    \* CacheConfig.max_entries
          MaxCalls,      \* bound: calls begun
          MaxWrites,     \* bound: versions of the row
          MaxGaps        \* bound: calls cut short, listeners disconnected

ASSUME CacheAssumption ==
    /\ NumCompanies \in Nat \ {0} /\ SoftDelete \in BOOLEAN
    /\ MaxEntries \in Nat \ {0} /\ MaxWrites \in Nat \ {0}
    /\ {MaxCalls, MaxGaps} \subseteq Nat

VARIABLES
    row,        \* the row as committed
    writes,     \* versions so far
    copies,     \* RecordCache.entries of each app: the version it holds, 0 for none
    inbox,      \* notifications on their way to each app
    listening,  \* the apps whose listener is connected
    callers,    \* the position of each call
    doubted,
    begun, gaps \* how much of the bounds has been used

cacheVars == <<row, writes, copies, inbox, listening, callers, doubted, begun, gaps>>

\* A context without a company reads, and caches, under scope 0.
Companies == 1..NumCompanies
Scopes == 0..NumCompanies
CacheKeys == Apps \X Scopes
RowVersions == 0..MaxWrites
Absent == [version |-> 0, company |-> 1, live |-> FALSE]
Rows == [version : RowVersions, company : Companies, live : BOOLEAN]
Calls == [at : {"idle", "select", "put", "insert", "update", "delete", "hook", "drop", "notify"},
          app : Apps \cup {"nowhere"}, scope : Scopes, got : RowVersions]
NoCall == [at |-> "idle", app |-> "nowhere", scope |-> 0, got |-> 0]

CacheTypeOK ==
    /\ row \in Rows /\ writes \in RowVersions
    /\ copies \in [CacheKeys -> RowVersions] /\ inbox \in [Apps -> Seq(Scopes)]
    /\ listening \subseteq Apps /\ callers \in [Callers -> Calls]
    /\ doubted \subseteq CacheKeys /\ begun \in 0..MaxCalls /\ gaps \in 0..MaxGaps

CacheInit ==
    /\ row = [version |-> 1, company |-> 1, live |-> TRUE] /\ writes = row.version
    /\ copies = [k \in CacheKeys |-> 0] /\ inbox = [a \in Apps |-> <<>>] /\ listening = Apps
    /\ callers = [c \in Callers |-> NoCall] /\ doubted = {} /\ begun = 0 /\ gaps = 0

-----------------------------------------------------------------------------

\* The version a SELECT in a scope returns: the tenant and soft-delete filters.
Visible(s) == IF row.live /\ s \in {0, row.company} THEN row.version ELSE 0

Calling(c, at) == callers[c].at = at
MoveOn(c, at) ==
    /\ callers' = [callers EXCEPT ![c] = IF at = "idle" THEN NoCall ELSE [@ EXCEPT !.at = at]]
    /\ UNCHANGED begun
Call_(c, at, a, s) ==
    /\ begun < MaxCalls /\ begun' = begun + 1
    /\ callers' = [callers EXCEPT ![c] = [at |-> at, app |-> a, scope |-> s, got |-> 0]]
KeyOf(c) == <<callers[c].app, callers[c].scope>>
table == <<row, writes>>
calls == <<callers, begun>>
wires == <<inbox, listening, gaps>>

Invalidate(k) == copies' = [copies EXCEPT ![k] = 0] /\ doubted' = doubted \ {k}
Doubt(keys) == doubted' = doubted \cup {k \in keys : copies[k] # 0}
Gap == gaps < MaxGaps /\ gaps' = gaps + 1

-----------------------------------------------------------------------------
(* find *)

\* A copy in the cache is served as it is: only a miss goes on.
find(c) ==
    /\ Calling(c, "idle")
    /\ \E a \in Apps, s \in Scopes : copies[<<a, s>>] = 0 /\ Call_(c, "select", a, s)
    /\ UNCHANGED <<table, copies, wires, doubted>>

SelectRow(c) ==
    /\ Calling(c, "select")
    /\ LET v == Visible(callers[c].scope)
       IN IF v = 0 THEN MoveOn(c, "idle")
          ELSE callers' = [callers EXCEPT ![c].at = "put", ![c].got = v] /\ UNCHANGED begun
    /\ UNCHANGED <<table, copies, wires, doubted>>

\* Whatever happened since the SELECT, the row it returned goes into the cache;
\* at the limit an entry goes first, even for a key that has one.
put(c) ==
    /\ Calling(c, "put") /\ MoveOn(c, "idle")
    /\ LET held == {k \in CacheKeys : k[1] = callers[c].app /\ copies[k] # 0}
       IN \E out \in IF Cardinality(held) < MaxEntries THEN {{}} ELSE {{k} : k \in held} :
             /\ copies' = [k \in CacheKeys |-> IF k = KeyOf(c) THEN callers[c].got
                                          ELSE IF k \in out THEN 0 ELSE copies[k]]
             /\ doubted' = (doubted \ (out \cup {KeyOf(c)}))
                           \cup {k \in {KeyOf(c)} : callers[c].got # Visible(callers[c].scope)}
    /\ UNCHANGED <<table, wires>>

-----------------------------------------------------------------------------
(* save and delete *)

\* record_exists decides between INSERT and UPDATE. The record in memory may
\* name another company than the row.
save(c) ==
    /\ Calling(c, "idle")
    /\ \E a \in Apps, s \in Companies : Call_(c, IF row.version = 0 THEN "insert" ELSE "update", a, s)
    /\ UNCHANGED <<table, copies, wires, doubted>>

\* A committed write; the copies under other scopes than the one it names stay.
Written(c, new) ==
    /\ row' = new
    /\ Doubt({k \in CacheKeys : k[2] # callers[c].scope})
    /\ UNCHANGED <<copies, wires>>

NewVersion == writes < MaxWrites /\ writes' = writes + 1

\* Somebody inserted it in between: the primary key refuses the second one.
InsertRow(c) ==
    /\ Calling(c, "insert")
    /\ \/ /\ row.version = 0 /\ NewVersion /\ MoveOn(c, "hook")
          /\ Written(c, [version |-> writes', company |-> callers[c].scope, live |-> TRUE])
       \/ row.version # 0 /\ MoveOn(c, "idle") /\ UNCHANGED <<table, copies, wires, doubted>>

\* Somebody removed it in between: no row is affected, RecordNotFound.
UpdateRow(c) ==
    /\ Calling(c, "update")
    /\ \/ /\ row.version # 0 /\ NewVersion /\ MoveOn(c, "hook")
          /\ Written(c, [row EXCEPT !.version = writes', !.company = callers[c].scope])
       \/ row.version = 0 /\ MoveOn(c, "idle") /\ UNCHANGED <<table, copies, wires, doubted>>

\* delete is called on a record as it was loaded.
delete(c) ==
    /\ Calling(c, "idle") /\ row.version # 0
    /\ \E a \in Apps : Call_(c, "delete", a, row.company)
    /\ UNCHANGED <<table, copies, wires, doubted>>

DeleteRow(c) ==
    /\ Calling(c, "delete")
    /\ \/ /\ row.version # 0 /\ MoveOn(c, "drop") /\ UNCHANGED writes
          /\ Written(c, IF SoftDelete THEN [row EXCEPT !.live = FALSE] ELSE Absent)
       \/ row.version = 0 /\ MoveOn(c, "idle") /\ UNCHANGED <<table, copies, wires, doubted>>

\* after_insert, after_update: their error returns before the cache is told.
AfterWrite(c) ==
    /\ Calling(c, "hook") /\ MoveOn(c, "drop")
    /\ UNCHANGED <<table, copies, wires, doubted>>

invalidate_record(c) ==
    /\ Calling(c, "drop") /\ MoveOn(c, "notify") /\ Invalidate(KeyOf(c))
    /\ UNCHANGED <<table, wires>>

\* A slip: the invalidation is not broadcast.
Notify_None(c) ==
    /\ Calling(c, "notify") /\ MoveOn(c, "idle")
    /\ UNCHANGED <<table, copies, wires, doubted>>

\* pg_notify reaches the listeners that are connected, the own one too.
Notify(c) ==
    /\ Calling(c, "notify") /\ MoveOn(c, "idle")
    /\ inbox' = [a \in Apps |-> IF a \in listening THEN Append(inbox[a], callers[c].scope) ELSE inbox[a]]
    /\ Doubt((Apps \ (listening \cup {callers[c].app})) \X {callers[c].scope})
    /\ UNCHANGED <<table, copies, listening, gaps>>

\* The hook or the notification fails, or the request is dropped, after the write.
CutShort(c) ==
    /\ callers[c].at \in {"hook", "drop", "notify"} /\ Gap /\ MoveOn(c, "idle")
    /\ Doubt((IF Calling(c, "notify") THEN Apps \ {callers[c].app} ELSE Apps) \X {callers[c].scope})
    /\ UNCHANGED <<table, copies, inbox, listening>>

-----------------------------------------------------------------------------
(* The listener, and the ways a copy goes *)

Listen(a) ==
    /\ inbox[a] # <<>>
    /\ inbox' = [inbox EXCEPT ![a] = Tail(@)]
    /\ Invalidate(<<a, Head(inbox[a])>>)
    /\ UNCHANGED <<table, listening, calls, gaps>>

\* What arrives while the listener is away, and what it had not read, is lost.
Disconnect(a) ==
    /\ a \in listening /\ Gap /\ listening' = listening \ {a}
    /\ inbox' = [inbox EXCEPT ![a] = <<>>]
    /\ Doubt({a} \X Range(inbox[a]))
    /\ UNCHANGED <<table, copies, calls>>

Reconnect(a) ==
    /\ a \notin listening /\ listening' = listening \cup {a}
    /\ UNCHANGED <<table, copies, inbox, calls, doubted, gaps>>

\* Expired when read, or evicted for another record.
Forget(k) ==
    /\ copies[k] # 0 /\ Invalidate(k)
    /\ UNCHANGED <<table, wires, calls>>

CacheNext ==
    \/ \E c \in Callers :
          \/ find(c) \/ SelectRow(c) \/ put(c)
          \/ save(c) \/ InsertRow(c) \/ UpdateRow(c) \/ delete(c) \/ DeleteRow(c)
          \/ AfterWrite(c) \/ invalidate_record(c) \/ Notify(c) \/ CutShort(c)
    \/ \E a \in Apps : Listen(a) \/ Disconnect(a) \/ Reconnect(a)
    \/ \E k \in CacheKeys : Forget(k)

CacheSpec == CacheInit /\ [][CacheNext]_cacheVars

-----------------------------------------------------------------------------

\* A drop of this copy is on its way: the writer has not made it, or its
\* notification has not been read.
Coming(a, s) ==
    \/ s \in Range(inbox[a])
    \/ \E c \in Callers :
          /\ callers[c].scope = s
          /\ \/ callers[c].at \in {"hook", "drop"}
             \/ Calling(c, "notify") /\ callers[c].app # a

\* A copy that is not what a read of the row would return is dropped within the
\* call that changed the row or by the notification it sent, unless a find that
\* overlapped the write put it back, the write named another company than the
\* reader's (a reader without one included), or the drop was lost. Everywhere
\* else save and delete leave no stale copy behind, on any server.
StaleCopiesAreDropped ==
    \A a \in Apps, s \in Scopes :
        copies[<<a, s>>] \notin {0, Visible(s)} => <<a, s>> \in doubted \/ Coming(a, s)

=============================================================================
