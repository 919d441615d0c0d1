------------------------------ MODULE Scheduler ------------------------------
(***************************************************************************)
(* The task scheduler of vortex-framework: servers that poll one table of  *)
(* actions, claim what is due, run it and record the result. A server runs *)
(* one action at a time, for as long as it takes; when it dies meanwhile   *)
(* the run is lost.                                                        *)
(*                                                                         *)
(* claims, lost and rests only observe: when an action was claimed, runs   *)
(* of which no result was recorded, and the time to which the last claim   *)
(* lets an action rest: its interval then, unless an operator has put the  *)
(* next call forward since.                                                *)
(***************************************************************************)
EXTENDS Integers, FiniteSets

CONSTANTS Servers, Actions,
          Intervals,      \* seconds between the calls a release can define
          Handled,        \* actions a server has a handler for
          MaxTime,        \* bound: the time the clock reaches
          MaxUpsets       \* bound: servers that die, results lost, operators' changes

ASSUME SchedulerAssumption ==
    /\ IsFiniteSet(Servers)
    /\ Intervals \subseteq Nat \ {0} /\ Handled \in [Servers -> SUBSET Actions]
    /\ MaxTime \in Nat /\ MaxUpsets \in Nat

VARIABLES
    clock,
    schedule,    \* scheduled_actions: active, next_call, interval_seconds
    tally,       \* run_count, error_count and last_error
    server,      \* what each server does, and with which action since when
    claims, lost, rests,
    upsets       \* how much of the bound has been used

schedulerVars == <<clock, schedule, tally, server, claims, lost, rests, upsets>>

Times == 0..MaxTime
Down == [at |-> "down"]
Polling == [at |-> "poll"]
Running(a) == [at |-> "run", action |-> a, since |-> clock]
Due(a) == schedule[a].active /\ schedule[a].next <= clock
Greatest(m, n) == IF m >= n THEN m ELSE n

SchedulerTypeOK ==
    /\ clock \in Times
    /\ DOMAIN schedule \subseteq Actions
    /\ \A a \in DOMAIN schedule : schedule[a].active \in BOOLEAN /\ schedule[a].next \in Nat /\ schedule[a].every \in Intervals
    /\ \A a \in Actions : tally[a].runs \in Nat /\ tally[a].errors \in 0..tally[a].runs /\ tally[a].failing \in BOOLEAN
    /\ \A s \in Servers : server[s].at \in {"down", "poll", "run", "record"}
    /\ claims \in [Actions -> SUBSET Times] /\ lost \in [Actions -> Nat] /\ rests \in [Actions -> Nat]

SchedulerInit ==
    /\ clock = 0
    /\ schedule = [a \in {} |-> 0]
    /\ tally = [a \in Actions |-> [runs |-> 0, errors |-> 0, failing |-> FALSE]]
    /\ server = [s \in Servers |-> Down]
    /\ claims = [a \in Actions |-> {}] /\ lost = [a \in Actions |-> 0] /\ rests = [a \in Actions |-> 0] /\ upsets = 0

-----------------------------------------------------------------------------

\* A slip: the restart makes every action due again.
Refreshed_DueNow(a, every) == [schedule[a] EXCEPT !.every = every, !.next = clock]

\* The row that is there keeps its runtime state.
Refreshed(a, every) == [schedule[a] EXCEPT !.every = every]

\* sync_definitions, of a release that may define other intervals: what is
\* new is due at once, if it is enabled; what is there takes the interval.
upsert_definition(s) ==
    /\ server[s].at = "down"
    /\ server' = [server EXCEPT ![s] = Polling]
    /\ \E every \in [Handled[s] -> Intervals], enabled \in SUBSET (Handled[s] \ DOMAIN schedule) :
          schedule' = [a \in DOMAIN schedule \cup Handled[s] |->
                          IF a \notin DOMAIN schedule
                          THEN [active |-> a \in enabled, next |-> clock, every |-> every[a]]
                          ELSE IF a \in Handled[s] THEN Refreshed(a, every[a]) ELSE schedule[a]]
    /\ UNCHANGED <<clock, tally, claims, lost, rests, upsets>>

\* A slip: no clamp.
NextCall_CatchUp(a) == schedule[a].next + schedule[a].every

NextCall(a) == Greatest(clock, schedule[a].next) + schedule[a].every

\* One transaction, on the action that is overdue longest.
claim_due(s, a) ==
    /\ server[s].at = "poll"
    /\ Due(a) /\ \A x \in DOMAIN schedule : Due(x) => schedule[a].next <= schedule[x].next
    /\ schedule' = [schedule EXCEPT ![a].next = NextCall(a)]
    /\ server' = [server EXCEPT ![s] = Running(a)]
    /\ claims' = [claims EXCEPT ![a] = @ \cup {clock}]
    /\ rests' = [rests EXCEPT ![a] = clock + schedule[a].every]
    /\ UNCHANGED <<clock, tally, lost, upsets>>

\* The handler returns, fails or panics; without a handler it is an error.
HandlerDone(s) ==
    LET a == server[s].action
    IN /\ server[s].at = "run"
       /\ \E ok \in (IF a \in Handled[s] THEN BOOLEAN ELSE {FALSE}) :
             server' = [server EXCEPT ![s] = [at |-> "record", action |-> a, since |-> @.since, ok |-> ok]]
       /\ UNCHANGED <<clock, schedule, tally, claims, lost, rests, upsets>>

\* A slip: a run that failed is not counted as one.
record_result_SuccessesOnly(s) ==
    LET r == server[s]
    IN /\ r.at = "record"
       /\ tally' = [tally EXCEPT ![r.action] = [runs |-> @.runs + (IF r.ok THEN 1 ELSE 0),
                                                errors |-> @.errors + (IF r.ok THEN 0 ELSE 1),
                                                failing |-> ~r.ok]]
       /\ server' = [server EXCEPT ![s] = Polling]
       /\ UNCHANGED <<clock, schedule, claims, lost, rests, upsets>>

\* Counts the run. Of two runs that overlap the one that ends last tells
\* whether the action is failing.
record_result(s) ==
    LET r == server[s]
    IN /\ r.at = "record"
       /\ tally' = [tally EXCEPT ![r.action] = [runs |-> @.runs + 1, errors |-> @.errors + (IF r.ok THEN 0 ELSE 1),
                                                failing |-> ~r.ok]]
       /\ server' = [server EXCEPT ![s] = Polling]
       /\ UNCHANGED <<clock, schedule, claims, lost, rests, upsets>>

Tick ==
    /\ clock < MaxTime
    /\ clock' = clock + 1
    /\ UNCHANGED <<schedule, tally, server, claims, lost, rests, upsets>>

Upset == upsets < MaxUpsets /\ upsets' = upsets + 1

\* The process dies, or only its UPDATE of the result fails.
LoseRun(s) ==
    /\ server[s].at \in {"run", "record"} /\ Upset
    /\ lost' = [lost EXCEPT ![server[s].action] = @ + 1]
    /\ \/ server' = [server EXCEPT ![s] = Down]
       \/ server[s].at = "record" /\ server' = [server EXCEPT ![s] = Polling]
    /\ UNCHANGED <<clock, schedule, tally, claims, rests>>

\* In SQL.
Operator(a) ==
    /\ Upset
    /\ \/ schedule' = [schedule EXCEPT ![a].active = ~@] /\ UNCHANGED rests
       \/ schedule' = [schedule EXCEPT ![a].next = clock] /\ rests' = [rests EXCEPT ![a] = 0]
    /\ UNCHANGED <<clock, tally, server, claims, lost>>

SchedulerNext ==
    \/ Tick
    \/ \E s \in Servers :
          \/ upsert_definition(s) \/ HandlerDone(s) \/ record_result(s) \/ LoseRun(s)
          \/ \E a \in DOMAIN schedule : claim_due(s, a)
    \/ \E a \in DOMAIN schedule : Operator(a)

SchedulerSpec == SchedulerInit /\ [][SchedulerNext]_schedulerVars

-----------------------------------------------------------------------------
(* Properties *)

BusyWith(a) == {s \in Servers : server[s].at \in {"run", "record"} /\ server[s].action = a}

\* "The caller gets exactly one fire per claim regardless of how far behind
\* the schedule drifted", and no two servers fire the same tick: however
\* many servers poll, restart, or were down too long, the next call of an
\* action is a full interval, as it was then, after its last one (unless an
\* operator put it forward), and every claim is a result that was recorded,
\* one that was lost, or a run still going on.
OneFirePerInterval ==
    \A a \in DOMAIN schedule :
        /\ schedule[a].next >= rests[a]
        /\ upsets = 0 => Cardinality(claims[a]) = tally[a].runs + Cardinality(BusyWith(a))
        /\ Cardinality(claims[a]) <= tally[a].runs + lost[a] + Cardinality(BusyWith(a))

=============================================================================
