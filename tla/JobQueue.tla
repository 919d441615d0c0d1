------------------------------ MODULE JobQueue ------------------------------
(***************************************************************************)
(* The durable background-job queue of vortex-framework (jobs.rs), the     *)
(* ir_job table of migration 129 and the two operator actions on it        *)
(* (/settings/jobs/{id}/retry and /cancel).                                *)
(*                                                                         *)
(* Several server processes poll one table. A worker's tick claims a batch *)
(* of due rows in one statement, spawns one task per claimed row, and      *)
(* waits for all of them before its next tick. Each task runs the handler  *)
(* and then writes the outcome to the row with an UPDATE that names only   *)
(* the row's id. Every SQL statement is one atomic step, except the claim: *)
(* its row locks (FOR UPDATE SKIP LOCKED) are visible to the others before *)
(* its update commits, so selecting and committing are two steps.          *)
(***************************************************************************)
EXTENDS Integers, FiniteSets

CONSTANTS Jobs,         \* names for the jobs that are not settled yet
          Workers,      \* one JobWorker per server process
          NoWorker,     \* locked_by IS NULL
          MaxAttempts,  \* max_attempts of each job (NewJob: 5)
          Priority,     \* priority of each job, higher runs first
          Batch,        \* rows claimed per tick, VORTEX_JOB_BATCH (default 10)
          IntMax,       \* largest SQL integer: POWER(2, attempts)::int must fit
          MaxRetries,   \* bound: operator retries in a behaviour
          MaxCrashes,   \* bound: process crashes in a behaviour
          MaxLost       \* bound: statements refused, or whose answer is lost

ASSUME JobsAssumption ==
    /\ MaxAttempts \in [Jobs -> Nat \ {0}]
    /\ Priority \in [Jobs -> Int]

ASSUME WorkersAssumption ==
    /\ NoWorker \notin Workers
    /\ Batch \in Nat \ {0}

ASSUME BoundsAssumption ==
    /\ IntMax \in Nat
    /\ MaxRetries \in Nat
    /\ MaxCrashes \in Nat
    /\ MaxLost \in Nat

VARIABLES
    \* columns of ir_job
    status, attempts, lockedBy,
    due,        \* jobs with run_at <= NOW()
    \* volatile state of the worker processes
    locks,      \* locks[w]: rows w's claim statement holds locked
    runs,       \* executions under way: one record per spawned run_one task
    \* the operator's browser
    offered,    \* jobs for which some rendered page shows a Retry button
    \* observations and bounds
    fails,      \* fails[j]: handler runs of j that failed since its (re)submission
    overlapped, \* jobs an operator requeued while an execution was under way
    retries, crashes, lost

rowVars == <<status, attempts, lockedBy, due>>
vars == <<status, attempts, lockedBy, due, locks, runs, offered, fails,
          overlapped, retries, crashes, lost>>

Statuses == {"absent", "pending", "running", "succeeded", "dead", "cancelled"}
Settled  == {"succeeded", "dead", "cancelled"}

Execution == [worker: Workers, job: Jobs, attempt: Nat, result: {"none", "ok", "err"}]

TypeOK ==
    /\ status \in [Jobs -> Statuses]
    /\ attempts \in [Jobs -> Nat]
    /\ lockedBy \in [Jobs -> Workers \cup {NoWorker}]
    /\ due \in SUBSET Jobs
    /\ locks \in [Workers -> SUBSET Jobs]
    /\ runs \in SUBSET Execution
    /\ offered \in SUBSET Jobs
    /\ fails \in [Jobs -> Nat]
    /\ overlapped \in SUBSET Jobs
    /\ retries \in 0..MaxRetries
    /\ crashes \in 0..MaxCrashes
    /\ lost \in 0..MaxLost

Init ==
    /\ status = [j \in Jobs |-> "absent"]
    /\ attempts = [j \in Jobs |-> 0]
    /\ lockedBy = [j \in Jobs |-> NoWorker]
    /\ due = {}
    /\ locks = [w \in Workers |-> {}]
    /\ runs = {}
    /\ offered = {}
    /\ fails = [j \in Jobs |-> 0]
    /\ overlapped = {}
    /\ retries = 0
    /\ crashes = 0
    /\ lost = 0

-----------------------------------------------------------------------------
(* Helpers *)

LockFree(j) == \A w \in Workers : j \notin locks[w]

Executing(j) == \E e \in runs : e.job = j

\* tick() awaits every task it spawned before it polls again.
Idle(w) == locks[w] = {} /\ \A e \in runs : e.worker # w

\* A slip: the claim selects without FOR UPDATE SKIP LOCKED.
Claimable_NoSkipLocked == {j \in Jobs : status[j] = "pending" /\ j \in due}

Claimable == {j \in Jobs : status[j] = "pending" /\ j \in due /\ LockFree(j)}

\* A slip: LIMIT n without ORDER BY priority, any due rows will do.
TopRows_AnyOrder(S, n) ==
    {T \in SUBSET S : Cardinality(T) = IF Cardinality(S) < n THEN Cardinality(S) ELSE n}

\* ORDER BY priority DESC, run_at LIMIT n: no row left out outranks one taken.
TopRows(S, n) ==
    {T \in SUBSET S :
        /\ Cardinality(T) = IF Cardinality(S) < n THEN Cardinality(S) ELSE n
        /\ \A a \in T, b \in S \ T : Priority[a] >= Priority[b]}

-----------------------------------------------------------------------------
(* enqueue(): one INSERT. run_at may lie in the future (NewJob::run_at).    *)

enqueue(j) ==
    /\ status[j] = "absent"
    /\ status' = [status EXCEPT ![j] = "pending"]
    /\ due' \in {due, due \cup {j}}
    /\ UNCHANGED <<attempts, lockedBy, locks, runs, offered, fails, overlapped,
                   retries, crashes, lost>>

\* Producers never stop: the name of a settled job that nobody executes goes
\* to the next row they insert. The old row takes no further part.
enqueue_more(j) ==
    /\ status[j] \in Settled
    /\ j \notin overlapped
    /\ ~Executing(j)
    /\ LockFree(j)
    /\ status' = [status EXCEPT ![j] = "pending"]
    /\ attempts' = [attempts EXCEPT ![j] = 0]
    /\ lockedBy' = [lockedBy EXCEPT ![j] = NoWorker]
    /\ due' \in {due \ {j}, due \cup {j}}
    /\ offered' = offered \ {j}
    /\ fails' = [fails EXCEPT ![j] = 0]
    /\ UNCHANGED <<locks, runs, overlapped, retries, crashes, lost>>

\* The clock passes run_at.
RunAtReached(j) ==
    /\ status[j] = "pending"
    /\ j \notin due
    /\ due' = due \cup {j}
    /\ UNCHANGED <<status, attempts, lockedBy, locks, runs, offered, fails,
                   overlapped, retries, crashes, lost>>

-----------------------------------------------------------------------------
(* JobWorker::tick                                                         *)

\* The CTE locks the first Batch due rows that nobody else holds.
ClaimSelect(w) ==
    /\ Idle(w)
    /\ Claimable # {}
    /\ \E S \in TopRows(Claimable, Batch) : locks' = [locks EXCEPT ![w] = S]
    /\ UNCHANGED <<rowVars, runs, offered, fails, overlapped, retries, crashes, lost>>

\* The UPDATE commits, the rows come back, and one task per row is spawned.
ClaimUpdate(w) ==
    /\ locks[w] # {}
    /\ status' = [j \in Jobs |-> IF j \in locks[w] THEN "running" ELSE status[j]]
    /\ attempts' = [j \in Jobs |-> IF j \in locks[w] THEN attempts[j] + 1 ELSE attempts[j]]
    /\ lockedBy' = [j \in Jobs |-> IF j \in locks[w] THEN w ELSE lockedBy[j]]
    /\ runs' = runs \cup {[worker |-> w, job |-> j, attempt |-> attempts[j] + 1,
                           result |-> "none"] : j \in locks[w]}
    /\ locks' = [locks EXCEPT ![w] = {}]
    /\ UNCHANGED <<due, offered, fails, overlapped, retries, crashes, lost>>

\* The UPDATE commits but its answer never arrives (the connection drops):
\* tick returns the error, no task is spawned, the rows stay running.
ClaimAnswerLost(w) ==
    /\ locks[w] # {}
    /\ lost < MaxLost
    /\ lost' = lost + 1
    /\ status' = [j \in Jobs |-> IF j \in locks[w] THEN "running" ELSE status[j]]
    /\ attempts' = [j \in Jobs |-> IF j \in locks[w] THEN attempts[j] + 1 ELSE attempts[j]]
    /\ lockedBy' = [j \in Jobs |-> IF j \in locks[w] THEN w ELSE lockedBy[j]]
    /\ locks' = [locks EXCEPT ![w] = {}]
    /\ UNCHANGED <<due, runs, offered, fails, overlapped, retries, crashes>>

-----------------------------------------------------------------------------
(* run_one. The handler runs in its own task: an error, a panic and a      *)
(* missing handler all come back as Err.                                   *)

\* A slip: the handler is not spawned in a task of its own, so its panic
\* unwinds run_one before the outcome is written.
RunHandler_PanicUnwinds(e) ==
    /\ e.result = "none"
    /\ \E x \in {{}, {[e EXCEPT !.result = "ok"]}, {[e EXCEPT !.result = "err"]}} :
          runs' = (runs \ {e}) \cup x
    /\ UNCHANGED <<rowVars, locks, offered, fails, overlapped, retries, crashes, lost>>

RunHandler(e) ==
    /\ e.result = "none"
    /\ \/ /\ runs' = (runs \ {e}) \cup {[e EXCEPT !.result = "ok"]}
          /\ UNCHANGED fails
       \/ /\ runs' = (runs \ {e}) \cup {[e EXCEPT !.result = "err"]}
          /\ fails' = [fails EXCEPT ![e.job] = @ + 1]
    /\ UNCHANGED <<rowVars, locks, offered, overlapped, retries, crashes, lost>>

\* The outcome is written WHERE id = $1: neither the row's status nor its
\* locked_by is looked at.
RecordSuccess(e) ==
    /\ e.result = "ok"
    /\ LockFree(e.job)
    /\ status' = [status EXCEPT ![e.job] = "succeeded"]
    /\ runs' = runs \ {e}
    /\ UNCHANGED <<attempts, lockedBy, due, locks, offered, fails, overlapped,
                   retries, crashes, lost>>

\* A slip: a status the ir_job table does not know.
RecordDead_UnknownStatus(e) ==
    /\ e.result = "err"
    /\ e.attempt >= MaxAttempts[e.job]
    /\ LockFree(e.job)
    /\ status' = [status EXCEPT ![e.job] = "failed"]
    /\ runs' = runs \ {e}
    /\ UNCHANGED <<attempts, lockedBy, due, locks, offered, fails, overlapped,
                   retries, crashes, lost>>

\* A slip: off by one, the last attempt is never made.
RecordDead_OneEarly(e) ==
    /\ e.result = "err"
    /\ e.attempt + 1 >= MaxAttempts[e.job]
    /\ LockFree(e.job)
    /\ status' = [status EXCEPT ![e.job] = "dead"]
    /\ runs' = runs \ {e}
    /\ UNCHANGED <<attempts, lockedBy, due, locks, offered, fails, overlapped,
                   retries, crashes, lost>>

RecordDead(e) ==
    /\ e.result = "err"
    /\ e.attempt >= MaxAttempts[e.job]
    /\ LockFree(e.job)
    /\ status' = [status EXCEPT ![e.job] = "dead"]
    /\ runs' = runs \ {e}
    /\ UNCHANGED <<attempts, lockedBy, due, locks, offered, fails, overlapped,
                   retries, crashes, lost>>

BackoffFits(n) == 2^n <= IntMax

\* Back to pending, due again after LEAST(2^attempts, 60) minutes.
RecordRetry(e) ==
    /\ e.result = "err"
    /\ e.attempt < MaxAttempts[e.job]
    /\ BackoffFits(e.attempt)
    /\ LockFree(e.job)
    /\ status' = [status EXCEPT ![e.job] = "pending"]
    /\ lockedBy' = [lockedBy EXCEPT ![e.job] = NoWorker]
    /\ due' = due \ {e.job}
    /\ runs' = runs \ {e}
    /\ UNCHANGED <<attempts, locks, offered, fails, overlapped, retries, crashes, lost>>

\* "let _ = sqlx::query(..)": the task ends even if its write did not happen,
\* because the database refused it or the backoff overflows an integer.
RecordNothing(e) ==
    /\ e.result # "none"
    /\ \/ /\ lost < MaxLost
          /\ lost' = lost + 1
       \/ /\ e.result = "err"
          /\ e.attempt < MaxAttempts[e.job]
          /\ ~BackoffFits(e.attempt)
          /\ UNCHANGED lost
    /\ runs' = runs \ {e}
    /\ UNCHANGED <<rowVars, locks, offered, fails, overlapped, retries, crashes>>

\* A server process dies and starts again: an uncommitted claim is rolled
\* back and its tasks are gone. Nothing in the code looks for rows it left.
Crash(w) ==
    /\ crashes < MaxCrashes
    /\ ~Idle(w)
    /\ crashes' = crashes + 1
    /\ locks' = [locks EXCEPT ![w] = {}]
    /\ runs' = {e \in runs : e.worker # w}
    /\ UNCHANGED <<rowVars, offered, fails, overlapped, retries, lost>>

-----------------------------------------------------------------------------
(* The operator: /settings/jobs                                            *)

\* The list shows a Retry button on dead and cancelled rows. A page stays
\* open, and its button can be pressed, after the row has moved on.
jobs_list ==
    /\ offered' = offered \cup {j \in Jobs : status[j] \in {"dead", "cancelled"}}
    /\ offered' # offered
    /\ UNCHANGED <<rowVars, locks, runs, fails, overlapped, retries, crashes, lost>>

\* A slip: the retry does not reset attempts.
job_retry_KeepsAttempts(j) ==
    /\ j \in offered
    /\ retries < MaxRetries
    /\ LockFree(j)
    /\ status' = [status EXCEPT ![j] = "pending"]
    /\ lockedBy' = [lockedBy EXCEPT ![j] = NoWorker]
    /\ due' = due \cup {j}
    /\ fails' = [fails EXCEPT ![j] = 0]
    /\ overlapped' = IF Executing(j) THEN overlapped \cup {j} ELSE overlapped
    /\ retries' = retries + 1
    /\ UNCHANGED <<attempts, locks, runs, offered, crashes, lost>>

\* UPDATE ... WHERE id = $1: the row's status is not looked at.
job_retry(j) ==
    /\ j \in offered
    /\ retries < MaxRetries
    /\ LockFree(j)
    /\ status' = [status EXCEPT ![j] = "pending"]
    /\ attempts' = [attempts EXCEPT ![j] = 0]
    /\ lockedBy' = [lockedBy EXCEPT ![j] = NoWorker]
    /\ due' = due \cup {j}
    /\ fails' = [fails EXCEPT ![j] = 0]
    /\ overlapped' = IF Executing(j) THEN overlapped \cup {j} ELSE overlapped
    /\ retries' = retries + 1
    /\ UNCHANGED <<locks, runs, offered, crashes, lost>>

\* A slip: a running job can be cancelled as well.
job_cancel_Running(j) ==
    /\ status[j] \in {"pending", "running", "dead"}
    /\ LockFree(j)
    /\ status' = [status EXCEPT ![j] = "cancelled"]
    /\ UNCHANGED <<attempts, lockedBy, due, locks, runs, offered, fails,
                   overlapped, retries, crashes, lost>>

job_cancel(j) ==
    /\ status[j] \in {"pending", "dead"}
    /\ LockFree(j)
    /\ status' = [status EXCEPT ![j] = "cancelled"]
    /\ UNCHANGED <<attempts, lockedBy, due, locks, runs, offered, fails,
                   overlapped, retries, crashes, lost>>

-----------------------------------------------------------------------------

Tick(w) == ClaimSelect(w) \/ ClaimUpdate(w)

Outcome(e) == RecordSuccess(e) \/ RecordDead(e) \/ RecordRetry(e) \/ RecordNothing(e)

Next ==
    \/ \E j \in Jobs : enqueue(j) \/ enqueue_more(j) \/ RunAtReached(j) \/ job_retry(j) \/ job_cancel(j)
    \/ \E w \in Workers : Tick(w) \/ ClaimAnswerLost(w) \/ Crash(w)
    \/ \E e \in runs : RunHandler(e) \/ Outcome(e)
    \/ jobs_list

Spec == Init /\ [][Next]_vars

(* The clock advances; every process keeps polling, its handlers return    *)
(* and its statements complete. Nobody has to enqueue, crash or press a    *)
(* button, and producers may go on for ever.                               *)
Progress(w) ==
    \/ Tick(w)
    \/ \E e \in runs : e.worker = w /\ (RunHandler(e) \/ Outcome(e))

FairSpec ==
    /\ Spec
    /\ \A j \in Jobs : WF_vars(RunAtReached(j))
    /\ \A w \in Workers : WF_vars(Progress(w))

-----------------------------------------------------------------------------
(* Properties *)

\* Two tasks never execute one job at the same time, on whatever servers they
\* run, unless an operator requeued the job under a running execution (the
\* claim statement with FOR UPDATE SKIP LOCKED; job_retry without a guard).
ExclusiveExecution ==
    \A e, f \in runs : e.job = f.job /\ e.job \notin overlapped => e = f

\* The row an execution will write to is still its own: running, locked by
\* its worker, at its attempt. So the unguarded "WHERE id = $1" of run_one
\* overwrites nobody, and a cancelled or settled job is not being executed.
ExecutionOwnsRow ==
    \A e \in runs : e.job \notin overlapped =>
        /\ status[e.job] = "running"
        /\ lockedBy[e.job] = e.worker
        /\ attempts[e.job] = e.attempt

\* A job is dead-lettered only after max_attempts handler runs of it failed,
\* and no job is attempted more often than max_attempts, crashes, lost
\* outcome writes and operator retries included.
DeadMeansExhausted ==
    \A j \in Jobs \ overlapped :
        /\ attempts[j] <= MaxAttempts[j]
        /\ status[j] = "dead" => fails[j] = MaxAttempts[j]

\* The claim that nobody works on: the row says running and no task does.
Orphan(j) == status[j] = "running" /\ ~Executing(j)

\* As long as no process crashes and the database answers every statement, no row is
\* left in running with no task, unless the job was given so many attempts
\* (32 and more for a 32-bit integer) that its backoff overflows.
OrphansNeedAFault ==
    crashes + lost = 0 =>
        \A j \in Jobs : (\A n \in 1..(MaxAttempts[j] - 1) : BackoffFits(n)) => ~Orphan(j)

\* New jobs that a pending job must let pass keep arriving for ever. Among
\* equals the code takes the older run_at first, which TopRows leaves open.
EndlesslyOutranked(j) ==
    \E k \in Jobs \ {j} : Priority[k] >= Priority[j] /\ []<><<enqueue_more(k)>>_vars

\* ORDER BY priority DESC LIMIT n has no ageing: a job can wait for ever, but
\* only behind an endless stream of jobs of its own or a higher priority. No
\* stream of lower priority, no backoff and no small batch starves it: it ends
\* succeeded, dead or cancelled, or its execution was lost.
SettlesUnlessOutranked ==
    \A j \in Jobs :
        \/ EndlesslyOutranked(j)
        \/ status[j] = "pending" ~> (status[j] \in Settled \/ Orphan(j))

\* "work that must survive a restart" (jobs.rs:3-5): whatever happens to the
\* server processes, an enqueued job is eventually settled.
SurvivesRestart ==
    \A j \in Jobs : status[j] = "pending" ~> status[j] \in Settled

\* The queue implements its delivery contract.
Contract == INSTANCE JobDelivery WITH phase <- status, tries <- attempts, void <- overlapped

\* Seen by a producer the queue is the state machine of JobDelivery.
Delivers == Contract!DeliverySpec

=============================================================================
