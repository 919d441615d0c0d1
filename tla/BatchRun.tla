------------------------------ MODULE BatchRun ------------------------------
(***************************************************************************)
(* The batch engine of vortex-framework (batch.rs): one run, its items,    *)
(* the chunk jobs it dispatches over the durable job queue, and the        *)
(* operator's controls (batch_admin.rs).                                   *)
(*                                                                         *)
(* Each public function is a sequence of SQL statements without a          *)
(* transaction around them, so each statement is one step and everything   *)
(* else may happen in between: chunk handlers on several servers, and      *)
(* several callers of start / retry / resume. The job queue is taken at    *)
(* its contract (JobDelivery, which JobQueue implements): one attempt at a *)
(* time, at most MaxAttempts of them, and no promise that an attempt whose *)
(* server dies is ever made again.                                         *)
(***************************************************************************)
EXTENDS Integers, FiniteSets, FiniteSetsExt

CONSTANTS Items,        \* batch_run_item ids; ORDER BY id is their order
          Chunks,       \* ids of the batch.chunk jobs that may be enqueued
          ChunkSize,    \* chunk_size of the run, floored at 1
          MaxAttempts,  \* max_attempts of a chunk job (NewJob: 5)
          Callers,      \* requests that may call the engine at the same time
          MaxDispatches,\* bound: calls of start, retry_exceptions and resume
          MaxControls,  \* bound: calls of add_items, pause and cancel
          MaxCrashes,   \* bound: executions and calls cut short
          MaxErrors     \* bound: statements of a chunk handler that fail, and
                        \* pools that it does not get

ASSUME BatchAssumption ==
    /\ Items \subseteq Nat \ {0} /\ IsFiniteSet(Items)
    /\ Chunks \subseteq Nat \ {0} /\ IsFiniteSet(Chunks)
    /\ ChunkSize \in Nat \ {0}
    /\ MaxAttempts \in Nat \ {0}

VARIABLES
    \* batch_run
    run,        \* status
    counts,     \* total_items, processed_items, succeeded_items, exception_items
    \* batch_run_item
    item,       \* status of each item
    \* ir_job
    phase, tries, void, payload,
    \* volatile: the chunk handlers and the callers
    exec, call,
    \* observations and bounds
    clamped,    \* GREATEST(0, ..) has cut a counter off
    dispatches, controls, crashes, errors

queueVars == <<phase, tries, void, payload>>
rowVars == <<run, counts, item>>
boundVars == <<dispatches, controls, crashes, errors>>
vars == <<run, counts, item, phase, tries, void, payload, exec, call, clamped, dispatches,
          controls, crashes, errors>>

Queue == INSTANCE JobDelivery
            WITH Jobs <- Chunks, MaxAttempts <- [c \in Chunks |-> MaxAttempts]

\* 'failed' is in the schema's list of run states, but no code sets it.
RunStatuses == {"pending", "running", "paused", "completed", "cancelled"}
ItemStatuses == {"absent", "pending", "succeeded", "failed"}

NoExec == [at |-> "none", rows |-> {}, ok |-> {}, bad |-> {}, nOk |-> 0, nBad |-> 0]
NoCall == [at |-> "none", after |-> 0, chunks |-> 0, n |-> 0]

TypeOK ==
    /\ run \in RunStatuses
    /\ counts \in [total: Nat, processed: Nat, succeeded: Nat, exceptions: Nat]
    /\ item \in [Items -> ItemStatuses]
    /\ phase \in [Chunks -> Queue!Phases]
    /\ tries \in [Chunks -> 0..MaxAttempts]
    /\ void = {}
    /\ payload \in [Chunks -> SUBSET Items]
    /\ exec \in [Chunks -> [at: {"none", "load", "process", "markOk", "markFailed",
                                 "count", "complete", "bail"},
                            rows: SUBSET Items, ok: SUBSET Items, bad: SUBSET Items, nOk: Nat, nBad: Nat]]
    /\ call \in [Callers -> [at: {"none", "bump", "reopen", "paging", "mark", "complete"},
                             after: Nat, chunks: Nat, n: Nat]]
    /\ clamped \in BOOLEAN

\* create_run has inserted the row; nothing is loaded yet.
Init ==
    /\ run = "pending"
    /\ counts = [total |-> 0, processed |-> 0, succeeded |-> 0, exceptions |-> 0]
    /\ item = [i \in Items |-> "absent"]
    /\ Queue!DeliveryInit
    /\ payload = [c \in Chunks |-> {}]
    /\ exec = [c \in Chunks |-> NoExec]
    /\ call = [p \in Callers |-> NoCall]
    /\ clamped = FALSE
    /\ dispatches = 0 /\ controls = 0 /\ crashes = 0 /\ errors = 0

-----------------------------------------------------------------------------

With(st) == {i \in Items : item[i] = st}

SetItems(S, st) == item' = [i \in Items |-> IF i \in S THEN st ELSE item[i]]

\* The first n of S in id order.
FirstBy(S, n) == {i \in S : Cardinality({k \in S : k < i}) < n}

\* A slip: the counters are not guarded by GREATEST(0, ..).
NonNegative_Unguarded(n) == n

NonNegative(n) == IF n < 0 THEN 0 ELSE n

\* A slip: completion keyed on the progress counters.
maybe_complete_ByCounter ==
    run' = IF run = "running" /\ counts.processed >= counts.total THEN "completed" ELSE run

\* UPDATE .. SET status='completed' WHERE status='running' AND NOT EXISTS
\* (a pending item).
maybe_complete ==
    run' = IF run = "running" /\ With("pending") = {} THEN "completed" ELSE run

-----------------------------------------------------------------------------
(* add_items: INSERT .. ON CONFLICT DO NOTHING, then the total is bumped.  *)
(* It is called, in any number of pages, before the first start.           *)

add_items(p, S) ==
    /\ call[p].at = "none"
    /\ dispatches = 0
    /\ controls < MaxControls
    /\ S # {}
    /\ LET fresh == S \cap With("absent") IN
        /\ SetItems(fresh, "pending")
        /\ call' = IF fresh = {} THEN call
                   ELSE [call EXCEPT ![p] = [NoCall EXCEPT !.at = "bump",
                                                           !.n = Cardinality(fresh)]]
    /\ controls' = controls + 1
    /\ UNCHANGED <<run, counts, queueVars, exec, clamped, dispatches, crashes, errors>>

BumpTotal(p) ==
    /\ call[p].at = "bump"
    /\ counts' = [counts EXCEPT !.total = @ + call[p].n]
    /\ call' = [call EXCEPT ![p] = NoCall]
    /\ UNCHANGED <<run, item, queueVars, exec, clamped, boundVars>>

-----------------------------------------------------------------------------
(* start: page the pending items, enqueue a job per page, mark the run.    *)

start(p) ==
    /\ call[p].at = "none"
    /\ \A q \in Callers : call[q].at # "bump"
    /\ dispatches < MaxDispatches
    /\ dispatches' = dispatches + 1
    /\ call' = [call EXCEPT ![p] = [NoCall EXCEPT !.at = "paging"]]
    /\ UNCHANGED <<rowVars, queueVars, exec, clamped, controls, crashes, errors>>

\* One page of pending ids above the last one, and its chunk job. The code
\* selects the page and enqueues the job in two statements; ids that have
\* stopped being pending in between are those that LoadItems leaves out.
DispatchPage(p) ==
    /\ call[p].at = "paging"
    /\ LET ids == FirstBy({i \in With("pending") : i > call[p].after}, ChunkSize)
           unused == {c \in Chunks : phase[c] = "absent"} IN
        /\ ids # {}
        /\ unused # {}
        /\ Queue!Submit(Min(unused))
        /\ payload' = [payload EXCEPT ![Min(unused)] = ids]
        /\ call' = [call EXCEPT ![p].after = Max(ids), ![p].chunks = @ + 1]
    /\ UNCHANGED <<rowVars, exec, clamped, boundVars>>

NoMorePages(p) ==
    /\ call[p].at = "paging"
    /\ {i \in With("pending") : i > call[p].after} = {}
    /\ call' = [call EXCEPT ![p].at = "mark"]
    /\ UNCHANGED <<rowVars, queueVars, exec, clamped, boundVars>>

MarkRunning(p) ==
    /\ call[p].at = "mark"
    /\ run' = IF run \in {"pending", "running"} THEN "running" ELSE run
    /\ call' = IF call[p].chunks = 0 THEN [call EXCEPT ![p].at = "complete"]
               ELSE [call EXCEPT ![p] = NoCall]
    /\ UNCHANGED <<counts, item, queueVars, exec, clamped, boundVars>>

\* Nothing was pending: the run may be complete already.
StartCompletes(p) ==
    /\ call[p].at = "complete"
    /\ maybe_complete
    /\ call' = [call EXCEPT ![p] = NoCall]
    /\ UNCHANGED <<counts, item, queueVars, exec, clamped, boundVars>>

-----------------------------------------------------------------------------
(* retry_exceptions: requeue_exceptions (items, then the run), then start. *)

retry_exceptions(p, S) ==
    /\ call[p].at = "none"
    /\ dispatches < MaxDispatches
    /\ LET reset == S \cap With("failed") IN
        /\ reset # {}
        /\ SetItems(reset, "pending")
        /\ call' = [call EXCEPT ![p] = [NoCall EXCEPT !.at = "reopen",
                                                      !.n = Cardinality(reset)]]
    /\ dispatches' = dispatches + 1
    /\ UNCHANGED <<run, counts, queueVars, exec, clamped, controls, crashes, errors>>

ReopenRun(p) ==
    /\ call[p].at = "reopen"
    /\ run' = "running"
    /\ LET n == call[p].n IN
        /\ counts' = [counts EXCEPT !.processed = NonNegative(@ - n),
                                    !.exceptions = NonNegative(@ - n)]
        /\ clamped' = (clamped \/ counts.processed < n \/ counts.exceptions < n)
    /\ call' = [call EXCEPT ![p] = [NoCall EXCEPT !.at = "paging"]]
    /\ UNCHANGED <<item, queueVars, exec, boundVars>>

-----------------------------------------------------------------------------
(* pause, resume, cancel                                                   *)

pause ==
    /\ run = "running"
    /\ controls < MaxControls
    /\ controls' = controls + 1
    /\ run' = "paused"
    /\ UNCHANGED <<counts, item, queueVars, exec, call, clamped, dispatches,
                   crashes, errors>>

\* A slip: resume flips the run but dispatches nothing.
resume_NoDispatch(p) ==
    /\ run = "paused"
    /\ call[p].at = "none"
    /\ dispatches < MaxDispatches
    /\ dispatches' = dispatches + 1
    /\ run' = "running"
    /\ UNCHANGED <<counts, item, queueVars, exec, call, clamped, controls, crashes, errors>>

resume(p) ==
    /\ run = "paused"
    /\ call[p].at = "none"
    /\ dispatches < MaxDispatches
    /\ dispatches' = dispatches + 1
    /\ run' = "running"
    /\ call' = [call EXCEPT ![p] = [NoCall EXCEPT !.at = "paging"]]
    /\ UNCHANGED <<counts, item, queueVars, exec, clamped, controls, crashes, errors>>

cancel ==
    /\ run \in {"pending", "running", "paused"}
    /\ controls < MaxControls
    /\ controls' = controls + 1
    /\ run' = "cancelled"
    /\ UNCHANGED <<counts, item, queueVars, exec, call, clamped, dispatches,
                   crashes, errors>>

\* The request's server dies, or one of its statements fails and it returns
\* an error: what it has written stays.
CallCutShort(p) ==
    /\ call[p].at # "none"
    /\ crashes < MaxCrashes
    /\ crashes' = crashes + 1
    /\ call' = [call EXCEPT ![p] = NoCall]
    /\ UNCHANGED <<rowVars, queueVars, exec, clamped, dispatches, controls, errors>>

-----------------------------------------------------------------------------
(* handle_chunk                                                            *)

\* A worker takes the job and the handler reads the run: a cancelled or
\* paused run makes the chunk a no-op success. So does a tenant database whose
\* pool cannot be had: ctx.pool() falls back to the primary one, which does
\* not know the run, and the chunk is consumed with its items pending.
BeginChunk(c) ==
    /\ Queue!Begin({c})
    /\ \/ /\ exec' = [exec EXCEPT ![c] =
                [NoExec EXCEPT !.at = IF run \in {"cancelled", "paused"} THEN "bail" ELSE "load"]]
          /\ UNCHANGED errors
       \/ /\ exec' = [exec EXCEPT ![c] = [NoExec EXCEPT !.at = "bail"]]
          /\ errors < MaxErrors
          /\ errors' = errors + 1
    /\ UNCHANGED <<rowVars, payload, call, clamped, dispatches, controls, crashes>>

\* Bulk-load the items of the chunk that are still pending.
LoadItems(c) ==
    /\ exec[c].at = "load"
    /\ LET rows == payload[c] \cap With("pending") IN
        exec' = [exec EXCEPT ![c] = [NoExec EXCEPT !.at = IF rows = {} THEN "complete"
                                                          ELSE "process",
                                                   !.rows = rows]]
    /\ UNCHANGED <<rowVars, queueVars, call, clamped, boundVars>>

\* Run the processor over each loaded item; an error or a panic concerns that
\* item only. A write with nothing to write is skipped.
ProcessItems(c) ==
    /\ exec[c].at = "process"
    /\ \E ok \in SUBSET exec[c].rows :
          exec' = [exec EXCEPT ![c] =
             [NoExec EXCEPT !.at = IF ok # {} THEN "markOk" ELSE "markFailed",
                            !.ok = ok, !.bad = exec[c].rows \ ok]]
    /\ UNCHANGED <<rowVars, queueVars, call, clamped, boundVars>>

\* A slip: the outcomes are counted, not the rows affected.
MarkSucceeded_CountsAll(c) ==
    /\ exec[c].at = "markOk"
    /\ SetItems(exec[c].ok \cap With("pending"), "succeeded")
    /\ exec' = [exec EXCEPT ![c] =
          [@ EXCEPT !.ok = {}, !.nOk = Cardinality(exec[c].ok),
                    !.at = IF exec[c].bad # {} THEN "markFailed" ELSE "count"]]
    /\ UNCHANGED <<run, counts, queueVars, call, clamped, boundVars>>

\* WHERE .. status = 'pending'; rows_affected counts the fresh ones.
MarkSucceeded(c) ==
    /\ exec[c].at = "markOk"
    /\ LET fresh == exec[c].ok \cap With("pending") IN
        /\ SetItems(fresh, "succeeded")
        /\ exec' = [exec EXCEPT ![c] =
              [@ EXCEPT !.ok = {}, !.nOk = Cardinality(fresh),
                        !.at = IF exec[c].bad # {} THEN "markFailed"
                               ELSE IF fresh # {} THEN "count" ELSE "complete"]]
    /\ UNCHANGED <<run, counts, queueVars, call, clamped, boundVars>>

\* A slip: the failures are written without the status guard.
MarkFailed_Unguarded(c) ==
    /\ exec[c].at = "markFailed"
    /\ SetItems(exec[c].bad, "failed")
    /\ exec' = [exec EXCEPT ![c] =
          [@ EXCEPT !.bad = {}, !.nBad = Cardinality(exec[c].bad), !.at = "count"]]
    /\ UNCHANGED <<run, counts, queueVars, call, clamped, boundVars>>

MarkFailed(c) ==
    /\ exec[c].at = "markFailed"
    /\ LET fresh == exec[c].bad \cap With("pending") IN
        /\ SetItems(fresh, "failed")
        /\ exec' = [exec EXCEPT ![c] =
              [@ EXCEPT !.bad = {}, !.nBad = Cardinality(fresh),
                        !.at = IF fresh # {} \/ exec[c].nOk > 0 THEN "count" ELSE "complete"]]
    /\ UNCHANGED <<run, counts, queueVars, call, clamped, boundVars>>

CountOutcomes(c) ==
    /\ exec[c].at = "count"
    /\ counts' = [counts EXCEPT !.processed = @ + exec[c].nOk + exec[c].nBad,
                                !.succeeded = @ + exec[c].nOk,
                                !.exceptions = @ + exec[c].nBad]
    /\ exec' = [exec EXCEPT ![c] = [NoExec EXCEPT !.at = "complete"]]
    /\ UNCHANGED <<run, item, queueVars, call, clamped, boundVars>>

\* The handler's last statement; it returns Ok and the queue records that.
EndChunk(c) ==
    /\ \/ exec[c].at = "complete" /\ maybe_complete
       \/ exec[c].at = "bail" /\ UNCHANGED run
    /\ Queue!Succeed(c)
    /\ exec' = [exec EXCEPT ![c] = NoExec]
    /\ UNCHANGED <<counts, item, payload, call, clamped, boundVars>>

\* A statement fails and the handler returns Err: the queue tries the chunk
\* again or buries it.
ChunkFails(c) ==
    /\ exec[c].at \notin {"none", "bail"}
    /\ errors < MaxErrors
    /\ errors' = errors + 1
    /\ Queue!TryAgain(c) \/ Queue!Bury(c)
    /\ exec' = [exec EXCEPT ![c] = NoExec]
    /\ UNCHANGED <<rowVars, payload, call, clamped, dispatches, controls, crashes>>

\* The server running the chunk dies; its job stays in running.
ChunkLost(c) ==
    /\ exec[c].at # "none"
    /\ crashes < MaxCrashes
    /\ crashes' = crashes + 1
    /\ exec' = [exec EXCEPT ![c] = NoExec]
    /\ UNCHANGED <<rowVars, queueVars, call, clamped, dispatches, controls, errors>>

-----------------------------------------------------------------------------

CallStep(p) ==
    BumpTotal(p) \/ DispatchPage(p) \/ NoMorePages(p) \/ MarkRunning(p)
    \/ StartCompletes(p) \/ ReopenRun(p)

ChunkStep(c) ==
    BeginChunk(c) \/ LoadItems(c) \/ ProcessItems(c) \/ MarkSucceeded(c) \/ MarkFailed(c)
    \/ CountOutcomes(c) \/ EndChunk(c)

Next ==
    \/ \E p \in Callers :
          \/ \E S \in SUBSET Items : add_items(p, S) \/ retry_exceptions(p, S)
          \/ start(p) \/ resume(p) \/ CallStep(p) \/ CallCutShort(p)
    \/ pause \/ cancel
    \/ \E c \in Chunks : ChunkStep(c) \/ ChunkFails(c) \/ ChunkLost(c)

Spec == Init /\ [][Next]_vars

(* A call that was made runs on, and workers keep taking and running chunk *)
(* jobs (SettlesUnlessOutranked of JobQueue, for chunk jobs nothing        *)
(* outranks for ever). Operators need not do anything.                     *)
FairSpec ==
    /\ Spec
    /\ \A p \in Callers : WF_vars(CallStep(p))
    /\ \A c \in Chunks : WF_vars(ChunkStep(c))

-----------------------------------------------------------------------------
(* Properties *)

Undisturbed == crashes + errors = 0

\* Nothing is under way and no chunk job waits.
Quiet ==
    /\ \A p \in Callers : call[p].at = "none"
    /\ \A c \in Chunks : exec[c].at = "none" /\ phase[c] # "pending"

\* A completed run has no pending item, unless a retry has just requeued one
\* and is about to reopen the run. The completion test reads the item rows,
\* and no overlap of chunks, retries, pauses and resumes defeats it.
CompletedMeansDone ==
    run = "completed" /\ With("pending") # {} =>
        crashes > 0 \/ \E p \in Callers : call[p].at = "reopen"

\* "flips them with a conditional WHERE status='pending'" (batch.rs): an
\* item that succeeded stays succeeded, whatever stale chunk still holds it.
SucceededIsFinal ==
    [][\A i \in Items : item[i] = "succeeded" => item'[i] = "succeeded"]_vars

\* Loading pages twice, or again after a crash, never counts an item twice.
LoadNeverDoubleCounts ==
    counts.total <= Cardinality(Items \ With("absent"))

\* When nothing is under way the progress counters agree with the item rows,
\* though items are written and counted by separate statements and may sit in
\* several chunks; only a cut-short call or a clamped counter breaks that. And
\* never does the total count an item twice.
CountersAgree ==
  /\ LoadNeverDoubleCounts
  /\ Quiet /\ Undisturbed /\ ~clamped =>
        /\ counts.total = Cardinality(Items \ With("absent"))
        /\ counts.succeeded = Cardinality(With("succeeded"))
        /\ counts.exceptions = Cardinality(With("failed"))
        /\ counts.processed = counts.succeeded + counts.exceptions

\* Every pending item of a running run is processed, or the run is paused or
\* cancelled: no order of pausing, resuming and retrying loses an item. Only
\* a fault does (a crash, a failed statement, a pool that was not to be had).
PendingItemsProgress ==
    \A i \in Items :
        (run = "running" /\ item[i] = "pending") ~>
            (item[i] # "pending" \/ run \in {"paused", "cancelled"} \/ ~Undisturbed)

\* "such drift can never strand a finished run in running" (batch.rs),
\* "When the last item reaches a terminal state the run flips to completed".
NeverStranded ==
    Quiet /\ Undisturbed /\ run = "running" => With("pending") # {}

\* "Item processing only ever acts on pending items" (batch.rs): the
\* processor is never run for an item another chunk has already finished.
ProcessesOnlyPending ==
    [][\A c \in Chunks : ProcessItems(c) => exec[c].rows \subseteq With("pending")]_vars

=============================================================================
