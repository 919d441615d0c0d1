----------------------------- MODULE JobDelivery -----------------------------
(***************************************************************************)
(* What the durable job queue promises to whoever enqueues a job, with the *)
(* workers, the row locks, the clock and the executions left out: a job    *)
(* waits, one attempt at a time is made at it, never more attempts than it *)
(* was given, and it ends done, dead or withdrawn.                         *)
(*                                                                         *)
(* The one thing that voids the promise is an operator who resubmits a job *)
(* while an attempt at it is still under way: from then on two attempts    *)
(* may report on the same row, and nothing is promised of that job.        *)
(***************************************************************************)
EXTENDS Naturals

CONSTANTS Jobs,          \* the rows of ir_job
          MaxAttempts    \* max_attempts of each job

VARIABLES phase,         \* the job's status
          tries,         \* attempts made since it was (re)submitted
          void           \* jobs resubmitted while an attempt was under way

deliveryVars == <<phase, tries, void>>

Phases == {"absent", "pending", "running", "succeeded", "dead", "cancelled"}

DeliveryInit ==
    /\ phase = [j \in Jobs |-> "absent"]
    /\ tries = [j \in Jobs |-> 0]
    /\ void = {}

Submit(j) ==
    /\ phase[j] = "absent"
    /\ phase' = [phase EXCEPT ![j] = "pending"]
    /\ UNCHANGED <<tries, void>>

\* A worker takes a batch of waiting jobs and makes one attempt at each.
Begin(S) ==
    /\ S # {}
    /\ \A j \in S : phase[j] = "pending" /\ (j \notin void => tries[j] < MaxAttempts[j])
    /\ phase' = [j \in Jobs |-> IF j \in S THEN "running" ELSE phase[j]]
    /\ tries' = [j \in Jobs |-> IF j \in S THEN tries[j] + 1 ELSE tries[j]]
    /\ UNCHANGED void

Succeed(j) ==
    /\ phase[j] = "running"
    /\ phase' = [phase EXCEPT ![j] = "succeeded"]
    /\ UNCHANGED <<tries, void>>

\* A failed attempt with attempts left.
TryAgain(j) ==
    /\ phase[j] = "running"
    /\ tries[j] < MaxAttempts[j]
    /\ phase' = [phase EXCEPT ![j] = "pending"]
    /\ UNCHANGED <<tries, void>>

\* The last attempt failed.
Bury(j) ==
    /\ phase[j] = "running"
    /\ tries[j] = MaxAttempts[j]
    /\ phase' = [phase EXCEPT ![j] = "dead"]
    /\ UNCHANGED <<tries, void>>

Withdraw(j) ==
    /\ phase[j] \in {"pending", "dead"}
    /\ phase' = [phase EXCEPT ![j] = "cancelled"]
    /\ UNCHANGED <<tries, void>>

\* An operator's retry, or the next job of that name: whatever became of the
\* job, it waits again with a fresh budget. If an attempt may still be under
\* way the promise is void.
Resubmit(j) ==
    /\ phase[j] # "absent"
    /\ phase' = [phase EXCEPT ![j] = "pending"]
    /\ tries' = [tries EXCEPT ![j] = 0]
    /\ \/ UNCHANGED void
       \/ phase[j] = "running" /\ void' = void \cup {j}

\* Nothing is promised of a job whose promise is void.
Unpromised(j) ==
    /\ j \in void
    /\ phase' \in [Jobs -> Phases]
    /\ \A k \in Jobs \ {j} : phase'[k] = phase[k]
    /\ UNCHANGED <<tries, void>>

DeliveryNext ==
    \/ \E S \in SUBSET Jobs : Begin(S)
    \/ \E j \in Jobs :
          \/ Submit(j) \/ Succeed(j) \/ TryAgain(j) \/ Bury(j)
          \/ Withdraw(j) \/ Resubmit(j) \/ Unpromised(j)

DeliverySpec == DeliveryInit /\ [][DeliveryNext]_deliveryVars

=============================================================================
