------------------------------ MODULE Approvals ------------------------------
(***************************************************************************)
(* Approvals of vortex-framework over one contact: a stage button whose    *)
(* rules ask for approvals in ordered steps creates a request; the last    *)
(* approval applies the stored transition to the record. Every statement   *)
(* commits on its own, and a decision is up to five of them.               *)
(*                                                                         *)
(* applied counts the transitions made for a request. contested, halved    *)
(* and bypassed only observe: requests two deciders worked on at once,     *)
(* requests a decision or an update was lost for, and a gate that was not  *)
(* seen because the look at its rules failed.                              *)
(***************************************************************************)
EXTENDS Integers, FiniteSets

CONSTANTS Tasks,        \* requests that can be under way at once
          Members,      \* the users
          NumSteps,     \* approval steps of the gated button
          Quota,        \* approvals asked for, per step (approval_rules.min_approvals)
          Holders,      \* who has the approver role of a step
          MaxAsked,     \* bound: approval requests
          MaxLapses     \* bound: statements that fail, tasks that die

Steps == 1..NumSteps
ASSUME ApprovalAssumption ==
    /\ IsFiniteSet(Members) /\ Members # {}
    /\ NumSteps \in Nat \ {0}
    /\ Quota \in [Steps -> Nat \ {0}] /\ Holders \in [Steps -> SUBSET Members]
    /\ MaxAsked \in Nat \ {0} /\ MaxLapses \in Nat

VARIABLES
    stage,       \* contacts.record_state
    requests,    \* approval_requests
    decisions,   \* approval_decisions
    signer,       \* the position of each task, and whose request it is
    applied,     \* transitions applied, per approval request
    contested, halved, bypassed,
    lapses       \* how much of the bound has been used

approvalVars == <<stage, requests, decisions, signer, applied, contested, halved, bypassed, lapses>>

\* The stages, and the buttons between them; the first one is gated.
Stages == {"draft", "released", "archived"}
Gated == <<"draft", "released">>
Buttons == {Gated, <<"draft", "archived">>, <<"released", "draft">>, <<"archived", "draft">>}
Asked == 1..MaxAsked
Requests == [by : Members, step : Steps, status : {"pending", "approved", "rejected"}]
Decisions == [req : Asked, step : Steps, by : Members, approve : BOOLEAN]
Deciding == {"vote", "reject", "count", "advance", "apply", "resolve"}
Signers == [at : {"idle", "gate", "move", "ask", "insert"} \cup Deciding,
           by : Members \cup {"nobody"}, req : Asked, step : Steps, approve : BOOLEAN, to : Stages]
AtRest == [at |-> "idle", by |-> "nobody", req |-> 1, step |-> 1, approve |-> FALSE, to |-> "draft"]

ApprovalTypeOK ==
    /\ stage \in Stages
    /\ DOMAIN requests \subseteq Asked /\ \A q \in DOMAIN requests : requests[q] \in Requests
    /\ decisions \subseteq Decisions
    /\ signer \in [Tasks -> Signers]
    /\ applied \in [Asked -> Nat]
    /\ contested \cup halved \subseteq Asked /\ bypassed \in BOOLEAN /\ lapses \in Nat

ApprovalInit ==
    /\ stage = "draft"
    /\ requests = [q \in {} |-> AtRest] /\ decisions = {}
    /\ signer = [t \in Tasks |-> AtRest]
    /\ applied = [q \in Asked |-> 0]
    /\ contested = {} /\ halved = {} /\ bypassed = FALSE /\ lapses = 0

-----------------------------------------------------------------------------

Go(t, step) == signer' = [signer EXCEPT ![t] = IF step = "idle" THEN AtRest ELSE [@ EXCEPT !.at = step]]
At_(t, step) == signer[t].at = step
watched == <<contested, halved, bypassed, lapses>>
paper == <<requests, decisions, applied>>
Lapse == lapses < MaxLapses /\ lapses' = lapses + 1

\* change_contact_status: the button of the stage the record is in.
change_contact_status(t) ==
    /\ At_(t, "idle")
    /\ \E b \in Buttons, m \in Members :
          /\ b[1] = stage
          /\ signer' = [signer EXCEPT ![t] =
                           IF b = Gated THEN [AtRest EXCEPT !.at = "gate", !.by = m, !.to = b[2]]
                           ELSE [AtRest EXCEPT !.at = "move", !.to = b[2]]]
    /\ UNCHANGED <<stage, paper, watched>>

\* A read that fails counts no rules.
requires_approval(t) ==
    /\ At_(t, "gate")
    /\ \/ Go(t, "ask") /\ UNCHANGED watched
       \/ Go(t, "move") /\ Lapse /\ bypassed' = TRUE /\ UNCHANGED <<contested, halved>>
    /\ UNCHANGED <<stage, paper>>

MoveRecord(t) ==
    /\ At_(t, "move")
    /\ stage' = signer[t].to
    /\ Go(t, "idle")
    /\ UNCHANGED <<paper, watched>>

PendingForRecord == \E q \in DOMAIN requests : requests[q].status = "pending"

\* A read that fails finds no request.
create_request(t) ==
    /\ At_(t, "ask")
    /\ \/ Go(t, IF PendingForRecord THEN "idle" ELSE "insert") /\ UNCHANGED watched
       \/ PendingForRecord /\ Go(t, "insert") /\ Lapse /\ UNCHANGED <<contested, halved, bypassed>>
    /\ UNCHANGED <<stage, paper>>

InsertRequest_(t) ==
    LET new == Cardinality(DOMAIN requests) + 1
    IN /\ At_(t, "insert")
       /\ new \in Asked
       /\ requests' = [q \in DOMAIN requests \cup {new} |->
                           IF q = new THEN [by |-> signer[t].by, step |-> 1, status |-> "pending"] ELSE requests[q]]
       /\ Go(t, "idle")
       /\ UNCHANGED <<stage, decisions, applied, watched>>

-----------------------------------------------------------------------------
(* decide *)

eligible_to_decide(m, q) ==
    /\ requests[q].status = "pending"
    /\ requests[q].by # m
    /\ m \in Holders[requests[q].step]
    /\ \A d \in decisions : ~(d.req = q /\ d.step = requests[q].step /\ d.by = m)

decide(t, q) ==
    /\ At_(t, "idle")
    /\ \E m \in Members, yes \in BOOLEAN :
          /\ eligible_to_decide(m, q)
          /\ signer' = [signer EXCEPT ![t] = [AtRest EXCEPT !.at = "vote", !.by = m, !.req = q,
                                                          !.step = requests[q].step, !.approve = yes]]
    /\ contested' = contested \cup (IF \E v \in Tasks \ {t} : signer[v].req = q /\ signer[v].at \in Deciding
                                    THEN {q} ELSE {})
    /\ UNCHANGED <<stage, paper, halved, bypassed, lapses>>

\* uq_approval_decision_user_step stops the second of two at once.
Vote(t) ==
    LET c == signer[t]
    IN /\ At_(t, "vote")
       /\ IF \E d \in decisions : d.req = c.req /\ d.step = c.step /\ d.by = c.by
          THEN UNCHANGED decisions /\ Go(t, "idle")
          ELSE /\ decisions' = decisions \cup {[req |-> c.req, step |-> c.step, by |-> c.by, approve |-> c.approve]}
               /\ Go(t, IF c.approve THEN "count" ELSE "reject")
       /\ UNCHANGED <<stage, requests, applied, watched>>

RejectRequest(t) ==
    /\ At_(t, "reject")
    /\ requests' = [requests EXCEPT ![signer[t].req].status = "rejected"]
    /\ Go(t, "idle")
    /\ UNCHANGED <<stage, decisions, applied, watched>>

\* A slip: the count forgets the step.
ApprovalsSoFar_AnyStep(q, s) == {d \in decisions : d.req = q /\ d.approve}

ApprovalsSoFar(q, s) == {d \in decisions : d.req = q /\ d.step = s /\ d.approve}

\* A slip: one approval more than the quota is waited for.
CountApprovals_OneMore(t) ==
    LET c == signer[t]
    IN /\ At_(t, "count")
       /\ Go(t, IF Cardinality(ApprovalsSoFar(c.req, c.step)) <= Quota[c.step] THEN "idle"
                ELSE IF c.step + 1 \in Steps THEN "advance" ELSE "apply")
       /\ UNCHANGED <<stage, paper, watched>>

CountApprovals(t) ==
    LET c == signer[t]
    IN /\ At_(t, "count")
       /\ Go(t, IF Cardinality(ApprovalsSoFar(c.req, c.step)) < Quota[c.step] THEN "idle"
                ELSE IF c.step + 1 \in Steps THEN "advance" ELSE "apply")
       /\ UNCHANGED <<stage, paper, watched>>

Advance(t) ==
    LET c == signer[t]
    IN /\ At_(t, "advance")
       /\ requests' = [requests EXCEPT ![c.req].step = c.step + 1]
       /\ Go(t, "idle")
       /\ UNCHANGED <<stage, decisions, applied, watched>>

\* From whatever stage the record is in; a failing update is not noticed.
apply_transition(t) ==
    LET q == signer[t].req
    IN /\ At_(t, "apply")
       /\ \/ /\ stage' = Gated[2] /\ applied' = [applied EXCEPT ![q] = @ + 1]
             /\ UNCHANGED watched
          \/ /\ Lapse /\ halved' = halved \cup {q}
             /\ UNCHANGED <<stage, applied, contested, bypassed>>
       /\ Go(t, "resolve")
       /\ UNCHANGED <<requests, decisions>>

Resolve(t) ==
    /\ At_(t, "resolve")
    /\ requests' = [requests EXCEPT ![signer[t].req].status = "approved"]
    /\ Go(t, "idle")
    /\ UNCHANGED <<stage, decisions, applied, watched>>

\* The task dies, or the update after a decision fails.
LoseTask(t) ==
    /\ signer[t].at # "idle" /\ Lapse
    /\ halved' = halved \cup (IF signer[t].at \in Deciding \ {"vote"} THEN {signer[t].req} ELSE {})
    /\ Go(t, "idle")
    /\ UNCHANGED <<stage, paper, contested, bypassed>>

ApprovalNext ==
    \E t \in Tasks :
        \/ change_contact_status(t) \/ requires_approval(t) \/ MoveRecord(t)
        \/ create_request(t) \/ InsertRequest_(t)
        \/ \E q \in DOMAIN requests : decide(t, q)
        \/ Vote(t) \/ RejectRequest(t) \/ CountApprovals(t) \/ Advance(t)
        \/ apply_transition(t) \/ Resolve(t) \/ LoseTask(t)

ApprovalSpec == ApprovalInit /\ [][ApprovalNext]_approvalVars

-----------------------------------------------------------------------------
(* Properties *)

Approving(q, s) == {m \in Members : \E d \in decisions : d.req = q /\ d.step = s /\ d.by = m /\ d.approve}
Quorum(q, s) == Cardinality(Approving(q, s)) >= Quota[s]
\* At every step, whoever approved holds its role and did not ask for it.
Quorate(q) ==
    \A s \in Steps : Quorum(q, s) /\ Approving(q, s) \subseteq Holders[s] \ {requests[q].by}

\* A transition is applied only when every step had its approvals, each from
\* a holder of its role other than the requester - whatever raced, was
\* rejected or died.
QuorumBeforeTransition == \A q \in DOMAIN requests : applied[q] > 0 => Quorate(q)

\* And what became of a request is what was decided: while it is pending the
\* current step lacks approvals and nobody has rejected it, a rejected one
\* was not applied, an approved one was, once. Only two people deciding on
\* one request at once, or a decision that was lost halfway, break this.
OutcomeIsTheDecision ==
    \A q \in DOMAIN requests :
        LET rejected == \E d \in decisions : d.req = q /\ ~d.approve
        IN q \notin contested \cup halved /\ (\A t \in Tasks : signer[t].at \in Deciding => signer[t].req # q) =>
            /\ applied[q] = (IF requests[q].status = "approved" THEN 1 ELSE 0)
            /\ rejected <=> requests[q].status = "rejected"
            /\ requests[q].status = "pending" => ~Quorum(q, requests[q].step)

=============================================================================
